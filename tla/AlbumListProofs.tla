--------------------------- MODULE AlbumListProofs ---------------------------
(***************************************************************************)
(* Proofs about AlbumList, for any pickers and any photo library.          *)
(***************************************************************************)
EXTENDS AlbumList, SequenceTheorems, TLAPS

Waiting == ToSet(operations)

(* The array of picker k is right as far as the enumeration has come.      *)
Built(k) ==
  /\ seen[k] <= Len(library[k])
  /\ ToSet(albums[k]) = {c \in {library[k][i] : i \in 1 .. seen[k]} : Listed(c)}
  /\ IsInjective(albums[k])
  /\ \A c \in ToSet(albums[k]) \cap CameraRolls : albums[k][1] = c

(* The enumeration for k has neither to begin nor to end.                  *)
Over(k) == Enumerate(k) \notin Waiting \cup running /\ seen[k] = Len(library[k])

(* Every operation is queued once, and behind what it must follow.         *)
QueueOrder ==
  /\ IsInjective(operations)
  /\ Waiting \cap running = {}
  /\ \A k \in Picker : \A i, j \in DOMAIN operations :
       operations[i] = Finish(k) /\ operations[j] = Enumerate(k) => j < i

Stages ==
  \A k \in Picker :
    /\ screen[k] = "unopened" =>
         /\ {Enumerate(k), Finish(k)} \cap (Waiting \cup running) = {}
         /\ k \notin ToSet(main) /\ seen[k] = 0
    /\ Enumerate(k) \in Waiting => seen[k] = 0
    /\ Finish(k) \in Waiting /\ Enumerate(k) \notin Waiting \cup running => Over(k)
    /\ Finish(k) \in running \/ k \in ToSet(main) \/ screen[k] = "shown" => Over(k)

IInv == /\ TypeOK /\ QueueOrder /\ Stages
        /\ \A k \in Picker : Built(k)

LEMMA Operations ==
  ASSUME NEW j, NEW k
  PROVE  /\ Enumerate(j) # Finish(k)
         /\ Enumerate(j) = Enumerate(k) => j = k
         /\ Finish(j) = Finish(k) => j = k
  BY DEF Enumerate, Finish

LEMMA Members ==
  ASSUME NEW S, NEW s \in Seq(S)
  PROVE  /\ ToSet(s) \subseteq S
         /\ \A x : x \in ToSet(s) <=> \E i \in 1 .. Len(s) : s[i] = x
         /\ DOMAIN s = 1 .. Len(s) /\ Len(s) \in Nat
  BY DEF ToSet

(* What the removal of the first element of a sequence does to its set.    *)
LEMMA HeadAndTail ==
  ASSUME NEW S, NEW s \in Seq(S), s # << >>
  PROVE  /\ Tail(s) \in Seq(S) /\ Head(s) \in S /\ Head(s) \in ToSet(s)
         /\ ToSet(s) = {Head(s)} \cup ToSet(Tail(s))
         /\ IsInjective(s) => IsInjective(Tail(s)) /\ Head(s) \notin ToSet(Tail(s))
         /\ DOMAIN Tail(s) = 1 .. (Len(s) - 1) /\ Len(s) \in Nat \ {0}
         /\ \A i \in DOMAIN Tail(s) : i + 1 \in DOMAIN s /\ Tail(s)[i] = s[i + 1]
<1>1. /\ Tail(s) \in Seq(S) /\ Head(s) = s[1] /\ Len(s) \in Nat \ {0}
      /\ DOMAIN s = 1 .. Len(s)
      /\ DOMAIN Tail(s) = 1 .. (Len(s) - 1)
      /\ \A i \in 1 .. (Len(s) - 1) : i + 1 \in 1 .. Len(s) /\ Tail(s)[i] = s[i + 1]
  BY HeadTailProperties
<1>2. 1 \in DOMAIN s
  BY <1>1
<1>3. Head(s) \in S /\ Head(s) \in ToSet(s)
  BY <1>1, <1>2 DEF ToSet
<1>4. ToSet(s) \subseteq {Head(s)} \cup ToSet(Tail(s))
  <2> SUFFICES ASSUME NEW i \in DOMAIN s, i # 1 PROVE s[i] \in ToSet(Tail(s))
    BY <1>1 DEF ToSet
  <2>1. i - 1 \in DOMAIN Tail(s) /\ (i - 1) + 1 = i
    BY <1>1
  <2>2. Tail(s)[i - 1] = s[i]
    BY <1>1, <2>1
  <2> QED BY <2>1, <2>2 DEF ToSet
<1>5. ToSet(Tail(s)) \subseteq ToSet(s)
  BY <1>1 DEF ToSet
<1>6. ASSUME IsInjective(s)
      PROVE  IsInjective(Tail(s)) /\ Head(s) \notin ToSet(Tail(s))
  <2>1. ASSUME NEW i \in DOMAIN Tail(s)  PROVE Tail(s)[i] # Head(s)
    <3>1. i + 1 \in DOMAIN s /\ i + 1 # 1 /\ Tail(s)[i] = s[i + 1]
      BY <1>1, <2>1
    <3> QED BY <1>1, <1>2, <1>6, <3>1 DEF IsInjective
  <2>2. ASSUME NEW i \in DOMAIN Tail(s), NEW j \in DOMAIN Tail(s), Tail(s)[i] = Tail(s)[j]
        PROVE  i = j
    <3>1. i + 1 \in DOMAIN s /\ j + 1 \in DOMAIN s /\ s[i + 1] = s[j + 1]
      BY <1>1, <2>2
    <3>2. i + 1 = j + 1
      BY <1>6, <3>1 DEF IsInjective
    <3> QED BY <1>1, <3>2
  <2> QED BY <2>1, <2>2 DEF IsInjective, ToSet
<1> QED BY <1>1, <1>3, <1>4, <1>5, <1>6

LEMMA Appends ==
  ASSUME NEW S, NEW s \in Seq(S), NEW t \in Seq(S)
  PROVE  /\ s \o t \in Seq(S) /\ DOMAIN (s \o t) = 1 .. (Len(s) + Len(t))
         /\ Len(s) \in Nat /\ Len(t) \in Nat
         /\ ToSet(s \o t) = ToSet(s) \cup ToSet(t)
         /\ \A i \in DOMAIN s : (s \o t)[i] = s[i]
         /\ \A i \in DOMAIN t : (s \o t)[Len(s) + i] = t[i]
<1>1. /\ s \o t \in Seq(S) /\ Len(s \o t) = Len(s) + Len(t)
      /\ Len(s) \in Nat /\ Len(t) \in Nat
      /\ DOMAIN s = 1 .. Len(s) /\ DOMAIN t = 1 .. Len(t)
  BY ConcatProperties
<1>2. DOMAIN (s \o t) = 1 .. (Len(s) + Len(t))
  BY <1>1
<1>3. ASSUME NEW i \in DOMAIN s
      PROVE  (s \o t)[i] = s[i] /\ i \in DOMAIN (s \o t)
  BY <1>1, <1>2
<1>4. ASSUME NEW i \in DOMAIN t
      PROVE  (s \o t)[Len(s) + i] = t[i] /\ Len(s) + i \in DOMAIN (s \o t)
  BY <1>1, <1>2
<1>5. ASSUME NEW i \in DOMAIN (s \o t)
      PROVE  (s \o t)[i] \in ToSet(s) \cup ToSet(t)
  <2>1. CASE i \in DOMAIN s
    BY <2>1, <1>3 DEF ToSet
  <2>2. CASE i \notin DOMAIN s
    <3>1. i - Len(s) \in DOMAIN t /\ Len(s) + (i - Len(s)) = i
      BY <2>2, <1>1, <1>2
    <3> QED BY <3>1, <1>4 DEF ToSet
  <2> QED BY <2>1, <2>2
<1>6. ToSet(s \o t) \subseteq ToSet(s) \cup ToSet(t)
  BY <1>5 DEF ToSet
<1>7. ToSet(s) \subseteq ToSet(s \o t)
  BY <1>3 DEF ToSet
<1>8. ToSet(t) \subseteq ToSet(s \o t)
  BY <1>4 DEF ToSet
<1>9. ToSet(s \o t) = ToSet(s) \cup ToSet(t)
  BY <1>6, <1>7, <1>8
<1> QED BY <1>1, <1>2, <1>3, <1>4, <1>9
-----------------------------------------------------------------------------
LEMMA InitIInv == Init => IInv
<1> SUFFICES ASSUME Init PROVE IInv
  OBVIOUS
<1>1. TypeOK
  <2>1. << >> \in Seq(Operation) /\ << >> \in Seq(Collection) /\ << >> \in Seq(Picker)
    OBVIOUS
  <2>2. /\ library \in [Picker -> Libraries \cup {<< >>}] /\ seen \in [Picker -> Nat]
        /\ albums \in [Picker -> Seq(Collection)] /\ screen \in [Picker -> Screens]
    BY <2>1 DEF Init, Screens
  <2> QED BY <2>1, <2>2 DEF Init, TypeOK, NoAlbum
<1>2. Waiting = {} /\ ToSet(main) = {} /\ running = {} /\ DOMAIN operations = {}
  BY DEF Init, ToSet, Waiting
<1>3. QueueOrder /\ Stages
  BY <1>2 DEF Init, QueueOrder, Stages, IsInjective
<1>4. ASSUME NEW k \in Picker PROVE Built(k)
  <2>1. seen[k] = 0 /\ Len(library[k]) = 0 /\ ToSet(albums[k]) = {} /\ DOMAIN albums[k] = {}
    BY DEF Init, ToSet
  <2> QED BY <2>1 DEF Built, IsInjective
<1> QED BY <1>1, <1>3, <1>4 DEF IInv

(* A step that keeps the lists keeps what has been built.                  *)
LEMMA BuiltKept ==
  ASSUME IInv, UNCHANGED lists
  PROVE  \A k \in Picker : Built(k)'
  BY DEF IInv, Built, lists

LEMMA OpenIInv == ASSUME IInv, NEW k \in Picker, Open(k) PROVE IInv'
<1> DEFINE n == Len(operations)
           t == <<Enumerate(k), Finish(k)>>
<1>0. /\ TypeOK /\ QueueOrder /\ Stages
      /\ operations \in Seq(Operation) /\ t \in Seq(Operation)
      /\ operations' = operations \o t
      /\ running' = running /\ main' = main
      /\ UNCHANGED <<lists, panel>>
      /\ screen[k] = "unopened" /\ screen' = [screen EXCEPT ![k] = "loading"]
  <2>1. Enumerate(k) \in Operation /\ Finish(k) \in Operation
    BY DEF Operation
  <2>2. t \in Seq(Operation)
    BY <2>1
  <2> QED BY <2>2 DEF IInv, TypeOK, Open
<1>1. DOMAIN t = {1, 2} /\ t[1] = Enumerate(k) /\ t[2] = Finish(k) /\ Len(t) = 2
  OBVIOUS
<1>2. /\ operations' \in Seq(Operation) /\ DOMAIN operations' = 1 .. (n + 2) /\ n \in Nat
      /\ DOMAIN operations = 1 .. n
      /\ Waiting' = Waiting \cup {Enumerate(k), Finish(k)}
      /\ \A i \in 1 .. n : operations'[i] = operations[i] /\ operations[i] \in Waiting
      /\ operations'[n + 1] = Enumerate(k) /\ operations'[n + 2] = Finish(k)
  <2>1. ToSet(t) = {Enumerate(k), Finish(k)}
    BY <1>1 DEF ToSet
  <2>2. 1 \in DOMAIN t /\ 2 \in DOMAIN t
    BY <1>1
  <2> HIDE DEF t
  <2>3. /\ operations' \in Seq(Operation) /\ DOMAIN operations' = 1 .. (n + 2) /\ n \in Nat
        /\ ToSet(operations') = ToSet(operations) \cup ToSet(t)
        /\ \A i \in DOMAIN operations : operations'[i] = operations[i]
        /\ \A i \in DOMAIN t : operations'[n + i] = t[i]
    <3> DEFINE s == operations
    <3>1. s \in Seq(Operation) /\ t \in Seq(Operation) /\ operations' = s \o t
      BY <1>0
    <3>2. Len(s) = n /\ Len(t) = 2
      BY <1>1
    <3> HIDE DEF s, n
    <3>3. /\ s \o t \in Seq(Operation) /\ DOMAIN (s \o t) = 1 .. (Len(s) + Len(t))
          /\ Len(s) \in Nat
          /\ ToSet(s \o t) = ToSet(s) \cup ToSet(t)
          /\ \A i \in DOMAIN s : (s \o t)[i] = s[i]
          /\ \A i \in DOMAIN t : (s \o t)[Len(s) + i] = t[i]
      BY <3>1, Appends
    <3> QED BY <3>1, <3>2, <3>3 DEF s
  <2>4. /\ DOMAIN operations = 1 .. n
        /\ \A i \in DOMAIN operations : operations[i] \in Waiting
    BY <1>0 DEF Waiting, ToSet
  <2>5. operations'[n + 1] = Enumerate(k) /\ operations'[n + 2] = Finish(k)
    BY <1>1, <2>2, <2>3
  <2>6. Waiting' = Waiting \cup {Enumerate(k), Finish(k)}
    BY <2>1, <2>3 DEF Waiting
  <2> QED BY <2>3, <2>4, <2>5, <2>6
<1>3. {Enumerate(k), Finish(k)} \cap (Waiting \cup running) = {} /\ k \notin ToSet(main)
  BY <1>0 DEF Stages
<1>4. ASSUME NEW i \in DOMAIN operations'
      PROVE  \/ i \in 1 .. n /\ operations'[i] \in Waiting
             \/ i = n + 1 /\ operations'[i] = Enumerate(k)
             \/ i = n + 2 /\ operations'[i] = Finish(k)
  BY <1>2, <1>4
<1>5. TypeOK'
  BY <1>0, <1>2 DEF TypeOK, Screens, lists, panel
<1>6. QueueOrder'
  <2>1. IsInjective(operations')
    <3> SUFFICES ASSUME NEW i \in DOMAIN operations', NEW j \in DOMAIN operations',
                        operations'[i] = operations'[j]
                 PROVE  i = j
      BY DEF IsInjective
    <3>1. CASE i \in 1 .. n /\ j \in 1 .. n
      BY <3>1, <1>0, <1>2 DEF QueueOrder, IsInjective
    <3>2. CASE ~ (i \in 1 .. n /\ j \in 1 .. n)
      BY <3>2, <1>3, <1>4, Operations
    <3> QED BY <3>1, <3>2
  <2>2. (Waiting \cap running)' = {}
    BY <1>0, <1>2, <1>3 DEF QueueOrder
  <2>3. ASSUME NEW l \in Picker, NEW i \in DOMAIN operations', NEW j \in DOMAIN operations',
               operations'[i] = Finish(l), operations'[j] = Enumerate(l)
        PROVE  j < i
    <3>1. CASE l = k
      <4>1. i = n + 2 /\ j = n + 1
        BY <2>3, <3>1, <1>3, <1>4, Operations
      <4> QED BY <4>1, <1>2
    <3>2. CASE l # k
      <4>1. i \in 1 .. n /\ j \in 1 .. n
        BY <2>3, <3>2, <1>4, Operations
      <4> QED BY <4>1, <2>3, <1>0, <1>2 DEF QueueOrder
    <3> QED BY <3>1, <3>2
  <2> QED BY <2>1, <2>2, <2>3 DEF QueueOrder
<1>7. ASSUME NEW l \in Picker
      PROVE  /\ screen'[l] = "unopened" =>
                  /\ {Enumerate(l), Finish(l)} \cap (Waiting \cup running)' = {}
                  /\ l \notin ToSet(main') /\ seen'[l] = 0
             /\ Enumerate(l) \in Waiting' => seen'[l] = 0
             /\ Finish(l) \in Waiting' /\ Enumerate(l) \notin (Waiting \cup running)'
                  => Over(l)'
             /\ Finish(l) \in running' \/ l \in ToSet(main') \/ screen'[l] = "shown"
                  => Over(l)'
  <2>1. CASE l = k
    <3>1. seen[k] = 0
      BY <1>0 DEF Stages
    <3> QED BY <2>1, <3>1, <1>0, <1>2, <1>3 DEF TypeOK, lists
  <2>2. CASE l # k
    <3>1. /\ Enumerate(l) \in Waiting' <=> Enumerate(l) \in Waiting
          /\ Finish(l) \in Waiting' <=> Finish(l) \in Waiting
      BY <1>2, <2>2, Operations
    <3>2. screen'[l] = screen[l] /\ (Over(l)' <=> Over(l))
      BY <1>0, <2>2, <3>1 DEF TypeOK, Over, lists
    <3> QED BY <1>0, <3>1, <3>2 DEF Stages, lists
  <2> QED BY <2>1, <2>2
<1>8. Stages'
  BY <1>7 DEF Stages
<1> QED BY <1>0, <1>5, <1>6, <1>8, BuiltKept DEF IInv

LEMMA StartIInv == ASSUME IInv, Start PROVE IInv'
<1> DEFINE o == Head(operations)
<1>0. /\ TypeOK /\ QueueOrder /\ Stages /\ operations \in Seq(Operation)
      /\ operations # << >> /\ running = {} /\ running' = {o}
      /\ operations' = Tail(operations)
      /\ UNCHANGED <<seen, albums, main, screen, panel>>
      /\ \E lib \in Libraries :
           library' = [k \in Picker |-> IF o = Enumerate(k) THEN lib ELSE library[k]]
  BY DEF IInv, TypeOK, Start, Begin
<1>1. /\ operations' \in Seq(Operation) /\ o \in Operation /\ o \in Waiting
      /\ Waiting = {o} \cup Waiting' /\ o \notin Waiting'
      /\ IsInjective(operations')
      /\ DOMAIN operations' = 1 .. (Len(operations) - 1) /\ Len(operations) \in Nat \ {0}
      /\ \A i \in DOMAIN operations' :
           i + 1 \in DOMAIN operations /\ operations'[i] = operations[i + 1]
  <2> DEFINE s == operations
  <2>1. s \in Seq(Operation) /\ s # << >> /\ IsInjective(s) /\ operations' = Tail(s)
    BY <1>0 DEF QueueOrder
  <2>2. Waiting = ToSet(s) /\ Waiting' = ToSet(Tail(s)) /\ o = Head(s)
    BY <1>0 DEF Waiting
  <2> HIDE DEF s, o
  <2>3. /\ Tail(s) \in Seq(Operation) /\ Head(s) \in Operation /\ Head(s) \in ToSet(s)
        /\ ToSet(s) = {Head(s)} \cup ToSet(Tail(s))
        /\ IsInjective(Tail(s)) /\ Head(s) \notin ToSet(Tail(s))
        /\ DOMAIN Tail(s) = 1 .. (Len(s) - 1) /\ Len(s) \in Nat \ {0}
        /\ \A i \in DOMAIN Tail(s) : i + 1 \in DOMAIN s /\ Tail(s)[i] = s[i + 1]
    BY <2>1, HeadAndTail
  <2> QED BY <2>1, <2>2, <2>3 DEF s
<1> HIDE DEF o
<1>2. Waiting \cup running = (Waiting \cup running)'
  BY <1>0, <1>1
<1>3. TypeOK'
  BY <1>0, <1>1 DEF TypeOK, panel
<1>4. QueueOrder'
  <2>1. ASSUME NEW k \in Picker, NEW i \in DOMAIN operations', NEW j \in DOMAIN operations',
               operations'[i] = Finish(k), operations'[j] = Enumerate(k)
        PROVE  j < i
    <3>1. /\ i + 1 \in DOMAIN operations /\ operations[i + 1] = Finish(k)
          /\ j + 1 \in DOMAIN operations /\ operations[j + 1] = Enumerate(k)
      BY <1>1, <2>1
    <3>2. j + 1 < i + 1
      BY <1>0, <3>1 DEF QueueOrder
    <3> QED BY <1>1, <3>2
  <2> QED BY <1>0, <1>1, <2>1 DEF QueueOrder
<1>5. ASSUME NEW k \in Picker, o = Finish(k) PROVE Enumerate(k) \notin Waiting
  <2> SUFFICES ASSUME NEW j \in DOMAIN operations, operations[j] = Enumerate(k) PROVE FALSE
    BY DEF Waiting, ToSet
  <2>1. 1 \in DOMAIN operations /\ operations[1] = Finish(k) /\ j \in 1 .. Len(operations)
    BY <1>0, <1>1, <1>5 DEF o
  <2>2. j < 1
    BY <1>0, <2>1 DEF QueueOrder
  <2> QED BY <2>1, <2>2
<1>6. ASSUME NEW k \in Picker, Over(k) PROVE Over(k)'
  <2>1. o # Enumerate(k)
    BY <1>1, <1>6 DEF Over
  <2>2. library'[k] = library[k]
    BY <1>0, <2>1 DEF TypeOK
  <2> QED BY <1>0, <1>2, <1>6, <2>2 DEF Over
<1>7. Stages'
  <2> SUFFICES ASSUME NEW k \in Picker
               PROVE  /\ screen'[k] = "unopened" =>
                           /\ {Enumerate(k), Finish(k)} \cap (Waiting \cup running)' = {}
                           /\ k \notin ToSet(main') /\ seen'[k] = 0
                      /\ Enumerate(k) \in Waiting' => seen'[k] = 0
                      /\ Finish(k) \in Waiting' /\ Enumerate(k) \notin (Waiting \cup running)'
                           => Over(k)'
                      /\ Finish(k) \in running' \/ k \in ToSet(main') \/ screen'[k] = "shown"
                           => Over(k)'
    BY DEF Stages
  <2>1. Finish(k) \in running' => Over(k)
    BY <1>0, <1>1, <1>5 DEF Stages
  <2> QED BY <1>0, <1>1, <1>2, <1>6, <2>1 DEF Stages
<1>8. ASSUME NEW k \in Picker PROVE Built(k)'
  <2>1. CASE o = Enumerate(k)
    <3>1. seen[k] = 0 /\ Built(k)
      BY <1>0, <1>1, <2>1 DEF Stages, IInv
    <3>2. ToSet(albums[k]) = {} /\ IsInjective(albums[k])
      BY <3>1 DEF Built
    <3>3. library'[k] \in Seq(Collection)
      <4>1. library'[k] \in Libraries \cup {<< >>}
        BY <1>3 DEF TypeOK
      <4>2. << >> \in Seq(Collection)
        OBVIOUS
      <4> QED BY <4>1, <4>2, LibraryAssumption
    <3>4. 0 <= Len(library'[k])
      BY <3>3
    <3> QED BY <1>0, <3>1, <3>2, <3>4 DEF Built
  <2>2. CASE o # Enumerate(k)
    <3>1. library'[k] = library[k] /\ Built(k)
      BY <1>0, <2>2 DEF TypeOK, IInv
    <3> QED BY <1>0, <3>1 DEF Built
  <2> QED BY <2>1, <2>2
<1> QED BY <1>3, <1>4, <1>7, <1>8 DEF IInv

(* The libraries' sequences, seen by a running enumeration.                *)
LEMMA LibraryFacts ==
  ASSUME TypeOK, NEW k \in Picker
  PROVE  /\ library[k] \in Seq(Collection) /\ IsInjective(library[k])
         /\ Len(library[k]) \in Nat /\ DOMAIN library[k] = 1 .. Len(library[k])
<1>1. library[k] \in Libraries \cup {<< >>}
  BY DEF TypeOK
<1>2. << >> \in Seq(Collection) /\ DOMAIN << >> = {}
  OBVIOUS
<1>3. library[k] \in Seq(Collection) /\ IsInjective(library[k])
  BY <1>1, <1>2, LibraryAssumption DEF IsInjective
<1> QED BY <1>3

(* An album goes in at either end, and the front stays where it was.       *)
LEMMA InFront ==
  ASSUME NEW S, NEW s \in Seq(S), NEW c \in S, c \notin ToSet(s), IsInjective(s)
  PROVE  /\ <<c>> \o s \in Seq(S) /\ ToSet(<<c>> \o s) = ToSet(s) \cup {c}
         /\ IsInjective(<<c>> \o s) /\ (<<c>> \o s)[1] = c
<1> DEFINE t == <<c>>
           u == t \o s
<1>1. t \in Seq(S) /\ DOMAIN t = {1} /\ Len(t) = 1 /\ t[1] = c
  OBVIOUS
<1>2. ToSet(t) = {c}
  BY <1>1 DEF ToSet
<1> HIDE DEF t
<1>3. /\ u \in Seq(S) /\ DOMAIN u = 1 .. (1 + Len(s)) /\ Len(s) \in Nat
      /\ ToSet(u) = ToSet(t) \cup ToSet(s)
      /\ u[1] = c /\ \A i \in DOMAIN s : u[1 + i] = s[i]
  BY <1>1, Appends
<1>4. DOMAIN s = 1 .. Len(s)
  OBVIOUS
<1> HIDE DEF u
<1>5. ASSUME NEW i \in DOMAIN u
      PROVE  \/ i = 1 /\ u[i] = c
             \/ i - 1 \in DOMAIN s /\ u[i] = s[i - 1] /\ u[i] \in ToSet(s)
  <2>1. CASE i = 1
    BY <2>1, <1>3
  <2>2. CASE i # 1
    <3>1. i - 1 \in DOMAIN s /\ 1 + (i - 1) = i
      BY <1>3, <1>4, <2>2
    <3> QED BY <3>1, <1>3 DEF ToSet
  <2> QED BY <2>1, <2>2
<1>6. IsInjective(u)
  <2> SUFFICES ASSUME NEW i \in DOMAIN u, NEW j \in DOMAIN u, u[i] = u[j] PROVE i = j
    BY DEF IsInjective
  <2>1. CASE i = 1 \/ j = 1
    BY <2>1, <1>5
  <2>2. CASE i # 1 /\ j # 1
    <3>1. i - 1 = j - 1
      BY <2>2, <1>5 DEF IsInjective
    <3> QED BY <3>1, <1>3
  <2> QED BY <2>1, <2>2
<1>7. ToSet(u) = ToSet(s) \cup {c}
  BY <1>2, <1>3
<1> QED BY <1>3, <1>6, <1>7 DEF t, u

LEMMA Behind ==
  ASSUME NEW S, NEW s \in Seq(S), NEW c \in S, c \notin ToSet(s), IsInjective(s)
  PROVE  /\ Append(s, c) \in Seq(S) /\ ToSet(Append(s, c)) = ToSet(s) \cup {c}
         /\ IsInjective(Append(s, c))
         /\ \A d \in ToSet(s) : s[1] = d => Append(s, c)[1] = d
<1> DEFINE u == Append(s, c)
<1>1. /\ u \in Seq(S) /\ Len(s) \in Nat /\ DOMAIN s = 1 .. Len(s)
      /\ DOMAIN u = 1 .. (Len(s) + 1)
      /\ \A i \in 1 .. Len(s) : u[i] = s[i]
      /\ u[Len(s) + 1] = c
  BY AppendProperties
<1>d. DOMAIN u = DOMAIN s \cup {Len(s) + 1}
  BY <1>1
<1> HIDE DEF u
<1>2. ToSet(u) = ToSet(s) \cup {c}
  BY <1>1, <1>d DEF ToSet
<1>3. IsInjective(u)
  <2> SUFFICES ASSUME NEW i \in DOMAIN u, NEW j \in DOMAIN u, u[i] = u[j] PROVE i = j
    BY DEF IsInjective
  <2>1. \A l \in DOMAIN s : u[l] \in ToSet(s)
    BY <1>1 DEF ToSet
  <2> QED BY <1>1, <1>d, <2>1 DEF IsInjective
<1>4. ASSUME NEW d \in ToSet(s) PROVE 1 \in DOMAIN s
  BY <1>1 DEF ToSet
<1> QED BY <1>1, <1>2, <1>3, <1>4 DEF u

LEMMA LookAtIInv == ASSUME IInv, NEW k \in Picker, LookAt(k) PROVE IInv'
<1> DEFINE c == library[k][seen[k] + 1]
           s == albums[k]
<1>0. /\ TypeOK /\ QueueOrder /\ Stages /\ Built(k)
      /\ UNCHANGED <<operations, running, library, main, screen, panel>>
      /\ Enumerate(k) \in running /\ seen[k] < Len(library[k])
      /\ seen' = [seen EXCEPT ![k] = @ + 1]
      /\ s \in Seq(Collection) /\ seen[k] \in Nat
      /\ \A j \in Picker : j # k => albums'[j] = albums[j] /\ seen'[j] = seen[j]
  BY DEF IInv, TypeOK, LookAt, queue
<1>1. c \in Collection /\ seen[k] + 1 \in DOMAIN library[k] /\ seen'[k] = seen[k] + 1
      /\ Len(library[k]) \in Nat
  BY <1>0, LibraryFacts DEF TypeOK
<1>2. albums'[k] = IF ~ Listed(c) THEN s
                   ELSE IF c \in CameraRolls THEN <<c>> \o s ELSE Append(s, c)
  BY <1>0 DEF LookAt, TypeOK
<1>3. c \notin ToSet(s)
  <2> HIDE DEF c
  <2> SUFFICES ASSUME c \in ToSet(s) PROVE FALSE
    OBVIOUS
  <2>0. PICK i \in 1 .. seen[k] : library[k][i] = c
    BY <1>0 DEF Built
  <2>1. i \in DOMAIN library[k] /\ i # seen[k] + 1
    BY <1>0, <1>1, LibraryFacts
  <2> QED BY <1>0, <1>1, <2>0, <2>1, LibraryFacts DEF IsInjective, c
<1>4. {library[k][i] : i \in 1 .. (seen[k] + 1)} = {library[k][i] : i \in 1 .. seen[k]} \cup {c}
  <2>1. 1 .. (seen[k] + 1) = (1 .. seen[k]) \cup {seen[k] + 1}
    BY <1>0
  <2> QED BY <2>1
<1>5. /\ albums'[k] \in Seq(Collection) /\ IsInjective(albums'[k])
      /\ ToSet(albums'[k]) = IF Listed(c) THEN ToSet(s) \cup {c} ELSE ToSet(s)
      /\ \A d \in ToSet(albums'[k]) \cap CameraRolls : albums'[k][1] = d
  <2> HIDE DEF c, s
  <2>0. IsInjective(s) /\ \A d \in ToSet(s) \cap CameraRolls : s[1] = d
    BY <1>0 DEF Built, s
  <2>1. CASE ~ Listed(c)
    BY <2>0, <2>1, <1>0, <1>2
  <2>2. CASE Listed(c) /\ c \in CameraRolls
    <3>1. albums'[k] = <<c>> \o s
      BY <2>2, <1>2
    <3>2. /\ <<c>> \o s \in Seq(Collection) /\ ToSet(<<c>> \o s) = ToSet(s) \cup {c}
          /\ IsInjective(<<c>> \o s) /\ (<<c>> \o s)[1] = c
      BY <1>0, <1>1, <1>3, <2>0, InFront
    <3> QED BY <2>2, <3>1, <3>2, LibraryAssumption
  <2>3. CASE Listed(c) /\ c \notin CameraRolls
    <3>1. albums'[k] = Append(s, c)
      BY <2>3, <1>2
    <3>2. /\ Append(s, c) \in Seq(Collection) /\ ToSet(Append(s, c)) = ToSet(s) \cup {c}
          /\ IsInjective(Append(s, c))
          /\ \A d \in ToSet(s) : s[1] = d => Append(s, c)[1] = d
      BY <1>0, <1>1, <1>3, <2>0, Behind
    <3> QED BY <2>0, <2>3, <3>1, <3>2
  <2> QED BY <2>1, <2>2, <2>3
<1>6. Built(k)'
  <2>1. {d \in {library[k][i] : i \in 1 .. (seen[k] + 1)} : Listed(d)}
          = IF Listed(c) THEN ToSet(s) \cup {c} ELSE ToSet(s)
    <3>1. ToSet(s) = {d \in {library[k][i] : i \in 1 .. seen[k]} : Listed(d)}
      BY <1>0 DEF Built
    <3> HIDE DEF s, c
    <3> QED BY <1>4, <3>1
  <2>2. seen'[k] <= Len(library'[k])
    BY <1>0, <1>1
  <2> HIDE DEF s, c
  <2> QED BY <1>0, <1>1, <1>5, <2>1, <2>2 DEF Built
<1>7. ASSUME NEW j \in Picker, j # k PROVE Built(j)'
  BY <1>0, <1>7 DEF Built, IInv
<1>8. TypeOK'
  <2> HIDE DEF s, c
  <2>1. albums' \in [Picker -> Seq(Collection)]
    BY <1>5 DEF LookAt, IInv, TypeOK
  <2>2. seen' \in [Picker -> Nat]
    BY <1>0 DEF TypeOK
  <2> QED BY <1>0, <2>1, <2>2 DEF TypeOK, panel
<1>9. QueueOrder' /\ Waiting' = Waiting
  BY <1>0 DEF QueueOrder, Waiting
<1>10. Stages'
  <2>1. ~ Over(k) /\ Enumerate(k) \notin Waiting
    BY <1>0 DEF Over, QueueOrder
  <2>2. screen[k] # "unopened" /\ screen[k] # "shown" /\ Finish(k) \notin running
        /\ k \notin ToSet(main)
    BY <1>0, <2>1 DEF Stages
  <2>3. \A j \in Picker : j # k => (Over(j)' <=> Over(j))
    BY <1>0, <1>9 DEF Over
  <2> QED BY <1>0, <1>9, <2>1, <2>2, <2>3 DEF Stages
<1> QED BY <1>6, <1>7, <1>8, <1>9, <1>10 DEF IInv

LEMMA EnumerateDoneIInv == ASSUME IInv, NEW k \in Picker, EnumerateDone(k) PROVE IInv'
<1>0. /\ TypeOK /\ QueueOrder /\ Stages
      /\ UNCHANGED <<operations, lists, main, screen, panel>>
      /\ Enumerate(k) \in running /\ seen[k] = Len(library[k])
      /\ running' = running \ {Enumerate(k)}
  BY DEF IInv, EnumerateDone
<1>1. TypeOK'
  BY <1>0 DEF TypeOK, lists, panel
<1>2. QueueOrder' /\ Waiting' = Waiting
  BY <1>0 DEF QueueOrder, Waiting
<1>3. Over(k)'
  BY <1>0, <1>2 DEF Over, QueueOrder, lists
<1>4. \A j \in Picker : j # k => (Over(j)' <=> Over(j))
  BY <1>0, <1>2, Operations DEF Over, lists
<1>5. ASSUME NEW j \in Picker
      PROVE  /\ Finish(j) \in running' => Finish(j) \in running
             /\ Finish(j) \in running => Finish(j) \in running'
             /\ j # k => (Enumerate(j) \in running => Enumerate(j) \in running')
  <2>1. Finish(j) # Enumerate(k) /\ (j # k => Enumerate(j) # Enumerate(k))
    BY Operations
  <2> QED BY <1>0, <2>1
<1>6. Stages'
  BY <1>0, <1>2, <1>3, <1>4, <1>5 DEF Stages, lists
<1> QED BY <1>0, <1>1, <1>2, <1>6, BuiltKept DEF IInv

LEMMA FinishDoneIInv == ASSUME IInv, NEW k \in Picker, FinishDone(k) PROVE IInv'
<1>0. /\ TypeOK /\ QueueOrder /\ Stages /\ main \in Seq(Picker)
      /\ UNCHANGED <<operations, lists, screen, panel>>
      /\ Finish(k) \in running
      /\ running' = running \ {Finish(k)}
      /\ main' = Append(main, k)
  BY DEF IInv, FinishDone, TypeOK
<1>1. /\ main' \in Seq(Picker)
      /\ ToSet(main') = ToSet(main) \cup {k}
  <2>1. /\ main' \in Seq(Picker) /\ DOMAIN main = 1 .. Len(main)
        /\ DOMAIN main' = DOMAIN main \cup {Len(main) + 1}
        /\ \A i \in DOMAIN main : main'[i] = main[i]
        /\ main'[Len(main) + 1] = k
    BY <1>0, AppendProperties
  <2> QED BY <2>1 DEF ToSet
<1>2. TypeOK'
  BY <1>0, <1>1 DEF TypeOK, lists, panel
<1>3. QueueOrder' /\ Waiting' = Waiting
  BY <1>0 DEF QueueOrder, Waiting
<1>4. \A j \in Picker : Over(j) => Over(j)'
  BY <1>0, <1>3 DEF Over, lists
<1>5. Over(k)
  BY <1>0 DEF Stages
<1>6. \A j \in Picker : Enumerate(j) \in running' <=> Enumerate(j) \in running
  BY <1>0, Operations
<1>7. screen[k] # "unopened"
  BY <1>0 DEF Stages
<1>8. Stages'
  BY <1>0, <1>1, <1>3, <1>4, <1>5, <1>6, <1>7 DEF Stages, lists
<1> QED BY <1>0, <1>2, <1>3, <1>8, BuiltKept DEF IInv

LEMMA CompleteIInv == ASSUME IInv, Complete PROVE IInv'
<1> DEFINE k == Head(main)
<1>0. /\ TypeOK /\ QueueOrder /\ Stages /\ main \in Seq(Picker) /\ main # << >>
      /\ main' = Tail(main)
      /\ UNCHANGED <<operations, running, lists, expand, tall, settling>>
      /\ IF OnScreen(k)
         THEN /\ screen' = [screen EXCEPT ![k] = "shown"]
              /\ current' = FirstObject(albums[k])
         ELSE UNCHANGED <<screen, current>>
  BY DEF IInv, Complete, TypeOK, queue
<1> HIDE DEF k
<1>1. /\ main' \in Seq(Picker) /\ k \in Picker /\ k \in ToSet(main)
      /\ ToSet(main') \subseteq ToSet(main)
  BY <1>0, HeadAndTail DEF k
<1>2. screen' \in [Picker -> Screens] /\ current' \subseteq Collection
  <2>1. FirstObject(albums[k]) \subseteq Collection
    <3>1. albums[k] \in Seq(Collection)
      BY <1>0, <1>1 DEF TypeOK
    <3>2. albums[k] # << >> => albums[k][1] \in Collection
      BY <3>1
    <3> QED BY <3>2 DEF FirstObject, NoAlbum
  <2> QED BY <1>0, <2>1 DEF TypeOK, Screens
<1>3. TypeOK'
  BY <1>0, <1>1, <1>2 DEF TypeOK, lists
<1>4. QueueOrder' /\ Waiting' = Waiting /\ \A j \in Picker : Over(j)' <=> Over(j)
  BY <1>0 DEF QueueOrder, Waiting, Over, lists
<1>5. Over(k)
  BY <1>0, <1>1 DEF Stages
<1>6. Stages'
  <2> SUFFICES ASSUME NEW j \in Picker
               PROVE  /\ screen'[j] = "unopened" =>
                           /\ {Enumerate(j), Finish(j)} \cap (Waiting \cup running)' = {}
                           /\ j \notin ToSet(main') /\ seen'[j] = 0
                      /\ Enumerate(j) \in Waiting' => seen'[j] = 0
                      /\ Finish(j) \in Waiting' /\ Enumerate(j) \notin (Waiting \cup running)'
                           => Over(j)'
                      /\ Finish(j) \in running' \/ j \in ToSet(main') \/ screen'[j] = "shown"
                           => Over(j)'
    BY DEF Stages
  <2>1. seen' = seen /\ running' = running /\ Waiting' = Waiting /\ (Over(j)' <=> Over(j))
    BY <1>0, <1>4 DEF lists
  <2>s. /\ screen[j] = "unopened" =>
             /\ {Enumerate(j), Finish(j)} \cap (Waiting \cup running) = {}
             /\ j \notin ToSet(main) /\ seen[j] = 0
        /\ Finish(j) \in running \/ j \in ToSet(main) \/ screen[j] = "shown" => Over(j)
    BY <1>0 DEF Stages
  <2>m. j \in ToSet(main') => j \in ToSet(main)
    BY <1>1
  <2>i. /\ screen'[j] = "unopened" => screen[j] = "unopened"
        /\ screen'[j] = "shown" => screen[j] = "shown" \/ j = k
    <3>1. CASE screen' = screen
      BY <3>1
    <3>2. CASE screen' = [screen EXCEPT ![k] = "shown"]
      <4>1. screen \in [Picker -> Screens]
        BY <1>0 DEF TypeOK
      <4>2. screen'[j] = IF j = k THEN "shown" ELSE screen[j]
        BY <3>2, <4>1
      <4> QED BY <4>2
    <3> QED BY <1>0, <3>1, <3>2
  <2>w. (Waiting \cup running)' = Waiting \cup running
    BY <2>1
  <2>2. ASSUME screen'[j] = "unopened"
        PROVE  /\ {Enumerate(j), Finish(j)} \cap (Waiting \cup running)' = {}
               /\ j \notin ToSet(main') /\ seen'[j] = 0
    <3>1. screen[j] = "unopened"
      BY <2>2, <2>i
    <3>2. /\ {Enumerate(j), Finish(j)} \cap (Waiting \cup running) = {}
          /\ j \notin ToSet(main) /\ seen[j] = 0
      BY <3>1, <2>s
    <3>3. j \notin ToSet(main')
      BY <3>2, <2>m
    <3>4. seen'[j] = 0
      BY <3>2, <2>1
    <3>5. {Enumerate(j), Finish(j)} \cap (Waiting \cup running)' = {}
      BY <3>2, <2>w
    <3> QED BY <3>3, <3>4, <3>5
  <2>3. /\ Enumerate(j) \in Waiting' => seen'[j] = 0
        /\ Finish(j) \in Waiting' /\ Enumerate(j) \notin (Waiting \cup running)' => Over(j)'
    BY <1>0, <2>1 DEF Stages
  <2>4. ASSUME Finish(j) \in running' \/ j \in ToSet(main') \/ screen'[j] = "shown"
        PROVE  Over(j)'
    <3>1. CASE Finish(j) \in running'
      BY <3>1, <2>1, <2>s
    <3>2. CASE j \in ToSet(main')
      BY <3>2, <2>m, <2>1, <2>s
    <3>3. CASE screen'[j] = "shown"
      <4>1. screen[j] = "shown" \/ j = k
        BY <3>3, <2>i
      <4>2. Over(j)
        BY <4>1, <1>5, <2>s
      <4> QED BY <4>2, <2>1
    <3> QED BY <2>4, <3>1, <3>2, <3>3
  <2> QED BY <2>2, <2>3, <2>4
<1> QED BY <1>0, <1>3, <1>4, <1>6, BuiltKept DEF IInv

LEMMA CloseIInv == ASSUME IInv, NEW k \in Picker, Close(k) PROVE IInv'
<1>0. /\ TypeOK /\ QueueOrder /\ Stages
      /\ UNCHANGED <<operations, running, lists, main>>
      /\ screen' = [screen EXCEPT ![k] = "gone"]
  BY DEF IInv, Close, queue
<1>1. TypeOK'
  BY <1>0 DEF TypeOK, Close, Screens, NoAlbum, lists
<1>2. QueueOrder' /\ Waiting' = Waiting /\ \A j \in Picker : Over(j)' <=> Over(j)
  BY <1>0 DEF QueueOrder, Waiting, Over, lists
<1>3. \A j \in Picker : /\ screen'[j] = "unopened" => screen[j] = "unopened"
                        /\ screen'[j] = "shown" => screen[j] = "shown"
  BY <1>0 DEF TypeOK
<1>4. Stages'
  BY <1>0, <1>2, <1>3 DEF Stages, lists
<1> QED BY <1>0, <1>1, <1>2, <1>4, BuiltKept DEF IInv

(* The panel has no part in the listing.                                   *)
PanelStep ==
  \/ TapHeader \/ DragPictures \/ Settle
  \/ \E k \in Picker : \E i \in DOMAIN albums[k] : TapRow(k, i)

LEMMA PanelExpands ==
  ASSUME PanelStep
  PROVE  Settle \/ \E e \in BOOLEAN : ProcessViewExpand(e)
<1>1. CASE TapHeader \/ \E k \in Picker : \E i \in DOMAIN albums[k] : TapRow(k, i)
  <2>1. ProcessViewExpand(~ expand) /\ (~ expand) \in BOOLEAN
    BY <1>1 DEF TapHeader, TapRow
  <2> QED BY <2>1
<1>2. CASE DragPictures
  <2>1. ProcessViewExpand(FALSE) /\ FALSE \in BOOLEAN
    BY <1>2 DEF DragPictures
  <2> QED BY <2>1
<1> QED BY <1>1, <1>2 DEF PanelStep

LEMMA PanelIInv == ASSUME IInv, PanelStep PROVE IInv'
<1>0. /\ TypeOK /\ QueueOrder /\ Stages
      /\ UNCHANGED <<operations, running, lists, main, screen>>
  BY DEF IInv, PanelStep, TapHeader, DragPictures, Settle, TapRow, queue
<1>1. current' \subseteq Collection
  <2>1. CASE TapHeader \/ DragPictures \/ Settle
    BY <1>0, <2>1 DEF TapHeader, DragPictures, Settle, TypeOK
  <2>2. CASE \E k \in Picker : \E i \in DOMAIN albums[k] : TapRow(k, i)
    <3>1. PICK k \in Picker : \E i \in DOMAIN albums[k] : TapRow(k, i)
      BY <2>2
    <3>2. PICK i \in DOMAIN albums[k] : TapRow(k, i)
      BY <3>1
    <3>3. albums[k] \in Seq(Collection)
      BY <1>0 DEF TypeOK
    <3>4. albums[k][i] \in Collection
      BY <3>3
    <3> QED BY <3>2, <3>4 DEF TapRow
  <2> QED BY <2>1, <2>2 DEF PanelStep
<1>2. expand' \in BOOLEAN /\ tall' \in BOOLEAN /\ settling' \in Nat
  <2>1. expand \in BOOLEAN /\ tall \in BOOLEAN /\ settling \in Nat
    BY <1>0 DEF TypeOK
  <2>2. CASE \E e \in BOOLEAN : ProcessViewExpand(e)
    BY <2>1, <2>2 DEF ProcessViewExpand
  <2>3. CASE Settle
    BY <2>1, <2>3 DEF Settle
  <2> QED BY <2>2, <2>3, PanelExpands
<1>3. TypeOK'
  BY <1>0, <1>1, <1>2 DEF TypeOK, lists
<1>4. QueueOrder' /\ Waiting' = Waiting /\ \A j \in Picker : Over(j)' <=> Over(j)
  BY <1>0 DEF QueueOrder, Waiting, Over, lists
<1>5. Stages'
  BY <1>0, <1>4 DEF Stages, lists
<1> QED BY <1>0, <1>3, <1>4, <1>5, BuiltKept DEF IInv

LEMMA NextIInv == IInv /\ [Next]_vars => IInv'
<1> SUFFICES ASSUME IInv, [Next]_vars PROVE IInv'
  OBVIOUS
<1>1. CASE \E k \in Picker : Open(k) \/ Close(k)
  BY <1>1, OpenIInv, CloseIInv
<1>2. CASE Start
  BY <1>2, StartIInv
<1>3. CASE \E k \in Picker : LookAt(k) \/ EnumerateDone(k) \/ FinishDone(k)
  BY <1>3, LookAtIInv, EnumerateDoneIInv, FinishDoneIInv
<1>4. CASE Complete
  BY <1>4, CompleteIInv
<1>5. CASE PanelStep
  BY <1>5, PanelIInv
<1>6. CASE UNCHANGED vars
  <2>1. /\ UNCHANGED <<operations, running, lists, main, screen, panel>>
        /\ TypeOK /\ QueueOrder /\ Stages
    BY <1>6 DEF vars, lists, panel, IInv
  <2>2. TypeOK'
    BY <2>1 DEF TypeOK, lists, panel
  <2>3. QueueOrder' /\ Waiting' = Waiting /\ \A j \in Picker : Over(j)' <=> Over(j)
    BY <2>1 DEF QueueOrder, Waiting, Over, lists
  <2>4. Stages'
    BY <2>1, <2>3 DEF Stages, lists
  <2> QED BY <2>1, <2>2, <2>3, <2>4, BuiltKept DEF IInv
<1> QED BY <1>1, <1>2, <1>3, <1>4, <1>5, <1>6 DEF Next, PanelStep

LEMMA SpecIInv == Spec => []IInv
  BY InitIInv, NextIInv, PTL DEF Spec

(* Every variable keeps to its set, and one operation runs at a time.      *)
THEOREM TypeCorrect == Spec => []TypeOK
<1>1. IInv => TypeOK
  BY DEF IInv
<1> QED BY <1>1, SpecIInv, PTL

(* A picker that shows its albums shows all of them, once, the camera roll *)
(* in front: the queue's width of one is enough to order the operations,   *)
(* however many pickers have been opened and closed.                       *)
THEOREM ShowsWholeList == Spec => []ListWhole
<1>1. IInv => ListWhole
  <2> SUFFICES ASSUME IInv, NEW k \in Picker, screen[k] = "shown" PROVE Whole(k)
    BY DEF ListWhole
  <2>1. Built(k) /\ seen[k] = Len(library[k]) /\ TypeOK
    BY DEF IInv, Stages, Over
  <2>2. ToSet(library[k]) = {library[k][i] : i \in 1 .. seen[k]}
    BY <2>1, LibraryFacts DEF ToSet
  <2> QED BY <2>1, <2>2 DEF Whole, Built
<1> QED BY <1>1, SpecIInv, PTL

(* A picker that waits for its albums is owed them: its completion is on   *)
(* the main queue, or the operation that puts it there is in the queue     *)
(* (obtainAlbumWithAllowPickingVideo:).                                    *)
LoadingOwed ==
  \A k \in Picker :
    screen[k] = "loading" => k \in ToSet(main) \/ Finish(k) \in Waiting \cup running

(* The enumeration never runs past the library it goes through, so that an *)
(* operation that runs can take its next step, and the queue moves on.     *)
NeverStuck ==
  \A k \in Picker : Enumerate(k) \in running => seen[k] <= Len(library[k])

(* What is added to the main queue, and what its first block leaves.       *)
LEMMA MainQueue ==
  ASSUME TypeOK
  PROVE  /\ \A k \in Picker : ToSet(Append(main, k)) = ToSet(main) \cup {k}
         /\ main # << >> => ToSet(main) = {Head(main)} \cup ToSet(Tail(main))
<1>1. main \in Seq(Picker)
  BY DEF TypeOK
<1>2. ASSUME NEW k \in Picker PROVE ToSet(Append(main, k)) = ToSet(main) \cup {k}
  <2>1. /\ DOMAIN Append(main, k) = DOMAIN main \cup {Len(main) + 1}
        /\ \A i \in DOMAIN main : Append(main, k)[i] = main[i]
        /\ Append(main, k)[Len(main) + 1] = k
    BY <1>1, AppendProperties
  <2> QED BY <2>1 DEF ToSet
<1> QED BY <1>1, <1>2, HeadAndTail

LEMMA LoadingStep ==
  ASSUME IInv, LoadingOwed, [Next]_vars
  PROVE  LoadingOwed'
<1> USE DEF LoadingOwed
<1>0. TypeOK
  BY DEF IInv
<1>1. ASSUME NEW k \in Picker, Open(k) PROVE LoadingOwed'
  <2>1. /\ operations \in Seq(Operation) /\ <<Enumerate(k), Finish(k)>> \in Seq(Operation)
        /\ operations' = operations \o <<Enumerate(k), Finish(k)>>
    BY <1>0, <1>1 DEF Open, TypeOK, Operation
  <2>2. Waiting' = Waiting \cup ToSet(<<Enumerate(k), Finish(k)>>)
    BY <2>1, Appends DEF Waiting
  <2>3. Finish(k) \in ToSet(<<Enumerate(k), Finish(k)>>)
    <3> DEFINE two == <<Enumerate(k), Finish(k)>>
    <3>1. 2 \in DOMAIN two /\ two[2] = Finish(k)
      OBVIOUS
    <3> QED BY <3>1 DEF ToSet
  <2>4. \A j \in Picker : j # k => screen'[j] = screen[j]
    BY <1>0, <1>1 DEF Open, TypeOK
  <2> QED BY <1>1, <2>2, <2>3, <2>4 DEF Open
<1>2. CASE Start
  <2>1. /\ operations \in Seq(Operation) /\ operations # << >>
        /\ Waiting = {Head(operations)} \cup ToSet(Tail(operations))
    BY <1>0, <1>2, HeadAndTail DEF Start, Begin, TypeOK, Waiting
  <2>2. Waiting \cup running = (Waiting \cup running)'
    BY <1>2, <2>1 DEF Start, Begin, Waiting
  <2> QED BY <1>2, <2>2 DEF Start, Begin
<1>3. ASSUME NEW k \in Picker, LookAt(k) PROVE LoadingOwed'
  BY <1>3 DEF LookAt, queue, Waiting
<1>4. ASSUME NEW k \in Picker, EnumerateDone(k) PROVE LoadingOwed'
  BY <1>4, Operations DEF EnumerateDone, Waiting
<1>5. ASSUME NEW k \in Picker, FinishDone(k) PROVE LoadingOwed'
  <2>1. ToSet(main') = ToSet(main) \cup {k}
    BY <1>0, <1>5, MainQueue DEF FinishDone
  <2> QED BY <1>5, <2>1, Operations DEF FinishDone, Waiting
<1>6. CASE Complete
  <2>1. ToSet(main) = {Head(main)} \cup ToSet(main')
    BY <1>0, <1>6, MainQueue DEF Complete
  <2>2. \A j \in Picker : screen'[j] = "loading" => screen[j] = "loading" /\ j # Head(main)
    BY <1>0, <1>6 DEF Complete, TypeOK, OnScreen
  <2> QED BY <1>6, <2>1, <2>2 DEF Complete, queue, Waiting
<1>7. ASSUME NEW k \in Picker, Close(k) PROVE LoadingOwed'
  <2>1. \A j \in Picker : screen'[j] = "loading" => screen[j] = "loading"
    BY <1>0, <1>7 DEF Close, TypeOK
  <2> QED BY <1>7, <2>1 DEF Close, queue, Waiting
<1>8. CASE PanelStep \/ UNCHANGED vars
  BY <1>8 DEF PanelStep, TapHeader, DragPictures, Settle, TapRow, vars, queue, Waiting
<1> QED
  BY <1>1, <1>2, <1>3, <1>4, <1>5, <1>6, <1>7, <1>8 DEF Next, PanelStep

(* The safety half of LoadingEnds: the albums a picker waits for are never *)
(* forgotten, and nothing in the queue before them is stuck.               *)
THEOREM LoadingIsOwed == Spec => [](LoadingOwed /\ NeverStuck)
<1>1. Init => LoadingOwed
  BY DEF Init, LoadingOwed
<1>2. IInv /\ LoadingOwed /\ [Next]_vars => LoadingOwed'
  BY LoadingStep
<1>3. IInv => NeverStuck
  BY DEF IInv, Built, NeverStuck
<1> QED BY <1>1, <1>2, <1>3, SpecIInv, PTL DEF Spec

(* The array that the operation queue fills and the main thread reads is   *)
(* not touched any more once the main queue has it, although no lock and   *)
(* no copy separates the two (obtainAlbumWithAllowPickingVideo:,           *)
(* createAlbumComplete's block).                                           *)
HandedOverKept ==
  [][\A k \in Picker : k \in ToSet(main) \/ screen[k] = "shown"
                         => UNCHANGED <<albums[k], library[k]>>]_vars

THEOREM NoWriteAfterHandover == Spec => HandedOverKept
<1>1. ASSUME IInv, [Next]_vars, NEW k \in Picker,
             k \in ToSet(main) \/ screen[k] = "shown"
      PROVE  UNCHANGED <<albums[k], library[k]>>
  <2>1. TypeOK /\ Enumerate(k) \notin Waiting \cup running
    BY <1>1 DEF IInv, Stages, Over
  <2>2. CASE UNCHANGED <<albums, library>>
    BY <2>2
  <2>3. CASE Start
    <3>1. Head(operations) \in Waiting /\ albums' = albums
      BY <2>1, <2>3, HeadAndTail DEF Start, Begin, TypeOK, Waiting
    <3>2. Head(operations) # Enumerate(k)
      BY <2>1, <3>1
    <3> QED BY <2>1, <2>3, <3>1, <3>2 DEF Start, Begin, TypeOK
  <2>4. ASSUME NEW j \in Picker, LookAt(j) PROVE UNCHANGED <<albums[k], library[k]>>
    <3>1. j # k
      BY <2>1, <2>4 DEF LookAt
    <3> QED BY <2>1, <2>4, <3>1 DEF LookAt, TypeOK
  <2> QED BY <1>1, <2>2, <2>3, <2>4
       DEF Next, Open, Close, EnumerateDone, FinishDone, Complete, TapHeader,
           DragPictures, Settle, TapRow, lists, vars
<1>2. IInv /\ [Next]_vars =>
        [\A k \in Picker : k \in ToSet(main) \/ screen[k] = "shown"
                             => UNCHANGED <<albums[k], library[k]>>]_vars
  BY <1>1
<1> QED BY <1>2, SpecIInv, PTL DEF Spec, HandedOverKept

(* The panel's height goes with its state once its animations are over.    *)
THEOREM PanelSettles == Spec => []PanelSettled
<1> DEFINE PInv == /\ settling \in Nat /\ expand \in BOOLEAN /\ tall \in BOOLEAN
                   /\ expand => tall
                   /\ PanelSettled
<1>1. Init => PInv
  <2> SUFFICES ASSUME Init PROVE PInv
    OBVIOUS
  <2>1. expand = FALSE /\ tall = FALSE /\ settling = 0
    BY DEF Init
  <2> QED BY <2>1 DEF PanelSettled
<1>2. PInv /\ [Next]_vars => PInv'
  <2> SUFFICES ASSUME PInv, [Next]_vars PROVE PInv'
    OBVIOUS
  <2>1. CASE UNCHANGED <<expand, tall, settling>>
    BY <2>1 DEF PanelSettled
  <2>2. CASE \E k \in Picker : Close(k)
    <3>1. expand' = FALSE /\ tall' = FALSE /\ settling' = 0
      BY <2>2 DEF Close
    <3> QED BY <3>1 DEF PanelSettled
  <2>3. CASE PanelStep
    <3>1. CASE \E e \in BOOLEAN : ProcessViewExpand(e)
      <4>1. PICK e \in BOOLEAN : /\ expand' = e /\ tall' = (tall \/ e)
                                 /\ settling' = settling + 1
        BY <3>1 DEF ProcessViewExpand
      <4>2. settling' \in Nat /\ settling' # 0
        BY <4>1
      <4>3. expand' \in BOOLEAN /\ tall' \in BOOLEAN /\ (expand' => tall')
        BY <4>1
      <4> QED BY <4>2, <4>3 DEF PanelSettled
    <3>2. CASE Settle
      <4>1. /\ expand' = expand /\ tall' = (tall /\ expand)
            /\ settling > 0 /\ settling' = settling - 1
        BY <3>2 DEF Settle
      <4>2. settling' \in Nat
        BY <4>1
      <4>3. expand' \in BOOLEAN /\ tall' \in BOOLEAN /\ (tall' <=> expand')
        BY <4>1
      <4> QED BY <4>2, <4>3 DEF PanelSettled
    <3> QED BY <2>3, <3>1, <3>2, PanelExpands
  <2>4. CASE \/ \E k \in Picker : Open(k) \/ LookAt(k) \/ EnumerateDone(k) \/ FinishDone(k)
             \/ Start \/ Complete
    BY <2>1, <2>4 DEF Open, LookAt, EnumerateDone, FinishDone, Start, Begin, Complete, panel
  <2> QED BY <2>1, <2>2, <2>3, <2>4 DEF Next, PanelStep, vars
<1>3. PInv => PanelSettled
  OBVIOUS
<1> QED BY <1>1, <1>2, <1>3, PTL DEF Spec
=============================================================================
