------------------------ MODULE SelectionModelProofs ------------------------
(***************************************************************************)
(* Every method of the two view models keeps the shared selection typed    *)
(* and consistent, for every set of pictures and every limit above one.    *)
(***************************************************************************)
EXTENDS SelectionModel, SequenceTheorems, TLAPS

(* RemoveAt closes the gap: what stood before i stays, what stood behind   *)
(* moves up by one.                                                        *)
LEMMA RemoveAtProperties ==
  ASSUME NEW S, NEW s \in Seq(S), NEW i \in 1 .. Len(s)
  PROVE  /\ RemoveAt(s, i) \in Seq(S)
         /\ Len(RemoveAt(s, i)) = Len(s) - 1
         /\ \A j \in 1 .. Len(s) - 1 :
              RemoveAt(s, i)[j] = IF j < i THEN s[j] ELSE s[j + 1]
<1> DEFINE front == SubSeq(s, 1, i - 1)
           back  == SubSeq(s, i + 1, Len(s))
<1>1. /\ front \in Seq(S)
      /\ Len(front) = i - 1
      /\ \A j \in 1 .. i - 1 : front[j] = s[j]
  <2>1. \A j \in 1 .. i - 1 : s[j] \in S
    OBVIOUS
  <2> QED BY <2>1, SubSeqProperties
<1>2. /\ back \in Seq(S)
      /\ Len(back) = Len(s) - i
      /\ \A j \in 1 .. Len(s) - i : back[j] = s[i + j]
  <2>1. \A j \in i + 1 .. Len(s) : s[j] \in S
    OBVIOUS
  <2>2. /\ SubSeq(s, i + 1, Len(s)) \in Seq(S)
        /\ Len(SubSeq(s, i + 1, Len(s))) =
             IF i + 1 <= Len(s) THEN Len(s) - (i + 1) + 1 ELSE 0
        /\ \A j \in 1 .. Len(s) - (i + 1) + 1 :
             SubSeq(s, i + 1, Len(s))[j] = s[(i + 1) + j - 1]
    BY <2>1, SubSeqProperties, i + 1 \in Int, Len(s) \in Int
  <2> QED BY <2>2
<1>3. RemoveAt(s, i) = front \o back
  BY DEF RemoveAt
<1> HIDE DEF front, back
<1>4. /\ front \o back \in Seq(S)
      /\ Len(front \o back) = Len(s) - 1
      /\ \A j \in 1 .. Len(s) - 1 :
           (front \o back)[j] = IF j <= i - 1 THEN front[j] ELSE back[j - (i - 1)]
  BY <1>1, <1>2, ConcatProperties
<1>5. ASSUME NEW j \in 1 .. Len(s) - 1
      PROVE  RemoveAt(s, i)[j] = IF j < i THEN s[j] ELSE s[j + 1]
  <2>1. CASE j < i
    BY <1>1, <1>3, <1>4, <2>1
  <2>2. CASE ~ (j < i)
    <3>1. j - (i - 1) \in 1 .. Len(s) - i
      BY <2>2
    <3>2. back[j - (i - 1)] = s[i + (j - (i - 1))]
      BY <1>2, <3>1
    <3>3. i + (j - (i - 1)) = j + 1
      OBVIOUS
    <3> QED BY <1>3, <1>4, <2>2, <3>2, <3>3
  <2> QED BY <2>1, <2>2
<1> QED BY <1>3, <1>4, <1>5

(* Append, in the form the proofs below use it.                            *)
LEMMA AppendPictures ==
  ASSUME NEW S, NEW s \in Seq(S), NEW e \in S
  PROVE  /\ Append(s, e) \in Seq(S)
         /\ Len(Append(s, e)) = Len(s) + 1
         /\ \A i \in 1 .. Len(s) : Append(s, e)[i] = s[i]
         /\ Append(s, e)[Len(s) + 1] = e
OBVIOUS

LEMMA PositionOfProperties ==
  ASSUME NEW m, NEW p, InArray(m, p)
  PROVE  /\ PositionOf(m.selectedPictures, p) \in 1 .. Len(m.selectedPictures)
         /\ m.selectedPictures[PositionOf(m.selectedPictures, p)] = p
BY DEF InArray, Contains, PositionOf

-----------------------------------------------------------------------------
(* What Added does to each part, when there is room.                       *)
LEMMA AddedParts ==
  ASSUME NEW m \in Models, NEW p \in Picture, ~ InArray(m, p)
  PROVE  LET n == Added(m, p)
             k == Len(m.selectedPictures)
         IN  /\ n \in Models
             /\ Len(n.selectedPictures) = k + 1
             /\ \A i \in 1 .. k : n.selectedPictures[i] = m.selectedPictures[i]
             /\ n.selectedPictures[k + 1] = p
             /\ n.selected = [m.selected EXCEPT ![p] = TRUE]
             /\ n.selectedIndex = [m.selectedIndex EXCEPT ![p] = k + 1]
             /\ n.enabled = m.enabled
             /\ n.levitateCount = m.levitateCount
             /\ n.levitateHidden = m.levitateHidden
<1> DEFINE s == Append(m.selectedPictures, p)
<1>1. /\ m.selectedPictures \in Seq(Picture)
      /\ m.selected \in [Picture -> BOOLEAN]
      /\ m.selectedIndex \in [Picture -> Int]
      /\ m.enabled \in [Picture -> BOOLEAN]
      /\ m.levitateCount \in Nat
      /\ m.levitateHidden \in BOOLEAN
  BY DEF Models
<1>2. /\ s \in Seq(Picture)
      /\ Len(s) = Len(m.selectedPictures) + 1
      /\ \A i \in 1 .. Len(m.selectedPictures) : s[i] = m.selectedPictures[i]
      /\ s[Len(m.selectedPictures) + 1] = p
  BY <1>1, AppendPictures
<1>3. Added(m, p) = [m EXCEPT !.selected[p] = TRUE,
                              !.selectedPictures = s,
                              !.selectedIndex[p] = Len(s)]
  BY DEF Added
<1> HIDE DEF s
<1>4. Added(m, p) = [selectedPictures |-> s,
                     selected |-> [m.selected EXCEPT ![p] = TRUE],
                     enabled |-> m.enabled,
                     selectedIndex |-> [m.selectedIndex EXCEPT ![p] = Len(s)],
                     levitateCount |-> m.levitateCount,
                     levitateHidden |-> m.levitateHidden]
  BY <1>3 DEF Models
<1> QED BY <1>1, <1>2, <1>4 DEF Models

LEMMA AddedConsistent ==
  ASSUME NEW m \in Models, NEW p \in Picture, Consistent(m), ~ Full(m)
  PROVE  Added(m, p) \in Models /\ Consistent(Added(m, p))
<1>1. CASE InArray(m, p)
  <2>1. m.selected[p] = TRUE
    BY <1>1 DEF Consistent, FlagIsMembership, Models
  <2>2. Added(m, p) = m
    BY <1>1, <2>1 DEF Added, Models
  <2> QED BY <2>2
<1>2. CASE ~ InArray(m, p)
  <2> DEFINE n == Added(m, p)
             k == Len(m.selectedPictures)
  <2>1. /\ n \in Models
        /\ Len(n.selectedPictures) = k + 1
        /\ \A i \in 1 .. k : n.selectedPictures[i] = m.selectedPictures[i]
        /\ n.selectedPictures[k + 1] = p
        /\ n.selected = [m.selected EXCEPT ![p] = TRUE]
        /\ n.selectedIndex = [m.selectedIndex EXCEPT ![p] = k + 1]
    BY <1>2, AddedParts
  <2>2. /\ k \in Nat
        /\ k < MaxCount
        /\ m.selectedPictures \in [1 .. k -> Picture]
        /\ n.selectedPictures \in [1 .. k + 1 -> Picture]
        /\ m.selected \in [Picture -> BOOLEAN]
        /\ m.selectedIndex \in [Picture -> Int]
    BY <2>1, MaxCountAssumption DEF Full, Models
  <2>3. \A i \in 1 .. k : m.selectedPictures[i] # p
    BY <1>2 DEF InArray, Contains
  <2>a. /\ \A i, j \in 1 .. k : m.selectedPictures[i] = m.selectedPictures[j] => i = j
        /\ \A i \in 1 .. k : m.selectedIndex[m.selectedPictures[i]] = i
    BY <2>2 DEF Consistent, NoDuplicates, IndexIsPosition
  <2> HIDE DEF n, k
  <2>4. NoDuplicates(n)
    <3>1. ASSUME NEW i \in 1 .. k + 1, NEW j \in 1 .. k + 1,
                 n.selectedPictures[i] = n.selectedPictures[j]
          PROVE  i = j
      <4>1. \A x, y \in 1 .. k :
              m.selectedPictures[x] = m.selectedPictures[y] => x = y
        BY <2>a
      <4>2. \A x \in 1 .. k :
              n.selectedPictures[x] = m.selectedPictures[x] /\ m.selectedPictures[x] # p
        BY <2>1, <2>3
      <4>3. n.selectedPictures[k + 1] = p
        BY <2>1
      <4>4. CASE i \in 1 .. k /\ j \in 1 .. k
        BY <3>1, <4>1, <4>2, <4>4, Zenon
      <4>5. CASE i = k + 1 \/ j = k + 1
        <5>1. i \in 1 .. k \/ i = k + 1
          BY <2>2
        <5>2. j \in 1 .. k \/ j = k + 1
          BY <2>2
        <5> QED BY <3>1, <4>2, <4>3, <4>5, <5>1, <5>2, Zenon
      <4> QED BY <2>2, <4>4, <4>5
    <3> QED BY <2>2, <3>1 DEF NoDuplicates
  <2>5. FlagIsMembership(n)
    <3>1. ASSUME NEW q \in Picture PROVE n.selected[q] <=> InArray(n, q)
      <4>1. CASE q = p
        BY <2>1, <2>2, <4>1 DEF InArray, Contains
      <4>2. CASE q # p
        <5>1. n.selected[q] = m.selected[q]
          BY <2>1, <2>2, <4>2
        <5>2. InArray(n, q) <=> InArray(m, q)
          BY <2>1, <2>2, <4>2 DEF InArray, Contains, k
        <5> QED BY <5>1, <5>2 DEF Consistent, FlagIsMembership
      <4> QED BY <4>1, <4>2
    <3> QED BY <3>1 DEF FlagIsMembership
  <2>6. IndexIsPosition(n)
    <3>1. ASSUME NEW i \in 1 .. k + 1
          PROVE  n.selectedIndex[n.selectedPictures[i]] = i
      <4>1. CASE i = k + 1
        BY <2>1, <2>2, <4>1
      <4>2. CASE i # k + 1
        <5>1. i \in 1 .. k
          BY <2>2, <4>2
        <5>2. /\ n.selectedPictures[i] = m.selectedPictures[i]
              /\ m.selectedPictures[i] \in Picture
              /\ m.selectedPictures[i] # p
          BY <2>1, <2>2, <2>3, <5>1
        <5>3. m.selectedIndex[m.selectedPictures[i]] = i
          BY <2>a, <5>1
        <5>4. n.selectedIndex[m.selectedPictures[i]]
                = m.selectedIndex[m.selectedPictures[i]]
          BY <2>1, <2>2, <5>2
        <5> QED BY <5>2, <5>3, <5>4
      <4> QED BY <4>1, <4>2
    <3> QED BY <2>2, <3>1 DEF IndexIsPosition
  <2>7. Bounded(n)
    BY <2>1, <2>2, MaxCountAssumption DEF Bounded
  <2> QED BY <2>1, <2>4, <2>5, <2>6, <2>7 DEF Consistent, n
<1> QED BY <1>1, <1>2
-----------------------------------------------------------------------------
(* The same for the removal of a picture that is in the array.             *)
LEMMA RemovedParts ==
  ASSUME NEW m \in Models, NEW p \in Picture, InArray(m, p)
  PROVE  LET n == Removed(m, p)
             k == Len(m.selectedPictures)
             i == PositionOf(m.selectedPictures, p)
         IN  /\ n \in Models
             /\ i \in 1 .. k
             /\ m.selectedPictures[i] = p
             /\ n.selectedPictures = RemoveAt(m.selectedPictures, i)
             /\ Len(n.selectedPictures) = k - 1
             /\ \A j \in 1 .. k - 1 :
                  n.selectedPictures[j] = IF j < i THEN m.selectedPictures[j]
                                          ELSE m.selectedPictures[j + 1]
             /\ \A q \in Picture :
                  n.selectedIndex[q] =
                    IF \E j \in i .. k - 1 : n.selectedPictures[j] = q
                    THEN m.selectedIndex[q] - 1 ELSE m.selectedIndex[q]
             /\ n.selected = m.selected
             /\ n.enabled = m.enabled
             /\ n.levitateCount = m.levitateCount
             /\ n.levitateHidden = m.levitateHidden
<1> DEFINE i == PositionOf(m.selectedPictures, p)
           s == RemoveAt(m.selectedPictures, i)
           x == [q \in Picture |->
                   IF \E j \in i .. Len(s) : s[j] = q
                   THEN m.selectedIndex[q] - 1 ELSE m.selectedIndex[q]]
<1>1. /\ m.selectedPictures \in Seq(Picture)
      /\ m.selected \in [Picture -> BOOLEAN]
      /\ m.selectedIndex \in [Picture -> Int]
      /\ m.enabled \in [Picture -> BOOLEAN]
      /\ m.levitateCount \in Nat
      /\ m.levitateHidden \in BOOLEAN
  BY DEF Models
<1>2. /\ i \in 1 .. Len(m.selectedPictures)
      /\ m.selectedPictures[i] = p
  BY PositionOfProperties
<1>3. Removed(m, p) = [m EXCEPT !.selectedPictures = s, !.selectedIndex = x]
  BY DEF Removed
<1> HIDE DEF i
<1>4. /\ s \in Seq(Picture)
      /\ Len(s) = Len(m.selectedPictures) - 1
      /\ \A j \in 1 .. Len(m.selectedPictures) - 1 :
           s[j] = IF j < i THEN m.selectedPictures[j] ELSE m.selectedPictures[j + 1]
  BY <1>1, <1>2, RemoveAtProperties
<1> HIDE DEF s
<1>5. x \in [Picture -> Int]
  BY <1>1
<1>6. \A q \in Picture :
        x[q] = IF \E j \in i .. Len(m.selectedPictures) - 1 : s[j] = q
               THEN m.selectedIndex[q] - 1 ELSE m.selectedIndex[q]
  BY <1>4
<1> HIDE DEF x
<1>7. Removed(m, p) = [selectedPictures |-> s,
                       selected |-> m.selected,
                       enabled |-> m.enabled,
                       selectedIndex |-> x,
                       levitateCount |-> m.levitateCount,
                       levitateHidden |-> m.levitateHidden]
  BY <1>3 DEF Models
<1> QED BY <1>1, <1>2, <1>4, <1>5, <1>6, <1>7 DEF Models, i, s

(* Once the flag of p is cleared and p is taken out, the rest is           *)
(* consistent: what moved up by one had its number lowered by one.         *)
LEMMA RemovedConsistent ==
  ASSUME NEW m \in Models, NEW c \in Models, NEW p \in Picture, Consistent(m),
         c.selectedPictures = m.selectedPictures,
         c.selectedIndex = m.selectedIndex,
         c.selected = [m.selected EXCEPT ![p] = FALSE]
  PROVE  Removed(c, p) \in Models /\ Consistent(Removed(c, p))
<1> DEFINE n == Removed(c, p)
           k == Len(m.selectedPictures)
<1>1. /\ k \in Nat
      /\ k <= MaxCount
      /\ m.selectedPictures \in [1 .. k -> Picture]
      /\ m.selected \in [Picture -> BOOLEAN]
      /\ m.selectedIndex \in [Picture -> Int]
      /\ \A i, j \in 1 .. k : m.selectedPictures[i] = m.selectedPictures[j] => i = j
      /\ \A i \in 1 .. k : m.selectedIndex[m.selectedPictures[i]] = i
      /\ \A q \in Picture : m.selected[q] <=> \E i \in 1 .. k : m.selectedPictures[i] = q
  BY DEF Models, Consistent, Bounded, NoDuplicates, IndexIsPosition,
         FlagIsMembership, InArray, Contains
<1>2. CASE InArray(c, p)
  <2> DEFINE h == PositionOf(c.selectedPictures, p)
  <2>1. /\ n \in Models
        /\ h \in 1 .. k
        /\ m.selectedPictures[h] = p
        /\ Len(n.selectedPictures) = k - 1
        /\ \A j \in 1 .. k - 1 :
             n.selectedPictures[j] = IF j < h THEN m.selectedPictures[j]
                                     ELSE m.selectedPictures[j + 1]
        /\ \A q \in Picture :
             n.selectedIndex[q] =
               IF \E j \in h .. k - 1 : n.selectedPictures[j] = q
               THEN m.selectedIndex[q] - 1 ELSE m.selectedIndex[q]
        /\ n.selected = [m.selected EXCEPT ![p] = FALSE]
    BY <1>2, RemovedParts, SMTT(30)
  <2> HIDE DEF n, k, h
  <2>2. n.selectedPictures \in [1 .. k - 1 -> Picture]
    <3>1. n.selectedPictures \in Seq(Picture)
      BY <2>1 DEF Models
    <3> QED BY <2>1, <3>1
  <2>3. NoDuplicates(n)
    <3>1. ASSUME NEW i \in 1 .. k - 1, NEW j \in 1 .. k - 1,
                 n.selectedPictures[i] = n.selectedPictures[j]
          PROVE  i = j
      <4>1. PICK a \in 1 .. k :
              a = (IF i < h THEN i ELSE i + 1)
                /\ n.selectedPictures[i] = m.selectedPictures[a]
        BY <1>1, <2>1
      <4>2. PICK b \in 1 .. k :
              b = (IF j < h THEN j ELSE j + 1)
                /\ n.selectedPictures[j] = m.selectedPictures[b]
        BY <1>1, <2>1
      <4>3. \A x, y \in 1 .. k :
              m.selectedPictures[x] = m.selectedPictures[y] => x = y
        BY <1>1
      <4>4. a = b
        BY <3>1, <4>1, <4>2, <4>3, Zenon
      <4> QED BY <1>1, <2>1, <4>1, <4>2, <4>4
    <3> QED BY <2>2, <3>1 DEF NoDuplicates
  <2>4. FlagIsMembership(n)
    <3>1. ASSUME NEW q \in Picture PROVE n.selected[q] <=> InArray(n, q)
      <4>1. CASE q = p
        <5>1. \A j \in 1 .. k - 1 : n.selectedPictures[j] # p
          BY <1>1, <2>1
        <5> QED BY <1>1, <2>1, <4>1, <5>1 DEF InArray, Contains
      <4>2. CASE q # p
        <5>1. n.selected[q] <=> \E i \in 1 .. k : m.selectedPictures[i] = q
          BY <1>1, <2>1, <4>2
        <5>2. ASSUME NEW i \in 1 .. k, m.selectedPictures[i] = q
              PROVE  \E j \in 1 .. k - 1 : n.selectedPictures[j] = q
          <6>1. CASE i < h
            <7>1. i \in 1 .. k - 1
              BY <1>1, <2>1, <6>1
            <7>2. n.selectedPictures[i] = q
              BY <2>1, <5>2, <6>1, <7>1
            <7> QED BY <7>1, <7>2
          <6>2. CASE ~ (i < h)
            <7>1. i # h
              BY <2>1, <4>2, <5>2
            <7>2. i - 1 \in 1 .. k - 1 /\ ~ (i - 1 < h) /\ (i - 1) + 1 = i
              BY <1>1, <2>1, <6>2, <7>1
            <7>3. n.selectedPictures[i - 1] = m.selectedPictures[(i - 1) + 1]
              BY <2>1, <7>2
            <7> QED BY <5>2, <7>2, <7>3
          <6> QED BY <6>1, <6>2
        <5>3. ASSUME NEW j \in 1 .. k - 1, n.selectedPictures[j] = q
              PROVE  \E i \in 1 .. k : m.selectedPictures[i] = q
          <6>1. /\ j \in 1 .. k
                /\ j + 1 \in 1 .. k
            BY <1>1
          <6>2. \/ m.selectedPictures[j] = q
                \/ m.selectedPictures[j + 1] = q
            BY <2>1, <5>3
          <6> QED BY <6>1, <6>2
        <5> QED BY <2>1, <5>1, <5>2, <5>3 DEF InArray, Contains
      <4> QED BY <4>1, <4>2
    <3> QED BY <3>1 DEF FlagIsMembership
  <2>5. IndexIsPosition(n)
    <3>1. ASSUME NEW i \in 1 .. k - 1
          PROVE  n.selectedIndex[n.selectedPictures[i]] = i
      <4>1. n.selectedPictures[i] \in Picture
        BY <2>2
      <4>2. CASE i < h
        <5>1. n.selectedPictures[i] = m.selectedPictures[i]
          BY <2>1, <4>2
        <5>2. ~ \E j \in h .. k - 1 : n.selectedPictures[j] = n.selectedPictures[i]
          <6> SUFFICES ASSUME NEW j \in h .. k - 1,
                              n.selectedPictures[j] = n.selectedPictures[i]
                       PROVE  FALSE
            OBVIOUS
          <6>1. /\ j \in 1 .. k - 1
                /\ ~ (j < h)
                /\ j + 1 \in 1 .. k
                /\ i \in 1 .. k
            BY <1>1, <2>1
          <6>2. n.selectedPictures[j] = m.selectedPictures[j + 1]
            BY <2>1, <6>1
          <6>3. j + 1 = i
            BY <1>1, <5>1, <6>1, <6>2
          <6> QED BY <2>1, <4>2, <6>1, <6>3
        <5>3. n.selectedIndex[n.selectedPictures[i]]
                = m.selectedIndex[m.selectedPictures[i]]
          <6>1. \A q \in Picture :
                  (~ \E j \in h .. k - 1 : n.selectedPictures[j] = q)
                    => n.selectedIndex[q] = m.selectedIndex[q]
            BY <2>1
          <6>2. n.selectedIndex[n.selectedPictures[i]]
                  = m.selectedIndex[n.selectedPictures[i]]
            BY <4>1, <5>2, <6>1, Zenon
          <6> QED BY <5>1, <6>2
        <5>4. i \in 1 .. k
          BY <1>1
        <5> QED BY <1>1, <5>3, <5>4
      <4>3. CASE ~ (i < h)
        <5>1. n.selectedPictures[i] = m.selectedPictures[i + 1] /\ i + 1 \in 1 .. k
          BY <1>1, <2>1, <4>3
        <5>2. \E j \in h .. k - 1 : n.selectedPictures[j] = n.selectedPictures[i]
          BY <1>1, <2>1, <4>3
        <5>3. n.selectedIndex[n.selectedPictures[i]]
                = m.selectedIndex[m.selectedPictures[i + 1]] - 1
          BY <2>1, <4>1, <5>1, <5>2
        <5> QED BY <1>1, <5>1, <5>3
      <4> QED BY <4>2, <4>3
    <3> QED BY <2>2, <3>1 DEF IndexIsPosition
  <2>6. Bounded(n)
    BY <1>1, <2>1, MaxCountAssumption DEF Bounded
  <2> QED BY <2>1, <2>3, <2>4, <2>5, <2>6 DEF Consistent, n
<1>3. CASE ~ InArray(c, p)
  <2>1. n = c
    BY <1>3 DEF Removed
  <2>2. m.selected[p] = FALSE
    BY <1>1, <1>3 DEF InArray, Contains
  <2>3. c.selected = m.selected
    <3>1. ASSUME NEW B, NEW f \in [Picture -> B], NEW v, f[p] = v
          PROVE  [f EXCEPT ![p] = v] = f
      BY <3>1
    <3> QED BY <1>1, <2>2, <3>1
  <2> QED
    BY <2>1, <2>3 DEF Consistent, NoDuplicates, FlagIsMembership, InArray,
                      IndexIsPosition, Bounded
<1> QED BY <1>2, <1>3
-----------------------------------------------------------------------------
(* The methods.  In each lemma the interesting fact is which pictures are  *)
(* enabled, and what the bar shows.                                        *)

LEMMA EmptySound == Sound(EmptySelection)
<1> DEFINE m == EmptySelection
<1>1. m \in Models
  BY EmptySeq DEF EmptySelection, Models
<1>2. /\ m.selectedPictures = << >>
      /\ Len(m.selectedPictures) = 0
      /\ m.selected = [p \in Picture |-> FALSE]
      /\ m.enabled = [p \in Picture |-> TRUE]
      /\ m.levitateCount = 0
  BY DEF EmptySelection
<1> HIDE DEF m
<1>3. Consistent(m)
  BY <1>2, MaxCountAssumption
     DEF Consistent, NoDuplicates, FlagIsMembership, IndexIsPosition, Bounded,
         InArray, Contains
<1>4. UniformlyEnabled(m)
  BY <1>2 DEF UniformlyEnabled
<1>5. CountLagsOnlyWhenFull(m) /\ BarShown(m)
  BY <1>2 DEF CountLagsOnlyWhenFull, BarShown
<1> QED BY <1>1, <1>3, <1>4, <1>5 DEF Sound, m

(* While the selection is not full, every picture is enabled.              *)
LEMMA RoomMeansEnabled ==
  ASSUME NEW m, UniformlyEnabled(m), ~ Full(m), NEW p \in Picture
  PROVE  m.enabled[p]
BY DEF UniformlyEnabled

LEMMA AddedFrame ==
  ASSUME NEW m \in Models, NEW p \in Picture
  PROVE  LET n == Added(m, p)
         IN  /\ n.selectedPictures = IF InArray(m, p) THEN m.selectedPictures
                                     ELSE Append(m.selectedPictures, p)
             /\ Len(n.selectedPictures) = IF InArray(m, p)
                                          THEN Len(m.selectedPictures)
                                          ELSE Len(m.selectedPictures) + 1
             /\ n.selectedPictures # << >>
             /\ n.selected = [m.selected EXCEPT ![p] = TRUE]
             /\ n.enabled = m.enabled
             /\ n.levitateCount = m.levitateCount
             /\ n.levitateHidden = m.levitateHidden
<1>1. CASE InArray(m, p)
  <2>1. Added(m, p) = [m EXCEPT !.selected = [m.selected EXCEPT ![p] = TRUE]]
    BY <1>1 DEF Added
  <2>2. m.selectedPictures # << >>
    BY <1>1 DEF InArray, Contains
  <2> QED BY <1>1, <2>1, <2>2 DEF Models
<1>2. CASE ~ InArray(m, p)
  <2>1. Added(m, p).selectedPictures = Append(m.selectedPictures, p)
    BY <1>2 DEF Added, Models
  <2>2. m.selectedPictures \in Seq(Picture)
    BY DEF Models
  <2>3. Append(m.selectedPictures, p) # << >>
    BY <2>2
  <2> QED BY <1>2, <2>1, <2>3, AddedParts
<1> QED BY <1>1, <1>2

(* The picker's own selection, from a selection with room whose count may  *)
(* be behind: this is also what the preview's delegate call starts from.   *)
LEMMA PickerSelectedSound ==
  ASSUME NEW m \in Models, NEW p \in Picture,
         Consistent(m), UniformlyEnabled(m), ~ Full(m)
  PROVE  /\ Sound(PickerSelected(m, p))
         /\ PickerSelected(m, p).selectedPictures =
              IF InArray(m, p) THEN m.selectedPictures
              ELSE Append(m.selectedPictures, p)
<1> DEFINE a == Added(m, p)
           n == [a EXCEPT !.levitateCount = Len(a.selectedPictures),
                          !.levitateHidden = FALSE]
           r == PickerSelected(m, p)
<1>1. a \in Models /\ Consistent(a)
  BY AddedConsistent
<1>2. /\ a.selectedPictures = IF InArray(m, p) THEN m.selectedPictures
                              ELSE Append(m.selectedPictures, p)
      /\ a.enabled = m.enabled
  BY AddedFrame
<1>3. r = IF Full(n)
          THEN [n EXCEPT !.enabled = EnableUnselected(n.selected, n.enabled, FALSE)]
          ELSE n
  BY DEF PickerSelected
<1> HIDE DEF a
<1> DEFINE l == Len(a.selectedPictures)
           h == FALSE
<1>0. n = [a EXCEPT !.levitateCount = l, !.levitateHidden = h]
  OBVIOUS
<1> HIDE DEF l, h, n
<1>4. n = [selectedPictures |-> a.selectedPictures,
           selected |-> a.selected,
           enabled |-> a.enabled,
           selectedIndex |-> a.selectedIndex,
           levitateCount |-> l,
           levitateHidden |-> h]
  BY <1>0, <1>1 DEF Models
<1> USE DEF l, h
<1>5. /\ a.selectedPictures \in Seq(Picture)
      /\ a.selected \in [Picture -> BOOLEAN]
      /\ a.enabled \in [Picture -> BOOLEAN]
      /\ a.selectedIndex \in [Picture -> Int]
  BY <1>1 DEF Models
<1> HIDE DEF n
<1> DEFINE e == IF Full(n) THEN EnableUnselected(a.selected, a.enabled, FALSE)
                ELSE a.enabled
<1>6. e \in [Picture -> BOOLEAN]
  BY <1>5 DEF EnableUnselected
<1>7. r = [selectedPictures |-> a.selectedPictures,
           selected |-> a.selected,
           enabled |-> e,
           selectedIndex |-> a.selectedIndex,
           levitateCount |-> Len(a.selectedPictures),
           levitateHidden |-> FALSE]
  BY <1>3, <1>4
<1>8. Full(n) <=> Full(r)
  BY <1>4, <1>7 DEF Full
<1>9. \A q \in Picture : a.enabled[q]
  BY <1>2, RoomMeansEnabled
<1>10. \A q \in Picture : e[q] <=> (Full(r) => a.selected[q])
  BY <1>5, <1>8, <1>9 DEF EnableUnselected
<1> HIDE DEF e, r
<1>11. r \in Models
  BY <1>5, <1>6, <1>7 DEF Models
<1>12. Consistent(r)
  BY <1>1, <1>7 DEF Consistent, NoDuplicates, FlagIsMembership, InArray,
                    IndexIsPosition, Bounded
<1>13. UniformlyEnabled(r)
  <2>1. r.enabled = e /\ r.selected = a.selected
    BY <1>7
  <2> QED BY <1>10, <2>1 DEF UniformlyEnabled
<1>14. CountLagsOnlyWhenFull(r) /\ BarShown(r)
  BY <1>7 DEF CountLagsOnlyWhenFull, BarShown
<1> QED BY <1>2, <1>7, <1>11, <1>12, <1>13, <1>14 DEF Sound, r

(* A selection in the preview, delegate call included.                     *)
LEMMA SelectedInPreviewSound ==
  ASSUME NEW m, Sound(m), NEW p \in Picture
  PROVE  /\ Sound(SelectedInPreview(m, p))
         /\ SelectedInPreview(m, p).selectedPictures =
              IF Full(m) \/ InArray(m, p) THEN m.selectedPictures
              ELSE Append(m.selectedPictures, p)
<1> DEFINE a == Added(m, p)
<1>1. CASE Full(m)
  BY <1>1 DEF SelectedInPreview
<1>2. CASE ~ Full(m)
  <2>1. /\ m \in Models
        /\ Consistent(m)
        /\ UniformlyEnabled(m)
        /\ CountLagsOnlyWhenFull(m)
        /\ BarShown(m)
    BY DEF Sound
  <2>2. SelectedInPreview(m, p) = PickerSelected(a, p)
    BY <1>2 DEF SelectedInPreview, PreviewSelected
  <2>3. a \in Models /\ Consistent(a)
    BY <1>2, <2>1, AddedConsistent
  <2>4. /\ a.selectedPictures = IF InArray(m, p) THEN m.selectedPictures
                                ELSE Append(m.selectedPictures, p)
        /\ Len(a.selectedPictures) = IF InArray(m, p)
                                     THEN Len(m.selectedPictures)
                                     ELSE Len(m.selectedPictures) + 1
        /\ a.selected = [m.selected EXCEPT ![p] = TRUE]
        /\ a.enabled = m.enabled
        /\ a.levitateCount = m.levitateCount
        /\ a.levitateHidden = m.levitateHidden
    BY <2>1, AddedFrame
  <2>5. InArray(a, p)
    <3>1. a.selected[p]
      BY <2>1, <2>4 DEF Models
    <3> QED BY <2>3, <3>1 DEF Consistent, FlagIsMembership
  <2>6. UniformlyEnabled(a)
    <3>1. \A q \in Picture : a.enabled[q]
      BY <1>2, <2>1, <2>4, RoomMeansEnabled
    <3> QED BY <3>1 DEF UniformlyEnabled
  <2> HIDE DEF a
  <2>7. CASE Full(a)
    <3>1. PickerSelected(a, p) = a
      BY <2>7 DEF PickerSelected
    <3>2. m.selectedPictures \in Seq(Picture)
      BY <2>1 DEF Models
    <3>3. /\ ~ InArray(m, p)
          /\ Len(a.selectedPictures) = MaxCount
          /\ Len(m.selectedPictures) = MaxCount - 1
      BY <1>2, <2>3, <2>4, <2>7, <3>2, MaxCountAssumption
         DEF Full, Consistent, Bounded
    <3>4. m.levitateCount = MaxCount - 1
      BY <2>1, <3>3, MaxCountAssumption DEF CountLagsOnlyWhenFull
    <3>5. ~ m.levitateHidden
      BY <2>1, <3>2, <3>3, MaxCountAssumption DEF BarShown
    <3>6. CountLagsOnlyWhenFull(a) /\ BarShown(a)
      BY <2>4, <3>3, <3>4, <3>5 DEF CountLagsOnlyWhenFull, BarShown
    <3> QED BY <1>2, <2>2, <2>3, <2>4, <2>6, <3>1, <3>6 DEF Sound
  <2>8. CASE ~ Full(a)
    <3>1. /\ Sound(PickerSelected(a, p))
          /\ PickerSelected(a, p).selectedPictures = a.selectedPictures
      BY <2>3, <2>5, <2>6, <2>8, PickerSelectedSound
    <3> QED BY <1>2, <2>2, <2>4, <3>1
  <2> QED BY <2>7, <2>8
<1> QED BY <1>1, <1>2

(* A cancellation, before the bar is brought up to date: every picture is  *)
(* enabled afterwards, whether or not the selection was full.              *)
LEMMA PreviewCancelledParts ==
  ASSUME NEW m \in Models, NEW p \in Picture,
         Consistent(m), UniformlyEnabled(m)
  PROVE  LET n == PreviewCancelled(m, p)
         IN  /\ n \in Models
             /\ Consistent(n)
             /\ UniformlyEnabled(n)
             /\ ~ InArray(n, p)
             /\ n.selectedPictures =
                  IF InArray(m, p)
                  THEN RemoveAt(m.selectedPictures,
                                PositionOf(m.selectedPictures, p))
                  ELSE m.selectedPictures
<1> DEFINE x == [m EXCEPT !.selected[p] = FALSE]
           c == IF Full(x)
                THEN [x EXCEPT !.enabled = EnableUnselected(x.selected, x.enabled, TRUE)]
                ELSE x
           n == PreviewCancelled(m, p)
           s == [m.selected EXCEPT ![p] = FALSE]
           e == IF Full(m) THEN EnableUnselected(s, m.enabled, TRUE) ELSE m.enabled
<1>1. n = Removed(c, p)
  BY DEF PreviewCancelled
<1>2. /\ m.selectedPictures \in Seq(Picture)
      /\ m.selected \in [Picture -> BOOLEAN]
      /\ m.enabled \in [Picture -> BOOLEAN]
      /\ m.selectedIndex \in [Picture -> Int]
      /\ m.levitateCount \in Nat
      /\ m.levitateHidden \in BOOLEAN
  BY DEF Models
<1>0. x = [m EXCEPT !.selected = s]
  OBVIOUS
<1> HIDE DEF s, x
<1>3. x = [selectedPictures |-> m.selectedPictures,
           selected |-> s,
           enabled |-> m.enabled,
           selectedIndex |-> m.selectedIndex,
           levitateCount |-> m.levitateCount,
           levitateHidden |-> m.levitateHidden]
  BY <1>0 DEF Models
<1> USE DEF s
<1>4. c = [selectedPictures |-> m.selectedPictures,
           selected |-> s,
           enabled |-> e,
           selectedIndex |-> m.selectedIndex,
           levitateCount |-> m.levitateCount,
           levitateHidden |-> m.levitateHidden]
  BY <1>3 DEF Full
<1>5. s \in [Picture -> BOOLEAN] /\ e \in [Picture -> BOOLEAN]
  BY <1>2 DEF EnableUnselected
<1>6. \A q \in Picture : e[q]
  <2>1. \A q \in Picture : s[q] => m.selected[q]
    BY <1>2
  <2>2. \A q \in Picture : m.selected[q] => m.enabled[q]
    BY DEF UniformlyEnabled
  <2>3. CASE Full(m)
    BY <2>1, <2>2, <2>3 DEF EnableUnselected
  <2>4. CASE ~ Full(m)
    BY <2>4, RoomMeansEnabled
  <2> QED BY <2>3, <2>4
<1> HIDE DEF c, e
<1>7. c \in Models
  BY <1>2, <1>4, <1>5 DEF Models
<1>8. /\ c.selectedPictures = m.selectedPictures
      /\ c.selectedIndex = m.selectedIndex
      /\ c.selected = [m.selected EXCEPT ![p] = FALSE]
      /\ c.enabled = e
  BY <1>4
<1>9. n \in Models /\ Consistent(n)
  BY <1>1, <1>7, <1>8, RemovedConsistent
<1>10. InArray(m, p) <=> InArray(c, p)
  BY <1>8 DEF InArray
<1>11. /\ n.enabled = c.enabled
       /\ n.selected = c.selected
       /\ n.selectedPictures =
            IF InArray(m, p)
            THEN RemoveAt(m.selectedPictures, PositionOf(m.selectedPictures, p))
            ELSE m.selectedPictures
  <2>1. CASE InArray(c, p)
    BY <1>1, <1>7, <1>8, <1>10, <2>1, RemovedParts
  <2>2. CASE ~ InArray(c, p)
    BY <1>1, <1>8, <1>10, <2>2 DEF Removed
  <2> QED BY <2>1, <2>2
<1> HIDE DEF n, s
<1>12. UniformlyEnabled(n)
  BY <1>6, <1>8, <1>11 DEF UniformlyEnabled
<1>13. ~ InArray(n, p)
  <2>1. n.selected[p] = FALSE
    BY <1>2, <1>8, <1>11
  <2> QED BY <1>9, <2>1 DEF Consistent, FlagIsMembership
<1> QED BY <1>9, <1>11, <1>12, <1>13 DEF n

LEMMA PickerCancelledSound ==
  ASSUME NEW m \in Models, NEW p \in Picture,
         Consistent(m), UniformlyEnabled(m)
  PROVE  /\ Sound(PickerCancelled(m, p))
         /\ PickerCancelled(m, p).selectedPictures =
              IF InArray(m, p)
              THEN RemoveAt(m.selectedPictures, PositionOf(m.selectedPictures, p))
              ELSE m.selectedPictures
<1> DEFINE n == PreviewCancelled(m, p)
           r == PickerCancelled(m, p)
<1>1. /\ n \in Models
      /\ Consistent(n)
      /\ UniformlyEnabled(n)
      /\ n.selectedPictures =
           IF InArray(m, p)
           THEN RemoveAt(m.selectedPictures, PositionOf(m.selectedPictures, p))
           ELSE m.selectedPictures
  BY PreviewCancelledParts
<1>2. r = [n EXCEPT !.levitateCount = Len(n.selectedPictures),
                    !.levitateHidden = @ /\ n.selectedPictures = << >>]
  BY DEF PickerCancelled
<1> HIDE DEF n
<1>3. r = [selectedPictures |-> n.selectedPictures,
           selected |-> n.selected,
           enabled |-> n.enabled,
           selectedIndex |-> n.selectedIndex,
           levitateCount |-> Len(n.selectedPictures),
           levitateHidden |-> (n.levitateHidden /\ n.selectedPictures = << >>)]
  BY <1>1, <1>2 DEF Models
<1> HIDE DEF r
<1>4. r \in Models
  BY <1>1, <1>3 DEF Models
<1>5. Consistent(r) /\ UniformlyEnabled(r)
  BY <1>1, <1>3 DEF Consistent, NoDuplicates, FlagIsMembership, InArray,
                    IndexIsPosition, Bounded, UniformlyEnabled, Full
<1>6. CountLagsOnlyWhenFull(r) /\ BarShown(r)
  BY <1>3 DEF CountLagsOnlyWhenFull, BarShown
<1> QED BY <1>1, <1>3, <1>4, <1>5, <1>6 DEF Sound, r

LEMMA CancelledInPreviewSound ==
  ASSUME NEW m, Sound(m), NEW p \in Picture
  PROVE  /\ Sound(CancelledInPreview(m, p))
         /\ CancelledInPreview(m, p).selectedPictures =
              IF InArray(m, p)
              THEN RemoveAt(m.selectedPictures, PositionOf(m.selectedPictures, p))
              ELSE m.selectedPictures
<1> DEFINE n == PreviewCancelled(m, p)
<1>1. /\ m \in Models
      /\ Consistent(m)
      /\ UniformlyEnabled(m)
  BY DEF Sound
<1>2. /\ n \in Models
      /\ Consistent(n)
      /\ UniformlyEnabled(n)
      /\ ~ InArray(n, p)
      /\ n.selectedPictures =
           IF InArray(m, p)
           THEN RemoveAt(m.selectedPictures, PositionOf(m.selectedPictures, p))
           ELSE m.selectedPictures
  BY <1>1, PreviewCancelledParts
<1>3. CancelledInPreview(m, p) = PickerCancelled(n, p)
  BY DEF CancelledInPreview
<1> HIDE DEF n
<1> QED BY <1>2, <1>3, PickerCancelledSound

-----------------------------------------------------------------------------
(* What the picker's methods do to the status that a cell shows.           *)

LEMMA PickerSelectedStatus ==
  ASSUME NEW m, Sound(m), NEW p \in Picture,
         NEW n, n = PickerSelected(m, p)
  PROVE  /\ Sound(n)
         /\ Full(m) => n = m
         /\ \A q \in Picture : m.selected[q] => n.selected[q]
         /\ \A q \in Picture :
              q # p \/ n.selected[q] = m.selected[q]
                => /\ n.selected[q] = m.selected[q]
                   /\ n.selectedIndex[q] = m.selectedIndex[q]
         /\ \A q \in Picture : n.enabled[q] => m.enabled[q]
         /\ n.enabled = m.enabled \/ (~ Full(m) /\ Full(n))
         /\ n.enabled[p] = m.enabled[p]
<1>1. /\ m \in Models
      /\ Consistent(m)
      /\ UniformlyEnabled(m)
  BY DEF Sound
<1>2. CASE Full(m)
  BY <1>2 DEF PickerSelected
<1>3. CASE ~ Full(m)
  <2> DEFINE a == Added(m, p)
             l == Len(a.selectedPictures)
             h == FALSE
             k == [a EXCEPT !.levitateCount = l, !.levitateHidden = h]
             e == EnableUnselected(k.selected, k.enabled, FALSE)
  <2>1. Sound(n)
    BY <1>1, <1>3, PickerSelectedSound
  <2>2. n = IF Full(k) THEN [k EXCEPT !.enabled = e] ELSE k
    BY <1>3 DEF PickerSelected
  <2>3. /\ a.selected = [m.selected EXCEPT ![p] = TRUE]
        /\ a.enabled = m.enabled
    BY <1>1, AddedFrame
  <2>4. a \in Models
    BY <1>1, <1>3, AddedConsistent
  <2>5. /\ m.selected \in [Picture -> BOOLEAN]
        /\ m.selectedIndex \in [Picture -> Int]
        /\ m.selected[p] <=> InArray(m, p)
    BY <1>1 DEF Models, Consistent, FlagIsMembership
  <2>6. a.selectedIndex = IF InArray(m, p) THEN m.selectedIndex
                          ELSE [m.selectedIndex EXCEPT ![p] = Len(m.selectedPictures) + 1]
    <3>1. CASE InArray(m, p)
      BY <1>1, <3>1 DEF Added, Models
    <3>2. CASE ~ InArray(m, p)
      <4>1. Len(Append(m.selectedPictures, p)) = Len(m.selectedPictures) + 1
        BY <1>1 DEF Models
      <4> QED BY <1>1, <3>2, <4>1 DEF Added, Models
    <3> QED BY <3>1, <3>2
  <2> HIDE DEF a, l, h
  <2>7. /\ k.selectedPictures = a.selectedPictures
        /\ k.selected = a.selected
        /\ k.enabled = a.enabled
        /\ k.selectedIndex = a.selectedIndex
    BY <2>4 DEF Models
  <2>8. k = [k EXCEPT !.enabled = k.enabled]
    BY <2>4 DEF Models
  <2> HIDE DEF k, e
  <2>9. /\ n.selectedPictures = k.selectedPictures
        /\ n.selected = k.selected
        /\ n.selectedIndex = k.selectedIndex
        /\ n.enabled = IF Full(k) THEN e ELSE k.enabled
    <3>1. /\ k = [k EXCEPT !.enabled = k.enabled]
          /\ DOMAIN k = DOMAIN m
      BY <1>1, <2>4 DEF k, Models
    <3>2. DOMAIN m = {"selectedPictures", "selected", "enabled", "selectedIndex",
                      "levitateCount", "levitateHidden"}
      BY <1>1 DEF Models
    <3> QED BY <2>2, <3>1, <3>2
  <2>10. Full(n) <=> Full(k)
    BY <2>9 DEF Full
  <2>11. \A q \in Picture : m.enabled[q]
    BY <1>1, <1>3, RoomMeansEnabled
  <2>12. \A q \in Picture : m.selected[q] => n.selected[q]
    BY <2>3, <2>5, <2>7, <2>9
  <2>13. ASSUME NEW q \in Picture, q # p \/ n.selected[q] = m.selected[q]
         PROVE  /\ n.selected[q] = m.selected[q]
                /\ n.selectedIndex[q] = m.selectedIndex[q]
    <3>1. CASE q # p
      BY <2>3, <2>5, <2>6, <2>7, <2>9, <3>1
    <3>2. CASE q = p
      <4>1. m.selected[p]
        BY <2>3, <2>5, <2>7, <2>9, <2>13, <3>2
      <4> QED BY <2>5, <2>6, <2>7, <2>9, <2>13, <3>2, <4>1
    <3> QED BY <3>1, <3>2
  <2>14. n.enabled[p] = m.enabled[p]
    <3>1. n.selected[p]
      BY <2>3, <2>5, <2>7, <2>9
    <3>2. n.enabled[p] /\ m.enabled[p]
      BY <2>1, <2>11, <3>1 DEF Sound, UniformlyEnabled
    <3>3. n.enabled \in [Picture -> BOOLEAN] /\ m.enabled \in [Picture -> BOOLEAN]
      BY <1>1, <2>1 DEF Sound, Models
    <3> QED BY <3>2, <3>3
  <2> QED
    BY <1>3, <2>1, <2>3, <2>7, <2>9, <2>10, <2>11, <2>12, <2>13, <2>14
<1> QED BY <1>2, <1>3

LEMMA PickerCancelledStatus ==
  ASSUME NEW m, Sound(m), NEW p \in Picture, m.selected[p],
         NEW n, n = PickerCancelled(m, p)
  PROVE  /\ Sound(n)
         /\ ~ n.selected[p]
         /\ \A q \in Picture : n.selected[q] => m.selected[q]
         /\ \A q \in Picture : n.enabled[q]
<1>1. /\ m \in Models
      /\ Consistent(m)
      /\ UniformlyEnabled(m)
      /\ InArray(m, p)
  BY DEF Sound, Consistent, FlagIsMembership
<1> DEFINE i == PositionOf(m.selectedPictures, p)
<1>2. /\ Sound(n)
      /\ n.selectedPictures = RemoveAt(m.selectedPictures, i)
  BY <1>1, PickerCancelledSound
<1>3. /\ i \in 1 .. Len(m.selectedPictures)
      /\ m.selectedPictures[i] = p
  BY <1>1, PositionOfProperties
<1> HIDE DEF i
<1>4. /\ m.selectedPictures \in Seq(Picture)
      /\ n.selectedPictures \in Seq(Picture)
      /\ Len(n.selectedPictures) = Len(m.selectedPictures) - 1
      /\ \A j \in 1 .. Len(m.selectedPictures) - 1 :
           n.selectedPictures[j] = IF j < i THEN m.selectedPictures[j]
                                   ELSE m.selectedPictures[j + 1]
  BY <1>1, <1>2, <1>3, RemoveAtProperties DEF Models
<1>5. ~ Full(n)
  BY <1>1, <1>4, MaxCountAssumption DEF Full, Consistent, Bounded
<1>6. \A q \in Picture : n.enabled[q]
  BY <1>2, <1>5, RoomMeansEnabled DEF Sound
<1>7. ASSUME NEW q \in Picture, n.selected[q]
      PROVE  q # p /\ m.selected[q]
  <2>1. InArray(n, q)
    BY <1>2, <1>7 DEF Sound, Consistent, FlagIsMembership
  <2>2. PICK j \in 1 .. Len(m.selectedPictures) - 1 : n.selectedPictures[j] = q
    BY <1>4, <2>1 DEF InArray, Contains
  <2>3. PICK k \in 1 .. Len(m.selectedPictures) : k # i /\ m.selectedPictures[k] = q
    <3>1. CASE j < i
      BY <1>3, <1>4, <2>2, <3>1
    <3>2. CASE ~ j < i
      <4>1. j + 1 \in 1 .. Len(m.selectedPictures) /\ j + 1 # i
        BY <1>3, <1>4, <3>2
      <4> QED BY <1>4, <2>2, <3>2, <4>1
    <3> QED BY <3>1, <3>2
  <2>4. q # p
    BY <1>1, <1>3, <1>4, <2>3 DEF Consistent, NoDuplicates
  <2>5. InArray(m, q)
    BY <1>4, <2>3 DEF InArray, Contains
  <2> QED BY <1>1, <2>4, <2>5 DEF Consistent, FlagIsMembership
<1> QED BY <1>2, <1>6, <1>7

-----------------------------------------------------------------------------
(* How one step may change the array.                                      *)
Extended(m, n) ==
  /\ ~ Full(m)
  /\ \E p \in Picture :
       ~ InArray(m, p) /\ n.selectedPictures = Append(m.selectedPictures, p)

Shortened(m, n) ==
  \E i \in DOMAIN m.selectedPictures :
    n.selectedPictures = RemoveAt(m.selectedPictures, i)

Kept(m, n) == n.selectedPictures = m.selectedPictures

(* What the four methods, as the handlers call them, do to a sound         *)
(* selection.                                                              *)
LEMMA SelectingChanges ==
  ASSUME NEW m, Sound(m), NEW p \in Picture,
         NEW n \in {PickerSelected(m, p), SelectedInPreview(m, p)}
  PROVE  /\ Sound(n)
         /\ Kept(m, n) \/ Extended(m, n)
<1>1. /\ m \in Models
      /\ Consistent(m)
      /\ UniformlyEnabled(m)
  BY DEF Sound
<1>2. CASE Full(m)
  BY <1>2 DEF PickerSelected, SelectedInPreview, Kept
<1>3. CASE ~ Full(m)
  <2>1. /\ Sound(n)
        /\ n.selectedPictures = IF InArray(m, p) THEN m.selectedPictures
                                ELSE Append(m.selectedPictures, p)
    <3>1. CASE n = PickerSelected(m, p)
      BY <1>1, <1>3, <3>1, PickerSelectedSound
    <3>2. CASE n = SelectedInPreview(m, p)
      BY <1>3, <3>2, SelectedInPreviewSound
    <3> QED BY <3>1, <3>2
  <2> QED BY <1>3, <2>1 DEF Kept, Extended
<1> QED BY <1>2, <1>3

LEMMA CancellingChanges ==
  ASSUME NEW m, Sound(m), NEW p \in Picture,
         NEW n \in {PickerCancelled(m, p), CancelledInPreview(m, p)}
  PROVE  /\ Sound(n)
         /\ Kept(m, n) \/ Shortened(m, n)
<1>1. /\ m \in Models
      /\ Consistent(m)
      /\ UniformlyEnabled(m)
  BY DEF Sound
<1>2. /\ Sound(n)
      /\ n.selectedPictures =
           IF InArray(m, p)
           THEN RemoveAt(m.selectedPictures, PositionOf(m.selectedPictures, p))
           ELSE m.selectedPictures
  <2>1. CASE n = PickerCancelled(m, p)
    BY <1>1, <2>1, PickerCancelledSound
  <2>2. CASE n = CancelledInPreview(m, p)
    BY <2>2, CancelledInPreviewSound
  <2> QED BY <2>1, <2>2
<1>3. CASE InArray(m, p)
  <2>1. PositionOf(m.selectedPictures, p) \in DOMAIN m.selectedPictures
    BY <1>1, <1>3, PositionOfProperties DEF Models
  <2> QED BY <1>2, <1>3, <2>1 DEF Shortened
<1>4. CASE ~ InArray(m, p)
  BY <1>2, <1>4 DEF Kept
<1> QED BY <1>2, <1>3, <1>4

(* The numbers the pictures carry, and the numbers recomputed from the     *)
(* array: they are the same.                                               *)
Badge(m) == [p \in Picture |-> IF m.selected[p] THEN m.selectedIndex[p] ELSE 0]

Positions(s) ==
  [p \in Picture |-> IF Contains(s, p) THEN CHOOSE i \in DOMAIN s : s[i] = p ELSE 0]

LEMMA BadgesArePositions ==
  ASSUME NEW m, Sound(m)
  PROVE  Badge(m) = Positions(m.selectedPictures)
<1> DEFINE s == m.selectedPictures
<1>1. /\ \A i, j \in DOMAIN s : s[i] = s[j] => i = j
      /\ \A p \in Picture : m.selected[p] <=> Contains(s, p)
      /\ \A i \in DOMAIN s : m.selectedIndex[s[i]] = i
      /\ DOMAIN s = 1 .. Len(s)
  BY DEF Sound, Models, Consistent, NoDuplicates, FlagIsMembership,
         IndexIsPosition, InArray
<1> HIDE DEF s
<1>2. ASSUME NEW p \in Picture
      PROVE  (IF m.selected[p] THEN m.selectedIndex[p] ELSE 0)
               = IF Contains(s, p) THEN CHOOSE i \in DOMAIN s : s[i] = p ELSE 0
  <2>1. CASE Contains(s, p)
    <3>1. PICK i \in DOMAIN s : s[i] = p
      BY <1>1, <2>1 DEF Contains
    <3>2. (CHOOSE j \in DOMAIN s : s[j] = p) = i
      BY <1>1, <3>1
    <3> QED BY <1>1, <2>1, <3>1, <3>2
  <2>2. CASE ~ Contains(s, p)
    BY <1>1, <2>2
  <2> QED BY <2>1, <2>2
<1> QED BY <1>2, Zenon DEF Badge, Positions, s
=============================================================================
