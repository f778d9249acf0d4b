-------------------------- MODULE CameraRowProofs --------------------------
(***************************************************************************)
(* The camera row for every number of takes and every order of the user,   *)
(* the photo library and the main queue.                                   *)
(*                                                                         *)
(* Three arguments share the type invariant.  The display: a display that  *)
(* is still to be shown belongs to a take that will be finished with       *)
(* behind it, or is lost.  The result: a user who never went on has at     *)
(* most one take under way, and one result, after which the picker closes. *)
(* The close: a take that has been handed over has its closing block on    *)
(* the main queue, and the block holds the picker.                         *)
(***************************************************************************)
EXTENDS CameraRow, FiniteSetTheorems, TLAPS

(* Every display still to be shown is taken away by a block behind it, or  *)
(* will be, or is accounted for.                                           *)
ShowsExplained ==
  \A i \in DOMAIN main :
    main[i].do = "show" =>
      \/ state[main[i].take] \in Saving
      \/ main[i].take \in lost
      \/ \E j \in DOMAIN main :
           j > i /\ main[j].do = "finish" /\ main[j].take = main[i].take

(* A held closing block waits on the main queue.                           *)
Closing == \E i \in DOMAIN main : main[i].do = "finish" /\ main[i].held

(* What holds of a user who has waited for every take.                     *)
Patient ==
  ~ hasty =>
    /\ camera => /\ picker = "open" /\ main = << >>
                 /\ \A t \in Take : state[t] \notin Saving
    /\ \A t, u \in UnderWay : t = u
    /\ Len(handed) <= 1
    /\ handed # << >> => picker # "open" \/ Closing
    /\ \A t \in Take : state[t] \in Composing \union Saving => handed = << >>

(* The close that a take handed over is owed: until the picker closes, or  *)
(* the camera is closed in its place, the block that closes it is on the   *)
(* main queue and holds the picker (PickerVC 365-377).                     *)
CloseOwed ==
  \A t \in HandedTakes :
    \/ picker # "open"
    \/ diverted
    \/ \E i \in DOMAIN main :
         main[i].do = "finish" /\ main[i].take = t /\ main[i].held

IInv ==
  /\ TypeOK
  /\ ShowsExplained
  /\ DisplayExplained
  /\ Patient
  /\ CloseOwed

-----------------------------------------------------------------------------
(* The two queues of the module: one that only grows, one that shrinks.    *)

LEMMA AppendFacts ==
  ASSUME NEW S, NEW s \in Seq(S), NEW b \in S
  PROVE  /\ Append(s, b) \in Seq(S)
         /\ DOMAIN Append(s, b) = DOMAIN s \union {Len(s) + 1}
         /\ Len(Append(s, b)) = Len(s) + 1
         /\ \A i \in DOMAIN s : Append(s, b)[i] = s[i] /\ i < Len(s) + 1
         /\ Append(s, b)[Len(s) + 1] = b
         /\ Append(s, b) # << >>
OBVIOUS

LEMMA TailFacts ==
  ASSUME NEW S, NEW s \in Seq(S), s # << >>
  PROVE  /\ Tail(s) \in Seq(S)
         /\ 1 \in DOMAIN s /\ Head(s) = s[1] /\ s[1] \in S
         /\ \A i \in DOMAIN Tail(s) :
              i \in Nat /\ i + 1 \in DOMAIN s /\ Tail(s)[i] = s[i + 1]
         /\ \A i \in DOMAIN s :
              \/ i = 1
              \/ i \in Nat /\ i - 1 \in DOMAIN Tail(s) /\ Tail(s)[i - 1] = s[i]
OBVIOUS

(* What a new block, or the end of one, does to the takes under way.       *)
LEMMA MainGrows ==
  ASSUME main \in Seq(Block), NEW b \in Block, main' = Append(main, b)
  PROVE  /\ main' \in Seq(Block)
         /\ DOMAIN main' = DOMAIN main \union {Len(main) + 1}
         /\ \A i \in DOMAIN main : main'[i] = main[i] /\ i < Len(main) + 1
         /\ main'[Len(main) + 1] = b
BY AppendFacts

LEMMA InitIInv == Init => IInv
<1> SUFFICES ASSUME Init PROVE IInv
  OBVIOUS
<1>1. /\ main = << >> /\ handed = << >>
      /\ DOMAIN main = {} /\ DOMAIN handed = {}
      /\ main \in Seq(Block) /\ handed \in Seq(Take \union {"selection"})
      /\ Len(handed) = 0
  BY DEF Init
<1>2. HandedTakes = {}
  BY <1>1 DEF HandedTakes
<1>3. TypeOK
  BY <1>1, <1>2 DEF Init, TypeOK, States
<1>4. Patient
  BY <1>1 DEF Init, Patient, UnderWay, Composing, Saving
<1> QED BY <1>1, <1>2, <1>3, <1>4
     DEF Init, IInv, ShowsExplained, DisplayExplained, CloseOwed

-----------------------------------------------------------------------------
(* The steps, gathered by what they do to the main queue.                  *)

Taken(t) == TakePhoto(t) \/ TakeVideo(t) \/ TakeNothing(t)

(* What happens to a film before the camera delivers it.                   *)
Filmed(t) == FinishFilm(t) \/ FilmProgress(t) \/ FilmComposed(t) \/ FilmDropped(t)

Saved(t) == state[t] \in Saving /\ HandOver(t)

Idle == TapCamera \/ LeaveCamera \/ TapNextStep \/ TapClose \/ Deallocate
          \/ UNCHANGED vars

LEMMA Steps ==
  ASSUME [Next]_vars
  PROVE  \/ Idle
         \/ \E t \in Take : Taken(t) \/ Filmed(t) \/ Saved(t) \/ VideoNotSaved(t)
         \/ ShowBlock \/ FinishBlock
BY DEF Next, Idle, Taken, Filmed, Saved, PhotoSaved, VideoSaved, Saving

(* A film before its delivery leaves the main queue and the result alone.  *)
LEMMA FilmedFacts ==
  ASSUME TypeOK, NEW t \in Take, Filmed(t)
  PROVE  /\ UNCHANGED <<modal, picker, camera, main, handed, diverted>>
         /\ state' \in [Take -> States]
         /\ \A u \in Take : u # t => state'[u] = state[u]
         /\ state[t] \in {"untaken"} \union Composing
         /\ state'[t] \in {"over"} \union Composing
         /\ \A u \in lost : u \in Unshown => u \in lost'
         /\ lost' \subseteq lost
         /\ hud' \in BOOLEAN /\ hasty' \in BOOLEAN
         /\ hud' => lost' = lost /\ (hud \/ t \in UnderWay')
         /\ state[t] = "untaken" =>
              camera /\ hasty' = (hasty \/ UnderWay # {})
         /\ state[t] # "untaken" => t \in UnderWay /\ hasty' = hasty
BY DEF Filmed, FinishFilm, FilmProgress, FilmComposed, FilmDropped, TypeOK, States,
   Composing, Saving, UnderWay

(* What waits on the main queue does so for a take.                        *)
LEMMA Blocks ==
  ASSUME TypeOK, NEW i \in DOMAIN main
  PROVE  main[i] \in Block /\ main[i].take \in Take /\ main[i].take \in UnderWay
<1>1. main[i] \in Block
  BY DEF TypeOK
<1>2. main[i].take \in Take
  BY <1>1 DEF Block
<1> QED BY <1>1, <1>2 DEF UnderWay

LEMMA TakeGrows ==
  ASSUME TypeOK, NEW t \in Take, Taken(t)
  PROVE  /\ main' = Append(main, Show(t)) /\ Show(t) \in Block
         /\ main' \in Seq(Block)
         /\ DOMAIN main' = DOMAIN main \union {Len(main) + 1}
         /\ \A i \in DOMAIN main : main'[i] = main[i] /\ i < Len(main) + 1
         /\ main'[Len(main) + 1] = Show(t)
<1>1. main' = Append(main, Show(t)) /\ Show(t) \in Block
  BY DEF Taken, TakePhoto, TakeVideo, TakeNothing, Show, Block
<1> QED BY <1>1, MainGrows DEF TypeOK

LEMMA SavedGrows ==
  ASSUME TypeOK, NEW t \in Take, Saved(t), NEW b,
         b = [do |-> "finish", take |-> t, held |-> Alive]
  PROVE  /\ main' = Append(main, b) /\ b \in Block
         /\ main' \in Seq(Block)
         /\ DOMAIN main' = DOMAIN main \union {Len(main) + 1}
         /\ \A i \in DOMAIN main : main'[i] = main[i] /\ i < Len(main) + 1
         /\ main'[Len(main) + 1] = b
<1>1. Alive \in BOOLEAN
  BY DEF Alive
<1>2. main' = Append(main, b) /\ b \in Block
  BY <1>1 DEF Saved, HandOver, Block
<1> QED BY <1>2, MainGrows DEF TypeOK

LEMMA MainShrinks ==
  ASSUME TypeOK, ShowBlock \/ FinishBlock
  PROVE  /\ main' \in Seq(Block)
         /\ 1 \in DOMAIN main /\ Head(main) = main[1]
         /\ \A i \in DOMAIN main' :
              i \in Nat /\ i + 1 \in DOMAIN main /\ main'[i] = main[i + 1]
         /\ \A i \in DOMAIN main :
              \/ i = 1
              \/ i \in Nat /\ i - 1 \in DOMAIN main' /\ main'[i - 1] = main[i]
<1>1. main # << >> /\ main' = Tail(main)
  BY DEF ShowBlock, FinishBlock
<1> QED BY <1>1, TailFacts DEF TypeOK

-----------------------------------------------------------------------------
(* The display.                                                            *)

LEMMA ShowsStep ==
  ASSUME TypeOK, ShowsExplained, [Next]_vars
  PROVE  ShowsExplained'
<1> USE DEF ShowsExplained
<1>1. CASE Idle
  BY <1>1 DEF Idle, TapCamera, LeaveCamera, TapNextStep, TapClose, Deallocate,
     Close, vars
<1>2. ASSUME NEW t \in Take, Taken(t) PROVE ShowsExplained'
  <2>1. /\ state[t] \notin Saving
        /\ \A u \in Take : u # t => state'[u] = state[u]
        /\ state'[t] \in Saving \/ t \in lost'
    BY <1>2 DEF Taken, TakePhoto, TakeVideo, TakeNothing, TypeOK, Saving
  <2>2. \A u \in lost : u \in Unshown => u \in lost'
    BY <1>2 DEF Taken, TakePhoto, TakeVideo, TakeNothing
  <2>3. SUFFICES ASSUME NEW i \in DOMAIN main', main'[i].do = "show"
                 PROVE  \/ state'[main'[i].take] \in Saving
                        \/ main'[i].take \in lost'
                        \/ \E j \in DOMAIN main' :
                             /\ j > i
                             /\ main'[j].do = "finish"
                             /\ main'[j].take = main'[i].take
    OBVIOUS
  <2>4. CASE i = Len(main) + 1
    <3>1. main'[i] = Show(t)
      BY <1>2, <2>4, TakeGrows
    <3>2. main'[i].take = t
      BY <3>1 DEF Show
    <3> QED BY <3>2, <2>1
  <2>5. CASE i \in DOMAIN main
    <3>1. main'[i] = main[i] /\ main[i].take \in Take
      BY <1>2, <2>5, TakeGrows, Blocks
    <3>2. CASE state[main[i].take] \in Saving
      BY <3>1, <3>2, <2>1
    <3>3. CASE main[i].take \in lost
      BY <3>1, <3>3, <2>2, <2>3, <2>5 DEF Unshown
    <3>4. ASSUME NEW j \in DOMAIN main, j > i, main[j].do = "finish",
                 main[j].take = main[i].take
          PROVE  /\ j \in DOMAIN main' /\ j > i /\ main'[j].do = "finish"
                 /\ main'[j].take = main'[i].take
      BY <1>2, <3>1, <3>4, TakeGrows
    <3> QED BY <3>1, <3>2, <3>3, <3>4, <2>3, <2>5
  <2> QED BY <2>4, <2>5, <1>2, TakeGrows
<1>3. ASSUME NEW t \in Take, Saved(t) PROVE ShowsExplained'
  <2> DEFINE b == [do |-> "finish", take |-> t, held |-> Alive]
  <2>1. /\ \A u \in Take : u # t => state'[u] = state[u]
        /\ lost' = lost
    BY <1>3 DEF Saved, HandOver, TypeOK
  <2>2. /\ DOMAIN main' = DOMAIN main \union {Len(main) + 1}
        /\ \A i \in DOMAIN main : main'[i] = main[i] /\ i < Len(main) + 1
        /\ main'[Len(main) + 1] = b
    BY <1>3, SavedGrows
  <2>3. SUFFICES ASSUME NEW i \in DOMAIN main', main'[i].do = "show"
                 PROVE  \/ state'[main'[i].take] \in Saving
                        \/ main'[i].take \in lost'
                        \/ \E j \in DOMAIN main' :
                             /\ j > i
                             /\ main'[j].do = "finish"
                             /\ main'[j].take = main'[i].take
    OBVIOUS
  <2>4. i \in DOMAIN main /\ main'[i] = main[i] /\ main[i].take \in Take
    BY <2>2, <2>3, Blocks
  <2>5. CASE main[i].take = t
    <3>1. /\ Len(main) + 1 \in DOMAIN main' /\ Len(main) + 1 > i
          /\ main'[Len(main) + 1].do = "finish"
          /\ main'[Len(main) + 1].take = main'[i].take
      BY <2>2, <2>4, <2>5
    <3> QED BY <3>1
  <2>6. CASE main[i].take # t
    <3>1. state'[main[i].take] = state[main[i].take]
      BY <2>1, <2>4, <2>6
    <3>2. CASE state[main[i].take] \in Saving
      BY <2>4, <3>1, <3>2
    <3>3. CASE main[i].take \in lost
      BY <2>1, <2>4, <3>3
    <3>4. ASSUME NEW j \in DOMAIN main, j > i, main[j].do = "finish",
                 main[j].take = main[i].take
          PROVE  /\ j \in DOMAIN main' /\ j > i /\ main'[j].do = "finish"
                 /\ main'[j].take = main'[i].take
      BY <2>2, <2>4, <3>4
    <3> QED BY <2>3, <2>4, <3>2, <3>3, <3>4
  <2> QED BY <2>5, <2>6
<1>4. ASSUME NEW t \in Take, VideoNotSaved(t) PROVE ShowsExplained'
  <2>1. /\ \A u \in Take : u # t => state'[u] = state[u]
        /\ t \in lost' /\ lost \subseteq lost' /\ main' = main
    BY <1>4 DEF VideoNotSaved, TypeOK
  <2> QED BY <2>1, Blocks
<1>5. ASSUME NEW t \in Take, Filmed(t) PROVE ShowsExplained'
  <2>1. /\ main' = main /\ state[t] \notin Saving
        /\ \A u \in Take : u # t => state'[u] = state[u]
        /\ \A u \in lost : u \in Unshown => u \in lost'
    BY <1>5, FilmedFacts DEF Composing, Saving
  <2>2. \A i \in DOMAIN main :
          main[i].do = "show" => main[i].take \in Take /\ main[i].take \in Unshown
    BY Blocks DEF Unshown
  <2> QED BY <2>1, <2>2
<1>6. CASE ShowBlock \/ FinishBlock
  <2>1. state' = state /\ \A u \in lost : u \in Unshown => u \in lost'
    BY <1>6 DEF ShowBlock, FinishBlock
  <2>2. SUFFICES ASSUME NEW i \in DOMAIN main', main'[i].do = "show"
                 PROVE  \/ state'[main'[i].take] \in Saving
                        \/ main'[i].take \in lost'
                        \/ \E j \in DOMAIN main' :
                             /\ j > i
                             /\ main'[j].do = "finish"
                             /\ main'[j].take = main'[i].take
    OBVIOUS
  <2>3. /\ i \in Nat /\ i + 1 \in DOMAIN main /\ main'[i] = main[i + 1]
        /\ main[i + 1].take \in Take
    BY <1>6, <2>2, MainShrinks, Blocks
  <2>4. CASE main[i + 1].take \in lost
    BY <2>1, <2>2, <2>3, <2>4 DEF Unshown
  <2>5. ASSUME NEW j \in DOMAIN main, j > i + 1, main[j].do = "finish",
               main[j].take = main[i + 1].take
        PROVE  /\ j - 1 \in DOMAIN main' /\ j - 1 > i
               /\ main'[j - 1].do = "finish"
               /\ main'[j - 1].take = main'[i].take
    <3>1. j # 1
      BY <2>3, <2>5
    <3> QED BY <1>6, <2>3, <2>5, <3>1, MainShrinks
  <2> QED BY <2>1, <2>2, <2>3, <2>4, <2>5
<1> QED BY <1>1, <1>2, <1>3, <1>4, <1>5, <1>6, Steps

LEMMA DisplayStep ==
  ASSUME TypeOK, ShowsExplained, DisplayExplained, [Next]_vars
  PROVE  DisplayExplained'
<1> USE DEF DisplayExplained
<1>1. CASE Idle
  BY <1>1 DEF Idle, TapCamera, LeaveCamera, TapNextStep, TapClose, Deallocate,
     Close, vars, UnderWay
<1>2. ASSUME NEW t \in Take, Taken(t) PROVE DisplayExplained'
  <2>1. CASE TakePhoto(t)
    BY <2>1 DEF TakePhoto, UnderWay, TypeOK, Saving
  <2> QED BY <1>2, <2>1 DEF Taken, TakeVideo, TakeNothing
<1>3. ASSUME NEW t \in Take, Saved(t) PROVE DisplayExplained'
  <2> DEFINE b == [do |-> "finish", take |-> t, held |-> Alive]
  <2>1. /\ Len(main) + 1 \in DOMAIN main'
        /\ main'[Len(main) + 1] = b
    BY <1>3, SavedGrows
  <2> QED BY <2>1 DEF UnderWay
<1>4. ASSUME NEW t \in Take, VideoNotSaved(t) PROVE DisplayExplained'
  BY <1>4 DEF VideoNotSaved
<1>5. CASE ShowBlock
  <2>1. /\ 1 \in DOMAIN main /\ main[1].do = "show" /\ main[1].take \in Take
        /\ lost' = lost /\ state' = state
    BY <1>5, MainShrinks, Blocks DEF ShowBlock
  <2>2. CASE state[main[1].take] \in Saving
    BY <2>1, <2>2 DEF UnderWay
  <2>3. ASSUME NEW j \in DOMAIN main, j > 1, main[j].take = main[1].take
        PROVE  UnderWay' # {}
    <3>1. j - 1 \in DOMAIN main' /\ main'[j - 1] = main[j]
      BY <1>5, <2>3, MainShrinks
    <3> QED BY <3>1, <2>1, <2>3 DEF UnderWay
  <2> QED BY <2>1, <2>2, <2>3 DEF ShowsExplained
<1>6. CASE FinishBlock
  BY <1>6 DEF FinishBlock
<1>7. ASSUME NEW t \in Take, Filmed(t) PROVE DisplayExplained'
  <2>1. UnderWay \subseteq UnderWay' \union {t}
    BY <1>7, FilmedFacts DEF UnderWay
  <2>2. CASE state'[t] = "over"
    BY <1>7, <2>2 DEF Filmed, FinishFilm, FilmProgress, FilmComposed, FilmDropped,
       TypeOK, Composing
  <2>3. CASE state'[t] \in Composing
    BY <1>7, <2>3, FilmedFacts DEF UnderWay
  <2> QED BY <1>7, <2>2, <2>3, FilmedFacts
<1> QED BY <1>1, <1>2, <1>3, <1>4, <1>5, <1>6, <1>7, Steps

-----------------------------------------------------------------------------
(* The types.                                                              *)

LEMMA TypeStep ==
  ASSUME TypeOK, [Next]_vars
  PROVE  TypeOK'
<1>1. ASSUME UNCHANGED handed, \A t \in Take : state[t] = "over" => state'[t] = "over"
      PROVE  \A t \in HandedTakes' :
               /\ state'[t] = "over"
               /\ Cardinality({i \in DOMAIN handed' : handed'[i] = t}) = 1
  BY <1>1 DEF TypeOK, HandedTakes
<1>2. CASE Idle
  <2>1. CASE TapNextStep
    <3>1. /\ handed' = Append(handed, "selection")
          /\ handed' \in Seq(Take \union {"selection"})
          /\ DOMAIN handed' = DOMAIN handed \union {Len(handed) + 1}
          /\ \A i \in DOMAIN handed : handed'[i] = handed[i]
          /\ handed'[Len(handed) + 1] = "selection"
      BY <2>1, AppendFacts DEF TapNextStep, TypeOK
    <3>2. \A t \in Take : {i \in DOMAIN handed' : handed'[i] = t}
                            = {i \in DOMAIN handed : handed[i] = t}
      BY <3>1, TakeAssumption
    <3>3. HandedTakes' = HandedTakes
      BY <3>1, TakeAssumption DEF HandedTakes
    <3>4. \A t \in HandedTakes' :
            /\ state'[t] = "over"
            /\ Cardinality({i \in DOMAIN handed' : handed'[i] = t}) = 1
      BY <2>1, <3>2, <3>3 DEF TapNextStep, TypeOK, HandedTakes
    <3> QED BY <2>1, <3>1, <3>4 DEF TapNextStep, TypeOK, Close
  <2>2. CASE ~ TapNextStep
    <3>1. UNCHANGED <<handed, state>>
      BY <1>2, <2>2 DEF Idle, TapCamera, LeaveCamera, TapClose, Deallocate, vars
    <3> QED BY <1>1, <1>2, <2>2, <3>1 DEF TypeOK, Idle, TapCamera, LeaveCamera,
       TapClose, Deallocate, Close, vars
  <2> QED BY <2>1, <2>2
<1>3. ASSUME NEW t \in Take, Taken(t) PROVE TypeOK'
  <2>1. UNCHANGED handed /\ \A u \in Take : state[u] = "over" => state'[u] = "over"
    BY <1>3 DEF Taken, TakePhoto, TakeVideo, TakeNothing, TypeOK
  <2>2. main' \in Seq(Block)
    BY <1>3, TakeGrows
  <2> QED BY <1>1, <1>3, <2>1, <2>2
       DEF Taken, TakePhoto, TakeVideo, TakeNothing, TypeOK, States, Saving
<1>4. ASSUME NEW t \in Take, Saved(t) PROVE TypeOK'
  <2> DEFINE b == [do |-> "finish", take |-> t, held |-> Alive]
  <2>1. main' \in Seq(Block)
    BY <1>4, SavedGrows
  <2>2. /\ state' \in [Take -> States] /\ state'[t] = "over"
        /\ \A u \in Take : u # t => state'[u] = state[u]
    BY <1>4 DEF Saved, HandOver, TypeOK, States
  <2>3. t \notin HandedTakes
    BY <1>4 DEF Saved, TypeOK, Saving
  <2>4. CASE ~ Alive
    BY <1>1, <1>4, <2>1, <2>2, <2>4 DEF Saved, HandOver, TypeOK
  <2>5. CASE Alive
    <3>1. /\ handed' \in Seq(Take \union {"selection"})
          /\ DOMAIN handed' = DOMAIN handed \union {Len(handed) + 1}
          /\ \A i \in DOMAIN handed : handed'[i] = handed[i]
          /\ handed'[Len(handed) + 1] = t
      BY <1>4, <2>5, AppendFacts DEF Saved, HandOver, TypeOK
    <3>2. {i \in DOMAIN handed' : handed'[i] = t} = {Len(handed) + 1}
      BY <2>3, <3>1 DEF HandedTakes
    <3>3. Cardinality({i \in DOMAIN handed' : handed'[i] = t}) = 1
      BY <3>2, FS_Singleton
    <3>4. ASSUME NEW u \in HandedTakes', u # t
          PROVE  /\ state'[u] = "over"
                 /\ Cardinality({i \in DOMAIN handed' : handed'[i] = u}) = 1
      <4>1. {i \in DOMAIN handed' : handed'[i] = u}
              = {i \in DOMAIN handed : handed[i] = u}
        BY <3>1, <3>4
      <4>2. u \in HandedTakes
        BY <3>1, <3>4 DEF HandedTakes
      <4> QED BY <2>2, <3>4, <4>1, <4>2 DEF TypeOK, HandedTakes
    <3>5. \A u \in HandedTakes' :
            /\ state'[u] = "over"
            /\ Cardinality({i \in DOMAIN handed' : handed'[i] = u}) = 1
      BY <2>2, <3>3, <3>4
    <3>6. UNCHANGED <<modal, picker, camera, hud, lost, hasty, diverted>>
      BY <1>4 DEF Saved, HandOver
    <3> QED BY <2>1, <2>2, <3>1, <3>5, <3>6 DEF TypeOK
  <2> QED BY <2>4, <2>5
<1>5. ASSUME NEW t \in Take, VideoNotSaved(t) PROVE TypeOK'
  <2>1. /\ state' \in [Take -> States] /\ lost' \subseteq Take
        /\ \A u \in Take : state[u] = "over" => state'[u] = "over"
        /\ UNCHANGED <<modal, picker, camera, main, hud, handed, hasty, diverted>>
    BY <1>5 DEF VideoNotSaved, TypeOK, States
  <2>2. \A u \in HandedTakes' :
          /\ state'[u] = "over"
          /\ Cardinality({i \in DOMAIN handed' : handed'[i] = u}) = 1
    BY <1>1, <2>1
  <2> QED BY <2>1, <2>2 DEF TypeOK
<1>6. CASE ShowBlock \/ FinishBlock
  <2>1. /\ main' \in Seq(Block)
        /\ UNCHANGED <<modal, handed, state, hasty>>
        /\ hud' \in BOOLEAN /\ lost' \subseteq lost
    BY <1>6, MainShrinks DEF ShowBlock, FinishBlock
  <2>2. /\ picker' \in {picker, "closing"}
        /\ camera' \in BOOLEAN /\ diverted' \in BOOLEAN
    BY <1>6 DEF ShowBlock, FinishBlock, Close, TypeOK
  <2>3. \A t \in HandedTakes' :
          /\ state'[t] = "over"
          /\ Cardinality({i \in DOMAIN handed' : handed'[i] = t}) = 1
    BY <1>1, <2>1
  <2> QED BY <2>1, <2>2, <2>3 DEF TypeOK
<1>7. ASSUME NEW t \in Take, Filmed(t) PROVE TypeOK'
  <2>1. \A u \in Take : state[u] = "over" => state'[u] = "over"
    BY <1>7, FilmedFacts DEF Composing
  <2>2. \A u \in HandedTakes' :
          /\ state'[u] = "over"
          /\ Cardinality({i \in DOMAIN handed' : handed'[i] = u}) = 1
    BY <1>1, <1>7, <2>1, FilmedFacts
  <2> QED BY <1>7, <2>2, FilmedFacts DEF TypeOK
<1> QED BY <1>2, <1>3, <1>4, <1>5, <1>6, <1>7, Steps

-----------------------------------------------------------------------------
(* The takes under way, and the result of a patient user.                  *)

(* A take is under way anew only when it is taken; a take that is handed   *)
(* over or whose display is shown was under way before.                    *)
LEMMA UnderWayStep ==
  ASSUME TypeOK, [Next]_vars
  PROVE  /\ Idle => UnderWay' = UnderWay
         /\ \A t \in Take : Taken(t) => UnderWay' \subseteq UnderWay \union {t}
         /\ \A t \in Take : Filmed(t) => UnderWay' \subseteq UnderWay \union {t}
         /\ \A t \in Take : Saved(t) => UnderWay' \subseteq UnderWay /\ t \in UnderWay
         /\ \A t \in Take : VideoNotSaved(t) => UnderWay' \subseteq UnderWay
         /\ ShowBlock \/ FinishBlock => UnderWay' \subseteq UnderWay
<1>1. Idle => UnderWay' = UnderWay
  BY DEF Idle, TapCamera, LeaveCamera, TapNextStep, TapClose, Deallocate, vars, UnderWay
<1>2. ASSUME NEW t \in Take, Taken(t) PROVE UnderWay' \subseteq UnderWay \union {t}
  <2>1. \A u \in Take : u # t => state'[u] = state[u]
    BY <1>2 DEF Taken, TakePhoto, TakeVideo, TakeNothing, TypeOK
  <2>2. Show(t).take = t
    BY DEF Show
  <2>3. /\ DOMAIN main' = DOMAIN main \union {Len(main) + 1}
        /\ \A i \in DOMAIN main : main'[i] = main[i]
        /\ main'[Len(main) + 1].take = t
    BY <1>2, <2>2, TakeGrows
  <2> QED BY <2>1, <2>3 DEF UnderWay
<1>3. ASSUME NEW t \in Take, Saved(t)
      PROVE  UnderWay' \subseteq UnderWay /\ t \in UnderWay
  <2> DEFINE b == [do |-> "finish", take |-> t, held |-> Alive]
  <2>1. t \in UnderWay
    BY <1>3 DEF Saved, UnderWay, Saving
  <2>2. \A u \in Take : u # t => state'[u] = state[u]
    BY <1>3 DEF Saved, HandOver, TypeOK
  <2>3. /\ DOMAIN main' = DOMAIN main \union {Len(main) + 1}
        /\ \A i \in DOMAIN main : main'[i] = main[i]
        /\ main'[Len(main) + 1] = b
    BY <1>3, SavedGrows
  <2>4. main'[Len(main) + 1].take = t
    BY <2>3
  <2>5. \A u \in UnderWay' : u = t \/ u \in UnderWay
    BY <2>2, <2>3, <2>4 DEF UnderWay
  <2> QED BY <2>1, <2>5
<1>4. ASSUME NEW t \in Take, VideoNotSaved(t) PROVE UnderWay' \subseteq UnderWay
  BY <1>4 DEF VideoNotSaved, UnderWay, TypeOK, Composing, Saving
<1>5. ASSUME ShowBlock \/ FinishBlock PROVE UnderWay' \subseteq UnderWay
  <2>1. state' = state
    BY <1>5 DEF ShowBlock, FinishBlock
  <2>2. \A i \in DOMAIN main' : i + 1 \in DOMAIN main /\ main'[i] = main[i + 1]
    BY <1>5, MainShrinks
  <2> QED BY <2>1, <2>2 DEF UnderWay
<1>6. ASSUME NEW t \in Take, Filmed(t) PROVE UnderWay' \subseteq UnderWay \union {t}
  BY <1>6, FilmedFacts DEF UnderWay
<1> QED BY <1>1, <1>2, <1>3, <1>4, <1>5, <1>6

LEMMA PatientStep ==
  ASSUME TypeOK, Patient, [Next]_vars
  PROVE  Patient'
<1> SUFFICES ASSUME ~ hasty' PROVE Patient'
  BY DEF Patient
<1>1. ~ hasty
  BY Steps DEF Idle, TapCamera, LeaveCamera, TapNextStep, TapClose, Deallocate, vars,
     Taken, TakePhoto, TakeVideo, TakeNothing, Filmed, FinishFilm, FilmProgress,
     FilmComposed, FilmDropped, Saved, HandOver, VideoNotSaved, ShowBlock,
     FinishBlock, TypeOK
<1>2. /\ camera => /\ picker = "open" /\ main = << >>
                   /\ \A t \in Take : state[t] \notin Saving
      /\ \A t, u \in UnderWay : t = u
      /\ Len(handed) <= 1
      /\ handed # << >> => picker # "open" \/ Closing
      /\ \A t \in Take : state[t] \in Composing \union Saving => handed = << >>
  BY <1>1 DEF Patient
<1>3. Closing => UnderWay # {}
  BY Blocks DEF Closing
<1>4. UnderWay = {} /\ picker = "open" => handed = << >>
  BY <1>2, <1>3
<1>5. handed = << >> => Len(handed) = 0
  OBVIOUS
<1>6. CASE Idle
  <2>1. UnderWay' = UnderWay
    BY <1>6, UnderWayStep
  <2>2. UNCHANGED <<main, state>>
    BY <1>6 DEF Idle, TapCamera, LeaveCamera, TapNextStep, TapClose, Deallocate, vars
  <2>3. Closing' = Closing
    BY <2>2 DEF Closing
  <2>4. CASE TapNextStep
    <3>1. UnderWay = {} /\ handed = << >> /\ ~ camera /\ picker = "open"
      BY <1>4, <2>4 DEF TapNextStep, Usable
    <3>2. handed' = <<"selection">> /\ Len(handed') = 1
      BY <2>4, <3>1 DEF TapNextStep
    <3>3. picker' = "closing" /\ camera' = camera
      BY <2>4, <3>1 DEF TapNextStep, Close
    <3>4. \A t \in Take : state'[t] \notin Composing \union Saving
      BY <2>2, <3>1 DEF UnderWay
    <3> QED BY <2>1, <3>1, <3>2, <3>3, <3>4 DEF Patient
  <2>5. CASE TapCamera
    <3>1. UnderWay = {} /\ picker' = "open" /\ handed' = handed
      BY <2>5 DEF TapCamera, Usable
    <3>2. main = << >> /\ \A t \in Take : state[t] \notin Saving
      BY <3>1, Blocks DEF UnderWay, TypeOK
    <3> QED BY <1>2, <2>1, <2>2, <2>3, <2>5, <3>1, <3>2 DEF TapCamera, Usable, Patient
  <2>6. CASE TapClose
    <3>1. camera' = FALSE /\ picker' = "closing" /\ handed' = handed
      BY <2>6 DEF TapClose, Close, Usable, TypeOK
    <3> QED BY <1>2, <2>1, <2>2, <2>3, <3>1 DEF Patient
  <2>7. CASE Deallocate
    <3>1. camera' = FALSE /\ picker' = "gone" /\ handed' = handed
      BY <1>2, <2>7 DEF Deallocate, TypeOK
    <3> QED BY <1>2, <2>1, <2>2, <2>3, <3>1 DEF Patient
  <2>8. CASE LeaveCamera \/ UNCHANGED vars
    <3>1. camera' \in {camera, FALSE} /\ picker' = picker /\ handed' = handed
      BY <2>8 DEF LeaveCamera, vars
    <3> QED BY <1>2, <2>1, <2>2, <2>3, <3>1 DEF Patient
  <2> QED BY <1>6, <2>4, <2>5, <2>6, <2>7, <2>8 DEF Idle
<1>7. ASSUME NEW t \in Take, Taken(t) PROVE Patient'
  <2>1. camera' = FALSE /\ picker' = picker /\ handed' = handed
    BY <1>7 DEF Taken, TakePhoto, TakeVideo, TakeNothing
  <2>2. CASE TakePhoto(t)
    <3>1. camera /\ UnderWay = {}
      BY <2>2 DEF TakePhoto
    <3>2. handed = << >>
      BY <1>2, <1>4, <3>1
    <3>3. UnderWay' \subseteq {t}
      BY <1>7, <3>1, UnderWayStep
    <3> QED BY <1>5, <2>1, <3>2, <3>3 DEF Patient
  <2>3. CASE TakeVideo(t) \/ TakeNothing(t)
    <3>1. t \in UnderWay /\ handed = << >>
      BY <1>2, <2>3 DEF TakeVideo, TakeNothing, UnderWay, Composing
    <3>2. UnderWay' \subseteq UnderWay
      BY <1>7, <3>1, UnderWayStep
    <3> QED BY <1>2, <1>5, <2>1, <3>1, <3>2 DEF Patient
  <2> QED BY <1>7, <2>2, <2>3 DEF Taken
<1>8. ASSUME NEW t \in Take, Saved(t) PROVE Patient'
  <2> DEFINE b == [do |-> "finish", take |-> t, held |-> Alive]
  <2>1. t \in UnderWay /\ UnderWay' \subseteq UnderWay /\ handed = << >>
    BY <1>2, <1>8, UnderWayStep DEF Saved
  <2>2. UNCHANGED <<picker, camera>> /\ ~ camera /\ state'[t] = "over"
        /\ \A u \in Take : u # t => state'[u] = state[u]
    BY <1>2, <1>8 DEF Saved, HandOver, TypeOK
  <2>3. Len(handed') <= 1
    BY <1>8, <2>1 DEF Saved, HandOver
  <2>4. Len(main) + 1 \in DOMAIN main' /\ main'[Len(main) + 1] = b
    BY <1>8, SavedGrows
  <2>5. picker = "open" => Closing'
    <3>1. b.do = "finish" /\ (picker = "open" => b.held)
      BY DEF Alive
    <3> QED BY <2>4, <3>1 DEF Closing
  <2>6. \A u \in Take : state'[u] \notin Composing \union Saving
    BY <1>2, <2>1, <2>2 DEF UnderWay, Composing, Saving
  <2> QED BY <1>2, <2>1, <2>2, <2>3, <2>5, <2>6 DEF Patient
<1>9. ASSUME NEW t \in Take, VideoNotSaved(t) PROVE Patient'
  <2>1. /\ UNCHANGED <<picker, camera, main, handed>>
        /\ \A u \in Take : state'[u] # "over" => state'[u] = state[u]
        /\ state[t] \in Saving /\ "over" \notin Composing \union Saving
    BY <1>9 DEF VideoNotSaved, TypeOK, Composing, Saving
  <2>2. UnderWay' \subseteq UnderWay /\ Closing' = Closing
    BY <1>9, <2>1, UnderWayStep DEF Closing
  <2> QED BY <1>2, <2>1, <2>2 DEF Patient
<1>10. CASE ShowBlock \/ FinishBlock
  <2>1. UnderWay' \subseteq UnderWay /\ UNCHANGED <<handed, state>>
    BY <1>10, UnderWayStep DEF ShowBlock, FinishBlock
  <2>2. 1 \in DOMAIN main /\ Head(main) = main[1]
    BY <1>10, MainShrinks
  <2>3. ~ camera
    BY <1>2, <1>10 DEF ShowBlock, FinishBlock
  <2>4. ~ (main[1].do = "finish" /\ main[1].held) => (Closing => Closing')
    BY <1>10, MainShrinks DEF Closing
  <2>5. CASE FinishBlock /\ main[1].held
    <3>1. camera' = FALSE /\ picker' # "open"
      BY <2>2, <2>3, <2>5 DEF FinishBlock, Close
    <3> QED BY <1>2, <2>1, <3>1 DEF Patient
  <2>6. CASE ~ (FinishBlock /\ main[1].held)
    <3>1. UNCHANGED <<camera, picker>> /\ (Closing => Closing')
      BY <1>10, <2>2, <2>4, <2>6 DEF FinishBlock, ShowBlock
    <3> QED BY <1>2, <2>1, <2>3, <3>1 DEF Patient
  <2> QED BY <2>5, <2>6
<1>11. ASSUME NEW t \in Take, Filmed(t) PROVE Patient'
  <2>1. UNCHANGED <<picker, camera, main, handed>> /\ Closing' = Closing
    BY <1>11, FilmedFacts DEF Closing
  <2>2. UnderWay' \subseteq UnderWay \union {t}
    BY <1>11, UnderWayStep
  <2>3. \A u \in Take : state'[u] \in Saving => state[u] \in Saving
    BY <1>11, FilmedFacts DEF Composing, Saving
  <2>4. CASE state[t] = "untaken"
    <3>1. camera /\ UnderWay = {}
      BY <1>11, <2>4, FilmedFacts
    <3>2. handed = << >>
      BY <1>2, <1>4, <3>1
    <3> QED BY <1>2, <1>5, <2>1, <2>2, <2>3, <3>1, <3>2 DEF Patient
  <2>5. CASE state[t] # "untaken"
    <3>1. t \in UnderWay /\ state[t] \in Composing
      BY <1>11, <2>5, FilmedFacts
    <3>2. handed = << >>
      BY <1>2, <3>1
    <3> QED BY <1>2, <1>5, <2>1, <2>2, <2>3, <3>1, <3>2 DEF Patient
  <2> QED BY <2>4, <2>5
<1> QED BY <1>6, <1>7, <1>8, <1>9, <1>10, <1>11, Steps

-----------------------------------------------------------------------------
(* The close that is owed.                                                 *)

LEMMA CloseStep ==
  ASSUME TypeOK, CloseOwed, [Next]_vars
  PROVE  CloseOwed'
<1> USE DEF CloseOwed
<1>1. CASE Idle
  <2>1. /\ HandedTakes' = HandedTakes /\ main' = main
        /\ picker # "open" => picker' # "open"
        /\ diverted => diverted'
    <3>1. CASE TapNextStep
      <4>1. /\ DOMAIN handed' = DOMAIN handed \union {Len(handed) + 1}
            /\ \A i \in DOMAIN handed : handed'[i] = handed[i]
            /\ handed'[Len(handed) + 1] = "selection"
        BY <3>1, AppendFacts DEF TapNextStep, TypeOK
      <4>2. HandedTakes' = HandedTakes
        BY <4>1, TakeAssumption DEF HandedTakes
      <4> QED BY <3>1, <4>2 DEF TapNextStep, Close
    <3> QED BY <1>1, <3>1 DEF Idle, TapCamera, LeaveCamera, TapClose, Deallocate,
         Close, vars, HandedTakes
  <2> QED BY <2>1
<1>2. ASSUME NEW t \in Take, Taken(t) PROVE CloseOwed'
  <2>1. HandedTakes' = HandedTakes /\ UNCHANGED <<picker, diverted>>
    BY <1>2 DEF Taken, TakePhoto, TakeVideo, TakeNothing, HandedTakes
  <2>2. \A i \in DOMAIN main : i \in DOMAIN main' /\ main'[i] = main[i]
    BY <1>2, TakeGrows
  <2> QED BY <2>1, <2>2
<1>3. ASSUME NEW t \in Take, Saved(t) PROVE CloseOwed'
  <2> DEFINE b == [do |-> "finish", take |-> t, held |-> Alive]
  <2>1. UNCHANGED <<picker, diverted>>
    BY <1>3 DEF Saved, HandOver
  <2>2. /\ \A i \in DOMAIN main : i \in DOMAIN main' /\ main'[i] = main[i]
        /\ Len(main) + 1 \in DOMAIN main' /\ main'[Len(main) + 1] = b
    BY <1>3, SavedGrows
  <2>3. HandedTakes' \subseteq HandedTakes \union {t}
    <3>1. CASE handed' = handed
      BY <3>1 DEF HandedTakes
    <3>2. CASE handed' = Append(handed, t)
      <4>1. /\ DOMAIN handed' = DOMAIN handed \union {Len(handed) + 1}
            /\ \A i \in DOMAIN handed : handed'[i] = handed[i]
            /\ handed'[Len(handed) + 1] = t
        BY <3>2, AppendFacts DEF TypeOK
      <4> QED BY <4>1 DEF HandedTakes
    <3> QED BY <1>3, <3>1, <3>2 DEF Saved, HandOver
  <2>4. picker = "open" => b.held
    BY DEF Alive
  <2>5. \/ picker' # "open"
        \/ \E i \in DOMAIN main' :
             main'[i].do = "finish" /\ main'[i].take = t /\ main'[i].held
    BY <2>1, <2>2, <2>4
  <2> QED BY <2>1, <2>2, <2>3, <2>5
<1>4. ASSUME NEW t \in Take, VideoNotSaved(t) PROVE CloseOwed'
  BY <1>4 DEF VideoNotSaved, HandedTakes
<1>5. CASE ShowBlock \/ FinishBlock
  <2>1. HandedTakes' = HandedTakes
    BY <1>5 DEF ShowBlock, FinishBlock, HandedTakes
  <2>2. 1 \in DOMAIN main /\ Head(main) = main[1]
    BY <1>5, MainShrinks
  <2>3. /\ picker # "open" => picker' # "open"
        /\ diverted => diverted'
        /\ main[1].do = "finish" /\ main[1].held => picker' # "open" \/ diverted'
    BY <1>5, <2>2 DEF ShowBlock, FinishBlock, Close
  <2>4. ASSUME NEW i \in DOMAIN main,
               main[i].do = "finish", main[i].held
        PROVE  \/ picker' # "open" \/ diverted'
               \/ \E j \in DOMAIN main' : main'[j] = main[i]
    BY <1>5, <2>3, <2>4, MainShrinks
  <2> QED BY <2>1, <2>3, <2>4
<1>6. ASSUME NEW t \in Take, Filmed(t) PROVE CloseOwed'
  BY <1>6, FilmedFacts DEF HandedTakes
<1> QED BY <1>1, <1>2, <1>3, <1>4, <1>5, <1>6, Steps

-----------------------------------------------------------------------------
(* The theorems.                                                           *)

THEOREM Invariance == Spec => []IInv
<1>1. IInv /\ [Next]_vars => IInv'
  BY TypeStep, ShowsStep, DisplayStep, PatientStep, CloseStep DEF IInv
<1> QED BY <1>1, InitIInv, PTL DEF Spec

(* Every variable keeps its type; and no take is handed over twice, or     *)
(* before its save is over (PickerVC 364-399).                            *)
THEOREM TypeCorrect == Spec => []TypeOK
<1>1. IInv => TypeOK
  BY DEF IInv
<1> QED BY <1>1, Invariance, PTL

(* However takes, saves and blocks interleave, the display stays for ever  *)
(* only over a film that had no path or could not be saved.                *)
THEOREM DisplayIsExplained == Spec => []DisplayExplained
<1>1. IInv => DisplayExplained
  BY DEF IInv
<1> QED BY <1>1, Invariance, PTL

(* A user who waits for every take to end delivers one result at most.     *)
THEOREM OneResultForPatient == Spec => []OneResult
<1>1. IInv => OneResult
  BY DEF IInv, TypeOK, Patient, OneResult
<1> QED BY <1>1, Invariance, PTL

(* The close after a take is never lost: the block that closes the picker  *)
(* waits on the main queue and keeps the picker alive, until it has closed *)
(* it or the camera in its place.                                          *)
THEOREM CloseIsOwed == Spec => []CloseOwed
<1>1. IInv => CloseOwed
  BY DEF IInv
<1> QED BY <1>1, Invariance, PTL
=============================================================================
