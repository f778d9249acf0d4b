--------------------------- MODULE NumberedChoice ---------------------------
(***************************************************************************)
(* What the picture picker promises: the user builds up an ordered choice  *)
(* of at most MaxCount pictures, one picture at a time, each chosen        *)
(* picture shows its current position, and the choice is handed over at    *)
(* most once.  After that nothing is taken back; a selection that was      *)
(* under way may still be added.                                           *)
(***************************************************************************)
EXTENDS Integers, SequencesExt

CONSTANTS Picture, MaxCount

VARIABLES
  chosen,  \* the pictures chosen so far, in order
  badge,   \* the number each picture shows, 0 for none
  result   \* the choice handed over, or the empty sequence

vars == <<chosen, badge, result>>

NoResult == << >>

(* The numbers recomputed from scratch.                                    *)
Badges(s) ==
  [p \in Picture |-> IF Contains(s, p)
                     THEN CHOOSE i \in DOMAIN s : s[i] = p
                     ELSE 0]

Init ==
  /\ chosen = << >>
  /\ badge = Badges(<< >>)
  /\ result = NoResult

Extend(p) ==
  /\ Len(chosen) < MaxCount
  /\ ~ Contains(chosen, p)
  /\ chosen' = Append(chosen, p)
  /\ badge' = Badges(chosen')

Choose(p) == Extend(p) /\ UNCHANGED result

Drop(i) ==
  /\ result = NoResult
  /\ chosen' = RemoveAt(chosen, i)
  /\ badge' = Badges(chosen')
  /\ UNCHANGED result

HandOver ==
  /\ result = NoResult
  /\ chosen # << >>
  /\ result' = chosen
  /\ UNCHANGED <<chosen, badge>>

(* The last picture chosen by the very step that hands over.               *)
ChooseAndHandOver(p) ==
  /\ result = NoResult
  /\ Extend(p)
  /\ result' = chosen'

Next ==
  \/ \E p \in Picture : Choose(p) \/ ChooseAndHandOver(p)
  \/ \E i \in DOMAIN chosen : Drop(i)
  \/ HandOver

Spec == Init /\ [][Next]_vars
=============================================================================
