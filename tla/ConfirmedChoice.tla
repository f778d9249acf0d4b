--------------------------- MODULE ConfirmedChoice ---------------------------
(***************************************************************************)
(* What the older picker promises.  While it is open the user chooses      *)
(* photos, one at a time and no more than the limit, and may confirm the   *)
(* choice as often as there are requests free.  A confirmation promises    *)
(* exactly the photos chosen at that moment; the promise is kept, by       *)
(* giving them all at once, or broken, and never changed.  The first one   *)
(* kept closes the picker; the others may still be kept until it is gone,  *)
(* and with it everything chosen, promised and given.                      *)
(***************************************************************************)
EXTENDS Integers, FiniteSets

CONSTANTS
  Photo,
  Limit,    \* of the photos chosen; none if negative
  Request   \* confirmations under way at a time

VARIABLES
  open,      \* the user can choose and confirm
  chosen,    \* the photos chosen
  promised,  \* promised[i]: what request i has been promised, {} for nothing
  given      \* what has been given, one set for each promise kept

vars == <<open, chosen, promised, given>>

NothingPromised == [i \in Request |-> {}]

Init ==
  /\ open = FALSE
  /\ chosen = {}
  /\ promised = NothingPromised
  /\ given = {}

Start ==
  /\ ~ open
  /\ chosen = {} /\ promised = NothingPromised /\ given = {}
  /\ open' = TRUE
  /\ UNCHANGED <<chosen, promised, given>>

Choose(p) ==
  /\ open
  /\ Limit >= 0 => Cardinality(chosen) < Limit
  /\ chosen' = chosen \union {p}
  /\ UNCHANGED <<open, promised, given>>

Drop(p) ==
  /\ open
  /\ chosen' = chosen \ {p}
  /\ UNCHANGED <<open, promised, given>>

Confirm(i) ==
  /\ open
  /\ chosen # {}
  /\ promised[i] = {}
  /\ promised' = [promised EXCEPT ![i] = chosen]
  /\ UNCHANGED <<open, chosen, given>>

Keep(i) ==
  /\ promised[i] # {}
  /\ given' = given \union {promised[i]}
  /\ promised' = [promised EXCEPT ![i] = {}]
  /\ open' = FALSE
  /\ UNCHANGED chosen

Break(i) ==
  /\ promised[i] # {}
  /\ promised' = [promised EXCEPT ![i] = {}]
  /\ UNCHANGED <<open, chosen, given>>

Close ==
  /\ open
  /\ open' = FALSE
  /\ UNCHANGED <<chosen, promised, given>>

Forget ==
  /\ ~ open
  /\ chosen' = {}
  /\ promised' = NothingPromised
  /\ given' = {}
  /\ UNCHANGED open

Next ==
  \/ Start \/ Close \/ Forget
  \/ \E p \in Photo \ chosen : Choose(p)
  \/ \E p \in chosen : Drop(p)
  \/ \E i \in Request : Confirm(i) \/ Keep(i) \/ Break(i)

Spec == Init /\ [][Next]_vars
=============================================================================
