--------------------------- MODULE SelectionModel ---------------------------
(***************************************************************************)
(* The selection shared by the picture picker and the preview screen.      *)
(*                                                                         *)
(* Both view models hold the SAME mutable array selectedPictures and the   *)
(* same picture objects, whose status carries selected, enabled and        *)
(* selectedIndex.  The picker also keeps a floating bar (levitateView)     *)
(* with a count and a hidden flag.  All of it is one record m here, and    *)
(* every method of a view model is an operator from record to record, so   *)
(* that a handler which calls one view model and then, through the         *)
(* preview's delegate, the other one is the composition of two operators.  *)
(***************************************************************************)
EXTENDS Integers, SequencesExt

CONSTANTS
  Picture,   \* the picture objects of all albums (one object per album entry)
  MaxCount   \* selectedPicturesMaxCount, 9 in the code

(* The code fixes the bound at 9.  Nothing below needs more than two, and  *)
(* a bound of one would already break BarShown.                            *)
ASSUME MaxCountAssumption == MaxCount \in Nat /\ MaxCount > 1

Models == [selectedPictures : Seq(Picture),
           selected         : [Picture -> BOOLEAN],
           enabled          : [Picture -> BOOLEAN],
           selectedIndex    : [Picture -> Int],
           levitateCount    : Nat,
           levitateHidden   : BOOLEAN]

(* What creatPrepare leaves: nothing selected, every picture enabled, the  *)
(* bar hidden.                                                             *)
EmptySelection ==
  [selectedPictures |-> << >>,
   selected         |-> [p \in Picture |-> FALSE],
   enabled          |-> [p \in Picture |-> TRUE],
   selectedIndex    |-> [p \in Picture |-> 0],
   levitateCount    |-> 0,
   levitateHidden   |-> TRUE]

Full(m) == Len(m.selectedPictures) >= MaxCount

InArray(m, p) == Contains(m.selectedPictures, p)

PositionOf(s, p) == CHOOSE i \in 1 .. Len(s) : s[i] = p

(* The loop over the pictures of all albums that sets enabled of those     *)
(* that are not selected.                                                  *)
EnableUnselected(selected, enabled, b) ==
  [q \in Picture |-> IF selected[q] THEN enabled[q] ELSE b]

-----------------------------------------------------------------------------
(* Plausible slips, used only to show that the properties notice them.     *)

(* A picture is not numbered when it is appended.                          *)
AddedUnnumbered(m, p) ==
  IF InArray(m, p)
  THEN [m EXCEPT !.selected[p] = TRUE]
  ELSE [m EXCEPT !.selected[p] = TRUE,
                 !.selectedPictures = Append(@, p)]

(* The bar shown only once the selection is full.                          *)
PickerSelectedBarLate(m, p) ==
  IF Full(m) THEN m
  ELSE LET s == IF InArray(m, p) THEN m.selectedPictures
                                 ELSE Append(m.selectedPictures, p)
           n == [m EXCEPT !.selectedPictures = s, !.selected[p] = TRUE,
                          !.selectedIndex[p] =
                             IF InArray(m, p) THEN @ ELSE Len(s)]
       IN  IF Full(n)
           THEN [n EXCEPT !.enabled = EnableUnselected(n.selected, @, FALSE),
                          !.levitateCount = Len(s), !.levitateHidden = FALSE]
           ELSE [n EXCEPT !.levitateCount = Len(s)]

(* The pictures behind the removed one keep their numbers.                 *)
RemovedKeepingNumbers(m, p) ==
  IF ~ InArray(m, p) THEN m
  ELSE [m EXCEPT !.selectedPictures =
                    RemoveAt(@, PositionOf(m.selectedPictures, p))]

-----------------------------------------------------------------------------
(* Both processSelectedPicture methods, once past the check of the limit:  *)
(* flag the picture, append it unless it is there, number it.              *)
Added(m, p) ==
  IF InArray(m, p)
  THEN [m EXCEPT !.selected[p] = TRUE]
  ELSE LET s == Append(m.selectedPictures, p)
       IN  [m EXCEPT !.selected[p] = TRUE,
                     !.selectedPictures = s,
                     !.selectedIndex[p] = Len(s)]

(* -[DRPICPicturePickerViewModel processSelectedPicture:]  It returns NO   *)
(* exactly when Full(m).                                                   *)
PickerSelected(m, p) ==
  IF Full(m) THEN m
  ELSE LET n == [Added(m, p) EXCEPT
                   !.levitateCount  = Len(Added(m, p).selectedPictures),
                   !.levitateHidden = FALSE]
       IN  IF Full(n)
           THEN [n EXCEPT !.enabled = EnableUnselected(n.selected, @, FALSE)]
           ELSE n

(* -[DRPICPicturePreviewViewModel processSelectedPicture:]  It disables    *)
(* nothing and does not know the picker's bar.                             *)
PreviewSelected(m, p) == IF Full(m) THEN m ELSE Added(m, p)

(* The removal at the heart of both cancel methods: every picture that     *)
(* stood behind the removed one moves up by one.                           *)
Removed(m, p) ==
  IF ~ InArray(m, p) THEN m
  ELSE LET i == PositionOf(m.selectedPictures, p)
           s == RemoveAt(m.selectedPictures, i)
       IN  [m EXCEPT !.selectedPictures = s,
                     !.selectedIndex =
                        [q \in Picture |->
                           IF \E j \in i .. Len(s) : s[j] = q
                           THEN @[q] - 1 ELSE @[q]]]

(* A slip: the limit tested after the removal, when it cannot be reached.  *)
PreviewCancelledLimitLate(m, p) ==
  LET n == Removed([m EXCEPT !.selected[p] = FALSE], p)
  IN  IF Full(n)
      THEN [n EXCEPT !.enabled = EnableUnselected(n.selected, @, TRUE)]
      ELSE n

(* -[DRPICPicturePreviewViewModel processCancelSelectedPicture:]  The      *)
(* limit is tested before the removal, the flag is cleared before the      *)
(* loop, so the cancelled picture is enabled with the others.              *)
PreviewCancelled(m, p) ==
  LET n == [m EXCEPT !.selected[p] = FALSE]
  IN  Removed(IF Full(n)
              THEN [n EXCEPT !.enabled = EnableUnselected(n.selected, @, TRUE)]
              ELSE n, p)

(* -[DRPICPicturePickerViewModel processCancelSelectedPicture:]  The same, *)
(* and the bar.                                                            *)
PickerCancelled(m, p) ==
  LET n == PreviewCancelled(m, p)
  IN  [n EXCEPT !.levitateCount  = Len(n.selectedPictures),
                !.levitateHidden = @ /\ n.selectedPictures = << >>]

(* A selection made in the preview.  When its own method accepts, the      *)
(* preview tells its delegate, and the picker runs its method on a         *)
(* selection that already holds the picture; when the preview has just     *)
(* filled the selection, the picker's method returns at its first test.    *)
SelectedInPreview(m, p) ==
  IF Full(m) THEN m ELSE PickerSelected(PreviewSelected(m, p), p)

CancelledInPreview(m, p) == PickerCancelled(PreviewCancelled(m, p), p)

-----------------------------------------------------------------------------
(* What ties the parts of the record together.                             *)

NoDuplicates(m) ==
  \A i, j \in DOMAIN m.selectedPictures :
    m.selectedPictures[i] = m.selectedPictures[j] => i = j

FlagIsMembership(m) ==
  \A p \in Picture : m.selected[p] <=> InArray(m, p)

IndexIsPosition(m) ==
  \A i \in DOMAIN m.selectedPictures :
    m.selectedIndex[m.selectedPictures[i]] = i

Bounded(m) == Len(m.selectedPictures) <= MaxCount

Consistent(m) ==
  /\ NoDuplicates(m)
  /\ FlagIsMembership(m)
  /\ IndexIsPosition(m)
  /\ Bounded(m)

(* Selected pictures stay enabled, the others are enabled or disabled      *)
(* together, and only a full selection disables them.                      *)
UniformlyEnabled(m) ==
  /\ \A p \in Picture : m.selected[p] => m.enabled[p]
  /\ \A p, q \in Picture :
       ~ m.selected[p] /\ ~ m.selected[q] => (m.enabled[p] <=> m.enabled[q])
  /\ \A p \in Picture : ~ m.enabled[p] => Full(m)

(* The count on the picker's bar is the size of the selection, or, after   *)
(* the preview has filled the selection, one less.                         *)
CountLagsOnlyWhenFull(m) ==
  LET n == Len(m.selectedPictures)
  IN  \/ m.levitateCount = n
      \/ n = MaxCount /\ m.levitateCount = MaxCount - 1

BarShown(m) == m.selectedPictures # << >> => ~ m.levitateHidden

(* All of it: what every handler may rely on and must leave behind.        *)
Sound(m) ==
  /\ m \in Models
  /\ Consistent(m)
  /\ UniformlyEnabled(m)
  /\ CountLagsOnlyWhenFull(m)
  /\ BarShown(m)
=============================================================================
