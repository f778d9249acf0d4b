---------------------------- MODULE PickerCells ----------------------------
(***************************************************************************)
(* The cells of the picture picker as the collection view handles them:    *)
(* few objects, reused for many pictures.                                  *)
(*                                                                         *)
(* PictureSelection gives every picture a cell of its own.  Here a cell is *)
(* an object that is set up for a picture, scrolled away, and set up for   *)
(* another one, while the answer to a tap on it still holds the cell and   *)
(* the picture of the tap, and draws the one on the other.  The refresh    *)
(* that ends an animation reaches the visible cells only; the collection   *)
(* view also keeps cells that it has set up ahead or that have just left   *)
(* the screen, and shows them without setting them up again.               *)
(*                                                                         *)
(* A picture may come on screen whenever no cell shows it: the order of    *)
(* the pictures, the album they are in and the direction of scrolling are  *)
(* left out.  Thumbnails are in ReusedViews, the preview in PreviewScreen. *)
(***************************************************************************)
EXTENDS SelectionModel

CONSTANTS
  Cell,           \* the cell objects of the collection view
  NoPicture,      \* what a cell shows before its first set-up
  MaxRequests,    \* bound: image requests pending at once
  MaxAnimations   \* bound: selection animations running at once

ASSUME NoPictureAssumption == NoPicture \notin Picture
ASSUME CellBoundAssumption == MaxRequests \in Nat /\ MaxAnimations \in Nat

VARIABLES
  model,       \* the selection, see SelectionModel
  place,       \* place[c]: in the reuse queue, kept off screen, or visible
  picture,     \* picture[c]: cell.picture
  look,        \* look[c]: what the cell shows of its picture's status
  requests,    \* taps whose image has not come, with their cell
  animations,  \* selection animations whose completion has not run
  tapped,      \* history: the pictures whose own visible cell was tapped
  missed,      \* history: cells kept off screen while others were refreshed
  strayed      \* history: cells an answer drew on, or left out, for the
               \* picture of another cell

vars == <<model, place, picture, look, requests, animations, tapped, missed,
          strayed>>

Places == {"queue", "kept", "visible"}

Look == [selected : BOOLEAN, number : Int, enabled : BOOLEAN]

Request == [cell : Cell, picture : Picture]

Animation == [kind : {"select", "cancel"}, cell : Cell, success : BOOLEAN]

Visible(c) == place[c] = "visible"

OnDuty(c) == place[c] # "queue"

(* createContent of a cell: not selected, enabled.                         *)
BlankLook == [selected |-> FALSE, number |-> 0, enabled |-> TRUE]

(* A slip: the enabled state of the former picture stays.                  *)
SetUpLookKeepingEnabled(l, m, p) ==
  [l EXCEPT !.selected = m.selected[p], !.number = m.selectedIndex[p]]

(* -[setPicture:]  The whole status is drawn.                              *)
SetUpLook(l, m, p) ==
  [selected |-> m.selected[p],
   number   |-> m.selectedIndex[p],
   enabled  |-> m.enabled[p]]

(* -[setSelected:selectedIndex:animated:completion:]  The enabled state is *)
(* left as it is.                                                          *)
SelectedLook(l, m, p) ==
  [l EXCEPT !.selected = m.selected[p], !.number = m.selectedIndex[p]]

-----------------------------------------------------------------------------
Init ==
  /\ model = EmptySelection
  /\ place = [c \in Cell |-> "queue"]
  /\ picture = [c \in Cell |-> NoPicture]
  /\ look = [c \in Cell |-> BlankLook]
  /\ requests = << >>
  /\ animations = << >>
  /\ tapped = {}
  /\ missed = {}
  /\ strayed = {}

-----------------------------------------------------------------------------
(* What the collection view does with its cells.                           *)

(* cellForItemAtIndexPath: a cell from the queue is set up for a picture   *)
(* that no cell on duty shows, on screen or ahead of the scrolling.        *)
SetUp(c, p) ==
  /\ ~ OnDuty(c)
  /\ \A d \in Cell : OnDuty(d) => picture[d] # p
  /\ place' = [place EXCEPT ![c] = "kept"]
  /\ picture' = [picture EXCEPT ![c] = p]
  /\ look' = [look EXCEPT ![c] = SetUpLook(@, model, p)]
  /\ missed' = missed \ {c}
  /\ strayed' = strayed \ {c}
  /\ UNCHANGED <<model, requests, animations, tapped>>

(* A slip: a cell comes on screen without having been set up.              *)
AppearUnset(c) ==
  /\ ~ Visible(c)
  /\ place' = [place EXCEPT ![c] = "visible"]
  /\ UNCHANGED <<model, picture, look, requests, animations, tapped, missed,
                 strayed>>

(* A cell that is kept comes on screen as it is.                           *)
Appear(c) ==
  /\ place[c] = "kept"
  /\ place' = [place EXCEPT ![c] = "visible"]
  /\ UNCHANGED <<model, picture, look, requests, animations, tapped, missed,
                 strayed>>

(* A cell leaves the screen and is kept for a while.                       *)
Leave(c) ==
  /\ Visible(c)
  /\ place' = [place EXCEPT ![c] = "kept"]
  /\ UNCHANGED <<model, picture, look, requests, animations, tapped, missed,
                 strayed>>

(* A kept cell goes back to the queue.                                     *)
Retire(c) ==
  /\ place[c] = "kept"
  /\ place' = [place EXCEPT ![c] = "queue"]
  /\ UNCHANGED <<model, picture, look, requests, animations, tapped, missed,
                 strayed>>

(* reloadData, when the picker reappears or an album is chosen: every cell *)
(* goes back to the queue.                                                 *)
Reload ==
  /\ place' = [c \in Cell |-> "queue"]
  /\ UNCHANGED <<model, picture, look, requests, animations, tapped, missed,
                 strayed>>

-----------------------------------------------------------------------------
(* The select button of a cell, with the block set up by the picker.       *)

CanTap(c) == Visible(c) /\ look[c].enabled /\ picture[c] # NoPicture

(* An unselected picture: its image is requested.  The block holds the     *)
(* cell and the picture it shows now.                                      *)
TapSelect(c) ==
  /\ CanTap(c)
  /\ ~ model.selected[picture[c]]
  /\ Len(requests) < MaxRequests
  /\ requests' = Append(requests, [cell |-> c, picture |-> picture[c]])
  /\ tapped' = tapped \union {picture[c]}
  /\ UNCHANGED <<model, place, picture, look, animations, missed, strayed>>

(* A selected picture is cancelled at once, and its cell redrawn.          *)
TapCancel(c) ==
  /\ CanTap(c)
  /\ model.selected[picture[c]]
  /\ Len(animations) < MaxAnimations
  /\ model' = PickerCancelled(model, picture[c])
  /\ look' = [look EXCEPT ![c] = SelectedLook(@, model', picture[c])]
  /\ animations' = Append(animations,
                     [kind |-> "cancel", cell |-> c, success |-> TRUE])
  /\ UNCHANGED <<place, picture, requests, tapped, missed, strayed>>

(* A slip: the answer looks at what the cell shows now.                    *)
AnsweredPictureNow(r) == picture[r.cell]

(* The picture an answer is for: the one captured at the tap.              *)
AnsweredPicture(r) == r.picture

(* What goes wrong when cell c is drawn with the status of p: c itself if  *)
(* it shows another picture, and the cells that show p if it is selected   *)
(* just now.                                                               *)
Strays(c, p) ==
  (IF picture[c] = p THEN {} ELSE {c})
    \union {d \in Cell \ {c} :
             picture[d] = p /\ model'.selected[p] # model.selected[p]}

(* The image completion, and the progress handler at progress 1: select    *)
(* the picture of the tap and draw it on the cell of the tap.              *)
Answer(r) ==
  LET p == AnsweredPicture(r)
  IN  /\ Len(animations) < MaxAnimations
      /\ model' = PickerSelected(model, p)
      /\ look' = [look EXCEPT ![r.cell] = SelectedLook(@, model', p)]
      /\ animations' = Append(animations,
                         [kind |-> "select", cell |-> r.cell,
                          success |-> ~ Full(model)])
      /\ strayed' = strayed \union Strays(r.cell, p)

(* The full-size image is here, or the last report of the download.        *)
ImageArrives(i) ==
  /\ Answer(requests[i])
  /\ requests' = RemoveAt(requests, i)
  /\ UNCHANGED <<place, picture, tapped, missed>>

(* A download reports progress 1 and may report it again.                  *)
ProgressComplete(i) ==
  /\ Answer(requests[i])
  /\ UNCHANGED <<place, picture, requests, tapped, missed>>

(* No image for the asset, a cancelled request or a failed download.       *)
ImageMissing(i) ==
  /\ requests' = RemoveAt(requests, i)
  /\ UNCHANGED <<model, place, picture, look, animations, tapped, missed,
                 strayed>>

-----------------------------------------------------------------------------
(* A slip: a cancellation refreshes nothing.                               *)
RefreshesAfterSelect(a) == a.kind = "select" /\ a.success /\ Full(model)

(* The completion of a selection animation: after a cancellation, and      *)
(* after an accepted selection if the selection is full now, every other   *)
(* visible cell is given its own picture again.                            *)
Refreshes(a) == a.kind = "cancel" \/ (a.success /\ Full(model))

AnimationDone(i) ==
  LET a == animations[i]
      others == IF Refreshes(a) THEN Cell \ {a.cell} ELSE {}
      refreshed == {c \in others : Visible(c)}
  IN  /\ animations' = RemoveAt(animations, i)
      /\ look' = [c \in Cell |-> IF c \in refreshed
                                 THEN SetUpLook(look[c], model, picture[c])
                                 ELSE look[c]]
      /\ missed' = (missed \ refreshed) \union (others \ refreshed)
      /\ strayed' = strayed \ refreshed
      /\ UNCHANGED <<model, place, picture, requests, tapped>>

-----------------------------------------------------------------------------
Next ==
  \/ \E c \in Cell :
       \/ \E p \in Picture : SetUp(c, p)
       \/ Appear(c) \/ Leave(c) \/ Retire(c)
       \/ TapSelect(c) \/ TapCancel(c)
  \/ \E i \in DOMAIN requests :
       ImageArrives(i) \/ ProgressComplete(i) \/ ImageMissing(i)
  \/ \E i \in DOMAIN animations : AnimationDone(i)
  \/ Reload

Spec == Init /\ [][Next]_vars

-----------------------------------------------------------------------------
(* Every variable keeps to its set, and a cell on duty shows a picture.    *)
TypeOK ==
  /\ model \in Models
  /\ place \in [Cell -> Places]
  /\ picture \in [Cell -> Picture \union {NoPicture}]
  /\ look \in [Cell -> Look]
  /\ requests \in Seq(Request)
  /\ animations \in Seq(Animation)
  /\ tapped \subseteq Picture
  /\ missed \subseteq Cell
  /\ strayed \subseteq Cell
  /\ \A c \in Cell : OnDuty(c) => picture[c] # NoPicture

(* Whatever the cells have been reused for when an answer comes, only a    *)
(* picture whose own visible cell was tapped is ever selected: the answer  *)
(* takes the picture of the tap and not the one the cell shows by now      *)
(* (picker controller 266-278).                                            *)
SelectedByTap == \A p \in Picture : model.selected[p] => p \in tapped

LookRight(c) ==
  LET p == picture[c]
  IN  /\ look[c].selected = model.selected[p]
      /\ look[c].selected => look[c].number = model.selectedIndex[p]
      /\ look[c].enabled = model.enabled[p]

(* Once the last completion has run, a visible cell shows the status of    *)
(* its picture, unless since its set-up an answer for a picture that had   *)
(* moved to or from another cell went astray, or a refresh passed it over  *)
(* while it was kept off screen.  Completions that decide late, each with  *)
(* its own cell left out, make up for each other even when the cells are   *)
(* reused meanwhile (279-292, 306-319, 326-338).                           *)
LooksRight ==
  animations = << >> =>
    \A c \in Cell :
      Visible(c) /\ c \notin missed /\ c \notin strayed => LookRight(c)

(* No cell stays dead: once the last completion has run, a visible cell    *)
(* that takes no touch shows a picture that is disabled, also after        *)
(* answers that went astray; only a cell passed over by a refresh while it *)
(* was kept off screen can be left so.                                     *)
NoDeadCell ==
  animations = << >> =>
    \A c \in Cell :
      Visible(c) /\ c \notin missed /\ ~ look[c].enabled
        => ~ model.enabled[picture[c]]
=============================================================================
