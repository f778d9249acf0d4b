-------------------------- MODULE PictureSelection --------------------------
(***************************************************************************)
(* The picture picker (DRPICPicturePickerViewController) from the arrival  *)
(* of the albums to the end of its dismissal, and what the preview screen  *)
(* it pushes does to the shared selection.                                 *)
(*                                                                         *)
(* A tap on a cell's select button does not select: it asks the photo      *)
(* library for the image, and the picture is selected when the answer      *)
(* comes, whatever has happened since.  Answers, the completions of the    *)
(* selection animations and the user's taps interleave freely.             *)
(*                                                                         *)
(* The preview screen is reduced here to its calls on the selection, for   *)
(* any picture of the album it shows; PreviewScreen has its buttons,       *)
(* scrolling and batch updates and implements this module.                 *)
(***************************************************************************)
EXTENDS SelectionModel

CONSTANTS
  Album,          \* the albums listed by the photo library
  AlbumOf,        \* the album a picture object belongs to
  MaxRequests,    \* bound: image requests pending for one picture
  MaxAnimations   \* bound: selection animations running at once

ASSUME AlbumAssumption == AlbumOf \in [Picture -> Album]
ASSUME BoundAssumption == MaxRequests \in Nat /\ MaxAnimations \in Nat

VARIABLES
  model,        \* the shared selection, see SelectionModel
  screen,       \* which screen is on top, or how the picker ended
  currentAlbum, \* the album whose pictures the picker shows
  requests,     \* requests[p]: image requests pending for p's cell
  animations,   \* selection animations whose completion has not run
  cellEnabled,  \* cellEnabled[p]: cell.enabled of the cell that shows p
  barRaised,    \* levitateView stands inside the view, not below its edge
  delivered     \* what eventBlock was called with, or NotDelivered

vars == <<model, screen, currentAlbum, requests, animations, cellEnabled,
          barRaised, delivered>>

NotDelivered == << >>

(* "closing" is the dismissal animation: touches are dead, the controller  *)
(* is alive.  "closed": it is gone and its weak references are nil.        *)
(* "crashed": UIKit raised an exception.                                   *)
Screens == {"loading", "picker", "preview", "closing", "closed", "crashed"}

Alive == screen \in {"picker", "preview", "closing"}

Animation == [kind : {"select", "cancel"}, picture : Picture, success : BOOLEAN]

Shown(p) == AlbumOf[p] = currentAlbum

(* reloadData: every cell is set up again from its picture.                *)
Reloaded(m) == m.enabled

SomethingSelected(m) == m.selectedPictures # << >>

-----------------------------------------------------------------------------
Init ==
  /\ model = EmptySelection
  /\ screen = "loading"
  /\ currentAlbum \in Album
  /\ requests = [p \in Picture |-> 0]
  /\ animations = << >>
  /\ cellEnabled = [p \in Picture |-> TRUE]
  /\ barRaised = FALSE
  /\ delivered = NotDelivered

(* The completion of createAlbumComplete: the albums are stored and        *)
(* creatPrepare builds the screen.                                         *)
AlbumsLoaded ==
  /\ screen = "loading"
  /\ screen' = "picker"
  /\ cellEnabled' = Reloaded(model)
  /\ UNCHANGED <<model, currentAlbum, requests, animations, barRaised, delivered>>

-----------------------------------------------------------------------------
(* The select button of a cell.                                            *)

(* A slip: touches still reach the cells during the dismissal.             *)
CanTapCellWhileClosing(p) ==
  screen \in {"picker", "closing"} /\ Shown(p) /\ cellEnabled[p]

CanTapCell(p) == screen = "picker" /\ Shown(p) /\ cellEnabled[p]

(* An unselected picture: its image is requested, nothing else changes.    *)
TapSelect(p) ==
  /\ CanTapCell(p)
  /\ ~ model.selected[p]
  /\ requests[p] < MaxRequests
  /\ requests' = [requests EXCEPT ![p] = @ + 1]
  /\ UNCHANGED <<model, screen, currentAlbum, animations, cellEnabled,
                 barRaised, delivered>>

(* A selected picture is cancelled at once.                                *)
TapCancel(p) ==
  /\ CanTapCell(p)
  /\ model.selected[p]
  /\ Len(animations) < MaxAnimations
  /\ model' = PickerCancelled(model, p)
  /\ animations' = Append(animations,
                     [kind |-> "cancel", picture |-> p, success |-> TRUE])
  /\ barRaised' = SomethingSelected(model')
  /\ UNCHANGED <<screen, currentAlbum, requests, cellEnabled, delivered>>

(* The body shared by the image completion and by the progress handler at  *)
(* progress 1: select the picture of the tap, animate its cell, move the   *)
(* bar.  weakSelf is nil once the controller is gone.                      *)
Answer(p) ==
  IF Alive
  THEN /\ Len(animations) < MaxAnimations
       /\ model' = PickerSelected(model, p)
       /\ animations' = Append(animations,
                          [kind |-> "select", picture |-> p,
                           success |-> ~ Full(model)])
       /\ barRaised' = SomethingSelected(model')
  ELSE UNCHANGED <<model, animations, barRaised>>

(* A slip: an answer that nothing asked for.                               *)
ImageArrivesUnasked(p) ==
  /\ requests' = [requests EXCEPT ![p] = @ - 1]
  /\ Answer(p)
  /\ UNCHANGED <<screen, currentAlbum, cellEnabled, delivered>>

(* The full-size image is here, or the download from iCloud reported       *)
(* progress 1 and will not report again.                                   *)
ImageArrives(p) ==
  /\ requests[p] > 0
  /\ requests' = [requests EXCEPT ![p] = @ - 1]
  /\ Answer(p)
  /\ UNCHANGED <<screen, currentAlbum, cellEnabled, delivered>>

(* A download reports progress 1 and may report it again.  The *stop the   *)
(* handler writes is not the library's any more: the report was forwarded  *)
(* to the main queue, so the download is not stopped.                      *)
ProgressComplete(p) ==
  /\ requests[p] > 0
  /\ Answer(p)
  /\ UNCHANGED <<requests, screen, currentAlbum, cellEnabled, delivered>>

(* The library has no image for the asset, the request was cancelled, or   *)
(* the download failed: neither block selects anything.                    *)
ImageMissing(p) ==
  /\ requests[p] > 0
  /\ requests' = [requests EXCEPT ![p] = @ - 1]
  /\ UNCHANGED <<model, screen, currentAlbum, animations, cellEnabled,
                 barRaised, delivered>>

(* A slip: the completion of a cancellation refreshes nothing.             *)
AnimationDoneAfterSelectOnly(i) ==
  LET a == animations[i]
      refresh == a.kind = "select" /\ a.success /\ Full(model)
  IN  /\ Alive
      /\ animations' = RemoveAt(animations, i)
      /\ cellEnabled' =
           [q \in Picture |->
              IF refresh /\ Shown(q) /\ q # a.picture
              THEN model.enabled[q] ELSE cellEnabled[q]]
      /\ UNCHANGED <<model, screen, currentAlbum, requests, barRaised, delivered>>

(* The completion of a selection animation.  After a cancellation, and     *)
(* after an accepted selection if the selection is full NOW, every other   *)
(* visible cell is set up again.                                           *)
AnimationDone(i) ==
  LET a == animations[i]
      refresh == a.kind = "cancel" \/ (a.success /\ Full(model))
  IN  /\ Alive
      /\ animations' = RemoveAt(animations, i)
      /\ cellEnabled' =
           [q \in Picture |->
              IF refresh /\ Shown(q) /\ q # a.picture
              THEN model.enabled[q] ELSE cellEnabled[q]]
      /\ UNCHANGED <<model, screen, currentAlbum, requests, barRaised, delivered>>

-----------------------------------------------------------------------------
(* The album panel reports another album.                                  *)
ChangeAlbum(a) ==
  /\ screen = "picker"
  /\ currentAlbum' = a
  /\ model' = [model EXCEPT !.levitateHidden = ~ SomethingSelected(model)]
  /\ cellEnabled' = Reloaded(model)
  /\ UNCHANGED <<screen, requests, animations, barRaised, delivered>>

(* A tap on a picture opens the preview at it.                             *)
OpenPreview(p) ==
  /\ screen = "picker"
  /\ Shown(p)
  /\ model.enabled[p]
  /\ screen' = "preview"
  /\ UNCHANGED <<model, currentAlbum, requests, animations, cellEnabled,
                 barRaised, delivered>>

BarUsable == screen = "picker" /\ barRaised /\ ~ model.levitateHidden

(* The bar's preview button opens the first selected picture in the        *)
(* current album.  If it is in another album, viewWillAppear scrolls to    *)
(* item NSNotFound and the collection view raises an exception.            *)
TapPreviewButton ==
  /\ BarUsable
  /\ SomethingSelected(model)
  /\ screen' = IF Shown(Head(model.selectedPictures)) THEN "preview" ELSE "crashed"
  /\ UNCHANGED <<model, currentAlbum, requests, animations, cellEnabled,
                 barRaised, delivered>>

(* The client gets the live array, not a copy, and the picker goes away.   *)
Deliver(m) ==
  /\ delivered' = m.selectedPictures
  /\ screen' = "closing"

TapNextStep ==
  /\ BarUsable
  /\ SomethingSelected(model)
  /\ Deliver(model)
  /\ UNCHANGED <<model, currentAlbum, requests, animations, cellEnabled, barRaised>>

TapClose ==
  /\ screen \in {"loading", "picker"}
  /\ screen' = "closing"
  /\ UNCHANGED <<model, currentAlbum, requests, animations, cellEnabled,
                 barRaised, delivered>>

ControllerGone ==
  /\ screen = "closing"
  /\ screen' = "closed"
  /\ UNCHANGED <<model, currentAlbum, requests, animations, cellEnabled,
                 barRaised, delivered>>

-----------------------------------------------------------------------------
(* The preview's calls on the selection.                                   *)

PreviewSelect(p) ==
  /\ screen = "preview"
  /\ Shown(p)
  /\ model' = SelectedInPreview(model, p)
  /\ UNCHANGED <<screen, currentAlbum, requests, animations, cellEnabled,
                 barRaised, delivered>>

PreviewCancel(p) ==
  /\ screen = "preview"
  /\ Shown(p)
  /\ InArray(model, p)
  /\ model' = CancelledInPreview(model, p)
  /\ UNCHANGED <<screen, currentAlbum, requests, animations, cellEnabled,
                 barRaised, delivered>>

(* Done in the preview: the current picture is selected if it was not and  *)
(* there is room, then the picker's own next step runs.                    *)
PreviewNextStep(p) ==
  /\ screen = "preview"
  /\ Shown(p)
  /\ model' = IF InArray(model, p) THEN model ELSE SelectedInPreview(model, p)
  /\ Deliver(model')
  /\ UNCHANGED <<currentAlbum, requests, animations, cellEnabled, barRaised>>

(* Back to the picker: viewDidDisappear had asked for a reload.            *)
PreviewBack ==
  /\ screen = "preview"
  /\ screen' = "picker"
  /\ cellEnabled' = Reloaded(model)
  /\ UNCHANGED <<model, currentAlbum, requests, animations, barRaised, delivered>>

(* An exception nobody catches, raised by the preview's collection view or *)
(* by an edit the preview has started: an edit may outlive the screen.     *)
PreviewCrash ==
  /\ screen \notin {"loading", "crashed"}
  /\ screen' = "crashed"
  /\ UNCHANGED <<model, currentAlbum, requests, animations, cellEnabled,
                 barRaised, delivered>>

-----------------------------------------------------------------------------
Next ==
  \/ AlbumsLoaded
  \/ \E p \in Picture :
       \/ TapSelect(p) \/ TapCancel(p)
       \/ ImageArrives(p) \/ ProgressComplete(p) \/ ImageMissing(p)
       \/ OpenPreview(p)
       \/ PreviewSelect(p) \/ PreviewCancel(p) \/ PreviewNextStep(p)
  \/ \E i \in DOMAIN animations : AnimationDone(i)
  \/ \E a \in Album : ChangeAlbum(a)
  \/ TapPreviewButton \/ TapNextStep \/ TapClose \/ ControllerGone
  \/ PreviewBack \/ PreviewCrash

Spec == Init /\ [][Next]_vars

-----------------------------------------------------------------------------
(* Every variable keeps to its set, over the whole life of the picker.     *)
TypeOK ==
  /\ model \in Models
  /\ screen \in Screens
  /\ currentAlbum \in Album
  /\ requests \in [Picture -> Nat]
  /\ animations \in Seq(Animation)
  /\ cellEnabled \in [Picture -> BOOLEAN]
  /\ barRaised \in BOOLEAN
  /\ delivered \in Seq(Picture)

(* The array, the selected flags and the numbers of the shared picture     *)
(* objects agree, whichever view model changed them and however late the   *)
(* answer to a tap came: no picture twice, never more than MaxCount, a     *)
(* picture is flagged exactly when it is in the array, and its number is   *)
(* its position (processSelectedPicture and processCancelSelectedPicture   *)
(* of both view models).                                                   *)
SelectionConsistent == Consistent(model)

(* The loops over all albums never leave some unselected pictures enabled  *)
(* and others disabled, never disable a selected one, and a picture is     *)
(* disabled only while the selection is full: no sequence of selections in *)
(* one screen and cancellations in the other strands a picture disabled.   *)
NoPictureStranded == UniformlyEnabled(model)

(* The bar's count, which only the picker's methods write, is the size of  *)
(* the selection or one behind a selection filled in the preview, and the  *)
(* bar is never hidden while something is selected.                        *)
BarFollowsSelection == CountLagsOnlyWhenFull(model) /\ BarShown(model)

(* Once the last animation completion has run, the cells of the picker are *)
(* enabled as their pictures are: the completions decide with the count of *)
(* their own time, not of the tap's, and each leaves out its own cell.     *)
CellsSettled ==
  screen = "picker" /\ animations = << >>
    => \A p \in Picture : Shown(p) => cellEnabled[p] = model.enabled[p]

(* The client holds the live array, and gets it only when the picker is on *)
(* its way out.  Late answers may append to it until the controller is     *)
(* gone, but what was delivered stays, in order.                           *)
DeliveredKept ==
  /\ delivered # NotDelivered => screen \in {"closing", "closed", "crashed"}
  /\ IsPrefix(delivered, model.selectedPictures)

(* What the picker promises its client: a numbered choice of bounded size, *)
(* handed over once (see NumberedChoice).                                  *)
Promise == INSTANCE NumberedChoice WITH
  chosen <- model.selectedPictures,
  badge  <- [p \in Picture |-> IF model.selected[p]
                               THEN model.selectedIndex[p] ELSE 0],
  result <- delivered

KeepsPromise == Promise!Spec
=============================================================================
