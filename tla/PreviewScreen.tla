---------------------------- MODULE PreviewScreen ----------------------------
(***************************************************************************)
(* The preview screen (DRPICPicturePreviewViewController) on top of the    *)
(* picker: its select button, its paging, the strip of selected pictures   *)
(* (a collection view changed by batch updates) and the round trip to the  *)
(* photo editor.                                                           *)
(*                                                                         *)
(* The handlers read the button's state and the current picture at         *)
(* different times: a tap branches on the button, which is brought up to   *)
(* date only when scrolling ends and when a batch update completes, and    *)
(* completions act on the picture that is current when they run.           *)
(*                                                                         *)
(* The strip is a UICollectionView: it remembers how many items its data   *)
(* source had, and raises an exception when a batch update does not        *)
(* account for the difference or an item it does not know is asked for.    *)
(***************************************************************************)
EXTENDS PictureSelection

CONSTANTS
  MaxUpdates,  \* bound: batch updates whose completion has not run
  MaxEdited,   \* bound: pictures that get an edited image
  MaxDrift     \* bound: how far below zero the preview's counter may go

ASSUME PreviewBoundAssumption ==
  MaxUpdates \in Nat /\ MaxEdited \in Nat /\ MaxDrift \in Nat

VARIABLES
  currentPicture,        \* model.currentPicture, Nobody without a preview
  button,                \* selectButton: its selected flag and its number
  dragging,              \* set by the first drag, cleared after decelerating
  updates,               \* batch updates whose completion block has not run
  channelItems,          \* items the strip knows, or Unloaded
  selectedPicturesCount, \* the preview model's counter
  edit,                  \* the edit under way
  editedImage            \* whose image each picture's editedImage was made of

previewVars == <<currentPicture, button, dragging, updates, channelItems,
                 selectedPicturesCount, edit, editedImage>>

(* The strip asks its data source only when it is laid out, which a hidden *)
(* strip may not be.                                                       *)
Unloaded == -1

(* NSNotFound + 1, what the completions write for an unselected picture.   *)
NotFoundPlusOne == -1

Nobody == "nobody"
Unselected == [selected |-> FALSE, index |-> 0]

NoEdit == [stage |-> "none"]
NotEdited == "not edited"

(* "orphaned": the preview that asked for the image has been popped, but   *)
(* the block of the request keeps it alive.                                *)
Edits == {NoEdit} \cup [stage : {"fetching", "orphaned", "editing"}, of : Picture]

(* The preview is the screen that gets the touches.                        *)
OnTop == screen = "preview" /\ edit.stage # "editing"

Selected == model.selectedPictures

(* The number a completion or viewWillAppear writes on the button.         *)
Number(p) == IF InArray(model, p) THEN PositionOf(Selected, p) ELSE NotFoundPlusOne

(* viewWillAppear never clears the button.                                 *)
ButtonOnAppearing(b, p) ==
  IF InArray(model, p) THEN [selected |-> TRUE, index |-> Number(p)] ELSE b

ButtonAfterScrolling(p) ==
  IF InArray(model, p) THEN [selected |-> TRUE, index |-> Number(p)]
                       ELSE [button EXCEPT !.selected = FALSE]

(* What the strip believes when a batch update begins.                     *)
Known == IF channelItems = Unloaded THEN Len(Selected) ELSE channelItems

(* The strip is asked to scroll to p's item and does not have it.          *)
StripLacks(p) == InArray(model, p) /\ PositionOf(Selected, p) > Known

(* The controller's own state, when there is no preview.                   *)
NoPreview ==
  /\ currentPicture' = Nobody
  /\ button' = Unselected
  /\ dragging' = FALSE
  /\ updates' = << >>
  /\ channelItems' = Unloaded
  /\ selectedPicturesCount' = 0

Crash == PreviewCrash /\ NoPreview /\ edit' = NoEdit /\ UNCHANGED editedImage

(* The preview is popped; only a request for the editor's image survives.  *)
Leave ==
  /\ NoPreview
  /\ edit' = IF edit.stage = "fetching" THEN [edit EXCEPT !.stage = "orphaned"]
                                        ELSE edit
  /\ UNCHANGED editedImage

-----------------------------------------------------------------------------
ScreenInit ==
  /\ Init
  /\ currentPicture = Nobody
  /\ button = Unselected
  /\ dragging = FALSE
  /\ updates = << >>
  /\ channelItems = Unloaded
  /\ selectedPicturesCount = 0
  /\ edit = NoEdit
  /\ editedImage = [p \in Picture |-> NotEdited]

(* A new preview controller shows p: a new button, a new strip, and the    *)
(* picker's own counter, which nobody ever changes.                        *)
NewPreview(p) ==
  /\ currentPicture' = p
  /\ button' = ButtonOnAppearing(Unselected, p)
  /\ dragging' = FALSE
  /\ updates' = << >>
  /\ channelItems' \in IF SomethingSelected(model) THEN {Len(Selected)}
                       ELSE {0, Unloaded}
  /\ selectedPicturesCount' = 0
  /\ UNCHANGED <<edit, editedImage>>

Open(p) == OpenPreview(p) /\ NewPreview(p)

OpenFromBar ==
  /\ TapPreviewButton
  /\ IF screen' = "preview" THEN NewPreview(Head(Selected))
                            ELSE UNCHANGED previewVars

-----------------------------------------------------------------------------
(* Paging.                                                                 *)

BeginDragging ==
  /\ OnTop
  /\ dragging' = TRUE
  /\ UNCHANGED vars
  /\ UNCHANGED <<currentPicture, button, updates, channelItems,
                 selectedPicturesCount, edit, editedImage>>

(* scrollViewDidScroll: another page becomes current, and the strip        *)
(* scrolls to its item.                                                    *)
Scroll(p) ==
  /\ OnTop
  /\ dragging
  /\ Shown(p)
  /\ p # currentPicture
  /\ IF StripLacks(p) THEN Crash
     ELSE /\ currentPicture' = p
          /\ UNCHANGED vars
          /\ UNCHANGED <<button, dragging, updates, channelItems,
                         selectedPicturesCount, edit, editedImage>>

EndDecelerating ==
  /\ OnTop
  /\ dragging
  /\ dragging' = FALSE
  /\ button' = ButtonAfterScrolling(currentPicture)
  /\ UNCHANGED vars
  /\ UNCHANGED <<currentPicture, updates, channelItems,
                 selectedPicturesCount, edit, editedImage>>

-----------------------------------------------------------------------------
(* The select button.                                                      *)

(* A slip: the counter counts the updates, not the changes of the array.   *)
BatchUpdatedCountingTaps(kind) ==
  /\ channelItems' = Len(model'.selectedPictures)
  /\ selectedPicturesCount' = selectedPicturesCount + IF kind = "select" THEN 1 ELSE -1
  /\ selectedPicturesCount' >= - MaxDrift
  /\ updates' = Append(updates, kind)
  /\ UNCHANGED <<currentPicture, button, dragging, edit, editedImage>>

(* The block of the batch update has left the array as in model', and the  *)
(* strip's new items add up to it.                                         *)
BatchUpdated(kind) ==
  /\ channelItems' = Len(model'.selectedPictures)
  /\ selectedPicturesCount' =
       selectedPicturesCount + Len(model'.selectedPictures) - Len(Selected)
  /\ selectedPicturesCount' >= - MaxDrift
  /\ updates' = Append(updates, kind)
  /\ UNCHANGED <<currentPicture, button, dragging, edit, editedImage>>

(* The items inserted when the current picture is to be selected: one      *)
(* whenever the view model accepts, whether or not the array has grown.    *)
Inserted == IF Full(model) THEN 0 ELSE 1

SelectionAddsUp ==
  Known + Inserted = Len(SelectedInPreview(model, currentPicture).selectedPictures)

TapToSelect ==
  /\ OnTop
  /\ ~ button.selected
  /\ Len(updates) < MaxUpdates
  /\ IF SelectionAddsUp
     THEN PreviewSelect(currentPicture) /\ BatchUpdated("select")
     ELSE Crash

(* A slip: the strip is not told that the item is gone.                    *)
TapToCancelStripUntold ==
  /\ OnTop
  /\ button.selected
  /\ InArray(model, currentPicture)
  /\ Len(updates) < MaxUpdates
  /\ PreviewCancel(currentPicture)
  /\ updates' = Append(updates, "cancel")
  /\ selectedPicturesCount' = selectedPicturesCount - 1
  /\ UNCHANGED <<currentPicture, button, dragging, channelItems, edit, editedImage>>

(* A slip: the item's path is computed after the picture has left the      *)
(* array, and is NSNotFound.                                               *)
TapToCancelPathLate ==
  /\ OnTop
  /\ button.selected
  /\ InArray(model, currentPicture)
  /\ Crash

TapToCancel ==
  /\ OnTop
  /\ button.selected
  /\ InArray(model, currentPicture)
  /\ Len(updates) < MaxUpdates
  /\ IF Known = Len(Selected)
     THEN PreviewCancel(currentPicture) /\ BatchUpdated("cancel")
     ELSE Crash

(* A slip: the completion numbers the button by the size of the selection. *)
UpdateDoneNumberedBySize(i) ==
  /\ screen = "preview"
  /\ button' = IF updates[i] = "select"
               THEN [selected |-> TRUE, index |-> Len(Selected)]
               ELSE [button EXCEPT !.selected = FALSE]
  /\ updates' = RemoveAt(updates, i)
  /\ UNCHANGED vars
  /\ UNCHANGED <<currentPicture, dragging, channelItems,
                 selectedPicturesCount, edit, editedImage>>

(* The completion of a batch update: it does not know whether the view     *)
(* model refused, and it means the picture that is current now.            *)
UpdateDone(i) ==
  /\ screen = "preview"
  /\ IF updates[i] = "select" /\ StripLacks(currentPicture) THEN Crash
     ELSE /\ button' = IF updates[i] = "select"
                       THEN [selected |-> TRUE, index |-> Number(currentPicture)]
                       ELSE [button EXCEPT !.selected = FALSE]
          /\ updates' = RemoveAt(updates, i)
          /\ UNCHANGED vars
          /\ UNCHANGED <<currentPicture, dragging, channelItems,
                         selectedPicturesCount, edit, editedImage>>

(* Done.  The strip is only changed when the picture is to be selected.    *)
NextStep ==
  /\ OnTop
  /\ IF InArray(model, currentPicture) \/ SelectionAddsUp
     THEN PreviewNextStep(currentPicture) /\ Leave
     ELSE Crash

(* A slip: the picker is not asked to reload.                              *)
BackWithoutReload ==
  /\ OnTop
  /\ screen' = "picker"
  /\ Leave
  /\ UNCHANGED <<model, currentAlbum, requests, animations, cellEnabled,
                 barRaised, delivered>>

Back ==
  /\ OnTop
  /\ PreviewBack
  /\ Leave

-----------------------------------------------------------------------------
(* The photo editor.                                                       *)

(* A picture that was edited before goes to the editor at once, the image  *)
(* of any other is asked of the photo library first.                       *)
TapEdit ==
  /\ OnTop
  /\ edit = NoEdit
  /\ \/ editedImage[currentPicture] # NotEdited
     \/ Cardinality({p \in Picture : editedImage[p] # NotEdited}) < MaxEdited
  /\ edit' = [stage |-> IF editedImage[currentPicture] = NotEdited
                        THEN "fetching" ELSE "editing",
              of |-> currentPicture]
  /\ UNCHANGED vars
  /\ UNCHANGED <<currentPicture, button, dragging, updates, channelItems,
                 selectedPicturesCount, editedImage>>

(* The data has come.  The dictionary for the router is built of the       *)
(* preview's navigation controller, which is nil once the preview has been *)
(* popped, and of the image, which is nil if there was no data.            *)
ImageForEditor(found) ==
  /\ edit.stage \in {"fetching", "orphaned"}
  /\ IF found /\ edit.stage = "fetching"
     THEN /\ edit' = [edit EXCEPT !.stage = "editing"]
          /\ UNCHANGED vars
          /\ UNCHANGED <<currentPicture, button, dragging, updates, channelItems,
                         selectedPicturesCount, editedImage>>
     ELSE Crash

(* viewDidAppear: the strip scrolls to the current picture's item, which   *)
(* it may lack when the preview appears again.                             *)
AppearingFails == StripLacks(currentPicture)

(* The editor returns, with an image or without one, and the preview       *)
(* appears again.                                                          *)
EditorReturns(withImage) ==
  /\ screen = "preview" /\ edit.stage = "editing"
  /\ IF AppearingFails THEN Crash
     ELSE /\ edit' = NoEdit
          /\ editedImage' = IF withImage
                            THEN [editedImage EXCEPT ![currentPicture] = edit.of]
                            ELSE editedImage
          /\ button' = ButtonOnAppearing(button, currentPicture)
          /\ UNCHANGED vars
          /\ UNCHANGED <<currentPicture, dragging, updates, channelItems,
                         selectedPicturesCount>>

-----------------------------------------------------------------------------
(* What the picker does while the preview is there or not.                 *)
PickerStep ==
  /\ \/ AlbumsLoaded
     \/ \E p \in Picture :
          TapSelect(p) \/ TapCancel(p)
          \/ ImageArrives(p) \/ ProgressComplete(p) \/ ImageMissing(p)
     \/ \E i \in DOMAIN animations : AnimationDone(i)
     \/ \E a \in Album : ChangeAlbum(a)
     \/ TapNextStep \/ TapClose \/ ControllerGone
  /\ UNCHANGED previewVars

ScreenNext ==
  \/ PickerStep
  \/ OpenFromBar
  \/ \E p \in Picture : Open(p) \/ Scroll(p)
  \/ BeginDragging \/ EndDecelerating
  \/ TapToSelect \/ TapToCancel \/ NextStep \/ Back
  \/ \E i \in DOMAIN updates : UpdateDone(i)
  \/ TapEdit
  \/ \E b \in BOOLEAN : ImageForEditor(b) \/ EditorReturns(b)

allVars == <<vars, previewVars>>

ScreenSpec == ScreenInit /\ [][ScreenNext]_allVars

-----------------------------------------------------------------------------
(* Every variable of the preview keeps to its set; the counter, which      *)
(* counts the preview's own changes of the array, never exceeds the limit. *)
ScreenTypeOK ==
  /\ currentPicture \in Picture \cup {Nobody}
  /\ button \in [selected : BOOLEAN, index : Int]
  /\ dragging \in BOOLEAN
  /\ updates \in Seq({"select", "cancel"})
  /\ channelItems \in Nat \cup {Unloaded}
  /\ selectedPicturesCount \in - MaxDrift .. MaxCount
  /\ edit \in Edits
  /\ editedImage \in [Picture -> Picture \cup {NotEdited}]

(* The strip never believes in more pictures than are selected: late       *)
(* answers, which do not tell it, can only leave it behind.                *)
StripNeverAhead ==
  screen = "preview" /\ channelItems # Unloaded => channelItems <= Len(Selected)

(* At rest, a button that shows the current, selected picture as selected  *)
(* shows its position in the selection, or the NSNotFound + 1 written when *)
(* a completion found the picture unselected; never another picture's      *)
(* number (the four places that write selectButton.index).                 *)
NumberIsPosition ==
  (/\ screen = "preview" /\ ~ dragging /\ updates = << >>
   /\ button.selected /\ InArray(model, currentPicture))
    => button.index \in {PositionOf(Selected, currentPicture), NotFoundPlusOne}

(* The program ends with an exception only if the preview's strip is       *)
(* behind, its button says "not selected" of a selected picture, an edit's *)
(* image did not come or came too late, or the bar opens the preview while *)
(* the first selected picture is of another album than the one shown.      *)
CrashesExplained ==
  [][screen # "crashed" /\ screen' = "crashed"
       => \/ screen = "preview" /\ channelItems \notin {Unloaded, Len(Selected)}
          \/ screen = "preview" /\ ~ button.selected
               /\ InArray(model, currentPicture)
          \/ edit.stage \in {"fetching", "orphaned"}
          \/ /\ screen = "picker" /\ SomethingSelected(model)
             /\ ~ Shown(Head(Selected))]_allVars

(* The screen does to the selection only what PictureSelection says the    *)
(* preview may do.                                                         *)
ImplementsPicker == Spec

(* DRPICPicture.h says of editedImage that it is the edited picture, so it *)
(* was made of the picture it belongs to.                                  *)
EditedFromItself ==
  \A p \in Picture : editedImage[p] \in {NotEdited, p}
=============================================================================
