# Renren-Picture in TLA+

Renren-Picture (`src/Renren-Picture/Classes`) is an Objective-C library of screens
for an iOS application: choosing pictures from the photo library, looking at the
chosen ones and editing them before they are sent, and a full-screen browser of web
pictures. It has no concurrency primitives of its own, but hardly a handler that
finishes what it begins: photo requests, downloads, animations, batch updates,
transitions and two background queues call back later, into objects that are shared,
reused or gone. This directory models that control flow, checks it with TLC and
proves the main results with TLAPS.

Short names below: `PickerVC` is `DRPICPicturePickerViewController.m`, `PickerVM` its
view model, `PreviewVC` `DRPICPicturePreviewViewController.m`, `PreviewVM` its view
model. The file PROJECT.json maps every definition to the lines it models.

## 1. The system

| Component | State | Operations | Module |
|---|---|---|---|
| Picture picker: selection (`PickerVC`, `PickerVM`, `DRPICPicture`) | `selectedPictures` (one mutable array shared with the preview and handed to the client), `selected`, `enabled`, `selectedIndex` in every picture object, the bar's count and position, every cell's `enabled` | tap on a cell, image answer, progress report, animation completion, change of album, opening of the preview, next step, close | SelectionModel, PictureSelection |
| Preview screen (`PreviewVC`, `PreviewVM`, channel controller) | current picture, the select button's flag and number, the strip's items, a counter, the edit under way | paging, select, cancel, batch-update completion, tap on the strip, edit, next step, back | PreviewScreen |
| Photo library manager and album panel (`DRPICPictureManager`, `DRPICPicturePickerAlbumViewController`) | one operation queue for all pickers, the array of albums, the panel's state and height | listing, hand-over on the main queue, panel toggling and its animation completions | AlbumList |
| Older picker (`ImagePicker/`: controller, singleton manager, photo models) | selected rows of every album, the singleton's count and limit, confirm button, cells, photos being fetched | listing, change of album, tap, confirm, the photos' answers on two queues, cancel | ImagePicker |
| Picture browser and transitions (`PictureBrowser/`, `Transition/`) | pages, `currentIndex`, `currentPictureView`, tags, bars, status of every picture, hidden image views of the host | open, append pictures, scroll, settle, tap, drag, finished and cancelled drags, downloads, cache | PictureBrowser |
| Picker cells (`DRPICPicturePickerCollectionViewCell`, rows of the album panel) | the picture a cell object was last set up for, what it draws of its status, its thumbnail | set-up, appearing, leaving, reuse; tap, answers and completions that hold the cell | PickerCells, ReusedViews |
| Pages and strip items of the preview (`DRPICPictureViewModel`, preview and channel cells) | the picture, the image view of its medium, the image on it | set-up, answers of the photo library, edit, way back | ReusedViews |
| Camera row (`PickerVC` 346-403, and the vendored camera's `DRMECameraViewController.m` 858-893, 1208-1239) | takes being composed or saved, progress display, blocks on the main queue | open, take, compose, leave, save or fail to, hand over, close | CameraRow |
| Tag views, pan recognizer, image orientation, views, buttons, options, example application | see PROJECT.json | | not modelled |

How they interact:

- The picker and the preview share one `NSMutableArray` and the picture objects in it
  (`PickerVC` 190, 418). A cancellation in the preview runs the preview's method and
  then, through the delegate, the picker's (`PickerVC` 426-432). The client is handed
  the same array (175).
- A tap on a cell does not select. It asks the manager for the image, and the block of
  the answer selects (272-293); so does every progress report of 1 (295-320).
- The client's picker object dies at the end of its dismissal; blocks hold it weakly.
- The preview's strip is a collection view over the shared array. It is told of the
  preview's own changes by batch updates, of the picker's late answers not at all.
- All pickers use one `DRPICPictureManager` with one serial operation queue.
- The older picker keeps its selection twice, in the rows of its albums and as a number
  in a singleton that outlives it.
- Cells, rows, strip items and pages are reused. A request made for one picture holds the
  view, or finds it by a weak reference, and draws on it whatever it shows by then.
- The camera row hands a saved photo or video to the client directly, past the selection,
  and then closes the picker by the handler of its close button.
- All browsers share the status in the picture objects, which decides whether a page
  asks for its picture; transitions hide image views of the host and must show them.

What is hard here (all of it, at its lines, is under "hazards" in PROJECT.json): answers
and completions that act on what is current when they run and not when they were asked
for; two view models over one array; a collection view that raises an exception when it
is told something else than its data source says; weak references that may be nil in the
second of two blocks; statuses kept in objects that live longer than the screen that
wrote them; drags that are cancelled half way.

What makes each component correct:

- Selection: array, flags and numbers agree; at most nine; no picture stays disabled
  without reason; the bar and the cells follow; the client's choice is not taken back.
- Preview: it changes the selection only as a picker's preview may; the strip never
  believes in too many items; the number on the button is that of the current picture.
- Albums: a picker shows the whole list, and gets it; the panel comes to rest properly.
- Older picker: the number is that of the rows; a confirmation is delivered whole; the
  cells follow the selection; the button comes back.
- Browser: a picture is asked for once; image views and tags of the host are shown again
  whatever the gestures; the current page has its tags.
- Reused views: only a picture tapped on its own cell is selected; what a cell shows
  settles; no cell stays dead; a view that has been answered shows its own picture.
- Camera row: the display goes away, a result is delivered once, the picker closes.

## 2. The modules

    SelectionModel ── PictureSelection ── PreviewScreen      NumberedChoice
          │                  │      └─ implements ──────────────────┘ │
          │                  └───────── PreviewScreen implements PictureSelection
    SelectionModelProofs ──── PickerFlowProofs (of both)
                      └────── PickerCellsProofs
    SelectionModel ── PickerCells ─── implements NumberedChoice (PickerCellsProofs)
    ImagePicker ───────────────────── implements ConfirmedChoice

    AlbumList, ImagePicker, PictureBrowser, ReusedViews, CameraRow, each with its ...Proofs
    MC...: instances for TLC

**SelectionModel** has the selection as one record and every method of a view model as an
operator from record to record, so that a handler that calls both view models is a
composition: `PickerSelected`, `PickerCancelled`, `PreviewSelected`, `PreviewCancelled`,
`SelectedInPreview`, `CancelledInPreview`. `Consistent`, `UniformlyEnabled`,
`CountLagsOnlyWhenFull` and `BarShown` are what should hold of it; `Sound` is all of them.

**PictureSelection** is the picker from the arrival of the albums to the end of its
dismissal: `TapSelect`, `ImageArrives`, `ProgressComplete`, `ImageMissing`, `TapCancel`,
`AnimationDone`, `ChangeAlbum`, `OpenPreview`, `TapPreviewButton`, `TapNextStep`,
`TapClose`, `ControllerGone`, and what its preview may do (`PreviewSelect`,
`PreviewCancel`, `PreviewBack`, `PreviewNextStep`, `PreviewCrash`). A request is a count
per picture; answers come in any order, or not at all, and still come when another screen
is on top.

**NumberedChoice** is the promise to the client: a choice built up one picture at a time,
at most `MaxCount`, every chosen picture showing its position, handed over at most once,
after which it only grows. PictureSelection implements it (`KeepsPromise`).

**PreviewScreen** refines the picker's preview: its select button branches on what it
shows, which is brought up to date only by scrolling and by completions (`TapToSelect`,
`TapToCancel`, `EndDecelerating`, `UpdateDone`), the strip is the number of items it
knows, or `Unloaded` while a hidden strip has not been laid out, and an edit is fetched,
edited and stored in three steps (`edit.stage`). A collection view that is told something
inconsistent raises an exception: `Crash`. So does the strip when the preview appears
again from the editor and is to scroll to an item that it does not know
(`AppearingFails`), and the preview itself when the bar opens it over another album than
that of the first selected picture (`TapPreviewButton`).

**AlbumList** has the manager's queue (`Open`, `Start`, `LookAt`, `EnumerateDone`,
`FinishDone`, `Complete`), shared by pickers that are closed and opened meanwhile, and
the panel (`TapHeader`, `TapRow`, `DragPictures`, `Settle`) with the number of animation
completions that are due.

**ImagePicker** is the older picker: `batches` are the confirmations, each with the
stage of every photo's model. A model is fetched on a background queue, answers by a
block on the main queue that holds it weakly, and may be lost between the two.

**ConfirmedChoice** is what the older picker promises: every press of the button promises
exactly the photos chosen at that moment, and a promise is kept, by giving all of them at
once, or broken, never changed; the first one kept closes the picker. ImagePicker
implements it (`KeepsChoice`): a promise is outstanding while its confirmation is alive,
some photo of it is still missing and none of its models is lost (`Outstanding`).

**PictureBrowser** has the browser's pages and the requests of all browsers so far. The
ways on and off the screen are phases ("opening", "leaving", "dragging", "landing",
"restoring"), each with what its animation object has captured; `Scroll` moves `index`,
`Settle` moves `current`.

**PickerCells** puts the same selection under few cell objects. A cell is in the reuse
queue, kept off screen or visible (`SetUp`, `Appear`, `Leave`, `Retire`, `Reload`); a
request holds the cell and the picture of its tap (`TapSelect`, `Answer`), and a
completion refreshes the visible cells other than its own (`AnimationDone`). Three
history variables name what the code does not take care of: `tapped`, `missed` (kept off
screen while the others were refreshed) and `strayed` (drawn on, or left out, by an answer
for a picture that another cell shows). What holds in their absence, and what holds
anyhow, are the properties.

**ReusedViews** is about images: views of four kinds, which differ in what a set-up
clears (`SetUpImage`), whether an edited picture is drawn without a request (`Asks`) and
which late answers can be seen (`Reaches`: a page has an image view for each medium).
Requests carry whether the view has been set up again since (`current`).

**CameraRow** follows each take from the camera to the host through the library's queue
and the main queue. A film is composed first, in steps of the camera (`FinishFilm`,
`FilmProgress`, `FilmComposed`, `FilmDropped`), and goes on when the user closes the camera
meanwhile (`LeaveCamera`): it is delivered later (`TakeVideo`), to the picker if that is
there still, and takes away the camera if it has been opened again. A block on the main queue holds the picker if it was alive when the
block was made (`held`), and the picker is deallocated once nothing holds it. `hasty`
records that the user went on while a take was under way, `diverted` that the close took
the camera away, `lost` that a take ended without a word under its display.

Definitions whose comments begin with "A slip" or "A mutant", or that stand under
"Plausible slips", are wrong on purpose: they stand beside the definition they would
replace, and every property of a passing run fails when one of them does (PROJECT.json,
"mutants").

## 3. The runs

| Run | Instance | States | Shows |
|---|---|---|---|
| picture_selection | 3 pictures in 2 albums, limit 2, one pending request per picture, 2 animations | 1.3M | the shared selection is consistent and strands no picture, bar and cells follow, delivery is kept, the promise is kept |
| preview_screen | 3 pictures of 1 album, limit 2, 2 batch updates, counter down to -1, no edits | 0.7M | strip, button number, the screen implements the picker's preview |
| preview_editing | 3 pictures in 2 albums, limit 2, 1 batch update, counter from 0, 1 picture edited | 4.7M | the reasons of every exception, with the round trip to the editor and the opening over another album |
| preview_wrong_edit | the same | | *violation*: an edited image is stored in another picture |
| image_picker | 2 albums of 2 rows, limit 2, 2 confirmations, multiple selection | 3.4M | number and rows agree, deliveries are whole, cells follow |
| image_picker_live | 2 albums of 1 row, limit 2, 2 confirmations, fairness | 0.14M | the confirm button comes back unless a photo's model was lost; the picker implements ConfirmedChoice |
| picture_browser | a JPEG and a GIF original, 2 arrays, 2 browsers, up to 3 pages | 0.9M | one request per picture, tags, image views of the host, statuses |
| browser_failed_load | the same, 2 pages | | *violation*: a failed download stays "Loading" |
| album_list | 3 pickers, 3 libraries (one of them empty) | 10k | the whole list is shown, every waiting picker gets it, the panel's height |
| picker_cells | 3 pictures, 2 cells, limit 2, 1 pending request, 2 animations | 1.7M | only tapped pictures are selected, what cells show settles, no cell stays dead |
| reused_views | 2 views of any kinds, 2 pictures of any media, 2 requests, 1 edit each | 1.3M | images are right once answered, nothing is left over, media do not mix |
| camera_row | 3 takes of any kind, picker pushed or presented, fairness | 0.1M | the display is explained, one result for a patient user, the close follows |

### The bounds, and why they are enough

- The limit is 9 in the code. With a limit of 2 all three situations of the code are
  reached (not full, becoming full, full), a removal from the front renumbers, and with a
  third picture there is always one to refuse or to disable. The proofs hold for any
  limit above one.
- `MaxRequests` 1 per picture gives as many requests at a time as there are pictures, in
  any order of answers; a repeated answer to the same tap comes from `ProgressComplete`.
  `MaxAnimations` 2 lets two completions run in an order other than that of their taps'
  effects. With two albums a picture may change while its cell is not shown.
- `MaxUpdates` 2: a second tap before the first batch update completes, which is where
  the strip can get out of step. `MaxDrift` bounds how far the preview's counter falls.
  With editing both are smaller, and one picture is edited: each of the four causes in
  `CrashesExplained` is still reached (without any one of them TLC finds it violated).
- Two confirmations of the older picker: the second begins before the first has ended.
  Two albums: rows outside the album shown count too.
- Two browsers: the second shows pictures whose statuses and requests are the first's.
  Three pages: `index` and `current` differ, and a drag takes hold of either.
- Three pickers: one closed and still queued, one waiting behind it, one shown.
- Fewer cells than pictures, so that a cell must be reused; two, so that one is refreshed
  by the completion of the other. One pending request: an answer concerns one cell and
  one picture, and `ProgressComplete` repeats it; two animations overlap.
- Two views and two requests: a view may have an outdated request and one of its own, in
  either order, and the kinds do not interact beyond the screen in front.
- Three takes: one lost, one being composed or saved and one being taken; the results of
  the first two meet a camera that has been opened again.

The runs that may stop for good say CHECK_DEADLOCK FALSE, with the reason beside it: the
screen is gone for good, UIKit has raised an exception, or all pickers have been closed.

### Fairness

- `ImagePicker!FairSpec`: the photo library answers every request (`Fetched`), and the
  main queue runs the block of every answer, or the model is gone before it does
  (`Arrives`, `Lost`). Nothing is assumed of the user.
- `AlbumList!FairSpec`: the operation queue starts what waits, the enumeration goes on,
  the main run loop runs what was put on it. Nothing is assumed of the user, who may wait
  for ever with the picker open.
- `CameraRow!FairSpec`: the main queue runs its blocks and the photo library ends every
  save. Nothing is assumed of the user, nor that a film is ever composed, or a video saved
  rather than not.
- The other specifications have no fairness; their properties are safety properties.

### The disagreements found

1. `preview_wrong_edit`. The image for the editor is fetched for one picture and stored
   in the one that is current when the editor returns (`PreviewVC` 109, 136-138).
2. `browser_failed_load`. A failed download leaves the status Loading, whose comment says
   "being loaded", and the picture is never asked for again (`DRPICPictureView.m` 171).

Other things the models had to take as they are, without a run of their own:

- `DRPICPicturePreviewModel.h:26` says that `selectedPicturesCount` is the number of
  selected pictures; it is copied from a counter of the picker that no line writes, so a
  preview opened with pictures selected counts from zero (`MaxDrift` below it).
- With single selection the older picker keeps its own limit and compares with that one
  (`DRPICImagePickerController.m` 55, 230, 237).
- A photo's model is held by the background block only; the second, weak block may find
  it gone (`DRPICPhotoModel.m` 18-27), and then its confirmation never ends. This is the
  exception in `ButtonComesBack`.
- The saving of a photo is not asked for its success (`PickerVC` 364): the host may be
  handed a picture without an asset. A video that cannot be saved leaves the progress
  display up (386), the exception in `DisplayExplained`.
- After an edit the strip and the rows of the panel go on showing the library's image;
  `Asks` says which kinds of view draw an edit.

## 4. The proofs

Everything below is proved by TLAPS for every value of the constants under the named
assumptions (`MaxCountAssumption`, `AlbumAssumption`, `BoundAssumption`,
`PreviewBoundAssumption`, `PickerAssumption`, `BrowserAssumption`, `LibraryAssumption`,
`NoPictureAssumption`, `CellBoundAssumption`, `TakeAssumption`), which say the types of the constants and,
beyond that, that the limit is above one, that the rows of an album are finitely many,
that an array given to a browser has no picture twice, that the photo library lists a
collection once and has at most one camera roll, that "no picture" is none, and that the
result of the next-step button is not a take.

**SelectionModelProofs, PickerFlowProofs (PictureSelection).** The parts of the selection lean on each
other. That the numbers are positions after a removal needs that no picture is there
twice; that a cancellation enables every picture again needs that only a full selection
had disabled them, and all alike; that the bar is shown again needs that its count lags
only behind a full selection. So the invariant is all of them together,
`IInv == TypeOK /\ Sound(model) /\ DeliveredKept`, where `Sound` is consistency, uniform
enabling, the lag of the count and the visible bar. The
lemmas show operator by operator that `Sound` is kept (`PickerSelectedSound`,
`SelectedInPreviewSound`, `PickerCancelledSound`, `CancelledInPreviewSound`); the
renumbering loop is `RemovedConsistent`. The theorems: `TypeCorrect`,
`SelectionIsConsistent`, `NothingStranded`, `BarFollows`, `DeliveredStaysKept`, and
`PickerKeepsPromise`: the picker implements NumberedChoice. For the last one every step
extends the array, shortens it or leaves it (`SelectingChanges`, `CancellingChanges`), and
in a consistent selection the stored numbers are those computed from scratch
(`BadgesArePositions`). `CellsSettle` has an
invariant of its own, `SettledOrDue`: a cell that is not enabled as its picture is, is due
for a refresh by a completion that is still to run and is not its own.

**PickerFlowProofs (PreviewScreen).** `PreviewImplementsPicker`: whatever button, strip and edit do,
the screen changes the picker's variables only as PictureSelection allows; it needs the
invariant that an open preview shows a picture (`ShowsPicture`). With the theorem above,
`PreviewKeepsPromise`. The preview's own variables have the invariant `ScreenIInv`. The
counter never exceeds the array (`CountBounded`), because late answers only add to it;
the strip never exceeds it either, which is `StripStaysBehind`; and `NumberAtRest` says
that a number left by the last completion is still the picture's position, because what
is appended moves nobody (`PositionStays`). It gives `ScreenTypeCorrect` and
`ButtonNumberRight`. `CrashesAreExplained` is an action property over that invariant:
every step that ends the program with an exception has one of four causes, three of the
preview (`CrashHasCauseInPreview`) and two that remain when the preview is not on the
screen (`CrashHasCauseInPicker`: the image for an editor, and the bar).

**PickerCellsProofs.** The properties speak of the moment when no completion is due. The
invariant says what holds before it: a visible or kept cell that does not look right is
due for a refresh (`RightOrDue`), and one that takes no touch though its picture is
enabled is due for the refresh of a cancellation (`AliveOrDue`). The second is needed for
the first: a completion loses its power when the selection it filled is no longer full,
but then a cancellation has come, whose completion has it. `AskedByTap` ties the requests
to the taps. Theorems: `TypeCorrect`, `OnlyTappedSelected`, `CellsLookRight`,
`NoCellStaysDead`. The effect of the selection's operators on single pictures is
`PickerSelectedStatus` and `PickerCancelledStatus` of SelectionModelProofs.
`CellsKeepPromise` shows that the reuse of cells is invisible to the promise: with cells
and pictures that part while an answer is out, PickerCells still implements NumberedChoice
(with nothing handed over). TLC finds no violation of it on the instance of picker_cells
either; it is not among the run's properties.

**ReusedViewsProofs.** The invariant adds to the properties that the request of the
present set-up is for the picture of the set-up (`CurrentIsOwn`), and that the picture of
a view in front has not been edited behind that request (`AskedUnedited`: an edit takes
the pages off duty, the way back to the picker its cells). `PageMedium` is what
`MediumKept` needs of pages behind the picker. Theorems: `TypeCorrect`, `ImagesRight`,
`NothingLeftOver`, `PagesKeepMedium`.

**AlbumListProofs.** No dependency orders the two operations of a picker, so the
invariant carries the order through the queue (`QueueOrder`: no operation twice, and a
picker's second operation behind its first) and from there to the array (`Stages`: what
each of queue, running operation, main queue and screen says about the enumeration being
over; `Built`: what the array holds after `seen` collections). `ShowsWholeList` follows;
`PanelSettles` has an invariant of its own, that an expanded panel is always tall. Of
`LoadingEnds`, which is liveness, `LoadingIsOwed` is the half that safety can say: while a
picker loads, its second operation is in the queue or running, or its block is on the main
queue, and an enumeration that runs has not run past its end, so that its next step is
there to take. `NoWriteAfterHandover` is an action property: the array that one thread
fills and another reads without lock or copy is not written once the main queue has it.

**ImagePickerProofs.** The invariant joins the number and the rows (`CountIsRows`), every
confirmation's number and what it asked for (`CountsAsked`), the cells
(`CellsFollowSelection`), and that only rows of albums found are selected (`RowsFound`).
Theorems: `TypeCorrect`, `CountMatchesRows`, `DeliveryIsWhole`, `CellsFollow`.
`PickerKeepsChoice` is the refinement of ConfirmedChoice. The code gathers the photos of a
confirmation by going through the albums it has listed; that these are all the photos
chosen needs `RowsFound` (`AskedIsChosen`), and that the completion comes when the last
photo does, not before, needs `CountsAsked`: the code compares the number of models with a
number read elsewhere. That the limit of the promise is the one the controller was opened
with, and that nothing is given outside a session, is `Session`. The fetch of a photo
changes nothing that was promised unless it is the last (`StageChanges`, `AllAdded`).
`ButtonIsOwed` is the safety half of `ButtonComesBack`: a button that is disabled with
photos selected waits for a confirmation of this very controller with a photo missing.

**CameraRowProofs.** Three arguments over the types. `ShowsExplained`: a display still to be
shown belongs to a take that is being saved, or whose finishing block stands behind it on
the main queue, or that is lost; without it `DisplayExplained` does not survive the block
that shows. `Patient`: of a user who has waited every time, at most one take is under way
and has no result yet, the camera is open only over an open picker with nothing being saved
and nothing on the main queue, and after the first result the picker is closed or its
closing block waits; that gives `OneResult`. `CloseOwed`: a take handed over has its
closing block on the main queue, which holds the picker, until the picker closes or the
camera is closed in its place. Theorems: `TypeCorrect` (with that, no take is handed over
twice), `DisplayIsExplained`, `OneResultForPatient`, and `CloseIsOwed`, the safety half of
`CloseFollows`.

**PictureBrowserProofs.** `HiddenNow` and `VeiledNow` say, phase by phase, which image
view is hidden and which tags are veiled, `LoadsPlaced` that a request on screen belongs
to a page. Theorems: `TypeCorrect`, `AskedByOne`, `CurrentPageTagged`,
`SourcesGivenBack`, `TagsGivenBack` and the action property `StatusNeverBack`.

Model-checked only: the liveness properties `ButtonComesBack`, `LoadingEnds` and
`CloseFollows`, which need fairness, out of the prover's reach; what they rest on that is
safety is proved (`ButtonIsOwed`, `LoadingIsOwed`, `CloseIsOwed`). Every other property of
a passing run is stated by a theorem.

## 5. What the models assume

- UIKit. Callbacks run on the main thread, one at a time. A batch update whose count does
  not add up, and a scroll to an item the collection view does not know, raise an
  exception. Views take no touches while `UIView` animates them, or while they are
  dismissed. A touch on the browser stops its scrolling, so that no page settles during a
  drag, and no page is scrolled while the browser opens; `SourcesShown` and `TagsReturn`
  rest on that.
- The photo library may answer a request more than once, late or never. A weak reference
  may turn nil at any point at which nothing else holds the object.
- PictureSelection: the cells of the current album are all on screen, one per picture,
  and the camera row is not used; `"crashed"` is the end. One phase, "closing", stands for
  both ways of the close button, a dismissal and a pop (`PickerVC` 197-208): in either the
  picker takes no touch any more and late answers still find it until it is gone.
- PickerCells: a collection view may set cells up ahead, keep cells that have left the
  screen and show them again without a set-up; `visibleCells` has neither. Any picture may
  come on screen at any time: order, albums and the direction of scrolling are left out.
- ReusedViews: a thumbnail request answers degraded images first and then once more, or
  nil; a request for a page answers once. The preview's views are gone with it, and what
  they asked for is dropped.
- CameraRow: the camera is a pod (`Example/Pods/Renren-EditImage`), and of it only what
  the picker can tell is modelled: the end of a photo's editing, the composing of a film
  and the close button. Its dismissal is one step, animation included. The composer may
  answer or not, and reports no progress after its answer; the block of the answer takes
  any place among the blocks of the main queue. This camera always has a path for a film
  it delivers; the picker's own guard against none (384) is kept (`TakeNothing`). The
  display lets touches through, there is one for the whole application, and hiding it hides
  anyone's; a message or an error in its place goes by itself. `saveVideoWithUrl:` may call
  back with an error or not at all. A navigation controller that presents the camera
  dismisses that first; one the picker was pushed on pops the picker.
- PreviewScreen: completions that run after the preview has been popped have no effect
  that the model shows. Opened from the bar while the first selected picture is of another
  album, the preview scrolls to an item NSNotFound (`PreviewVC` 45), which raises an
  exception in UIKit: `TapPreviewButton` ends in `"crashed"`.
- AlbumList: the collections of the five fetches are distinct; one picker is on screen
  at a time.
- PictureBrowser: one browser at a time; the arrays of the host repeat no picture, and
  every picture has an image view of its own in the host. Zooming, long presses, and the
  geometry of a drag are left out, download progress too. Tags are placed when the code
  says so, even on a page that is still blank; a cancelled dismissal does not bring them
  back, nor the bars.

## 6. What is not modelled, and why

Parts of modelled components:

- The web branches of `DRPICPictureViewModel` (`processPictureWebSource` and what it
  calls): whoever opens the preview passes pictures of the photo library.
- Zooming, the layout of a page and the spinner of a page. The spinner is given no frame,
  and `processLoading:animated:` shows it whatever it is asked
  (`DRPICPicturePreviewView.m` 66-67).
- The border of the strip's items (`DRPICPicturePreviewChannelViewController.m` 61-97) and
  the original-image toggles, which nobody reads.
- Of the browser, of AlbumList and of the older picker: see the notes in PROJECT.json.

Whole components:

- The tag container and the tag views: when tags are placed and veiled is in
  PictureBrowser, where they stand is layout.
- `DRPICPanGestureRecognizer` and the orientation fix of the manager: computations with
  points and affine matrices in floating point, without state that lasts.
- Scroll, video and loading views, buttons, bars and headers, options, resource lookup,
  the navigation controller subclass: views and constants the rest does not depend on.
- The example application and the pods. All C code and all headers of C libraries in the
  repository belong to the pods (a database, an image codec, a camera); the library itself
  is Objective-C (`.m`), which is what every module here models. Of the pods, CameraRow has
  the part of the camera that the picker depends on, and nothing else is modelled.

One hazard has no property: the unlocked array of albums of the older picker
(`DRPICImagePickerController.m` 121), a data race with no defined set of outcomes.

What could come next: the composition of PickerCells with PreviewScreen, so that a strayed
answer and the reload on the way back are in one model; the tags' fading order.
