---------------------------- MODULE ReusedViews ----------------------------
(***************************************************************************)
(* The images of the views that are reused: the cells of the picture       *)
(* picker, the rows of its album panel, and in the preview the cells of    *)
(* the strip and the pages.                                                *)
(*                                                                         *)
(* A view set up for a picture asks the photo library for its image, and   *)
(* the answer is drawn on the view whatever it shows by then: no request   *)
(* is cancelled and no answer compares the picture.  Answers come in any   *)
(* order, a thumbnail often twice (a degraded image first) and sometimes   *)
(* as nil.  An edited picture is drawn at once, without a request, by the  *)
(* cells and the pages of stills only.                                     *)
(*                                                                         *)
(* The four kinds of view do nothing to each other, so a run has a few     *)
(* views of any kinds.  The order of the pictures and what is drawn on an  *)
(* image (numbers, covers, progress) are in other modules.                 *)
(***************************************************************************)
EXTENDS Integers

CONSTANTS
  View,         \* the reused views
  Picture,      \* the pictures of the library
  NoPicture,    \* what a view shows before its first set-up
  RequestId,    \* PHImageRequestID, and the bound on pending requests
  MaxEdits      \* bound: edits of one picture

ASSUME NoPictureAssumption == NoPicture \notin Picture
ASSUME BoundAssumption == MaxEdits \in Nat

VARIABLES
  kind,      \* kind[v]: what view v is
  medium,    \* medium[p]: picture.source.mediaType and mediaSubtypes
  front,     \* the screen in front
  version,   \* version[p]: 0 as in the library, n after n edits
  duty,      \* duty[v]: the view is set up, and not in its reuse queue
  picture,   \* picture[v]: the picture of its last set-up
  image,     \* image[v]: the image it shows
  requests,  \* image requests that have not had their last answer
  failed,    \* history: views whose own request brought no image
  astray     \* history: views last drawn on by the request of a former
             \* set-up

vars == <<kind, medium, front, version, duty, picture, image, requests,
          failed, astray>>

PickerKinds == {"cell", "row"}
PreviewKinds == {"strip", "page"}
Media == {"still", "gif", "video"}

Image == [of : Picture \union {NoPicture}, version : 0..MaxEdits,
          degraded : BOOLEAN]

Blank == [of |-> NoPicture, version |-> 0, degraded |-> FALSE]

(* What the library answers: the picture as it is there, edits unknown.    *)
Thumbnail(p, degraded) == [of |-> p, version |-> 0, degraded |-> degraded]

(* current: the view has not been set up again since.                      *)
Request == [id : RequestId, view : View, picture : Picture,
            current : BOOLEAN]

Free(n) == \A r \in requests : r.id # n

InFront(v) ==
  kind[v] \in (IF front = "picker" THEN PickerKinds ELSE PreviewKinds)

Seen(v) == duty[v] /\ InFront(v)

(* -[cteatePhAssetImage] and -[processPictureEditSource]: an edited image  *)
(* is drawn in place of the library's by every cell, and by a page whose   *)
(* picture is a still; GIFs and videos are loaded from the library.        *)
DrawsEdits(v, p) ==
  \/ kind[v] = "cell"
  \/ kind[v] = "page" /\ medium[p] = "still"

Asks(v, p) == ~ (DrawsEdits(v, p) /\ version[p] > 0)

Edited(p) == [of |-> p, version |-> version[p], degraded |-> FALSE]

(* A slip: a cell or a page keeps the former image until the answer.       *)
SetUpKeeping(v, p) == IF Asks(v, p) THEN image[v] ELSE Edited(p)

(* What a view shows when it has just been set up.  A cell clears its      *)
(* image and a page takes new image views; rows and the strip clear        *)
(* nothing.                                                                *)
SetUpImage(v, p) ==
  CASE ~ Asks(v, p)                            -> Edited(p)
    [] Asks(v, p) /\ kind[v] \in {"cell", "page"} -> Blank
    [] OTHER                                   -> image[v]

-----------------------------------------------------------------------------
Init ==
  /\ kind \in [View -> PickerKinds \union PreviewKinds]
  /\ medium \in [Picture -> Media]
  /\ front = "picker"
  /\ version = [p \in Picture |-> 0]
  /\ duty = [v \in View |-> FALSE]
  /\ picture = [v \in View |-> NoPicture]
  /\ image = [v \in View |-> Blank]
  /\ requests = {}
  /\ failed = {}
  /\ astray = {}

-----------------------------------------------------------------------------
(* What the lists do with their views.                                     *)

(* The requests of earlier set-ups of v go on, outdated.                   *)
Outdated(v) ==
  {[r EXCEPT !.current = @ /\ r.view # v] : r \in requests}

(* cellForItemAtIndexPath or cellForRowAtIndexPath: a view from the queue  *)
(* is set up for a picture.                                                *)
SetUp(v, p, n) ==
  /\ InFront(v)
  /\ ~ duty[v]
  /\ Asks(v, p) => Free(n)
  /\ duty' = [duty EXCEPT ![v] = TRUE]
  /\ picture' = [picture EXCEPT ![v] = p]
  /\ image' = [image EXCEPT ![v] = SetUpImage(v, p)]
  /\ requests' =
       IF Asks(v, p)
       THEN Outdated(v) \union
              {[id |-> n, view |-> v, picture |-> p, current |-> TRUE]}
       ELSE Outdated(v)
  /\ failed' = failed \ {v}
  /\ astray' = astray \ {v}
  /\ UNCHANGED <<kind, medium, front, version>>

(* A view scrolls away, or its list is loaded again for another album, and *)
(* the view goes back to the queue as it is.                               *)
Retire(v) ==
  /\ Seen(v)
  /\ duty' = [duty EXCEPT ![v] = FALSE]
  /\ UNCHANGED <<kind, medium, front, version, picture, image, requests,
                 failed, astray>>

-----------------------------------------------------------------------------
(* What the photo library answers.                                         *)

(* A slip: a page has one image view for every medium.                     *)
ReachesAlways(r) == TRUE

(* A page draws a still, a GIF and a video on three views of which its     *)
(* set-up puts one on screen: an answer of another medium is not seen.     *)
Reaches(r) ==
  \/ kind[r.view] # "page"
  \/ medium[r.picture] = medium[picture[r.view]]

(* The answer is drawn on the view it was asked for, whatever the view     *)
(* shows now.                                                              *)
Draw(r, i) ==
  /\ image' = [image EXCEPT ![r.view] = IF Reaches(r) THEN i ELSE @]
  /\ astray' = IF r.current
               THEN astray \ {r.view}
               ELSE IF Reaches(r) THEN astray \union {r.view} ELSE astray

(* A thumbnail comes degraded first; the request goes on.                  *)
DegradedAnswer(r) ==
  /\ kind[r.view] # "page"
  /\ Draw(r, Thumbnail(r.picture, TRUE))
  /\ UNCHANGED <<kind, medium, front, version, duty, picture, requests,
                 failed>>

(* The image, the GIF or the video itself.                                 *)
FullAnswer(r) ==
  /\ Draw(r, Thumbnail(r.picture, FALSE))
  /\ requests' = requests \ {r}
  /\ UNCHANGED <<kind, medium, front, version, duty, picture, failed>>

(* There is no image: nil is drawn; the manager keeps silent about a GIF.  *)
NilAnswer(r) ==
  /\ IF kind[r.view] = "page" /\ medium[r.picture] = "gif"
     THEN UNCHANGED <<image, astray>>
     ELSE Draw(r, Blank)
  /\ failed' = IF r.current THEN failed \union {r.view} ELSE failed
  /\ requests' = requests \ {r}
  /\ UNCHANGED <<kind, medium, front, version, duty, picture>>

-----------------------------------------------------------------------------
(* Between the screens.                                                    *)

(* A picture is touched: the preview is pushed, with views of its own.     *)
OpenPreview ==
  /\ front = "picker"
  /\ front' = "preview"
  /\ UNCHANGED <<kind, medium, version, duty, picture, image, requests,
                 failed, astray>>

(* The edit tool delivers an image of the preview's current picture, which *)
(* may be of any medium; the pages are loaded again, the strip is not.     *)
Edit(p) ==
  /\ front = "preview"
  /\ version[p] < MaxEdits
  /\ version' = [version EXCEPT ![p] = @ + 1]
  /\ duty' = [v \in View |-> duty[v] /\ kind[v] # "page"]
  /\ UNCHANGED <<kind, medium, front, picture, image, requests, failed,
                 astray>>

(* A slip: the answers of the preview's views are not dropped.             *)
BackLeavingRequests ==
  /\ front = "preview"
  /\ front' = "picker"
  /\ duty' = [v \in View |-> FALSE]
  /\ picture' = [v \in View |->
                   IF kind[v] \in PickerKinds THEN picture[v] ELSE NoPicture]
  /\ image' = [v \in View |->
                 IF kind[v] \in PickerKinds THEN image[v] ELSE Blank]
  /\ UNCHANGED <<kind, medium, version, requests, failed, astray>>

(* A slip: the picker comes back as it was left.                           *)
BackUnloaded ==
  /\ front = "preview"
  /\ front' = "picker"
  /\ duty' = [v \in View |-> duty[v] /\ kind[v] \in PickerKinds]
  /\ picture' = [v \in View |->
                   IF kind[v] \in PickerKinds THEN picture[v] ELSE NoPicture]
  /\ image' = [v \in View |->
                 IF kind[v] \in PickerKinds THEN image[v] ELSE Blank]
  /\ requests' = {r \in requests : kind[r.view] \in PickerKinds}
  /\ UNCHANGED <<kind, medium, version, failed, astray>>

(* The preview is popped: its views are gone, and their answers, held by   *)
(* weak references, are dropped.  viewWillAppear of the picker loads its   *)
(* two lists again.                                                        *)
Back ==
  /\ front = "preview"
  /\ front' = "picker"
  /\ duty' = [v \in View |-> FALSE]
  /\ picture' = [v \in View |->
                   IF kind[v] \in PickerKinds THEN picture[v] ELSE NoPicture]
  /\ image' = [v \in View |->
                 IF kind[v] \in PickerKinds THEN image[v] ELSE Blank]
  /\ requests' = {r \in requests : kind[r.view] \in PickerKinds}
  /\ UNCHANGED <<kind, medium, version, failed, astray>>

-----------------------------------------------------------------------------
Next ==
  \/ \E v \in View : Retire(v)
  \/ \E v \in View, p \in Picture, n \in RequestId : SetUp(v, p, n)
  \/ \E r \in requests : DegradedAnswer(r) \/ FullAnswer(r) \/ NilAnswer(r)
  \/ \E p \in Picture : Edit(p)
  \/ OpenPreview
  \/ Back

Spec == Init /\ [][Next]_vars

-----------------------------------------------------------------------------
(* Properties.                                                             *)

(* Type correctness, with what the queues and the requests keep: a view on *)
(* duty has a picture, and so has one with a request; the preview's views  *)
(* are on duty only while it is in front.                                  *)
TypeOK ==
  /\ kind \in [View -> PickerKinds \union PreviewKinds]
  /\ medium \in [Picture -> Media]
  /\ front \in {"picker", "preview"}
  /\ version \in [Picture -> 0..MaxEdits]
  /\ duty \in [View -> BOOLEAN]
  /\ picture \in [View -> Picture \union {NoPicture}]
  /\ image \in [View -> Image]
  /\ requests \subseteq Request
  /\ failed \subseteq View /\ astray \subseteq View
  /\ \A v \in View : duty[v] => picture[v] \in Picture
  /\ \A r \in requests : picture[r.view] \in Picture
  /\ front = "picker" =>
       \A v \in View : kind[v] \in PreviewKinds => ~ duty[v]

Waiting(v) ==
  \E r \in requests : r.view = v /\ r.current

ProperImage(v) ==
  LET p == picture[v] IN IF Asks(v, p) THEN Thumbnail(p, FALSE) ELSE Edited(p)

(* The image a user sees is right once it has been answered: a view in     *)
(* front whose own request is over shows its own picture, in full, with    *)
(* its last edit where that kind of view draws edits.  The only exceptions *)
(* are a request that brought nothing, and an answer for a former picture  *)
(* that came last.                                                         *)
RightWhenAnswered ==
  \A v \in View :
    Seen(v) /\ ~ Waiting(v) /\ v \notin failed /\ v \notin astray =>
      image[v] = ProperImage(v)

(* Cells and pages show nothing of the picture they were used for before,  *)
(* unless an answer for it comes late.                                     *)
NoLeftover ==
  \A v \in View :
    Seen(v) /\ kind[v] \in {"cell", "page"} /\ v \notin astray =>
      image[v].of \in {picture[v], NoPicture}

(* Even a late answer draws on a page only what the page is made for: it   *)
(* never shows a picture of another medium than its own.                   *)
MediumKept ==
  \A v \in View :
    Seen(v) /\ kind[v] = "page" /\ image[v] # Blank =>
      medium[image[v].of] = medium[picture[v]]
=============================================================================
