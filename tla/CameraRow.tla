----------------------------- MODULE CameraRow -----------------------------
(***************************************************************************)
(* The camera row of the picture picker: a photo or a video is taken, saved*)
(* to the photo library and handed over to the host, and the picker closes.*)
(*                                                                         *)
(* The camera composes a film before it delivers it, and goes on when it   *)
(* is closed meanwhile.  It leaves the screen as soon as it delivers.  The *)
(* save goes on in the library's queue behind a progress display that lets *)
(* touches through, so that the picker can be used meanwhile: more can be  *)
(* taken, the next step be touched, the picker be closed.  What the save's *)
(* completion leaves to the main queue waits there in turn.                *)
(*                                                                         *)
(* The camera is vendored (Example/Pods, Renren-EditImage): of it only the *)
(* ends of a photo and the composing of a film are here, its dismissal is  *)
(* one step, and the composer stops reporting once it has answered.  The   *)
(* pictures that the next step hands over are in PictureSelection; here it *)
(* hands over "selection".                                                 *)
(***************************************************************************)
EXTENDS Sequences, FiniteSets, Integers

CONSTANT Take   \* what is taken in a run, each once

ASSUME TakeAssumption == "selection" \notin Take

VARIABLES
  modal,     \* the navigation controller is a DRPICMainNavigationController
  picker,    \* the picker is open, on its way out, or deallocated
  camera,    \* the camera is presented
  state,     \* state[t]: where take t is
  main,      \* blocks on the main queue
  hud,       \* the progress display is shown
  handed,    \* what eventBlock got, in order
  lost,      \* history: takes that ended silently under their display
  hasty,     \* history: the user went on while a take was under way
  diverted   \* history: the close took the camera instead of the picker

vars == <<modal, picker, camera, state, main, hud, handed, lost, hasty,
          diverted>>

(* A film that the camera has not delivered to the picker.                 *)
Composing == {"composing", "composed"}

(* A take that the library is saving.                                      *)
Saving == {"photo", "video"}

States == {"untaken", "over"} \union Composing \union Saving

(* held: the block holds the picker strongly.                              *)
Block == [do : {"show", "finish"}, take : Take, held : BOOLEAN]

Alive == picker # "gone"

(* Takes that have not been finished with.                                 *)
UnderWay ==
  {t \in Take : state[t] \in Composing \union Saving
                  \/ \E i \in DOMAIN main : main[i].take = t}

Usable == picker = "open" /\ ~ camera

-----------------------------------------------------------------------------
Init ==
  /\ modal \in BOOLEAN
  /\ picker = "open"
  /\ camera = FALSE
  /\ state = [t \in Take |-> "untaken"]
  /\ main = << >>
  /\ hud = FALSE
  /\ handed = << >>
  /\ lost = {}
  /\ hasty = FALSE
  /\ diverted = FALSE

-----------------------------------------------------------------------------
(* The user.                                                               *)

(* A slip: the close closes nothing.                                       *)
CloseNothing ==
  /\ diverted' = diverted
  /\ UNCHANGED <<picker, camera>>

(* eventTouchUpInsideForLetfNavigationItemButton:  The navigation          *)
(* controller dismisses what it presents: the camera if it is up.  One     *)
(* that pops takes the picker from under the camera.                       *)
Close ==
  IF modal /\ camera
  THEN /\ camera' = FALSE
       /\ diverted' = TRUE
       /\ UNCHANGED picker
  ELSE /\ picker' = IF picker = "open" THEN "closing" ELSE picker
       /\ UNCHANGED <<camera, diverted>>

(* The camera row: the camera is presented, and told where to deliver.     *)
TapCamera ==
  /\ Usable
  /\ camera' = TRUE
  /\ hasty' = (hasty \/ UnderWay # {})
  /\ UNCHANGED <<modal, picker, state, main, hud, handed, lost, diverted>>

(* The camera's close button, its action sheet included.  A film that is   *)
(* being composed goes on.                                                 *)
LeaveCamera ==
  /\ camera
  /\ camera' = FALSE
  /\ UNCHANGED <<modal, picker, state, main, hud, handed, lost, hasty,
                 diverted>>

(* The next step, with something selected: it is handed over at once.      *)
TapNextStep ==
  /\ Usable
  /\ handed' = Append(handed, "selection")
  /\ Close
  /\ hasty' = (hasty \/ UnderWay # {})
  /\ UNCHANGED <<modal, state, main, hud, lost>>

TapClose ==
  /\ Usable
  /\ Close
  /\ hasty' = (hasty \/ UnderWay # {})
  /\ UNCHANGED <<modal, state, main, hud, handed, lost>>

(* The picker has left the screen and nobody holds it any more.            *)
Deallocate ==
  /\ picker = "closing"
  /\ ~ \E i \in DOMAIN main : main[i].held
  /\ picker' = "gone"
  /\ UNCHANGED <<modal, camera, state, main, hud, handed, lost, hasty,
                 diverted>>

-----------------------------------------------------------------------------
(* Taking.  The display is shown by a block of its own.                    *)

Show(t) == [do |-> "show", take |-> t, held |-> FALSE]

(* cameraEditCompleteBlock, from the camera's photo editor: the display is *)
(* asked for, and the save.                                                *)
TakePhoto(t) ==
  /\ camera
  /\ state[t] = "untaken"
  /\ state' = [state EXCEPT ![t] = "photo"]
  /\ main' = Append(main, Show(t))
  /\ camera' = FALSE
  /\ hasty' = (hasty \/ UnderWay # {})
  /\ UNCHANGED <<modal, picker, hud, handed, lost, diverted>>

(* Takes whose display has not been shown yet.                             *)
Unshown ==
  {t \in Take : \E i \in DOMAIN main : main[i].do = "show" /\ main[i].take = t}

(* The camera's finish button: the parts of a film are being put together. *)
FinishFilm(t) ==
  /\ camera
  /\ state[t] = "untaken"
  /\ state' = [state EXCEPT ![t] = "composing"]
  /\ hasty' = (hasty \/ UnderWay # {})
  /\ UNCHANGED <<modal, picker, camera, main, hud, handed, lost, diverted>>

(* The composer reports: the camera shows the same display.                *)
FilmProgress(t) ==
  /\ state[t] = "composing"
  /\ hud' = TRUE
  /\ UNCHANGED <<modal, picker, camera, state, main, handed, lost, hasty,
                 diverted>>

(* The composer answers: a block on the main queue, whose turn is left     *)
(* open, holds the camera if that is presented still or the picker keeps   *)
(* it.                                                                     *)
FilmComposed(t) ==
  /\ state[t] = "composing"
  /\ Alive \/ camera
  /\ state' = [state EXCEPT ![t] = "composed"]
  /\ UNCHANGED <<modal, picker, camera, main, hud, handed, lost, hasty,
                 diverted>>

(* The film is too short, its camera is gone or it could not be composed:  *)
(* a message takes the display's place and then goes by itself.            *)
FilmDropped(t) ==
  /\ state[t] \in Composing
  /\ state' = [state EXCEPT ![t] = "over"]
  /\ hud' = FALSE
  /\ lost' = lost \intersect Unshown
  /\ UNCHANGED <<modal, picker, camera, main, handed, hasty, diverted>>

(* editVideoCompleteBlock: the camera takes the display away, delivers the *)
(* path of the film and dismisses itself, if it is presented still.        *)
TakeVideo(t) ==
  /\ state[t] = "composed"
  /\ state' = [state EXCEPT ![t] = "video"]
  /\ main' = Append(main, Show(t))
  /\ hud' = FALSE
  /\ lost' = lost \intersect Unshown
  /\ camera' = FALSE
  /\ UNCHANGED <<modal, picker, handed, hasty, diverted>>

(* A film without a path, which the picker provides for: the block returns *)
(* after it has asked for the display.                                     *)
TakeNothing(t) ==
  /\ state[t] = "composed"
  /\ state' = [state EXCEPT ![t] = "over"]
  /\ main' = Append(main, Show(t))
  /\ hud' = FALSE
  /\ lost' = (lost \intersect Unshown) \union {t}
  /\ camera' = FALSE
  /\ UNCHANGED <<modal, picker, handed, hasty, diverted>>

-----------------------------------------------------------------------------
(* Saving.                                                                 *)

(* A slip: the block on the main queue does not hold the picker.           *)
HandOverWeakly(t) ==
  /\ state' = [state EXCEPT ![t] = "over"]
  /\ handed' = IF Alive THEN Append(handed, t) ELSE handed
  /\ main' = Append(main, [do |-> "finish", take |-> t, held |-> FALSE])
  /\ UNCHANGED <<modal, picker, camera, hud, lost, hasty, diverted>>

(* The end of a save: the picture goes to the host, if the picker is still *)
(* there, and the rest to the main queue.                                  *)
HandOver(t) ==
  /\ state' = [state EXCEPT ![t] = "over"]
  /\ handed' = IF Alive THEN Append(handed, t) ELSE handed
  /\ main' = Append(main, [do |-> "finish", take |-> t, held |-> Alive])
  /\ UNCHANGED <<modal, picker, camera, hud, lost, hasty, diverted>>

(* A slip: the library may call back again.                                *)
PhotoSavedAgain(t) ==
  /\ Len(handed) < 3
  /\ HandOver(t)

(* The library has saved the photo, or has not: the success is not looked  *)
(* at, and a picture without an asset is handed over.                      *)
PhotoSaved(t) ==
  /\ state[t] = "photo"
  /\ HandOver(t)

VideoSaved(t) ==
  /\ state[t] = "video"
  /\ HandOver(t)

(* The completion returns, or is never called: nothing takes the display   *)
(* away.                                                                   *)
VideoNotSaved(t) ==
  /\ state[t] = "video"
  /\ state' = [state EXCEPT ![t] = "over"]
  /\ lost' = lost \union {t}
  /\ UNCHANGED <<modal, picker, camera, main, hud, handed, hasty, diverted>>

-----------------------------------------------------------------------------
(* The main queue.                                                         *)

ShowBlock ==
  /\ main # << >> /\ Head(main).do = "show"
  /\ main' = Tail(main)
  /\ hud' = TRUE
  /\ UNCHANGED <<modal, picker, camera, state, handed, lost, hasty, diverted>>

(* A slip: the picker is closed but the display stays.                     *)
FinishBlockShowing ==
  /\ main # << >> /\ Head(main).do = "finish"
  /\ main' = Tail(main)
  /\ IF Head(main).held THEN Close ELSE UNCHANGED <<picker, camera, diverted>>
  /\ UNCHANGED <<modal, state, hud, handed, lost, hasty>>

(* The display is taken away, whosever it is, and the picker closes.       *)
FinishBlock ==
  /\ main # << >> /\ Head(main).do = "finish"
  /\ main' = Tail(main)
  /\ hud' = FALSE
  /\ lost' = lost \intersect Unshown
  /\ IF Head(main).held THEN Close ELSE UNCHANGED <<picker, camera, diverted>>
  /\ UNCHANGED <<modal, state, handed, hasty>>

-----------------------------------------------------------------------------
Next ==
  \/ TapCamera \/ LeaveCamera \/ TapNextStep \/ TapClose \/ Deallocate
  \/ \E t \in Take :
       \/ TakePhoto(t) \/ TakeVideo(t) \/ TakeNothing(t)
       \/ FinishFilm(t) \/ FilmProgress(t) \/ FilmComposed(t) \/ FilmDropped(t)
       \/ PhotoSaved(t) \/ VideoSaved(t) \/ VideoNotSaved(t)
  \/ ShowBlock \/ FinishBlock

Spec == Init /\ [][Next]_vars

(* The main queue runs its blocks, and the library ends every save.        *)
Fairness ==
  /\ WF_vars(ShowBlock \/ FinishBlock)
  /\ \A t \in Take :
       /\ WF_vars(PhotoSaved(t))
       /\ WF_vars(VideoSaved(t) \/ VideoNotSaved(t))

FairSpec == Spec /\ Fairness

-----------------------------------------------------------------------------
(* Properties.                                                             *)

HandedTakes == {t \in Take : \E i \in DOMAIN handed : handed[i] = t}

(* Type correctness; and no take is handed over twice, or before its save  *)
(* is over.                                                                *)
TypeOK ==
  /\ modal \in BOOLEAN /\ camera \in BOOLEAN /\ hud \in BOOLEAN
  /\ hasty \in BOOLEAN /\ diverted \in BOOLEAN
  /\ picker \in {"open", "closing", "gone"}
  /\ state \in [Take -> States]
  /\ main \in Seq(Block)
  /\ handed \in Seq(Take \union {"selection"})
  /\ lost \subseteq Take
  /\ \A t \in HandedTakes :
       /\ state[t] = "over"
       /\ Cardinality({i \in DOMAIN handed : handed[i] = t}) = 1

(* The progress display stays on screen for ever only over a film that was *)
(* lost without a word: when nothing is under way any more and it is       *)
(* shown, then since it was last taken away a film had no path or could    *)
(* not be saved.                                                           *)
DisplayExplained == hud /\ UnderWay = {} => lost # {}

(* The host gets a second result only from a user who went on using the    *)
(* picker while a take was under way; a patient one delivers once.         *)
OneResult == Len(handed) > 1 => hasty

(* Once a take is handed over the picker closes, unless the camera had     *)
(* been opened again and was what the close took away.                     *)
CloseFollows ==
  \A t \in Take : t \in HandedTakes ~> picker # "open" \/ diverted
=============================================================================
