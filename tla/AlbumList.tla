------------------------------ MODULE AlbumList ------------------------------
(***************************************************************************)
(* How a picture picker gets its albums, and the panel that lists them     *)
(* (DRPICPictureManager, DRPICPicturePickerAlbumViewController).           *)
(*                                                                         *)
(* The manager is a singleton with one operation queue for all pickers.    *)
(* For each picker it adds an operation that fills an array, collection by *)
(* collection, and one that hands the SAME array to the main queue.  No    *)
(* dependency orders the two: only the queue's width of one does.  A       *)
(* picker may be closed while its operations wait, and the next one is     *)
(* queued behind them.                                                     *)
(*                                                                         *)
(* While the panel is animated it takes no touches (UIView animations      *)
(* disable it), so that touches reach the pictures below it.  One picker   *)
(* is on screen at a time.                                                 *)
(***************************************************************************)
EXTENDS Naturals, SequencesExt

CONSTANTS
  Picker,      \* the pickers opened, one after the other
  Collection,  \* what the photo library lists
  Libraries,   \* what it may list when it is asked: sequences of collections
  CameraRolls, \* the collections isCameraRollAlbum: says YES to
  Empty,       \* collections without pictures of the wanted kind
  NotListed    \* folders, the hidden and the recently deleted album

ASSUME LibraryAssumption ==
  /\ \A lib \in Libraries : lib \in Seq(Collection) /\ IsInjective(lib)
  /\ \A c, d \in CameraRolls : c = d
  /\ CameraRolls \cap NotListed = {}

VARIABLES
  operations, \* the operation queue, without the running operation
  running,    \* the operations that run
  library,    \* library[k]: what the enumeration for k goes through
  seen,       \* seen[k]: how many of library[k] it has looked at
  albums,     \* albums[k]: the array it fills
  main,       \* pickers whose completion waits on the main queue
  screen,     \* screen[k]: where picker k is
  current,    \* currentAlbum of the picker on screen
  expand,     \* the panel is expanded, or on the way to it
  tall,       \* its view has the expanded height
  settling    \* its animations whose completion has not run

vars == <<operations, running, library, seen, albums, main, screen, current,
          expand, tall, settling>>

queue == <<operations, running>>
lists == <<library, seen, albums>>
panel == <<current, expand, tall, settling>>

Enumerate(k) == [kind |-> "enumerate", picker |-> k]
Finish(k) == [kind |-> "finish", picker |-> k]
Operation == {Enumerate(k) : k \in Picker} \cup {Finish(k) : k \in Picker}

Screens == {"unopened", "loading", "shown", "gone"}

NoAlbum == {}

FirstObject(s) == IF s = << >> THEN NoAlbum ELSE {s[1]}

Init ==
  /\ operations = << >> /\ running = {}
  /\ library = [k \in Picker |-> << >>]
  /\ seen = [k \in Picker |-> 0]
  /\ albums = [k \in Picker |-> << >>]
  /\ main = << >>
  /\ screen = [k \in Picker |-> "unopened"]
  /\ current = NoAlbum
  /\ expand = FALSE /\ tall = FALSE /\ settling = 0

OnScreen(k) == screen[k] \in {"loading", "shown"}
-----------------------------------------------------------------------------
(* viewDidLoad asks for the albums: both operations are added.             *)
Open(k) ==
  /\ screen[k] = "unopened"
  /\ \A j \in Picker : ~ OnScreen(j)
  /\ screen' = [screen EXCEPT ![k] = "loading"]
  /\ operations' = operations \o <<Enumerate(k), Finish(k)>>
  /\ UNCHANGED <<running, lists, main, panel>>

(* The first operation that waits starts.                                  *)
Begin ==
  /\ operations # << >>
  /\ operations' = Tail(operations)
  /\ running' = running \cup {Head(operations)}
  /\ \E lib \in Libraries :
       library' = [k \in Picker |->
                     IF Head(operations) = Enumerate(k) THEN lib ELSE library[k]]
  /\ UNCHANGED <<seen, albums, main, screen, panel>>

(* A mutant: an operation queue without a width.                           *)
StartAny == Begin

(* maxConcurrentOperationCount is 1.                                       *)
Start == running = {} /\ Begin

Listed(c) ==
  /\ c \notin NotListed
  /\ c \notin Empty \/ c \in CameraRolls

(* The enumeration looks at its next collection: the camera roll goes in   *)
(* front of what is there, other albums behind.                            *)
LookAt(k) ==
  LET c == library[k][seen[k] + 1]
  IN  /\ Enumerate(k) \in running
      /\ seen[k] < Len(library[k])
      /\ seen' = [seen EXCEPT ![k] = @ + 1]
      /\ albums' = [albums EXCEPT ![k] =
                      IF ~ Listed(c) THEN @
                      ELSE IF c \in CameraRolls THEN <<c>> \o @
                      ELSE Append(@, c)]
      /\ UNCHANGED <<queue, library, main, screen, panel>>

EnumerateDone(k) ==
  /\ Enumerate(k) \in running
  /\ seen[k] = Len(library[k])
  /\ running' = running \ {Enumerate(k)}
  /\ UNCHANGED <<operations, lists, main, screen, panel>>

FinishDone(k) ==
  /\ Finish(k) \in running
  /\ running' = running \ {Finish(k)}
  /\ main' = Append(main, k)
  /\ UNCHANGED <<operations, lists, screen, panel>>

(* A mutant: the main queue waits for a picker that is gone.               *)
CompleteOnScreen ==
  /\ main # << >>
  /\ OnScreen(Head(main))
  /\ main' = Tail(main)
  /\ screen' = [screen EXCEPT ![Head(main)] = "shown"]
  /\ current' = FirstObject(albums[Head(main)])
  /\ UNCHANGED <<queue, lists, expand, tall, settling>>

(* The completion on the main queue: createAlbumComplete's block, and      *)
(* creatPrepare.  Both hold the picker weakly.                             *)
Complete ==
  /\ main # << >>
  /\ main' = Tail(main)
  /\ LET k == Head(main)
     IN  IF OnScreen(k)
         THEN /\ screen' = [screen EXCEPT ![k] = "shown"]
              /\ current' = FirstObject(albums[k])
         ELSE UNCHANGED <<screen, current>>
  /\ UNCHANGED <<queue, lists, expand, tall, settling>>

(* The picker is dismissed, and its panel with it.                         *)
Close(k) ==
  /\ OnScreen(k)
  /\ screen' = [screen EXCEPT ![k] = "gone"]
  /\ current' = NoAlbum
  /\ expand' = FALSE /\ tall' = FALSE /\ settling' = 0
  /\ UNCHANGED <<queue, lists, main>>
-----------------------------------------------------------------------------
PanelUsable == settling = 0 /\ \E k \in Picker : screen[k] = "shown"

(* The view grows before the animation, and shrinks after it.              *)
ProcessViewExpand(e) ==
  /\ expand # e
  /\ expand' = e
  /\ tall' = (tall \/ e)
  /\ settling' = settling + 1

(* A tap on the header or beside the list.                                 *)
TapHeader ==
  /\ PanelUsable
  /\ ProcessViewExpand(~ expand)
  /\ UNCHANGED <<queue, lists, main, screen, current>>

(* A tap on a row: the panel toggles, and the row's album is current.      *)
TapRow(k, i) ==
  /\ PanelUsable /\ expand
  /\ screen[k] = "shown"
  /\ ProcessViewExpand(~ expand)
  /\ current' = {albums[k][i]}
  /\ UNCHANGED <<queue, lists, main, screen>>

(* The pictures are dragged, below a panel that is stowed or in motion.    *)
(* An expanded panel at rest covers them.                                  *)
DragPictures ==
  /\ settling > 0
  /\ ProcessViewExpand(FALSE)
  /\ UNCHANGED <<queue, lists, main, screen, current>>

(* A mutant: the completion of every animation shrinks the view.           *)
SettleStowed ==
  /\ settling > 0
  /\ settling' = settling - 1
  /\ tall' = FALSE
  /\ UNCHANGED <<queue, lists, main, screen, current, expand>>

(* The completion of an animation looks at expand as it is now.            *)
Settle ==
  /\ settling > 0
  /\ settling' = settling - 1
  /\ tall' = (tall /\ expand)
  /\ UNCHANGED <<queue, lists, main, screen, current, expand>>

Next ==
  \/ \E k \in Picker : Open(k) \/ Close(k)
  \/ Start
  \/ \E k \in Picker : LookAt(k) \/ EnumerateDone(k) \/ FinishDone(k)
  \/ Complete
  \/ TapHeader \/ DragPictures \/ Settle
  \/ \E k \in Picker : \E i \in DOMAIN albums[k] : TapRow(k, i)

Spec == Init /\ [][Next]_vars

(* The operation queue, the enumeration and the main run loop keep going.  *)
Fairness ==
  /\ WF_vars(Start) /\ WF_vars(Complete)
  /\ \A k \in Picker : WF_vars(LookAt(k) \/ EnumerateDone(k) \/ FinishDone(k))

FairSpec == Spec /\ Fairness
-----------------------------------------------------------------------------
(* Every variable keeps to its set; one operation runs at a time.          *)
TypeOK ==
  /\ operations \in Seq(Operation)
  /\ running \subseteq Operation
  /\ \A o, p \in running : o = p
  /\ library \in [Picker -> Libraries \cup {<< >>}]
  /\ seen \in [Picker -> Nat]
  /\ albums \in [Picker -> Seq(Collection)]
  /\ main \in Seq(Picker)
  /\ screen \in [Picker -> Screens]
  /\ current \subseteq Collection
  /\ expand \in BOOLEAN /\ tall \in BOOLEAN
  /\ settling \in Nat

(* A picker that shows its albums has the whole list, although the array   *)
(* it was given is the one the enumeration fills and nothing but the width *)
(* of the queue, which other pickers use too, keeps the second operation   *)
(* behind the first (obtainAlbumWithAllowPickingVideo:): every collection  *)
(* that is to be listed, once, the camera roll in front.                   *)
Whole(k) ==
  /\ ToSet(albums[k]) = {c \in ToSet(library[k]) : Listed(c)}
  /\ IsInjective(albums[k])
  /\ \A c \in ToSet(albums[k]) \cap CameraRolls : albums[k][1] = c

ListWhole == \A k \in Picker : screen[k] = "shown" => Whole(k)

(* Once its animations are over the panel has the height that goes with    *)
(* its state, also when the pictures were dragged while it was expanding   *)
(* and two completions were due (processViewExpand:).                      *)
PanelSettled == settling = 0 => (tall <=> expand)

(* A picker that waits for its albums gets them, or is closed, whatever    *)
(* the pickers before it have left in the queue.                           *)
LoadingEnds == \A k \in Picker : screen[k] = "loading" ~> screen[k] # "loading"
=============================================================================
