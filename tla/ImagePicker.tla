----------------------------- MODULE ImagePicker -----------------------------
(***************************************************************************)
(* The older picker (DRPICImagePickerController), its singleton            *)
(* (DRPICImageManager) and the models that fetch the confirmed photos      *)
(* (DRPICPhotoModel).                                                      *)
(*                                                                         *)
(* The selection is kept twice: as the rows selected in every album, which *)
(* belong to the controller, and as a number in the singleton, which       *)
(* outlives it.  Confirming fetches every selected photo on a background   *)
(* queue and hands the photos over when as many have arrived as were       *)
(* selected; the user may go on selecting, confirm again or cancel         *)
(* meanwhile.  Nothing but the block on the background queue keeps the     *)
(* model of a photo alive, and its answer is passed on by a second block,  *)
(* on the main queue, which holds the model weakly.                        *)
(*                                                                         *)
(* A photo is an album and a row of it.  An asset in two albums is two     *)
(* photos here, as it is to the code.                                      *)
(***************************************************************************)
EXTENDS Integers, FiniteSets

CONSTANTS
  NumAlbums,         \* the albums that have photos, in the order of fetching
  Row,               \* the rows of every album
  RequestedMax,      \* the controller's _maxCount
  IsMultiSelection,  \* the controller's isMultiSelection
  MaxBatches         \* bound: confirmations whose photos are being fetched

ASSUME PickerAssumption ==
  /\ NumAlbums \in Nat
  /\ IsFiniteSet(Row)
  /\ RequestedMax \in Int
  /\ IsMultiSelection \in BOOLEAN
  /\ MaxBatches \in Nat

VARIABLES
  controller,     \* "none", "open", "closing" (dismissed, still alive) or "crashed"
  found,          \* number of albums in assetCollectionList
  listing,        \* the block that shows the first album has not run yet
  albumModel,     \* the album shown, 0 for nil
  selectRows,     \* the selected rows of every album
  manager,        \* the singleton's maxCount and selectedCount
  confirmEnabled, \* confirmButton.enabled
  cells,          \* how the cells of the album shown look
  batches,        \* the confirmations
  delivered       \* what the controller's finish handler was called with

vars == <<controller, found, listing, albumModel, selectRows, manager,
          confirmEnabled, cells, batches, delivered>>

Album == 1 .. NumAlbums
Photo == Album \X Row

Controllers == {"none", "open", "closing", "crashed"}
Looks == {"plain", "selected", "blocked"}

(* A model is being fetched, or has answered and is still held by the      *)
(* background block; then it is on the list, or gone before it could be.   *)
Stages == {"fetching", "answered", "added", "lost"}

Pending == {"fetching", "answered"}

(* count is the number read when confirmAction began, alive is whether the *)
(* weak reference to the controller still holds.                           *)
Batch == [asked : SUBSET Photo, stage : [Photo -> Stages], count : Int, alive : BOOLEAN]

NoBatch == [asked |-> {}, stage |-> [p \in Photo |-> "lost"], count |-> 0, alive |-> FALSE]

(* The getter maxCount: zero and ten or more mean nine.                    *)
MaxCount == IF RequestedMax # 0 /\ RequestedMax < 10 THEN RequestedMax ELSE 9

Chosen(rows) == {p \in Photo : p[2] \in rows[p[1]]}

Full(m) == m.maxCount = m.selectedCount

(* setIsSelected: of a cell, at the time it is called.                     *)
Look(rows, m, a, r) ==
  IF a # 0 /\ r \in rows[a] THEN "selected" ELSE IF Full(m) THEN "blocked" ELSE "plain"

Reloaded(rows, m, a) == [r \in Row |-> Look(rows, m, a, r)]

ListOf(b) == {p \in b.asked : b.stage[p] = "added"}

Settled(b) == \A p \in b.asked : b.stage[p] \notin Pending

-----------------------------------------------------------------------------
Init ==
  /\ controller = "none"
  /\ found = 0
  /\ listing = FALSE
  /\ albumModel = 0
  /\ selectRows = [a \in Album |-> {}]
  /\ confirmEnabled = FALSE
  /\ cells = [r \in Row |-> "plain"]
  /\ delivered = {}
  /\ manager = [maxCount |-> 0, selectedCount |-> 0]
  /\ batches = [i \in 1 .. MaxBatches |-> NoBatch]

(* viewDidLoad: the singleton starts anew.                                 *)
Open ==
  /\ controller = "none"
  /\ controller' = "open"
  /\ listing' = TRUE
  /\ manager' = [maxCount |-> IF IsMultiSelection THEN MaxCount ELSE 1,
                 selectedCount |-> 0]
  /\ UNCHANGED <<found, albumModel, selectRows, confirmEnabled, cells, batches, delivered>>

(* The background block of fetchAllAlbumsData.                             *)
AlbumFound ==
  /\ controller # "crashed"
  /\ listing
  /\ found < NumAlbums
  /\ found' = found + 1
  /\ UNCHANGED <<controller, listing, albumModel, selectRows, manager,
                 confirmEnabled, cells, batches, delivered>>

ShowAlbum(a) ==
  /\ albumModel' = a
  /\ cells' = Reloaded(selectRows, manager, a)
  /\ UNCHANGED <<controller, found, selectRows, manager, confirmEnabled,
                 batches, delivered>>

(* Its block on the main queue; the album is chosen without regard to one  *)
(* the user has chosen in the panel meanwhile.                             *)
AlbumsListed ==
  /\ controller # "crashed"
  /\ listing
  /\ found = NumAlbums
  /\ listing' = FALSE
  /\ ShowAlbum(IF found = 0 THEN 0 ELSE 1)

(* A slip: the panel lists albums that are not there yet.                  *)
ChooseAlbumUnfound ==
  /\ controller = "open"
  /\ \E a \in Album : ShowAlbum(a)
  /\ UNCHANGED listing

(* A row of the panel, which shows the albums found so far.                *)
ChooseAlbum ==
  /\ controller = "open"
  /\ \E a \in 1 .. found : ShowAlbum(a)
  /\ UNCHANGED listing

-----------------------------------------------------------------------------
(* A slip: the rows of the other albums are forgotten.                     *)
ToggledForgetting(r) ==
  LET rows == selectRows[albumModel]
  IN  [a \in Album |-> IF a = albumModel
                       THEN IF r \in rows THEN rows \ {r} ELSE rows \cup {r}
                       ELSE {}]

(* The rows after a tap on row r of the album shown.                       *)
Toggled(r) ==
  LET rows == selectRows[albumModel]
  IN  [selectRows EXCEPT ![albumModel] = IF r \in rows THEN rows \ {r} ELSE rows \cup {r}]

(* A slip: all cells are brought up to date only when the limit is reached.*)
ReloadWhenFullOnly(r) ==
  r \notin selectRows[albumModel] /\ manager'.selectedCount = MaxCount

(* Whether a tap on row r reloads all cells; the controller compares with  *)
(* its own limit, not the singleton's.                                     *)
ReloadAll(r) ==
  manager'.selectedCount =
    IF r \in selectRows[albumModel] THEN MaxCount - 1 ELSE MaxCount

(* The block of a cell.  A tap on another row of a full selection returns  *)
(* early.  selectCountBlock enables the confirm button, never disables it. *)
Tap(r) ==
  /\ controller = "open"
  /\ albumModel # 0
  /\ r \in selectRows[albumModel] \/ ~ Full(manager)
  /\ selectRows' = Toggled(r)
  /\ manager' = [manager EXCEPT !.selectedCount =
                   IF r \in selectRows[albumModel] THEN @ - 1 ELSE @ + 1]
  /\ confirmEnabled' = (confirmEnabled \/ manager'.selectedCount # 0)
  /\ cells' = IF ReloadAll(r)
              THEN Reloaded(selectRows', manager', albumModel)
              ELSE [cells EXCEPT ![r] = Look(selectRows', manager', albumModel, r)]
  /\ UNCHANGED <<controller, found, listing, albumModel, batches, delivered>>

(* A slip: only the album shown is asked for its rows.                     *)
AskedOfAlbumShown == {p \in Chosen(selectRows) : p[1] = albumModel}

(* What a confirmation asks for: the rows selected in every album found.   *)
Asked == {p \in Chosen(selectRows) : p[1] <= found}

(* confirmAction: the photos of all albums are asked for.                  *)
Confirm ==
  /\ controller = "open"
  /\ confirmEnabled
  /\ manager.selectedCount > 0
  /\ confirmEnabled' = FALSE
  /\ \E i \in DOMAIN batches :
       /\ Settled(batches[i])
       /\ batches' = [batches EXCEPT ![i] =
            [asked |-> Asked,
             stage |-> [p \in Photo |-> "fetching"],
             count |-> manager.selectedCount,
             alive |-> TRUE]]
  /\ UNCHANGED <<controller, found, listing, albumModel, selectRows, manager,
                 cells, delivered>>

-----------------------------------------------------------------------------
(* The result handler has run, the main-queue block is waiting.            *)
Fetched(i, p) ==
  /\ controller # "crashed"
  /\ batches[i].stage[p] = "fetching"
  /\ batches' = [batches EXCEPT ![i].stage[p] = "answered"]
  /\ UNCHANGED <<controller, found, listing, albumModel, selectRows, manager,
                 confirmEnabled, cells, delivered>>

(* The background block ends first; with it goes the only strong reference,*)
(* and the main-queue block will find nothing to call.                     *)
Lost(i, p) ==
  /\ controller # "crashed"
  /\ batches[i].stage[p] = "answered"
  /\ batches' = [batches EXCEPT ![i].stage[p] = "lost"]
  /\ UNCHANGED <<controller, found, listing, albumModel, selectRows, manager,
                 confirmEnabled, cells, delivered>>

(* A slip: one photo less than was asked for will do.                      *)
CompleteEarly(b) == Cardinality(ListOf(b)) >= b.count - 1

(* A slip: waits for more photos than were asked for.                      *)
CompleteNever(b) == Cardinality(ListOf(b)) > b.count

(* photoModelList.count == selectedCount                                   *)
Complete(b) == Cardinality(ListOf(b)) = b.count

(* The list is handed over, if the controller is still there, and the      *)
(* controller is dismissed.  The button belongs to the controller.         *)
HandOver(b) ==
  IF Complete(b) /\ b.alive
  THEN /\ confirmEnabled' = TRUE
       /\ delivered' = delivered \cup {[asked |-> b.asked, photos |-> ListOf(b)]}
       /\ controller' = "closing"
  ELSE UNCHANGED <<confirmEnabled, delivered, controller>>

(* The main-queue block runs.  The model may go between the test of its    *)
(* completion block and the call, which then calls nil.                    *)
Arrives(i, p) ==
  /\ controller # "crashed"
  /\ batches[i].stage[p] = "answered"
  /\ \/ /\ batches' = [batches EXCEPT ![i].stage[p] = "added"]
        /\ HandOver(batches'[i])
     \/ /\ controller' = "crashed"
        /\ UNCHANGED <<batches, confirmEnabled, delivered>>
  /\ UNCHANGED <<found, listing, albumModel, selectRows, manager, cells>>

-----------------------------------------------------------------------------
(* The back button.  What was confirmed goes on being fetched.             *)
Cancel ==
  /\ controller = "open"
  /\ controller' = "closing"
  /\ UNCHANGED <<found, listing, albumModel, selectRows, manager,
                 confirmEnabled, cells, batches, delivered>>

(* The dismissed controller is deallocated; the block that lists the       *)
(* albums holds it until it has run.                                       *)
Gone ==
  /\ controller = "closing"
  /\ ~ listing
  /\ controller' = "none"
  /\ found' = 0
  /\ albumModel' = 0
  /\ selectRows' = [a \in Album |-> {}]
  /\ confirmEnabled' = FALSE
  /\ cells' = [r \in Row |-> "plain"]
  /\ delivered' = {}
  /\ batches' = [i \in DOMAIN batches |-> [batches[i] EXCEPT !.alive = FALSE]]
  /\ UNCHANGED <<listing, manager>>

Next ==
  \/ Open \/ AlbumFound \/ AlbumsListed \/ ChooseAlbum
  \/ \E r \in Row : Tap(r)
  \/ Confirm \/ Cancel \/ Gone
  \/ \E i \in DOMAIN batches : \E p \in batches[i].asked :
       Fetched(i, p) \/ Arrives(i, p) \/ Lost(i, p)

(* The photo library answers every request, the queues run their blocks.   *)
Fairness ==
  \A i \in 1 .. MaxBatches, p \in Photo :
    /\ WF_vars(p \in batches[i].asked /\ Fetched(i, p))
    /\ WF_vars(p \in batches[i].asked /\ (Arrives(i, p) \/ Lost(i, p)))

Spec == Init /\ [][Next]_vars
FairSpec == Spec /\ Fairness

-----------------------------------------------------------------------------
(* Every variable keeps to its set.                                        *)
TypeOK ==
  /\ controller \in Controllers
  /\ found \in 0 .. NumAlbums
  /\ listing \in BOOLEAN
  /\ albumModel \in 0 .. found
  /\ selectRows \in [Album -> SUBSET Row]
  /\ manager \in [maxCount : Int, selectedCount : Int]
  /\ confirmEnabled \in BOOLEAN
  /\ cells \in [Row -> Looks]
  /\ batches \in [1 .. MaxBatches -> Batch]
  /\ delivered \in SUBSET [asked : SUBSET Photo, photos : SUBSET Photo]

(* The singleton's number is the number of rows selected in all albums,    *)
(* and keeps to the limit unless the client asked for a negative one       *)
(* (selectedCount++ and -- in the cells' block, over changes of album).    *)
CountIsRows ==
  controller \in {"open", "closing"} =>
    /\ manager.selectedCount = Cardinality(Chosen(selectRows))
    /\ manager.maxCount >= 0 => manager.selectedCount <= manager.maxCount

(* The client never gets a part of what the user confirmed: what is handed *)
(* over is all that was selected when the button was tapped, whatever was  *)
(* selected, cancelled or confirmed since (photoModelList.count ==         *)
(* selectedCount, with a number from the singleton and rows from albums).  *)
WholeDelivery == \A d \in delivered : d.photos = d.asked /\ d.photos # {}

(* As long as the controller and the singleton have the same limit, every  *)
(* cell looks as the selection says: also the cells not tapped, which are  *)
(* only brought up to date when the selection becomes or stops being full. *)
CellsFollowSelection ==
  (controller = "open" /\ manager.maxCount = MaxCount /\ albumModel # 0)
    => cells = Reloaded(selectRows, manager, albumModel)

(* A confirmation whose photos have not been handed over but still may be. *)
Outstanding(b) ==
  b.alive /\ ~ Settled(b) /\ \A p \in b.asked : b.stage[p] # "lost"

(* The picker keeps its promise: each confirmation is for exactly what is  *)
(* selected when it is made, whatever is selected, cancelled or confirmed  *)
(* while its photos are fetched, and is answered once, by all of them, or  *)
(* never; nothing of one picker reaches the next.                          *)
Promise == INSTANCE ConfirmedChoice WITH
  Limit <- IF IsMultiSelection THEN MaxCount ELSE 1,
  Request <- 1 .. MaxBatches,
  open <- controller = "open",
  chosen <- Chosen(selectRows),
  promised <- [i \in 1 .. MaxBatches |->
                 IF Outstanding(batches[i]) THEN batches[i].asked ELSE {}],
  given <- {d.photos : d \in delivered}

KeepsChoice == Promise!Spec

SomeLost == \E i \in DOMAIN batches : \E p \in batches[i].asked :
              batches[i].stage[p] = "lost"

(* A confirm button that was disabled with photos selected comes back,     *)
(* unless a model was lost or the controller has gone.                     *)
ButtonComesBack ==
  (controller = "open" /\ manager.selectedCount > 0 /\ ~ confirmEnabled)
    ~> (confirmEnabled \/ controller # "open" \/ SomeLost)
=============================================================================
