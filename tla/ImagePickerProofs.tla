-------------------------- MODULE ImagePickerProofs --------------------------
(***************************************************************************)
(* For any albums, rows, limit and bounds: the singleton's number agrees   *)
(* with the rows of the albums, the cells agree with the selection, and    *)
(* the client only ever gets whole confirmations: the picker implements    *)
(* ConfirmedChoice.                                                        *)
(***************************************************************************)
EXTENDS ImagePicker, FiniteSetTheorems, TLAPS

(* Without a controller nothing is selected, listed or shown.              *)
Fresh ==
  controller = "none" => /\ ~ listing /\ found = 0 /\ albumModel = 0
                         /\ selectRows = [a \in Album |-> {}]

(* Only rows of albums that were found can be selected.                    *)
RowsFound == \A a \in Album : selectRows[a] # {} => a <= found

(* A confirmation waits for as many photos as it asked for.                *)
CountsAsked == \A i \in 1 .. MaxBatches : batches[i].count = Cardinality(batches[i].asked)

(* A confirmation that would hand over has its controller.                 *)
AliveHasController ==
  \A i \in 1 .. MaxBatches : batches[i].alive => controller # "none"

(* The limit of a controller that lives, and nothing given without one.    *)
Session ==
  /\ controller \in {"open", "closing"} =>
       manager.maxCount = IF IsMultiSelection THEN MaxCount ELSE 1
  /\ controller = "none" => delivered = {}

(* A confirm button that is disabled with photos selected waits for a      *)
(* confirmation of this very controller, of which a photo is still missing *)
(* (confirmAction: disables it, and enables it with the last photo).       *)
ButtonOwed ==
  (controller = "open" /\ manager.selectedCount > 0 /\ ~ confirmEnabled) =>
    \E i \in 1 .. MaxBatches :
      /\ batches[i].alive
      /\ \E p \in batches[i].asked : batches[i].stage[p] # "added"

IInv ==
  /\ TypeOK
  /\ CountIsRows
  /\ WholeDelivery
  /\ CellsFollowSelection
  /\ Fresh
  /\ RowsFound
  /\ CountsAsked
  /\ AliveHasController

-----------------------------------------------------------------------------
(* There are finitely many photos.                                         *)
LEMMA PhotosFinite == IsFiniteSet(Photo)
<1>1. IsFiniteSet(Album)
  BY PickerAssumption, FS_Interval DEF Album
<1> QED BY <1>1, PickerAssumption, FS_Product DEF Photo

(* A set of photos can be counted, and a part of it as large is the whole. *)
LEMMA PhotoSets ==
  ASSUME NEW S \in SUBSET Photo
  PROVE  /\ IsFiniteSet(S)
         /\ Cardinality(S) \in Nat
         /\ \A T \in SUBSET S : Cardinality(T) = Cardinality(S) => T = S
<1>1. IsFiniteSet(S)
  BY PhotosFinite, FS_Subset
<1> QED BY <1>1, FS_CardinalityType, FS_Subset

(* A tap changes the selected photos by the one that was tapped.           *)
LEMMA ToggledChosen ==
  ASSUME selectRows \in [Album -> SUBSET Row], albumModel \in Album, NEW r \in Row
  PROVE  /\ Toggled(r) \in [Album -> SUBSET Row]
         /\ <<albumModel, r>> \in Photo
         /\ r \in selectRows[albumModel] =>
              /\ <<albumModel, r>> \in Chosen(selectRows)
              /\ Chosen(Toggled(r)) = Chosen(selectRows) \ {<<albumModel, r>>}
         /\ r \notin selectRows[albumModel] =>
              /\ <<albumModel, r>> \notin Chosen(selectRows)
              /\ Chosen(Toggled(r)) = Chosen(selectRows) \cup {<<albumModel, r>>}
         /\ Cardinality(Chosen(selectRows)) \in Nat
         /\ r \in selectRows[albumModel] =>
              Cardinality(Chosen(Toggled(r))) = Cardinality(Chosen(selectRows)) - 1
         /\ r \notin selectRows[albumModel] =>
              Cardinality(Chosen(Toggled(r))) = Cardinality(Chosen(selectRows)) + 1
<1> DEFINE x == <<albumModel, r>>
<1>1. Toggled(r) \in [Album -> SUBSET Row]
  BY DEF Toggled
<1>2. x \in Photo
  BY DEF Photo
<1>3. Chosen(selectRows) \in SUBSET Photo
  BY DEF Chosen
<1>4. IsFiniteSet(Chosen(selectRows)) /\ Cardinality(Chosen(selectRows)) \in Nat
  BY <1>3, PhotoSets
<1>5. x \in Chosen(selectRows) <=> r \in selectRows[albumModel]
  BY <1>2 DEF Chosen
<1>6. \A p \in Photo : p[1] \in Album /\ p[2] \in Row /\ p = <<p[1], p[2]>>
  BY DEF Photo
<1>7. ASSUME r \in selectRows[albumModel]
      PROVE  Chosen(Toggled(r)) = Chosen(selectRows) \ {x}
  <2>1. \A p \in Photo : p \in Chosen(Toggled(r)) <=> p \in Chosen(selectRows) /\ p # x
    BY <1>6, <1>7 DEF Chosen, Toggled
  <2> QED BY <2>1 DEF Chosen
<1>8. ASSUME r \notin selectRows[albumModel]
      PROVE  Chosen(Toggled(r)) = Chosen(selectRows) \cup {x}
  <2>1. \A p \in Photo : p \in Chosen(Toggled(r)) <=> p \in Chosen(selectRows) \/ p = x
    BY <1>2, <1>6, <1>8 DEF Chosen, Toggled
  <2> QED BY <1>2, <2>1 DEF Chosen
<1>9. r \in selectRows[albumModel] =>
        Cardinality(Chosen(Toggled(r))) = Cardinality(Chosen(selectRows)) - 1
  BY <1>4, <1>5, <1>7, FS_RemoveElement
<1>10. r \notin selectRows[albumModel] =>
         Cardinality(Chosen(Toggled(r))) = Cardinality(Chosen(selectRows)) + 1
  BY <1>4, <1>5, <1>8, FS_AddElement
<1> QED BY <1>1, <1>2, <1>4, <1>5, <1>7, <1>8, <1>9, <1>10

-----------------------------------------------------------------------------
LEMMA InitIInv == Init => IInv
<1> SUFFICES ASSUME Init PROVE IInv
  OBVIOUS
<1>1. TypeOK
  <2>1. NoBatch \in Batch
    BY DEF NoBatch, Batch, Stages
  <2>2. batches \in [1 .. MaxBatches -> Batch]
    BY <2>1 DEF Init
  <2>3. 0 \in 0 .. NumAlbums /\ 0 \in 0 .. 0
    BY PickerAssumption
  <2>4. /\ selectRows \in [Album -> SUBSET Row]
        /\ cells \in [Row -> Looks]
        /\ manager \in [maxCount : Int, selectedCount : Int]
    BY DEF Init, Looks
  <2> QED BY <2>2, <2>3, <2>4 DEF Init, TypeOK, Controllers
<1>2. CountsAsked
  BY FS_EmptySet DEF Init, CountsAsked, NoBatch
<1>3. AliveHasController
  BY DEF Init, AliveHasController, NoBatch
<1> QED
  BY <1>1, <1>2, <1>3
     DEF Init, IInv, CountIsRows, WholeDelivery, CellsFollowSelection, Fresh, RowsFound

(* A tap keeps the number, the limit and the cells.                        *)
LEMMA TapKeeps ==
  ASSUME IInv, NEW r \in Row, Tap(r)
  PROVE  IInv'
<1>0. /\ TypeOK /\ CountIsRows /\ CellsFollowSelection /\ RowsFound
      /\ controller = "open" /\ controller' = "open"
      /\ albumModel \in Album /\ albumModel' = albumModel
      /\ albumModel <= found /\ found' = found
      /\ selectRows' = Toggled(r)
      /\ r \in selectRows[albumModel] \/ ~ Full(manager)
  BY PickerAssumption DEF IInv, TypeOK, Tap, Album
<1>1. /\ Toggled(r) \in [Album -> SUBSET Row]
      /\ Cardinality(Chosen(selectRows)) \in Nat
      /\ r \in selectRows[albumModel] =>
           Cardinality(Chosen(Toggled(r))) = Cardinality(Chosen(selectRows)) - 1
      /\ r \notin selectRows[albumModel] =>
           Cardinality(Chosen(Toggled(r))) = Cardinality(Chosen(selectRows)) + 1
  <2>1. selectRows \in [Album -> SUBSET Row]
    BY <1>0 DEF TypeOK
  <2> QED BY <1>0, <2>1, ToggledChosen
<1>2. /\ manager.maxCount \in Int
      /\ manager.selectedCount = Cardinality(Chosen(selectRows))
      /\ manager.maxCount >= 0 => manager.selectedCount <= manager.maxCount
      /\ manager \in [maxCount : Int, selectedCount : Int]
  BY <1>0 DEF CountIsRows, TypeOK
<1>3. /\ manager' \in [maxCount : Int, selectedCount : Int]
      /\ manager'.maxCount = manager.maxCount
      /\ manager'.selectedCount = IF r \in selectRows[albumModel]
                                  THEN manager.selectedCount - 1
                                  ELSE manager.selectedCount + 1
  BY <1>1, <1>2 DEF Tap
<1>4. CountIsRows'
  BY <1>0, <1>1, <1>2, <1>3 DEF CountIsRows, Full
<1>5. Cardinality(Chosen(Toggled(r))) \in Nat
  <2>1. Chosen(Toggled(r)) \in SUBSET Photo
    BY DEF Chosen
  <2> QED BY <2>1, PhotoSets
<1>6. manager'.selectedCount \in Nat
  BY <1>0, <1>4, <1>5 DEF CountIsRows
<1>7. CellsFollowSelection'
  <2> SUFFICES ASSUME manager.maxCount = MaxCount
               PROVE  cells' = Reloaded(selectRows', manager', albumModel)
    BY <1>0, <1>3 DEF CellsFollowSelection
  <2>1. cells = Reloaded(selectRows, manager, albumModel)
    BY <1>0, PickerAssumption DEF CellsFollowSelection, Album
  <2>2. CASE ReloadAll(r)
    BY <2>2 DEF Tap
  <2>3. CASE ~ ReloadAll(r)
    <3>1. ~ Full(manager) /\ ~ Full(manager')
      BY <1>0, <1>1, <1>2, <1>3, <1>6, <2>3 DEF ReloadAll, Full
    <3>2. cells' = [cells EXCEPT ![r] = Look(selectRows', manager', albumModel, r)]
      BY <2>3 DEF Tap
    <3>3. \A q \in Row : q # r => (q \in selectRows'[albumModel] <=> q \in selectRows[albumModel])
      BY <1>0 DEF Toggled, TypeOK
    <3>4. \A q \in Row : q # r =>
            Look(selectRows', manager', albumModel, q) = Look(selectRows, manager, albumModel, q)
      BY <3>1, <3>3 DEF Look
    <3> QED BY <2>1, <3>2, <3>4 DEF Reloaded
  <2> QED BY <2>2, <2>3
<1>8. TypeOK'
  <2>1. cells' \in [Row -> Looks]
    BY <1>0 DEF Tap, TypeOK, Reloaded, Look, Looks
  <2> QED BY <1>0, <1>1, <1>3, <2>1 DEF Tap, TypeOK
<1>9. RowsFound'
  BY <1>0 DEF RowsFound, Toggled, TypeOK
<1>10. Fresh' /\ WholeDelivery' /\ CountsAsked' /\ AliveHasController'
  BY <1>0 DEF IInv, Tap, Fresh, WholeDelivery, CountsAsked, AliveHasController
<1> QED BY <1>4, <1>7, <1>8, <1>9, <1>10 DEF IInv

(* A confirmation asks for everything that is selected.                    *)
LEMMA AskedIsChosen ==
  ASSUME RowsFound
  PROVE  Asked = Chosen(selectRows) /\ Asked \in SUBSET Photo
<1>1. \A p \in Chosen(selectRows) : p \in Photo /\ p[1] \in Album /\ selectRows[p[1]] # {}
  BY DEF Chosen, Photo
<1> QED BY <1>1 DEF RowsFound, Asked

LEMMA ConfirmKeeps ==
  ASSUME IInv, Confirm
  PROVE  IInv'
<1>0. TypeOK /\ CountIsRows /\ RowsFound /\ CountsAsked /\ AliveHasController
  BY DEF IInv
<1> DEFINE new == [asked |-> Asked, stage |-> [p \in Photo |-> "fetching"],
                   count |-> manager.selectedCount, alive |-> TRUE]
<1>1. PICK i \in 1 .. MaxBatches : batches' = [batches EXCEPT ![i] = new]
  BY <1>0 DEF Confirm, TypeOK
<1>2. Asked = Chosen(selectRows) /\ Asked \in SUBSET Photo
  BY <1>0, AskedIsChosen
<1>3. new.count = Cardinality(new.asked)
  BY <1>0, <1>2 DEF Confirm, CountIsRows
<1>4. new \in Batch
  BY <1>0, <1>2 DEF TypeOK, Batch, Stages
<1> HIDE DEF new
<1>5. TypeOK'
  BY <1>0, <1>1, <1>4 DEF TypeOK, Confirm
<1>6. CountsAsked' /\ AliveHasController'
  BY <1>0, <1>1, <1>3 DEF CountsAsked, AliveHasController, TypeOK, Confirm
<1> QED
  BY <1>0, <1>5, <1>6
     DEF IInv, Confirm, CountIsRows, WholeDelivery, CellsFollowSelection, Fresh, RowsFound

(* The photos handed over are all that were asked for.                     *)
LEMMA FetchKeeps ==
  ASSUME IInv, NEW i \in 1 .. MaxBatches, NEW p \in batches[i].asked,
         Fetched(i, p) \/ Arrives(i, p) \/ Lost(i, p)
  PROVE  IInv'
<1>0. /\ TypeOK /\ CountIsRows /\ WholeDelivery /\ CountsAsked /\ AliveHasController
      /\ UNCHANGED <<found, listing, albumModel, selectRows, manager, cells>>
      /\ batches[i] \in Batch /\ p \in Photo
  BY DEF IInv, TypeOK, Batch, Fetched, Arrives, Lost
<1>1. PICK s \in Stages :
        batches' = [batches EXCEPT ![i].stage[p] = s] \/ batches' = batches
  BY DEF Fetched, Arrives, Lost, Stages
<1>2. /\ batches' \in [1 .. MaxBatches -> Batch]
      /\ \A j \in 1 .. MaxBatches : /\ batches'[j].asked = batches[j].asked
                                    /\ batches'[j].count = batches[j].count
                                    /\ batches'[j].alive = batches[j].alive
  <2>1. CASE batches' = batches
    BY <1>0, <2>1 DEF TypeOK
  <2>2. CASE batches' = [batches EXCEPT ![i].stage[p] = s]
    <3> DEFINE b == [batches[i] EXCEPT !.stage[p] = s]
    <3>1. /\ b \in Batch
          /\ b.asked = batches[i].asked
          /\ b.count = batches[i].count
          /\ b.alive = batches[i].alive
      BY <1>0 DEF Batch
    <3>2. batches' = [batches EXCEPT ![i] = b]
      BY <2>2
    <3> HIDE DEF b
    <3> QED BY <1>0, <3>1, <3>2 DEF TypeOK
  <2> QED BY <1>1, <2>1, <2>2
<1>3. CountsAsked'
  BY <1>0, <1>2 DEF CountsAsked
<1>4. CASE UNCHANGED <<controller, confirmEnabled, delivered>>
  BY <1>0, <1>2, <1>3, <1>4
     DEF IInv, TypeOK, CountIsRows, WholeDelivery, CellsFollowSelection, Fresh,
         RowsFound, AliveHasController
<1>5. CASE controller' = "crashed" /\ UNCHANGED <<confirmEnabled, delivered>>
  BY <1>0, <1>2, <1>3, <1>5
     DEF IInv, TypeOK, Controllers, CountIsRows, WholeDelivery, CellsFollowSelection,
         Fresh, RowsFound, AliveHasController
<1>6. CASE /\ Complete(batches'[i]) /\ batches'[i].alive
           /\ confirmEnabled' = TRUE
           /\ delivered' = delivered \cup
                {[asked |-> batches'[i].asked, photos |-> ListOf(batches'[i])]}
           /\ controller' = "closing"
           /\ batches'[i].stage[p] = "added"
  <2>1. controller \in {"open", "closing", "crashed"}
    BY <1>0, <1>2, <1>6 DEF AliveHasController, TypeOK, Controllers
  <2>2. controller # "crashed"
    BY DEF Fetched, Arrives, Lost
  <2>3. /\ batches'[i].asked \in SUBSET Photo
        /\ ListOf(batches'[i]) \in SUBSET batches'[i].asked
    BY <1>2 DEF Batch, ListOf
  <2>4. ListOf(batches'[i]) = batches'[i].asked
    <3>1. Cardinality(ListOf(batches'[i])) = Cardinality(batches'[i].asked)
      BY <1>3, <1>6 DEF Complete, CountsAsked
    <3> QED BY <2>3, <3>1, PhotoSets
  <2>5. batches'[i].asked # {}
    BY <1>2
  <2>6. WholeDelivery'
    BY <1>0, <1>6, <2>4, <2>5 DEF WholeDelivery
  <2>7. TypeOK'
    BY <1>0, <1>2, <1>6, <2>3 DEF TypeOK, Controllers
  <2> QED
    BY <1>0, <1>2, <1>3, <1>6, <2>1, <2>2, <2>6, <2>7
       DEF IInv, CountIsRows, CellsFollowSelection, Fresh, RowsFound, AliveHasController
<1>7. CASE Fetched(i, p) \/ Lost(i, p)
  BY <1>4, <1>7 DEF Fetched, Lost
<1>8. CASE Arrives(i, p)
  <2>1. CASE batches' = [batches EXCEPT ![i].stage[p] = "added"] /\ HandOver(batches'[i])
    <3>1. batches'[i].stage[p] = "added"
      BY <1>0, <2>1 DEF TypeOK, Batch
    <3> QED BY <1>4, <1>6, <2>1, <3>1 DEF HandOver
  <2> QED BY <1>5, <1>8, <2>1 DEF Arrives
<1> QED BY <1>7, <1>8

LEMMA NextIInv == IInv /\ [Next]_vars => IInv'
<1> SUFFICES ASSUME IInv, [Next]_vars PROVE IInv'
  OBVIOUS
<1> USE DEF IInv
<1>1. CASE Open
  <2>1. manager'.maxCount \in Int /\ manager'.selectedCount = 0
        /\ manager' \in [maxCount : Int, selectedCount : Int]
    BY <1>1, PickerAssumption DEF Open, MaxCount
  <2>2. /\ selectRows' = [a \in Album |-> {}] /\ albumModel' = 0
    BY <1>1 DEF Open, Fresh
  <2>3. Chosen(selectRows') = {}
    BY <2>2 DEF Chosen, Photo
  <2>4. CountIsRows'
    BY <2>1, <2>3, FS_EmptySet DEF CountIsRows
  <2>5. TypeOK'
    BY <1>1, <2>1 DEF Open, TypeOK, Controllers
  <2> QED
    BY <1>1, <2>2, <2>4, <2>5
       DEF Open, WholeDelivery, CellsFollowSelection, Fresh, RowsFound, CountsAsked,
           AliveHasController
<1>2. CASE AlbumFound
  BY <1>2, PickerAssumption
     DEF AlbumFound, TypeOK, CountIsRows, WholeDelivery, CellsFollowSelection, Fresh,
         RowsFound, CountsAsked, AliveHasController, Album
<1>3. CASE AlbumsListed \/ ChooseAlbum
  <2>1. PICK a \in 0 .. found : ShowAlbum(a)
    BY <1>3 DEF AlbumsListed, ChooseAlbum, TypeOK
  <2>2. controller # "none" /\ listing' \in BOOLEAN
    BY <1>3 DEF AlbumsListed, ChooseAlbum, Fresh, TypeOK
  <2>3. Reloaded(selectRows, manager, a) \in [Row -> Looks]
    BY DEF Reloaded, Look, Looks
  <2>4. TypeOK'
    BY <2>1, <2>2, <2>3 DEF ShowAlbum, TypeOK
  <2> QED
    BY <2>1, <2>2, <2>4
       DEF ShowAlbum, CountIsRows, WholeDelivery, CellsFollowSelection, Fresh,
           RowsFound, CountsAsked, AliveHasController
<1>4. CASE \E r \in Row : Tap(r)
  BY <1>4, TapKeeps
<1>5. CASE Confirm
  BY <1>5, ConfirmKeeps
<1>6. CASE Cancel
  BY <1>6
     DEF Cancel, TypeOK, Controllers, CountIsRows, WholeDelivery, CellsFollowSelection,
         Fresh, RowsFound, CountsAsked, AliveHasController
<1>7. CASE Gone
  <2>1. /\ batches' \in [1 .. MaxBatches -> Batch]
        /\ \A i \in 1 .. MaxBatches : /\ batches'[i].asked = batches[i].asked
                                      /\ batches'[i].count = batches[i].count
                                      /\ batches'[i].alive = FALSE
    BY <1>7 DEF Gone, TypeOK, Batch
  <2>2. TypeOK'
    <3>1. 0 \in 0 .. NumAlbums /\ 0 \in 0 .. 0
      BY PickerAssumption
    <3>2. selectRows' \in [Album -> SUBSET Row] /\ cells' \in [Row -> Looks]
      BY <1>7 DEF Gone, Looks
    <3> QED BY <1>7, <2>1, <3>1, <3>2 DEF Gone, TypeOK, Controllers
  <2> QED
    BY <1>7, <2>1, <2>2
       DEF Gone, CountIsRows, WholeDelivery, CellsFollowSelection, Fresh, RowsFound,
           CountsAsked, AliveHasController
<1>8. CASE \E i \in DOMAIN batches : \E p \in batches[i].asked :
             Fetched(i, p) \/ Arrives(i, p) \/ Lost(i, p)
  BY <1>8, FetchKeeps DEF TypeOK
<1>9. CASE UNCHANGED vars
  BY <1>9
     DEF vars, TypeOK, CountIsRows, WholeDelivery, CellsFollowSelection, Fresh,
         RowsFound, CountsAsked, AliveHasController
<1> QED
  BY <1>1, <1>2, <1>3, <1>4, <1>5, <1>6, <1>7, <1>8, <1>9 DEF Next

LEMMA Invariance == Spec => []IInv
BY InitIInv, NextIInv, PTL DEF Spec

-----------------------------------------------------------------------------
(* The session, and the button that is owed.                               *)

LEMMA SessionStep ==
  ASSUME IInv, Session, [Next]_vars
  PROVE  Session'
<1> USE DEF Session
<1>1. CASE Open
  BY <1>1 DEF Open
<1>2. CASE AlbumFound \/ AlbumsListed \/ ChooseAlbum \/ Cancel \/ UNCHANGED vars
  BY <1>2 DEF AlbumFound, AlbumsListed, ChooseAlbum, ShowAlbum, Cancel, vars
<1>3. ASSUME NEW r \in Row, Tap(r) PROVE Session'
  <2>1. manager'.maxCount = manager.maxCount
    BY <1>3 DEF Tap, IInv, TypeOK
  <2> QED BY <1>3, <2>1 DEF Tap
<1>4. CASE Confirm
  BY <1>4 DEF Confirm
<1>5. CASE Gone
  BY <1>5 DEF Gone
<1>6. ASSUME NEW i \in DOMAIN batches, NEW p \in batches[i].asked,
             Fetched(i, p) \/ Arrives(i, p) \/ Lost(i, p)
      PROVE  Session'
  <2>1. CASE UNCHANGED <<controller, manager, delivered>>
    BY <2>1
  <2>2. CASE controller' = "crashed"
    BY <2>2
  <2>3. CASE /\ controller' = "closing" /\ batches' = [batches EXCEPT ![i].stage[p] = "added"]
             /\ batches'[i].alive /\ controller # "crashed" /\ manager' = manager
    <3>1. batches[i].alive
      BY <2>3, <1>6 DEF IInv, TypeOK, Batch
    <3>2. controller \in {"open", "closing"}
      BY <2>3, <3>1, <1>6 DEF IInv, AliveHasController, TypeOK, Controllers
    <3> QED BY <2>3, <3>2
  <2> QED BY <1>6, <2>1, <2>2, <2>3 DEF Fetched, Arrives, Lost, HandOver
<1> QED BY <1>1, <1>2, <1>3, <1>4, <1>5, <1>6 DEF Next

LEMMA SessionKept == Spec => []Session
<1>1. Init => Session
  BY DEF Init, Session
<1>2. IInv /\ Session /\ [Next]_vars => Session'
  BY SessionStep
<1> QED BY <1>1, <1>2, Invariance, PTL DEF Spec

(* A photo of one confirmation changes its stage, and nothing else does.   *)
Staged(i, p, s) == batches' = [batches EXCEPT ![i].stage[p] = s]

LEMMA StageChanges ==
  ASSUME TypeOK, NEW i \in 1 .. MaxBatches, NEW p \in batches[i].asked, NEW s,
         Staged(i, p, s)
  PROVE  /\ p \in Photo
         /\ batches'[i].stage[p] = s
         /\ batches'[i].asked = batches[i].asked
         /\ batches'[i].alive = batches[i].alive
         /\ \A q \in Photo : q # p => batches'[i].stage[q] = batches[i].stage[q]
         /\ \A j \in 1 .. MaxBatches : j # i => batches'[j] = batches[j]
<1>1. batches[i] \in Batch /\ batches \in [1 .. MaxBatches -> Batch]
  BY DEF TypeOK
<1>2. p \in Photo /\ batches[i].stage \in [Photo -> Stages]
  BY <1>1 DEF Batch
<1> DEFINE b == [batches[i] EXCEPT !.stage[p] = s]
<1>3. /\ b.asked = batches[i].asked /\ b.alive = batches[i].alive
      /\ b.stage = [batches[i].stage EXCEPT ![p] = s]
  BY <1>1 DEF Batch
<1>4. batches' = [batches EXCEPT ![i] = b]
  BY DEF Staged
<1> HIDE DEF b
<1>5. batches'[i] = b /\ \A j \in 1 .. MaxBatches : j # i => batches'[j] = batches[j]
  BY <1>1, <1>4
<1> QED BY <1>2, <1>3, <1>5

(* When every photo of a living confirmation is there, it hands them over. *)
LEMMA AllAdded ==
  ASSUME IInv, NEW i \in 1 .. MaxBatches, NEW p \in batches[i].asked,
         Staged(i, p, "added")
  PROVE  /\ Complete(batches'[i]) <=>
              \A q \in batches[i].asked : batches'[i].stage[q] = "added"
         /\ Complete(batches'[i]) => ListOf(batches'[i]) = batches[i].asked
<1>1. /\ batches[i] \in Batch /\ batches[i].asked \in SUBSET Photo
      /\ batches[i].count = Cardinality(batches[i].asked)
  BY DEF IInv, TypeOK, CountsAsked, Batch
<1>2. batches'[i].asked = batches[i].asked
  BY StageChanges DEF IInv
<1>3. batches'[i].count = batches[i].count
  BY <1>1 DEF IInv, TypeOK, Batch, Staged
<1>4. ListOf(batches'[i]) \in SUBSET batches[i].asked
  BY <1>2 DEF ListOf
<1>5. ListOf(batches'[i]) = batches[i].asked <=> Complete(batches'[i])
  BY <1>1, <1>3, <1>4, PhotoSets DEF Complete
<1> QED BY <1>2, <1>4, <1>5 DEF ListOf

LEMMA ButtonStep ==
  ASSUME IInv, ButtonOwed, [Next]_vars
  PROVE  ButtonOwed'
<1> USE DEF ButtonOwed
<1>0. TypeOK /\ DOMAIN batches = 1 .. MaxBatches
  BY DEF IInv, TypeOK
<1>1. CASE Open
  BY <1>1 DEF Open
<1>2. CASE AlbumFound \/ AlbumsListed \/ ChooseAlbum \/ Cancel \/ Gone \/ UNCHANGED vars
  BY <1>2 DEF AlbumFound, AlbumsListed, ChooseAlbum, ShowAlbum, Cancel, Gone, vars
<1>3. ASSUME NEW r \in Row, Tap(r) PROVE ButtonOwed'
  <2>1. confirmEnabled' \/ manager'.selectedCount = 0
    BY <1>3 DEF Tap
  <2> QED BY <2>1
<1>4. CASE Confirm
  <2>1. PICK i \in 1 .. MaxBatches :
          batches' = [batches EXCEPT ![i] =
            [asked |-> Asked, stage |-> [p \in Photo |-> "fetching"],
             count |-> manager.selectedCount, alive |-> TRUE]]
    BY <1>0, <1>4 DEF Confirm
  <2>2. batches'[i].alive /\ batches'[i].asked = Asked
        /\ batches'[i].stage = [p \in Photo |-> "fetching"]
    BY <1>0, <2>1 DEF TypeOK
  <2>3. Asked \in SUBSET Photo /\ Asked # {}
    <3>1. manager.selectedCount = Cardinality(Chosen(selectRows)) /\ manager.selectedCount > 0
      BY <1>4 DEF IInv, CountIsRows, Confirm
    <3> QED BY <3>1, AskedIsChosen, FS_EmptySet DEF IInv
  <2> QED BY <2>2, <2>3
<1>5. ASSUME NEW i \in 1 .. MaxBatches, NEW p \in batches[i].asked,
             Fetched(i, p) \/ Arrives(i, p) \/ Lost(i, p)
      PROVE  ButtonOwed'
  <2>1. CASE controller' # "open"
    BY <2>1
  <2>2. CASE controller' = "open"
    <3>1. UNCHANGED <<controller, manager, confirmEnabled>>
      BY <1>5, <2>2 DEF Fetched, Arrives, Lost, HandOver
    <3>2. PICK s \in Stages :
            /\ Staged(i, p, s)
            /\ s = "added" => HandOver(batches'[i])
      BY <1>5, <2>2 DEF Fetched, Arrives, Lost, Staged, Stages
    <3>3. /\ batches'[i].stage[p] = s
          /\ batches'[i].asked = batches[i].asked
          /\ batches'[i].alive = batches[i].alive
          /\ \A q \in Photo : q # p => batches'[i].stage[q] = batches[i].stage[q]
          /\ \A j \in 1 .. MaxBatches : j # i => batches'[j] = batches[j]
      BY <1>0, <3>2, StageChanges
    <3>4. CASE s # "added"
      BY <1>0, <3>1, <3>3, <3>4 DEF TypeOK, Batch
    <3>5. CASE s = "added"
      <4>1. ~ (Complete(batches'[i]) /\ batches'[i].alive)
        BY <2>2, <3>2, <3>5 DEF HandOver
      <4>2. batches'[i].alive => \E q \in batches'[i].asked : batches'[i].stage[q] # "added"
        BY <3>2, <3>3, <3>5, <4>1, AllAdded
      <4> QED BY <3>1, <3>3, <4>2
    <3> QED BY <3>4, <3>5
  <2> QED BY <2>1, <2>2
<1> QED BY <1>0, <1>1, <1>2, <1>3, <1>4, <1>5 DEF Next

-----------------------------------------------------------------------------
(* The picker implements ConfirmedChoice.                                  *)

(* What is promised to a confirmation, and to all of them.                 *)
Promised(b) == IF Outstanding(b) THEN b.asked ELSE {}

AllPromised == [i \in 1 .. MaxBatches |-> Promised(batches[i])]

Given == {d.photos : d \in delivered}

(* A step that changes neither the selection nor a promise.                *)
LEMMA Stutter ==
  ASSUME UNCHANGED <<controller, selectRows, AllPromised, Given>>
  PROVE  UNCHANGED Promise!vars
BY DEF Promise!vars, AllPromised, Promised, Given, Chosen

(* A dismissal or a crash, with the promises as they were.                 *)
LEMMA Closes ==
  ASSUME UNCHANGED <<selectRows, AllPromised, Given>>, controller' # "open"
  PROVE  [Promise!Next]_Promise!vars
<1>1. CASE controller = "open"
  <2>1. Promise!Close
    BY <1>1 DEF Promise!Close, AllPromised, Promised, Given, Chosen
  <2> QED BY <2>1 DEF Promise!Next
<1>2. CASE controller # "open"
  BY <1>2 DEF Promise!vars, AllPromised, Promised, Given, Chosen
<1> QED BY <1>1, <1>2

(* The promises after a photo has changed its stage.                       *)
LEMMA PromisesThen ==
  ASSUME TypeOK, NEW i \in 1 .. MaxBatches, NEW p \in batches[i].asked, NEW s,
         Staged(i, p, s)
  PROVE  AllPromised' = [AllPromised EXCEPT ![i] = Promised(batches'[i])]
<1>1. \A j \in 1 .. MaxBatches : j # i => batches'[j] = batches[j]
  BY StageChanges
<1> QED BY <1>1 DEF AllPromised

(* What is outstanding, when a photo that was awaited changes its stage.   *)
LEMMA OutstandingThen ==
  ASSUME TypeOK, NEW i \in 1 .. MaxBatches, NEW p \in batches[i].asked, NEW s,
         Staged(i, p, s), batches[i].stage[p] \in Pending
  PROVE  /\ s \in Pending => Promised(batches'[i]) = Promised(batches[i])
         /\ s = "lost" => Promised(batches'[i]) = {}
         /\ s = "added" /\ (\A q \in batches[i].asked : batches'[i].stage[q] = "added") =>
              /\ Promised(batches'[i]) = {}
              /\ batches[i].alive => Promised(batches[i]) = batches[i].asked
         /\ s = "added" /\ ~ (\A q \in batches[i].asked : batches'[i].stage[q] = "added") =>
              Promised(batches'[i]) = Promised(batches[i])
<1>1. /\ p \in Photo
      /\ batches'[i].stage[p] = s
      /\ batches'[i].asked = batches[i].asked
      /\ batches'[i].alive = batches[i].alive
      /\ \A q \in Photo : q # p => batches'[i].stage[q] = batches[i].stage[q]
  BY StageChanges
<1>2. /\ batches[i].asked \in SUBSET Photo
      /\ \A q \in batches[i].asked : batches[i].stage[q] \in Stages
  BY DEF TypeOK, Batch
<1>3. Outstanding(batches[i]) <=>
        batches[i].alive /\ \A q \in batches[i].asked : batches[i].stage[q] # "lost"
  BY DEF Outstanding, Settled
<1>4. s \in Pending => (Outstanding(batches'[i]) <=> Outstanding(batches[i]))
  BY <1>1, <1>2, <1>3 DEF Outstanding, Settled, Pending
<1>5. s = "lost" => ~ Outstanding(batches'[i])
  BY <1>1 DEF Outstanding
<1>6. ASSUME s = "added", \A q \in batches[i].asked : batches'[i].stage[q] = "added"
      PROVE  /\ ~ Outstanding(batches'[i])
             /\ batches[i].alive => Outstanding(batches[i])
  <2>1. Settled(batches'[i])
    BY <1>1, <1>6 DEF Settled, Pending
  <2>2. \A q \in batches[i].asked : batches[i].stage[q] # "lost"
    BY <1>1, <1>2, <1>6 DEF Pending
  <2> QED BY <1>3, <2>1, <2>2 DEF Outstanding
<1>7. ASSUME s = "added", NEW x \in batches[i].asked, batches'[i].stage[x] # "added"
      PROVE  Outstanding(batches'[i]) <=> Outstanding(batches[i])
  <2>1. x # p /\ batches[i].stage[x] = batches'[i].stage[x]
    BY <1>1, <1>2, <1>7
  <2>2. CASE batches[i].stage[x] = "lost"
    BY <1>1, <1>3, <2>1, <2>2 DEF Outstanding
  <2>3. CASE batches[i].stage[x] # "lost"
    <3>1. ~ Settled(batches'[i])
      BY <1>1, <1>2, <1>7, <2>1, <2>3 DEF Settled, Pending, Stages
    <3>2. (\A q \in batches[i].asked : batches'[i].stage[q] # "lost")
            <=> (\A q \in batches[i].asked : batches[i].stage[q] # "lost")
      BY <1>1, <1>2, <1>7 DEF Pending
    <3> QED BY <1>1, <1>3, <3>1, <3>2 DEF Outstanding
  <2> QED BY <2>2, <2>3
<1> QED BY <1>1, <1>4, <1>5, <1>6, <1>7 DEF Promised

(* The photos of a confirmation arrive one by one; the last one keeps the  *)
(* promise.                                                                *)
LEMMA FetchPromise ==
  ASSUME IInv, NEW i \in 1 .. MaxBatches, NEW p \in batches[i].asked,
         Fetched(i, p) \/ Arrives(i, p) \/ Lost(i, p)
  PROVE  [Promise!Next]_Promise!vars
<1>0. TypeOK /\ UNCHANGED selectRows /\ DOMAIN batches = 1 .. MaxBatches
  BY DEF IInv, TypeOK, Fetched, Arrives, Lost
<1>1. CASE Fetched(i, p)
  <2>1. Staged(i, p, "answered") /\ batches[i].stage[p] \in Pending
        /\ UNCHANGED <<controller, delivered>>
    BY <1>1 DEF Fetched, Staged, Pending
  <2>2. Promised(batches'[i]) = Promised(batches[i])
    BY <1>0, <2>1, OutstandingThen DEF Pending
  <2>3. AllPromised' = AllPromised
    BY <1>0, <2>1, <2>2, PromisesThen DEF AllPromised
  <2> QED BY <1>0, <2>1, <2>3, Stutter DEF Given
<1>2. CASE Lost(i, p)
  <2>1. Staged(i, p, "lost") /\ batches[i].stage[p] \in Pending
        /\ UNCHANGED <<controller, delivered>>
    BY <1>2 DEF Lost, Staged, Pending
  <2>2. AllPromised' = [AllPromised EXCEPT ![i] = {}]
    BY <1>0, <2>1, OutstandingThen, PromisesThen
  <2>3. CASE AllPromised[i] = {}
    <3>1. AllPromised' = AllPromised
      BY <2>2, <2>3 DEF AllPromised
    <3> QED BY <1>0, <2>1, <3>1, Stutter DEF Given
  <2>4. CASE AllPromised[i] # {}
    <3>1. Promise!Break(i)
      BY <1>0, <2>1, <2>2, <2>4 DEF Promise!Break, AllPromised, Promised, Given, Chosen
    <3> QED BY <3>1 DEF Promise!Next
  <2> QED BY <2>3, <2>4
<1>3. CASE Arrives(i, p) /\ controller' = "crashed" /\ UNCHANGED <<batches, delivered>>
  BY <1>0, <1>3, Closes DEF AllPromised, Given
<1>4. CASE Arrives(i, p) /\ Staged(i, p, "added") /\ HandOver(batches'[i])
  <2>1. batches[i].stage[p] \in Pending
    BY <1>4 DEF Arrives, Pending
  <2>2. /\ AllPromised' = [AllPromised EXCEPT ![i] = Promised(batches'[i])]
        /\ batches'[i].alive = batches[i].alive /\ batches'[i].asked = batches[i].asked
    BY <1>0, <1>4, PromisesThen, StageChanges
  <2>3. /\ Complete(batches'[i]) <=>
             \A q \in batches[i].asked : batches'[i].stage[q] = "added"
        /\ Complete(batches'[i]) => ListOf(batches'[i]) = batches[i].asked
    BY <1>4, AllAdded
  <2>4. CASE Complete(batches'[i]) /\ batches[i].alive
    <3>1. Promised(batches'[i]) = {} /\ Promised(batches[i]) = batches[i].asked
      BY <1>0, <1>4, <2>1, <2>3, <2>4, OutstandingThen
    <3>2. /\ controller' = "closing"
          /\ delivered' = delivered \cup
               {[asked |-> batches[i].asked, photos |-> batches[i].asked]}
      BY <1>4, <2>2, <2>3, <2>4 DEF HandOver
    <3>3. Given' = Given \union {batches[i].asked}
      <4> DEFINE d == [asked |-> batches[i].asked, photos |-> batches[i].asked]
      <4>1. d.photos = batches[i].asked /\ delivered' = delivered \cup {d}
        BY <3>2
      <4> HIDE DEF d
      <4> QED BY <4>1 DEF Given
    <3>4. /\ AllPromised[i] = batches[i].asked /\ AllPromised[i] # {}
          /\ AllPromised' = [AllPromised EXCEPT ![i] = {}]
      BY <2>2, <3>1 DEF AllPromised
    <3>5. Promise!Keep(i)
      BY <1>0, <3>2, <3>3, <3>4 DEF Promise!Keep, AllPromised, Promised, Given, Chosen
    <3> QED BY <3>5 DEF Promise!Next
  <2>5. CASE ~ (Complete(batches'[i]) /\ batches[i].alive)
    <3>1. UNCHANGED <<controller, delivered>>
      BY <1>4, <2>2, <2>5 DEF HandOver
    <3>2. Promised(batches'[i]) = Promised(batches[i])
      <4>1. CASE Complete(batches'[i])
        BY <2>2, <2>5, <4>1 DEF Promised, Outstanding
      <4>2. CASE ~ Complete(batches'[i])
        BY <1>0, <1>4, <2>1, <2>3, <4>2, OutstandingThen
      <4> QED BY <4>1, <4>2
    <3>3. AllPromised' = AllPromised
      BY <2>2, <3>2 DEF AllPromised
    <3> QED BY <1>0, <3>1, <3>3, Stutter DEF Given
  <2> QED BY <2>4, <2>5
<1> QED BY <1>1, <1>2, <1>3, <1>4 DEF Arrives, Staged

(* ConfirmedChoice counts as FiniteSets does.                              *)
LEMMA SameCount == \A S : Promise!Cardinality(S) = Cardinality(S)
BY DEF Promise!Cardinality, Cardinality

LEMMA TapPromise ==
  ASSUME IInv, Session, NEW r \in Row, Tap(r)
  PROVE  [Promise!Next]_Promise!vars
<1> DEFINE x == <<albumModel, r>>
<1>0. /\ controller = "open" /\ controller' = "open"
      /\ selectRows' = Toggled(r) /\ UNCHANGED <<batches, delivered>>
      /\ r \in selectRows[albumModel] \/ ~ Full(manager)
      /\ selectRows \in [Album -> SUBSET Row] /\ albumModel \in Album
  BY PickerAssumption DEF IInv, TypeOK, Tap, Album
<1>1. UNCHANGED <<AllPromised, Given>>
  BY <1>0 DEF AllPromised, Given
<1>2. CASE r \in selectRows[albumModel]
  <2>1. x \in Photo /\ x \in Chosen(selectRows)
        /\ Chosen(selectRows)' = Chosen(selectRows) \ {x}
    BY <1>0, <1>2, ToggledChosen DEF Chosen
  <2>2. Promise!Drop(x)
    BY <1>0, <1>1, <2>1 DEF Promise!Drop, AllPromised, Promised, Given
  <2> QED BY <2>1, <2>2 DEF Promise!Next
<1>3. CASE r \notin selectRows[albumModel]
  <2>1. x \in Photo /\ x \notin Chosen(selectRows)
        /\ Chosen(selectRows)' = Chosen(selectRows) \union {x}
        /\ Cardinality(Chosen(selectRows)) \in Nat
    BY <1>0, <1>3, ToggledChosen DEF Chosen
  <2>2. (IF IsMultiSelection THEN MaxCount ELSE 1) >= 0 =>
          Cardinality(Chosen(selectRows)) < IF IsMultiSelection THEN MaxCount ELSE 1
    BY <1>0, <1>3, <2>1, PickerAssumption
       DEF IInv, CountIsRows, Session, Full, MaxCount
  <2>3. Promise!Choose(x)
    BY <1>0, <1>1, <2>1, <2>2, SameCount DEF Promise!Choose, AllPromised, Promised, Given
  <2> QED BY <2>1, <2>3 DEF Promise!Next
<1> QED BY <1>2, <1>3

LEMMA ConfirmPromise ==
  ASSUME IInv, Confirm
  PROVE  [Promise!Next]_Promise!vars
<1>0. TypeOK /\ UNCHANGED <<controller, selectRows, delivered>> /\ controller = "open"
  BY DEF IInv, Confirm
<1> DEFINE new == [asked |-> Asked, stage |-> [p \in Photo |-> "fetching"],
                   count |-> manager.selectedCount, alive |-> TRUE]
<1>1. PICK i \in 1 .. MaxBatches :
        Settled(batches[i]) /\ batches' = [batches EXCEPT ![i] = new]
  BY <1>0 DEF Confirm, TypeOK
<1>2. Asked = Chosen(selectRows) /\ Asked \in SUBSET Photo /\ Asked # {}
  <2>1. manager.selectedCount = Cardinality(Chosen(selectRows)) /\ manager.selectedCount > 0
    BY DEF IInv, CountIsRows, Confirm
  <2> QED BY <2>1, AskedIsChosen, FS_EmptySet DEF IInv
<1>3. Promised(new) = Chosen(selectRows)
  BY <1>2 DEF Promised, Outstanding, Settled, Pending
<1>4. AllPromised[i] = {}
  BY <1>1 DEF AllPromised, Promised, Outstanding
<1> HIDE DEF new
<1>5. AllPromised' = [AllPromised EXCEPT ![i] = Chosen(selectRows)]
  BY <1>0, <1>1, <1>3 DEF AllPromised, TypeOK
<1>6. Promise!Confirm(i)
  BY <1>0, <1>2, <1>4, <1>5 DEF Promise!Confirm, AllPromised, Promised, Given, Chosen
<1> QED BY <1>6 DEF Promise!Next

LEMMA NextPromise ==
  ASSUME IInv, Session, [Next]_vars
  PROVE  [Promise!Next]_Promise!vars
<1>1. CASE Open
  <2>1. /\ controller = "none" /\ controller' = "open"
        /\ UNCHANGED <<selectRows, batches, delivered>>
    BY <1>1 DEF Open
  <2>2. Chosen(selectRows) = {}
    BY <2>1 DEF IInv, Fresh, Chosen, Photo
  <2>3. AllPromised = Promise!NothingPromised /\ Given = {}
    BY <2>1 DEF IInv, AliveHasController, Session, AllPromised, Promised, Outstanding,
       Given, Promise!NothingPromised
  <2>4. Promise!Start
    BY <2>1, <2>2, <2>3 DEF Promise!Start, AllPromised, Promised, Given
  <2> QED BY <2>4 DEF Promise!Next
<1>2. CASE AlbumFound \/ AlbumsListed \/ ChooseAlbum \/ UNCHANGED vars
  <2>1. UNCHANGED <<controller, selectRows, batches, delivered>>
    BY <1>2 DEF AlbumFound, AlbumsListed, ChooseAlbum, ShowAlbum, vars
  <2>2. UNCHANGED <<AllPromised, Given>>
    BY <2>1 DEF AllPromised, Given
  <2> QED BY <2>1, <2>2, Stutter
<1>3. CASE \E r \in Row : Tap(r)
  BY <1>3, TapPromise
<1>4. CASE Confirm
  BY <1>4, ConfirmPromise
<1>5. CASE Cancel
  <2>1. UNCHANGED <<selectRows, batches, delivered>> /\ controller' # "open"
    BY <1>5 DEF Cancel
  <2>2. UNCHANGED <<AllPromised, Given>>
    BY <2>1 DEF AllPromised, Given
  <2> QED BY <2>1, <2>2, Closes
<1>6. CASE Gone
  <2>1. /\ controller = "closing" /\ controller' = "none"
        /\ selectRows' = [a \in Album |-> {}] /\ delivered' = {}
        /\ \A i \in 1 .. MaxBatches : batches'[i].alive = FALSE
    BY <1>6 DEF Gone, IInv, TypeOK, Batch
  <2>2. Chosen(selectRows)' = {}
    BY <2>1 DEF Chosen, Photo
  <2>3. AllPromised' = Promise!NothingPromised /\ Given' = {}
    BY <2>1 DEF AllPromised, Promised, Outstanding, Given, Promise!NothingPromised
  <2>4. Promise!Forget
    BY <2>1, <2>2, <2>3 DEF Promise!Forget, AllPromised, Promised, Given
  <2> QED BY <2>4 DEF Promise!Next
<1>7. CASE \E i \in DOMAIN batches : \E p \in batches[i].asked :
             Fetched(i, p) \/ Arrives(i, p) \/ Lost(i, p)
  BY <1>7, FetchPromise DEF IInv, TypeOK
<1> QED BY <1>1, <1>2, <1>3, <1>4, <1>5, <1>6, <1>7 DEF Next

LEMMA InitPromise == Init => Promise!Init
<1> SUFFICES ASSUME Init PROVE Promise!Init
  OBVIOUS
<1>1. Chosen(selectRows) = {}
  BY DEF Init, Chosen, Photo
<1>2. AllPromised = Promise!NothingPromised
  BY DEF Init, AllPromised, Promised, Outstanding, NoBatch, Promise!NothingPromised
<1> QED BY <1>1, <1>2 DEF Init, Promise!Init, AllPromised, Promised

-----------------------------------------------------------------------------
(* Every variable keeps to its set.                                        *)
THEOREM TypeCorrect == Spec => []TypeOK
BY Invariance, PTL DEF IInv

(* The singleton's number is the number of rows selected in all albums and *)
(* keeps to the limit.                                                     *)
THEOREM CountMatchesRows == Spec => []CountIsRows
BY Invariance, PTL DEF IInv

(* Whatever is selected, cancelled or confirmed while photos are fetched,  *)
(* what the client gets is exactly what one tap on the button confirmed.   *)
THEOREM DeliveryIsWhole == Spec => []WholeDelivery
BY Invariance, PTL DEF IInv

(* With one limit on both sides, every cell looks as the selection says.   *)
THEOREM CellsFollow == Spec => []CellsFollowSelection
BY Invariance, PTL DEF IInv

(* The safety half of ButtonComesBack: a disabled button always has a      *)
(* confirmation to come back with (confirmAction, fetchPhotoModelCompletion).*)
THEOREM ButtonIsOwed == Spec => []ButtonOwed
<1>1. Init => ButtonOwed
  BY DEF Init, ButtonOwed
<1>2. IInv /\ ButtonOwed /\ [Next]_vars => ButtonOwed'
  BY ButtonStep
<1> QED BY <1>1, <1>2, Invariance, PTL DEF Spec

(* The older picker implements ConfirmedChoice: for any albums, rows and   *)
(* limit, a confirmation is for what was selected, and is answered by all  *)
(* of it at once or never (confirmAction).                                 *)
THEOREM PickerKeepsChoice == Spec => KeepsChoice
BY InitPromise, NextPromise, Invariance, SessionKept, PTL
   DEF Spec, KeepsChoice, Promise!Spec
=============================================================================
