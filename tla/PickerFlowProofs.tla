------------------------ MODULE PickerFlowProofs ------------------------
(***************************************************************************)
(* The picture picker and its preview, for every set of pictures and       *)
(* albums, every limit and every bound.                                    *)
(*                                                                         *)
(* The first part is about PictureSelection: its invariants, and that it   *)
(* keeps the promise of NumberedChoice.  The inductive invariant is        *)
(* Sound(model), which SelectionModelProofs shows every method of the view *)
(* models to preserve, with the types and with DeliveredKept: the choice   *)
(* is handed over only on the way out, so only a late answer, which        *)
(* appends, can change the array the client has.                           *)
(*                                                                         *)
(* The second part is about PreviewScreen: it implements what              *)
(* PictureSelection allows a preview to do, so that everything of the      *)
(* first part holds with the real preview on top of the picker; then the   *)
(* preview's own variables.                                                *)
(***************************************************************************)
EXTENDS PreviewScreen, SelectionModelProofs

IInv ==
  /\ TypeOK
  /\ Sound(model)
  /\ DeliveredKept

LEMMA RemoveAtType ==
  ASSUME NEW S, NEW s \in Seq(S), NEW i \in 1 .. Len(s)
  PROVE  RemoveAt(s, i) \in Seq(S)
BY RemoveAtProperties

LEMMA PrefixOfItself ==
  ASSUME NEW S, NEW s \in Seq(S)
  PROVE  IsPrefix(s, s)
BY DEF IsPrefix

LEMMA PrefixOfAppend ==
  ASSUME NEW S, NEW s \in Seq(S), NEW t \in Seq(S), NEW e \in S, IsPrefix(s, t)
  PROVE  IsPrefix(s, Append(t, e))
<1>1. /\ Len(s) \in Nat
      /\ Len(t) \in Nat
      /\ Len(s) <= Len(t)
      /\ SubSeq(s, 1, Len(s)) = SubSeq(t, 1, Len(s))
  BY DEF IsPrefix
<1>2. /\ Append(t, e) \in Seq(S)
      /\ Len(Append(t, e)) = Len(t) + 1
      /\ \A i \in 1 .. Len(t) : Append(t, e)[i] = t[i]
  BY AppendPictures
<1>3. SubSeq(Append(t, e), 1, Len(s)) = SubSeq(t, 1, Len(s))
  <2>1. /\ SubSeq(t, 1, Len(s)) = [i \in 1 .. Len(s) |-> t[i]]
        /\ SubSeq(Append(t, e), 1, Len(s)) = [i \in 1 .. Len(s) |-> Append(t, e)[i]]
    BY <1>1, <1>2
  <2>2. \A i \in 1 .. Len(s) : Append(t, e)[i] = t[i]
    BY <1>1, <1>2
  <2> QED BY <2>1, <2>2
<1> QED BY <1>1, <1>2, <1>3 DEF IsPrefix

-----------------------------------------------------------------------------
(* The album change rewrites only the bar.                                 *)
LEMMA BarHiddenAgain ==
  ASSUME NEW m, Sound(m), NEW n,
         n = [m EXCEPT !.levitateHidden = ~ SomethingSelected(m)]
  PROVE  Sound(n) /\ Kept(m, n)
<1> DEFINE b == ~ SomethingSelected(m)
<1>1. /\ m \in Models
      /\ n = [m EXCEPT !.levitateHidden = b]
      /\ b \in BOOLEAN
  BY DEF Sound
<1> HIDE DEF b
<1>2. /\ n.selectedPictures = m.selectedPictures
      /\ n.selected = m.selected
      /\ n.enabled = m.enabled
      /\ n.selectedIndex = m.selectedIndex
      /\ n.levitateCount = m.levitateCount
      /\ n.levitateHidden = b
      /\ n \in Models
  BY <1>1 DEF Models
<1>3. Consistent(n)
  BY <1>2 DEF Sound, Consistent, NoDuplicates, FlagIsMembership, InArray,
              IndexIsPosition, Bounded
<1>4. UniformlyEnabled(n)
  BY <1>2 DEF Sound, UniformlyEnabled, Full
<1>5. CountLagsOnlyWhenFull(n) /\ BarShown(n)
  BY <1>2 DEF Sound, CountLagsOnlyWhenFull, BarShown, SomethingSelected, b
<1> QED BY <1>2, <1>3, <1>4, <1>5 DEF Sound, Kept

-----------------------------------------------------------------------------
(* The steps that leave the selection alone, and those that change it      *)
(* while nothing has been delivered.                                       *)
LEMMA DeliveredStays ==
  ASSUME IInv, model' \in Models, UNCHANGED delivered,
         delivered # NotDelivered => screen' \in {"closing", "closed", "crashed"},
         \/ Kept(model, model') \/ Extended(model, model')
         \/ delivered = NotDelivered
  PROVE  DeliveredKept'
<1>1. /\ model.selectedPictures \in Seq(Picture)
      /\ model'.selectedPictures \in Seq(Picture)
      /\ delivered \in Seq(Picture)
      /\ IsPrefix(delivered, model.selectedPictures)
  BY DEF IInv, TypeOK, Models, DeliveredKept
<1>2. IsPrefix(delivered, model'.selectedPictures)
  <2>1. CASE Kept(model, model')
    BY <1>1, <2>1 DEF Kept
  <2>2. CASE Extended(model, model')
    BY <1>1, <2>2, PrefixOfAppend DEF Extended
  <2>3. CASE delivered = NotDelivered
    BY <1>1, <2>3 DEF NotDelivered, IsPrefix
  <2> QED BY <2>1, <2>2, <2>3
<1> QED BY <1>2 DEF DeliveredKept

LEMMA InitIInv == Init => IInv
<1> SUFFICES ASSUME Init PROVE IInv
  OBVIOUS
<1>1. Sound(model)
  BY EmptySound DEF Init
<1>2. model \in Models
  BY <1>1 DEF Sound
<1>3. /\ animations \in Seq(Animation)
      /\ delivered \in Seq(Picture)
  BY EmptySeq DEF Init, NotDelivered
<1>4. TypeOK
  BY <1>2, <1>3 DEF Init, TypeOK, Screens
<1>5. DeliveredKept
  BY <1>2, PrefixOfItself, <1>3 DEF Init, DeliveredKept, NotDelivered, EmptySelection
<1> QED BY <1>1, <1>4, <1>5 DEF IInv

LEMMA NextIInv == IInv /\ [Next]_vars => IInv'
<1> SUFFICES ASSUME IInv, [Next]_vars PROVE IInv'
  OBVIOUS
<1>0. /\ TypeOK
      /\ Sound(model)
      /\ model \in Models
      /\ delivered # NotDelivered => screen \in {"closing", "closed", "crashed"}
  BY DEF IInv, Sound, DeliveredKept
<1>a. ASSUME NEW p \in Picture, NEW k \in {"select", "cancel"}, NEW b \in BOOLEAN
      PROVE  Append(animations, [kind |-> k, picture |-> p, success |-> b])
               \in Seq(Animation)
  <2>1. [kind |-> k, picture |-> p, success |-> b] \in Animation
    BY DEF Animation
  <2> QED BY <1>0, <2>1 DEF TypeOK
<1>b. ASSUME UNCHANGED <<model, delivered>>,
             \/ screen' = screen \/ delivered = NotDelivered
             \/ screen' \in {"closed", "crashed"}
      PROVE  Sound(model)' /\ DeliveredKept'
  <2>1. model' \in Models /\ Kept(model, model')
    BY <1>0, <1>b DEF Kept
  <2>2. delivered # NotDelivered => screen' \in {"closing", "closed", "crashed"}
    BY <1>0, <1>b
  <2>3. DeliveredKept'
    BY <1>b, <2>1, <2>2, DeliveredStays
  <2> QED BY <1>0, <1>b, <2>3
<1>1. CASE AlbumsLoaded
  BY <1>0, <1>1, <1>b DEF AlbumsLoaded, IInv, TypeOK, Screens, Reloaded, Models
<1>2. CASE \E p \in Picture : TapSelect(p)
  <2>1. Sound(model)' /\ DeliveredKept'
    BY <1>2, <1>b DEF TapSelect
  <2> QED BY <1>0, <1>2, <2>1 DEF TapSelect, IInv, TypeOK
<1>3. CASE \E p \in Picture : TapCancel(p)
  <2> PICK p \in Picture : TapCancel(p)
    BY <1>3
  <2>1. Sound(model') /\ model' \in Models
    BY <1>0, CancellingChanges DEF TapCancel, Sound
  <2>2. delivered = NotDelivered
    BY <1>0 DEF TapCancel, CanTapCell
  <2>3. DeliveredKept'
    BY <2>1, <2>2, DeliveredStays DEF TapCancel
  <2>4. animations' \in Seq(Animation)
    BY <1>a DEF TapCancel
  <2> QED BY <1>0, <2>1, <2>3, <2>4
       DEF TapCancel, IInv, TypeOK, SomethingSelected
<1>4. ASSUME NEW p \in Picture, Answer(p),
             UNCHANGED <<screen, currentAlbum, cellEnabled, delivered>>,
             requests' \in [Picture -> Nat]
      PROVE  IInv'
  <2>1. CASE Alive
    <3>1. /\ Sound(model')
          /\ model' \in Models
          /\ Kept(model, model') \/ Extended(model, model')
      BY <1>0, <1>4, <2>1, SelectingChanges DEF Answer, Sound
    <3>2. DeliveredKept'
      BY <1>0, <1>4, <3>1, DeliveredStays
    <3>3. animations' \in Seq(Animation)
      BY <1>4, <1>a, <2>1 DEF Answer
    <3> QED BY <1>0, <1>4, <2>1, <3>1, <3>2, <3>3
         DEF Answer, IInv, TypeOK, SomethingSelected
  <2>2. CASE ~ Alive
    <3>1. Sound(model)' /\ DeliveredKept'
      BY <1>4, <1>b, <2>2 DEF Answer
    <3> QED BY <1>0, <1>4, <2>2, <3>1 DEF Answer, IInv, TypeOK
  <2> QED BY <2>1, <2>2
<1>5. CASE \E p \in Picture : ImageArrives(p)
  <2> PICK p \in Picture : ImageArrives(p)
    BY <1>5
  <2>1. requests' \in [Picture -> Nat]
    <3>1. requests \in [Picture -> Nat] /\ requests[p] - 1 \in Nat
      BY <1>0 DEF TypeOK, ImageArrives
    <3> QED BY <3>1 DEF ImageArrives
  <2> QED BY <1>4, <2>1 DEF ImageArrives
<1>6. CASE \E p \in Picture : ProgressComplete(p)
  BY <1>0, <1>4, <1>6 DEF ProgressComplete, TypeOK
<1>7. CASE \E p \in Picture : ImageMissing(p)
  <2>1. Sound(model)' /\ DeliveredKept'
    BY <1>7, <1>b DEF ImageMissing
  <2> QED BY <1>0, <1>7, <2>1 DEF ImageMissing, IInv, TypeOK
<1>8. CASE \E i \in DOMAIN animations : AnimationDone(i)
  <2> PICK i \in DOMAIN animations : AnimationDone(i)
    BY <1>8
  <2>1. Sound(model)' /\ DeliveredKept'
    BY <1>b DEF AnimationDone
  <2>2. animations' \in Seq(Animation)
    <3>1. animations \in Seq(Animation) /\ i \in 1 .. Len(animations)
      BY <1>0 DEF TypeOK
    <3> QED BY <3>1, RemoveAtType DEF AnimationDone
  <2>3. cellEnabled' \in [Picture -> BOOLEAN]
    <3>1. /\ model.enabled \in [Picture -> BOOLEAN]
          /\ cellEnabled \in [Picture -> BOOLEAN]
      BY <1>0 DEF TypeOK, Models
    <3> QED BY <3>1 DEF AnimationDone
  <2> QED BY <1>0, <2>1, <2>2, <2>3 DEF AnimationDone, IInv, TypeOK
<1>9. CASE \E a \in Album : ChangeAlbum(a)
  <2> PICK a \in Album : ChangeAlbum(a)
    BY <1>9
  <2>1. Sound(model') /\ model' \in Models /\ Kept(model, model')
    BY <1>0, BarHiddenAgain DEF ChangeAlbum, Sound
  <2>2. DeliveredKept'
    BY <1>0, <2>1, DeliveredStays DEF ChangeAlbum
  <2> QED BY <1>0, <2>1, <2>2 DEF ChangeAlbum, IInv, TypeOK, Reloaded, Models
<1>10. CASE \E p \in Picture : OpenPreview(p)
  <2>1. Sound(model)' /\ DeliveredKept'
    BY <1>0, <1>10, <1>b DEF OpenPreview
  <2> QED BY <1>0, <1>10, <2>1 DEF OpenPreview, IInv, TypeOK, Screens
<1>11. CASE \E p \in Picture : PreviewSelect(p)
  <2> PICK p \in Picture : PreviewSelect(p)
    BY <1>11
  <2>1. Sound(model') /\ model' \in Models
    BY <1>0, SelectingChanges DEF PreviewSelect, Sound
  <2>2. DeliveredKept'
    BY <1>0, <2>1, DeliveredStays DEF PreviewSelect
  <2> QED BY <1>0, <2>1, <2>2 DEF PreviewSelect, IInv, TypeOK
<1>12. CASE \E p \in Picture : PreviewCancel(p)
  <2> PICK p \in Picture : PreviewCancel(p)
    BY <1>12
  <2>1. Sound(model') /\ model' \in Models
    BY <1>0, CancellingChanges DEF PreviewCancel, Sound
  <2>2. DeliveredKept'
    BY <1>0, <2>1, DeliveredStays DEF PreviewCancel
  <2> QED BY <1>0, <2>1, <2>2 DEF PreviewCancel, IInv, TypeOK
<1>d. ASSUME Sound(model'), Deliver(model'),
             UNCHANGED <<currentAlbum, requests, animations, cellEnabled, barRaised>>
      PROVE  IInv'
  <2>1. /\ model' \in Models
        /\ model'.selectedPictures \in Seq(Picture)
    BY <1>d DEF Sound, Models
  <2>2. DeliveredKept'
    BY <1>d, <2>1, PrefixOfItself DEF Deliver, DeliveredKept
  <2> QED BY <1>0, <1>d, <2>1, <2>2 DEF Deliver, IInv, TypeOK, Screens
<1>13. CASE \E p \in Picture : PreviewNextStep(p)
  <2> PICK p \in Picture : PreviewNextStep(p)
    BY <1>13
  <2>1. Sound(model')
    BY <1>0, SelectingChanges DEF PreviewNextStep
  <2> QED BY <1>d, <2>1 DEF PreviewNextStep
<1>14. CASE TapPreviewButton
  <2>1. Sound(model)' /\ DeliveredKept'
    BY <1>0, <1>14, <1>b DEF TapPreviewButton, BarUsable
  <2> QED BY <1>0, <1>14, <2>1 DEF TapPreviewButton, IInv, TypeOK, Screens
<1>15. CASE TapNextStep
  BY <1>0, <1>15, <1>d DEF TapNextStep, Deliver
<1>16. CASE TapClose
  <2>1. Sound(model)' /\ DeliveredKept'
    BY <1>0, <1>16, <1>b DEF TapClose
  <2> QED BY <1>0, <1>16, <2>1 DEF TapClose, IInv, TypeOK, Screens
<1>17. CASE ControllerGone
  <2>1. Sound(model)' /\ DeliveredKept'
    BY <1>17, <1>b DEF ControllerGone
  <2> QED BY <1>0, <1>17, <2>1 DEF ControllerGone, IInv, TypeOK, Screens
<1>18. CASE PreviewBack
  <2>1. Sound(model)' /\ DeliveredKept'
    BY <1>0, <1>18, <1>b DEF PreviewBack
  <2> QED BY <1>0, <1>18, <2>1
       DEF PreviewBack, IInv, TypeOK, Screens, Reloaded, Models
<1>19. CASE PreviewCrash
  <2>1. Sound(model)' /\ DeliveredKept'
    BY <1>0, <1>19, <1>b DEF PreviewCrash
  <2> QED BY <1>0, <1>19, <2>1 DEF PreviewCrash, IInv, TypeOK, Screens
<1>20. CASE UNCHANGED vars
  <2>1. Sound(model)' /\ DeliveredKept'
    BY <1>20, <1>b DEF vars
  <2> QED BY <1>0, <1>20, <2>1 DEF vars, IInv, TypeOK
<1> QED
  BY <1>1, <1>2, <1>3, <1>5, <1>6, <1>7, <1>8, <1>9, <1>10, <1>11, <1>12,
     <1>13, <1>14, <1>15, <1>16, <1>17, <1>18, <1>19, <1>20 DEF Next

LEMMA IInvariant == Spec => []IInv
BY InitIInv, NextIInv, PTL DEF Spec

(* Every variable keeps to its set for the whole life of the picker, with  *)
(* any number of pictures, albums, late answers and animations.            *)
THEOREM TypeCorrect == Spec => []TypeOK
<1>1. IInv => TypeOK
  BY DEF IInv
<1> QED BY <1>1, IInvariant, PTL

(* The shared array, the flags and the numbers agree, and the selection    *)
(* never exceeds the limit, under every interleaving of late answers with  *)
(* the two screens' handlers.                                              *)
THEOREM SelectionIsConsistent == Spec => []SelectionConsistent
<1>1. IInv => SelectionConsistent
  BY DEF IInv, Sound, SelectionConsistent
<1> QED BY <1>1, IInvariant, PTL

(* No handler leaves a picture disabled that the others' enabled state and *)
(* the size of the selection do not account for.                           *)
THEOREM NothingStranded == Spec => []NoPictureStranded
<1>1. IInv => NoPictureStranded
  BY DEF IInv, Sound, NoPictureStranded
<1> QED BY <1>1, IInvariant, PTL

(* The bar's count is at most one behind, and only behind a selection the  *)
(* preview filled; the bar is not hidden over a selection.                 *)
THEOREM BarFollows == Spec => []BarFollowsSelection
<1>1. IInv => BarFollowsSelection
  BY DEF IInv, Sound, BarFollowsSelection
<1> QED BY <1>1, IInvariant, PTL

(* What the client got stays in front of the live array it holds.          *)
THEOREM DeliveredStaysKept == Spec => []DeliveredKept
<1>1. IInv => DeliveredKept
  BY DEF IInv
<1> QED BY <1>1, IInvariant, PTL

-----------------------------------------------------------------------------
(* The cells.  While the picker is on top, a cell whose enabled state is   *)
(* not its picture's is due to be refreshed by a completion that is not    *)
(* its own.  A selection that was full may no longer be when its           *)
(* completion runs, but then a cancellation's completion is due.           *)

Refreshing(a) == a.kind = "cancel" \/ (a.success /\ Full(model))

Due(p) ==
  \E i \in DOMAIN animations :
    animations[i].picture # p /\ Refreshing(animations[i])

CancelDue(p) ==
  \E i \in DOMAIN animations :
    animations[i].picture # p /\ animations[i].kind = "cancel"

SettledOrDue ==
  screen = "picker" =>
    \A p \in Picture : Shown(p) => cellEnabled[p] = model.enabled[p] \/ Due(p)

LEMMA AddedDue ==
  ASSUME TypeOK, NEW a \in Animation, animations' = Append(animations, a)
  PROVE  /\ \A p \in Picture : CancelDue(p) => Due(p)'
         /\ model' = model => \A p \in Picture : Due(p) => Due(p)'
         /\ \A p \in Picture :
              p # a.picture /\ (a.kind = "cancel" \/ (a.success /\ Full(model')))
                => Due(p)'
<1> DEFINE k == Len(animations)
<1>1. /\ k \in Nat
      /\ DOMAIN animations = 1 .. k
      /\ DOMAIN animations' = 1 .. k + 1
      /\ \A i \in 1 .. k : animations'[i] = animations[i]
      /\ animations'[k + 1] = a
  BY DEF TypeOK
<1>2. \A i \in 1 .. k : i \in 1 .. k + 1
  BY <1>1
<1>3. k + 1 \in 1 .. k + 1
  BY <1>1
<1> HIDE DEF k
<1> QED BY <1>1, <1>2, <1>3 DEF Due, CancelDue, Refreshing

LEMMA RemovedDue ==
  ASSUME TypeOK, NEW i \in DOMAIN animations,
         animations' = RemoveAt(animations, i), UNCHANGED model,
         NEW p \in Picture, Due(p)
  PROVE  Due(p)' \/ (p # animations[i].picture /\ Refreshing(animations[i]))
<1> DEFINE k == Len(animations)
<1>1. /\ animations \in Seq(Animation)
      /\ k \in Nat
      /\ DOMAIN animations = 1 .. k
      /\ i \in 1 .. k
  BY DEF TypeOK
<1>2. /\ animations' \in Seq(Animation)
      /\ Len(animations') = k - 1
      /\ \A j \in 1 .. k - 1 :
           animations'[j] = IF j < i THEN animations[j] ELSE animations[j + 1]
  BY <1>1, RemoveAtProperties
<1>3. PICK j \in 1 .. k : animations[j].picture # p /\ Refreshing(animations[j])
  BY <1>1 DEF Due
<1>9. DOMAIN animations' = 1 .. k - 1
  BY <1>1, <1>2
<1>4. CASE j = i
  BY <1>3, <1>4
<1>5. CASE j < i
  <2>1. j \in DOMAIN animations' /\ animations'[j] = animations[j]
    BY <1>1, <1>2, <1>5, <1>9
  <2> QED BY <1>3, <2>1 DEF Due, Refreshing
<1>6. CASE j > i
  <2>1. j - 1 \in 1 .. k - 1 /\ ~ j - 1 < i /\ (j - 1) + 1 = j
    BY <1>1, <1>6
  <2>2. j - 1 \in DOMAIN animations' /\ animations'[j - 1] = animations[j]
    BY <1>2, <1>9, <2>1
  <2> QED BY <1>3, <2>2 DEF Due, Refreshing
<1> QED BY <1>1, <1>4, <1>5, <1>6

LEMMA NextSettled == IInv /\ SettledOrDue /\ [Next]_vars => SettledOrDue'
<1> SUFFICES ASSUME IInv, SettledOrDue, [Next]_vars, screen' = "picker",
                    NEW q \in Picture, Shown(q)'
             PROVE  cellEnabled'[q] = model'.enabled[q] \/ Due(q)'
  BY DEF SettledOrDue
<1>0. /\ TypeOK
      /\ Sound(model)
  BY DEF IInv
<1>1. CASE AlbumsLoaded \/ (\E a \in Album : ChangeAlbum(a)) \/ PreviewBack
  <2>1. cellEnabled' = model'.enabled
    BY <1>0, <1>1
       DEF AlbumsLoaded, ChangeAlbum, PreviewBack, Reloaded, TypeOK, Models
  <2> QED BY <2>1
<1>2. CASE UNCHANGED <<model, screen, currentAlbum, animations, cellEnabled>>
  BY <1>2 DEF SettledOrDue, Shown, Due, Refreshing
<1>3. CASE \E p \in Picture : TapCancel(p)
  <2> PICK p \in Picture : TapCancel(p)
    BY <1>3
  <2> DEFINE a == [kind |-> "cancel", picture |-> p, success |-> TRUE]
  <2>1. /\ animations' = Append(animations, a)
        /\ model' = PickerCancelled(model, p)
        /\ model.selected[p]
        /\ cellEnabled[p]
        /\ UNCHANGED cellEnabled
    BY DEF TapCancel, CanTapCell
  <2>2. a \in Animation /\ a.picture = p /\ a.kind = "cancel"
    BY DEF Animation
  <2> HIDE DEF a
  <2>3. CASE q = p
    <3>1. model'.enabled[q] /\ Sound(model')
      BY <1>0, <2>1, <2>3, PickerCancelledStatus
    <3>2. model'.enabled \in [Picture -> BOOLEAN] /\ cellEnabled \in [Picture -> BOOLEAN]
      BY <1>0, <3>1 DEF Sound, Models, TypeOK
    <3> QED BY <2>1, <2>3, <3>1, <3>2
  <2>4. CASE q # p
    BY <1>0, <2>1, <2>2, <2>4, AddedDue
  <2> QED BY <2>3, <2>4
<1>4. ASSUME NEW p \in Picture, Answer(p),
             UNCHANGED <<screen, currentAlbum, cellEnabled>>
      PROVE  cellEnabled'[q] = model'.enabled[q] \/ Due(q)'
  <2> DEFINE a == [kind |-> "select", picture |-> p, success |-> ~ Full(model)]
  <2>1. /\ animations' = Append(animations, a)
        /\ model' = PickerSelected(model, p)
    BY <1>4 DEF Answer, Alive
  <2>2. a \in Animation /\ a.picture = p /\ a.success = ~ Full(model)
    BY DEF Animation
  <2> HIDE DEF a
  <2>3. /\ Full(model) => model' = model
        /\ model'.enabled = model.enabled \/ (~ Full(model) /\ Full(model'))
        /\ model'.enabled[p] = model.enabled[p]
    BY <1>0, <2>1, PickerSelectedStatus
  <2>4. cellEnabled[q] = model.enabled[q] \/ Due(q)
    BY <1>4 DEF SettledOrDue, Shown
  <2>5. CASE Due(q)
    <3>1. CASE Full(model)
      BY <1>0, <2>1, <2>2, <2>3, <2>5, <3>1, AddedDue
    <3>2. CASE ~ Full(model)
      <4>1. CancelDue(q)
        BY <2>5, <3>2 DEF Due, CancelDue, Refreshing
      <4> QED BY <1>0, <2>1, <2>2, <4>1, AddedDue
    <3> QED BY <3>1, <3>2
  <2>6. CASE cellEnabled[q] = model.enabled[q]
    <3>1. CASE q = p \/ model'.enabled = model.enabled
      BY <1>4, <2>3, <2>6, <3>1
    <3>2. CASE q # p /\ ~ Full(model) /\ Full(model')
      BY <1>0, <2>1, <2>2, <3>2, AddedDue
    <3> QED BY <2>3, <3>1, <3>2
  <2> QED BY <2>4, <2>5, <2>6
<1>5. CASE \E p \in Picture : ImageArrives(p) \/ ProgressComplete(p)
  BY <1>4, <1>5 DEF ImageArrives, ProgressComplete
<1>6. CASE \E i \in DOMAIN animations : AnimationDone(i)
  <2> PICK i \in DOMAIN animations : AnimationDone(i)
    BY <1>6
  <2> DEFINE a == animations[i]
  <2>1. /\ animations' = RemoveAt(animations, i)
        /\ cellEnabled'[q] = IF Refreshing(a) /\ Shown(q) /\ q # a.picture
                             THEN model.enabled[q] ELSE cellEnabled[q]
        /\ UNCHANGED <<model, screen, currentAlbum>>
    BY DEF AnimationDone, Refreshing
  <2>2. Shown(q) /\ (cellEnabled[q] = model.enabled[q] \/ Due(q))
    BY <2>1 DEF SettledOrDue, Shown
  <2>3. Due(q) => Due(q)' \/ (q # a.picture /\ Refreshing(a))
    BY <1>0, <2>1, RemovedDue
  <2> HIDE DEF a
  <2> QED BY <2>1, <2>2, <2>3
<1>7. CASE (\E p \in Picture : OpenPreview(p) \/ PreviewSelect(p) \/ PreviewCancel(p)
                                \/ PreviewNextStep(p))
           \/ TapPreviewButton \/ TapNextStep \/ TapClose \/ ControllerGone
           \/ PreviewCrash
  BY <1>7
     DEF OpenPreview, PreviewSelect, PreviewCancel, PreviewNextStep,
         TapPreviewButton, TapNextStep, TapClose, ControllerGone, PreviewCrash,
         Deliver
<1>8. CASE \E p \in Picture : TapSelect(p) \/ ImageMissing(p)
  BY <1>2, <1>8 DEF TapSelect, ImageMissing
<1>9. CASE UNCHANGED vars
  BY <1>2, <1>9 DEF vars
<1> QED BY <1>1, <1>3, <1>5, <1>6, <1>7, <1>8, <1>9 DEF Next

(* With the last completion done, every cell is enabled as its picture is, *)
(* however the completions, each of which leaves out its own cell and      *)
(* decides with the count of its own time, were interleaved.               *)
THEOREM CellsSettle == Spec => []CellsSettled
<1>1. Init => SettledOrDue
  BY DEF Init, SettledOrDue
<1>2. TypeOK /\ SettledOrDue => CellsSettled
  BY DEF TypeOK, SettledOrDue, CellsSettled, Due
<1>3. IInv => TypeOK
  BY DEF IInv
<1> QED BY <1>1, <1>2, <1>3, NextSettled, IInvariant, PTL DEF Spec

-----------------------------------------------------------------------------
(* The refinement of NumberedChoice.                                       *)

(* The instance has its own copies of the community operators it uses.     *)
LEMMA SameOperators ==
  /\ \A s, e : Promise!Contains(s, e) <=> Contains(s, e)
  /\ \A s, i : Promise!RemoveAt(s, i) = RemoveAt(s, i)
  /\ \A s : Promise!Badges(s) = Positions(s)
<1>1. /\ \A s, e : Promise!Contains(s, e) <=> Contains(s, e)
      /\ \A s, i : Promise!RemoveAt(s, i) = RemoveAt(s, i)
  BY DEF Promise!Contains, Contains, Promise!RemoveAt, RemoveAt
<1>2. ASSUME NEW s PROVE Promise!Badges(s) = Positions(s)
  <2> DEFINE at(p) == CHOOSE i \in DOMAIN s : s[i] = p
  <2>1. /\ Promise!Badges(s)
             = [p \in Picture |-> IF Promise!Contains(s, p) THEN at(p) ELSE 0]
        /\ Positions(s) = [p \in Picture |-> IF Contains(s, p) THEN at(p) ELSE 0]
    BY DEF Promise!Badges, Positions
  <2> HIDE DEF at
  <2> QED BY <1>1, <2>1
<1> QED BY <1>1, <1>2

(* The stored numbers are the numbers recomputed from scratch.             *)
LEMMA BadgesStored ==
  ASSUME NEW m, Sound(m)
  PROVE  Badge(m) = Promise!Badges(m.selectedPictures)
BY BadgesArePositions, SameOperators

LEMMA InitPromise == Init => Promise!Init
<1> SUFFICES ASSUME Init PROVE Promise!Init
  OBVIOUS
<1>1. Badge(model) = Promise!Badges(model.selectedPictures)
  BY EmptySound, BadgesStored DEF Init
<1>2. model.selectedPictures = << >>
  BY DEF Init, EmptySelection
<1> QED BY <1>1, <1>2
     DEF Init, Badge, NotDelivered, Promise!Init, Promise!NoResult

(* A longer or a shorter array, seen as a step of the promise.             *)
LEMMA ExtendedIsExtend ==
  ASSUME Sound(model), Sound(model'), Extended(model, model')
  PROVE  \E p \in Picture : Promise!Extend(p)
<1>1. PICK p \in Picture :
        /\ ~ InArray(model, p)
        /\ model'.selectedPictures = Append(model.selectedPictures, p)
  BY DEF Extended
<1>2. Len(model.selectedPictures) < MaxCount
  BY MaxCountAssumption DEF Extended, Full, Sound, Models
<1>3. ~ Promise!Contains(model.selectedPictures, p)
  BY <1>1, SameOperators DEF InArray
<1>4. Badge(model') = Promise!Badges(model'.selectedPictures)
  BY BadgesStored
<1> QED BY <1>1, <1>2, <1>3, <1>4 DEF Promise!Extend, Badge

LEMMA ShortenedIsDrop ==
  ASSUME Sound(model), Sound(model'), Shortened(model, model'),
         delivered = NotDelivered, UNCHANGED delivered
  PROVE  \E i \in DOMAIN model.selectedPictures : Promise!Drop(i)
<1>1. PICK i \in DOMAIN model.selectedPictures :
        model'.selectedPictures = RemoveAt(model.selectedPictures, i)
  BY DEF Shortened
<1>2. model'.selectedPictures = Promise!RemoveAt(model.selectedPictures, i)
  BY <1>1, SameOperators
<1>3. Badge(model') = Promise!Badges(model'.selectedPictures)
  BY BadgesStored
<1> QED BY <1>1, <1>2, <1>3
     DEF Promise!Drop, Promise!NoResult, NotDelivered, Badge

LEMMA KeptIsStutter ==
  ASSUME Sound(model), Sound(model'), Kept(model, model')
  PROVE  /\ UNCHANGED model.selectedPictures
         /\ Badge(model') = Badge(model)
BY BadgesStored DEF Kept

(* Every step of the picker is a step of the promise or a stutter.         *)
LEMMA NextPromise == IInv /\ IInv' /\ [Next]_vars => [Promise!Next]_(Promise!vars)
<1> SUFFICES ASSUME IInv, IInv', [Next]_vars
             PROVE  [Promise!Next]_(Promise!vars)
  OBVIOUS
<1>0. /\ TypeOK
      /\ Sound(model) /\ Sound(model')
      /\ delivered # NotDelivered => screen \in {"closing", "closed", "crashed"}
  BY DEF IInv, DeliveredKept
<1>1. ASSUME UNCHANGED delivered, Kept(model, model')
      PROVE  [Promise!Next]_(Promise!vars)
  BY <1>0, <1>1, KeptIsStutter DEF Promise!vars, Badge
<1>2. ASSUME UNCHANGED delivered, Extended(model, model')
      PROVE  Promise!Next
  <2>1. PICK p \in Picture : Promise!Extend(p)
    BY <1>0, <1>2, ExtendedIsExtend
  <2> QED BY <1>2, <2>1 DEF Promise!Next, Promise!Choose
<1>3. ASSUME UNCHANGED delivered, Shortened(model, model'), delivered = NotDelivered
      PROVE  Promise!Next
  BY <1>0, <1>3, ShortenedIsDrop DEF Promise!Next
<1>4. CASE UNCHANGED <<model, delivered>>
  BY <1>1, <1>4 DEF Kept
<1>5. CASE \E p \in Picture : TapCancel(p)
  <2>1. UNCHANGED delivered /\ delivered = NotDelivered
    BY <1>0, <1>5 DEF TapCancel, CanTapCell
  <2>2. Kept(model, model') \/ Shortened(model, model')
    BY <1>0, <1>5, CancellingChanges DEF TapCancel
  <2> QED BY <1>1, <1>3, <2>1, <2>2
<1>6. ASSUME NEW p \in Picture, Answer(p), UNCHANGED delivered
      PROVE  [Promise!Next]_(Promise!vars)
  <2>1. Kept(model, model') \/ Extended(model, model')
    BY <1>0, <1>6, SelectingChanges DEF Answer, Kept
  <2> QED BY <1>1, <1>2, <1>6, <2>1
<1>7. CASE \E p \in Picture : ImageArrives(p) \/ ProgressComplete(p)
  BY <1>6, <1>7 DEF ImageArrives, ProgressComplete
<1>8. CASE \E a \in Album : ChangeAlbum(a)
  BY <1>0, <1>1, <1>8, BarHiddenAgain DEF ChangeAlbum
<1>9. CASE \E p \in Picture : PreviewSelect(p)
  <2>1. Kept(model, model') \/ Extended(model, model')
    BY <1>0, <1>9, SelectingChanges DEF PreviewSelect
  <2> QED BY <1>1, <1>2, <1>9, <2>1 DEF PreviewSelect
<1>10. CASE \E p \in Picture : PreviewCancel(p)
  <2>1. UNCHANGED delivered /\ delivered = NotDelivered
    BY <1>0, <1>10 DEF PreviewCancel
  <2>2. Kept(model, model') \/ Shortened(model, model')
    BY <1>0, <1>10, CancellingChanges DEF PreviewCancel
  <2> QED BY <1>1, <1>3, <2>1, <2>2
<1>11. ASSUME delivered = NotDelivered, Deliver(model'), Kept(model, model'),
              model.selectedPictures # << >>
       PROVE  Promise!HandOver
  BY <1>0, <1>11, KeptIsStutter
     DEF Promise!HandOver, Promise!NoResult, NotDelivered, Deliver, Kept, Badge
<1>12. CASE TapNextStep
  <2>1. delivered = NotDelivered /\ UNCHANGED model /\ Deliver(model')
    BY <1>0, <1>12 DEF TapNextStep, BarUsable, Deliver
  <2> QED BY <1>11, <1>12, <2>1 DEF TapNextStep, SomethingSelected, Kept, Promise!Next
<1>13. CASE \E p \in Picture : PreviewNextStep(p)
  <2> PICK p \in Picture : PreviewNextStep(p)
    BY <1>13
  <2>1. delivered = NotDelivered /\ Deliver(model')
    BY <1>0 DEF PreviewNextStep
  <2>2. CASE Kept(model, model')
    <3>1. model.selectedPictures # << >>
      <4>1. CASE InArray(model, p)
        BY <4>1 DEF InArray, Contains
      <4>2. CASE ~ InArray(model, p)
        <5>1. model' = SelectedInPreview(model, p)
          BY <4>2 DEF PreviewNextStep
        <5>2. CASE Full(model)
          BY <5>2, MaxCountAssumption DEF Full
        <5>3. CASE ~ Full(model)
          <6>1. model'.selectedPictures = Append(model.selectedPictures, p)
            BY <1>0, <4>2, <5>1, <5>3, SelectedInPreviewSound
          <6>2. model.selectedPictures \in Seq(Picture)
            BY <1>0 DEF Sound, Models
          <6> QED BY <2>2, <6>1, <6>2, AppendPictures DEF Kept
        <5> QED BY <5>2, <5>3
      <4> QED BY <4>1, <4>2
    <3> QED BY <1>11, <2>1, <2>2, <3>1 DEF Promise!Next
  <2>3. CASE Extended(model, model')
    <3>1. PICK q \in Picture : Promise!Extend(q)
      BY <1>0, <2>3, ExtendedIsExtend
    <3> QED BY <2>1, <3>1
         DEF Promise!Next, Promise!ChooseAndHandOver, Promise!NoResult,
             NotDelivered, Deliver
  <2>4. Kept(model, model') \/ Extended(model, model')
    BY <1>0, SelectingChanges DEF PreviewNextStep, Kept
  <2> QED BY <2>2, <2>3, <2>4
<1>14. CASE \/ AlbumsLoaded
            \/ \E p \in Picture : TapSelect(p) \/ ImageMissing(p) \/ OpenPreview(p)
            \/ \E i \in DOMAIN animations : AnimationDone(i)
            \/ TapPreviewButton \/ TapClose \/ ControllerGone
            \/ PreviewBack \/ PreviewCrash
            \/ UNCHANGED vars
  <2>1. UNCHANGED <<model, delivered>>
    BY <1>14
       DEF AlbumsLoaded, TapSelect, ImageMissing, OpenPreview, AnimationDone,
           TapPreviewButton, TapClose, ControllerGone, PreviewBack, PreviewCrash,
           vars
  <2> QED BY <1>4, <2>1
<1> QED
  BY <1>5, <1>7, <1>8, <1>9, <1>10, <1>12, <1>13, <1>14 DEF Next

(* The picker implements the numbered choice: whatever the order of taps,  *)
(* late answers and screens, it behaves as a choice built one picture at a *)
(* time, numbered by position, and handed over at most once.               *)
THEOREM PickerKeepsPromise == Spec => KeepsPromise
BY InitPromise, NextPromise, IInvariant, PTL DEF Spec, KeepsPromise, Promise!Spec

-----------------------------------------------------------------------------
(* The preview screen.                                                     *)

(* The preview always shows some picture.                                  *)
ShowsPicture == screen = "preview" => currentPicture \in Picture

ScreenInv == IInv /\ ShowsPicture

(* Each step of the screen is a step of the picker's specification.        *)
LEMMA ScreenStepIsPickerStep ==
  ASSUME ScreenInv, [ScreenNext]_allVars
  PROVE  [Next]_vars
<1>0. screen = "preview" => currentPicture \in Picture
  BY DEF ScreenInv, ShowsPicture
<1>1. CASE UNCHANGED vars
  BY <1>1
<1>2. CASE PreviewCrash
  BY <1>2 DEF Next
<1>3. CASE PickerStep
  BY <1>3 DEF PickerStep, Next
<1>4. CASE OpenFromBar \/ \E p \in Picture : Open(p)
  BY <1>4 DEF OpenFromBar, Open, Next
<1>5. CASE \/ BeginDragging \/ EndDecelerating \/ \E p \in Picture : Scroll(p)
           \/ \E i \in DOMAIN updates : UpdateDone(i)
           \/ TapEdit
           \/ \E b \in BOOLEAN : ImageForEditor(b) \/ EditorReturns(b)
  BY <1>1, <1>2, <1>5
     DEF BeginDragging, EndDecelerating, Scroll, UpdateDone, TapEdit,
         ImageForEditor, EditorReturns, Crash
<1>6. CASE TapToSelect \/ TapToCancel \/ NextStep
  <2>1. currentPicture \in Picture
    BY <1>0, <1>6 DEF TapToSelect, TapToCancel, NextStep, OnTop
  <2> QED BY <1>2, <1>6, <2>1 DEF TapToSelect, TapToCancel, NextStep, Crash, Next
<1>7. CASE Back
  BY <1>7 DEF Back, Next
<1>8. CASE UNCHANGED allVars
  BY <1>1, <1>8 DEF allVars
<1> QED BY <1>3, <1>4, <1>5, <1>6, <1>7, <1>8 DEF ScreenNext

LEMMA ScreenInvInit == ScreenInit => ScreenInv
BY InitIInv DEF ScreenInit, ScreenInv, ShowsPicture, Init

LEMMA ScreenInvNext == ScreenInv /\ [ScreenNext]_allVars => ScreenInv'
<1> SUFFICES ASSUME ScreenInv, [ScreenNext]_allVars PROVE ScreenInv'
  OBVIOUS
<1>0. /\ IInv
      /\ screen = "preview" => currentPicture \in Picture
      /\ model.selectedPictures \in Seq(Picture)
  BY DEF ScreenInv, ShowsPicture, IInv, TypeOK, Models
<1>1. IInv'
  BY <1>0, ScreenStepIsPickerStep, NextIInv
<1> SUFFICES ShowsPicture'
  BY <1>1 DEF ScreenInv
<1>a. screen' # "preview" => ShowsPicture'
  BY DEF ShowsPicture
<1>b. screen' = screen /\ currentPicture' = currentPicture => ShowsPicture'
  BY <1>0 DEF ShowsPicture
<1>2. CASE PickerStep
  BY <1>2, <1>a, <1>b
     DEF PickerStep, previewVars, AlbumsLoaded, TapSelect, TapCancel, ImageArrives,
         ProgressComplete, ImageMissing, AnimationDone, ChangeAlbum, TapNextStep,
         TapClose, ControllerGone, Deliver
<1>3. CASE OpenFromBar
  <2>1. CASE screen' = "preview"
    <3>1. model.selectedPictures # << >>
      BY <1>3 DEF OpenFromBar, TapPreviewButton, SomethingSelected
    <3>2. Head(Selected) \in Picture
      BY <1>0, <3>1 DEF Selected
    <3> QED BY <1>3, <2>1, <3>2 DEF OpenFromBar, NewPreview, ShowsPicture
  <2> QED BY <1>a, <2>1
<1>4. CASE \E p \in Picture : Open(p)
  BY <1>4 DEF Open, NewPreview, ShowsPicture
<1>5. CASE PreviewCrash
  BY <1>5, <1>a DEF PreviewCrash
<1>6. CASE \E p \in Picture : Scroll(p)
  BY <1>5, <1>6 DEF Scroll, Crash, ShowsPicture
<1>7. CASE \/ BeginDragging \/ EndDecelerating \/ TapEdit
           \/ \E i \in DOMAIN updates : UpdateDone(i)
           \/ \E b \in BOOLEAN : ImageForEditor(b) \/ EditorReturns(b)
  BY <1>5, <1>7, <1>b
     DEF BeginDragging, EndDecelerating, UpdateDone, TapEdit, ImageForEditor,
         EditorReturns, Crash, vars
<1>8. CASE TapToSelect \/ TapToCancel
  BY <1>5, <1>8, <1>b
     DEF TapToSelect, TapToCancel, Crash, BatchUpdated, PreviewSelect, PreviewCancel
<1>9. CASE NextStep \/ Back
  BY <1>5, <1>9, <1>a
     DEF NextStep, Back, Crash, PreviewNextStep, PreviewBack, Deliver
<1>10. CASE UNCHANGED allVars
  BY <1>10, <1>b DEF allVars, vars, previewVars
<1> QED
  BY <1>2, <1>3, <1>4, <1>6, <1>7, <1>8, <1>9, <1>10 DEF ScreenNext

(* The preview screen, with its stale button, its strip and its edits,     *)
(* implements the picker's specification.                                  *)
THEOREM PreviewImplementsPicker == ScreenSpec => ImplementsPicker
<1>1. ScreenInit => Init
  BY DEF ScreenInit
<1>2. ScreenInv /\ [ScreenNext]_allVars => [Next]_vars
  BY ScreenStepIsPickerStep
<1> QED
  BY <1>1, <1>2, ScreenInvInit, ScreenInvNext, PTL
     DEF ScreenSpec, ImplementsPicker, Spec

(* So the whole flow keeps the promise of NumberedChoice.                  *)
THEOREM PreviewKeepsPromise == ScreenSpec => KeepsPromise
BY PreviewImplementsPicker, PickerKeepsPromise, PTL DEF ImplementsPicker

-----------------------------------------------------------------------------
(* The preview's own variables.                                            *)

(* The counter counts from zero what the preview itself adds to the array  *)
(* and takes from it; the late answers only add to the array.              *)
CountBounded ==
  IF screen = "preview" THEN selectedPicturesCount <= Len(Selected)
                        ELSE selectedPicturesCount = 0

(* What NumberIsPosition needs: a number at rest was written when the      *)
(* picture had it, or when the picture was not selected at all.            *)
NumberAtRest ==
  (/\ screen = "preview" /\ ~ dragging /\ updates = << >>
   /\ button.selected)
    => \/ button.index = NotFoundPlusOne
       \/ /\ InArray(model, currentPicture)
          /\ button.index = PositionOf(Selected, currentPicture)

ScreenIInv ==
  /\ ScreenInv
  /\ ScreenTypeOK
  /\ CountBounded
  /\ StripNeverAhead
  /\ NumberAtRest

(* A picture that is appended moves no other one.                          *)
LEMMA PositionStays ==
  ASSUME Sound(model), Sound(model'), NEW p \in Picture, InArray(model, p),
         Kept(model, model') \/ Extended(model, model')
  PROVE  /\ InArray(model', p)
         /\ PositionOf(model'.selectedPictures, p) =
              PositionOf(model.selectedPictures, p)
<1> DEFINE s == model.selectedPictures
           t == model'.selectedPictures
           i == PositionOf(s, p)
<1>1. /\ s \in Seq(Picture)
      /\ t \in Seq(Picture)
      /\ \A j, k \in DOMAIN t : t[j] = t[k] => j = k
      /\ i \in 1 .. Len(s)
      /\ s[i] = p
  BY PositionOfProperties DEF Sound, Models, Consistent, NoDuplicates
<1>2. i \in 1 .. Len(t) /\ t[i] = p
  <2>1. CASE Kept(model, model')
    BY <1>1, <2>1 DEF Kept
  <2>2. CASE Extended(model, model')
    <3> PICK q \in Picture : t = Append(s, q)
      BY <2>2 DEF Extended
    <3>1. Len(t) = Len(s) + 1 /\ \A j \in 1 .. Len(s) : t[j] = s[j]
      BY <1>1
    <3>2. i \in 1 .. Len(t)
      BY <1>1, <3>1
    <3> QED BY <1>1, <3>1, <3>2
  <2> QED BY <2>1, <2>2
<1> HIDE DEF i, s
<1>3. InArray(model', p)
  BY <1>2 DEF InArray, Contains
<1>4. PositionOf(t, p) \in 1 .. Len(t) /\ t[PositionOf(t, p)] = p
  BY <1>3, PositionOfProperties
<1>5. PositionOf(t, p) = i
  BY <1>1, <1>2, <1>4
<1> QED BY <1>3, <1>5 DEF i, s

LEMMA NumberIsInt ==
  ASSUME Sound(model), NEW p
  PROVE  Number(p) \in Int
<1>1. CASE InArray(model, p)
  <2>1. /\ PositionOf(Selected, p) \in 1 .. Len(Selected)
        /\ Len(Selected) \in Nat
    BY <1>1, PositionOfProperties DEF Selected, Sound, Models
  <2> QED BY <1>1, <2>1 DEF Number
<1>2. CASE ~ InArray(model, p)
  BY <1>2 DEF Number, NotFoundPlusOne
<1> QED BY <1>1, <1>2

(* Under the preview the picker only takes late answers, and completions   *)
(* that the selection does not notice.                                     *)
LEMMA PickerUnderPreview ==
  ASSUME ScreenInv, PickerStep
  PROVE  /\ UNCHANGED previewVars
         /\ screen' = "preview" => screen = "preview"
         /\ screen = "preview" => Kept(model, model') \/ Extended(model, model')
<1>0. Sound(model)
  BY DEF ScreenInv, IInv
<1>1. UNCHANGED previewVars
  BY DEF PickerStep
<1>2. screen' = "preview" => screen = "preview"
  BY DEF PickerStep, AlbumsLoaded, TapSelect, TapCancel, ImageArrives,
         ProgressComplete, ImageMissing, AnimationDone, ChangeAlbum, TapNextStep,
         TapClose, ControllerGone, Deliver
<1>3. ASSUME NEW p \in Picture, Answer(p)
      PROVE  Kept(model, model') \/ Extended(model, model')
  BY <1>0, <1>3, SelectingChanges DEF Answer, Kept
<1>4. ASSUME screen = "preview" PROVE Kept(model, model') \/ Extended(model, model')
  <2>1. \/ \E p \in Picture : Answer(p)
        \/ UNCHANGED model
    BY <1>4
       DEF PickerStep, AlbumsLoaded, TapSelect, TapCancel, CanTapCell, ImageArrives,
           ProgressComplete, ImageMissing, AnimationDone, ChangeAlbum, TapNextStep,
           BarUsable, TapClose, ControllerGone
  <2> QED BY <1>3, <2>1 DEF Kept
<1> QED BY <1>1, <1>2, <1>4

LEMMA ScreenIInvInit == ScreenInit => ScreenIInv
<1> SUFFICES ASSUME ScreenInit PROVE ScreenIInv
  OBVIOUS
<1>1. ScreenInv
  BY ScreenInvInit
<1>2. updates \in Seq({"select", "cancel"})
  BY EmptySeq DEF ScreenInit
<1>3. 0 \in - MaxDrift .. MaxCount
  BY MaxCountAssumption, PreviewBoundAssumption
<1>6. button \in [selected : BOOLEAN, index : Int]
  BY DEF ScreenInit, Unselected
<1>7. /\ currentPicture \in Picture \cup {Nobody}
      /\ channelItems \in Nat \cup {Unloaded}
      /\ edit \in Edits
      /\ editedImage \in [Picture -> Picture \cup {NotEdited}]
  BY DEF ScreenInit, Edits
<1>8. selectedPicturesCount \in - MaxDrift .. MaxCount /\ dragging \in BOOLEAN
  BY <1>3 DEF ScreenInit
<1>4. ScreenTypeOK
  BY <1>2, <1>6, <1>7, <1>8 DEF ScreenTypeOK
<1>5. CountBounded /\ StripNeverAhead /\ NumberAtRest
  BY DEF ScreenInit, Init, CountBounded, StripNeverAhead, NumberAtRest
<1> QED BY <1>1, <1>4, <1>5 DEF ScreenIInv

(* A new preview controller, and the screen left behind.                   *)
LEMMA NewPreviewIInv ==
  ASSUME ScreenIInv, ScreenInv', NEW p \in Picture, NewPreview(p),
         UNCHANGED model, screen' = "preview"
  PROVE  ScreenIInv'
<1>0. /\ ScreenTypeOK
      /\ Sound(model)
      /\ Selected' = Selected
      /\ Len(Selected) \in Nat
  BY DEF ScreenIInv, ScreenInv, IInv, Sound, Models, Selected
<1>1. Number(p) \in Int
  BY <1>0, NumberIsInt
<1>2. /\ button' \in [selected : BOOLEAN, index : Int]
      /\ button'.selected => InArray(model, p) /\ button'.index = Number(p)
  BY <1>1 DEF NewPreview, ButtonOnAppearing, Unselected
<1>3. channelItems' \in Nat \cup {Unloaded}
      /\ (channelItems' # Unloaded => channelItems' <= Len(Selected))
  BY <1>0 DEF NewPreview
<1>4. 0 \in - MaxDrift .. MaxCount
  BY MaxCountAssumption, PreviewBoundAssumption
<1>5. updates' \in Seq({"select", "cancel"})
  BY EmptySeq DEF NewPreview
<1>6. ScreenTypeOK'
  BY <1>0, <1>2, <1>3, <1>4, <1>5 DEF NewPreview, ScreenTypeOK
<1>7. CountBounded' /\ StripNeverAhead'
  BY <1>0, <1>3 DEF NewPreview, CountBounded, StripNeverAhead
<1>8. NumberAtRest'
  BY <1>0, <1>2 DEF NewPreview, NumberAtRest, Number, InArray
<1> QED BY <1>6, <1>7, <1>8 DEF ScreenIInv

LEMMA GoneIInv ==
  ASSUME ScreenIInv, ScreenInv', NoPreview, screen' # "preview",
         edit' \in Edits, UNCHANGED editedImage
  PROVE  ScreenIInv'
<1>1. 0 \in - MaxDrift .. MaxCount
  BY MaxCountAssumption, PreviewBoundAssumption
<1>2. updates' \in Seq({"select", "cancel"})
  BY EmptySeq DEF NoPreview
<1>5. button' \in [selected : BOOLEAN, index : Int]
  BY DEF NoPreview, Unselected
<1>6. /\ currentPicture' \in Picture \cup {Nobody}
      /\ channelItems' \in Nat \cup {Unloaded}
      /\ editedImage' \in [Picture -> Picture \cup {NotEdited}]
  BY DEF NoPreview, ScreenIInv, ScreenTypeOK
<1>7. selectedPicturesCount' \in - MaxDrift .. MaxCount /\ dragging' \in BOOLEAN
  BY <1>1 DEF NoPreview
<1>3. ScreenTypeOK'
  BY <1>2, <1>5, <1>6, <1>7 DEF ScreenTypeOK
<1>4. CountBounded' /\ StripNeverAhead' /\ NumberAtRest'
  BY DEF NoPreview, CountBounded, StripNeverAhead, NumberAtRest
<1> QED BY <1>3, <1>4 DEF ScreenIInv

LEMMA ScreenIInvNext == ScreenIInv /\ [ScreenNext]_allVars => ScreenIInv'
<1> SUFFICES ASSUME ScreenIInv, [ScreenNext]_allVars PROVE ScreenIInv'
  OBVIOUS
<1>0. /\ ScreenInv
      /\ ScreenInv'
      /\ ScreenTypeOK
      /\ Sound(model)
      /\ Sound(model')
      /\ Selected \in Seq(Picture)
      /\ Selected' \in Seq(Picture)
      /\ screen = "preview" => currentPicture \in Picture
  BY ScreenInvNext DEF ScreenIInv, ScreenInv, IInv, Sound, Models, Selected, ShowsPicture
<1>1. CASE PickerStep
  <2>1. /\ UNCHANGED previewVars
        /\ screen' = "preview" => screen = "preview"
        /\ screen = "preview" => Kept(model, model') \/ Extended(model, model')
    BY <1>0, <1>1, PickerUnderPreview
  <2>2. ScreenTypeOK'
    BY <1>0, <2>1 DEF previewVars, ScreenTypeOK
  <2>3. screen = "preview" => Len(Selected) <= Len(Selected')
    <3>1. CASE Kept(model, model')
      BY <1>0, <3>1 DEF Kept, Selected
    <3>2. CASE Extended(model, model')
      <4> PICK q \in Picture : Selected' = Append(Selected, q)
        BY <3>2 DEF Extended, Selected
      <4> QED BY <1>0
    <3> QED BY <2>1, <3>1, <3>2
  <2>4. CountBounded'
    <3>1. CASE screen' = "preview"
      <4>1. selectedPicturesCount <= Len(Selected)
        BY <2>1, <3>1 DEF ScreenIInv, CountBounded
      <4>2. selectedPicturesCount \in Int
        BY <1>0 DEF ScreenTypeOK
      <4>3. selectedPicturesCount <= Len(Selected')
        BY <1>0, <2>1, <2>3, <3>1, <4>1, <4>2
      <4> QED BY <2>1, <3>1, <4>3 DEF CountBounded, previewVars
    <3>2. CASE screen' # "preview"
      <4>1. CASE screen # "preview"
        BY <2>1, <3>2, <4>1 DEF ScreenIInv, CountBounded, previewVars
      <4>2. CASE screen = "preview"
        <5>1. screen' = screen
          BY <1>1, <4>2
             DEF PickerStep, AlbumsLoaded, TapSelect, TapCancel, ImageArrives,
                 ProgressComplete, ImageMissing, AnimationDone, ChangeAlbum,
                 TapNextStep, BarUsable, TapClose, ControllerGone
        <5> QED BY <3>2, <4>2, <5>1
      <4> QED BY <4>1, <4>2
    <3> QED BY <3>1, <3>2
  <2>5. StripNeverAhead'
    <3>1. channelItems \in Nat \cup {Unloaded} /\ channelItems' = channelItems
      BY <1>0, <2>1 DEF ScreenTypeOK, previewVars
    <3>2. screen' = "preview" /\ channelItems # Unloaded
            => channelItems <= Len(Selected) /\ channelItems \in Nat
      BY <2>1, <3>1 DEF ScreenIInv, StripNeverAhead
    <3> QED BY <1>0, <2>1, <2>3, <3>1, <3>2 DEF StripNeverAhead
  <2>6. NumberAtRest'
    BY <1>0, <2>1, PositionStays
       DEF ScreenIInv, NumberAtRest, previewVars, Selected
  <2> QED BY <1>0, <2>2, <2>4, <2>5, <2>6 DEF ScreenIInv
<1>2. CASE OpenFromBar
  <2>1. CASE screen' = "preview"
    <3>1. model.selectedPictures # << >> /\ UNCHANGED model
      BY <1>2 DEF OpenFromBar, TapPreviewButton, SomethingSelected
    <3>2. Head(Selected) \in Picture
      BY <1>0, <3>1 DEF Selected
    <3> QED BY <1>0, <1>2, <2>1, <3>1, <3>2, NewPreviewIInv DEF OpenFromBar
  <2>2. CASE screen' # "preview"
    <3>1. UNCHANGED previewVars /\ screen # "preview"
      BY <1>2, <2>2 DEF OpenFromBar, TapPreviewButton, BarUsable
    <3>2. ScreenTypeOK'
      BY <1>0, <3>1 DEF ScreenTypeOK, previewVars
    <3>3. CountBounded' /\ StripNeverAhead' /\ NumberAtRest'
      BY <2>2, <3>1
         DEF ScreenIInv, CountBounded, StripNeverAhead, NumberAtRest, previewVars
    <3> QED BY <1>0, <3>2, <3>3 DEF ScreenIInv
  <2> QED BY <2>1, <2>2
<1>3. CASE \E p \in Picture : Open(p)
  BY <1>0, <1>3, NewPreviewIInv DEF Open, OpenPreview
<1>4. CASE Crash
  BY <1>0, <1>4, GoneIInv DEF Crash, PreviewCrash, Edits
<1>5. CASE NextStep \/ Back
  <2>1. CASE Leave /\ screen' # "preview"
    <3>1. edit' \in Edits
      <4>0. edit \in Edits
        BY <1>0 DEF ScreenTypeOK
      <4>1. CASE edit.stage = "fetching"
        <5>1. edit.of \in Picture /\ edit = [stage |-> edit.stage, of |-> edit.of]
          BY <4>0, <4>1 DEF Edits, NoEdit
        <5>2. edit' = [stage |-> "orphaned", of |-> edit.of]
          BY <2>1, <4>1, <5>1 DEF Leave
        <5> QED BY <5>1, <5>2 DEF Edits
      <4>2. CASE edit.stage # "fetching"
        BY <2>1, <4>0, <4>2 DEF Leave
      <4> QED BY <4>1, <4>2
    <3> QED BY <1>0, <2>1, <3>1, GoneIInv DEF Leave
  <2> QED BY <1>4, <1>5, <2>1 DEF NextStep, Back, PreviewNextStep, PreviewBack, Deliver
(* The handlers that leave the selection alone.                            *)
<1>6. ASSUME UNCHANGED vars, UNCHANGED <<channelItems, selectedPicturesCount>>,
             ScreenTypeOK', NumberAtRest'
      PROVE  ScreenIInv'
  BY <1>0, <1>6 DEF ScreenIInv, CountBounded, StripNeverAhead, Selected, vars
<1>7. CASE BeginDragging
  <2>1. ScreenTypeOK'
    BY <1>0, <1>7 DEF BeginDragging, ScreenTypeOK
  <2>2. NumberAtRest'
    BY <1>7 DEF BeginDragging, NumberAtRest
  <2> QED BY <1>6, <1>7, <2>1, <2>2 DEF BeginDragging
<1>8. CASE \E p \in Picture : Scroll(p)
  <2> PICK p \in Picture : Scroll(p)
    BY <1>8
  <2>1. CASE StripLacks(p)
    BY <1>4, <2>1 DEF Scroll
  <2>2. CASE ~ StripLacks(p)
    <3>1. ScreenTypeOK'
      BY <1>0, <2>2 DEF Scroll, ScreenTypeOK
    <3>2. NumberAtRest'
      BY <2>2 DEF Scroll, NumberAtRest
    <3> QED BY <1>6, <2>2, <3>1, <3>2 DEF Scroll
  <2> QED BY <2>1, <2>2
<1>9. CASE EndDecelerating
  <2>1. Number(currentPicture) \in Int
    BY <1>0, NumberIsInt
  <2>2. /\ button' \in [selected : BOOLEAN, index : Int]
        /\ button'.selected =>
             InArray(model, currentPicture) /\ button'.index = Number(currentPicture)
    BY <1>0, <1>9, <2>1 DEF EndDecelerating, ButtonAfterScrolling, ScreenTypeOK
  <2>3. ScreenTypeOK'
    BY <1>0, <1>9, <2>2 DEF EndDecelerating, ScreenTypeOK
  <2>4. NumberAtRest'
    BY <1>9, <2>2 DEF EndDecelerating, NumberAtRest, Number, InArray, Selected, vars
  <2> QED BY <1>6, <1>9, <2>3, <2>4 DEF EndDecelerating
<1>10. ASSUME NEW k \in {"select", "cancel"}, BatchUpdated(k), screen = "preview",
              UNCHANGED screen
       PROVE  ScreenIInv'
  <2>1. updates' \in Seq({"select", "cancel"}) /\ updates' # << >>
    <3>1. updates \in Seq({"select", "cancel"}) /\ updates' = Append(updates, k)
      BY <1>0, <1>10 DEF BatchUpdated, ScreenTypeOK
    <3>2. Len(updates') = Len(updates) + 1 /\ Len(updates) \in Nat
      BY <3>1
    <3>3. updates' # << >>
      BY <3>2
    <3> QED BY <3>1, <3>3
  <2>2. channelItems' = Len(Selected') /\ Len(Selected') \in Nat
    BY <1>0, <1>10 DEF BatchUpdated, Selected
  <2>3. Len(Selected') <= MaxCount
    BY <1>0 DEF Sound, Consistent, Bounded, Selected
  <2>4. /\ selectedPicturesCount \in Int
        /\ selectedPicturesCount <= Len(Selected)
        /\ Len(Selected) \in Nat
    BY <1>0, <1>10 DEF ScreenIInv, CountBounded, ScreenTypeOK
  <2>5. /\ selectedPicturesCount' = selectedPicturesCount + Len(Selected') - Len(Selected)
        /\ selectedPicturesCount' >= - MaxDrift
    BY <1>10 DEF BatchUpdated, Selected
  <2>6. /\ selectedPicturesCount' <= Len(Selected')
        /\ selectedPicturesCount' \in - MaxDrift .. MaxCount
    BY <2>2, <2>3, <2>4, <2>5, MaxCountAssumption, PreviewBoundAssumption
  <2>7. ScreenTypeOK'
    BY <1>0, <1>10, <2>1, <2>2, <2>6 DEF BatchUpdated, ScreenTypeOK
  <2>8. CountBounded' /\ StripNeverAhead'
    BY <1>10, <2>2, <2>6 DEF CountBounded, StripNeverAhead
  <2>9. NumberAtRest'
    BY <2>1 DEF NumberAtRest
  <2> QED BY <1>0, <2>7, <2>8, <2>9 DEF ScreenIInv
<1>11. CASE TapToSelect \/ TapToCancel
  BY <1>4, <1>10, <1>11
     DEF TapToSelect, TapToCancel, OnTop, PreviewSelect, PreviewCancel
<1>12. CASE \E i \in DOMAIN updates : UpdateDone(i)
  <2> PICK i \in DOMAIN updates : UpdateDone(i)
    BY <1>12
  <2>1. CASE updates[i] = "select" /\ StripLacks(currentPicture)
    BY <1>4, <2>1 DEF UpdateDone
  <2>2. CASE ~ (updates[i] = "select" /\ StripLacks(currentPicture))
    <3>1. Number(currentPicture) \in Int
      BY <1>0, NumberIsInt
    <3>0. /\ button \in [selected : BOOLEAN, index : Int]
          /\ button' = IF updates[i] = "select"
                       THEN [selected |-> TRUE, index |-> Number(currentPicture)]
                       ELSE [button EXCEPT !.selected = FALSE]
      BY <1>0, <2>2 DEF UpdateDone, ScreenTypeOK
    <3>2. /\ button' \in [selected : BOOLEAN, index : Int]
          /\ button'.selected => button'.index = Number(currentPicture)
      <4>1. CASE updates[i] = "select"
        BY <3>0, <3>1, <4>1
      <4>2. CASE updates[i] # "select"
        BY <3>0, <4>2
      <4> QED BY <4>1, <4>2
    <3>3. updates' \in Seq({"select", "cancel"})
      <4>1. updates \in Seq({"select", "cancel"}) /\ i \in 1 .. Len(updates)
        BY <1>0 DEF ScreenTypeOK
      <4> QED BY <2>2, <4>1, RemoveAtType DEF UpdateDone
    <3>4. ScreenTypeOK'
      BY <1>0, <2>2, <3>2, <3>3 DEF UpdateDone, ScreenTypeOK
    <3>5. NumberAtRest'
      BY <2>2, <3>2 DEF UpdateDone, NumberAtRest, Number, InArray, Selected, vars
    <3> QED BY <1>6, <2>2, <3>4, <3>5 DEF UpdateDone
  <2> QED BY <2>1, <2>2
<1>13. CASE TapEdit
  <2>1. edit' \in Edits
    BY <1>0, <1>13 DEF TapEdit, OnTop, Edits
  <2>2. ScreenTypeOK'
    BY <1>0, <1>13, <2>1 DEF TapEdit, ScreenTypeOK
  <2>3. NumberAtRest'
    BY <1>13 DEF TapEdit, ScreenIInv, NumberAtRest, Selected, vars
  <2> QED BY <1>6, <1>13, <2>2, <2>3 DEF TapEdit
<1>14. CASE \E b \in BOOLEAN : ImageForEditor(b)
  <2> PICK b \in BOOLEAN : ImageForEditor(b)
    BY <1>14
  <2>1. CASE ~ (b /\ edit.stage = "fetching")
    BY <1>4, <2>1 DEF ImageForEditor
  <2>2. CASE b /\ edit.stage = "fetching"
    <3>1. edit' \in Edits
      <4>1. edit \in [stage : {"fetching", "orphaned", "editing"}, of : Picture]
        BY <1>0, <2>2 DEF ScreenTypeOK, Edits, NoEdit
      <4>2. edit' = [edit EXCEPT !.stage = "editing"]
        BY <2>2 DEF ImageForEditor
      <4> QED BY <4>1, <4>2 DEF Edits
    <3>2. ScreenTypeOK'
      BY <1>0, <2>2, <3>1 DEF ImageForEditor, ScreenTypeOK
    <3>3. NumberAtRest'
      BY <2>2 DEF ImageForEditor, ScreenIInv, NumberAtRest, Selected, vars
    <3> QED BY <1>6, <2>2, <3>2, <3>3 DEF ImageForEditor
  <2> QED BY <2>1, <2>2
<1>15. CASE \E b \in BOOLEAN : EditorReturns(b)
  <2> PICK b \in BOOLEAN : EditorReturns(b)
    BY <1>15
  <2>1. CASE AppearingFails
    BY <1>4, <2>1 DEF EditorReturns
  <2>2. CASE ~ AppearingFails
    <3>1. Number(currentPicture) \in Int
      BY <1>0, NumberIsInt
    <3>2. /\ button' \in [selected : BOOLEAN, index : Int]
          /\ \/ /\ InArray(model, currentPicture)
                /\ button'.index = Number(currentPicture)
             \/ ~ InArray(model, currentPicture) /\ button' = button
      <4>1. button' = ButtonOnAppearing(button, currentPicture)
        BY <2>2 DEF EditorReturns
      <4> QED BY <1>0, <3>1, <4>1 DEF ButtonOnAppearing, ScreenTypeOK
    <3>3. edit.of \in Picture
      BY <1>0 DEF EditorReturns, ScreenTypeOK, Edits, NoEdit
    <3>4. ScreenTypeOK'
      BY <1>0, <2>2, <3>2, <3>3 DEF EditorReturns, ScreenTypeOK, Edits
    <3>5. NumberAtRest'
      BY <2>2, <3>2
         DEF EditorReturns, ScreenIInv, NumberAtRest, Number, InArray, Selected, vars
    <3> QED BY <1>6, <2>2, <3>4, <3>5 DEF EditorReturns
  <2> QED BY <2>1, <2>2
<1>16. CASE UNCHANGED allVars
  <2>1. ScreenTypeOK'
    BY <1>0, <1>16 DEF allVars, previewVars, ScreenTypeOK
  <2>2. NumberAtRest'
    BY <1>16 DEF allVars, previewVars, ScreenIInv, NumberAtRest, Selected, vars
  <2> QED BY <1>6, <1>16, <2>1, <2>2 DEF allVars, previewVars
<1> QED
  BY <1>1, <1>2, <1>3, <1>5, <1>7, <1>8, <1>9, <1>11, <1>12, <1>13, <1>14, <1>15,
     <1>16 DEF ScreenNext

LEMMA ScreenInvariant == ScreenSpec => []ScreenIInv
BY ScreenIInvInit, ScreenIInvNext, PTL DEF ScreenSpec

(* The preview's variables keep to their sets; in particular its counter,  *)
(* which nothing resets, never exceeds the limit.                          *)
THEOREM ScreenTypeCorrect == ScreenSpec => []ScreenTypeOK
<1>1. ScreenIInv => ScreenTypeOK
  BY DEF ScreenIInv
<1> QED BY <1>1, ScreenInvariant, PTL

(* The strip never believes in more items than there are pictures.         *)
THEOREM StripStaysBehind == ScreenSpec => []StripNeverAhead
<1>1. ScreenIInv => StripNeverAhead
  BY DEF ScreenIInv
<1> QED BY <1>1, ScreenInvariant, PTL

(* At rest, the button never shows another picture's number.               *)
THEOREM ButtonNumberRight == ScreenSpec => []NumberIsPosition
<1>1. ScreenIInv => NumberIsPosition
  BY DEF ScreenIInv, NumberAtRest, NumberIsPosition
<1> QED BY <1>1, ScreenInvariant, PTL

(* What makes the program end with an exception.                           *)
StripBehind == channelItems \notin {Unloaded, Len(Selected)}

CrashCause ==
  \/ screen = "preview" /\ StripBehind
  \/ screen = "preview" /\ ~ button.selected /\ InArray(model, currentPicture)
  \/ edit.stage \in {"fetching", "orphaned"}
  \/ screen = "picker" /\ SomethingSelected(model) /\ ~ Shown(Head(Selected))

(* Without a preview: the bar, and the image for an editor, are what is    *)
(* left to raise one.                                                      *)
LEMMA CrashHasCauseInPicker ==
  ASSUME [ScreenNext]_allVars, screen \notin {"preview", "crashed"},
         screen' = "crashed"
  PROVE  CrashCause
<1>1. CASE OpenFromBar
  BY <1>1 DEF OpenFromBar, TapPreviewButton, BarUsable, CrashCause, Selected
<1>2. CASE \E b \in BOOLEAN : ImageForEditor(b)
  BY <1>2 DEF ImageForEditor, CrashCause
<1> QED
  BY <1>1, <1>2
     DEF ScreenNext, allVars, vars, PickerStep, AlbumsLoaded, TapSelect, TapCancel,
         ImageArrives, ProgressComplete, ImageMissing, AnimationDone, ChangeAlbum,
         TapNextStep, TapClose, ControllerGone, Deliver, Open, OpenPreview, Scroll,
         BeginDragging, EndDecelerating, OnTop, TapToSelect, TapToCancel, NextStep,
         Back, UpdateDone, TapEdit, EditorReturns

LEMMA CrashHasCauseInPreview ==
  ASSUME ScreenIInv, [ScreenNext]_allVars, screen = "preview", screen' = "crashed"
  PROVE  CrashCause
<1> SUFFICES ASSUME ~ StripBehind PROVE CrashCause
  BY DEF CrashCause
<1>0. /\ ScreenTypeOK
      /\ Sound(model)
      /\ Selected \in Seq(Picture)
      /\ currentPicture \in Picture
      /\ Len(Selected) \in Nat
      /\ Known = Len(Selected)
  BY DEF ScreenIInv, ScreenInv, IInv, Sound, Models, Selected, ShowsPicture,
         StripBehind, Known
<1>1. \A p \in Picture : ~ StripLacks(p)
  BY <1>0, PositionOfProperties DEF StripLacks, Selected
<1>2. InArray(model, currentPicture) \/ SelectionAddsUp
  <2>1. CASE Full(model) \/ ~ InArray(model, currentPicture)
    <3>1. CASE Full(model)
      BY <1>0, <3>1 DEF SelectionAddsUp, Inserted, SelectedInPreview, Selected
    <3>2. CASE ~ Full(model) /\ ~ InArray(model, currentPicture)
      <4>1. SelectedInPreview(model, currentPicture).selectedPictures =
              Append(model.selectedPictures, currentPicture)
        BY <1>0, <3>2, SelectedInPreviewSound
      <4>2. Len(SelectedInPreview(model, currentPicture).selectedPictures) =
              Len(Selected) + 1
        BY <1>0, <4>1 DEF Selected
      <4> QED BY <1>0, <3>2, <4>2 DEF SelectionAddsUp, Inserted
    <3> QED BY <2>1, <3>1, <3>2
  <2> QED BY <2>1
<1>3. CASE TapToSelect
  <2>1. ~ button.selected /\ ~ SelectionAddsUp
    BY <1>3 DEF TapToSelect, PreviewSelect
  <2> QED BY <1>2, <2>1 DEF CrashCause
<1>4. CASE \E b \in BOOLEAN : ImageForEditor(b) \/ EditorReturns(b)
  BY <1>0, <1>1, <1>4
     DEF ImageForEditor, EditorReturns, AppearingFails, vars, CrashCause
<1> QED
  BY <1>0, <1>1, <1>2, <1>3, <1>4
     DEF ScreenNext, allVars, vars, PickerStep, AlbumsLoaded, TapSelect, TapCancel,
         ImageArrives, ProgressComplete, ImageMissing, AnimationDone, ChangeAlbum,
         TapNextStep, TapClose, ControllerGone, Deliver, OpenFromBar,
         TapPreviewButton, BarUsable, Open, OpenPreview, Scroll, BeginDragging,
         EndDecelerating, TapToCancel, PreviewCancel, NextStep, PreviewNextStep,
         Back, PreviewBack, UpdateDone, TapEdit

(* The program ends with an exception only for one of these four reasons.  *)
THEOREM CrashesAreExplained == ScreenSpec => CrashesExplained
<1>1. ScreenIInv /\ [ScreenNext]_allVars
        => [screen # "crashed" /\ screen' = "crashed" => CrashCause]_allVars
  BY CrashHasCauseInPicker, CrashHasCauseInPreview
<1>2. [screen # "crashed" /\ screen' = "crashed" => CrashCause]_allVars
        => [screen # "crashed" /\ screen' = "crashed"
              => \/ screen = "preview" /\ channelItems \notin {Unloaded, Len(Selected)}
                 \/ screen = "preview" /\ ~ button.selected
                      /\ InArray(model, currentPicture)
                 \/ edit.stage \in {"fetching", "orphaned"}
                 \/ /\ screen = "picker" /\ SomethingSelected(model)
                    /\ ~ Shown(Head(Selected))]_allVars
  BY DEF CrashCause, StripBehind
<1> QED BY <1>1, <1>2, ScreenInvariant, PTL DEF ScreenSpec, CrashesExplained
=============================================================================
