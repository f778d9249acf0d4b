------------------------- MODULE PickerCellsProofs -------------------------
(***************************************************************************)
(* What the reused cells of the picker show, for every number of cells and *)
(* pictures and every limit.                                               *)
(*                                                                         *)
(* The properties speak of the moment when no completion is due.  The      *)
(* inductive invariant says what holds in between: a cell that is wrong is *)
(* due to be refreshed by a completion that is still to run and that is    *)
(* not its own.  A completion may lose its power meanwhile (a selection    *)
(* that was full no longer is), but then a cancellation has come, and that *)
(* one's completion has it.                                                *)
(***************************************************************************)
EXTENDS PickerCells, SelectionModelProofs

(* A completion is due that refreshes c.                                   *)
Due(c) ==
  \E i \in DOMAIN animations :
    animations[i].cell # c /\ Refreshes(animations[i])

CancelDue(c) ==
  \E i \in DOMAIN animations :
    animations[i].cell # c /\ animations[i].kind = "cancel"

AskedByTap == \A i \in DOMAIN requests : requests[i].picture \in tapped

RightOrDue ==
  \A c \in Cell :
    OnDuty(c) /\ c \notin missed /\ c \notin strayed => LookRight(c) \/ Due(c)

AliveOrDue ==
  \A c \in Cell :
    OnDuty(c) /\ c \notin missed /\ ~ look[c].enabled
      => ~ model.enabled[picture[c]] \/ CancelDue(c)

IInv ==
  /\ TypeOK
  /\ Sound(model)
  /\ AskedByTap
  /\ SelectedByTap
  /\ RightOrDue
  /\ AliveOrDue

-----------------------------------------------------------------------------
LEMMA InitIInv == Init => IInv
<1> SUFFICES ASSUME Init PROVE IInv
  OBVIOUS
<1>1. Sound(model) /\ model \in Models
  BY EmptySound DEF Init, Sound
<1>2. /\ animations \in Seq(Animation)
      /\ requests \in Seq(Request)
      /\ DOMAIN requests = {}
  BY EmptySeq DEF Init
<1>3. \A p \in Picture : ~ model.selected[p]
  BY DEF Init, EmptySelection
<1>4. TypeOK
  <2>1. look \in [Cell -> Look]
    BY DEF Init, BlankLook, Look
  <2> QED BY <1>1, <1>2, <2>1 DEF Init, TypeOK, Places, OnDuty
<1>5. RightOrDue /\ AliveOrDue
  BY DEF Init, RightOrDue, AliveOrDue, OnDuty
<1>6. AskedByTap /\ SelectedByTap
  BY <1>2, <1>3 DEF AskedByTap, SelectedByTap
<1> QED BY <1>1, <1>4, <1>5, <1>6 DEF IInv

-----------------------------------------------------------------------------
(* What is due stays due while completions are added, and while another    *)
(* one that refreshes nothing runs.                                        *)
LEMMA StaysDue ==
  ASSUME TypeOK, NEW a \in Animation, animations' = Append(animations, a)
  PROVE  /\ animations' \in Seq(Animation)
         /\ \A c \in Cell : CancelDue(c) => CancelDue(c)'
         /\ model' = model => \A c \in Cell : Due(c) => Due(c)'
         /\ \A c \in Cell : CancelDue(c) => Due(c)'
         /\ \A c \in Cell : c # a.cell /\ a.kind = "cancel" => CancelDue(c)' /\ Due(c)'
         /\ \A c \in Cell :
              c # a.cell /\ a.success /\ Full(model') => Due(c)'
<1> DEFINE k == Len(animations)
<1>1. /\ animations \in Seq(Animation)
      /\ animations' \in Seq(Animation)
      /\ k \in Nat
      /\ DOMAIN animations = 1 .. k
      /\ DOMAIN animations' = 1 .. k + 1
      /\ \A i \in 1 .. k : animations'[i] = animations[i]
      /\ animations'[k + 1] = a
  BY DEF TypeOK
<1>2. \A i \in 1 .. k : i \in 1 .. k + 1
  BY <1>1
<1>3. k + 1 \in 1 .. k + 1
  BY <1>1
<1> HIDE DEF k
<1> QED BY <1>1, <1>2, <1>3 DEF Due, CancelDue, Refreshes

LEMMA DoneStaysDue ==
  ASSUME TypeOK, NEW i \in DOMAIN animations,
         animations' = RemoveAt(animations, i), UNCHANGED model
  PROVE  /\ animations' \in Seq(Animation)
         /\ \A c \in Cell :
              CancelDue(c) =>
                CancelDue(c)' \/ (c # animations[i].cell
                                   /\ animations[i].kind = "cancel")
         /\ \A c \in Cell :
              Due(c) =>
                Due(c)' \/ (c # animations[i].cell /\ Refreshes(animations[i]))
<1> DEFINE k == Len(animations)
<1>1. /\ animations \in Seq(Animation)
      /\ k \in Nat
      /\ DOMAIN animations = 1 .. k
      /\ i \in 1 .. k
  BY DEF TypeOK
<1>2. /\ animations' \in Seq(Animation)
      /\ Len(animations') = k - 1
      /\ \A j \in 1 .. k - 1 :
           animations'[j] = IF j < i THEN animations[j] ELSE animations[j + 1]
  BY <1>1, RemoveAtProperties
<1>3. ASSUME NEW j \in 1 .. k, j # i
      PROVE  \E l \in DOMAIN animations' : animations'[l] = animations[j]
  <2>0. DOMAIN animations' = 1 .. k - 1
    BY <1>1, <1>2
  <2>1. CASE j < i
    <3>1. j \in 1 .. k - 1
      BY <1>1, <2>1
    <3> QED BY <1>2, <2>0, <2>1, <3>1
  <2>2. CASE ~ j < i
    <3>1. j - 1 \in 1 .. k - 1 /\ ~ j - 1 < i /\ (j - 1) + 1 = j
      BY <1>1, <1>3, <2>2
    <3>2. animations'[j - 1] = animations[j]
      BY <1>2, <3>1
    <3> QED BY <2>0, <3>1, <3>2
  <2> QED BY <2>1, <2>2
<1> HIDE DEF k
<1>4. ASSUME NEW c \in Cell, CancelDue(c)
      PROVE  CancelDue(c)' \/ (c # animations[i].cell
                               /\ animations[i].kind = "cancel")
  <2> PICK j \in 1 .. k : animations[j].cell # c /\ animations[j].kind = "cancel"
    BY <1>1, <1>4 DEF CancelDue
  <2> QED BY <1>3 DEF CancelDue
<1>5. ASSUME NEW c \in Cell, Due(c)
      PROVE  Due(c)' \/ (c # animations[i].cell /\ Refreshes(animations[i]))
  <2> PICK j \in 1 .. k : animations[j].cell # c /\ Refreshes(animations[j])
    BY <1>1, <1>5 DEF Due
  <2> QED BY <1>3 DEF Due, Refreshes
<1> QED BY <1>2, <1>4, <1>5

(* A cell that a handler does not touch.                                   *)
Untouched(c) ==
  /\ place'[c] = place[c]
  /\ picture'[c] = picture[c]
  /\ look'[c] = look[c]

-----------------------------------------------------------------------------
(* The steps that leave the selection, the completions and the looks       *)
(* alone: scrolling and the taps that ask for an image.                    *)
LEMMA Scrolling ==
  ASSUME IInv, UNCHANGED <<model, picture, look, animations, missed, strayed>>,
         \A c \in Cell : OnDuty(c)' => OnDuty(c),
         TypeOK', AskedByTap', tapped \subseteq tapped'
  PROVE  IInv'
<1>1. \A c \in Cell : (LookRight(c) <=> LookRight(c)') /\ (Due(c) <=> Due(c)')
                      /\ (CancelDue(c) <=> CancelDue(c)')
  BY DEF LookRight, Due, CancelDue, Refreshes
<1>2. RightOrDue'
  BY <1>1 DEF IInv, RightOrDue
<1>3. AliveOrDue'
  BY <1>1 DEF IInv, AliveOrDue
<1> QED BY <1>2, <1>3 DEF IInv, SelectedByTap

LEMMA SettingUp ==
  ASSUME IInv, NEW c \in Cell, NEW p \in Picture, SetUp(c, p)
  PROVE  IInv'
<1>0. /\ TypeOK
      /\ p # NoPicture
  BY NoPictureAssumption DEF IInv
<1>1. /\ picture'[c] = p
      /\ look'[c] = SetUpLook(look[c], model, p)
      /\ \A d \in Cell \ {c} : Untouched(d)
  BY <1>0 DEF SetUp, TypeOK, Untouched
<1>2. SetUpLook(look[c], model, p) \in Look
  BY <1>0 DEF TypeOK, SetUpLook, Look, Models
<1>3. TypeOK'
  BY <1>0, <1>2 DEF SetUp, TypeOK, Places, OnDuty
<1>4. LookRight(c)'
  BY <1>1 DEF SetUp, LookRight, SetUpLook
<1>5. RightOrDue'
  <2>1. SUFFICES ASSUME NEW d \in Cell \ {c}, OnDuty(d)', d \notin missed',
                        d \notin strayed'
                 PROVE  LookRight(d)' \/ Due(d)'
    BY <1>4 DEF RightOrDue
  <2>2. LookRight(d) \/ Due(d)
    BY <1>1, <2>1 DEF SetUp, IInv, RightOrDue, OnDuty, Untouched
  <2> QED BY <1>1, <2>2 DEF SetUp, LookRight, Due, Refreshes, Untouched
<1>6. AliveOrDue'
  <2>1. SUFFICES ASSUME NEW d \in Cell \ {c}, OnDuty(d)', d \notin missed',
                        ~ look'[d].enabled
                 PROVE  ~ model'.enabled[picture'[d]] \/ CancelDue(d)'
    BY <1>4 DEF AliveOrDue, LookRight
  <2>2. ~ model.enabled[picture[d]] \/ CancelDue(d)
    BY <1>1, <2>1 DEF SetUp, IInv, AliveOrDue, OnDuty, Untouched
  <2> QED BY <1>1, <2>2 DEF SetUp, CancelDue, Untouched
<1> QED BY <1>3, <1>5, <1>6 DEF IInv, SetUp, AskedByTap, SelectedByTap

(* A cancellation: its own cell is drawn right, and every other one is due *)
(* to be refreshed.                                                        *)
LEMMA Cancelling ==
  ASSUME IInv, NEW c \in Cell, TapCancel(c)
  PROVE  IInv'
<1> DEFINE p == picture[c]
           a == [kind |-> "cancel", cell |-> c, success |-> TRUE]
<1>1. /\ TypeOK
      /\ Sound(model)
      /\ p \in Picture
      /\ model.selected[p]
      /\ look[c].enabled
      /\ model' = PickerCancelled(model, p)
      /\ look' = [look EXCEPT ![c] = SelectedLook(@, model', p)]
      /\ animations' = Append(animations, a)
      /\ UNCHANGED <<place, picture, requests, tapped, missed, strayed>>
  BY DEF IInv, TypeOK, TapCancel, CanTap
<1> HIDE DEF p
<1>2. a \in Animation
  BY DEF Animation
<1>3. /\ Sound(model')
      /\ model' \in Models
      /\ ~ model'.selected[p]
      /\ \A q \in Picture : model'.selected[q] => model.selected[q]
      /\ \A q \in Picture : model'.enabled[q]
  BY <1>1, PickerCancelledStatus DEF Sound
<1>4. /\ animations' \in Seq(Animation)
      /\ \A d \in Cell \ {c} : Due(d)' /\ CancelDue(d)'
  BY <1>1, <1>2, StaysDue
<1>5. look[c] \in Look
  BY <1>1 DEF TypeOK
<1>6. /\ SelectedLook(look[c], model', p) \in Look
      /\ SelectedLook(look[c], model', p).selected = model'.selected[p]
      /\ SelectedLook(look[c], model', p).enabled = look[c].enabled
  BY <1>1, <1>3, <1>5 DEF SelectedLook, Look, Models
<1>7. look'[c] = SelectedLook(look[c], model', p)
  BY <1>1 DEF TypeOK
<1>8. LookRight(c)'
  BY <1>1, <1>3, <1>6, <1>7 DEF LookRight, p
<1>9. TypeOK'
  BY <1>1, <1>3, <1>4, <1>6 DEF TypeOK, OnDuty
<1>10. RightOrDue'
  BY <1>4, <1>8 DEF RightOrDue
<1>11. AliveOrDue'
  BY <1>1, <1>4, <1>6, <1>7 DEF AliveOrDue
<1>12. AskedByTap' /\ SelectedByTap'
  BY <1>1, <1>3 DEF IInv, AskedByTap, SelectedByTap
<1> QED BY <1>3, <1>9, <1>10, <1>11, <1>12 DEF IInv

(* An answer.  If it fills the selection, its completion is due for every  *)
(* other cell; if not, only the status of its own picture changes, and the *)
(* cells that are not told of that have gone astray.                       *)
LEMMA Answering ==
  ASSUME IInv, NEW r \in Request, r.picture \in tapped, Answer(r),
         UNCHANGED <<place, picture, tapped, missed>>,
         requests' \in Seq(Request), AskedByTap'
  PROVE  IInv'
<1> DEFINE p == r.picture
           a == [kind |-> "select", cell |-> r.cell, success |-> ~ Full(model)]
           own == SelectedLook(look[r.cell], model', p)
<1>1. /\ TypeOK
      /\ Sound(model)
      /\ p \in Picture
      /\ r.cell \in Cell
      /\ model' = PickerSelected(model, p)
      /\ look' = [look EXCEPT ![r.cell] = own]
      /\ animations' = Append(animations, a)
      /\ strayed' = strayed \union Strays(r.cell, p)
  BY DEF IInv, Request, Answer, AnsweredPicture
<1>2. a \in Animation
  BY <1>1 DEF Animation
<1>3. /\ Sound(model')
      /\ model' \in Models
      /\ Full(model) => model' = model
      /\ \A q \in Picture : model.selected[q] => model'.selected[q]
      /\ \A q \in Picture :
           q # p \/ model'.selected[q] = model.selected[q]
             => /\ model'.selected[q] = model.selected[q]
                /\ model'.selectedIndex[q] = model.selectedIndex[q]
      /\ \A q \in Picture : model'.enabled[q] => model.enabled[q]
      /\ model'.enabled = model.enabled \/ (~ Full(model) /\ Full(model'))
      /\ model'.enabled[p] = model.enabled[p]
  BY <1>1, PickerSelectedStatus DEF Sound
<1>4. /\ animations' \in Seq(Animation)
      /\ \A c \in Cell : CancelDue(c) => CancelDue(c)' /\ Due(c)'
      /\ Full(model) => \A c \in Cell : Due(c) => Due(c)'
      /\ ~ Full(model) /\ Full(model') =>
           \A c \in Cell \ {r.cell} : Due(c)'
  BY <1>1, <1>2, <1>3, StaysDue
<1>5. /\ look[r.cell] \in Look
      /\ own \in Look
      /\ own.selected = model'.selected[p]
      /\ own.number = model'.selectedIndex[p]
      /\ own.enabled = look[r.cell].enabled
  <2>1. look[r.cell] \in Look
    BY <1>1 DEF TypeOK
  <2>2. p \in Picture /\ model' \in Models
    BY <1>1, <1>3
  <2> HIDE DEF p
  <2> QED BY <2>1, <2>2 DEF SelectedLook, Look, Models
<1> HIDE DEF own, a, p
<1>6. /\ look'[r.cell] = own
      /\ \A c \in Cell \ {r.cell} : look'[c] = look[c]
  BY <1>1 DEF TypeOK
<1>7. TypeOK'
  <2>1. Strays(r.cell, p) \subseteq Cell
    BY <1>1 DEF Strays
  <2> QED BY <1>1, <1>3, <1>4, <1>5, <2>1 DEF TypeOK, OnDuty
<1>8. ~ Full(model) => \A c \in Cell : Due(c) => CancelDue(c)
  BY DEF Due, CancelDue, Refreshes
<1>9. ASSUME NEW c \in Cell, OnDuty(c)', c \notin missed', c \notin strayed'
      PROVE  LookRight(c)' \/ Due(c)'
  <2> DEFINE q == picture[c]
  <2>1. /\ OnDuty(c)
        /\ c \notin missed
        /\ c \notin strayed
        /\ c \notin Strays(r.cell, p)
        /\ q \in Picture
        /\ picture'[c] = q
    BY <1>1, <1>9 DEF OnDuty, TypeOK
  <2>2. LookRight(c) \/ Due(c)
    BY <2>1 DEF IInv, RightOrDue
  <2>3. CASE Due(c)'
    BY <2>3
  <2>4. CASE ~ Due(c)'
    <3>1. LookRight(c) /\ ~ CancelDue(c)
      BY <1>4, <1>8, <2>2, <2>4
    <3> HIDE DEF q
    <3>2. look[c].enabled = model.enabled[q]
      BY <3>1 DEF LookRight, q
    <3>3. CASE c = r.cell
      <4>1. q = p
        BY <1>1, <2>1, <3>3 DEF Strays, q
      <4>2. model'.enabled[q] = model.enabled[q]
        BY <1>3, <4>1
      <4> QED BY <1>5, <1>6, <2>1, <3>2, <3>3, <4>1, <4>2 DEF LookRight
    <3>4. CASE c # r.cell
      <4>1. model'.enabled = model.enabled
        BY <1>3, <1>4, <2>4, <3>4
      <4>2. q # p \/ model'.selected[q] = model.selected[q]
        BY <2>1, <3>4 DEF Strays, q
      <4>3. /\ model'.selected[q] = model.selected[q]
            /\ model'.selectedIndex[q] = model.selectedIndex[q]
        BY <1>3, <2>1, <4>2
      <4>4. look'[c] = look[c]
        BY <1>6, <3>4
      <4> QED BY <2>1, <3>1, <4>1, <4>3, <4>4 DEF LookRight, q
    <3> QED BY <3>3, <3>4
  <2> QED BY <2>3, <2>4
<1>10. ASSUME NEW c \in Cell, OnDuty(c)', c \notin missed', ~ look'[c].enabled
       PROVE  ~ model'.enabled[picture'[c]] \/ CancelDue(c)'
  <2>1. ~ look[c].enabled
    BY <1>5, <1>6, <1>10
  <2>2. ~ model.enabled[picture[c]] \/ CancelDue(c)
    BY <1>10, <2>1 DEF IInv, AliveOrDue, OnDuty
  <2>3. picture[c] \in Picture
    BY <1>1, <1>10 DEF TypeOK, OnDuty
  <2> QED BY <1>3, <1>4, <2>2, <2>3
<1>11. SelectedByTap'
  <2>1. ASSUME NEW q \in Picture, model'.selected[q] PROVE q \in tapped'
    <3>1. CASE q = p
      BY <3>1 DEF p
    <3>2. CASE q # p
      BY <1>3, <2>1, <3>2 DEF IInv, SelectedByTap
    <3> QED BY <3>1, <3>2
  <2> QED BY <2>1 DEF SelectedByTap
<1> QED BY <1>3, <1>7, <1>9, <1>10, <1>11 DEF IInv, RightOrDue, AliveOrDue

(* A completion: what it was due for it does, on the visible cells, and    *)
(* the others have missed it.                                              *)
LEMMA Completing ==
  ASSUME IInv, NEW i \in DOMAIN animations, AnimationDone(i)
  PROVE  IInv'
<1> DEFINE a == animations[i]
           others == IF Refreshes(a) THEN Cell \ {a.cell} ELSE {}
           refreshed == {c \in others : Visible(c)}
<1>1. /\ TypeOK
      /\ animations' = RemoveAt(animations, i)
      /\ look' = [c \in Cell |-> IF c \in refreshed
                                 THEN SetUpLook(look[c], model, picture[c])
                                 ELSE look[c]]
      /\ missed' = (missed \ refreshed) \union (others \ refreshed)
      /\ strayed' = strayed \ refreshed
      /\ UNCHANGED <<model, place, picture, requests, tapped>>
  BY DEF IInv, AnimationDone
<1>2. /\ animations' \in Seq(Animation)
      /\ \A c \in Cell : CancelDue(c) => CancelDue(c)' \/ c \in others
      /\ \A c \in Cell : Due(c) => Due(c)' \/ c \in others
  BY <1>1, DoneStaysDue DEF Refreshes
<1>3. refreshed \subseteq others /\ others \subseteq Cell
  OBVIOUS
<1>4. \A c \in refreshed : Visible(c)
  OBVIOUS
<1> HIDE DEF others, refreshed
<1>5. ASSUME NEW c \in refreshed
      PROVE  /\ look'[c] = SetUpLook(look[c], model, picture[c])
             /\ look'[c] \in Look
             /\ LookRight(c)'
  <2>1. look'[c] = SetUpLook(look[c], model, picture[c])
    BY <1>1, <1>3
  <2>2. picture[c] \in Picture
    BY <1>1, <1>3, <1>4 DEF TypeOK, OnDuty, Visible
  <2>3. look'[c] \in Look
    BY <1>1, <2>1, <2>2 DEF TypeOK, SetUpLook, Look, Models
  <2> QED BY <1>1, <2>1, <2>3 DEF LookRight, SetUpLook
<1>6. \A c \in Cell \ refreshed : look'[c] = look[c]
  BY <1>1
<1>7. TypeOK'
  <2>1. look' \in [Cell -> Look]
    <3>1. \A c \in Cell : look'[c] \in Look
      BY <1>1, <1>5, <1>6 DEF TypeOK
    <3> QED BY <1>1, <3>1
  <2> QED BY <1>1, <1>2, <1>3, <2>1 DEF TypeOK, OnDuty
<1>8. ASSUME NEW c \in Cell, OnDuty(c)', c \notin missed', c \notin strayed',
             c \notin refreshed
      PROVE  LookRight(c)' \/ Due(c)'
  <2>1. OnDuty(c) /\ c \notin missed /\ c \notin strayed /\ c \notin others
    BY <1>1, <1>8 DEF OnDuty
  <2>2. LookRight(c) \/ Due(c)
    BY <2>1 DEF IInv, RightOrDue
  <2>3. look'[c] = look[c]
    BY <1>6, <1>8
  <2> QED BY <1>1, <1>2, <2>1, <2>2, <2>3 DEF LookRight
<1>9. ASSUME NEW c \in Cell, OnDuty(c)', c \notin missed', ~ look'[c].enabled,
             c \notin refreshed
      PROVE  ~ model'.enabled[picture'[c]] \/ CancelDue(c)'
  <2>1. OnDuty(c) /\ c \notin missed /\ c \notin others
    BY <1>1, <1>9 DEF OnDuty
  <2>2. look'[c] = look[c]
    BY <1>6, <1>9
  <2>3. ~ model.enabled[picture[c]] \/ CancelDue(c)
    BY <1>9, <2>1, <2>2 DEF IInv, AliveOrDue
  <2> QED BY <1>1, <1>2, <2>1, <2>3
<1>10. RightOrDue'
  BY <1>5, <1>8 DEF RightOrDue
<1>11. AliveOrDue'
  BY <1>5, <1>9 DEF AliveOrDue, LookRight
<1> QED
  BY <1>1, <1>7, <1>10, <1>11 DEF IInv, AskedByTap, SelectedByTap

-----------------------------------------------------------------------------
LEMMA NextIInv == IInv /\ [Next]_vars => IInv'
<1> SUFFICES ASSUME IInv, [Next]_vars PROVE IInv'
  OBVIOUS
<1>0. TypeOK /\ AskedByTap
  BY DEF IInv
<1>1. ASSUME NEW c \in Cell, NEW p \in Picture, SetUp(c, p) PROVE IInv'
  BY <1>1, SettingUp
<1>2. ASSUME NEW c \in Cell, Appear(c) \/ Leave(c) PROVE IInv'
  <2>1. \A d \in Cell : OnDuty(d)' => OnDuty(d)
    BY <1>0, <1>2 DEF Appear, Leave, OnDuty, Visible, TypeOK
  <2>2. TypeOK'
    BY <1>0, <1>2, <2>1 DEF Appear, Leave, TypeOK, Places
  <2> QED BY <1>0, <1>2, <2>1, <2>2, Scrolling DEF Appear, Leave, AskedByTap
<1>3. ASSUME NEW c \in Cell, Retire(c) PROVE IInv'
  <2>1. \A d \in Cell : OnDuty(d)' => OnDuty(d)
    BY <1>0, <1>3 DEF Retire, OnDuty, TypeOK
  <2>2. TypeOK'
    BY <1>0, <1>3, <2>1 DEF Retire, TypeOK, Places
  <2> QED BY <1>0, <1>3, <2>1, <2>2, Scrolling DEF Retire, AskedByTap
<1>4. CASE Reload
  <2>1. \A d \in Cell : OnDuty(d)' => OnDuty(d)
    BY <1>4 DEF Reload, OnDuty
  <2>2. TypeOK'
    BY <1>0, <1>4, <2>1 DEF Reload, TypeOK, Places
  <2> QED BY <1>0, <1>4, <2>1, <2>2, Scrolling DEF Reload, AskedByTap
<1>5. ASSUME NEW c \in Cell, TapSelect(c) PROVE IInv'
  <2> DEFINE r == [cell |-> c, picture |-> picture[c]]
  <2>1. /\ r \in Request
        /\ r.picture \in Picture
        /\ requests' = Append(requests, r)
        /\ tapped' = tapped \union {r.picture}
        /\ UNCHANGED <<model, place, picture, look, animations, missed, strayed>>
    BY <1>0, <1>5 DEF TapSelect, CanTap, Request, TypeOK
  <2> HIDE DEF r
  <2>2. /\ requests' \in Seq(Request)
        /\ DOMAIN requests' = 1 .. Len(requests) + 1
        /\ DOMAIN requests = 1 .. Len(requests)
        /\ Len(requests) \in Nat
        /\ \A i \in 1 .. Len(requests) : requests'[i] = requests[i]
        /\ requests'[Len(requests) + 1] = r
    BY <1>0, <2>1 DEF TypeOK
  <2>3. \A i \in DOMAIN requests' : i \in DOMAIN requests \/ i = Len(requests) + 1
    BY <2>2
  <2>4. AskedByTap'
    BY <1>0, <2>1, <2>2, <2>3 DEF AskedByTap
  <2>5. TypeOK'
    BY <1>0, <2>1, <2>2 DEF TypeOK, OnDuty
  <2> QED BY <2>1, <2>4, <2>5, Scrolling DEF OnDuty
<1>6. ASSUME NEW c \in Cell, TapCancel(c) PROVE IInv'
  BY <1>6, Cancelling
<1>7. ASSUME NEW i \in DOMAIN requests
      PROVE  /\ requests[i] \in Request
             /\ requests[i].picture \in tapped
             /\ requests' = RemoveAt(requests, i) /\ UNCHANGED tapped
                  => requests' \in Seq(Request) /\ AskedByTap'
  <2>1. /\ requests \in Seq(Request)
        /\ i \in 1 .. Len(requests)
        /\ Len(requests) \in Nat
    BY <1>0 DEF TypeOK
  <2>2. /\ RemoveAt(requests, i) \in Seq(Request)
        /\ Len(RemoveAt(requests, i)) = Len(requests) - 1
        /\ \A j \in 1 .. Len(requests) - 1 :
             RemoveAt(requests, i)[j] = IF j < i THEN requests[j] ELSE requests[j + 1]
    BY <2>1, RemoveAtProperties
  <2>3. ASSUME requests' = RemoveAt(requests, i), UNCHANGED tapped
        PROVE  AskedByTap'
    <3>1. DOMAIN requests' = 1 .. Len(requests) - 1
      BY <2>2, <2>3
    <3>2. ASSUME NEW j \in 1 .. Len(requests) - 1
          PROVE  requests'[j].picture \in tapped
      <4>1. j \in DOMAIN requests /\ j + 1 \in DOMAIN requests
        BY <2>1
      <4> QED BY <1>0, <2>2, <2>3, <4>1 DEF AskedByTap
    <3> QED BY <2>3, <3>1, <3>2 DEF AskedByTap
  <2> QED BY <1>0, <2>1, <2>2, <2>3 DEF AskedByTap
<1>8. ASSUME NEW i \in DOMAIN requests, ImageArrives(i) PROVE IInv'
  BY <1>7, <1>8, Answering DEF ImageArrives
<1>9. ASSUME NEW i \in DOMAIN requests, ProgressComplete(i) PROVE IInv'
  BY <1>0, <1>7, <1>9, Answering DEF ProgressComplete, TypeOK, AskedByTap
<1>10. ASSUME NEW i \in DOMAIN requests, ImageMissing(i) PROVE IInv'
  <2>1. requests' \in Seq(Request) /\ AskedByTap'
    BY <1>7, <1>10 DEF ImageMissing
  <2>2. TypeOK'
    BY <1>0, <1>10, <2>1 DEF ImageMissing, TypeOK, OnDuty
  <2> QED BY <1>10, <2>1, <2>2, Scrolling DEF ImageMissing, OnDuty
<1>11. ASSUME NEW i \in DOMAIN animations, AnimationDone(i) PROVE IInv'
  BY <1>11, Completing
<1>12. CASE UNCHANGED vars
  <2>1. TypeOK' /\ AskedByTap'
    BY <1>0, <1>12 DEF vars, TypeOK, OnDuty, AskedByTap
  <2> QED BY <1>12, <2>1, Scrolling DEF vars, OnDuty
<1> QED
  BY <1>1, <1>2, <1>3, <1>4, <1>5, <1>6, <1>8, <1>9, <1>10, <1>11, <1>12 DEF Next

-----------------------------------------------------------------------------
LEMMA Invariance == Spec => []IInv
<1> QED BY InitIInv, NextIInv, PTL DEF Spec

(* Every variable keeps to its set.                                        *)
THEOREM TypeCorrect == Spec => []TypeOK
<1>1. IInv => TypeOK
  BY DEF IInv
<1> QED BY <1>1, Invariance, PTL

(* Only pictures whose own visible cell was tapped are selected, however   *)
(* late the answers come and whatever the cells are reused for.            *)
THEOREM OnlyTappedSelected == Spec => []SelectedByTap
<1>1. IInv => SelectedByTap
  BY DEF IInv
<1> QED BY <1>1, Invariance, PTL

(* With the last completion done, a visible cell shows the status of its   *)
(* picture, unless an answer went astray or a refresh passed it over.      *)
THEOREM CellsLookRight == Spec => []LooksRight
<1>1. IInv => LooksRight
  BY DEF IInv, RightOrDue, LooksRight, Due, OnDuty, Visible
<1> QED BY <1>1, Invariance, PTL

(* With the last completion done, no visible cell is dead for a picture    *)
(* that is enabled, unless a refresh passed it over.                       *)
THEOREM NoCellStaysDead == Spec => []NoDeadCell
<1>1. IInv => NoDeadCell
  BY DEF IInv, AliveOrDue, NoDeadCell, CancelDue, OnDuty, Visible
<1> QED BY <1>1, Invariance, PTL

-----------------------------------------------------------------------------
(* The reuse of cells is invisible to the promise of NumberedChoice: the   *)
(* selection is still built up one picture at a time, numbered in order,   *)
(* and never beyond the limit, whatever cell an answer holds.  Nothing is  *)
(* handed over in PickerCells, so the result stays empty.                  *)
Promise == INSTANCE NumberedChoice WITH
  chosen <- model.selectedPictures,
  badge  <- Badge(model),
  result <- << >>

KeepsPromise == Promise!Spec

(* The instance has its own copies of the community operators it uses.     *)
LEMMA SameOperators ==
  /\ \A s, e : Promise!Contains(s, e) <=> Contains(s, e)
  /\ \A s, i : Promise!RemoveAt(s, i) = RemoveAt(s, i)
  /\ \A s : Promise!Badges(s) = Positions(s)
<1>1. /\ \A s, e : Promise!Contains(s, e) <=> Contains(s, e)
      /\ \A s, i : Promise!RemoveAt(s, i) = RemoveAt(s, i)
  BY DEF Promise!Contains, Contains, Promise!RemoveAt, RemoveAt
<1>2. ASSUME NEW s PROVE Promise!Badges(s) = Positions(s)
  <2> DEFINE at(p) == CHOOSE i \in DOMAIN s : s[i] = p
  <2>1. /\ Promise!Badges(s)
             = [p \in Picture |-> IF Promise!Contains(s, p) THEN at(p) ELSE 0]
        /\ Positions(s) = [p \in Picture |-> IF Contains(s, p) THEN at(p) ELSE 0]
    BY DEF Promise!Badges, Positions
  <2> HIDE DEF at
  <2> QED BY <1>1, <2>1
<1> QED BY <1>1, <1>2

(* The stored numbers are the numbers recomputed from scratch.             *)
LEMMA BadgesStored ==
  ASSUME NEW m, Sound(m)
  PROVE  Badge(m) = Promise!Badges(m.selectedPictures)
BY BadgesArePositions, SameOperators

LEMMA StepOfPromise ==
  ASSUME Sound(model), Sound(model'),
         Kept(model, model') \/ Extended(model, model') \/ Shortened(model, model')
  PROVE  [Promise!Next]_(Promise!vars)
<1>1. /\ Badge(model) = Promise!Badges(model.selectedPictures)
      /\ Badge(model') = Promise!Badges(model'.selectedPictures)
  BY BadgesStored
<1>2. CASE Kept(model, model')
  BY <1>1, <1>2 DEF Kept, Promise!vars
<1>3. CASE Extended(model, model')
  <2>1. PICK p \in Picture :
          /\ ~ InArray(model, p)
          /\ model'.selectedPictures = Append(model.selectedPictures, p)
    BY <1>3 DEF Extended
  <2>2. Len(model.selectedPictures) < MaxCount
    BY <1>3, MaxCountAssumption DEF Extended, Full, Sound, Models
  <2>3. ~ Promise!Contains(model.selectedPictures, p)
    BY <2>1, SameOperators DEF InArray
  <2>4. Promise!Choose(p)
    BY <1>1, <2>1, <2>2, <2>3 DEF Promise!Choose, Promise!Extend
  <2> QED BY <2>4 DEF Promise!Next
<1>4. CASE Shortened(model, model')
  <2>1. PICK i \in DOMAIN model.selectedPictures :
          model'.selectedPictures = RemoveAt(model.selectedPictures, i)
    BY <1>4 DEF Shortened
  <2>2. model'.selectedPictures = Promise!RemoveAt(model.selectedPictures, i)
    BY <2>1, SameOperators
  <2>3. Promise!Drop(i)
    BY <1>1, <2>2 DEF Promise!Drop, Promise!NoResult
  <2> QED BY <2>3 DEF Promise!Next
<1> QED BY <1>2, <1>3, <1>4

(* Only a cancelling tap and an answer change the selection.               *)
LEMMA NextPromise == IInv /\ IInv' /\ [Next]_vars => [Promise!Next]_(Promise!vars)
<1> SUFFICES ASSUME IInv, IInv', [Next]_vars
             PROVE  [Promise!Next]_(Promise!vars)
  OBVIOUS
<1>0. /\ TypeOK
      /\ Sound(model) /\ Sound(model')
  BY DEF IInv
<1>1. ASSUME UNCHANGED model PROVE Kept(model, model')
  BY <1>1 DEF Kept
<1>2. ASSUME NEW c \in Cell, TapCancel(c)
      PROVE  Kept(model, model') \/ Shortened(model, model')
  <2>1. /\ picture[c] \in Picture
        /\ model' = PickerCancelled(model, picture[c])
    BY <1>0, <1>2 DEF TapCancel, CanTap, TypeOK
  <2> QED BY <1>0, <2>1, CancellingChanges
<1>3. ASSUME NEW i \in DOMAIN requests, ImageArrives(i) \/ ProgressComplete(i)
      PROVE  Kept(model, model') \/ Extended(model, model')
  <2>0. requests[i] \in Request
    BY <1>0 DEF TypeOK
  <2>1. requests[i].picture \in Picture
    BY <2>0 DEF Request
  <2>2. model' = PickerSelected(model, requests[i].picture)
    BY <1>3 DEF ImageArrives, ProgressComplete, Answer, AnsweredPicture
  <2> QED BY <1>0, <2>1, <2>2, SelectingChanges
<1>4. CASE \/ \E c \in Cell : \/ \E p \in Picture : SetUp(c, p)
                             \/ Appear(c) \/ Leave(c) \/ Retire(c) \/ TapSelect(c)
           \/ \E i \in DOMAIN requests : ImageMissing(i)
           \/ \E i \in DOMAIN animations : AnimationDone(i)
           \/ Reload \/ UNCHANGED vars
  <2>1. UNCHANGED model
    BY <1>4 DEF SetUp, Appear, Leave, Retire, TapSelect, ImageMissing,
                AnimationDone, Reload, vars
  <2> QED BY <1>0, <1>1, <2>1, StepOfPromise
<1> QED BY <1>0, <1>2, <1>3, <1>4, StepOfPromise DEF Next

LEMMA InitPromise == Init => Promise!Init
<1> SUFFICES ASSUME Init PROVE Promise!Init
  OBVIOUS
<1>1. Badge(model) = Promise!Badges(model.selectedPictures)
  BY EmptySound, BadgesStored DEF Init
<1>2. model.selectedPictures = << >>
  BY DEF Init, EmptySelection
<1> QED BY <1>1, <1>2 DEF Promise!Init, Promise!NoResult

(* With a few cell objects reused for all pictures, and answers that hold  *)
(* a cell and a picture that may have parted (picker controller 266-338),  *)
(* the picker still implements NumberedChoice.                             *)
THEOREM CellsKeepPromise == Spec => KeepsPromise
<1>1. IInv /\ IInv' /\ [Next]_vars => [Promise!Next]_(Promise!vars)
  BY NextPromise
<1> QED BY <1>1, InitPromise, Invariance, PTL DEF Spec, KeepsPromise, Promise!Spec
=============================================================================
