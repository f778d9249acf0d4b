------------------------- MODULE ReusedViewsProofs -------------------------
(***************************************************************************)
(* What the reused views show, for every number of views, pictures,        *)
(* requests and edits.                                                     *)
(*                                                                         *)
(* The invariant adds two things to the properties.  A request of the      *)
(* present set-up is for the picture the view was set up for, so that its  *)
(* answer is the view's own.  And as long as the view is seen the picture  *)
(* has not been edited behind that request: an edit takes the pages off    *)
(* duty, and the way back to the picker takes its cells.                   *)
(***************************************************************************)
EXTENDS ReusedViews, TLAPS

CurrentIsOwn == \A r \in requests : r.current => r.picture = picture[r.view]

AskedUnedited ==
  \A r \in requests :
    r.current /\ Seen(r.view) => Asks(r.view, picture[r.view])

PageMedium ==
  \A v \in View :
    duty[v] /\ kind[v] = "page" /\ image[v] # Blank =>
      /\ image[v].of \in Picture
      /\ medium[image[v].of] = medium[picture[v]]

IInv ==
  /\ TypeOK
  /\ CurrentIsOwn
  /\ AskedUnedited
  /\ PageMedium
  /\ RightWhenAnswered
  /\ NoLeftover

-----------------------------------------------------------------------------
LEMMA BlankInImage == Blank \in Image
BY BoundAssumption DEF Blank, Image

LEMMA ThumbnailInImage ==
  \A p \in Picture, d \in BOOLEAN : Thumbnail(p, d) \in Image
BY BoundAssumption DEF Thumbnail, Image

LEMMA EditedInImage ==
  ASSUME TypeOK, NEW p \in Picture PROVE Edited(p) \in Image
<1>1. version[p] \in 0..MaxEdits
  BY DEF TypeOK
<1> QED BY <1>1 DEF Edited, Image

(* Blank is no image of a picture.                                         *)
LEMMA PicturesNotBlank ==
  \A p \in Picture :
    /\ Edited(p) # Blank /\ Edited(p).of = p
    /\ \A d \in BOOLEAN : Thumbnail(p, d) # Blank /\ Thumbnail(p, d).of = p
<1> SUFFICES ASSUME NEW p \in Picture
             PROVE  /\ Edited(p) # Blank /\ Edited(p).of = p
                    /\ \A d \in BOOLEAN :
                         Thumbnail(p, d) # Blank /\ Thumbnail(p, d).of = p
  OBVIOUS
<1>1. Edited(p).of = p /\ \A d \in BOOLEAN : Thumbnail(p, d).of = p
  BY DEF Edited, Thumbnail
<1>2. Blank.of = NoPicture
  BY DEF Blank
<1> QED BY <1>1, <1>2, NoPictureAssumption

LEMMA InitIInv == Init => IInv
<1> SUFFICES ASSUME Init PROVE IInv
  OBVIOUS
<1>1. 0 \in 0..MaxEdits
  BY BoundAssumption
<1>2. TypeOK
  BY <1>1, BlankInImage DEF Init, TypeOK
<1> QED BY <1>2 DEF Init, IInv, CurrentIsOwn, AskedUnedited, PageMedium,
     RightWhenAnswered, NoLeftover, Seen

-----------------------------------------------------------------------------
(* Answers.                                                                *)

LEMMA DrawEffect ==
  ASSUME IInv, NEW r \in requests, NEW i \in Image, Draw(r, i)
  PROVE  /\ image' \in [View -> Image]
         /\ astray' \subseteq View
         /\ \A v \in View \ {r.view} :
              image'[v] = image[v] /\ (v \in astray' <=> v \in astray)
         /\ r.current => image'[r.view] = i /\ r.view \notin astray'
         /\ ~ r.current /\ Reaches(r) => r.view \in astray'
         /\ ~ r.current /\ ~ Reaches(r) =>
              (r.view \in astray' <=> r.view \in astray)
         /\ image'[r.view] # image[r.view] => image'[r.view] = i /\ Reaches(r)
<1>1. /\ r \in Request /\ r.view \in View
      /\ image \in [View -> Image]
      /\ astray \subseteq View
  BY DEF IInv, TypeOK, Request
<1>2. r.current => Reaches(r)
  BY DEF IInv, CurrentIsOwn, Reaches
<1>3. image' = [image EXCEPT ![r.view] = IF Reaches(r) THEN i ELSE @]
  BY DEF Draw
<1>4. astray' = IF r.current
                THEN astray \ {r.view}
                ELSE IF Reaches(r) THEN astray \union {r.view} ELSE astray
  BY DEF Draw
<1>5. image' \in [View -> Image]
  BY <1>1, <1>3
<1>6. \A v \in View \ {r.view} : image'[v] = image[v]
  BY <1>1, <1>3
<1>7. image'[r.view] = IF Reaches(r) THEN i ELSE image[r.view]
  BY <1>1, <1>3
<1> QED BY <1>1, <1>2, <1>4, <1>5, <1>6, <1>7

LEMMA AnswerStep ==
  ASSUME IInv, NEW r \in requests, NEW i \in Image, Draw(r, i),
         i = Blank \/ i.of = r.picture,
         UNCHANGED <<kind, medium, front, version, duty, picture>>,
         requests' \subseteq requests,
         \A q \in requests : q # r => q \in requests',
         failed \subseteq failed', failed' \subseteq View,
         \/ ~ r.current
         \/ r \in requests'
         \/ r.view \in failed'
         \/ i = Thumbnail(r.picture, FALSE)
  PROVE  IInv'
<1>1. /\ r \in Request /\ r.view \in View /\ r.picture \in Picture
      /\ picture[r.view] \in Picture
      /\ r.current => r.picture = picture[r.view]
      /\ r.current /\ Seen(r.view) => Asks(r.view, picture[r.view])
  BY DEF IInv, TypeOK, Request, CurrentIsOwn, AskedUnedited
<1>2. /\ image' \in [View -> Image]
      /\ astray' \subseteq View
      /\ \A v \in View \ {r.view} :
           image'[v] = image[v] /\ (v \in astray' <=> v \in astray)
      /\ r.current => image'[r.view] = i /\ r.view \notin astray'
      /\ ~ r.current /\ Reaches(r) => r.view \in astray'
      /\ ~ r.current /\ ~ Reaches(r) =>
           (r.view \in astray' <=> r.view \in astray)
      /\ image'[r.view] # image[r.view] => image'[r.view] = i /\ Reaches(r)
  BY DrawEffect
<1>3. TypeOK'
  BY <1>2 DEF IInv, TypeOK
<1>4. /\ \A v \in View : Seen(v)' = Seen(v)
      /\ \A v, p : Asks(v, p)' = Asks(v, p) /\ Edited(p)' = Edited(p)
  BY DEF Seen, InFront, Asks, DrawsEdits, Edited
<1>5. CurrentIsOwn'
  BY DEF IInv, CurrentIsOwn
<1>6. AskedUnedited'
  <2> SUFFICES ASSUME NEW q \in requests', q.current, Seen(q.view)'
               PROVE  Asks(q.view, picture[q.view])'
    BY DEF AskedUnedited
  <2>1. q \in requests /\ q.view \in View
    BY DEF IInv, TypeOK, Request
  <2>2. Asks(q.view, picture[q.view])
    BY <2>1, <1>4 DEF IInv, AskedUnedited
  <2> QED BY <2>2 DEF Asks, DrawsEdits
<1>7. PageMedium'
  <2> SUFFICES ASSUME NEW v \in View, duty[v], kind[v] = "page",
                      image'[v] # Blank
               PROVE  /\ image'[v].of \in Picture
                      /\ medium[image'[v].of] = medium[picture[v]]
    BY DEF PageMedium
  <2>1. CASE image'[v] = image[v]
    BY <2>1 DEF IInv, PageMedium
  <2>2. CASE image'[v] # image[v]
    <3>1. v = r.view /\ image'[v] = i /\ Reaches(r)
      BY <2>2, <1>2
    <3> QED BY <3>1, <1>1 DEF Reaches
  <2> QED BY <2>1, <2>2
<1>8. NoLeftover'
  <2> SUFFICES ASSUME NEW v \in View, Seen(v), kind[v] \in {"cell", "page"},
                      v \notin astray'
               PROVE  image'[v].of \in {picture[v], NoPicture}
    BY <1>4 DEF NoLeftover
  <2>1. CASE image'[v] = image[v] /\ v \notin astray
    BY <2>1 DEF IInv, NoLeftover
  <2>2. CASE image'[v] # image[v] \/ v \in astray
    <3>1. v = r.view /\ r.current /\ image'[v] = i
      BY <2>2, <1>2
    <3> QED BY <3>1, <1>1 DEF Blank
  <2> QED BY <2>1, <2>2
<1>9. RightWhenAnswered'
  <2> SUFFICES ASSUME NEW v \in View, Seen(v), ~ Waiting(v)',
                      v \notin failed', v \notin astray'
               PROVE  image'[v] = ProperImage(v)'
    BY <1>4 DEF RightWhenAnswered
  <2>1. ProperImage(v)' = ProperImage(v)
    BY DEF ProperImage, Asks, DrawsEdits, Edited
  <2>2. CASE r.view = v /\ r.current
    <3>1. r \notin requests'
      BY <2>2 DEF Waiting
    <3>2. image'[v] = Thumbnail(picture[v], FALSE) /\ Asks(v, picture[v])
      BY <2>2, <3>1, <1>1, <1>2
    <3> QED BY <3>2, <2>1 DEF ProperImage
  <2>3. CASE ~ (r.view = v /\ r.current)
    <3>1. ~ Waiting(v)
      BY <2>3 DEF Waiting
    <3>2. image'[v] = image[v] /\ v \notin astray
      BY <2>3, <1>2
    <3>3. image[v] = ProperImage(v)
      BY <3>1, <3>2 DEF IInv, RightWhenAnswered
    <3> QED BY <3>2, <3>3, <2>1
  <2> QED BY <2>2, <2>3
<1> QED BY <1>3, <1>5, <1>6, <1>7, <1>8, <1>9 DEF IInv

LEMMA AnswersPreserve ==
  ASSUME IInv, NEW r \in requests,
         DegradedAnswer(r) \/ FullAnswer(r) \/ NilAnswer(r)
  PROVE  IInv'
<1>1. /\ r \in Request /\ r.view \in View /\ r.picture \in Picture
      /\ failed \subseteq View
  BY DEF IInv, TypeOK, Request
<1>2. \A d \in BOOLEAN : /\ Thumbnail(r.picture, d) \in Image
                        /\ Thumbnail(r.picture, d).of = r.picture
  BY <1>1, ThumbnailInImage, PicturesNotBlank
<1>3. CASE DegradedAnswer(r)
  <2>1. /\ Draw(r, Thumbnail(r.picture, TRUE))
        /\ UNCHANGED <<kind, medium, front, version, duty, picture, requests,
                       failed>>
    BY <1>3 DEF DegradedAnswer
  <2> QED BY <1>1, <1>2, <2>1, AnswerStep
<1>4. CASE FullAnswer(r)
  <2>1. /\ Draw(r, Thumbnail(r.picture, FALSE))
        /\ requests' = requests \ {r}
        /\ UNCHANGED <<kind, medium, front, version, duty, picture, failed>>
    BY <1>4 DEF FullAnswer
  <2> QED BY <1>1, <1>2, <2>1, AnswerStep
<1>5. CASE NilAnswer(r)
  <2>1. /\ failed' = IF r.current THEN failed \union {r.view} ELSE failed
        /\ requests' = requests \ {r}
        /\ UNCHANGED <<kind, medium, front, version, duty, picture>>
    BY <1>5 DEF NilAnswer
  <2>2. /\ failed \subseteq failed' /\ failed' \subseteq View
        /\ r.current => r.view \in failed'
    BY <1>1, <2>1
  <2>3. CASE Draw(r, Blank)
    BY <2>1, <2>2, <2>3, BlankInImage, AnswerStep
  <2>4. CASE UNCHANGED <<image, astray>>
    <3>1. TypeOK'
      BY <2>1, <2>2, <2>4 DEF IInv, TypeOK
    <3>2. CurrentIsOwn' /\ AskedUnedited'
      BY <2>1 DEF IInv, CurrentIsOwn, AskedUnedited, Seen, InFront, Asks,
                  DrawsEdits
    <3>3. PageMedium' /\ NoLeftover'
      BY <2>1, <2>4 DEF IInv, PageMedium, NoLeftover, Seen, InFront
    <3>4. RightWhenAnswered'
      <4> SUFFICES ASSUME NEW v \in View, Seen(v)', ~ Waiting(v)',
                          v \notin failed', v \notin astray'
                   PROVE  image'[v] = ProperImage(v)'
        BY DEF RightWhenAnswered
      <4>1. Seen(v) /\ v \notin failed /\ v \notin astray
        BY <2>1, <2>2, <2>4 DEF Seen, InFront
      <4>2. ~ Waiting(v)
        BY <2>1, <2>2 DEF Waiting
      <4>3. image[v] = ProperImage(v)
        BY <4>1, <4>2 DEF IInv, RightWhenAnswered
      <4>4. ProperImage(v)' = ProperImage(v)
        BY <2>1 DEF ProperImage, Asks, DrawsEdits, Edited
      <4> QED BY <4>3, <4>4, <2>4
    <3> QED BY <3>1, <3>2, <3>3, <3>4 DEF IInv
  <2> QED BY <1>5, <2>3, <2>4 DEF NilAnswer
<1> QED BY <1>3, <1>4, <1>5

-----------------------------------------------------------------------------
(* A set-up: the view's former requests are outdated, the others stay.     *)

LEMMA SetUpPreserves ==
  ASSUME IInv, NEW v \in View, NEW p \in Picture, NEW n \in RequestId,
         SetUp(v, p, n)
  PROVE  IInv'
<1> DEFINE own == [id |-> n, view |-> v, picture |-> p, current |-> TRUE]
<1>1. /\ InFront(v)
      /\ duty' = [duty EXCEPT ![v] = TRUE]
      /\ picture' = [picture EXCEPT ![v] = p]
      /\ image' = [image EXCEPT ![v] = SetUpImage(v, p)]
      /\ requests' = IF Asks(v, p) THEN Outdated(v) \union {own}
                                   ELSE Outdated(v)
      /\ failed' = failed \ {v}
      /\ astray' = astray \ {v}
      /\ UNCHANGED <<kind, medium, front, version>>
  BY DEF SetUp
<1>2. TypeOK
  BY DEF IInv
<1>3. SetUpImage(v, p) =
        IF ~ Asks(v, p) THEN Edited(p)
        ELSE IF kind[v] \in {"cell", "page"} THEN Blank ELSE image[v]
  BY DEF SetUpImage
<1>4. SetUpImage(v, p) \in Image
  BY <1>2, <1>3, BlankInImage, EditedInImage DEF TypeOK
<1>5. /\ own \in Request /\ own.view = v /\ own.picture = p /\ own.current
  BY DEF Request
<1>6. \A q \in Outdated(v) :
        \E r \in requests : /\ q \in Request /\ q.view = r.view
                            /\ q.picture = r.picture
                            /\ q.current <=> (r.current /\ r.view # v)
  <2> SUFFICES ASSUME NEW q \in Outdated(v)
               PROVE  \E r \in requests :
                        /\ q \in Request /\ q.view = r.view
                        /\ q.picture = r.picture
                        /\ q.current <=> (r.current /\ r.view # v)
    OBVIOUS
  <2>1. PICK r \in requests : q = [r EXCEPT !.current = @ /\ r.view # v]
    BY DEF Outdated
  <2>2. r \in Request
    BY <1>2 DEF TypeOK
  <2>3. q.view = r.view /\ q.picture = r.picture
    BY <2>1, <2>2 DEF Request
  <2>4. q.current = (r.current /\ r.view # v)
    BY <2>1, <2>2, Zenon DEF Request
  <2>5. q \in Request
    BY <2>1, <2>2 DEF Request
  <2> QED BY <2>3, <2>4, <2>5
<1>7. \A r \in requests : r.view # v /\ r.current =>
        \E q \in Outdated(v) : q.view = r.view /\ q.current
  <2> SUFFICES ASSUME NEW r \in requests, r.view # v, r.current
               PROVE  LET q == [r EXCEPT !.current = @ /\ r.view # v] IN
                      q.view = r.view /\ q.current
    BY DEF Outdated
  <2> QED BY <1>2 DEF TypeOK, Request
<1> HIDE DEF own
<1>8. /\ duty' \in [View -> BOOLEAN] /\ duty'[v]
      /\ picture' \in [View -> Picture \union {NoPicture}]
      /\ picture'[v] = p
      /\ image' \in [View -> Image] /\ image'[v] = SetUpImage(v, p)
      /\ \A w \in View \ {v} : /\ duty'[w] = duty[w]
                               /\ picture'[w] = picture[w]
                               /\ image'[w] = image[w]
  BY <1>1, <1>2, <1>4 DEF TypeOK
<1>9. \A q \in requests' :
        /\ q \in Request
        /\ \/ q.view = v /\ (q.current => q = own /\ Asks(v, p))
           \/ /\ q.view # v
              /\ \E r \in requests : /\ q.view = r.view
                                     /\ q.picture = r.picture
                                     /\ q.current => r.current
  BY <1>1, <1>5, <1>6
<1>10. /\ \A w \in View \ {v} : Seen(w)' = Seen(w)
       /\ \A w, q : Asks(w, q)' = Asks(w, q) /\ Edited(q)' = Edited(q)
  BY <1>1, <1>8 DEF Seen, InFront, Asks, DrawsEdits, Edited
<1>11. TypeOK'
  <2>1. requests' \subseteq Request
    BY <1>9
  <2>2. \A r \in requests' : picture'[r.view] \in Picture
    BY <1>2, <1>8, <1>9 DEF TypeOK, Request
  <2>3. \A w \in View : duty'[w] => picture'[w] \in Picture
    BY <1>2, <1>8 DEF TypeOK
  <2>4. front' = "picker" =>
          \A w \in View : kind'[w] \in PreviewKinds => ~ duty'[w]
    BY <1>1, <1>2, <1>8 DEF TypeOK, InFront, PickerKinds, PreviewKinds
  <2> QED BY <1>1, <1>2, <1>8, <2>1, <2>2, <2>3, <2>4 DEF TypeOK
<1>12. CurrentIsOwn'
  <2> SUFFICES ASSUME NEW q \in requests', q.current
               PROVE  q.picture = picture'[q.view]
    BY DEF CurrentIsOwn
  <2>1. CASE q.view = v
    BY <2>1, <1>5, <1>8, <1>9
  <2>2. CASE q.view # v
    <3>1. PICK r \in requests : /\ q.view = r.view /\ q.picture = r.picture
                                /\ r.current
      BY <2>2, <1>9
    <3>2. r.picture = picture[r.view] /\ r.view \in View
      BY <3>1, <1>2 DEF IInv, CurrentIsOwn, TypeOK, Request
    <3> QED BY <2>2, <3>1, <3>2, <1>8
  <2> QED BY <2>1, <2>2
<1>13. AskedUnedited'
  <2> SUFFICES ASSUME NEW q \in requests', q.current, Seen(q.view)'
               PROVE  Asks(q.view, picture[q.view])'
    BY DEF AskedUnedited
  <2>1. CASE q.view = v
    <3>1. Asks(v, p)
      BY <2>1, <1>9
    <3> QED BY <3>1, <2>1, <1>1, <1>8 DEF Asks, DrawsEdits
  <2>2. CASE q.view # v
    <3>1. PICK r \in requests : q.view = r.view /\ r.current
      BY <2>2, <1>9
    <3>2. r.view \in View
      BY <1>2 DEF TypeOK, Request
    <3>3. Asks(r.view, picture[r.view])
      BY <2>2, <3>1, <3>2, <1>10 DEF IInv, AskedUnedited
    <3> QED BY <2>2, <3>1, <3>2, <3>3, <1>1, <1>8 DEF Asks, DrawsEdits
  <2> QED BY <2>1, <2>2
<1>14. PageMedium'
  <2> SUFFICES ASSUME NEW w \in View, duty'[w], kind[w] = "page",
                      image'[w] # Blank
               PROVE  /\ image'[w].of \in Picture
                      /\ medium[image'[w].of] = medium[picture'[w]]
    BY <1>1 DEF PageMedium
  <2>1. CASE w = v
    <3>1. image'[w] = Edited(p)
      BY <2>1, <1>3, <1>8
    <3> QED BY <2>1, <3>1, <1>8, PicturesNotBlank
  <2>2. CASE w # v
    BY <2>2, <1>8 DEF IInv, PageMedium
  <2> QED BY <2>1, <2>2
<1>15. NoLeftover'
  <2> SUFFICES ASSUME NEW w \in View, Seen(w)', kind[w] \in {"cell", "page"},
                      w \notin astray'
               PROVE  image'[w].of \in {picture'[w], NoPicture}
    BY <1>1 DEF NoLeftover
  <2>1. CASE w = v
    <3>1. image'[w] \in {Edited(p), Blank}
      BY <2>1, <1>3, <1>8
    <3>2. Blank.of = NoPicture
      BY DEF Blank
    <3> QED BY <2>1, <3>1, <3>2, <1>8, PicturesNotBlank
  <2>2. CASE w # v
    BY <2>2, <1>1, <1>8, <1>10 DEF IInv, NoLeftover
  <2> QED BY <2>1, <2>2
<1>16. RightWhenAnswered'
  <2> SUFFICES ASSUME NEW w \in View, Seen(w)', ~ Waiting(w)',
                      w \notin failed', w \notin astray'
               PROVE  image'[w] = ProperImage(w)'
    BY DEF RightWhenAnswered
  <2>1. CASE w = v
    <3>1. ~ Asks(v, p)
      BY <2>1, <1>1, <1>5 DEF Waiting
    <3>2. image'[w] = Edited(p)
      BY <2>1, <3>1, <1>3, <1>8
    <3>3. ProperImage(w)' = Edited(p)
      BY <2>1, <3>1, <1>1, <1>8 DEF ProperImage, Asks, DrawsEdits, Edited
    <3> QED BY <3>2, <3>3
  <2>2. CASE w # v
    <3>1. Seen(w) /\ w \notin failed /\ w \notin astray
      BY <2>2, <1>1, <1>10
    <3>2. ~ Waiting(w)
      BY <2>2, <1>1, <1>7 DEF Waiting
    <3>3. image[w] = ProperImage(w)
      BY <3>1, <3>2 DEF IInv, RightWhenAnswered
    <3>4. ProperImage(w)' = ProperImage(w)
      BY <2>2, <1>1, <1>8 DEF ProperImage, Asks, DrawsEdits, Edited
    <3> QED BY <2>2, <3>3, <3>4, <1>8
  <2> QED BY <2>1, <2>2
<1> QED BY <1>11, <1>12, <1>13, <1>14, <1>15, <1>16 DEF IInv

-----------------------------------------------------------------------------
(* The lists and the screens.                                              *)

(* What a step that takes views off duty, and draws nothing on the others, *)
(* has to keep for the views that are seen after it.                       *)
LEMMA FewerSeen ==
  ASSUME IInv, TypeOK',
         UNCHANGED <<kind, medium, failed, astray>>,
         requests' \subseteq requests,
         \A v \in View : duty'[v] => duty[v],
         \A v \in View :
           Seen(v)' => /\ Seen(v)
                       /\ \A r \in requests : r.view = v => r \in requests'
                       /\ Asks(v, picture[v])' = Asks(v, picture[v])
                       /\ ProperImage(v)' = ProperImage(v),
         \A v \in View : duty'[v] \/ kind[v] \in PickerKinds =>
           picture'[v] = picture[v] /\ image'[v] = image[v],
         \A r \in requests' : duty'[r.view] \/ kind[r.view] \in PickerKinds
                                \/ UNCHANGED picture
  PROVE  IInv'
<1>1. TypeOK
  BY DEF IInv
<1>2. \A r \in requests : r.view \in View
  BY <1>1 DEF TypeOK, Request
<1>3. CurrentIsOwn'
  BY <1>2 DEF IInv, CurrentIsOwn
<1>4. AskedUnedited'
  <2> SUFFICES ASSUME NEW r \in requests', r.current, Seen(r.view)'
               PROVE  Asks(r.view, picture[r.view])'
    BY DEF AskedUnedited
  <2>1. r.view \in View /\ Seen(r.view)
    BY <1>2
  <2> QED BY <2>1 DEF IInv, AskedUnedited
<1>5. PageMedium'
  BY DEF IInv, PageMedium
<1>6. \A v \in View : Seen(v)' => duty'[v]
  BY DEF Seen
<1>7. NoLeftover'
  BY <1>6 DEF IInv, NoLeftover
<1>8. RightWhenAnswered'
  <2> SUFFICES ASSUME NEW v \in View, Seen(v)', ~ Waiting(v)',
                      v \notin failed, v \notin astray
               PROVE  image'[v] = ProperImage(v)'
    BY DEF RightWhenAnswered
  <2>1. Seen(v) /\ ~ Waiting(v)
    BY DEF Waiting
  <2>2. image[v] = ProperImage(v)
    BY <2>1 DEF IInv, RightWhenAnswered
  <2> QED BY <2>2, <1>6
<1> QED BY <1>3, <1>4, <1>5, <1>7, <1>8 DEF IInv

LEMMA RetirePreserves ==
  ASSUME IInv, NEW v \in View, Retire(v)
  PROVE  IInv'
<1>1. /\ duty' = [duty EXCEPT ![v] = FALSE]
      /\ UNCHANGED <<kind, medium, front, version, picture, image, requests,
                     failed, astray>>
  BY DEF Retire
<1>2. TypeOK
  BY DEF IInv
<1>3. /\ duty' \in [View -> BOOLEAN]
      /\ \A w \in View : duty'[w] => duty[w]
  BY <1>1, <1>2 DEF TypeOK
<1>4. TypeOK'
  BY <1>1, <1>2, <1>3 DEF TypeOK
<1>5. \A w \in View : /\ Seen(w)' => Seen(w)
                      /\ Asks(w, picture[w])' = Asks(w, picture[w])
                      /\ ProperImage(w)' = ProperImage(w)
  BY <1>1, <1>3 DEF Seen, InFront, Asks, DrawsEdits, ProperImage, Edited
<1> QED BY <1>1, <1>3, <1>4, <1>5, FewerSeen

(* The pages, whose pictures the edit may change, leave; the strip ignores *)
(* edits; and the picker's views are not in front.                         *)
LEMMA EditPreserves ==
  ASSUME IInv, NEW p \in Picture, Edit(p)
  PROVE  IInv'
<1>1. /\ front = "preview" /\ version[p] < MaxEdits
      /\ version' = [version EXCEPT ![p] = @ + 1]
      /\ duty' = [v \in View |-> duty[v] /\ kind[v] # "page"]
      /\ UNCHANGED <<kind, medium, front, picture, image, requests, failed,
                     astray>>
  BY DEF Edit
<1>2. TypeOK
  BY DEF IInv
<1>3. version[p] \in 0..MaxEdits
  BY <1>2 DEF TypeOK
<1>4. version[p] + 1 \in 0..MaxEdits
  BY <1>1, <1>3, BoundAssumption
<1>5. version' \in [Picture -> 0..MaxEdits]
  BY <1>1, <1>2, <1>4 DEF TypeOK
<1>6. /\ duty' \in [View -> BOOLEAN]
      /\ \A v \in View : duty'[v] => duty[v] /\ kind[v] # "page"
  BY <1>1, <1>2, Zenon DEF TypeOK
<1>7. TypeOK'
  BY <1>1, <1>2, <1>5, <1>6 DEF TypeOK
<1>8. ASSUME NEW v \in View, Seen(v)'
      PROVE  /\ Seen(v)
             /\ Asks(v, picture[v])' = Asks(v, picture[v])
             /\ ProperImage(v)' = ProperImage(v)
  <2>1. Seen(v)
    BY <1>1, <1>6, <1>8 DEF Seen, InFront
  <2>2. kind[v] = "strip"
    BY <1>1, <1>6, <1>8 DEF Seen, InFront, PreviewKinds
  <2>3. Asks(v, picture[v]) = TRUE /\ Asks(v, picture[v])' = TRUE
    BY <1>1, <2>2 DEF Asks, DrawsEdits
  <2>4. ProperImage(v)' = ProperImage(v)
    BY <1>1, <2>3 DEF ProperImage, Thumbnail
  <2> QED BY <2>1, <2>3, <2>4
<1> QED BY <1>1, <1>6, <1>7, <1>8, FewerSeen

(* No view of the preview has been set up yet.                             *)
LEMMA OpenPreviewPreserves ==
  ASSUME IInv, OpenPreview
  PROVE  IInv'
<1>1. /\ front = "picker" /\ front' = "preview"
      /\ UNCHANGED <<kind, medium, version, duty, picture, image, requests,
                     failed, astray>>
  BY DEF OpenPreview
<1>2. TypeOK
  BY DEF IInv
<1>3. TypeOK'
  BY <1>1, <1>2 DEF TypeOK
<1>4. \A v \in View : ~ Seen(v)'
  BY <1>1, <1>2 DEF TypeOK, Seen, InFront
<1> QED BY <1>1, <1>3, <1>4, FewerSeen

(* The preview's views are gone and the picker's are all in the queue.     *)
LEMMA BackPreserves ==
  ASSUME IInv, Back
  PROVE  IInv'
<1>1. /\ front' = "picker"
      /\ duty' = [v \in View |-> FALSE]
      /\ picture' = [v \in View |->
                      IF kind[v] \in PickerKinds THEN picture[v] ELSE NoPicture]
      /\ image' = [v \in View |->
                    IF kind[v] \in PickerKinds THEN image[v] ELSE Blank]
      /\ requests' = {r \in requests : kind[r.view] \in PickerKinds}
      /\ UNCHANGED <<kind, medium, version, failed, astray>>
  BY DEF Back
<1>2. TypeOK
  BY DEF IInv
<1>3. /\ requests' \subseteq requests
      /\ \A r \in requests' : /\ kind[r.view] \in PickerKinds
                               /\ r.view \in View
                               /\ picture[r.view] \in Picture
  BY <1>1, <1>2 DEF TypeOK, Request
<1>4. /\ \A v \in View : ~ duty'[v]
      /\ \A v \in View : kind[v] \in PickerKinds =>
           picture'[v] = picture[v] /\ image'[v] = image[v]
  BY <1>1
<1>5. TypeOK'
  <2>1. picture' \in [View -> Picture \union {NoPicture}]
    BY <1>1, <1>2 DEF TypeOK
  <2>2. image' \in [View -> Image]
    BY <1>1, <1>2, BlankInImage DEF TypeOK
  <2>3. \A r \in requests' : picture'[r.view] \in Picture
    BY <1>3, <1>4
  <2> QED BY <1>1, <1>2, <1>3, <1>4, <2>1, <2>2, <2>3 DEF TypeOK
<1>6. \A v \in View : ~ Seen(v)'
  BY <1>4 DEF Seen
<1> QED BY <1>1, <1>3, <1>4, <1>5, <1>6, FewerSeen

LEMMA StepIInv == IInv /\ [Next]_vars => IInv'
<1> SUFFICES ASSUME IInv, [Next]_vars PROVE IInv'
  OBVIOUS
<1>1. CASE \E v \in View : Retire(v)
  BY <1>1, RetirePreserves
<1>2. CASE \E v \in View, p \in Picture, n \in RequestId : SetUp(v, p, n)
  BY <1>2, SetUpPreserves
<1>3. CASE \E r \in requests :
             DegradedAnswer(r) \/ FullAnswer(r) \/ NilAnswer(r)
  BY <1>3, AnswersPreserve
<1>4. CASE \E p \in Picture : Edit(p)
  BY <1>4, EditPreserves
<1>5. CASE OpenPreview
  BY <1>5, OpenPreviewPreserves
<1>6. CASE Back
  BY <1>6, BackPreserves
<1>7. CASE UNCHANGED vars
  BY <1>7 DEF vars, IInv, TypeOK, CurrentIsOwn, AskedUnedited, PageMedium,
     RightWhenAnswered, NoLeftover, Seen, InFront, Waiting, ProperImage, Asks,
     DrawsEdits, Edited
<1> QED BY <1>1, <1>2, <1>3, <1>4, <1>5, <1>6, <1>7 DEF Next

-----------------------------------------------------------------------------
LEMMA Invariance == Spec => []IInv
BY InitIInv, StepIInv, PTL DEF Spec

(* The variables have their types, and a view on duty or with a request    *)
(* has a picture, whatever is set up, answered, edited or left.            *)
THEOREM TypeCorrect == Spec => []TypeOK
<1>1. IInv => TypeOK
  BY DEF IInv
<1> QED BY <1>1, Invariance, PTL

(* A cell, row, strip cell or page whose own request is over shows its own *)
(* picture, with its edit where it draws edits, unless nothing came or a   *)
(* former picture's answer came last.                                      *)
THEOREM ImagesRight == Spec => []RightWhenAnswered
<1>1. IInv => RightWhenAnswered
  BY DEF IInv
<1> QED BY <1>1, Invariance, PTL

(* A reused cell or page shows nothing of its former picture, unless that  *)
(* one's answer is late.                                                   *)
THEOREM NothingLeftOver == Spec => []NoLeftover
<1>1. IInv => NoLeftover
  BY DEF IInv
<1> QED BY <1>1, Invariance, PTL

(* However late the answers are, a page never shows a picture of another   *)
(* medium than its own.                                                    *)
THEOREM PagesKeepMedium == Spec => []MediumKept
<1>1. IInv => MediumKept
  BY DEF IInv, PageMedium, MediumKept, Seen
<1> QED BY <1>1, Invariance, PTL
=============================================================================
