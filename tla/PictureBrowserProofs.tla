------------------------ MODULE PictureBrowserProofs ------------------------
(***************************************************************************)
(* Proofs about PictureBrowser, for any pictures, arrays and bounds.       *)
(***************************************************************************)
EXTENDS PictureBrowser, SequenceTheorems, TLAPS

(* A request whose page is on screen belongs to a page that exists.        *)
LoadsPlaced ==
  \A l \in loads : l.browser <= browser /\ (OnScreen(l) => l.page \in Page)

(* A browser on screen has been counted.                                   *)
Counted == phase # "closed" => browser # 0

(* Which image view of the host is hidden, phase by phase.                 *)
HiddenNow ==
  /\ phase \in {"closed", "open"} => hidden = {}
  /\ phase \in {"opening", "leaving"} => hidden = animated
  /\ phase \in {"dragging", "landing", "restoring"} => hidden = {pictures[current]}

(* In a pushed browser only a drag veils, and only the current page.       *)
VeiledNow ==
  pushed => /\ phase \in {"opening", "open"} => veiled = {}
            /\ phase \in {"dragging", "landing", "restoring"} => veiled \subseteq {current}

IInv == /\ TypeOK /\ LoadsPlaced /\ Counted /\ OneLoad
        /\ CurrentTagged /\ HiddenNow /\ VeiledNow

LEMMA InitIInv == Init => IInv
<1> SUFFICES ASSUME Init PROVE IInv
  OBVIOUS
<1>1. TypeOK
  <2>1. <<>> \in Seq(Picture) /\ DOMAIN <<>> = {}
    OBVIOUS
  <2>2. 0 \in 0 .. MaxBrowsers
    BY BrowserAssumption
  <2>3. status \in [Picture -> LoadStatus]
    BY DEF Init, LoadStatus
  <2> QED BY <2>1, <2>2, <2>3 DEF Init, TypeOK, Phases, Page, NoPage
<1>2. LoadsPlaced /\ OneLoad
  BY DEF Init, LoadsPlaced, OneLoad
<1>3. Counted /\ CurrentTagged /\ HiddenNow /\ VeiledNow
  BY DEF Init, Counted, CurrentTagged, HiddenNow, VeiledNow
<1> QED BY <1>1, <1>2, <1>3 DEF IInv

(* Every browser opened has a sequence of pictures without repetition.     *)
LEMMA ListFacts ==
  ASSUME NEW ps \in Lists
  PROVE  /\ ps \in Seq(Picture) /\ IsInjective(ps)
         /\ Len(ps) \in Nat /\ DOMAIN ps = 1 .. Len(ps)
         /\ \A k \in DOMAIN ps : ps[k] \in Picture
  BY BrowserAssumption

(* What making pages does to the statuses, the requests and the images.    *)
LEMMA NewPagesType ==
  ASSUME TypeOK, LoadsPlaced, NEW ps \in Lists, NEW b \in 1 .. MaxBrowsers,
         NEW n \in Nat, NEW was \in SUBSET (1 .. n), NewPages(b, n, was, ps)
  PROVE  /\ status' \in [Picture -> LoadStatus]
         /\ loads' \subseteq Load
         /\ shown' \subseteq 1 .. (n + Len(ps))
         /\ stored' = stored
         /\ \A l \in loads' : \/ l \in loads
                              \/ l.browser = b /\ l.page \in 1 .. (n + Len(ps))
<1>1. status' \in [Picture -> LoadStatus]
  BY DEF NewPages, TypeOK, LoadStatus
<1>2. ASSUME NEW k \in DOMAIN ps
      PROVE  /\ n + k \in 1 .. (n + Len(ps)) /\ n + k \in Nat \ {0}
             /\ [browser |-> b, page |-> n + k, picture |-> ps[k]] \in Load
  BY <1>2, ListFacts DEF Load
<1>new. ASSUME NEW l \in loads', l \notin loads
        PROVE  \E k \in DOMAIN ps : l = [browser |-> b, page |-> n + k, picture |-> ps[k]]
  BY <1>new DEF NewPages
<1>3. loads' \subseteq Load
  <2> SUFFICES ASSUME NEW l \in loads', l \notin loads PROVE l \in Load
    BY DEF TypeOK
  <2> QED BY <1>new, <1>2
<1>4. shown' \subseteq 1 .. (n + Len(ps))
  <2>0. Len(ps) \in Nat
    BY ListFacts
  <2>a. ASSUME NEW i \in was PROVE i \in 1 .. (n + Len(ps))
    BY <2>0
  <2> SUFFICES ASSUME NEW i \in shown', i \notin was PROVE i \in 1 .. (n + Len(ps))
    BY <2>a
  <2>1. PICK k \in DOMAIN ps : i = n + k
    BY DEF NewPages
  <2> QED BY <2>1, <1>2
<1>5. ASSUME NEW l \in loads', l \notin loads
      PROVE  l.browser = b /\ l.page \in 1 .. (n + Len(ps))
  <2>1. PICK k \in DOMAIN ps : l = [browser |-> b, page |-> n + k, picture |-> ps[k]]
    BY <1>5, <1>new
  <2>2. l.browser = b /\ l.page = n + k
    BY <2>1
  <2> QED BY <2>2, <1>2
<1> QED BY <1>1, <1>3, <1>4, <1>5 DEF NewPages

LEMMA NewPagesOneLoad ==
  ASSUME TypeOK, OneLoad, NEW ps \in Lists, NEW b, NEW n \in Nat, NEW was,
         NewPages(b, n, was, ps)
  PROVE  OneLoad'
<1> DEFINE R(k) == [browser |-> b, page |-> n + k, picture |-> ps[k]]
<1>1. ASSUME NEW l \in loads'
      PROVE  l \in loads \/ \E k \in DOMAIN ps : Asks(ps[k]) /\ l = R(k)
  BY DEF NewPages
<1>2. ASSUME NEW l \in loads  PROVE  l.picture \in Picture /\ status[l.picture] # "Pending"
  BY DEF TypeOK, Load, OneLoad
<1>3. ASSUME NEW p \in Picture, status[p] # "Pending"  PROVE status'[p] # "Pending"
  BY <1>3 DEF NewPages, TypeOK, Asks
<1>4. ASSUME NEW k \in DOMAIN ps, Asks(ps[k])
      PROVE  ps[k] \in Picture /\ status[ps[k]] = "Pending" /\ status'[ps[k]] # "Pending"
  BY <1>4, ListFacts DEF NewPages, Asks, Range
<1>5. ASSUME NEW l \in loads'  PROVE status'[l.picture] # "Pending"
  BY <1>1, <1>2, <1>3, <1>4
<1>6. ASSUME NEW l \in loads', NEW m \in loads', m.picture = l.picture  PROVE m = l
  <2>1. CASE l \in loads /\ m \in loads
    BY <2>1, <1>6 DEF OneLoad
  <2>2. CASE l \notin loads /\ m \notin loads
    <3>1. PICK j \in DOMAIN ps : l = R(j)  BY <2>2, <1>1
    <3>2. PICK k \in DOMAIN ps : m = R(k)  BY <2>2, <1>1
    <3>3. ps[j] = ps[k]  BY <3>1, <3>2, <1>6
    <3>4. j = k  BY <3>3, ListFacts DEF IsInjective
    <3> QED BY <3>1, <3>2, <3>4
  <2>3. CASE l \in loads /\ m \notin loads
    BY <2>3, <1>1, <1>2, <1>4, <1>6
  <2>4. CASE l \notin loads /\ m \in loads
    BY <2>4, <1>1, <1>2, <1>4, <1>6
  <2> QED BY <2>1, <2>2, <2>3, <2>4
<1> QED BY <1>5, <1>6 DEF OneLoad
-----------------------------------------------------------------------------
(* What two arrays put end to end keep.                                    *)
LEMMA Appended ==
  ASSUME TypeOK, NEW ps \in Lists
  PROVE  /\ pictures \o ps \in Seq(Picture)
         /\ Page = 1 .. Len(pictures) /\ Len(pictures) \in Nat
         /\ DOMAIN (pictures \o ps) = 1 .. (Len(pictures) + Len(ps))
         /\ \A i \in Page : /\ i \in 1 .. (Len(pictures) + Len(ps))
                           /\ (pictures \o ps)[i] = pictures[i]
<1>1. ps \in Seq(Picture) /\ pictures \in Seq(Picture)
  BY ListFacts DEF TypeOK
<1>2. Len(ps) \in Nat /\ Len(pictures) \in Nat /\ Page = 1 .. Len(pictures)
  BY <1>1 DEF Page
<1>3. pictures \o ps \in Seq(Picture) /\ Len(pictures \o ps) = Len(pictures) + Len(ps)
  BY <1>1, ConcatProperties
<1>4. DOMAIN (pictures \o ps) = 1 .. (Len(pictures) + Len(ps))
  BY <1>3
<1>5. ASSUME NEW i \in Page
      PROVE  /\ i \in 1 .. (Len(pictures) + Len(ps))
             /\ (pictures \o ps)[i] = pictures[i]
  BY <1>1, <1>2
<1> QED BY <1>2, <1>3, <1>4, <1>5

(* Every step keeps every part of the invariant; the steps that make pages *)
(* are the ones that need the lemmas above.                                *)
LEMMA OpenIInv ==
  ASSUME IInv, NEW ps \in Lists, NEW i \in DOMAIN ps, NEW nav \in BOOLEAN, Open(ps, i, nav)
  PROVE  IInv'
<1>0. /\ TypeOK /\ LoadsPlaced /\ OneLoad
      /\ browser \in Nat /\ MaxBrowsers \in Nat /\ browser + 1 \in 1 .. MaxBrowsers
      /\ 0 \in Nat /\ {} \in SUBSET (1 .. 0)
      /\ NewPages(browser + 1, 0, {}, ps)
  BY BrowserAssumption DEF IInv, TypeOK, Open
<1>1. /\ ps \in Seq(Picture) /\ DOMAIN ps = 1 .. Len(ps) /\ 0 + Len(ps) = Len(ps)
      /\ ps[i] \in Picture
  BY ListFacts
<1>2. /\ status' \in [Picture -> LoadStatus]
      /\ loads' \subseteq Load
      /\ shown' \subseteq 1 .. Len(ps)
      /\ stored' = stored
      /\ \A l \in loads' : \/ l \in loads
                           \/ l.browser = browser + 1 /\ l.page \in 1 .. Len(ps)
  BY <1>0, <1>1, NewPagesType
<1>3. TypeOK'
  <2>1. Page' = 1 .. Len(ps) /\ pictures' \in Seq(Picture)
    BY <1>1 DEF Open, Page
  <2>2. /\ browser' \in 0 .. MaxBrowsers /\ phase' \in Phases /\ pushed' \in BOOLEAN
        /\ bars' \in BOOLEAN
    BY <1>0 DEF Open, Phases
  <2>3. phase' # "closed" /\ index' \in Page' /\ current' \in Page'
    BY <1>1, <2>1 DEF Open
  <2>4. animated' \subseteq Picture /\ hidden' \subseteq Picture
    BY <1>0, <1>1 DEF Open, TypeOK
  <2>5. tagged' \subseteq Page' /\ veiled' \subseteq tagged' /\ stored' \subseteq Picture
    BY <1>0, <1>2 DEF Open, TypeOK
  <2> QED BY <1>2, <2>1, <2>2, <2>3, <2>4, <2>5 DEF TypeOK
<1>4. LoadsPlaced'
  <2> SUFFICES ASSUME NEW l \in loads'
               PROVE  l.browser <= browser' /\ (OnScreen(l)' => l.page \in Page')
    BY DEF LoadsPlaced
  <2>1. Page' = 1 .. Len(ps) /\ browser' = browser + 1
    BY <1>1 DEF Open, Page
  <2>2. CASE l \in loads
    <3>1. l.browser \in Nat /\ l.browser <= browser
      BY <1>0, <2>2 DEF TypeOK, Load, LoadsPlaced
    <3> QED BY <1>0, <2>1, <3>1 DEF OnScreen
  <2>3. CASE l.browser = browser + 1 /\ l.page \in 1 .. Len(ps)
    BY <1>0, <2>1, <2>3
  <2> QED BY <1>2, <2>2, <2>3
<1>5. OneLoad'
  BY <1>0, NewPagesOneLoad
<1>6. CurrentTagged'
  BY DEF Open, CurrentTagged
<1>7. HiddenNow'
  BY DEF IInv, HiddenNow, Open
<1>8. VeiledNow' /\ Counted'
  BY <1>0 DEF VeiledNow, Open, Counted
<1> QED BY <1>3, <1>4, <1>5, <1>6, <1>7, <1>8 DEF IInv

LEMMA AddPicturesIInv ==
  ASSUME IInv, NEW ps \in Lists, AddPictures(ps)
  PROVE  IInv'
<1> DEFINE n == Len(pictures)
<1>0. TypeOK /\ LoadsPlaced /\ OneLoad /\ NewPages(browser, n, shown, ps)
  BY DEF IInv, AddPictures
<1>1. /\ pictures' = pictures \o ps /\ pictures' \in Seq(Picture)
      /\ Page = 1 .. n /\ n \in Nat
      /\ Page' = 1 .. (n + Len(ps))
      /\ \A i \in Page : i \in Page' /\ pictures'[i] = pictures[i]
  BY <1>0, Appended DEF AddPictures, Page
<1>2. browser \in 1 .. MaxBrowsers /\ phase # "closed" /\ shown \in SUBSET (1 .. n)
  BY <1>0, <1>1, BrowserAssumption DEF IInv, TypeOK, Counted, AddPictures
<1>3. /\ status' \in [Picture -> LoadStatus]
      /\ loads' \subseteq Load
      /\ shown' \subseteq Page'
      /\ stored' = stored
      /\ \A l \in loads' : \/ l \in loads
                           \/ l.browser = browser /\ l.page \in Page'
  BY <1>0, <1>1, <1>2, NewPagesType
<1>4. TypeOK'
  <2>1. /\ browser' \in 0 .. MaxBrowsers /\ phase' \in Phases /\ pushed' \in BOOLEAN
        /\ bars' \in BOOLEAN /\ stored' \subseteq Picture
        /\ animated' \subseteq Picture /\ hidden' \subseteq Picture
    BY <1>0, <1>3 DEF TypeOK, AddPictures
  <2>2. tagged' \subseteq Page' /\ veiled' \subseteq tagged'
    BY <1>0, <1>1 DEF TypeOK, AddPictures
  <2>3. phase' # "closed" /\ index' \in Page' /\ current' \in Page'
    BY <1>0, <1>1, <1>2 DEF TypeOK, AddPictures
  <2> QED BY <1>1, <1>3, <2>1, <2>2, <2>3 DEF TypeOK
<1>5. LoadsPlaced'
  <2> SUFFICES ASSUME NEW l \in loads'
               PROVE  l.browser <= browser' /\ (OnScreen(l)' => l.page \in Page')
    BY DEF LoadsPlaced
  <2>1. browser' = browser /\ phase' = phase
    BY DEF AddPictures
  <2>2. CASE l \in loads
    BY <1>0, <1>1, <2>1, <2>2 DEF LoadsPlaced, OnScreen
  <2>3. CASE l.browser = browser /\ l.page \in Page'
    BY <1>2, <2>1, <2>3
  <2> QED BY <1>3, <2>2, <2>3
<1>6. OneLoad'
  BY <1>0, <1>1, NewPagesOneLoad
<1>7. CurrentTagged' /\ VeiledNow' /\ Counted'
  BY DEF IInv, CurrentTagged, VeiledNow, Counted, AddPictures
<1>8. HiddenNow'
  <2>1. pictures'[current'] = pictures[current]
    BY <1>0, <1>1, <1>2 DEF TypeOK, AddPictures
  <2> QED BY <2>1 DEF IInv, HiddenNow, AddPictures
<1> QED BY <1>4, <1>5, <1>6, <1>7, <1>8 DEF IInv

(* The steps of the browser on screen leave the requests alone; those of   *)
(* the library leave the browser alone, but for the images on its pages.   *)
ScreenStep ==
  \/ Arrived \/ (\E i \in Page : Scroll(i)) \/ Settle
  \/ Leave \/ Left
  \/ Drag \/ (\E finish \in BOOLEAN : DragEnd(finish)) \/ Landed
  \/ PopCancelled \/ DismissCancelled

LibraryStep ==
  \/ \E p \in Picture : Store(p) \/ Evict(p)
  \/ \E l \in loads : Loaded(l) \/ LoadFailed(l)

LEMMA ScreenIInv == ASSUME IInv, ScreenStep PROVE IInv'
<1>0. /\ TypeOK /\ LoadsPlaced /\ OneLoad /\ Counted
      /\ pictures \in Seq(Picture) /\ Page = 1 .. Len(pictures)
      /\ \A n \in Page : pictures[n] \in Picture
      /\ phase # "closed" => index \in Page /\ current \in Page
  BY DEF IInv, TypeOK, Page
<1>1. UNCHANGED <<status, stored, loads, browser>>
  BY DEF ScreenStep, Arrived, Scroll, Settle, Leave, Left, Drag, DragEnd, Landed,
         PopCancelled, DismissCancelled, Depart, Capture,
         Restored, Closed, cache, screen
<1>2. OneLoad'
  BY <1>0, <1>1 DEF OneLoad
<1>3. CASE Left \/ Landed
  <2>1. /\ phase' = "closed" /\ pushed' = FALSE /\ pictures' = <<>> /\ shown' = {}
        /\ tagged' = {} /\ veiled' = {} /\ index' = NoPage /\ current' = NoPage
        /\ bars' = FALSE /\ animated' = {} /\ hidden' \subseteq hidden
    BY <1>3 DEF Left, Landed, Closed
  <2>2. TypeOK'
    <3>1. <<>> \in Seq(Picture) /\ DOMAIN <<>> = {}
      OBVIOUS
    <3> QED BY <1>0, <1>1, <2>1, <3>1 DEF TypeOK, Phases, Page, NoPage
  <2>3. LoadsPlaced' /\ CurrentTagged' /\ Counted' /\ VeiledNow'
    BY <1>0, <1>1, <2>1 DEF LoadsPlaced, OnScreen, CurrentTagged, Counted, VeiledNow
  <2>4. HiddenNow'
    BY <1>3, <2>1 DEF IInv, HiddenNow, Left, Landed
  <2> QED BY <1>2, <2>2, <2>3, <2>4 DEF IInv
<1>4. CASE Arrived \/ (\E i \in Page : Scroll(i)) \/ Settle \/ Leave \/ Drag
           \/ (\E finish \in BOOLEAN : DragEnd(finish)) \/ PopCancelled
           \/ DismissCancelled
  <2>1. /\ pictures' = pictures /\ pushed' = pushed /\ shown' = shown /\ Page' = Page
        /\ phase # "closed" /\ phase' # "closed" /\ phase' \in Phases
        /\ index' \in Page /\ current' \in Page
    BY <1>0, <1>4 DEF Arrived, Scroll, Settle, Leave, Drag, DragEnd, PopCancelled,
                      DismissCancelled, Restored, Depart, Capture,
                      screen, Page, Phases
  <2>2. tagged \subseteq tagged' /\ tagged' \subseteq Page /\ veiled' \subseteq tagged'
    BY <1>0, <1>4 DEF Arrived, Scroll, Settle, Leave, Drag, DragEnd, PopCancelled,
                      DismissCancelled, Restored, Depart, Capture, TypeOK
  <2>3. animated' \subseteq Picture /\ hidden' \subseteq Picture /\ bars' \in BOOLEAN
    BY <1>0, <1>4 DEF Arrived, Scroll, Settle, Leave, Drag, DragEnd, PopCancelled,
                      DismissCancelled, Restored, Depart, Capture, TypeOK
  <2>4. TypeOK'
    BY <1>0, <1>1, <2>1, <2>2, <2>3 DEF TypeOK
  <2>5. LoadsPlaced' /\ Counted'
    BY <1>0, <1>1, <2>1 DEF LoadsPlaced, OnScreen, Counted
  <2>6. CurrentTagged'
    BY <1>4, <2>1, <2>2 DEF IInv, CurrentTagged, Arrived, Scroll, Settle, Leave, Drag,
                            DragEnd, PopCancelled,
                      DismissCancelled, Restored, Depart, Capture
  <2>7. HiddenNow'
    BY <1>4, <2>1 DEF IInv, HiddenNow, Arrived, Scroll, Settle, Leave, Drag,
                      DragEnd, PopCancelled, DismissCancelled, Restored, Depart, Capture
  <2>8. VeiledNow'
    BY <1>4, <2>1 DEF IInv, VeiledNow, Arrived, Scroll, Settle, Leave, Drag,
                      DragEnd, PopCancelled, DismissCancelled, Restored, Depart, Capture
  <2> QED BY <1>2, <2>4, <2>5, <2>6, <2>7, <2>8 DEF IInv
<1> QED BY <1>3, <1>4 DEF ScreenStep

LEMMA LibraryIInv == ASSUME IInv, LibraryStep PROVE IInv'
<1>0. /\ TypeOK /\ LoadsPlaced /\ OneLoad
      /\ \A l \in loads : l.picture \in Picture
  BY DEF IInv, TypeOK, Load
<1>1. /\ UNCHANGED <<browser, phase, pushed, pictures, tagged, veiled, index, current,
                     bars, animated, hidden>>
      /\ Page' = Page
  BY DEF LibraryStep, Store, Evict, Loaded, LoadFailed, screen, Page
<1>2. loads' \subseteq loads /\ stored' \subseteq Picture
  BY <1>0 DEF LibraryStep, Store, Evict, Loaded, LoadFailed, TypeOK
<1>3. /\ status' \in [Picture -> LoadStatus]
      /\ \A p \in Picture : status[p] # "Pending" => status'[p] # "Pending"
  BY <1>0 DEF LibraryStep, Store, Evict, Loaded, LoadFailed, TypeOK, LoadStatus
<1>4. shown' \subseteq Page
  BY <1>0 DEF LibraryStep, Store, Evict, Loaded, LoadFailed, TypeOK, LoadsPlaced
<1>5. TypeOK'
  BY <1>0, <1>1, <1>2, <1>3, <1>4 DEF TypeOK
<1>6. LoadsPlaced' /\ OneLoad'
  BY <1>0, <1>1, <1>2, <1>3 DEF LoadsPlaced, OnScreen, OneLoad
<1>7. Counted' /\ CurrentTagged' /\ HiddenNow' /\ VeiledNow'
  BY <1>1 DEF IInv, Counted, CurrentTagged, HiddenNow, VeiledNow
<1> QED BY <1>5, <1>6, <1>7 DEF IInv

LEMMA NextIInv == IInv /\ [Next]_vars => IInv'
<1> SUFFICES ASSUME IInv, [Next]_vars PROVE IInv'
  OBVIOUS
<1>1. CASE \E ps \in Lists, nav \in BOOLEAN : \E i \in DOMAIN ps : Open(ps, i, nav)
  BY <1>1, OpenIInv
<1>2. CASE \E ps \in Lists : AddPictures(ps)
  BY <1>2, AddPicturesIInv
<1>3. CASE ScreenStep
  BY <1>3, ScreenIInv
<1>4. CASE LibraryStep
  BY <1>4, LibraryIInv
<1>5. CASE UNCHANGED vars
  BY <1>5 DEF vars, IInv, TypeOK, LoadsPlaced, OnScreen, Counted, OneLoad, CurrentTagged,
              HiddenNow, VeiledNow, Page
<1> QED BY <1>1, <1>2, <1>3, <1>4, <1>5 DEF Next, ScreenStep, LibraryStep, Pushed,
        Presented, Popped, Dismissed, PopFinished, DismissFinished

LEMMA SpecIInv == Spec => []IInv
  BY InitIInv, NextIInv, PTL DEF Spec

(* Every variable keeps to its set, and a browser on screen always has the *)
(* pages that currentIndex and currentPictureView stand for.               *)
THEOREM TypeCorrect == Spec => []TypeOK
<1>1. IInv => TypeOK
  BY DEF IInv
<1> QED BY <1>1, SpecIInv, PTL

(* No picture is asked for by two pages, of one browser or of two.         *)
THEOREM AskedByOne == Spec => []OneLoad
<1>1. IInv => OneLoad
  BY DEF IInv
<1> QED BY <1>1, SpecIInv, PTL

(* The page on screen has its tags once the opening transition is over.    *)
THEOREM CurrentPageTagged == Spec => []CurrentTagged
<1>1. IInv => CurrentTagged
  BY DEF IInv
<1> QED BY <1>1, SpecIInv, PTL

(* The host gets all its image views back, whatever drags and departures   *)
(* there were.                                                             *)
THEOREM SourcesGivenBack == Spec => []SourcesShown
<1>1. IInv => SourcesShown
  BY DEF IInv, HiddenNow, SourcesShown
<1> QED BY <1>1, SpecIInv, PTL

(* A cancelled drag of a pushed browser gives all tags back.               *)
THEOREM TagsGivenBack == Spec => []TagsReturn
<1>1. IInv => TagsReturn
  BY DEF IInv, VeiledNow, TagsReturn
<1> QED BY <1>1, SpecIInv, PTL

(* No step of a page, a browser or the library takes a status back.        *)
THEOREM StatusNeverBack == Spec => StatusForward
<1>1. IInv /\ [Next]_vars => [\A p \in Picture : Forward(status[p], status'[p])]_vars
  <2> SUFFICES ASSUME IInv, Next, NEW p \in Picture
               PROVE  Forward(status[p], status'[p])
    BY DEF Forward
  <2>0. status \in [Picture -> LoadStatus]
    BY DEF IInv, TypeOK
  <2>1. ASSUME NEW b, NEW n, NEW was, NEW ps \in Lists, NewPages(b, n, was, ps)
        PROVE  Forward(status[p], status'[p])
    BY <2>0, <2>1 DEF NewPages, Forward, Asks, LoadStatus
  <2>2. CASE \E ps \in Lists, nav \in BOOLEAN : \E i \in DOMAIN ps : Open(ps, i, nav)
    BY <2>1, <2>2 DEF Open
  <2>3. CASE \E ps \in Lists : AddPictures(ps)
    BY <2>1, <2>3 DEF AddPictures
  <2>4. CASE ScreenStep
    BY <2>4 DEF ScreenStep, Arrived, Scroll, Settle, Leave, Left, Drag, DragEnd, Landed,
         PopCancelled, DismissCancelled, Depart, Capture,
                Restored, Closed, cache, Forward
  <2>5. CASE LibraryStep
    <3>1. \/ status' = status
          \/ \E l \in loads : status' = [status EXCEPT ![l.picture] = "Finished"]
      BY <2>5 DEF LibraryStep, Store, Evict, Loaded, LoadFailed
    <3>2. status'[p] = status[p] \/ status'[p] = "Finished"
      BY <2>0, <3>1
    <3> QED BY <2>0, <3>2 DEF Forward, LoadStatus
  <2> QED BY <2>2, <2>3, <2>4, <2>5 DEF Next, ScreenStep, LibraryStep, Pushed,
        Presented, Popped, Dismissed, PopFinished, DismissFinished
<1> QED BY <1>1, SpecIInv, PTL DEF Spec, StatusForward
=============================================================================
