--------------------------- MODULE PictureBrowser ---------------------------
(***************************************************************************)
(* The full-screen browser of web pictures                                 *)
(* (DRPICPictureBrowserViewController), its pages (DRPICPictureView) and   *)
(* the transitions that bring it on and off the screen.                    *)
(*                                                                         *)
(* The host gives a browser an array of pictures and may append more.      *)
(* Every page asks for its picture once, when it is made; what tells it    *)
(* whether to ask is a status kept in the picture, which the host may show *)
(* again in a later browser, while the answer of an earlier one is still   *)
(* due.  The block of a request holds its page, so that answers arrive     *)
(* after the browser has gone too.                                         *)
(*                                                                         *)
(* The browser knows the page on screen twice: currentIndex follows every  *)
(* scroll, currentPictureView only a deceleration that has ended.  While a *)
(* transition runs, the image view the picture came from is hidden in the  *)
(* host's view, and a drag may be cancelled half way.                      *)
(*                                                                         *)
(* One browser is on screen at a time.  No page settles between the start  *)
(* and the end of a drag: the touch stops the scroll view, and the two     *)
(* recognizers do not work at once.                                        *)
(***************************************************************************)
EXTENDS Naturals, Sequences, FiniteSets, Functions

CONSTANTS
  Picture,      \* the DRPICPicture objects of the host
  Lists,        \* the arrays of pictures the host passes
  GifOrigin,    \* pictures whose original is a GIF
  GifThumbnail, \* pictures whose thumbnail is a GIF
  SourceShown,  \* pictures whose source image view has an image
  MaxBrowsers,  \* bound: browsers opened
  MaxPages      \* bound: pages of one browser

ASSUME BrowserAssumption ==
  /\ \A ps \in Lists : ps \in Seq(Picture) /\ IsInjective(ps)
  /\ MaxBrowsers \in Nat
  /\ MaxPages \in Nat

VARIABLES
  status,    \* loadStatus of every picture
  stored,    \* pictures whose thumbnail is in the web image cache
  loads,     \* requests not yet answered, of any browser
  browser,   \* number of the latest browser
  phase,     \* where the browser is
  pushed,    \* it was pushed (by a navigation controller), not presented
  pictures,  \* its pictures, one page for each
  shown,     \* pages whose content view has an image
  tagged,    \* pages with showTagsReady, whose tags are in place
  veiled,    \* pages whose tag views are transparent
  index,     \* currentIndex
  current,   \* number of currentPictureView
  bars,      \* top and bottom containers are visible
  animated,  \* picture whose source image view the transition has captured
  hidden     \* pictures whose source image view is hidden

vars == <<status, stored, loads, browser, phase, pushed, pictures, shown, tagged,
          veiled, index, current, bars, animated, hidden>>

cache == <<status, stored, loads>>
screen == <<pushed, pictures, browser>>

LoadStatus == {"Pending", "Loading", "Finished"}

(* "opening": pushed or presented; "leaving": popped by a tap; "dragging": *)
(* a pan holds it; "landing" and "restoring": the pan has ended, for good  *)
(* or cancelled.                                                           *)
Phases == {"closed", "opening", "open", "leaving", "dragging", "landing", "restoring"}

Load == [browser : 1 .. MaxBrowsers, page : Nat \ {0}, picture : Picture]

Page == DOMAIN pictures
-----------------------------------------------------------------------------
(* A mutant: the status is not looked at.                                  *)
AsksEvery(p) == p \notin stored

(* A page asks for its picture if the cache does not have it and nobody    *)
(* has asked before.                                                       *)
Asks(p) == p \notin stored /\ status[p] = "Pending"

(* A page whose original is a GIF shows what its source view shows until   *)
(* the answer comes.                                                       *)
ShowsAtOnce(p) == p \in stored \/ (Asks(p) /\ p \in GifOrigin \cap SourceShown)

(* Pages for ps are made behind the n pages that were, of browser b.       *)
NewPages(b, n, was, ps) ==
  /\ status' = [p \in Picture |->
                  IF p \notin Range(ps) THEN status[p]
                  ELSE IF p \in stored THEN "Finished"
                  ELSE IF Asks(p) THEN "Loading"
                  ELSE status[p]]
  /\ loads' = loads \cup {[browser |-> b, page |-> n + k, picture |-> ps[k]] :
                            k \in {j \in DOMAIN ps : Asks(ps[j])}}
  /\ shown' = was \cup {n + k : k \in {j \in DOMAIN ps : ShowsAtOnce(ps[j])}}
  /\ UNCHANGED stored

NoPage == 0

Init ==
  /\ status = [p \in Picture |-> "Pending"]
  /\ stored = {} /\ loads = {}
  /\ browser = 0 /\ phase = "closed" /\ pushed = FALSE
  /\ pictures = <<>> /\ shown = {} /\ tagged = {} /\ veiled = {}
  /\ index = NoPage /\ current = NoPage
  /\ bars = FALSE /\ animated = {} /\ hidden = {}
-----------------------------------------------------------------------------
(* viewDidLoad makes the pages and goes to page i; the transition hides    *)
(* the source view of that page's picture.                                 *)
Open(ps, i, nav) ==
  /\ phase = "closed" /\ browser < MaxBrowsers
  /\ Len(ps) <= MaxPages
  /\ i \in DOMAIN ps
  /\ browser' = browser + 1 /\ phase' = "opening" /\ pushed' = nav
  /\ pictures' = ps /\ index' = i /\ current' = i
  /\ tagged' = {} /\ veiled' = {} /\ bars' = TRUE
  /\ animated' = {ps[i]}
  /\ hidden' = hidden \cup {ps[i]}
  /\ NewPages(browser + 1, 0, {}, ps)

Arrived ==
  /\ phase = "opening"
  /\ phase' = "open"
  /\ hidden' = hidden \ animated
  /\ tagged' = tagged \cup {current}
  /\ UNCHANGED <<cache, screen, shown, veiled, index, current, bars, animated>>

(* The completion of the push animation, and of the one that presents.     *)
Pushed == pushed /\ Arrived

Presented == ~pushed /\ Arrived

(* processAddPictures, called by the host.                                 *)
AddPictures(ps) ==
  /\ phase # "closed"
  /\ Len(pictures) + Len(ps) <= MaxPages
  /\ pictures' = pictures \o ps
  /\ NewPages(browser, Len(pictures), shown, ps)
  /\ UNCHANGED <<browser, phase, pushed, tagged, veiled, index, current, bars,
                 animated, hidden>>

(* A mutant: the page scrolled to is not clamped to the last one.          *)
ScrollPast(i) ==
  /\ phase = "open"
  /\ i \in Page \ {index}
  /\ index' = i + 1
  /\ UNCHANGED <<cache, screen, phase, shown, tagged, veiled, current, bars,
                 animated, hidden>>

(* scrollViewDidScroll: the middle of the screen is over page i.           *)
Scroll(i) ==
  /\ phase = "open"
  /\ i \in Page \ {index}
  /\ index' = i
  /\ UNCHANGED <<cache, screen, phase, shown, tagged, veiled, current, bars,
                 animated, hidden>>

(* A mutant: the tags of the page settled on are not made ready.           *)
SettleUntagged ==
  /\ phase \in {"open", "leaving"}
  /\ current' = index
  /\ UNCHANGED <<cache, screen, phase, shown, tagged, veiled, index, bars, animated, hidden>>

(* scrollViewDidEndDecelerating.  A finger lifted exactly at a page ends   *)
(* the scroll without it.  A tap does not stop it.                         *)
Settle ==
  /\ phase \in {"open", "leaving"}
  /\ current' = index
  /\ tagged' = tagged \cup {index}
  /\ UNCHANGED <<cache, screen, phase, shown, veiled, index, bars, animated, hidden>>
-----------------------------------------------------------------------------
(* Every animation off the screen takes the current picture's source view  *)
(* and hides it.                                                           *)
Capture ==
  /\ animated' = {pictures[current]}
  /\ hidden' = hidden \cup {pictures[current]}

(* What a departure does first, whatever starts it.                        *)
Depart ==
  /\ phase = "open"
  /\ veiled' = veiled \cup ({current} \cap tagged)
  /\ bars' = FALSE
  /\ Capture

(* A tap, or the button of the navigation bar.                             *)
Leave ==
  /\ Depart
  /\ phase' = "leaving"
  /\ UNCHANGED <<cache, screen, shown, tagged, index, current>>

Closed ==
  /\ phase' = "closed" /\ pushed' = FALSE
  /\ pictures' = <<>> /\ shown' = {} /\ tagged' = {} /\ veiled' = {}
  /\ index' = NoPage /\ current' = NoPage
  /\ bars' = FALSE /\ animated' = {}
  /\ UNCHANGED <<cache, browser>>

Left ==
  /\ phase = "leaving"
  /\ hidden' = hidden \ animated
  /\ Closed

(* A mutant: the completion looks up the page on screen again.             *)
PoppedByPage ==
  /\ pushed
  /\ phase = "leaving"
  /\ hidden' = hidden \ {pictures[current]}
  /\ Closed

(* The completion of the pop animation, and of the one that dismisses,     *)
(* shows the source view it captured when it began.                        *)
Popped == pushed /\ Left

Dismissed == ~pushed /\ Left

(* A vertical pan begins; the interactive transition begins with it.       *)
Drag ==
  /\ Depart
  /\ phase' = "dragging"
  /\ UNCHANGED <<cache, screen, shown, tagged, index, current>>

(* The pan ends: far or fast enough it finishes the transition, otherwise  *)
(* it cancels it.                                                          *)
DragEnd(finish) ==
  /\ phase = "dragging"
  /\ phase' = IF finish THEN "landing" ELSE "restoring"
  /\ bars' = finish
  /\ UNCHANGED <<cache, screen, shown, tagged, veiled, index, current, animated, hidden>>

Landed ==
  /\ phase = "landing"
  /\ hidden' = hidden \ {pictures[current]}
  /\ Closed

(* processFinishInteractiveTransitionAnimation of a pop and of a           *)
(* dismissal, up to its completion.                                        *)
PopFinished == pushed /\ Landed

DismissFinished == ~pushed /\ Landed

Restored ==
  /\ phase = "restoring"
  /\ phase' = "open"
  /\ hidden' = hidden \ {pictures[current]}
  /\ UNCHANGED <<cache, screen, shown, tagged, index, current, bars, animated>>

(* A mutant: the tags of page currentIndex are shown again.                *)
PopCancelledByIndex ==
  /\ pushed /\ Restored
  /\ veiled' = veiled \ {index}

(* processCancelInteractiveTransitionAnimation: the one of a pop shows the *)
(* tags again, the one of a dismissal does not.                            *)
PopCancelled ==
  /\ pushed /\ Restored
  /\ veiled' = veiled \ {current}

DismissCancelled ==
  /\ ~pushed /\ Restored
  /\ UNCHANGED veiled
-----------------------------------------------------------------------------
(* The library keeps a downloaded thumbnail before it answers; it may      *)
(* throw it away at any time.                                              *)
Store(p) ==
  /\ p \notin stored
  /\ \E l \in loads : l.picture = p
  /\ stored' = stored \cup {p}
  /\ UNCHANGED <<status, loads, screen, phase, shown, tagged, veiled, index, current,
                 bars, animated, hidden>>

Evict(p) ==
  /\ p \in stored
  /\ stored' = stored \ {p}
  /\ UNCHANGED <<status, loads, screen, phase, shown, tagged, veiled, index, current,
                 bars, animated, hidden>>

(* The thumbnail says which image view gets the answer, the original which *)
(* one is on the page.                                                     *)
ShowsAnswer(p) == p \in GifThumbnail <=> p \in GifOrigin

OnScreen(l) == l.browser = browser /\ phase # "closed"

(* A request is answered with an image.                                    *)
Loaded(l) ==
  /\ l \in loads
  /\ loads' = loads \ {l}
  /\ status' = [status EXCEPT ![l.picture] = "Finished"]
  /\ shown' = IF OnScreen(l) /\ ShowsAnswer(l.picture) THEN shown \cup {l.page} ELSE shown
  /\ UNCHANGED <<stored, screen, phase, tagged, veiled, index, current, bars, animated,
                 hidden>>

(* A request is answered without one: the block returns at once.           *)
LoadFailed(l) ==
  /\ l \in loads
  /\ loads' = loads \ {l}
  /\ UNCHANGED <<status, stored, screen, phase, shown, tagged, veiled, index, current,
                 bars, animated, hidden>>

Next ==
  \/ \E ps \in Lists, nav \in BOOLEAN : \E i \in DOMAIN ps : Open(ps, i, nav)
  \/ Pushed \/ Presented
  \/ \E ps \in Lists : AddPictures(ps)
  \/ \E i \in Page : Scroll(i)
  \/ Settle
  \/ Leave
  \/ Popped \/ Dismissed
  \/ Drag
  \/ \E finish \in BOOLEAN : DragEnd(finish)
  \/ PopFinished \/ DismissFinished
  \/ PopCancelled \/ DismissCancelled
  \/ \E p \in Picture : Store(p) \/ Evict(p)
  \/ \E l \in loads : Loaded(l) \/ LoadFailed(l)

Spec == Init /\ [][Next]_vars
-----------------------------------------------------------------------------
(* Every variable keeps to its set; a browser on screen has a page for     *)
(* currentIndex and one for currentPictureView, which the code uses as     *)
(* indexes without a test.                                                 *)
TypeOK ==
  /\ status \in [Picture -> LoadStatus]
  /\ stored \subseteq Picture
  /\ loads \subseteq Load
  /\ browser \in 0 .. MaxBrowsers
  /\ phase \in Phases
  /\ pushed \in BOOLEAN
  /\ pictures \in Seq(Picture)
  /\ shown \subseteq Page /\ tagged \subseteq Page /\ veiled \subseteq tagged
  /\ IF phase = "closed" THEN index = NoPage /\ current = NoPage
                         ELSE index \in Page /\ current \in Page
  /\ bars \in BOOLEAN
  /\ animated \subseteq Picture /\ hidden \subseteq Picture

(* A picture is asked for by one page at most, of all pages of all         *)
(* browsers, and while an answer is due its status says that it was asked  *)
(* for: processLoadContent's test of loadStatus, which a page of an        *)
(* earlier browser may have set, and processPictureLoading.                *)
OneLoad ==
  \A l \in loads : /\ status[l.picture] # "Pending"
                   /\ \A m \in loads : m.picture = l.picture => m = l

(* The status of a picture never goes back, whether its page, its browser  *)
(* or its cached image has gone meanwhile: a picture is asked for once.    *)
Forward(a, b) == \/ a = b
                 \/ a = "Pending"
                 \/ a = "Loading" /\ b = "Finished"
StatusForward == [][\A p \in Picture : Forward(status[p], status'[p])]_vars

(* The page on screen has its tags in place once the opening transition is *)
(* over, whichever way it became the current one: setTransitionFinished    *)
(* for the first page, setCurrentPictureView for the others.               *)
CurrentTagged == phase \notin {"closed", "opening"} => current \in tagged

(* When no transition is under way, no image view of the host is left      *)
(* hidden, after any sequence of drags, cancelled drags, pages and         *)
(* departures: every animation shows the view that was hidden for it.      *)
SourcesShown == phase \in {"closed", "open"} => hidden = {}

(* The tags of a pushed browser are all visible again when a drag has been *)
(* cancelled, even if currentIndex and currentPictureView disagree.        *)
TagsReturn == phase = "open" /\ pushed => veiled = {}

(* "DRPICPictureLoadStatusLoading // (loading)": a picture whose status is *)
(* Loading is being loaded (DRPICPicture.h:31).                            *)
LoadingIsLoading ==
  \A p \in Picture : status[p] = "Loading" => \E l \in loads : l.picture = p
=============================================================================
