----------------------------- MODULE PhotoPager -----------------------------
(***************************************************************************)
(* The photographs of one person: a card (CardView with its CardViewModel) *)
(* that is tapped on its right or left half, and the details screen with   *)
(* a page for each photograph (SwippingPhotosController).                  *)
(*                                                                         *)
(* The card has one image view, which loads each photograph over the       *)
(* network when it is tapped to: what is loaded late must not appear under *)
(* the bar of another photograph.                                          *)
(***************************************************************************)
EXTENDS Integers

CONSTANTS
    Count,    \* imageUrls.count
    Blanks    \* the indices whose URL is empty: URL(string:) gives nil

Indices == 0..(Count - 1)

\* Every profile has a photograph, or a blank in its place (Profile!CardNeverEmpty).
ASSUME CountAssumption == Count \in Nat \ {0}
ASSUME BlanksAssumption == Blanks \subseteq Indices

\* What an image view shows besides photographs.
Placeholder == -1    \* photo_placeholder
Asset       == -2    \* lady5c, set by the initializer

VARIABLES
    index,     \* CardViewModel.imageIndex
    bar,       \* the white bar of the card
    image,     \* what the card's image view shows
    loading,   \* the photographs on their way to the card's image view
    failed,    \* whether the last of them did not come
    cached,    \* the photographs in SDWebImage's memory cache
    refused,   \* SDWebImageManager.failedURLs
    details,   \* whether the details screen is open
    page,      \* the page it shows
    target,    \* the page it is being swiped to, or page
    pageBar    \* its white bar

view  == <<image, loading, failed>>
pages == <<details, page, target, pageBar>>
vars  == <<index, bar, view, cached, refused, pages>>

TypeOK ==
    /\ {index, bar, page, target, pageBar} \subseteq Indices
    /\ image \in Indices \cup {Placeholder, Asset}
    /\ loading \subseteq Indices
    /\ {failed, details} \subseteq BOOLEAN
    /\ cached \subseteq Indices
    /\ refused \subseteq Indices

-----------------------------------------------------------------------------
(* The card                                                                *)

\* Mutant: the load under way is not cancelled.
SetImageBesides(i) ==
    /\ image' = IF i \in cached \ refused THEN i ELSE Placeholder
    /\ loading' = IF i \in cached \cup refused THEN loading ELSE loading \cup {i}
    /\ failed' = (i \in refused)

\* sd_setImage(with:placeholderImage:).  The load under way is cancelled, the
\* placeholder is shown, and the photograph comes from memory at once, or later,
\* or not at all.
SetImage(i) ==
    /\ image' = IF i \in cached \ refused THEN i ELSE Placeholder
    /\ loading' = IF i \in cached \cup refused THEN {} ELSE {i}
    /\ failed' = (i \in refused)

\* cardViewModel is set on a new card; photographs may be cached already.
Init ==
    /\ index = 0 /\ bar = 0
    /\ cached \in SUBSET (Indices \ Blanks)
    /\ refused = {}
    /\ image = IF 0 \in Blanks THEN Asset ELSE IF 0 \in cached THEN 0 ELSE Placeholder
    /\ loading = IF 0 \in Blanks \cup cached THEN {} ELSE {0}
    /\ failed = FALSE
    /\ details = FALSE /\ page = 0 /\ target = 0 /\ pageBar = 0

\* The observer of imageIndex.  Without a URL the image view is left as it is.
ShowPhoto(i) ==
    /\ IF i \in Blanks THEN UNCHANGED view ELSE SetImage(i)
    /\ bar' = i

\* Mutant: the bound is the count.
AdvancedTooFar(i) == IF i + 1 < Count THEN i + 1 ELSE Count

\* advanceToNextPhoto and goToPrevPhoto stop at either end.
Advanced(i) == IF i + 1 < Count THEN i + 1 ELSE Count - 1
WentBack(i) == IF i > 0 THEN i - 1 ELSE 0

\* handleTap: the right half advances, the left half goes back.  At an end the
\* same photograph is set again.
Tap ==
    /\ ~details
    /\ \/ index' = Advanced(index)
       \/ index' = WentBack(index)
    /\ ShowPhoto(index')
    /\ UNCHANGED <<cached, refused, pages>>

\* A download, or a read of the disk, ends: whether it was cancelled is asked on
\* the main queue, where the image is then set.
PhotoArrives(i) ==
    /\ i \in loading
    /\ loading' = loading \ {i}
    /\ image' = i
    /\ cached' = cached \cup {i}
    /\ UNCHANGED <<index, bar, failed, refused, pages>>

\* It fails, and for some errors the URL is not tried again.
PhotoFails(i) ==
    /\ i \in loading
    /\ loading' = loading \ {i}
    /\ failed' = TRUE
    /\ refused' \in {refused, refused \cup {i}}
    /\ UNCHANGED <<index, bar, image, cached, pages>>

\* Other image views load the same photograph, or memory is needed.
CacheChanges(i) ==
    /\ \/ cached' = cached \cup {i} /\ UNCHANGED refused
       \/ cached' = cached \ {i} /\ UNCHANGED refused
       \/ refused' = refused \cup {i} /\ UNCHANGED cached
    /\ UNCHANGED <<index, bar, view, pages>>

-----------------------------------------------------------------------------
(* The details screen                                                      *)

\* handleMoreInfo: new controllers for the same view model.
MoreInfo ==
    /\ ~details
    /\ details' = TRUE
    /\ page' = 0 /\ target' = 0 /\ pageBar' = 0
    /\ UNCHANGED <<index, bar, view, cached, refused>>

\* The data source: the pages after and before the one shown.
After(i)  == IF i = Count - 1 THEN {} ELSE {i + 1}
Before(i) == IF i = 0 THEN {} ELSE {i - 1}

\* A swipe to a neighbour begins.
PageMoves ==
    /\ details
    /\ target = page
    /\ target' \in After(page) \cup Before(page)
    /\ UNCHANGED <<index, bar, view, cached, refused, details, page, pageBar>>

\* Mutant: the bar is set to where the swipe was going, as far as it came.
PageSettlesAtTarget ==
    /\ details
    /\ target # page
    /\ page' \in {page, target}
    /\ target' = page'
    /\ pageBar' = target
    /\ UNCHANGED <<index, bar, view, cached, refused, details>>

\* didFinishAnimating: the swipe went all the way, or back.
PageSettles ==
    /\ details
    /\ target # page
    /\ page' \in {page, target}
    /\ target' = page'
    /\ pageBar' = page'
    /\ UNCHANGED <<index, bar, view, cached, refused, details>>

\* handleTapDismiss, during a swipe too.
CloseDetails ==
    /\ details
    /\ details' = FALSE
    /\ page' = 0 /\ target' = 0 /\ pageBar' = 0
    /\ UNCHANGED <<index, bar, view, cached, refused>>

Next ==
    \/ Tap
    \/ \E i \in Indices \ Blanks : PhotoArrives(i) \/ PhotoFails(i) \/ CacheChanges(i)
    \/ MoreInfo \/ PageMoves \/ PageSettles \/ CloseDetails

Spec == Init /\ [][Next]_vars

-----------------------------------------------------------------------------
(* Properties                                                              *)

\* However fast the card is tapped, and in whatever order loads end, the
\* photograph shown is that of the white bar, or a placeholder while it is on
\* its way or when it did not come.  A slot that was saved as "" has a bar but
\* nothing to show, and leaves the photograph before it in place
\* (CardView.swift 53, 63, CardViewModel.swift 27-44).
PhotoOfBar ==
    bar \notin Blanks =>
        \/ image = bar
        \/ image = Placeholder /\ (bar \in loading \/ failed)

\* When no swipe is under way the white bar of the details screen is that of
\* the page shown, also after a swipe that was let go half way
\* (SwippingPhotosController.swift 65-77).
BarOfPage == details /\ target = page => pageBar = page
=============================================================================
