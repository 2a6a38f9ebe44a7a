-------------------------- MODULE PhotoPagerProofs --------------------------
(***************************************************************************)
(* Proofs about PhotoPager, for every number of photographs and any blanks *)
(* among them.                                                             *)
(***************************************************************************)
EXTENDS PhotoPager, TLAPS

\* Under a bar that has a photograph nothing else is on its way: the load of the
\* photograph before it was cancelled.
OneLoad == bar \notin Blanks => loading \subseteq {bar}

PagerInv == TypeOK /\ OneLoad /\ PhotoOfBar /\ BarOfPage

-----------------------------------------------------------------------------
\* The index stays that of a photograph, at either end too.
LEMMA IndexStays ==
    ASSUME NEW i \in Indices
    PROVE  /\ Advanced(i) \in Indices /\ WentBack(i) \in Indices
           /\ After(i) \subseteq Indices /\ Before(i) \subseteq Indices
  BY CountAssumption DEF Indices, Advanced, WentBack, After, Before

LEMMA PagerInit == Init => PagerInv
<1>1. 0 \in Indices
  BY CountAssumption DEF Indices
<1>2. Init => TypeOK
  BY <1>1, BlanksAssumption DEF Init, TypeOK
<1>3. Init => OneLoad /\ PhotoOfBar /\ BarOfPage
  BY DEF Init, OneLoad, PhotoOfBar, BarOfPage
<1> QED
  BY <1>2, <1>3 DEF PagerInv

\* Setting the photograph of a bar cancels every other load and shows that
\* photograph or a placeholder.
LEMMA PhotoSet ==
    ASSUME NEW i \in Indices, PagerInv, ShowPhoto(i), cached' = cached, refused' = refused
    PROVE  /\ bar' = i
           /\ image' \in Indices \cup {Placeholder, Asset}
           /\ loading' \subseteq Indices
           /\ failed' \in BOOLEAN
           /\ OneLoad' /\ PhotoOfBar'
<1>1. CASE i \in Blanks
  BY <1>1 DEF ShowPhoto, view, PagerInv, TypeOK, OneLoad, PhotoOfBar
<1>2. CASE i \notin Blanks
  <2>1. bar' = i /\ SetImage(i)
    BY <1>2 DEF ShowPhoto
  <2>2. CASE i \in refused
    BY <2>1, <2>2 DEF SetImage, OneLoad, PhotoOfBar
  <2>3. CASE i \in cached \ refused
    BY <2>1, <2>3 DEF SetImage, OneLoad, PhotoOfBar
  <2>4. CASE i \notin cached \cup refused
    BY <2>1, <2>4 DEF SetImage, OneLoad, PhotoOfBar
  <2> QED
    BY <2>2, <2>3, <2>4
<1> QED
  BY <1>1, <1>2

LEMMA PagerStep == PagerInv /\ [Next]_vars => PagerInv'
<1> SUFFICES ASSUME PagerInv, [Next]_vars
             PROVE  PagerInv'
  OBVIOUS
<1> USE DEF PagerInv
<1>1. CASE Tap
  <2>1. PICK i \in Indices : ShowPhoto(i) /\ index' = i
    BY <1>1, IndexStays DEF Tap, TypeOK
  <2>2. UNCHANGED <<cached, refused, pages>>
    BY <1>1 DEF Tap
  <2>3. OneLoad' /\ PhotoOfBar'
    BY <2>1, <2>2, PhotoSet
  <2>4. TypeOK'
    BY <2>1, <2>2, PhotoSet DEF TypeOK, pages
  <2>5. BarOfPage'
    BY <2>2 DEF BarOfPage, pages
  <2> QED
    BY <2>3, <2>4, <2>5
<1>2. ASSUME NEW i \in Indices \ Blanks, PhotoArrives(i)
      PROVE  PagerInv'
  <2>1. TypeOK'
    BY <1>2 DEF PhotoArrives, TypeOK, pages
  <2>2. OneLoad' /\ PhotoOfBar'
    BY <1>2 DEF PhotoArrives, OneLoad, PhotoOfBar
  <2>3. BarOfPage'
    BY <1>2 DEF PhotoArrives, BarOfPage, pages
  <2> QED
    BY <2>1, <2>2, <2>3
<1>3. ASSUME NEW i \in Indices \ Blanks, PhotoFails(i)
      PROVE  PagerInv'
  <2>1. TypeOK'
    BY <1>3 DEF PhotoFails, TypeOK, pages
  <2>2. OneLoad' /\ PhotoOfBar'
    BY <1>3 DEF PhotoFails, OneLoad, PhotoOfBar
  <2>3. BarOfPage'
    BY <1>3 DEF PhotoFails, BarOfPage, pages
  <2> QED
    BY <2>1, <2>2, <2>3
<1>4. ASSUME NEW i \in Indices \ Blanks, CacheChanges(i)
      PROVE  PagerInv'
  <2>1. UNCHANGED <<index, bar, view, pages>>
    BY <1>4 DEF CacheChanges
  <2>2. TypeOK'
    BY <1>4, <2>1 DEF CacheChanges, TypeOK, view, pages
  <2> QED
    BY <2>1, <2>2 DEF OneLoad, PhotoOfBar, BarOfPage, view, pages
<1>5. CASE MoreInfo \/ CloseDetails
  <2>1. 0 \in Indices
    BY CountAssumption DEF Indices
  <2>2. TypeOK'
    BY <1>5, <2>1 DEF MoreInfo, CloseDetails, TypeOK, view
  <2> QED
    BY <1>5, <2>2 DEF MoreInfo, CloseDetails, OneLoad, PhotoOfBar, BarOfPage, view
<1>6. CASE PageMoves
  <2>1. target' \in Indices
    BY <1>6, IndexStays DEF PageMoves, TypeOK
  <2>2. target' # page'
    BY <1>6, CountAssumption DEF PageMoves, After, Before, TypeOK, Indices
  <2>3. TypeOK'
    BY <1>6, <2>1 DEF PageMoves, TypeOK, view
  <2> QED
    BY <1>6, <2>2, <2>3 DEF PageMoves, OneLoad, PhotoOfBar, BarOfPage, view
<1>7. CASE PageSettles
  <2>1. TypeOK'
    BY <1>7 DEF PageSettles, TypeOK, view
  <2> QED
    BY <1>7, <2>1 DEF PageSettles, OneLoad, PhotoOfBar, BarOfPage, view
<1>8. CASE UNCHANGED vars
  BY <1>8 DEF vars, view, pages, TypeOK, OneLoad, PhotoOfBar, BarOfPage
<1> QED
  BY <1>1, <1>2, <1>3, <1>4, <1>5, <1>6, <1>7, <1>8 DEF Next

\* The invariant holds in every reachable state.
THEOREM PagerInvariant == Spec => []PagerInv
  BY PagerInit, PagerStep, PTL DEF Spec

-----------------------------------------------------------------------------
\* Every index used for a photograph, a bar or a page is that of one: no access
\* to imageUrls, to the bars or to the controllers traps (CardViewModel.swift 29,
\* CardView.swift 63, SwippingPhotosController.swift 74, 92, 100).
THEOREM TypeCorrect == Spec => []TypeOK
<1>1. PagerInv => TypeOK
  BY DEF PagerInv
<1> QED
  BY <1>1, PagerInvariant, PTL

\* The photograph shown is that of the white bar, or a placeholder
\* (CardView.swift 48-66).
THEOREM PhotoMatchesBar == Spec => []PhotoOfBar
<1>1. PagerInv => PhotoOfBar
  BY DEF PagerInv
<1> QED
  BY <1>1, PagerInvariant, PTL

\* The white bar of the details screen is that of the page shown
\* (SwippingPhotosController.swift 65-77).
THEOREM PageMatchesBar == Spec => []BarOfPage
<1>1. PagerInv => BarOfPage
  BY DEF PagerInv
<1> QED
  BY <1>1, PagerInvariant, PTL
=============================================================================
