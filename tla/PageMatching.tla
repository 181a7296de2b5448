---------------------------- MODULE PageMatching ----------------------------
(***************************************************************************)
(* Preprocess of internal/omr/preprocess.go: which scanned page becomes    *)
(* which page of the template, and which way up.  Whether FindAnchors      *)
(* finds a page's anchors on a sheet (AnchorSearch) is given by matches.   *)
(*                                                                         *)
(* Sheets are numbered as they were scanned and "upright" is how they were *)
(* scanned; the rotation by a half turn is Flip.                           *)
(***************************************************************************)
EXTENDS Naturals, FiniteSets

CONSTANTS
  Pages,            \* pages of the template, and of the scan
  MaxMatches        \* bound: sheets and sides on which anchors are found

ASSUME PagesAssumption == Pages \in Nat \ {0} /\ MaxMatches \in Nat

Sheets == 1..Pages
Sides  == {"upright", "turned"}

\* A sheet as it lies in the slice.
Mat == [sheet : Sheets, side : Sides]

VARIABLES
  matches,          \* the anchors of page n are found on sheet s with side d
  pages,            \* the slice of matrices
  i, j,             \* the page whose anchors are sought, the place they are sought at
  at,               \* what is next, or how it ended
  locations,        \* trueAnchorLocations: on what they were found
  out               \* the transformed sheets

places == <<pages, i, j>>
vars   == <<matches, places, at, locations, out>>

Nothing == [sheet |-> 0, side |-> "upright"]

Init ==
  /\ matches \in SUBSET ((1..Pages) \X Mat) /\ Cardinality(matches) <= MaxMatches
  /\ pages = [n \in 1..Pages |-> [sheet |-> n, side |-> "upright"]]
  /\ i = 1 /\ j = 1
  /\ locations = [n \in 1..Pages |-> Nothing] /\ out = locations
  /\ at = "validate"

FindsAnchors == <<i, pages[j]>> \in matches

OtherSide(side) == CHOOSE d \in Sides : d # side

\* Bug: a page is only ever turned one way.
FlippedOnce == [pages EXCEPT ![j].side = "turned"]

Flipped == [pages EXCEPT ![j].side = OtherSide(@)]

Swapped == [pages EXCEPT ![i] = pages[j], ![j] = pages[i]]

\* Bug: the locations are kept where the page was found.
PlaceOfFoundAt == j

PlaceOf == i

\* Bug: pages already matched are tried again.
NextStartFirst == 1

NextStart == i + 1

\* The number of pages, an empty page, its type or its aspect ratio.
Validate ==
  /\ at = "validate" /\ at' \in {"match", "refused"}
  /\ UNCHANGED <<matches, places, locations, out>>

\* FindAnchors finds the anchors, at the first try or on the turned page.
Match ==
  /\ at \in {"match", "matchTurned"} /\ FindsAnchors
  /\ pages' = Swapped
  /\ locations' = [locations EXCEPT ![PlaceOf] = pages[j]]
  /\ i' = i + 1 /\ j' = NextStart
  /\ at' = IF i = Pages THEN "estimate" ELSE "match"
  /\ UNCHANGED <<matches, out>>

\* ErrCannotMatchAnchor: the page is turned and tried again.
Flip ==
  /\ at = "match" /\ ~FindsAnchors
  /\ pages' = Flipped /\ at' = "matchTurned"
  /\ UNCHANGED <<matches, i, j, locations, out>>

\* It does not match either: the next page is tried, if there is one.
FlipBack ==
  /\ at = "matchTurned" /\ ~FindsAnchors
  /\ pages' = Flipped
  /\ IF j < Pages THEN j' = j + 1 /\ at' = "match"
     ELSE j' = j /\ at' = "noMatch"
  /\ UNCHANGED <<matches, i, locations, out>>

\* Finding the anchors ends in another error, or a transformation cannot be
\* estimated or applied: ErrOpenCV.
Fail ==
  /\ at \in {"match", "matchTurned", "estimate", "transform"}
  /\ at' = "failed" /\ out' = [n \in 1..Pages |-> Nothing]
  /\ UNCHANGED <<matches, places, locations>>

\* EstimateAffine2D for every page, from where its anchors are to where they
\* should be.
Estimate ==
  /\ at = "estimate" /\ at' = "transform"
  /\ UNCHANGED <<matches, places, locations, out>>

\* WarpAffine for the pages in order.
Warp ==
  /\ at = "transform"
  /\ \E n \in 1..Pages :
       /\ out[n] = Nothing /\ \A m \in 1..(n - 1) : out[m] # Nothing
       /\ out' = [out EXCEPT ![n] = pages[n]]
       /\ at' = IF n = Pages THEN "done" ELSE at
  /\ UNCHANGED <<matches, places, locations>>

Next == Validate \/ Match \/ Flip \/ FlipBack \/ Fail \/ Estimate \/ Warp

Spec == Init /\ [][Next]_vars

-----------------------------------------------------------------------------
(* What must hold.                                                         *)

\* Besides the types: the slice always holds every sheet once.
TypeOK ==
  /\ pages \in [1..Pages -> Mat] /\ {pages[n].sheet : n \in 1..Pages} = Sheets
  /\ locations \in [1..Pages -> Mat \cup {Nothing}] /\ out \in [1..Pages -> Mat \cup {Nothing}]
  /\ i \in 1..(Pages + 1) /\ j \in 1..(Pages + 1)
  /\ at \in {"validate", "match", "matchTurned", "estimate", "transform", "done", "noMatch",
             "refused", "failed"}
  /\ at \in {"match", "matchTurned", "noMatch"} => i <= j /\ j <= Pages

\* After any number of swaps each page lies where its anchors were found, that
\* side up, and the locations beside it are its own: the transformation is
\* estimated from the one and applied to the other (Preprocess).
LocationsAreThePages ==
  \A n \in 1..(i - 1) : locations[n] = pages[n] /\ <<n, pages[n]>> \in matches

\* A page that no anchors were found on lies as it was scanned, whichever
\* pages were tried before it and however the matching ends (Preprocess).
OthersLieAsScanned ==
  \A n \in i..Pages : pages[n].side = "turned" => n = j /\ at \in {"matchTurned", "failed"}

InOrder == \A n \in 1..Pages : <<n, [sheet |-> n, side |-> "upright"]>> \in matches

\* Where each page would match as it was scanned nothing is moved or turned,
\* whatever else would match too, as when all pages have the same anchors.
OrderIsKept == InOrder => \A n \in 1..Pages : pages[n] = [sheet |-> n, side |-> "upright"]

Separable ==
  /\ \A n \in 1..Pages : \E m \in Mat : <<n, m>> \in matches
  /\ \A a, b \in matches : a[2].sheet = b[2].sheet => a[1] = b[1]

\* Where no sheet matches two pages of the template, the greedy choice finds
\* every page, in any order and either way up.
SeparableIsFound == Separable => at # "noMatch"
=============================================================================
