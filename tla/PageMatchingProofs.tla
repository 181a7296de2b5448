------------------------- MODULE PageMatchingProofs -------------------------
(***************************************************************************)
(* That PageMatching keeps pages and locations together, leaves ordered    *)
(* scans as they are and finds what can be told apart, for any number of   *)
(* pages and any matches.                                                  *)
(***************************************************************************)
EXTENDS PageMatching, TLAPS

Trying == {"match", "matchTurned", "noMatch"}

\* The types alone: what TypeOK says beyond them needs the rest.
Typed ==
  /\ matches \subseteq (1..Pages) \X Mat
  /\ pages \in [1..Pages -> Mat]
  /\ locations \in [1..Pages -> Mat \cup {Nothing}] /\ out \in [1..Pages -> Mat \cup {Nothing}]
  /\ i \in 1..(Pages + 1) /\ j \in 1..(Pages + 1)
  /\ at \in {"validate", "match", "matchTurned", "estimate", "transform", "done", "noMatch",
             "refused", "failed"}
  /\ at \in Trying \cup {"validate"} => i <= j /\ j <= Pages
  /\ at = "validate" => j = i

\* No sheet was lost.
AllSheets == \A s \in Sheets : \E n \in 1..Pages : pages[n].sheet = s

\* Whatever page the search has passed over matches neither way up, and the
\* page that is turned did not match as it lay.
PassedOver ==
  /\ at \in {"match", "matchTurned"} =>
       \A n \in i..(j - 1) : \A d \in Sides : <<i, [sheet |-> pages[n].sheet, side |-> d]>> \notin matches
  /\ at = "matchTurned" =>
       pages[j].side = "turned" /\ <<i, [sheet |-> pages[j].sheet, side |-> "upright"]>> \notin matches
  /\ at = "noMatch" =>
       \A n \in i..Pages : \A d \in Sides : <<i, [sheet |-> pages[n].sheet, side |-> d]>> \notin matches

\* While a scan in order is matched, every page is found where it lies.
StaysInOrder == InOrder => at # "matchTurned" /\ (at \in {"validate", "match"} => j = i)

IInv ==
  /\ Typed /\ AllSheets /\ PassedOver /\ StaysInOrder
  /\ LocationsAreThePages /\ OthersLieAsScanned /\ OrderIsKept

-----------------------------------------------------------------------------

LEMMA PagesIsNat == Pages \in Nat /\ Pages >= 1
BY PagesAssumption

\* While pages are matched the two places are places of the slice.
LEMMA PlacesLie ==
  ASSUME Typed, at \in Trying
  PROVE  i \in Nat /\ j \in Nat /\ 1 <= i /\ i <= j /\ j <= Pages
<1>1. i \in 1..(Pages + 1) /\ j \in 1..(Pages + 1) /\ i <= j /\ j <= Pages
  BY DEF Typed, Trying
<1> QED BY <1>1, PagesIsNat

LEMMA InitIInv == Init => IInv
<1> SUFFICES ASSUME Init PROVE IInv
  OBVIOUS
<1> Pages \in Nat /\ Pages >= 1
  BY PagesIsNat
<1>1. Typed
  BY DEF Init, Typed, Trying, Mat, Sheets, Sides, Nothing
<1>2. AllSheets
  BY DEF Init, AllSheets, Sheets
<1>3. PassedOver /\ StaysInOrder
  BY DEF Init, PassedOver, StaysInOrder
<1>4. LocationsAreThePages /\ OthersLieAsScanned /\ OrderIsKept
  BY DEF Init, LocationsAreThePages, OthersLieAsScanned, OrderIsKept
<1> QED BY <1>1, <1>2, <1>3, <1>4 DEF IInv

LEMMA TheOtherSide ==
  /\ OtherSide("upright") = "turned" /\ OtherSide("turned") = "upright"
<1>1. \E d \in Sides : d # "upright"
  BY DEF Sides
<1>2. \E d \in Sides : d # "turned"
  BY DEF Sides
<1> QED BY <1>1, <1>2 DEF OtherSide, Sides

\* Turning changes one side and nothing else.
LEMMA Turning ==
  ASSUME Typed, j \in 1..Pages
  PROVE  /\ Flipped \in [1..Pages -> Mat]
         /\ \A n \in 1..Pages : Flipped[n].sheet = pages[n].sheet
         /\ \A n \in 1..Pages : n # j => Flipped[n] = pages[n]
         /\ Flipped[j].side = OtherSide(pages[j].side)
<1>1. pages \in [1..Pages -> Mat]
  BY DEF Typed
<1>2. pages[j] \in Mat /\ pages[j].side \in Sides
  BY <1>1 DEF Mat
<1>3. OtherSide(pages[j].side) \in Sides
  BY <1>2, TheOtherSide DEF Sides
<1> DEFINE turned == [pages[j] EXCEPT !.side = OtherSide(pages[j].side)]
<1>4. turned \in Mat /\ turned.sheet = pages[j].sheet /\ turned.side = OtherSide(pages[j].side)
  BY <1>2, <1>3 DEF Mat
<1>5. Flipped = [pages EXCEPT ![j] = turned]
  BY <1>1 DEF Flipped
<1> HIDE DEF turned
<1> QED BY <1>1, <1>4, <1>5

\* A swap keeps every sheet and moves only the two places.
LEMMA Swapping ==
  ASSUME Typed, i \in 1..Pages, j \in 1..Pages
  PROVE  /\ Swapped \in [1..Pages -> Mat]
         /\ Swapped[i] = pages[j]
         /\ i # j => Swapped[j] = pages[i]
         /\ \A n \in 1..Pages : n # i /\ n # j => Swapped[n] = pages[n]
         /\ i = j => Swapped = pages
BY DEF Typed, Swapped

\* What the search leaves alone stays as it is.
LEMMA Untouched ==
  ASSUME IInv, UNCHANGED <<matches, pages, i, j, locations>>, Typed',
         at' \notin {"matchTurned", "noMatch"},
         at' = "match" => i = j,
         at \in {"matchTurned", "failed"} => at' = "failed"
  PROVE  IInv'
<1> Pages \in Nat /\ Pages >= 1
  BY PagesIsNat
<1>1. AllSheets' /\ LocationsAreThePages' /\ OrderIsKept'
  BY DEF IInv, AllSheets, LocationsAreThePages, OrderIsKept, InOrder
<1>2. PassedOver'
  <2>1. at' = "match" => i' = j' /\ i' \in Nat
    BY DEF IInv, Typed
  <2>2. at' = "match" => i'..(j' - 1) = {}
    BY <2>1
  <2> QED BY <2>2 DEF PassedOver
<1>3. StaysInOrder'
  <2>1. at' \in {"validate", "match"} => j' = i'
    BY DEF IInv, Typed
  <2> QED BY <2>1 DEF StaysInOrder
<1>4. OthersLieAsScanned'
  <2> SUFFICES ASSUME NEW n \in i..Pages, pages[n].side = "turned"
               PROVE  n = j /\ at' \in {"matchTurned", "failed"}
    BY DEF OthersLieAsScanned
  <2>1. n = j /\ at \in {"matchTurned", "failed"}
    BY DEF IInv, OthersLieAsScanned
  <2> QED BY <2>1
<1> QED BY <1>1, <1>2, <1>3, <1>4 DEF IInv

LEMMA StepIInv == IInv /\ [Next]_vars => IInv'
<1> SUFFICES ASSUME IInv, [Next]_vars PROVE IInv'
  OBVIOUS
<1> Pages \in Nat /\ Pages >= 1
  BY PagesIsNat
<1>i. /\ Typed /\ AllSheets /\ PassedOver /\ StaysInOrder
      /\ LocationsAreThePages /\ OthersLieAsScanned /\ OrderIsKept
  BY DEF IInv
<1>t. /\ pages \in [1..Pages -> Mat] /\ i \in 1..(Pages + 1) /\ j \in 1..(Pages + 1)
      /\ at \in Trying \cup {"validate"} => i <= j /\ j <= Pages
  BY <1>i DEF Typed
<1>1. CASE Validate
  <2>1. at = "validate" /\ at' \in {"match", "refused"}
        /\ UNCHANGED <<matches, pages, i, j, locations, out>>
    BY <1>1 DEF Validate, places
  <2>2. i = j /\ j <= Pages
    BY <1>i, <2>1 DEF Typed
  <2>3. Typed'
    BY <1>i, <2>1, <2>2 DEF Typed, Trying
  <2> QED BY <2>1, <2>2, <2>3, Untouched
<1>2. CASE Match
  <2>1. /\ at \in {"match", "matchTurned"} /\ <<i, pages[j]>> \in matches
        /\ pages' = Swapped /\ locations' = [locations EXCEPT ![i] = pages[j]]
        /\ i' = i + 1 /\ j' = i + 1 /\ at' = IF i = Pages THEN "estimate" ELSE "match"
        /\ UNCHANGED <<matches, out>>
    BY <1>2 DEF Match, FindsAnchors, PlaceOf, NextStart
  <2>p. i \in Nat /\ j \in Nat /\ 1 <= i /\ i <= j /\ j <= Pages
    BY <1>i, <2>1, PlacesLie DEF Trying
  <2>2. i \in 1..Pages /\ j \in 1..Pages /\ i <= j
    BY <2>p
  <2>3. /\ pages' \in [1..Pages -> Mat] /\ pages'[i] = pages[j]
        /\ i # j => pages'[j] = pages[i]
        /\ \A n \in 1..Pages : n # i /\ n # j => pages'[n] = pages[n]
        /\ i = j => pages' = pages
    BY <1>i, <2>1, <2>2, Swapping
  <2>4. Typed'
    <3>1. locations' \in [1..Pages -> Mat \cup {Nothing}]
      BY <1>i, <1>t, <2>1, <2>2 DEF Typed
    <3>2. i' \in 1..(Pages + 1) /\ j' \in 1..(Pages + 1) /\ i' <= j' /\ (i # Pages => j' <= Pages)
      <4>1. i' = i + 1 /\ j' = i + 1
        BY <2>1
      <4> QED BY <2>p, <4>1
    <3>3. /\ i = Pages => at' = "estimate"
          /\ i # Pages => at' = "match"
      BY <2>1
    <3>4. matches' \subseteq (1..Pages) \X Mat /\ out' \in [1..Pages -> Mat \cup {Nothing}]
      BY <1>i, <2>1 DEF Typed
    <3> QED BY <2>3, <3>1, <3>2, <3>3, <3>4 DEF Typed, Trying
  <2>5. AllSheets'
    BY <1>i, <2>2, <2>3 DEF AllSheets
  <2>6. PassedOver' /\ StaysInOrder'
    <3>1. i' = i + 1 /\ j' = i + 1 /\ at' \in {"estimate", "match"}
      BY <2>1
    <3>2. i'..(j' - 1) = {}
      BY <2>p, <3>1
    <3> QED BY <3>1, <3>2 DEF PassedOver, StaysInOrder
  <2>7. LocationsAreThePages'
    <3> SUFFICES ASSUME NEW n \in 1..i
                 PROVE  locations'[n] = pages'[n] /\ <<n, pages'[n]>> \in matches
      <4>1. i' - 1 = i /\ matches' = matches
        BY <2>p, <2>1
      <4> QED BY <4>1 DEF LocationsAreThePages
    <3>1. CASE n = i
      BY <1>i, <2>1, <2>2, <2>3, <3>1 DEF Typed
    <3>2. CASE n # i
      <4>1. n \in 1..(i - 1) /\ n \in 1..Pages /\ n # j
        BY <2>p, <3>2
      <4>2. locations'[n] = locations[n] /\ pages'[n] = pages[n]
        BY <1>i, <2>1, <2>2, <2>3, <3>2, <4>1 DEF Typed
      <4> QED BY <1>i, <4>1, <4>2 DEF LocationsAreThePages
    <3> QED BY <3>1, <3>2
  <2>8. OthersLieAsScanned'
    <3> SUFFICES ASSUME NEW n \in (i + 1)..Pages PROVE pages'[n].side # "turned"
      BY <2>1, <2>2 DEF OthersLieAsScanned
    <3>1. n \in i..Pages /\ n # i /\ n \in 1..Pages /\ i \in i..Pages
      BY <2>2
    <3>2. CASE n = j
      <4>1. pages'[n] = pages[i]
        BY <2>3, <3>1, <3>2
      <4> QED BY <1>i, <3>1, <3>2, <4>1 DEF OthersLieAsScanned
    <3>3. CASE n # j
      <4>1. pages'[n] = pages[n]
        BY <2>3, <3>1, <3>3
      <4> QED BY <1>i, <3>1, <3>3, <4>1 DEF OthersLieAsScanned
    <3> QED BY <3>2, <3>3
  <2>9. OrderIsKept'
    <3>1. InOrder' <=> InOrder
      BY <2>1 DEF InOrder
    <3>2. InOrder => i = j
      BY <1>i, <2>1 DEF StaysInOrder
    <3> QED BY <1>i, <2>3, <3>1, <3>2 DEF OrderIsKept
  <2> QED BY <2>4, <2>5, <2>6, <2>7, <2>8, <2>9 DEF IInv
<1>3. ASSUME at \in {"match", "matchTurned"}, ~FindsAnchors, pages' = Flipped,
             UNCHANGED <<matches, i, locations, out>>
      PROVE  /\ pages' \in [1..Pages -> Mat] /\ AllSheets' /\ LocationsAreThePages'
             /\ i \in 1..Pages /\ j \in 1..Pages /\ i <= j
             /\ \A n \in 1..Pages : pages'[n].sheet = pages[n].sheet
             /\ \A n \in i..Pages : n # j => pages'[n].side # "turned"
             /\ pages'[j].side = OtherSide(pages[j].side)
             /\ pages[j] = [sheet |-> pages[j].sheet, side |-> pages[j].side]
             /\ pages[j].side \in Sides
             /\ <<i, [sheet |-> pages[j].sheet, side |-> pages[j].side]>> \notin matches
  <2>p. i \in Nat /\ j \in Nat /\ 1 <= i /\ i <= j /\ j <= Pages
    BY <1>i, <1>3, PlacesLie DEF Trying
  <2>1. i \in 1..Pages /\ j \in 1..Pages /\ i <= j
    BY <2>p
  <2>2. /\ pages' \in [1..Pages -> Mat]
        /\ \A n \in 1..Pages : pages'[n].sheet = pages[n].sheet
        /\ \A n \in 1..Pages : n # j => pages'[n] = pages[n]
        /\ pages'[j].side = OtherSide(pages[j].side)
    BY <1>i, <1>3, <2>1, Turning
  <2>3. AllSheets'
    BY <1>i, <2>2 DEF AllSheets
  <2>4. LocationsAreThePages'
    <3>1. \A n \in 1..(i - 1) : n \in 1..Pages /\ n # j
      BY <2>p
    <3> QED BY <1>i, <1>3, <2>2, <3>1 DEF LocationsAreThePages
  <2>5. \A n \in i..Pages : n # j => pages'[n].side # "turned"
    <3>1. \A n \in i..Pages : n \in 1..Pages
      BY <2>p
    <3> QED BY <1>i, <2>2, <3>1 DEF OthersLieAsScanned
  <2>6. /\ pages[j] = [sheet |-> pages[j].sheet, side |-> pages[j].side]
        /\ pages[j].side \in Sides
    BY <1>t, <2>1 DEF Mat
  <2> QED BY <1>3, <2>1, <2>2, <2>3, <2>4, <2>5, <2>6 DEF FindsAnchors
<1>4. CASE Flip
  <2>1. /\ at = "match" /\ ~FindsAnchors /\ pages' = Flipped /\ at' = "matchTurned"
        /\ UNCHANGED <<matches, i, j, locations, out>>
    BY <1>4 DEF Flip
  <2>p. i \in Nat /\ j \in Nat /\ 1 <= i /\ i <= j /\ j <= Pages
    BY <1>i, <2>1, PlacesLie DEF Trying
  <2>2. j \in i..Pages /\ pages[j].side = "upright"
    <3>1. j \in i..Pages
      BY <2>p
    <3>2. pages[j].side # "turned"
      BY <1>i, <2>1, <3>1 DEF OthersLieAsScanned
    <3> QED BY <1>3, <2>1, <3>1, <3>2 DEF Sides
  <2>3. ~InOrder
    <3> SUFFICES ASSUME InOrder PROVE FALSE
      OBVIOUS
    <3>1. j = i
      BY <1>i, <2>1 DEF StaysInOrder
    <3>2. pages[i] = [sheet |-> i, side |-> "upright"]
          /\ <<i, [sheet |-> i, side |-> "upright"]>> \in matches
      BY <1>i, <1>3, <2>1 DEF OrderIsKept, InOrder
    <3> QED BY <2>1, <3>1, <3>2 DEF FindsAnchors
  <2>4. Typed'
    BY <1>i, <1>3, <2>1 DEF Typed, Trying
  <2>5. PassedOver'
    <3>1. \A n \in i..(j - 1) : n \in 1..Pages
      BY <2>p
    <3>2. pages'[j].side = "turned" /\ pages'[j].sheet = pages[j].sheet
      BY <1>3, <2>1, <2>2, TheOtherSide
    <3>3. <<i, [sheet |-> pages[j].sheet, side |-> "upright"]>> \notin matches
      BY <1>3, <2>1, <2>2
    <3> QED BY <1>i, <1>3, <2>1, <3>1, <3>2, <3>3 DEF PassedOver
  <2>6. StaysInOrder' /\ OrderIsKept'
    BY <2>1, <2>3 DEF StaysInOrder, OrderIsKept, InOrder
  <2>7. OthersLieAsScanned'
    BY <1>3, <2>1 DEF OthersLieAsScanned
  <2> QED BY <1>3, <2>1, <2>4, <2>5, <2>6, <2>7 DEF IInv
<1>5. CASE FlipBack
  <2>1. /\ at = "matchTurned" /\ ~FindsAnchors /\ pages' = Flipped
        /\ \/ j < Pages /\ j' = j + 1 /\ at' = "match"
           \/ ~(j < Pages) /\ j' = j /\ at' = "noMatch"
        /\ UNCHANGED <<matches, i, locations, out>>
    <3>1. CASE j < Pages
      BY <1>5, <3>1 DEF FlipBack
    <3>2. CASE ~(j < Pages)
      BY <1>5, <3>2 DEF FlipBack
    <3> QED BY <3>1, <3>2
  <2>p. i \in Nat /\ j \in Nat /\ 1 <= i /\ i <= j /\ j <= Pages
    BY <1>i, <2>1, PlacesLie DEF Trying
  <2>2. pages[j].side = "turned" /\ pages'[j].side = "upright"
    BY <1>i, <1>3, <2>1, TheOtherSide DEF PassedOver
  <2>3. ~InOrder
    BY <1>i, <2>1 DEF StaysInOrder
  <2>4. Typed'
    BY <1>i, <1>3, <2>1 DEF Typed, Trying
  <2>5. \A n \in i..j : \A d \in Sides : <<i, [sheet |-> pages'[n].sheet, side |-> d]>> \notin matches
    <3> SUFFICES ASSUME NEW n \in i..j, NEW d \in Sides
                 PROVE  <<i, [sheet |-> pages[n].sheet, side |-> d]>> \notin matches
      BY <1>3, <2>1
    <3>1. CASE n = j
      BY <1>i, <1>3, <2>1, <2>2, <3>1 DEF PassedOver, Sides
    <3>2. CASE n # j
      <4>1. n \in i..(j - 1)
        BY <2>p, <3>2
      <4> QED BY <1>i, <2>1, <4>1 DEF PassedOver
    <3> QED BY <3>1, <3>2
  <2>6. PassedOver'
    <3>1. CASE at' = "match"
      <4>0. i' = i /\ j' = j + 1
        BY <2>1, <3>1
      <4>1. i' = i /\ j' - 1 = j
        BY <2>p, <4>0
      <4> QED BY <2>1, <2>5, <3>1, <4>1 DEF PassedOver
    <3>2. CASE at' = "noMatch"
      <4>0. i' = i /\ ~(j < Pages)
        BY <2>1, <3>2
      <4>1. i' = i /\ j = Pages
        BY <2>p, <4>0
      <4> QED BY <2>1, <2>5, <3>2, <4>1 DEF PassedOver
    <3> QED BY <2>1, <3>1, <3>2
  <2>7. StaysInOrder' /\ OrderIsKept'
    BY <2>1, <2>3 DEF StaysInOrder, OrderIsKept, InOrder
  <2>8. OthersLieAsScanned'
    BY <1>3, <2>1, <2>2 DEF OthersLieAsScanned
  <2> QED BY <1>3, <2>1, <2>4, <2>6, <2>7, <2>8 DEF IInv
<1>6. CASE Fail
  <2>1. at' = "failed" /\ out' = [n \in 1..Pages |-> Nothing]
        /\ UNCHANGED <<matches, pages, i, j, locations>>
    BY <1>6 DEF Fail, places
  <2>2. Typed'
    BY <1>i, <2>1 DEF Typed, Trying
  <2> QED BY <2>1, <2>2, Untouched
<1>7. CASE Estimate
  <2>1. at = "estimate" /\ at' = "transform" /\ UNCHANGED <<matches, pages, i, j, locations, out>>
    BY <1>7 DEF Estimate, places
  <2>2. Typed'
    BY <1>i, <2>1 DEF Typed, Trying
  <2> QED BY <2>1, <2>2, Untouched
<1>8. CASE Warp
  <2>1. PICK n \in 1..Pages :
          /\ out' = [out EXCEPT ![n] = pages[n]] /\ at' = IF n = Pages THEN "done" ELSE at
          /\ at = "transform" /\ UNCHANGED <<matches, pages, i, j, locations>>
    BY <1>8 DEF Warp, places
  <2>2. out' \in [1..Pages -> Mat \cup {Nothing}]
    BY <1>i, <1>t, <2>1 DEF Typed
  <2>3. Typed'
    BY <1>i, <2>1, <2>2 DEF Typed, Trying
  <2> QED BY <2>1, <2>3, Untouched
<1>9. CASE UNCHANGED vars
  <2>1. UNCHANGED <<matches, pages, i, j, at, locations, out>>
    BY <1>9 DEF vars, places
  <2> QED
    BY <2>1 DEF IInv, Typed, AllSheets, PassedOver, StaysInOrder, LocationsAreThePages,
                OthersLieAsScanned, OrderIsKept, InOrder
<1> QED
  BY <1>1, <1>2, <1>4, <1>5, <1>6, <1>7, <1>8, <1>9 DEF Next

THEOREM Invariant == Spec => []IInv
<1> QED BY InitIInv, StepIInv, PTL DEF Spec

\* The slice is always the scanned pages in some order, each of them once.
THEOREM MatchingTypeCorrect == Spec => []TypeOK
<1>1. IInv => TypeOK
  <2> SUFFICES ASSUME IInv PROVE TypeOK
    OBVIOUS
  <2>1. {pages[n].sheet : n \in 1..Pages} = Sheets
    BY DEF IInv, Typed, AllSheets, Mat
  <2> QED BY <2>1 DEF IInv, Typed, TypeOK, Trying
<1> QED BY <1>1, Invariant, PTL

\* A transformation is always estimated from the page it is applied to.
THEOREM LocationsFollowPages == Spec => []LocationsAreThePages
<1>1. IInv => LocationsAreThePages
  BY DEF IInv
<1> QED BY <1>1, Invariant, PTL

\* Pages nothing was found on are not left turned.
THEOREM OthersAreUntouched == Spec => []OthersLieAsScanned
<1>1. IInv => OthersLieAsScanned
  BY DEF IInv
<1> QED BY <1>1, Invariant, PTL

\* Scans in order stay in order, whatever else would match.
THEOREM OrderedScansStay == Spec => []OrderIsKept
<1>1. IInv => OrderIsKept
  BY DEF IInv
<1> QED BY <1>1, Invariant, PTL

\* The greedy search never misses an assignment that is the only one: a sheet
\* the page sought could take is either still ahead or was found by another
\* page, which then shares it.
THEOREM SeparablePagesAreFound == Spec => []SeparableIsFound
<1>1. IInv => SeparableIsFound
  <2> Pages \in Nat /\ Pages >= 1
    BY PagesIsNat
  <2> SUFFICES ASSUME IInv, Separable, at = "noMatch" PROVE FALSE
    BY DEF SeparableIsFound
  <2>p. i \in Nat /\ 1 <= i /\ i <= Pages
    <3>1. i \in Nat /\ j \in Nat /\ 1 <= i /\ i <= j /\ j <= Pages
      BY PlacesLie DEF IInv, Trying
    <3> QED BY <3>1
  <2>1. i \in 1..Pages
    BY <2>p
  <2>2. PICK m \in Mat : <<i, m>> \in matches
    BY <2>1 DEF Separable
  <2>3. PICK n \in 1..Pages : pages[n].sheet = m.sheet
    BY <2>2 DEF IInv, AllSheets, Mat
  <2>4. CASE n < i
    <3>1. n \in 1..(i - 1)
      BY <2>p, <2>4
    <3>2. <<n, pages[n]>> \in matches
      BY <3>1 DEF IInv, LocationsAreThePages
    <3>3. n = i
      BY <2>2, <2>3, <3>2 DEF Separable
    <3> QED BY <2>4, <3>3
  <2>5. CASE ~(n < i)
    <3>1. n \in i..Pages
      BY <2>p, <2>5
    <3>2. m = [sheet |-> pages[n].sheet, side |-> m.side] /\ m.side \in Sides
      BY <2>2, <2>3 DEF Mat
    <3> QED BY <2>2, <3>1, <3>2 DEF IInv, PassedOver
  <2> QED BY <2>4, <2>5
<1> QED BY <1>1, Invariant, PTL
=============================================================================
