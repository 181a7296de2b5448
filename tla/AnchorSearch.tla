---------------------------- MODULE AnchorSearch ----------------------------
(***************************************************************************)
(* FindAnchors, findAnchor and bisectionSearch of internal/omr/anchor.go:  *)
(* how the anchors of one page are found although the page lies skewed on  *)
(* the scan.                                                               *)
(*                                                                         *)
(* Angles are floats, here whole numbers of a unit as small as one of them *)
(* needs.  The ends of an interval are rounded, by up to half the spacing  *)
(* of the floats where the search goes on; nobody validates the angle it   *)
(* begins at, so that spacing can be anything.  The page's skew is the     *)
(* angle at which all its anchors match best; how well one matches depends *)
(* on how far from that it was turned.                                     *)
(***************************************************************************)
EXTENDS Integers

CONSTANTS
  Anchors,                \* how many there are on the page
  InitialAngle, HalfBreadth, MaxQuality,    \* FindAnchorConfig
  MinConfidence, Epsilon,
  MaxIterations,          \* 1 << 20
  Spacings,               \* how far apart floats may be around a template's angle
  MaxSkew,                \* bound: on the skew of a page
  Far,                    \* bound: turned farther than this, matches get no worse
  Falloffs,               \* how well an anchor may match, by distance from the skew
  Powers                  \* of two

ASSUME NumbersAssumption ==
  /\ {InitialAngle, MaxQuality, MinConfidence} \subseteq Int
  /\ {HalfBreadth, Epsilon, MaxSkew, Far} \subseteq Nat
  /\ Spacings \subseteq Nat \ {0}
  /\ Epsilon > 0
  /\ Anchors \in Nat \ {0}                        \* the template's validation

\* A double is at most 2^2100 times as large as another, and the loop has 2^20
\* rounds: halving the breadth in each would bring it below one unit.
ASSUME IterationsAssumption ==
  /\ MaxIterations \in Nat \ {0}
  /\ Powers \in [0..MaxIterations -> Nat] /\ Powers[0] = 1
  /\ \A n \in 0..(MaxIterations - 1) : Powers[n + 1] = 2 * Powers[n]
  /\ 2 * HalfBreadth < Powers[MaxIterations - 1]

\* Matches get worse with the distance.
ASSUME FalloffsAssumption ==
  /\ Falloffs \subseteq [0..Far -> Int]
  /\ \A f \in Falloffs : \A d, e \in 0..Far : d < e => f[e] < f[d]

\* A match good enough to take its angle for the next anchors is near the skew.
ASSUME MaxQualityAssumption ==
  \A f \in Falloffs : \A d \in 0..Far : f[d] >= MaxQuality => d <= 2 * HalfBreadth

VARIABLES
  skew, falloff,    \* the page
  spacing,          \* how far apart the floats are around the template's angle
  initial,          \* conf.InitialAngle
  at,               \* what is evaluated next, or how it ended
  lo, hi, rounds,   \* the interval of the search and how often it was narrowed
  best,             \* the best candidate of the search and its quality
  found             \* how many anchors were found so far

page   == <<skew, falloff, spacing>>
search == <<lo, hi, rounds, best>>
vars   == <<page, initial, at, search, found>>

Abs(n) == IF n < 0 THEN -n ELSE n
Least(a, b) == IF a < b THEN a ELSE b

anchor == found + 1

\* What a value may be rounded to that is exactly a number of quarters.
Rounded(quarters) ==
  {n \in (quarters \div 4 - spacing)..(quarters \div 4 + spacing + 1) :
     Abs(4 * n - quarters) <= 2 * spacing}

\* The interval whose ends lie so many quarters from the middle.  Rounding keeps
\* the ends in order.
Around(middle, quarters) ==
  /\ lo' \in Rounded(4 * middle - quarters)
  /\ hi' \in Rounded(4 * middle + quarters)
  /\ lo' <= hi'

\* The objective function: the anchor turned by candidate, matched on the page.
Quality(candidate) == falloff[anchor][Least(Abs(candidate - skew), Far)]

Init ==
  /\ skew \in (-MaxSkew)..MaxSkew
  /\ falloff \in [1..Anchors -> Falloffs]
  /\ spacing \in Spacings
  /\ initial = InitialAngle
  /\ at = "next" /\ lo = 0 /\ hi = 0 /\ rounds = 0
  /\ best = [candidate |-> 0, quality |-> 0]
  /\ found = 0

\* Turning or matching the anchor fails (ErrOpenCV), or the matrices are empty
\* or of unlike types.
ObjectiveFails ==
  /\ at \in {"first", "lo", "hi"} /\ at' = "failed"
  /\ UNCHANGED <<page, initial, search, found>>

\* findAnchor begins its search around the angle of the configuration.
FindAnchor ==
  /\ at = "next"
  /\ Around(initial, 4 * HalfBreadth) /\ rounds' = 0
  /\ at' = "first"
  /\ UNCHANGED <<page, initial, best, found>>

\* The first candidate is half the breadth, wherever the interval is.
EvaluateFirst ==
  /\ at = "first"
  /\ LET candidate == (hi - lo) \div 2 IN
       /\ best' = [candidate |-> candidate, quality |-> Quality(candidate)]
       /\ at' = IF Quality(candidate) > MaxQuality THEN "found" ELSE "lo"
  /\ UNCHANGED <<page, initial, lo, hi, rounds, found>>

\* Bug: the last candidate wins.
BetterLast(candidate) == [candidate |-> candidate, quality |-> Quality(candidate)]

Better(candidate) ==
  IF Quality(candidate) > best.quality
  THEN [candidate |-> candidate, quality |-> Quality(candidate)]
  ELSE best

\* One of the two candidates of a round; the search may end with it.
Evaluate(place, candidate, after) ==
  /\ at = place
  /\ best' = Better(candidate)
  /\ at' = IF Better(candidate).quality > MaxQuality THEN "found" ELSE after
  /\ UNCHANGED <<page, initial, lo, hi, rounds, found>>

EvaluateLo == Evaluate("lo", lo, "hi")
EvaluateHi == Evaluate("hi", hi, "narrow")

\* Bug: the interval is narrowed to a quarter.
ReachQuarter(breadth) == breadth \div 2

\* Bug: the interval keeps its breadth.
ReachWhole(breadth) == 2 * breadth

\* How far the next ends are from the best candidate, in quarters: the interval
\* becomes half as broad.
Reach(breadth) == breadth

Narrow ==
  /\ at = "narrow" /\ hi - lo >= Epsilon
  /\ Around(best.candidate, Reach(hi - lo))
  /\ rounds' = rounds + 1
  /\ at' = IF rounds' < MaxIterations THEN "lo" ELSE "max iterations"
  /\ UNCHANGED <<page, initial, best, found>>

NarrowEnough ==
  /\ at = "narrow" /\ hi - lo < Epsilon /\ at' = "found"
  /\ UNCHANGED <<page, initial, search, found>>

NextAngle == IF best.quality >= MaxQuality THEN best.candidate ELSE initial

AllFound(count) == count = Anchors

\* FindAnchors with the result of findAnchor.
Found ==
  /\ at = "found" /\ best.quality >= MinConfidence
  /\ found' = found + 1
  /\ initial' = NextAngle
  /\ at' = IF AllFound(found') THEN "matched" ELSE "next"
  /\ UNCHANGED <<page, search>>

\* ErrCannotMatchAnchor.
Refuse ==
  /\ at = "found" /\ best.quality < MinConfidence /\ at' = "refused"
  /\ UNCHANGED <<page, initial, search, found>>

Next ==
  \/ FindAnchor \/ EvaluateFirst \/ EvaluateLo \/ EvaluateHi \/ ObjectiveFails
  \/ Narrow \/ NarrowEnough \/ Found \/ Refuse

Spec == Init /\ [][Next]_vars

-----------------------------------------------------------------------------
(* What must hold.                                                         *)

TypeOK ==
  /\ skew \in (-MaxSkew)..MaxSkew /\ falloff \in [1..Anchors -> Falloffs]
  /\ spacing \in Spacings
  /\ initial \in Int /\ lo \in Int /\ hi \in Int /\ rounds \in Nat
  /\ best \in [candidate : Int, quality : Int]
  /\ found \in 0..Anchors
  /\ at \in {"next", "first", "lo", "hi", "narrow", "found", "matched", "refused",
             "failed", "max iterations"}
  /\ at = "matched" <=> found = Anchors

\* What the roundings of a search can add up to, on both sides together.
Slack == 3 * spacing * (rounds + 1)

\* The skews the search reaches: its first interval and half of it on each side.
InReach == Abs(skew - InitialAngle) <= 2 * HalfBreadth

\* And the roundings have not carried it to where all matches are alike.
Reachable == InReach /\ 2 * HalfBreadth + Slack < Far

Tolerance == Least((Epsilon + Slack) \div 2, Far)

\* A page whose skew the search reaches is refused only for an anchor that
\* matches too badly even within half an Epsilon of the right angle, up to what
\* was rounded, although each search is guided by three qualities at a time and
\* begins where an anchor before it was found (findAnchor, FindAnchors).
NoFalseRefusal ==
  at = "refused" /\ Reachable /\ MaxQuality >= MinConfidence =>
    falloff[anchor][Tolerance] < MinConfidence

\* Every orientation found is within half an Epsilon of the skew, up to what was
\* rounded, unless it was good enough to stop early (bisectionSearch).
FoundIsClose ==
  at = "found" /\ Reachable =>
    2 * Abs(best.candidate - skew) < Epsilon + Slack \/ best.quality > MaxQuality

\* The search uses up its iterations (ErrMaxIterations) only around an angle so
\* large that half an Epsilon is no more than the spacing of the floats there:
\* everywhere else each round makes the interval narrower in spite of the
\* rounding (bisectionSearch, AnchorSearchConfig.Validate).
EndsInTime == at = "max iterations" => Epsilon <= 2 * spacing
=============================================================================
