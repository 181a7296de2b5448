------------------------- MODULE AnchorSearchProofs -------------------------
(***************************************************************************)
(* That AnchorSearch finds what it can reach, for any number of anchors,   *)
(* any breadth, any rounding and any way the matches fall off with the     *)
(* distance.                                                               *)
(*                                                                         *)
(* The heart is Bracketed: when a round begins, the skew is within one     *)
(* whole breadth of the middle of the interval, and what was rounded so    *)
(* far.  Then one of the two ends is within half a breadth of it, and so   *)
(* is whatever matches no worse.  InTime bounds the breadth: what is more  *)
(* of it than two spacings is halved each round, so it ends before its     *)
(* iterations do where two spacings are less than an Epsilon.              *)
(***************************************************************************)
EXTENDS AnchorSearch, TLAPS

Searching == {"first", "lo", "hi", "narrow"}

\* The interval is no broader than at first, and begins around the initial angle.
Interval ==
  /\ at \in Searching => lo <= hi /\ hi - lo <= 2 * HalfBreadth + Slack
  /\ at = "first" => /\ rounds = 0
                     /\ Abs(lo + hi - 2 * initial) <= spacing
                     /\ Abs(hi - lo - 2 * HalfBreadth) <= spacing

Bracketed ==
  /\ InReach /\ 2 * HalfBreadth < Far => Abs(skew - initial) <= 2 * HalfBreadth
  /\ Reachable /\ at \in {"lo", "hi"} => Abs(2 * skew - (lo + hi)) <= 2 * (hi - lo) + Slack

\* best is what its quality says, and no worse than the ends evaluated.
BestSoFar ==
  /\ at \in {"lo", "hi", "narrow", "found", "refused"} =>
       best.quality = Quality(best.candidate)
  /\ at \in {"hi", "narrow"} => best.quality >= Quality(lo)

\* After a round the best is within half a breadth of the skew.
Closing ==
  /\ Reachable /\ at = "narrow" => 2 * Abs(best.candidate - skew) <= hi - lo + Slack
  /\ Reachable /\ at \in {"found", "refused"} =>
       2 * Abs(best.candidate - skew) < Epsilon + Slack \/ best.quality > MaxQuality
  /\ at = "refused" => best.quality < MinConfidence

IInv == TypeOK /\ Interval /\ Bracketed /\ BestSoFar /\ Closing

-----------------------------------------------------------------------------

LEMMA Numbers ==
  /\ HalfBreadth \in Nat /\ Epsilon \in Nat /\ MaxSkew \in Nat /\ Far \in Nat
  /\ Epsilon > 0 /\ Anchors \in Nat /\ Anchors >= 1
  /\ InitialAngle \in Int /\ MaxQuality \in Int /\ MinConfidence \in Int
BY NumbersAssumption

LEMMA Typed ==
  ASSUME TypeOK
  PROVE  /\ skew \in Int /\ initial \in Int /\ lo \in Int /\ hi \in Int
         /\ spacing \in Nat /\ spacing >= 1 /\ rounds \in Nat
         /\ best.candidate \in Int /\ best.quality \in Int
         /\ found \in Nat /\ found <= Anchors
         /\ at # "matched" => found < Anchors
<1>1. skew \in (-MaxSkew)..MaxSkew
  BY DEF TypeOK
<1>2. best \in [candidate : Int, quality : Int]
  BY DEF TypeOK
<1>3. found \in 0..Anchors
  BY DEF TypeOK
<1>4. at # "matched" => found # Anchors
  BY Zenon DEF TypeOK
<1>5. initial \in Int /\ lo \in Int /\ hi \in Int /\ rounds \in Nat
  BY DEF TypeOK
<1>6. spacing \in Nat \ {0}
  BY NumbersAssumption DEF TypeOK
<1> QED BY <1>1, <1>2, <1>3, <1>4, <1>5, <1>6, Numbers

LEMMA SlackIsNat ==
  ASSUME TypeOK
  PROVE  Slack \in Nat /\ (rounds = 0 => Slack = 3 * spacing)
<1>1. spacing \in Nat /\ rounds \in Nat
  BY Typed
<1> QED BY <1>1 DEF Slack

\* A round adds three halves of the spacing on either side.
LEMMA SlackGrows ==
  ASSUME TypeOK, spacing' = spacing, rounds' = rounds + 1
  PROVE  Slack' = Slack + 3 * spacing
<1>1. spacing \in Nat /\ rounds \in Nat
  BY Typed
<1>2. \A s, n \in Nat : 3 * s * ((n + 1) + 1) = 3 * s * (n + 1) + 3 * s
  OBVIOUS
<1>3. Slack' = 3 * spacing * ((rounds + 1) + 1)
  BY DEF Slack
<1> QED BY <1>1, <1>2, <1>3 DEF Slack

\* Where the ends are rounded, the middle and the breadth are.
LEMMA Ends ==
  ASSUME NEW l \in Int, NEW h \in Int, NEW m \in Int, NEW q \in Int, NEW s \in Nat,
         Abs(4 * l - (4 * m - q)) <= 2 * s, Abs(4 * h - (4 * m + q)) <= 2 * s
  PROVE  Abs(l + h - 2 * m) <= s /\ Abs(2 * (h - l) - q) <= 2 * s
BY DEF Abs

LEMMA AroundIsNear ==
  ASSUME TypeOK, NEW middle \in Int, NEW quarters \in Int, Around(middle, quarters)
  PROVE  /\ lo' \in Int /\ hi' \in Int /\ lo' <= hi'
         /\ Abs(lo' + hi' - 2 * middle) <= spacing
         /\ Abs(2 * (hi' - lo') - quarters) <= 2 * spacing
<1>1. spacing \in Nat
  BY Typed
<1>2. /\ lo' \in Int /\ hi' \in Int /\ lo' <= hi'
      /\ Abs(4 * lo' - (4 * middle - quarters)) <= 2 * spacing
      /\ Abs(4 * hi' - (4 * middle + quarters)) <= 2 * spacing
  BY <1>1 DEF Around, Rounded
<1> QED BY <1>1, <1>2, Ends

\* Clipping a distance leaves it among those a falloff is defined for.
LEMMA Clipped ==
  ASSUME NEW n \in Int
  PROVE  Least(Abs(n), Far) \in 0..Far
BY Numbers DEF Least, Abs

LEMMA AnchorFalloff ==
  ASSUME TypeOK, at # "matched"
  PROVE  anchor \in 1..Anchors /\ falloff[anchor] \in Falloffs
<1>1. found \in Nat /\ found < Anchors
  BY Typed
<1>2. anchor \in 1..Anchors
  BY <1>1, Numbers DEF anchor
<1> QED BY <1>2 DEF TypeOK

LEMMA QualityIsInt ==
  ASSUME TypeOK, at # "matched", NEW c \in Int
  PROVE  Quality(c) \in Int
<1>1. skew \in Int
  BY Typed
<1>2. Least(Abs(c - skew), Far) \in 0..Far
  BY <1>1, Clipped
<1>3. falloff[anchor] \in [0..Far -> Int]
  BY AnchorFalloff, FalloffsAssumption
<1> QED BY <1>2, <1>3 DEF Quality

\* What matches no worse than a candidate is no farther from the skew.
LEMMA BetterIsNearer ==
  ASSUME TypeOK, at # "matched", NEW c \in Int, NEW b \in Int,
         Quality(b) >= Quality(c), Abs(c - skew) < Far
  PROVE  Abs(b - skew) <= Abs(c - skew)
<1> DEFINE f == falloff[anchor]
           d == Least(Abs(c - skew), Far)
           e == Least(Abs(b - skew), Far)
<1>1. skew \in Int /\ Far \in Nat
  BY Typed, Numbers
<1>2. d \in 0..Far /\ e \in 0..Far
  BY <1>1, Clipped
<1>3. f \in [0..Far -> Int] /\ \A x, y \in 0..Far : x < y => f[y] < f[x]
  BY AnchorFalloff, FalloffsAssumption
<1>4. f[e] >= f[d]
  BY DEF Quality
<1>5. f[d] \in Int /\ f[e] \in Int /\ (d < e => f[e] < f[d])
  <2> HIDE DEF f, d, e
  <2> QED BY <1>2, <1>3
<1>6. ~(d < e)
  <2> HIDE DEF f, d, e
  <2> QED BY <1>4, <1>5
<1> QED BY <1>1, <1>6 DEF Least, Abs

-----------------------------------------------------------------------------

LEMMA InitIInv == Init => IInv
<1> SUFFICES ASSUME Init PROVE IInv
  OBVIOUS
<1>1. TypeOK
  BY NumbersAssumption DEF Init, TypeOK
<1>2. skew \in Int
  BY NumbersAssumption DEF Init
<1> QED BY <1>1, <1>2 DEF Init, IInv, Interval, Bracketed, BestSoFar, Closing, Searching, InReach, Reachable, Abs

LEMMA SameQuality ==
  ASSUME NEW c, UNCHANGED <<page, found>>
  PROVE  Quality(c)' = Quality(c)
BY DEF Quality, page, anchor

LEMMA NarrowedInterval ==
  ASSUME TypeOK, Narrow
  PROVE  /\ lo' \in Int /\ hi' \in Int /\ lo' <= hi'
         /\ Abs(lo' + hi' - 2 * best.candidate) <= spacing
         /\ Abs(2 * (hi' - lo') - (hi - lo)) <= 2 * spacing
<1>1. Around(best.candidate, hi - lo)
  BY DEF Narrow, Reach
<1>2. best.candidate \in Int /\ hi - lo \in Int
  BY Typed
<1> QED BY <1>1, <1>2, AroundIsNear

LEMMA FirstInterval ==
  ASSUME TypeOK, FindAnchor
  PROVE  /\ lo' \in Int /\ hi' \in Int /\ lo' <= hi'
         /\ Abs(lo' + hi' - 2 * initial) <= spacing
         /\ Abs(hi' - lo' - 2 * HalfBreadth) <= spacing
<1>1. Around(initial, 4 * HalfBreadth)
  BY DEF FindAnchor
<1>2. initial \in Int /\ HalfBreadth \in Nat /\ 4 * HalfBreadth \in Int /\ spacing \in Nat
  BY Typed, Numbers
<1>3. /\ lo' \in Int /\ hi' \in Int /\ lo' <= hi'
      /\ Abs(lo' + hi' - 2 * initial) <= spacing
      /\ Abs(2 * (hi' - lo') - 4 * HalfBreadth) <= 2 * spacing
  BY <1>1, <1>2, AroundIsNear
<1>4. ASSUME NEW w \in Int, NEW b \in Nat, NEW s \in Nat, Abs(2 * w - 4 * b) <= 2 * s
      PROVE  Abs(w - 2 * b) <= s
  BY <1>4 DEF Abs
<1>5. hi' - lo' \in Int
  BY <1>3
<1> QED BY <1>2, <1>3, <1>4, <1>5

LEMMA TypeStep == TypeOK /\ [Next]_vars => TypeOK'
<1> SUFFICES ASSUME TypeOK, [Next]_vars PROVE TypeOK'
  OBVIOUS
<1> USE Typed
<1>1. CASE FindAnchor
  BY <1>1, FirstInterval DEF FindAnchor, TypeOK, page
<1>2. CASE EvaluateFirst
  <2> DEFINE candidate == (hi - lo) \div 2
  <2>1. candidate \in Int
    OBVIOUS
  <2>2. at # "matched"
    BY <1>2 DEF EvaluateFirst
  <2>3. Quality(candidate) \in Int
    BY <2>1, <2>2, QualityIsInt
  <2>4. best' = [candidate |-> candidate, quality |-> Quality(candidate)]
    BY <1>2 DEF EvaluateFirst
  <2>5. best' \in [candidate : Int, quality : Int]
    BY <2>1, <2>3, <2>4
  <2> QED BY <1>2, <2>5 DEF EvaluateFirst, TypeOK, page
<1>3. ASSUME NEW place \in {"lo", "hi"}, NEW c \in Int, NEW after \in {"hi", "narrow"},
             Evaluate(place, c, after)
      PROVE  TypeOK'
  <2>1. Quality(c) \in Int
    BY <1>3, QualityIsInt DEF Evaluate
  <2>2. Better(c) \in [candidate : Int, quality : Int]
    BY <2>1 DEF Better, TypeOK
  <2> QED BY <1>3, <2>2 DEF Evaluate, TypeOK, page
<1>4. CASE EvaluateLo
  BY <1>3, <1>4 DEF EvaluateLo
<1>5. CASE EvaluateHi
  BY <1>3, <1>5 DEF EvaluateHi
<1>6. CASE ObjectiveFails
  BY <1>6 DEF ObjectiveFails, TypeOK, page, search
<1>7. CASE Narrow
  <2>1. lo' \in Int /\ hi' \in Int
    BY <1>7, NarrowedInterval
  <2>2. rounds' \in Nat
    <3>1. rounds \in Nat
      BY DEF TypeOK
    <3>2. rounds' = rounds + 1
      BY <1>7, Zenon DEF Narrow
    <3> QED BY <3>1, <3>2
  <2> QED BY <1>7, <2>1, <2>2 DEF Narrow, TypeOK, page
<1>8. CASE NarrowEnough
  BY <1>8 DEF NarrowEnough, TypeOK, page, search
<1>9. CASE Found
  <2>1. found' = found + 1 /\ found < Anchors
    BY <1>9 DEF Found
  <2>2. found' \in 0..Anchors
    BY <2>1, Numbers
  <2>3. at' = IF found' = Anchors THEN "matched" ELSE "next"
    BY <1>9 DEF Found, AllFound
  <2>4. initial' \in Int
    BY <1>9 DEF Found, NextAngle
  <2> QED BY <1>9, <2>2, <2>3, <2>4 DEF Found, TypeOK, page, search
<1>10. CASE Refuse
  BY <1>10 DEF Refuse, TypeOK, page, search
<1>11. CASE UNCHANGED vars
  BY <1>11 DEF vars, TypeOK, page, search
<1> QED
  BY <1>1, <1>2, <1>4, <1>5, <1>6, <1>7, <1>8, <1>9, <1>10, <1>11 DEF Next

-----------------------------------------------------------------------------

\* One round's evaluation keeps best the best, and what it ends with is near.
LEMMA EvaluateStep ==
  ASSUME TypeOK, NEW place \in {"lo", "hi"}, NEW c \in Int, NEW after,
         Evaluate(place, c, after), BestSoFar
  PROVE  /\ best'.candidate \in Int
         /\ best'.quality = Quality(best'.candidate)
         /\ best'.quality >= Quality(c) /\ best'.quality >= best.quality
         /\ (at' = "found" /\ best'.quality > MaxQuality) \/ at' = after
<1> USE Typed
<1>1. at # "matched" /\ at \in {"lo", "hi"}
  BY DEF Evaluate
<1>2. Quality(c) \in Int
  BY <1>1, QualityIsInt
<1>3. best.quality = Quality(best.candidate)
  BY <1>1 DEF BestSoFar
<1>4. best' = Better(c) /\ at' = IF Better(c).quality > MaxQuality THEN "found" ELSE after
  BY DEF Evaluate
<1>5. CASE Quality(c) > best.quality
  <2>1. best' = [candidate |-> c, quality |-> Quality(c)]
    BY <1>4, <1>5 DEF Better
  <2>2. best'.candidate = c /\ best'.quality = Quality(c)
    BY <2>1
  <2> QED BY <1>2, <1>4, <1>5, <2>2
<1>6. CASE ~(Quality(c) > best.quality)
  <2>1. best' = best
    BY <1>4, <1>6 DEF Better
  <2> QED BY <1>2, <1>3, <1>4, <1>6, <2>1
<1> QED BY <1>5, <1>6

\* Of the two ends of a bracketed interval one is within half of it, and e.
LEMMA OneEndIsNear ==
  ASSUME NEW p \in Int, NEW l \in Int, NEW h \in Int, NEW e \in Nat, h >= l,
         Abs(2 * p - (l + h)) <= 2 * (h - l) + e
  PROVE  2 * Abs(l - p) <= h - l + e \/ 2 * Abs(h - p) <= h - l + e
BY DEF Abs

\* The first interval brackets what is in reach.
LEMMA FirstBrackets ==
  ASSUME NEW p \in Int, NEW m \in Int, NEW l \in Int, NEW h \in Int, NEW s \in Nat, NEW b \in Nat,
         Abs(l + h - 2 * m) <= s, Abs(h - l - 2 * b) <= s, Abs(p - m) <= 2 * b
  PROVE  Abs(2 * p - (l + h)) <= 2 * (h - l) + 3 * s
BY DEF Abs

\* Half an interval, around what is within half of it, brackets the same.
LEMMA HalfBrackets ==
  ASSUME NEW p \in Int, NEW m \in Int, NEW l \in Int, NEW h \in Int, NEW s \in Nat, NEW e \in Nat,
         NEW w \in Int, Abs(l + h - 2 * m) <= s, Abs(2 * (h - l) - w) <= 2 * s,
         2 * Abs(m - p) <= w + e
  PROVE  Abs(2 * p - (l + h)) <= 2 * (h - l) + (e + 3 * s)
BY DEF Abs

LEMMA StepIInv == IInv /\ [Next]_vars => IInv'
<1> SUFFICES ASSUME IInv, [Next]_vars PROVE IInv'
  OBVIOUS
<1> USE Typed
<1>t. TypeOK /\ TypeOK'
  BY TypeStep DEF IInv
<1>i. Interval /\ Bracketed /\ BestSoFar /\ Closing
  BY DEF IInv
<1>a. skew \in Int /\ initial \in Int /\ lo \in Int /\ hi \in Int
      /\ best.candidate \in Int /\ best.quality \in Int
      /\ spacing \in Nat /\ spacing >= 1 /\ rounds \in Nat /\ Slack \in Nat
  BY <1>t, SlackIsNat
<1> SUFFICES Interval' /\ Bracketed' /\ BestSoFar' /\ Closing'
  BY <1>t DEF IInv
<1>s. ASSUME UNCHANGED <<page, found>>
      PROVE  /\ \A c : Quality(c)' = Quality(c)
             /\ skew' = skew /\ spacing' = spacing
             /\ InReach' <=> InReach
  <2>1. skew' = skew /\ spacing' = spacing
    BY <1>s DEF page
  <2>2. \A c : Quality(c)' = Quality(c)
    BY <1>s DEF Quality, anchor, page
  <2> QED BY <2>1, <2>2 DEF InReach
<1>r. ASSUME UNCHANGED <<page, found>>, rounds' = rounds
      PROVE  Slack' = Slack /\ (Reachable' <=> Reachable)
  <2>1. Slack' = Slack
    BY <1>r, <1>s DEF Slack
  <2> QED BY <1>r, <1>s, <2>1 DEF Reachable
<1>1. CASE FindAnchor
  <2>1. /\ at' = "first" /\ UNCHANGED <<page, found>> /\ initial' = initial /\ rounds' = 0
        /\ skew' = skew /\ spacing' = spacing
    BY <1>1 DEF FindAnchor, page
  <2>2. Slack' = 3 * spacing
    BY <1>a, <2>1 DEF Slack
  <2>3. /\ lo' \in Int /\ hi' \in Int /\ lo' <= hi'
        /\ Abs(lo' + hi' - 2 * initial) <= spacing
        /\ Abs(hi' - lo' - 2 * HalfBreadth) <= spacing
    BY <1>1, <1>t, FirstInterval
  <2>4. hi' - lo' <= 2 * HalfBreadth + Slack'
    <3>1. ASSUME NEW w \in Int, NEW b \in Nat, NEW s \in Nat, Abs(w - 2 * b) <= s
          PROVE  w <= 2 * b + 3 * s
      BY <3>1 DEF Abs
    <3>2. hi' - lo' \in Int /\ HalfBreadth \in Nat
      BY <2>3, Numbers
    <3> QED BY <1>a, <2>2, <2>3, <3>1, <3>2
  <2>5. Interval'
    BY <2>1, <2>3, <2>4 DEF Interval
  <2>6. Bracketed'
    BY <1>i, <1>s, <2>1 DEF Bracketed
  <2>7. BestSoFar' /\ Closing'
    BY <2>1 DEF BestSoFar, Closing
  <2> QED BY <2>5, <2>6, <2>7
<1>2. CASE EvaluateFirst
  <2> DEFINE candidate == (hi - lo) \div 2
  <2>1. /\ at = "first" /\ skew' = skew /\ initial' = initial /\ lo' = lo /\ hi' = hi
        /\ best' = [candidate |-> candidate, quality |-> Quality(candidate)]
        /\ at' = IF Quality(candidate) > MaxQuality THEN "found" ELSE "lo"
        /\ UNCHANGED <<page, found>> /\ rounds' = rounds
    BY <1>2 DEF EvaluateFirst, page
  <2>2. best'.candidate = candidate /\ best'.quality = Quality(candidate)
    <3> HIDE DEF candidate
    <3> QED BY <2>1
  <2>3. at' \in {"found", "lo"} /\ (at' = "found" => Quality(candidate) > MaxQuality)
    BY <2>1
  <2>4. /\ rounds = 0 /\ lo <= hi /\ hi - lo <= 2 * HalfBreadth + Slack
        /\ Abs(lo + hi - 2 * initial) <= spacing
        /\ Abs(hi - lo - 2 * HalfBreadth) <= spacing
    BY <1>i, <2>1 DEF Interval, Searching
  <2>5. Interval'
    BY <1>r, <2>1, <2>3, <2>4 DEF Interval
  <2>6. Bracketed'
    <3>1. InReach /\ 2 * HalfBreadth < Far => Abs(skew - initial) <= 2 * HalfBreadth
      BY <1>i DEF Bracketed
    <3>2. Slack = 3 * spacing
      BY <1>t, <2>4, SlackIsNat
    <3>3. ASSUME Abs(skew - initial) <= 2 * HalfBreadth
          PROVE  Abs(2 * skew - (lo + hi)) <= 2 * (hi - lo) + Slack
      BY <1>a, <2>4, <3>2, <3>3, FirstBrackets, Numbers
    <3>4. Reachable => InReach /\ 2 * HalfBreadth < Far
      BY <1>a, Numbers DEF Reachable
    <3> QED BY <1>r, <1>s, <2>1, <3>1, <3>3, <3>4 DEF Bracketed
  <2>7. BestSoFar'
    BY <1>s, <2>1, <2>2, <2>3 DEF BestSoFar
  <2>8. Closing'
    BY <2>1, <2>2, <2>3 DEF Closing
  <2> QED BY <2>5, <2>6, <2>7, <2>8
<1>3. CASE EvaluateLo
  <2>1. at = "lo" /\ UNCHANGED <<page, found>> /\ initial' = initial /\ lo' = lo /\ hi' = hi
        /\ rounds' = rounds
    BY <1>3 DEF EvaluateLo, Evaluate
  <2>2. /\ best'.candidate \in Int /\ best'.quality = Quality(best'.candidate)
        /\ best'.quality >= Quality(lo)
        /\ (at' = "found" /\ best'.quality > MaxQuality) \/ at' = "hi"
    BY <1>3, <1>t, <1>i, <1>a, EvaluateStep DEF EvaluateLo
  <2>3. Interval'
    BY <1>i, <1>r, <2>1, <2>2 DEF Interval, Searching
  <2>4. Bracketed'
    BY <1>i, <1>s, <1>r, <2>1, <2>2 DEF Bracketed
  <2>5. BestSoFar'
    BY <1>s, <2>1, <2>2 DEF BestSoFar
  <2>6. Closing'
    BY <2>1, <2>2 DEF Closing
  <2> QED BY <2>3, <2>4, <2>5, <2>6
<1>4. CASE EvaluateHi
  <2>1. at = "hi" /\ UNCHANGED <<page, found>> /\ initial' = initial /\ lo' = lo /\ hi' = hi
        /\ rounds' = rounds
    BY <1>4 DEF EvaluateHi, Evaluate
  <2>2. /\ best'.candidate \in Int /\ best'.quality = Quality(best'.candidate)
        /\ best'.quality >= Quality(hi) /\ best'.quality >= best.quality
        /\ (at' = "found" /\ best'.quality > MaxQuality) \/ at' = "narrow"
    BY <1>4, <1>t, <1>i, <1>a, EvaluateStep DEF EvaluateHi
  <2>3. best.quality >= Quality(lo) /\ Quality(lo) \in Int /\ Quality(hi) \in Int
    BY <1>i, <1>t, <1>a, <2>1, QualityIsInt DEF BestSoFar
  <2>4. best'.quality \in Int
    BY <1>t, <2>1, <2>2, QualityIsInt
  <2>5. Quality(best'.candidate) >= Quality(lo) /\ Quality(best'.candidate) >= Quality(hi)
    BY <1>a, <2>2, <2>3, <2>4
  <2>6. lo <= hi /\ hi - lo <= 2 * HalfBreadth + Slack
    BY <1>i, <2>1 DEF Interval, Searching
  <2>7. ASSUME Reachable PROVE 2 * Abs(best'.candidate - skew) <= hi - lo + Slack
    <3>1. Abs(2 * skew - (lo + hi)) <= 2 * (hi - lo) + Slack
      BY <1>i, <2>1, <2>7 DEF Bracketed
    <3>2. 2 * Abs(lo - skew) <= hi - lo + Slack \/ 2 * Abs(hi - skew) <= hi - lo + Slack
      BY <1>a, <2>6, <3>1, OneEndIsNear
    <3>3. at # "matched" /\ 2 * HalfBreadth + Slack < Far
      BY <2>1, <2>7 DEF Reachable
    <3>4. ASSUME NEW c \in {lo, hi}, 2 * Abs(c - skew) <= hi - lo + Slack
          PROVE  2 * Abs(best'.candidate - skew) <= hi - lo + Slack
      <4>1. c \in Int /\ Quality(best'.candidate) >= Quality(c)
        BY <1>a, <2>5
      <4>2. Abs(c - skew) < Far
        BY <1>a, <2>6, <3>3, <3>4, <4>1, Numbers DEF Abs
      <4>3. Abs(best'.candidate - skew) <= Abs(c - skew)
        BY <1>t, <2>2, <3>3, <4>1, <4>2, BetterIsNearer
      <4> QED BY <1>a, <2>2, <3>4, <4>1, <4>3 DEF Abs
    <3> QED BY <3>2, <3>4
  <2>8. Interval'
    BY <1>i, <1>r, <2>1, <2>2 DEF Interval, Searching
  <2>9. Bracketed'
    BY <1>i, <1>s, <1>r, <2>1, <2>2 DEF Bracketed
  <2>10. BestSoFar'
    BY <1>a, <1>s, <2>1, <2>2, <2>3, <2>4 DEF BestSoFar
  <2>11. Closing'
    BY <1>s, <1>r, <2>1, <2>2, <2>7 DEF Closing
  <2> QED BY <2>8, <2>9, <2>10, <2>11
<1>5. CASE ObjectiveFails
  <2>1. at' = "failed" /\ UNCHANGED <<page, initial, search, found>>
    BY <1>5 DEF ObjectiveFails
  <2>2. Bracketed'
    BY <1>i, <1>s, <2>1 DEF Bracketed
  <2> QED BY <2>1, <2>2 DEF Interval, Searching, BestSoFar, Closing
<1>6. CASE Narrow
  <2>1. /\ at = "narrow" /\ hi - lo >= Epsilon /\ at' \in {"lo", "max iterations"}
        /\ UNCHANGED <<page, initial, best, found>> /\ rounds' = rounds + 1
    BY <1>6 DEF Narrow
  <2>2. /\ lo' \in Int /\ hi' \in Int /\ lo' <= hi'
        /\ Abs(lo' + hi' - 2 * best.candidate) <= spacing
        /\ Abs(2 * (hi' - lo') - (hi - lo)) <= 2 * spacing
    BY <1>6, <1>t, NarrowedInterval
  <2>3. Slack' = Slack + 3 * spacing /\ skew' = skew /\ best' = best /\ initial' = initial
    BY <1>t, <1>s, <2>1, SlackGrows
  <2>4. hi - lo <= 2 * HalfBreadth + Slack
    BY <1>i, <2>1 DEF Interval, Searching
  <2>5. hi' - lo' <= 2 * HalfBreadth + Slack'
    <3>1. ASSUME NEW v \in Int, NEW w \in Int, NEW b \in Nat, NEW s \in Nat, NEW e \in Nat,
                 Abs(2 * v - w) <= 2 * s, w <= 2 * b + e
          PROVE  v <= 2 * b + (e + 3 * s)
      BY <3>1 DEF Abs
    <3>2. hi' - lo' \in Int /\ hi - lo \in Int /\ HalfBreadth \in Nat
      BY <1>a, <2>2, Numbers
    <3> QED BY <1>a, <2>2, <2>3, <2>4, <3>1, <3>2
  <2>6. Interval'
    BY <2>1, <2>2, <2>5 DEF Interval
  <2>7. Bracketed'
    <3>1. Reachable => 2 * Abs(best.candidate - skew) <= hi - lo + Slack
      BY <1>i, <2>1 DEF Closing
    <3>2. Reachable' => Reachable
      <4>1. (InReach' <=> InReach) /\ HalfBreadth \in Nat /\ Far \in Nat
        BY <1>s, <2>1, Numbers
      <4> QED BY <1>a, <2>3, <4>1 DEF Reachable
    <3>3. ASSUME 2 * Abs(best.candidate - skew) <= hi - lo + Slack
          PROVE  Abs(2 * skew - (lo' + hi')) <= 2 * (hi' - lo') + Slack'
      <4>1. hi - lo \in Int
        BY <1>a
      <4> QED BY <1>a, <2>2, <2>3, <3>3, <4>1, HalfBrackets
    <3> QED BY <1>i, <1>s, <2>1, <2>3, <3>1, <3>2, <3>3 DEF Bracketed
  <2>8. BestSoFar'
    BY <1>i, <1>s, <2>1 DEF BestSoFar
  <2>9. Closing'
    BY <2>1 DEF Closing
  <2> QED BY <2>6, <2>7, <2>8, <2>9
<1>7. CASE NarrowEnough
  <2>1. at = "narrow" /\ hi - lo < Epsilon /\ at' = "found"
        /\ UNCHANGED <<page, initial, search, found>> /\ best' = best /\ rounds' = rounds
    BY <1>7 DEF NarrowEnough, search
  <2>2. Interval'
    BY <2>1 DEF Interval, Searching
  <2>3. Bracketed'
    BY <1>i, <1>s, <2>1 DEF Bracketed
  <2>4. BestSoFar'
    BY <1>i, <1>s, <2>1 DEF BestSoFar
  <2>5. Closing'
    <3>1. Reachable => 2 * Abs(best.candidate - skew) <= hi - lo + Slack
      BY <1>i, <2>1 DEF Closing
    <3>2. Reachable => 2 * Abs(best.candidate - skew) < Epsilon + Slack
      BY <1>a, <2>1, <3>1, Numbers DEF Abs
    <3> QED BY <1>s, <1>r, <2>1, <3>2 DEF Closing
  <2> QED BY <2>2, <2>3, <2>4, <2>5
<1>8. CASE Found
  <2>1. /\ at = "found" /\ at' \in {"matched", "next"}
        /\ initial' = IF best.quality >= MaxQuality THEN best.candidate ELSE initial
        /\ skew' = skew
    BY <1>8 DEF Found, NextAngle, page
  <2>2. Interval' /\ BestSoFar' /\ Closing'
    BY <2>1 DEF Interval, Searching, BestSoFar, Closing
  <2>3. Bracketed'
    <3>1. ASSUME best.quality >= MaxQuality, 2 * HalfBreadth < Far
          PROVE  Abs(skew - best.candidate) <= 2 * HalfBreadth
      <4> DEFINE f == falloff[anchor]
                 d == Least(Abs(best.candidate - skew), Far)
      <4>1. d \in 0..Far
        BY <1>a, Clipped
      <4>2. f \in Falloffs
        BY <1>t, <2>1, AnchorFalloff
      <4>3. f[d] >= MaxQuality
        BY <1>i, <2>1, <3>1 DEF BestSoFar, Quality
      <4>4. d <= 2 * HalfBreadth
        <5> HIDE DEF f, d
        <5> QED BY <4>1, <4>2, <4>3, MaxQualityAssumption
      <4> QED BY <1>a, <3>1, <4>4, Numbers DEF Least, Abs
    <3>2. InReach' <=> InReach
      BY <2>1 DEF InReach
    <3>3. InReach /\ 2 * HalfBreadth < Far => Abs(skew - initial) <= 2 * HalfBreadth
      BY <1>i DEF Bracketed
    <3> QED BY <2>1, <3>1, <3>2, <3>3 DEF Bracketed
  <2> QED BY <2>2, <2>3
<1>9. CASE Refuse
  <2>1. at = "found" /\ best.quality < MinConfidence /\ at' = "refused"
        /\ UNCHANGED <<page, initial, search, found>> /\ best' = best /\ rounds' = rounds
    BY <1>9 DEF Refuse, search
  <2>2. Bracketed'
    BY <1>i, <1>s, <2>1 DEF Bracketed
  <2>3. BestSoFar'
    BY <1>i, <1>s, <2>1 DEF BestSoFar
  <2>4. Closing'
    BY <1>i, <1>s, <1>r, <2>1 DEF Closing
  <2> QED BY <2>1, <2>2, <2>3, <2>4 DEF Interval, Searching
<1>10. CASE UNCHANGED vars
  <2>1. UNCHANGED <<page, initial, search, found>> /\ at' = at /\ rounds' = rounds
        /\ lo' = lo /\ hi' = hi /\ best' = best /\ initial' = initial
    BY <1>10 DEF vars, search
  <2> QED BY <1>i, <1>s, <1>r, <2>1 DEF Interval, Bracketed, BestSoFar, Closing
<1> QED
  BY <1>1, <1>2, <1>3, <1>4, <1>5, <1>6, <1>7, <1>8, <1>9, <1>10 DEF Next

THEOREM Invariant == Spec => []IInv
<1> QED BY InitIInv, StepIInv, PTL DEF Spec

\* The variables of the search keep their types, and it is through exactly when
\* every anchor was found.
THEOREM SearchTypeCorrect == Spec => []TypeOK
<1>1. IInv => TypeOK
  BY DEF IInv
<1> QED BY <1>1, Invariant, PTL

\* Every orientation findAnchor returns is within half an Epsilon of the page's
\* skew, up to what was rounded, or matched well enough to stop the search.
THEOREM OrientationsAreClose == Spec => []FoundIsClose
<1>1. IInv => FoundIsClose
  BY DEF IInv, Closing, FoundIsClose
<1> QED BY <1>1, Invariant, PTL

\* ErrCannotMatchAnchor is never returned for a page whose skew is in reach and
\* whose anchors match well enough near it.
THEOREM NoPageIsRefusedWrongly == Spec => []NoFalseRefusal
<1>1. IInv => NoFalseRefusal
  <2> SUFFICES ASSUME IInv, at = "refused", Reachable, MaxQuality >= MinConfidence
               PROVE  falloff[anchor][Tolerance] < MinConfidence
    BY DEF NoFalseRefusal
  <2> DEFINE f == falloff[anchor]
             d == Least(Abs(best.candidate - skew), Far)
  <2>1. TypeOK /\ skew \in Int /\ best.candidate \in Int /\ best.quality \in Int
        /\ Slack \in Nat
    BY Typed, SlackIsNat DEF IInv
  <2>2. best.quality = f[d] /\ best.quality < MinConfidence
    BY DEF IInv, BestSoFar, Closing, Quality
  <2>3. 2 * Abs(best.candidate - skew) < Epsilon + Slack
    BY <2>1, <2>2, Numbers DEF IInv, Closing
  <2>4. d \in 0..Far /\ d <= Tolerance /\ Tolerance \in 0..Far
    BY <2>1, <2>3, Numbers DEF Tolerance, Least, Abs
  <2>5. f \in [0..Far -> Int] /\ \A x, y \in 0..Far : x < y => f[y] < f[x]
    BY <2>1, AnchorFalloff, FalloffsAssumption
  <2>6. f[Tolerance] <= f[d] /\ f[d] \in Int /\ f[Tolerance] \in Int
    <3> HIDE DEF f, d
    <3>1. /\ f[Tolerance] \in Int /\ f[d] \in Int
          /\ d < Tolerance => f[Tolerance] < f[d]
      BY <2>4, <2>5
    <3>2. d = Tolerance \/ d < Tolerance
      BY <2>4
    <3> QED BY <3>1, <3>2
  <2> HIDE DEF f, d
  <2>7. f[Tolerance] < MinConfidence
    BY <2>2, <2>6, Numbers
  <2> QED BY <2>7 DEF f
<1> QED BY <1>1, Invariant, PTL

-----------------------------------------------------------------------------

\* What the breadth is more than two spacings is halved each round.
InTime ==
  /\ at \in Searching =>
       /\ rounds \in 0..(MaxIterations - 1)
       /\ (hi - lo - 2 * spacing) * Powers[rounds] <= 2 * HalfBreadth
  /\ EndsInTime

LEMMA HalvedEachRound ==
  ASSUME NEW a \in Int, NEW b \in Int, NEW c \in Int, NEW p \in Nat, 2 * a <= b, b * p <= c
  PROVE  a * (2 * p) <= c
<1>1. a * (2 * p) = (2 * a) * p
  OBVIOUS
<1>2. (2 * a) * p <= b * p
  <2>1. (b - 2 * a) * p >= 0
    OBVIOUS
  <2> QED BY <2>1
<1>3. (2 * a) * p \in Int /\ b * p \in Int
  OBVIOUS
<1> QED BY <1>1, <1>2, <1>3

LEMMA InTimeStep == IInv /\ InTime /\ [Next]_vars => InTime'
<1> SUFFICES ASSUME IInv, InTime, [Next]_vars PROVE InTime'
  OBVIOUS
<1>t. TypeOK /\ lo \in Int /\ hi \in Int /\ best.candidate \in Int /\ spacing \in Nat
      /\ spacing >= 1 /\ HalfBreadth \in Nat /\ MaxIterations \in Nat \ {0}
  BY Typed, Numbers, IterationsAssumption DEF IInv
<1>1. CASE FindAnchor
  <2>1. at' = "first" /\ rounds' = 0 /\ spacing' = spacing
    BY <1>1 DEF FindAnchor, page
  <2>2. /\ lo' \in Int /\ hi' \in Int
        /\ Abs(lo' + hi' - 2 * initial) <= spacing
        /\ Abs(hi' - lo' - 2 * HalfBreadth) <= spacing
    BY <1>1, <1>t, FirstInterval
  <2>3. hi' - lo' - 2 * spacing <= 2 * HalfBreadth
    <3>1. ASSUME NEW w \in Int, NEW b \in Nat, NEW s \in Nat, Abs(w - 2 * b) <= s
          PROVE  w - 2 * s <= 2 * b
      BY <3>1 DEF Abs
    <3>2. hi' - lo' \in Int
      BY <2>2
    <3> QED BY <1>t, <2>2, <3>1, <3>2
  <2>4. (hi' - lo' - 2 * spacing) * Powers[0] <= 2 * HalfBreadth
    <3>1. hi' - lo' - 2 * spacing \in Int /\ Powers[0] = 1
      BY <1>t, <2>2, IterationsAssumption
    <3> QED BY <2>3, <3>1
  <2>5. rounds' \in 0..(MaxIterations - 1)
    BY <1>t, <2>1
  <2> QED
    BY <2>1, <2>4, <2>5 DEF InTime, EndsInTime
<1>2. CASE Narrow
  <2>1. /\ at = "narrow" /\ hi - lo >= Epsilon /\ rounds' = rounds + 1 /\ spacing' = spacing
        /\ at' = IF rounds' < MaxIterations THEN "lo" ELSE "max iterations"
    BY <1>2 DEF Narrow, page
  <2>2. /\ lo' \in Int /\ hi' \in Int
        /\ Abs(lo' + hi' - 2 * best.candidate) <= spacing
        /\ Abs(2 * (hi' - lo') - (hi - lo)) <= 2 * spacing
    BY <1>2, <1>t, NarrowedInterval
  <2>3. /\ rounds \in 0..(MaxIterations - 1)
        /\ (hi - lo - 2 * spacing) * Powers[rounds] <= 2 * HalfBreadth
    BY <2>1 DEF InTime, Searching
  <2>4. 2 * (hi' - lo' - 2 * spacing) <= hi - lo - 2 * spacing
    <3>1. ASSUME NEW v \in Int, NEW w \in Int, NEW s \in Nat, Abs(2 * v - w) <= 2 * s
          PROVE  2 * (v - 2 * s) <= w - 2 * s
      BY <3>1 DEF Abs
    <3>2. hi' - lo' \in Int /\ hi - lo \in Int
      BY <1>t, <2>2
    <3> QED BY <1>t, <2>2, <3>1, <3>2
  <2>5. Powers[rounds] \in Nat /\ Powers[rounds + 1] = 2 * Powers[rounds]
    BY <1>t, <2>3, IterationsAssumption
  <2>6. (hi' - lo' - 2 * spacing) * Powers[rounds + 1] <= 2 * HalfBreadth
    <3> DEFINE a == hi' - lo' - 2 * spacing
               b == hi - lo - 2 * spacing
               p == Powers[rounds]
    <3>1. a \in Int /\ b \in Int /\ p \in Nat /\ 2 * HalfBreadth \in Int
      BY <1>t, <2>2, <2>5
    <3>2. 2 * a <= b /\ b * p <= 2 * HalfBreadth /\ Powers[rounds + 1] = 2 * p
      BY <2>3, <2>4, <2>5
    <3>3. a * Powers[rounds + 1] = a * (2 * p)
      BY <3>2
    <3> HIDE DEF a, b, p
    <3>4. a * (2 * p) <= 2 * HalfBreadth
      BY <3>1, <3>2, HalvedEachRound
    <3>5. a * Powers[rounds + 1] <= 2 * HalfBreadth
      BY <3>3, <3>4
    <3> QED BY <3>5 DEF a
  <2>7. ASSUME at' = "max iterations" PROVE Epsilon <= 2 * spacing
    <3> SUFFICES ASSUME Epsilon > 2 * spacing PROVE FALSE
      BY <1>t, Numbers
    <3>1. rounds = MaxIterations - 1
      <4>1. ~(rounds' < MaxIterations)
        BY <2>1, <2>7
      <4>2. ~(rounds + 1 < MaxIterations)
        BY <2>1, <4>1, Zenon
      <4> QED BY <1>t, <2>3, <4>2
    <3>2. 2 * HalfBreadth < Powers[rounds]
      BY <3>1, IterationsAssumption
    <3>3. hi - lo - 2 * spacing >= 1
      <4>1. hi - lo >= Epsilon /\ Epsilon \in Nat
        BY <2>1, Numbers
      <4> QED BY <1>t, <4>1
    <3>4. ASSUME NEW b \in Int, NEW p \in Nat, b >= 1 PROVE b * p >= p
      <4>1. (b - 1) * p >= 0
        BY <3>4
      <4> QED BY <3>4, <4>1
    <3>5. (hi - lo - 2 * spacing) * Powers[rounds] >= Powers[rounds]
      BY <1>t, <2>5, <3>3, <3>4
    <3> QED BY <1>t, <2>3, <2>5, <3>2, <3>5
  <2>8. at' = "lo" => rounds' \in 0..(MaxIterations - 1)
    BY <1>t, <2>1, <2>3
  <2> QED
    BY <2>1, <2>6, <2>7, <2>8 DEF InTime, EndsInTime, Searching
<1>3. CASE EvaluateFirst \/ EvaluateLo \/ EvaluateHi
  <2>1. at \in Searching /\ at' # "max iterations" /\ UNCHANGED <<lo, hi, rounds, spacing>>
    BY <1>3 DEF EvaluateFirst, EvaluateLo, EvaluateHi, Evaluate, Searching, page
  <2> QED
    BY <2>1 DEF InTime, EndsInTime
<1>4. CASE ObjectiveFails \/ NarrowEnough \/ Found \/ Refuse
  <2>1. at' \notin Searching /\ at' # "max iterations"
    BY <1>4 DEF ObjectiveFails, NarrowEnough, Found, Refuse, Searching
  <2> QED
    BY <2>1 DEF InTime, EndsInTime
<1>5. CASE UNCHANGED vars
  BY <1>5 DEF vars, page, search, InTime, EndsInTime
<1> QED
  BY <1>1, <1>2, <1>3, <1>4, <1>5 DEF Next

LEMMA InTimeInit == Init => InTime
BY DEF Init, InTime, EndsInTime, Searching

\* bisectionSearch returns ErrMaxIterations only around an angle so large that
\* half an Epsilon is lost in its rounding.
THEOREM SearchesEndInTime == Spec => []EndsInTime
<1>1. InTime => EndsInTime
  BY DEF InTime
<1> QED
  BY <1>1, InitIInv, StepIInv, InTimeInit, InTimeStep, PTL DEF Spec
=============================================================================
