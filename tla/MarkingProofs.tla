--------------------------- MODULE MarkingProofs ---------------------------
(***************************************************************************)
(* That Marking reports what the stored scan shows, and that it closes     *)
(* what it has loaded, for any template, any size of page and bubble and   *)
(* any number of scans.                                                    *)
(***************************************************************************)
EXTENDS Marking, FiniteSetTheorems, FunctionTheorems, TLAPS

Bubbles == DOMAIN template

\* What can be counted.
Values == {0} \cup {Cardinality(S) : S \in SUBSET Pixels}

Outcome == [status : {"unloaded", "failed", "marked"}, marks : SUBSET (Questions \X Ids \X Values)]

Typed ==
  /\ template \in Seq(Bubble) /\ Valid(template) /\ Len(template) >= 1
  /\ k \in 1..(Len(template) + 1) /\ white \in [Bubbles -> Values] /\ outcome \in Seq(Outcome)
  /\ at \in {"load", "binarize", "fill", "adapt", "over"}
  /\ at = "fill" => k <= Len(template)

\* What the squares of the bubbles before the n-th have lost.
Blackened(n) == UNION {Corners(template[b]) : b \in 1..(n - 1)}

PagesAsMarked == at = "fill" => black = ink \cup Blackened(k)

CountsAreTrue(n) == \A a \in 1..(n - 1) : ~Disturbed(a) => white[a] = TrueWhite(a)

Counts ==
  /\ at = "fill" => CountsAreTrue(k)
  /\ at = "adapt" => CountsAreTrue(Len(template) + 1)

IInv == Typed /\ PagesAsMarked /\ Counts /\ AnswersAreThePages

-----------------------------------------------------------------------------

LEMMA InitIInv == Init => IInv
<1> SUFFICES ASSUME Init PROVE IInv
  OBVIOUS
<1>1. PICK n \in 1..MaxBubbles : template \in [1..n -> Bubble]
  BY DEF Init
<1>2. n \in Nat /\ n >= 1
  BY SizesAssumption
<1>3. template \in Seq(Bubble) /\ Len(template) = n
  BY <1>1, <1>2
<1>4. white \in [Bubbles -> Values]
  BY DEF Init, Bubbles, Values
<1>5. Typed
  BY <1>2, <1>3, <1>4 DEF Init, Typed
<1>6. PagesAsMarked /\ Counts /\ AnswersAreThePages
  BY DEF Init, PagesAsMarked, Counts, AnswersAreThePages
<1> QED BY <1>5, <1>6 DEF IInv

\* The bubbles of a template are numbered from one.
LEMMA Numbered ==
  ASSUME Typed
  PROVE  /\ Bubbles = 1..Len(template) /\ Len(template) \in Nat /\ k \in Nat /\ k >= 1
         /\ \A a \in Bubbles : template[a] \in Bubble
BY DEF Typed, Bubbles

\* No two bubbles of a question that is on one page have the same id.
LEMMA OwnId ==
  ASSUME Typed, NEW a \in Bubbles, NEW b \in Bubbles, OnOnePage(template[a].question),
         template[a].question = template[b].question, template[a].id = template[b].id
  PROVE  a = b
<1>1. template[a].page = template[b].page
  BY DEF OnOnePage, Bubbles
<1>2. SameQuestion(template[a], template[b]) /\ SameQuestion(template[b], template[a])
  BY <1>1 DEF SameQuestion
<1>3. ~(a < b) /\ ~(b < a)
  BY <1>2 DEF Typed, Valid, Bubbles
<1> QED BY <1>3, Numbered

\* A question that is on one page is not overwritten.
LEMMA NotOverwritten ==
  ASSUME Typed, NEW a \in Bubbles, OnOnePage(template[a].question)
  PROVE  ~Overwritten(a)
<1> SUFFICES ASSUME NEW b \in Bubbles, template[b].question = template[a].question,
                    template[b].page > template[a].page
             PROVE  FALSE
  BY DEF Overwritten, Bubbles
<1>1. template[a].page = template[b].page
  BY DEF OnOnePage, Bubbles
<1>2. template[a].page \in Nat
  BY Numbered, SizesAssumption DEF Bubble
<1> QED BY <1>1, <1>2

\* A bubble lies on the page.
LEMMA CircleOnPage ==
  ASSUME NEW b \in Bubble
  PROVE  Circle(b) \subseteq Pixels
<1> SUFFICES ASSUME NEW d \in Disc PROVE <<b.page, b.x + d[1], b.y + d[2]>> \in Pixels
  BY DEF Circle
<1>1. d[1] \in 0..(Diameter - 1) /\ d[2] \in 0..(Diameter - 1)
  BY DiscAssumption
<1>2. b.page \in 1..Pages /\ b.x \in 0..(Width - Diameter) /\ b.y \in 0..(Height - Diameter)
  BY DEF Bubble
<1>3. Width \in Nat /\ Height \in Nat /\ Diameter \in Nat
  BY SizesAssumption
<1>4. b.x + d[1] \in 0..(Width - 1) /\ b.y + d[2] \in 0..(Height - 1)
  BY <1>1, <1>2, <1>3
<1> QED BY <1>2, <1>4 DEF Pixels

\* Counting on what is black now is counting on the stored scan, where no
\* corner reaches.
LEMMA TrueCount ==
  ASSUME NEW a, black = ink \cup Blackened(a), ~Disturbed(a)
  PROVE  Cardinality(Circle(template[a]) \ black) = TrueWhite(a)
<1>1. Circle(template[a]) \cap Blackened(a) = {}
  BY DEF Disturbed, Blackened, Before
<1>2. Circle(template[a]) \ black = Circle(template[a]) \ ink
  BY <1>1
<1> QED BY <1>2 DEF TrueWhite

\* The marks of a scan whose counts are true are what the invariant says.
LEMMA MarksAreTrue ==
  ASSUME Typed, CountsAreTrue(Len(template) + 1), NEW a \in Bubbles, ~Disturbed(a),
         OnOnePage(template[a].question), NEW w
  PROVE  <<template[a].question, template[a].id, w>> \in Marks <=> w = TrueWhite(a) /\ w < MaxWhite
<1>1. a \in 1..(Len(template) + 1 - 1)
  BY Numbered
<1>2. white[a] = TrueWhite(a)
  BY <1>1 DEF CountsAreTrue
<1>3. ASSUME w = TrueWhite(a), w < MaxWhite
      PROVE  <<template[a].question, template[a].id, w>> \in Marks
  BY <1>2, <1>3, NotOverwritten DEF Marks, Selected, Bubbles
<1>4. ASSUME <<template[a].question, template[a].id, w>> \in Marks
      PROVE  w = TrueWhite(a) /\ w < MaxWhite
  <2>1. PICK b \in Bubbles : /\ Selected(b)
                             /\ <<template[a].question, template[a].id, w>>
                                  = <<template[b].question, template[b].id, white[b]>>
    BY <1>4 DEF Marks, Bubbles
  <2>2. a = b
    BY <2>1, OwnId
  <2> QED BY <1>2, <2>1, <2>2 DEF Selected
<1> QED BY <1>3, <1>4

\* A scan that is not marked adds no marks.
LEMMA FailedAddsNothing ==
  ASSUME IInv, NEW s \in {"unloaded", "failed"}, Failed(s), UNCHANGED <<template, ink>>
  PROVE  /\ AnswersAreThePages' /\ at' \in {"load", "over"}
         /\ outcome' \in Seq(Outcome)
<1> DEFINE r == [status |-> s, marks |-> {}]
<1>1. outcome' = Append(outcome, r) /\ at' \in {"load", "over"}
  BY DEF Failed, NextScan
<1>2. r \in Outcome /\ r.status # "marked"
  BY DEF Outcome
<1>3. outcome \in Seq(Outcome)
  BY DEF IInv, Typed
<1> HIDE DEF r
<1>4. \A n \in DOMAIN outcome' : (n \in DOMAIN outcome /\ outcome'[n] = outcome[n]) \/ outcome'[n] = r
  BY <1>1, <1>2, <1>3
<1>5. AnswersAreThePages'
  BY <1>2, <1>4 DEF IInv, AnswersAreThePages, Disturbed, Before, OnOnePage, TrueWhite
<1> QED BY <1>1, <1>2, <1>3, <1>5

\* What the property speaks of does not change under way.
LEMMA Fixed ==
  ASSUME UNCHANGED <<template, ink>>
  PROVE  /\ \A a : Disturbed(a)' = Disturbed(a) /\ TrueWhite(a)' = TrueWhite(a)
         /\ \A q : OnOnePage(q)' = OnOnePage(q)
BY DEF Disturbed, Before, TrueWhite, OnOnePage

LEMMA StepIInv == IInv /\ [Next]_vars => IInv'
<1> SUFFICES ASSUME IInv, [Next]_vars PROVE IInv'
  OBVIOUS
<1>t. /\ Typed /\ PagesAsMarked /\ Counts /\ AnswersAreThePages
      /\ Bubbles = 1..Len(template) /\ Len(template) \in Nat /\ k \in Nat /\ k >= 1
  BY Numbered DEF IInv
<1>1. CASE LoadScan
  <2>1. /\ UNCHANGED <<template, ink, k, black, white>>
        /\ \/ at' = "binarize" /\ UNCHANGED outcome
           \/ Failed("unloaded")
    BY <1>1 DEF LoadScan
  <2>2. CASE at' = "binarize" /\ UNCHANGED outcome
    <3>1. Typed'
      BY <1>t, <2>1, <2>2 DEF Typed, Bubbles
    <3>2. PagesAsMarked' /\ Counts'
      BY <2>2 DEF PagesAsMarked, Counts
    <3>3. AnswersAreThePages'
      BY <1>t, <2>1, <2>2 DEF AnswersAreThePages, Disturbed, Before, OnOnePage, TrueWhite
    <3> QED BY <3>1, <3>2, <3>3 DEF IInv
  <2>3. CASE Failed("unloaded")
    <3>1. AnswersAreThePages' /\ at' \in {"load", "over"}
          /\ outcome' \in Seq(Outcome)
      BY <2>1, <2>3, FailedAddsNothing
    <3>2. Typed'
      BY <1>t, <2>1, <3>1 DEF Typed, Bubbles
    <3>3. PagesAsMarked' /\ Counts'
      BY <3>1 DEF PagesAsMarked, Counts
    <3> QED BY <3>1, <3>2, <3>3 DEF IInv
  <2> QED BY <2>1, <2>2, <2>3
<1>2. CASE Binarize
  <2>1. at' = "fill" /\ black' = ink /\ k' = 1 /\ UNCHANGED <<template, ink, white, outcome>>
    BY <1>2 DEF Binarize, Loaded
  <2>2. Typed'
    BY <1>t, <2>1 DEF Typed, Bubbles
  <2>3. 1..(k' - 1) = {}
    BY <2>1
  <2>4. PagesAsMarked'
    BY <2>1, <2>3 DEF PagesAsMarked, Blackened
  <2>5. Counts'
    BY <2>1, <2>3 DEF Counts, CountsAreTrue
  <2>6. AnswersAreThePages'
    BY <1>t, <2>1 DEF AnswersAreThePages, Disturbed, Before, OnOnePage, TrueWhite
  <2> QED BY <2>2, <2>4, <2>5, <2>6 DEF IInv
<1>3. CASE FillRatio
  <2> DEFINE count == Cardinality(Circle(template[k]) \ black)
  <2>1. /\ at = "fill" /\ k \in Bubbles /\ white' = [white EXCEPT ![k] = count]
        /\ black' = black \cup Corners(template[k])
        /\ k' = k + 1 /\ at' = IF k = Len(template) THEN "adapt" ELSE at
        /\ UNCHANGED <<template, ink, outcome>>
    BY <1>3 DEF FillRatio, Bubbles
  <2>2. count \in Values
    <3>1. Circle(template[k]) \ black \in SUBSET Pixels
      BY <1>t, <2>1, Numbered, CircleOnPage
    <3> QED BY <3>1 DEF Values
  <2> HIDE DEF count
  <2>3. /\ k = Len(template) => at' = "adapt"
        /\ k # Len(template) => at' = "fill"
    BY <2>1
  <2>4. k' \in 1..(Len(template) + 1) /\ (k # Len(template) => k' <= Len(template))
    <3>1. k \in 1..Len(template) /\ k' = k + 1
      BY <1>t, <2>1
    <3> QED BY <1>t, <3>1
  <2>5. Typed'
    <3>1. white' \in [Bubbles -> Values]
      BY <1>t, <2>1, <2>2 DEF Typed
    <3> QED BY <1>t, <2>1, <2>3, <2>4, <3>1 DEF Typed, Bubbles
  <2>6. 1..(k' - 1) = 1..(k - 1) \cup {k} /\ k \notin 1..(k - 1) /\ k' - 1 = k
    <3>1. k' = k + 1
      BY <2>1
    <3> QED BY <1>t, <3>1
  <2>7. PagesAsMarked'
    <3>1. Blackened(k)' = Blackened(k) \cup Corners(template[k])
      BY <2>1, <2>6 DEF Blackened
    <3>2. black = ink \cup Blackened(k)
      BY <1>t, <2>1 DEF PagesAsMarked
    <3> QED BY <2>1, <3>1, <3>2 DEF PagesAsMarked
  <2>8. \A a \in 1..(k' - 1) : ~Disturbed(a)' => white'[a] = TrueWhite(a)'
    <3> SUFFICES ASSUME NEW a \in 1..(k' - 1), ~Disturbed(a)
                 PROVE  white'[a] = TrueWhite(a)
      BY <2>1 DEF Disturbed, Before, TrueWhite
    <3>1. CASE a = k
      <4>1. black = ink \cup Blackened(a)
        BY <1>t, <2>1, <3>1 DEF PagesAsMarked
      <4>2. count = TrueWhite(a)
        BY <3>1, <4>1, TrueCount DEF count
      <4> QED BY <1>t, <2>1, <3>1, <4>2 DEF Typed
    <3>2. CASE a # k
      <4>1. a \in 1..(k - 1)
        BY <2>6, <3>2
      <4>2. white[a] = TrueWhite(a)
        BY <1>t, <2>1, <4>1 DEF Counts, CountsAreTrue
      <4>3. white'[a] = white[a]
        <5>1. a \in Bubbles
          BY <1>t, <2>1, <4>1
        <5> QED BY <1>t, <2>1, <3>2, <5>1 DEF Typed
      <4> QED BY <4>2, <4>3
    <3> QED BY <3>1, <3>2
  <2>9. Counts'
    <3>1. at' = "fill" => CountsAreTrue(k)'
      BY <2>8 DEF CountsAreTrue
    <3>2. at' = "adapt" => CountsAreTrue(Len(template) + 1)'
      <4>1. at' = "adapt" => k = Len(template)
        BY <2>3
      <4>2. at' = "adapt" => k' - 1 = Len(template)' + 1 - 1
        BY <1>t, <2>1, <2>6, <4>1
      <4> QED BY <2>8, <4>2 DEF CountsAreTrue
    <3> QED BY <3>1, <3>2 DEF Counts
  <2>10. AnswersAreThePages'
    <3>1. UNCHANGED <<template, ink, outcome>>
      BY <2>1
    <3> QED BY <1>t, <3>1, Fixed DEF AnswersAreThePages
  <2> QED BY <2>5, <2>7, <2>9, <2>10 DEF IInv
<1>4. CASE MarkFails
  <2>1. Failed("failed") /\ UNCHANGED <<template, ink, k, black, white>>
    BY <1>4 DEF MarkFails
  <2>2. AnswersAreThePages' /\ at' \in {"load", "over"}
        /\ outcome' \in Seq(Outcome)
    BY <2>1, FailedAddsNothing
  <2>3. Typed'
    BY <1>t, <2>1, <2>2 DEF Typed, Bubbles
  <2>4. PagesAsMarked' /\ Counts'
    BY <2>2 DEF PagesAsMarked, Counts
  <2> QED BY <2>2, <2>3, <2>4 DEF IInv
<1>5. CASE Adapt
  <2> DEFINE r == [status |-> "marked", marks |-> Marks]
  <2>1. /\ at = "adapt" /\ at' \in {"load", "over"} /\ outcome' = Append(outcome, r)
        /\ UNCHANGED <<template, ink, k, black, white>>
    BY <1>5 DEF Adapt, NextScan
  <2>2. Marks \subseteq Questions \X Ids \X Values
    BY <1>t, Numbered DEF Marks, Typed, Bubbles, Bubble
  <2>3. r \in Outcome
    BY <2>2 DEF Outcome
  <2>4. \A a \in Bubbles : ~Disturbed(a) /\ OnOnePage(template[a].question) =>
          \A w \in 0..(Diameter * Diameter) :
            <<template[a].question, template[a].id, w>> \in r.marks <=> w = TrueWhite(a) /\ w < MaxWhite
    <3>1. CountsAreTrue(Len(template) + 1)
      BY <1>t, <2>1 DEF Counts
    <3> QED BY <1>t, <3>1, MarksAreTrue
  <2> HIDE DEF r
  <2>5. outcome \in Seq(Outcome)
    BY <1>t DEF Typed
  <2>6. /\ outcome' \in Seq(Outcome)
        /\ \A n \in DOMAIN outcome' : (n \in DOMAIN outcome /\ outcome'[n] = outcome[n]) \/ outcome'[n] = r
    BY <2>1, <2>3, <2>5
  <2>7. AnswersAreThePages'
    <3> SUFFICES ASSUME NEW n \in DOMAIN outcome', NEW a \in Bubbles,
                        outcome'[n].status = "marked", ~Disturbed(a), OnOnePage(template[a].question),
                        NEW w \in 0..(Diameter * Diameter)
                 PROVE  <<template[a].question, template[a].id, w>> \in outcome'[n].marks
                          <=> w = TrueWhite(a) /\ w < MaxWhite
      <4>1. UNCHANGED <<template, ink>>
        BY <2>1
      <4> QED BY <4>1, Fixed DEF AnswersAreThePages, Bubbles
    <3>1. CASE n \in DOMAIN outcome /\ outcome'[n] = outcome[n]
      BY <1>t, <3>1 DEF AnswersAreThePages, Bubbles
    <3>2. CASE outcome'[n] = r
      BY <2>4, <3>2
    <3> QED BY <2>6, <3>1, <3>2
  <2>8. Typed'
    BY <1>t, <2>1, <2>6 DEF Typed, Bubbles
  <2>9. PagesAsMarked' /\ Counts'
    BY <2>1 DEF PagesAsMarked, Counts
  <2> QED BY <2>7, <2>8, <2>9 DEF IInv
<1>6. CASE UNCHANGED vars
  <2>1. UNCHANGED <<template, ink, at, k, black, white, outcome>>
    BY <1>6 DEF vars
  <2>2. Typed' /\ PagesAsMarked'
    BY <1>t, <2>1 DEF Typed, Bubbles, PagesAsMarked, Blackened
  <2>3. Counts'
    BY <1>t, <2>1 DEF Counts, CountsAreTrue, Disturbed, Before, TrueWhite
  <2>4. AnswersAreThePages'
    BY <1>t, <2>1 DEF AnswersAreThePages, Disturbed, Before, OnOnePage, TrueWhite
  <2> QED BY <2>2, <2>3, <2>4 DEF IInv
<1> QED BY <1>1, <1>2, <1>3, <1>4, <1>5, <1>6 DEF Next

\* Marking reports of every bubble what the stored scan shows in it, where no
\* earlier square reaches it and its question is on one page.
THEOREM MarksAreThePages == Spec => []AnswersAreThePages
<1>1. IInv => AnswersAreThePages
  BY DEF IInv
<1> QED BY <1>1, InitIInv, StepIInv, PTL DEF Spec

-----------------------------------------------------------------------------

\* The matrices that are open: of the scans before, those MatricesAreClosed
\* allows; of the scan that is marked, its pages and its mask.
Opened ==
  /\ scan \in Nat \ {0} /\ Len(outcome) = scan - 1
  /\ open \subseteq (Nat \ {0}) \X Nat
  /\ \A m \in open : m[1] < scan \/ (m[1] = scan /\ at \notin {"load", "over"})
  /\ \A m \in open : m[1] = scan => m[2] = 0 \/ m \in OpenPages(Pages)
  /\ MatricesAreClosed

\* What is opened for a scan.
LEMMA OpenedOfScan ==
  ASSUME Opened, NEW n \in Nat
  PROVE  /\ OpenPages(n) \subseteq (Nat \ {0}) \X Nat
         /\ \A m \in OpenPages(n) : m[1] = scan
         /\ <<scan, 0>> \in (Nat \ {0}) \X Nat
BY DEF Opened, OpenPages

\* A scan that is answered leaves the outcomes before it as they are.
LEMMA AnswerKeepsOpened ==
  ASSUME Typed, Opened, NEW result, NextScan(result), open' \subseteq (Nat \ {0}) \X Nat,
         \A m \in open' : m \in open \/ m[1] = scan,
         \A m \in open' : m[1] = scan => m[2] = 0 \/ result.status = "unloaded"
  PROVE  Opened'
<1>1. outcome \in Seq(Outcome) /\ scan \in Nat \ {0} /\ Len(outcome) = scan - 1
  BY DEF Typed, Opened
<1>2. outcome' = Append(outcome, result) /\ scan' = scan + 1
  BY DEF NextScan
<1>3. Len(outcome') = scan /\ outcome'[scan] = result
  BY <1>1, <1>2, SMT
<1>4. \A n \in 1..(scan - 1) : outcome'[n] = outcome[n]
  BY <1>1, <1>2, SMT
<1>5. ASSUME NEW m \in open'
      PROVE  m[1] < scan' /\ (m[2] = 0 \/ outcome'[m[1]].status = "unloaded")
  <2>1. m[1] \in Nat \ {0}
    OBVIOUS
  <2>2. CASE m[1] = scan
    BY <1>1, <1>2, <1>3, <2>1, <2>2, SMT
  <2>3. CASE m[1] # scan
    <3>1. m \in open /\ m[1] < scan
      BY <2>3 DEF Opened
    <3>2. m[1] \in 1..(scan - 1) /\ m[1] < scan'
      BY <1>1, <1>2, <2>1, <3>1, SMT
    <3>3. m[2] = 0 \/ outcome[m[1]].status = "unloaded"
      BY <3>1 DEF Opened, MatricesAreClosed
    <3> QED
      BY <1>4, <3>2, <3>3
  <2> QED
    BY <2>2, <2>3
<1>6. scan' \in Nat \ {0} /\ Len(outcome') = scan' - 1
  BY <1>1, <1>2, <1>3, SMT
<1>7. \A m \in open' : m[1] # scan'
  BY <1>5, <1>6, SMT
<1> QED
  BY <1>5, <1>6, <1>7 DEF Opened, MatricesAreClosed

LEMMA OpenedStep == Typed /\ Opened /\ [Next]_vars => Opened'
<1> SUFFICES ASSUME Typed, Opened, [Next]_vars PROVE Opened'
  OBVIOUS
<1>1. CASE LoadScan
  <2>1. CASE open' = open \cup OpenPages(Pages) /\ at' = "binarize" /\ UNCHANGED <<scan, outcome>>
    <3>1. Pages \in Nat
      BY SizesAssumption
    <3>2. OpenPages(Pages)' = OpenPages(Pages)
      BY <2>1 DEF OpenPages
    <3> QED
      BY <2>1, <3>1, <3>2, OpenedOfScan DEF Opened, MatricesAreClosed
  <2>2. ASSUME NEW n \in 0..(Pages - 1), open' = open \cup OpenPages(n), Failed("unloaded")
        PROVE  Opened'
    <3>1. n \in Nat
      BY SizesAssumption, SMT
    <3> DEFINE r == [status |-> "unloaded", marks |-> {}]
    <3>2. NextScan(r) /\ r.status = "unloaded"
      BY <2>2 DEF Failed
    <3> HIDE DEF r
    <3>3. open' \subseteq (Nat \ {0}) \X Nat /\ \A m \in open' : m \in open \/ m[1] = scan
      BY <2>2, <3>1, OpenedOfScan DEF Opened
    <3> QED
      BY <3>2, <3>3, AnswerKeepsOpened
  <2> QED
    BY <1>1, <2>1, <2>2 DEF LoadScan
<1>2. CASE Binarize
  <2>1. /\ at = "binarize" /\ at' = "fill" /\ open' = open \cup {<<scan, 0>>} /\ UNCHANGED <<scan, outcome>>
    BY <1>2 DEF Binarize
  <2>2. OpenPages(Pages)' = OpenPages(Pages) /\ <<scan, 0>> \in (Nat \ {0}) \X Nat
    BY <2>1, OpenedOfScan, SizesAssumption DEF OpenPages
  <2> QED
    BY <2>1, <2>2 DEF Opened, MatricesAreClosed
<1>3. CASE FillRatio
  <2>1. at = "fill" /\ at' \in {"fill", "adapt"} /\ UNCHANGED <<scan, outcome, open>>
    BY <1>3 DEF FillRatio
  <2>2. OpenPages(Pages)' = OpenPages(Pages)
    BY <2>1 DEF OpenPages
  <2> QED
    BY <2>1, <2>2 DEF Opened, MatricesAreClosed
<1>4. CASE MarkFails \/ Adapt
  <2>1. open' = open \ OpenPages(Pages) /\ \E result : NextScan(result)
    BY <1>4 DEF MarkFails, Adapt, Failed, Closed
  <2>2. open' \subseteq (Nat \ {0}) \X Nat /\ \A m \in open' : m \in open
    BY <2>1 DEF Opened
  <2>3. \A m \in open' : m[1] = scan => m[2] = 0
    BY <2>1 DEF Opened
  <2> QED
    BY <2>1, <2>2, <2>3, AnswerKeepsOpened
<1>5. CASE UNCHANGED vars
  BY <1>5 DEF vars, Opened, MatricesAreClosed, OpenPages
<1> QED
  BY <1>1, <1>2, <1>3, <1>4, <1>5 DEF Next

LEMMA OpenedInit == Init => Opened
<1> SUFFICES ASSUME Init PROVE Opened
  OBVIOUS
<1>1. scan = 1 /\ outcome = <<>> /\ open = {}
  BY DEF Init
<1> QED
  BY <1>1 DEF Opened, MatricesAreClosed

\* When RequestMarks answers, the matrices it loaded are closed, but the masks
\* and the pages of a scan that it could not load whole.
THEOREM RequestsCloseTheirMatrices == Spec => []MatricesAreClosed
<1>1. IInv => Typed
  BY DEF IInv
<1>2. Opened => MatricesAreClosed
  BY DEF Opened
<1> QED
  BY <1>1, <1>2, InitIInv, StepIInv, OpenedInit, OpenedStep, PTL DEF Spec

-----------------------------------------------------------------------------

\* The stored scan lies on the pages too.
Sized == TypeOK /\ ink \subseteq Pixels

LEMMA Lengths ==
  /\ Diameter \in Nat \ {0} /\ Width \in Nat /\ Height \in Nat /\ Pages \in Nat \ {0} /\ MaxScans \in Nat \ {0}
  /\ Diameter * Diameter \in Nat
<1>1. Diameter \in Nat \ {0} /\ Width \in Nat /\ Height \in Nat /\ Pages \in Nat \ {0} /\ MaxScans \in Nat \ {0}
  BY SizesAssumption
<1> QED
  BY <1>1

\* A bubble's square, and its corners with it, lies on the page.
LEMMA CornersOnPage ==
  ASSUME NEW b \in Bubble
  PROVE  Corners(b) \subseteq Pixels
<1> SUFFICES ASSUME NEW d \in (0..(Diameter - 1)) \X (0..(Diameter - 1))
             PROVE  <<b.page, b.x + d[1], b.y + d[2]>> \in Pixels
  BY DEF Corners, Square
<1>1. d[1] \in 0..(Diameter - 1) /\ d[2] \in 0..(Diameter - 1)
  OBVIOUS
<1>2. b.page \in 1..Pages /\ b.x \in 0..(Width - Diameter) /\ b.y \in 0..(Height - Diameter)
  BY DEF Bubble
<1>3. b.x + d[1] \in 0..(Width - 1) /\ b.y + d[2] \in 0..(Height - 1)
  BY <1>1, <1>2, Lengths
<1> QED
  BY <1>2, <1>3 DEF Pixels

\* A circle has no more pixels than the square around it.
LEMMA CirclesAreSmall ==
  ASSUME NEW b \in Bubble, NEW S \in SUBSET Circle(b)
  PROVE  Cardinality(S) \in 0..(Diameter * Diameter)
<1> DEFINE side == 0..(Diameter - 1)
           f == [d \in Disc |-> <<b.page, b.x + d[1], b.y + d[2]>>]
<1>1. IsFiniteSet(side) /\ Cardinality(side) = Diameter
  <2>1. 0 \in Int /\ Diameter - 1 \in Int /\ ~(0 > Diameter - 1) /\ (Diameter - 1) - 0 + 1 = Diameter
    BY Lengths
  <2> QED
    BY <2>1, FS_Interval
<1>2. IsFiniteSet(side \X side) /\ Cardinality(side \X side) = Diameter * Diameter
  BY <1>1, FS_Product
<1>3. IsFiniteSet(Disc) /\ Cardinality(Disc) <= Diameter * Diameter
  <2>1. Disc \in SUBSET (side \X side)
    BY DiscAssumption
  <2> QED
    BY <1>2, <2>1, FS_Subset
<1>4. f \in Surjection(Disc, Circle(b))
  <2>1. f \in [Disc -> Circle(b)] /\ \A p \in Circle(b) : \E d \in Disc : f[d] = p
    BY DEF Circle
  <2> QED
    BY <2>1, Fun_IsSurj
<1>5. IsFiniteSet(Circle(b)) /\ Cardinality(Circle(b)) <= Cardinality(Disc)
  BY <1>3, <1>4, FS_Surjection
<1>6. IsFiniteSet(S) /\ Cardinality(S) <= Cardinality(Circle(b))
  BY <1>5, FS_Subset
<1>7. Cardinality(S) \in Nat /\ Cardinality(Circle(b)) \in Nat /\ Cardinality(Disc) \in Nat
  BY <1>3, <1>5, <1>6, FS_CardinalityType
<1> QED
  BY <1>3, <1>5, <1>6, <1>7, Lengths

\* What TypeOK says of an outcome.
OutcomeOK(result) ==
  /\ result.status \in {"unloaded", "failed", "marked"}
  /\ result.marks \subseteq Questions \X Ids \X (0..(Diameter * Diameter))

\* A scan that is answered has its outcome, and the next is taken if there is one.
LEMMA AnswerKeepsTypes ==
  ASSUME Typed, Sized, at # "over", NEW result, OutcomeOK(result), NextScan(result),
         open' \subseteq (1..MaxScans) \X (0..Pages), UNCHANGED <<template, ink, k, black, white>>
  PROVE  Sized'
<1>1. outcome \in Seq(Outcome) /\ scan = Len(outcome) + 1 /\ scan \in 1..MaxScans
  BY Lengths DEF Typed, Sized, TypeOK
<1>2. outcome' = Append(outcome, result) /\ scan' = scan + 1
      /\ at' = IF scan = MaxScans THEN "over" ELSE "load"
  BY DEF NextScan
<1>3. scan' = Len(outcome') + 1 /\ scan' \in 1..(MaxScans + 1) /\ (at' = "over" <=> scan' > MaxScans)
  BY <1>1, <1>2, Lengths, SMT
<1>4. \A s \in DOMAIN outcome' : OutcomeOK(outcome'[s])
  <2>1. \A s \in DOMAIN outcome : OutcomeOK(outcome[s])
    BY DEF Sized, TypeOK, OutcomeOK
  <2>2. \A s \in DOMAIN outcome' : (s \in DOMAIN outcome /\ outcome'[s] = outcome[s]) \/ outcome'[s] = result
    BY <1>1, <1>2, SMT
  <2> QED
    BY <2>1, <2>2
<1>5. at' \in {"load", "over"}
  BY <1>2
<1> QED
  BY <1>3, <1>4, <1>5 DEF Sized, TypeOK, OutcomeOK

LEMMA SizedStep == Typed /\ Sized /\ [Next]_vars => Sized'
<1> SUFFICES ASSUME Typed, Sized, [Next]_vars PROVE Sized'
  OBVIOUS
<1> USE Lengths
<1>1. scan \in Nat /\ (at # "over" => scan \in 1..MaxScans)
  BY DEF Sized, TypeOK
<1>2. CASE LoadScan
  <2>1. at = "load" /\ UNCHANGED <<template, ink, k, black, white>>
    BY <1>2 DEF LoadScan
  <2>2. ASSUME NEW n \in 0..Pages PROVE open \cup OpenPages(n) \subseteq (1..MaxScans) \X (0..Pages)
    BY <1>1, <2>1 DEF OpenPages, Sized, TypeOK
  <2>3. CASE open' = open \cup OpenPages(Pages) /\ at' = "binarize" /\ UNCHANGED <<scan, outcome>>
    <3>1. open' \subseteq (1..MaxScans) \X (0..Pages)
      BY <2>2, <2>3
    <3> QED
      BY <2>1, <2>3, <3>1 DEF Sized, TypeOK
  <2>4. ASSUME NEW n \in 0..(Pages - 1), open' = open \cup OpenPages(n), Failed("unloaded")
        PROVE  Sized'
    <3> DEFINE r == [status |-> "unloaded", marks |-> {}]
    <3>1. OutcomeOK(r) /\ NextScan(r)
      BY <2>4 DEF Failed, OutcomeOK
    <3>2. open' \subseteq (1..MaxScans) \X (0..Pages)
      BY <2>2, <2>4
    <3> HIDE DEF r
    <3> QED
      BY <2>1, <3>1, <3>2, AnswerKeepsTypes
  <2> QED
    BY <1>2, <2>3, <2>4 DEF LoadScan
<1>3. CASE Binarize
  <2>1. at = "binarize" /\ at' = "fill" /\ black' = ink /\ k' = 1 /\ open' = open \cup {<<scan, 0>>}
        /\ UNCHANGED <<template, ink, scan, white, outcome>>
    BY <1>3 DEF Binarize, Loaded
  <2>2. open' \subseteq (1..MaxScans) \X (0..Pages)
    BY <1>1, <2>1 DEF Sized, TypeOK
  <2>3. k' \in 1..(Len(template') + 1)
    BY <2>1, Numbered
  <2> QED
    BY <2>1, <2>2, <2>3 DEF Sized, TypeOK
<1>4. CASE FillRatio
  <2>1. at = "fill" /\ at' \in {"fill", "adapt"} /\ k \in Bubbles /\ k' = k + 1
        /\ UNCHANGED <<template, ink, scan, outcome, open>>
    BY <1>4 DEF FillRatio, Bubbles
  <2>2. template[k] \in Bubble /\ k' \in 1..(Len(template) + 1)
    BY <2>1, Numbered
  <2>3. black' \subseteq Pixels
    BY <1>4, <2>2, CornersOnPage DEF FillRatio, Sized, TypeOK
  <2>4. white' \in [Bubbles -> 0..(Diameter * Diameter)]
    <3>1. Cardinality(Circle(template[k]) \ black) \in 0..(Diameter * Diameter)
      BY <2>2, CirclesAreSmall
    <3> QED
      BY <1>4, <2>1, <3>1 DEF FillRatio, Sized, TypeOK, Bubbles
  <2> QED
    BY <2>1, <2>2, <2>3, <2>4 DEF Sized, TypeOK, Bubbles
<1>5. CASE MarkFails
  <2> DEFINE r == [status |-> "failed", marks |-> {}]
  <2>1. OutcomeOK(r) /\ NextScan(r)
    BY <1>5 DEF MarkFails, Failed, OutcomeOK
  <2>2. at # "over" /\ UNCHANGED <<template, ink, k, black, white>>
        /\ open' \subseteq (1..MaxScans) \X (0..Pages)
    BY <1>5 DEF MarkFails, Closed, Sized, TypeOK
  <2> HIDE DEF r
  <2> QED
    BY <2>1, <2>2, AnswerKeepsTypes
<1>6. CASE Adapt
  <2> DEFINE r == [status |-> "marked", marks |-> Marks]
  <2>1. Marks \subseteq Questions \X Ids \X (0..(Diameter * Diameter))
    <3>1. \A a \in Bubbles : template[a].question \in Questions /\ template[a].id \in Ids
                             /\ white[a] \in 0..(Diameter * Diameter)
      BY Numbered DEF Sized, TypeOK, Bubbles, Bubble
    <3> QED
      BY <3>1 DEF Marks, Bubbles
  <2>2. OutcomeOK(r) /\ NextScan(r)
    BY <1>6, <2>1 DEF Adapt, OutcomeOK
  <2>3. at # "over" /\ UNCHANGED <<template, ink, k, black, white>>
        /\ open' \subseteq (1..MaxScans) \X (0..Pages)
    BY <1>6 DEF Adapt, Closed, Sized, TypeOK
  <2> HIDE DEF r
  <2> QED
    BY <2>2, <2>3, AnswerKeepsTypes
<1>7. CASE UNCHANGED vars
  BY <1>7 DEF vars, Sized, TypeOK
<1> QED
  BY <1>2, <1>3, <1>4, <1>5, <1>6, <1>7 DEF Next

LEMMA SizedInit == Init => Sized
<1> SUFFICES ASSUME Init PROVE Sized
  OBVIOUS
<1>1. Typed
  BY InitIInv DEF IInv
<1>2. scan = 1 /\ outcome = <<>> /\ at = "load" /\ k = 1 /\ black = {} /\ open = {} /\ ink \subseteq Pixels
  BY DEF Init
<1>3. white \in [DOMAIN template -> 0..(Diameter * Diameter)]
  BY Lengths DEF Init
<1>4. k \in 1..(Len(template) + 1)
  BY <1>1 DEF Typed
<1> QED
  BY <1>2, <1>3, <1>4, Lengths DEF Sized, TypeOK

\* Every scan id is given one outcome, in order; pixels stay on their pages, and
\* no bubble shows more white than its square has pixels.
THEOREM MarkingTypeCorrect == Spec => []TypeOK
<1>1. IInv => Typed
  BY DEF IInv
<1>2. Sized => TypeOK
  BY DEF Sized
<1> QED
  BY <1>1, <1>2, InitIInv, StepIInv, SizedInit, SizedStep, PTL DEF Spec
=============================================================================
