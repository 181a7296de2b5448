------------------------------ MODULE Marking ------------------------------
(***************************************************************************)
(* POST /mark once its body is parsed: the loop of RequestMarks            *)
(* (handler/mark.go) with LoadScan's matrices, Mark, RawFillRatios and     *)
(* fillRatio (omr/mark.go), and AdaptScanMarks (dto/outgoing.go).          *)
(*                                                                         *)
(* A binarised matrix is the set of its black pixels.  Every scan id of    *)
(* the request names the same scan, which another request may delete at    *)
(* any time.  Confidences are white pixels: the fewer, the more confident. *)
(***************************************************************************)
EXTENDS Naturals, Sequences, FiniteSets

CONSTANTS
  Questions, Ids,   \* the ids of questions, and of their bubbles
  Pages,            \* pages of the template
  Width, Height,    \* of a page, in pixels
  Diameter, Disc,   \* of a bubble; the pixels of a square that circleMask fills
  MaxWhite,         \* what MinimumConfidence leaves a marked bubble
  MaxBubbles,       \* bound: bubbles in the template
  MaxInk,           \* bound: black pixels of the scan
  MaxScans          \* bound: scan ids in the request

ASSUME SizesAssumption ==
  /\ Pages \in Nat \ {0} /\ Width \in Nat /\ Height \in Nat
  /\ MaxScans \in Nat \ {0}                        \* Validate refuses an empty list
  /\ MaxBubbles \in Nat /\ MaxInk \in Nat /\ MaxWhite \in Nat /\ Diameter \in 1..Width /\ Diameter <= Height

ASSUME DiscAssumption == Disc \subseteq (0..(Diameter - 1)) \X (0..(Diameter - 1))

VARIABLES
  template,         \* MarkTemplate: its bubbles, page by page
  ink,              \* the stored scan: what is black once it is binarised
  scan,             \* which scan id is marked
  at,               \* what is next
  k,                \* the bubble whose fill ratio is next
  black,            \* the matrices in memory
  white,            \* fillRatios: white pixels counted
  outcome,          \* out: for each scan id the marks or the error
  open              \* matrices not closed: <<scan, page>>, and the mask <<scan, 0>>

vars == <<template, ink, scan, at, k, black, white, outcome, open>>

Bubble == [page : 1..Pages, question : Questions, id : Ids,
           x : 0..(Width - Diameter), y : 0..(Height - Diameter)]

Pixels == (1..Pages) \X (0..(Width - 1)) \X (0..(Height - 1))

SameQuestion(a, b) == a.page = b.page /\ a.question = b.question

\* MarkTemplate.Validate: a page has a question, a page's questions and a
\* question's bubbles have ids of their own.
Valid(t) ==
  /\ \A n \in 1..Pages : \E a \in DOMAIN t : t[a].page = n
  /\ \A a, b \in DOMAIN t : a < b => t[a].page <= t[b].page
  /\ \A a, b \in DOMAIN t : a < b => ~(SameQuestion(t[a], t[b]) /\ t[a].id = t[b].id)
  /\ \A a, b, c \in DOMAIN t : a < b /\ b < c /\ SameQuestion(t[a], t[c]) => SameQuestion(t[a], t[b])

\* BubbleRegion.
Square(b) == {<<b.page, b.x + d[1], b.y + d[2]>> : d \in (0..(Diameter - 1)) \X (0..(Diameter - 1))}

\* What is left of it under the mask.
Circle(b) == {<<b.page, b.x + d[1], b.y + d[2]>> : d \in Disc}

Corners(b) == Square(b) \ Circle(b)

OpenPages(n) == {<<scan, m>> : m \in 1..n}

\* Bug: pages are closed only when they were marked.
ClosedOnSuccess == IF at = "adapt" THEN open \ OpenPages(Pages) ELSE open

\* defer CloseAll(pages).
Closed == open \ OpenPages(Pages)

-----------------------------------------------------------------------------

NextScan(result) ==
  /\ outcome' = Append(outcome, result)
  /\ scan' = scan + 1 /\ at' = IF scan = MaxScans THEN "over" ELSE "load"

Failed(status) == NextScan([status |-> status, marks |-> {}])

\* LoadScan; what it had loaded when a page could not be read stays open.
LoadScan ==
  /\ at = "load"
  /\ \/ /\ open' = open \cup OpenPages(Pages) /\ at' = "binarize"
        /\ UNCHANGED <<scan, outcome>>
     \/ \E n \in 0..(Pages - 1) : open' = open \cup OpenPages(n) /\ Failed("unloaded")
  /\ UNCHANGED <<template, ink, k, black, white>>

\* Bug: matrices that were marked before are given out again.
LoadedAgain == ink \cup black

\* Mats.Get reads a matrix from its file each time.
Loaded == ink

\* Binarize page by page, and the mask RawFillRatios makes.
Binarize ==
  /\ at = "binarize" /\ at' = "fill"
  /\ black' = Loaded /\ k' = 1 /\ open' = open \cup {<<scan, 0>>}
  /\ UNCHANGED <<template, ink, scan, white, outcome>>

\* fillRatio: BitwiseAnd writes into the page, not into a copy.
FillRatio ==
  /\ at = "fill" /\ k \in DOMAIN template
  /\ white' = [white EXCEPT ![k] = Cardinality(Circle(template[k]) \ black)]
  /\ black' = black \cup Corners(template[k])
  /\ k' = k + 1 /\ at' = IF k = Len(template) THEN "adapt" ELSE at
  /\ UNCHANGED <<template, ink, scan, outcome, open>>

\* Binarize, the count of pages, their type and aspect ratio, BitwiseAnd.
MarkFails ==
  /\ at \in {"binarize", "fill"} /\ Failed("failed") /\ open' = Closed
  /\ UNCHANGED <<template, ink, k, black, white>>

Selected(a) == white[a] < MaxWhite

\* The results are keyed by question: a later page's take the place of an
\* earlier one's.
Overwritten(a) ==
  \E b \in DOMAIN template : /\ template[b].question = template[a].question
                             /\ template[b].page > template[a].page

Marks ==
  {<<template[a].question, template[a].id, white[a]>> :
     a \in {b \in DOMAIN template : Selected(b) /\ ~Overwritten(b)}}

Adapt ==
  /\ at = "adapt" /\ NextScan([status |-> "marked", marks |-> Marks]) /\ open' = Closed
  /\ UNCHANGED <<template, ink, k, black, white>>

Init ==
  /\ ink \in SUBSET Pixels /\ Cardinality(ink) <= MaxInk
  /\ template \in UNION {[1..n -> Bubble] : n \in 1..MaxBubbles} /\ Valid(template)
  /\ scan = 1 /\ at = "load" /\ k = 1
  /\ black = {} /\ white = [a \in DOMAIN template |-> 0]
  /\ outcome = <<>> /\ open = {}

Next == LoadScan \/ Binarize \/ FillRatio \/ MarkFails \/ Adapt

Spec == Init /\ [][Next]_vars

-----------------------------------------------------------------------------
(* What must hold.                                                         *)

\* Each scan id is given one outcome, in order; pixels only turn black, and
\* only from the squares already looked at.
TypeOK ==
  /\ at \in {"load", "binarize", "fill", "adapt", "over"}
  /\ scan = Len(outcome) + 1 /\ scan \in 1..(MaxScans + 1) /\ (at = "over" <=> scan > MaxScans)
  /\ k \in 1..(Len(template) + 1)
  /\ black \subseteq Pixels /\ white \in [DOMAIN template -> 0..(Diameter * Diameter)]
  /\ \A s \in DOMAIN outcome :
       /\ outcome[s].status \in {"unloaded", "failed", "marked"}
       /\ outcome[s].marks \subseteq Questions \X Ids \X (0..(Diameter * Diameter))
  /\ open \subseteq (1..MaxScans) \X (0..Pages)

Before(a) == 1..(a - 1)

\* A square looked at before has corners in this bubble.
Disturbed(a) == \E b \in Before(a) : Corners(template[b]) \cap Circle(template[a]) # {}

TrueWhite(a) == Cardinality(Circle(template[a]) \ ink)

\* As the API asks of a template ("No two question IDs on a given template
\* should be the same", openapi.yaml:1528), and Validate asks of a page only.
OnOnePage(q) ==
  \A a, b \in DOMAIN template :
    template[a].question = q /\ template[b].question = q => template[a].page = template[b].page

\* A bubble is reported with what the stored scan shows in it, if that is
\* enough, and never otherwise: however many bubbles were counted on the page
\* before it and however often the scan is marked; for the bubbles no earlier
\* square's corners reach and the questions that are on one page only
\* (RequestMarks, fillRatio, AdaptScanMarks).
AnswersAreThePages ==
  \A s \in DOMAIN outcome, a \in DOMAIN template :
    outcome[s].status = "marked" /\ ~Disturbed(a) /\ OnOnePage(template[a].question) =>
      \A w \in 0..(Diameter * Diameter) :
        <<template[a].question, template[a].id, w>> \in outcome[s].marks
          <=> w = TrueWhite(a) /\ w < MaxWhite

\* Of the matrices of a request all are closed when it is answered but the
\* masks, and the pages of a scan that could not be loaded whole.
MatricesAreClosed ==
  \A m \in open : m[1] < scan => m[2] = 0 \/ outcome[m[1]].status = "unloaded"
=============================================================================
