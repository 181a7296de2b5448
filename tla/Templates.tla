----------------------------- MODULE Templates -----------------------------
(***************************************************************************)
(* Templates: the POST and DELETE handlers (handler/template.go), Validate *)
(* and Adapt (dto/incoming.go), the codecs of omr/codecs.go, and what the  *)
(* local ServerResources keeps in its two tables (resources/local.go).     *)
(*                                                                         *)
(* A template is a sequence of pages and a page a sequence of items: the   *)
(* anchors of a preprocessing template, the questions of a marking one.    *)
(* Only anchors hold an image, which becomes a native matrix.  One row is  *)
(* enough: every POST makes an id of its own, and an update there is none. *)
(***************************************************************************)
EXTENDS RequestBody

CONSTANT MaxBlockSize     \* bound: pages in a template

ASSUME TemplateAssumption == MaxBlockSize \in Nat \ {0}

VARIABLES
  posted,           \* what the last POST of a template carried
  template,         \* the omr template in the handler's hands
  row,              \* what is stored under its id
  native            \* its anchors whose matrices are open

templateVars == <<posted, template, row, native>>

NoRow == [kind |-> "none", pages |-> <<>>]

MinAnchors == 3

\* An image is good, or is not in base64, or is and decodes to nothing.
Images == {"good", "uncoded", "broken"}

\* How many pages, how many items on each, and which one may not be good.
Shapes == [pages : 1..MaxBlockSize, items : 1..MinAnchors,
           page : 1..MaxBlockSize, place : 1..MinAnchors, image : Images]

Pages(shape) ==
  [i \in 1..shape.pages |-> [j \in 1..shape.items |->
     [page |-> i, place |-> j,
      image |-> IF i = shape.page /\ j = shape.place THEN shape.image ELSE "good"]]]

Postable == {<<>>} \cup {Pages(shape) : shape \in Shapes}

ItemsOf(t) == UNION {{t[i][j] : j \in DOMAIN t[i]} : i \in DOMAIN t}

-----------------------------------------------------------------------------
(* POST.                                                                   *)

\* Validate, as far as the shape goes.
Valid(t) ==
  /\ t # <<>>
  /\ request.kind = "postPreprocess" => \A i \in DOMAIN t : Len(t[i]) >= MinAnchors
  /\ request.kind = "postMarking" => \A item \in ItemsOf(t) : item.image = "good"

Validate ==
  /\ at = "validate"
  /\ \E t \in Postable :
       IF Valid(t)
       THEN /\ posted' = t /\ at' = "adapt"
            /\ UNCHANGED <<request, by, stream, files, status>>
       ELSE End("badTemplate") /\ UNCHANGED posted
  /\ UNCHANGED <<template, row, native>>

Before(a, b) == a.page < b.page \/ (a.page = b.page /\ a.place < b.place)

\* Bug: an anchor that cannot be decoded is left out.
AdaptSkipping ==
  /\ at = "adapt" /\ request.kind = "postPreprocess"
  /\ template' = [i \in DOMAIN posted |-> SelectSeq(posted[i], LAMBDA item : item.image = "good")]
  /\ native' = ItemsOf(template') /\ at' = "save"
  /\ UNCHANGED <<request, by, stream, files, status, posted, row>>

\* PreprocessTemplate.Adapt decodes the anchors in their order.  The first that
\* fails ends it, and those decoded before stay open.  OpenCV may give an empty
\* matrix for bytes that are no image, and no error.
Adapt ==
  /\ at = "adapt" /\ request.kind = "postPreprocess"
  /\ \/ /\ \A item \in ItemsOf(posted) : item.image # "uncoded"
        /\ template' = posted /\ native' = ItemsOf(posted) /\ at' = "save"
        /\ UNCHANGED <<request, by, stream, files, status>>
     \/ \E item \in ItemsOf(posted) :
          /\ item.image # "good"
          /\ native' = {other \in ItemsOf(posted) : Before(other, item)}
          /\ End("badImage") /\ UNCHANGED template
  /\ UNCHANGED <<posted, row>>

\* MarkTemplate.Adapt copies every page, question and bubble.
AdaptMarks ==
  /\ at = "adapt" /\ request.kind = "postMarking"
  /\ template' = posted /\ at' = "save"
  /\ UNCHANGED <<request, by, stream, files, status, posted, row, native>>

\* EncodePreprocessTemplate puts the bytes of the matrices beside a template
\* without anchors; EncodeMarkTemplate compresses.
Encoded(t) ==
  [i \in DOMAIN t |-> [j \in DOMAIN t[i] |->
     [pos |-> <<t[i][j].page, t[i][j].place>>, bytes |-> t[i][j].image]]]

\* DecodePreprocessTemplate and DecodeMarkTemplate.
Restored(s) ==
  [i \in DOMAIN s |-> [j \in DOMAIN s[i] |->
     [page |-> s[i][j].pos[1], place |-> s[i][j].pos[2], image |-> s[i][j].bytes]]]

\* SavePreprocessingTemplate and SaveMarkingTemplate: the encoding, which an
\* empty matrix fails, then the row; then the answer with its id.  The anchors
\* are never closed.
Save ==
  /\ at = "save"
  /\ \/ End("serverError") /\ UNCHANGED row
     \/ /\ \A item \in ItemsOf(template) : item.image = "good"
        /\ row' = [kind |-> request.kind, pages |-> Encoded(template)]
        /\ End("ok")
  /\ UNCHANGED <<posted, template, native>>

\* DELETE, by anybody who knows the id, at any time.
DeleteTemplate ==
  /\ row # NoRow /\ row' = NoRow
  /\ UNCHANGED <<bodyVars, posted, template, native>>

\* The client goes on to use the id it got.
NextRequest ==
  /\ at = "over" /\ request.kind \in Posts /\ status = "ok"
  /\ request' \in {r \in Requests : r.kind \notin Posts}
  /\ by' = FirstBy(request') /\ at' = FirstAt(request') /\ stream' = FirstStream(request')
  /\ status' = "none" /\ UNCHANGED files
  /\ template' = <<>> /\ native' = {}
  /\ UNCHANGED <<posted, row>>

-----------------------------------------------------------------------------
(* Loading, and RequestMarks.                                              *)

\* LoadPreprocessingTemplate or LoadMarkingTemplate has found the row.
Found(kind) == row.kind = kind /\ template' = Restored(row.pages)

\* RequestMarks answers every error in the same way; its body is closed when
\* it returns.
LoadMarkingTemplate ==
  /\ at = "marking"
  /\ \/ End("notFound") /\ UNCHANGED template
     \/ /\ Found("postMarking") /\ at' = "marked"
        /\ UNCHANGED <<request, by, stream, files, status>>
  /\ UNCHANGED <<posted, row, native>>

MarkEnd ==
  /\ at = "marked" /\ \E code \in {"ok", "noneUsable"} : End(code)
  /\ UNCHANGED templateVars

TemplateInit ==
  /\ posted = <<>> /\ template = <<>> /\ row = NoRow /\ native = {}

TemplateNext ==
  \/ BodyNext /\ UNCHANGED templateVars
  \/ Validate \/ Adapt \/ AdaptMarks \/ Save \/ DeleteTemplate \/ NextRequest
  \/ LoadMarkingTemplate \/ MarkEnd
=============================================================================
