----------------------------- MODULE PdfUpload -----------------------------
(***************************************************************************)
(* An upload from its first byte to the last renderer: RequestBody for the *)
(* body, Templates for what it is read with, then the rest of PostScanPdf  *)
(* (handler/scan.go) up to its answer, with blockPartitionPdf and the      *)
(* renderers of RenderPageBlocks (pdf/pdf.go).  What flows between the     *)
(* renderers and the answer is ScanPipeline; here it only matters who      *)
(* removes which temporary file and closes which anchors.                  *)
(***************************************************************************)
EXTENDS Templates, BlockPartition

CONSTANT MaxPages     \* bound: pages in the PDF

ASSUME PagesAssumption == MaxPages \in Nat

VARIABLES
  pages,            \* in the PDF
  docs,             \* how many sub-documents are open
  rendered          \* for each renderer, the exams it sends, once it is through

pdfVars == <<pages, docs, rendered>>
vars    == <<bodyVars, templateVars, pdfVars>>

\* PageCount of the template.
blockSize == Len(template)

subsets == Subsets(pages, blockSize, Parallelism(blockSize))

Doc(i) == <<"doc", i>>

OpenDocs == {Doc(i) : i \in 1..docs}

\* PostScanPdf returns: tmpl.Close closes the anchors, body.Close removes its
\* file.
Return(code) == Answer(code) /\ files' = BodyClosed \ {Parsed} /\ native' = {}

-----------------------------------------------------------------------------

\* LoadPreprocessingTemplate.
LoadTemplate ==
  /\ at = "template"
  /\ \/ Return("notFound") /\ UNCHANGED template
     \/ /\ Found("postPreprocess") /\ native' = ItemsOf(template')
        /\ at' = "split" /\ UNCHANGED <<files, status>>
  /\ UNCHANGED <<request, by, stream, posted, row, pdfVars>>

\* Bug: the template is closed only at the end of the handler.
SplitAndLeave ==
  /\ at = "split"
  /\ Answer("notAPDF") /\ files' = BodyClosed \ {Parsed}
  /\ UNCHANGED <<request, by, stream, templateVars, pdfVars>>

\* splittingContext, and the check of blockPartition.
Split ==
  /\ at = "split"
  /\ \/ Return("notAPDF") /\ UNCHANGED pages
     \/ \E n \in 0..MaxPages :
          /\ pages' = n
          /\ IF Divides(n, blockSize) THEN at' = "subdocs" /\ UNCHANGED <<files, status, native>>
             ELSE Return("pageCount")
  /\ UNCHANGED <<request, by, stream, posted, template, row, docs, rendered>>

\* Bug: only the file of this turn is removed.
GiveUpCareless(code) == Return(code) /\ docs' = 0

\* The loop of blockPartitionPdf fails: what it opened is closed and removed,
\* the file of this turn too.
GiveUp(code) ==
  Answer(code) /\ files' = BodyClosed \ ({Parsed} \cup OpenDocs) /\ docs' = 0 /\ native' = {}

\* One turn of that loop: a temporary file, its pages, the document opened on
\* it.  pageSpan gives no error when the pages cannot be extracted; MuPDF then
\* finds an empty file.
OpenSubdoc ==
  /\ at = "subdocs" /\ docs < Len(subsets)
  /\ \/ /\ docs' = docs + 1 /\ files' = files \cup {Doc(docs + 1)}
        /\ UNCHANGED <<at, status, native>>
     \/ \E code \in {"panic", "serverError", "notAPDF"} : GiveUp(code)
  /\ UNCHANGED <<request, by, stream, posted, template, row, pages, rendered>>

\* The renderers are started.
StartRenderers ==
  /\ at = "subdocs" /\ docs = Len(subsets)
  /\ at' = "rendering"
  /\ UNCHANGED <<request, by, stream, files, status, templateVars, pdfVars>>

Exams(i) ==
  {[from |-> subsets[i][j].from, thru |-> subsets[i][j].thru,
    pages |-> PagesRendered(subsets[i], j, blockSize)] : j \in DOMAIN subsets[i]}

\* Bug: the sub-document's file is closed and not removed.
RendererEndLeaky(i) ==
  /\ at \in {"rendering", "over"} /\ Doc(i) \in files /\ rendered[i] = {}
  /\ rendered' = [rendered EXCEPT ![i] = Exams(i)]
  /\ UNCHANGED <<request, by, at, stream, files, status, templateVars, pages, docs>>

\* Renderer i has sent its exams and closes its sub-document, before the
\* handler has answered or after.
RendererEnd(i) ==
  /\ at \in {"rendering", "over"} /\ Doc(i) \in files
  /\ rendered' = [rendered EXCEPT ![i] = Exams(i)]
  /\ files' = files \ {Doc(i)}
  /\ UNCHANGED <<request, by, at, stream, status, templateVars, pages, docs>>

\* PostScanPdf answers: that it gets there is HandlerReturns of ScanPipeline.
\* With no renderer nobody closes the channel, and it waits for a first exam
\* for ever.
ScanEnd ==
  /\ at = "rendering" /\ docs > 0
  /\ \E code \in {"ok", "noneUsable", "notCalibrated"} : Return(code)
  /\ UNCHANGED <<request, by, stream, posted, template, row, pdfVars>>

Init ==
  /\ BodyInit /\ TemplateInit
  /\ pages = 0 /\ docs = 0
  /\ rendered = [i \in 1..Parallelism(1) |-> {}]

Next ==
  \/ TemplateNext /\ UNCHANGED pdfVars
  \/ LoadTemplate \/ Split \/ OpenSubdoc \/ StartRenderers \/ ScanEnd
  \/ \E i \in 1..docs : RendererEnd(i)

Spec == Init /\ [][Next]_vars

\* The handler and the renderers are goroutines that go on.  A client may stop
\* sending, so nothing is said of the body.
Fairness ==
  /\ WF_vars(LoadTemplate) /\ WF_vars(Split) /\ WF_vars(OpenSubdoc)
  /\ WF_vars(StartRenderers) /\ WF_vars(ScanEnd)
  /\ \A i \in 1..Parallelism(1) : WF_vars(i <= docs /\ RendererEnd(i))

FairSpec == Spec /\ Fairness

-----------------------------------------------------------------------------
(* What must hold.                                                         *)

Exam == [from : 1..MaxPages, thru : 1..MaxPages, pages : SeqOf(1..MaxPages, MaxBlockSize)]

TypeOK ==
  /\ request \in Requests /\ by \in {"wrapper", "handler"}
  /\ stream.layers \in SeqOf(Supported, MaxLayers)
  /\ files \subseteq {File("wrapper"), File("handler")} \cup {Doc(i) : i \in DOMAIN rendered}
  /\ pages \in 0..MaxPages
  /\ posted \in Postable /\ template \in Postable
  /\ row.kind \in Posts \cup {"none"} /\ native \subseteq ItemsOf(posted)
  /\ docs \in 0..Parallelism(1)
  /\ \A i \in DOMAIN rendered : rendered[i] \subseteq Exam

Times(k) == IF k = 1 THEN request.announced ELSE request.announced \o request.announced

\* Whatever the client announced and really sent, a body gets past the parsers
\* only if each of them, undoing what the header says in the order of the
\* header, ended up with plain content of the right type (decode, ParseBodyFile,
\* ParseJsonBody, AsyncJob).
OnlyPlainIsProcessed ==
  at \in {"template", "split", "subdocs", "rendering", "marking", "validate", "adapt", "save"} =>
    /\ request.genuine /\ request.declared
    /\ request.layers = Times(IF request.async THEN 2 ELSE 1)

\* No body is processed that decodes to more than its limit, however small it
\* was on the network (MaxBytesReader, LimitReader).
LimitIsOnDecoded ==
  at \in {"template", "marking", "validate"} =>
    request.size <= IF request.kind = "scan" THEN FileLimit
                    ELSE IF request.kind = "mark" THEN JsonLimit ELSE TemplateLimit

\* Every failure after the sub-documents were begun, and every end of the
\* handler and the renderers in whatever order, leaves no temporary file but
\* one: that of a ParseBodyFile that failed once it had created it.
OnlyRefusedBodyStays ==
  at = "over" =>
    \A f \in files :
      \/ f \in OpenDocs /\ rendered[f[2]] = {}
      \/ /\ f = Parsed /\ docs = 0
         /\ status \in {"serverError", "tooLarge", "wrongType"}

Pieces == UNION {rendered[i] : i \in DOMAIN rendered}

\* The renderers together give every page once, in whole exams whose metadata
\* names their pages, the exams are spread evenly, and no renderer is idle
\* (blockPartition, RenderPageBlocks).
EveryPageOnce ==
  docs > 0 /\ (\A i \in 1..docs : rendered[i] # {}) =>
    /\ \A e \in Pieces : e.pages = [k \in 1..blockSize |-> e.from + k - 1]
                         /\ e.thru = e.from + blockSize - 1
    /\ {e.from : e \in Pieces} = {1 + k * blockSize : k \in 0..(pages \div blockSize - 1)}
    /\ \A i, j \in 1..docs : Cardinality(rendered[i]) <= Cardinality(rendered[j]) + 1
    /\ \A i, j \in 1..docs : i # j => rendered[i] \cap rendered[j] = {}

\* The template an upload or a marking job works with is the one that was
\* posted under its id, every page and every anchor in its place: a template
\* with an anchor that cannot be decoded never gets an id, and what Adapt, the
\* codecs and the tables do to the others is undone (template.go, Adapt,
\* EncodePreprocessTemplate, DecodePreprocessTemplate).
TemplateComesBack ==
  request.kind \notin Posts /\ template # <<>> => template = posted

\* However an upload ends, the anchors it loaded are closed; the only handler
\* that leaves matrices open is the one that takes preprocessing templates.
OnlyPostedAnchorsStay ==
  at = "over" /\ native # {} => request.kind = "postPreprocess"

\* An upload that has been read is answered and its renderers end, unless the
\* PDF has no page.
UploadEnds == at = "template" ~> (at = "over" /\ files = {}) \/ (at = "rendering" /\ pages = 0)

\* What ParseJsonBody and ParseBodyFile say of themselves (parsers.go:30 and
\* 295): a body coded as its header announces is decoded, and so it is never
\* refused as coded wrongly.
CodedAsAnnounced == request.layers = request.announced => status # "malformed"
=============================================================================
