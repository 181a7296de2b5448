---------------------------- MODULE RequestBody ----------------------------
(***************************************************************************)
(* The body of POST /scan/pdf, /mark, /template/preprocess and             *)
(* /template/mark, from the network to the handler: decode, ParseBodyFile  *)
(* and ParseJsonBody of internal/server/dto/parsers.go, called by AsyncJob *)
(* (mw/job.go), which copies the body to a file, and again by the handler  *)
(* that reads it.                                                          *)
(*                                                                         *)
(* A body is the list of codings put around it, outermost last; its bytes  *)
(* are whether they are what the handler expects, and how many.  Codings   *)
(* shrink, so a body still coded is taken to be within every limit.        *)
(***************************************************************************)
EXTENDS Naturals, Sequences, SequencesExt

CONSTANTS
  FileLimit,              \* MaxSizeScan = MaxBodySize
  JsonLimit,              \* MaxSizeMarksRequest
  TemplateLimit,          \* MaxSizeMarkingTemplate = MaxSizePreprocessingTemplate
  MaxSize,                \* bound: the largest body
  MaxLayers               \* bound: codings around a body or in the header

ASSUME LimitsAssumption ==
  JsonLimit \in Nat /\ TemplateLimit \in Nat /\ FileLimit \in Nat /\ MaxSize \in Nat /\ MaxLayers \in Nat

VARIABLES
  request,          \* what the client sent
  by,               \* who parses: the wrapper or the handler
  at,               \* what is next
  stream,           \* what r.Body gives when it is read
  files,            \* the temporary files on disk
  status            \* the last answer

bodyVars == <<request, by, at, stream, files, status>>

Supported == {"gzip", "deflate"}
Codings   == Supported \cup {"br"}

\* Those that post a template; no job wraps them.
Posts == {"postPreprocess", "postMarking"}

Requests ==
  {r \in [async : BOOLEAN, kind : {"scan", "mark"} \cup Posts,
          announced : SeqOf(Codings, MaxLayers),   \* Content-Encoding
          layers : SeqOf(Supported, MaxLayers),    \* what is really around it
          declared : BOOLEAN,      \* the Content-Type is the one expected
          genuine : BOOLEAN,       \* the bytes are a PDF, or valid JSON
          size : 0..MaxSize] : r.kind \in Posts => ~r.async}

File(owner) == <<owner, 0>>

Parsed == File(by)

\* Size and content of what stream gives.
Bytes == IF stream.layers = <<>> THEN request.size ELSE 0
Genuine == stream.layers = <<>> /\ request.genuine

-----------------------------------------------------------------------------
(* decode.                                                                 *)

Outermost(s, coding) == s.layers # <<>> /\ Last(s.layers) = coding /\ s.fault = "none"

Peel(s) == [s EXCEPT !.layers = Front(@)]

\* One turn of the loop: gzip.NewReader reads a header at once, flate.NewReader
\* reads nothing, and reading fails later if the bytes are something else.  The
\* headers are taken to have arrived; the rest of the body may not (CopyBody).
Unwrap(coding, s) ==
  IF s.fault \in {"malformed", "unsupported"} THEN s
  ELSE IF coding \notin Supported THEN [s EXCEPT !.fault = "unsupported"]
  ELSE IF Outermost(s, coding) THEN Peel(s)
  ELSE [s EXCEPT !.fault = IF coding = "gzip" THEN "malformed" ELSE "corrupt"]

\* Bug: the codings are undone in the order they were applied.
DecodedForwards(s) == FoldLeft(LAMBDA t, coding : Unwrap(coding, t), s, request.announced)

\* The header is read from its last entry to its first.
Decoded(s) == FoldRight(LAMBDA coding, t : Unwrap(coding, t), request.announced, s)

-----------------------------------------------------------------------------
(* The end of a request.                                                   *)

\* The handler's body is the wrapper's file, whose Close removes it.
BodyClosed == IF by = "handler" THEN files \ {File("wrapper")} ELSE files

Answer(code) == status' = code /\ at' = "over"

\* The handler is through, or a parser has sent an error and its caller returns.
End(code) == Answer(code) /\ files' = BodyClosed /\ UNCHANGED <<request, by, stream>>

FirstStep(r) == IF r.kind = "scan" THEN "query" ELSE "check"

-----------------------------------------------------------------------------
(* The parsers.                                                            *)

\* PostScanPdf parses its query before it touches the body.
ParseQuery ==
  /\ at = "query"
  /\ \/ at' = "check" /\ UNCHANGED <<request, by, stream, files, status>>
     \/ End("badQuery")

\* AsyncJob asks for no content type.
RightType == by = "wrapper" \/ request.declared

\* PostScanPdf and AsyncJob parse into a file, RequestMarks into memory.
IntoFile == by = "wrapper" \/ request.kind = "scan"

CheckType == at = "check" /\ ~RightType /\ End("wrongType")

Decode ==
  /\ at = "check" /\ RightType
  /\ LET s == Decoded(stream) IN
       \/ s.fault \in {"malformed", "unsupported"} /\ End(s.fault)
       \/ /\ s.fault \notin {"malformed", "unsupported"}
          /\ stream' = s /\ at' = IF IntoFile THEN "create" ELSE "read"
          /\ UNCHANGED <<request, by, files, status>>

CreateTemp ==
  /\ at = "create"
  /\ \/ /\ files' = files \cup {Parsed} /\ at' = "copy"
        /\ UNCHANGED <<request, by, stream, status>>
     \/ End("serverError")

\* Bug: the limit is on the coded body.
OverFileLimitCoded == request.announced = <<>> /\ Bytes > FileLimit

\* MaxBytesReader is around the decoded body.
OverFileLimit == Bytes > FileLimit

\* io.Copy: the body ends early, the disk is full, a coding is wrong, or the
\* limit is passed.  The file is neither closed nor removed.
CopyBody ==
  /\ at = "copy"
  /\ \/ End("serverError")
     \/ OverFileLimit /\ stream.fault = "none" /\ End("tooLarge")
     \/ /\ ~OverFileLimit /\ stream.fault = "none"
        /\ at' = "sniff" /\ UNCHANGED <<request, by, stream, files, status>>

RightContent == by = "wrapper" \/ Genuine

\* The same holds when the first bytes are not of the type declared.
SniffWrong == at = "sniff" /\ ~RightContent /\ End("wrongType")

\* AsyncJob answers with the id and runs the handler on the file, with the
\* headers of the request.
Accept ==
  /\ at = "sniff" /\ by = "wrapper"
  /\ status' = "accepted" /\ by' = "handler" /\ at' = FirstStep(request)
  /\ UNCHANGED <<request, stream, files>>

\* The handler has its file; what it was copied from is closed.
HandOver ==
  /\ at = "sniff" /\ by = "handler" /\ Genuine
  /\ at' = "template" /\ files' = BodyClosed
  /\ UNCHANGED <<request, by, stream, status>>

ReadLimit == IF request.kind \in Posts THEN TemplateLimit ELSE JsonLimit

\* ParseJsonBody: the limit on what was read comes first; an error of io.Copy
\* shows as JSON that does not parse.
ReadJson ==
  /\ at = "read"
  /\ \/ Bytes > ReadLimit /\ End("tooLarge")
     \/ (Bytes <= ReadLimit \/ stream.fault # "none") /\ End("badJSON")
     \/ /\ Bytes <= ReadLimit /\ Genuine /\ stream.fault = "none"
        /\ at' = IF request.kind \in Posts THEN "validate" ELSE "marking"
        /\ UNCHANGED <<request, by, stream, files, status>>

\* Where a request begins.
FirstBy(r)     == IF r.async THEN "wrapper" ELSE "handler"
FirstAt(r)     == IF r.async THEN "check" ELSE FirstStep(r)
FirstStream(r) == [layers |-> r.layers, fault |-> "none"]

BodyInit ==
  /\ request \in Requests
  /\ by = FirstBy(request) /\ at = FirstAt(request) /\ stream = FirstStream(request)
  /\ files = {} /\ status = "none"

BodyNext ==
  \/ ParseQuery \/ CheckType \/ Decode \/ CreateTemp \/ CopyBody \/ SniffWrong
  \/ Accept \/ HandOver \/ ReadJson
=============================================================================
