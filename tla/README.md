# A TLA+ model of Aperture OMR

Aperture OMR is a Go server that takes PDFs of bubble-sheet exams, renders and
preprocesses them, stores the scans and marks them on request.  The image work
is OpenCV's and MuPDF's; what is the program's own, and hard to test, is the
coordination around it: jobs that outlive their requests, a pipeline of
goroutines and channels, and scans spread over two SQLite tables and two
directories.  This project models that coordination, and the program's own
algorithms around the image operations: how uploads are decoded and split, how
templates are stored and come back, how pages are matched to the template and
searched for their anchors, how marks are read, and how the history of resource
use is kept.  It checks the models with TLC and proves the properties of the job
registrar, the pipeline, the scan storage, the ring buffer and the resource
history, the uploads and templates, the anchor search, the page matching and the
marking with TLAPS.

`PROJECT.json` lists the components, the runs, the lines each definition stands
for, the hazards the properties are for, and the findings.

## The system

| Component | State | Operations | Hard behaviour |
|---|---|---|---|
| Job registrar (`server/mw/job.go`) | the maps `jobs` and `jobResults` under one RWMutex, the eviction ticker | Register, SetProgress, WriteNotes, SetFinished, Get, GetResult, the list, eviction, Close | handlers report on jobs that were evicted; two lookups under two locks; a read lock held while a response is sent; panics that skip the end of a job |
| Job wrappers and handlers (`AsyncJob`, `SyncJob`, `PostScanPdf`, `RequestMarks`) | one goroutine per request | parse, 202, run, finish; early returns, 422, panics | the goroutine goes on after the response |
| Process life (`server/start.go`) | the database handle, the registrar | `setup`, `Start` | deferred calls run before the server listens |
| Scan pipeline (`pdf.go`, `stream.go`, `scan.go`) | two channels, two atomic counters, a renderer per sub-document, four workers, the handler, a drain, native matrices | render, receive the first exam, spawn, preprocess, save, answer | who closes which channel and which matrix, a full buffer, sends on a closed channel, goroutines left behind |
| Scan storage (`resources/local.go`, `fstore`, `database`) | tables `scans`, `scan_pages`; directories of matrices and pictures | SaveScan, LoadScan, DeleteScan, DeleteAllScansFromBefore | no transaction spans rows and files; failures ignored; crashes |
| Templates (`handler/template.go`, `dto/incoming.go`, `omr/codecs.go`, `resources/local.go`) | two tables, the anchors in memory | POST, DELETE, load | anchors that cannot be decoded, matrices left open, a template deleted before it is used |
| PDF partitioning (`pdf.go`) | temporary files | blockPartition, pageSpan | even split, boundaries, failures midway, no pages at all |
| Ring buffer, resource history, logs (`sys/`, `handler/system.go`) | rings under RWMutexes, a poller, the peak of memory use under none | Add, Get, Flush, poll, show | wrap-around, a data race, limits too big for an `int` |
| Anchor search (`omr/anchor.go`) | the interval, the best candidate, the angle to begin with | FindAnchors, bisectionSearch | whether the search can miss the right angle, whether it ends |
| Page matching (`omr/preprocess.go`) | the slice of pages, the anchors found | Preprocess | swaps and half turns while slices run side by side, greedy choice |
| Marking (`omr/mark.go`, `handler/mark.go`) | matrices in memory, the map of answers | Mark, RequestMarks | counting a bubble changes the page, answers keyed by question, leaked matrices |
| Requests and middleware (`server/dto`, `server/mw`) | temporary upload files | parse, decode, authorise, recover | size limits, encodings, leaked files |

The handlers call the registrar through `JobResources` while they run, hand the
uploaded PDF, read with a stored template, to the pipeline, and call `SaveScan`
for each exam as it leaves it. `POST /mark` calls `LoadScan`, which may call
`DeleteScan`. Clients poll `GET /job` and `GET /job/result`; administrators
purge scans. `inUse` admits one PDF upload at a time; nothing else is
serialised beyond the registrar's lock and the single database connection.

What makes each part correct: the registrar's two maps agree, answers to a
client only move on and every job ends; no exam is lost or counted twice and
everything the pipeline started comes to an end; a saved scan stays whole until
somebody asks for its deletion, which then leaves nothing; only a plain body of
the right type and size is processed, every page of it once, and its temporary
files and the matrices of its template are released; a template comes back as it
was posted; a history shows the newest samples in order, and the peak beside
them covers them; the anchors of a page in reach are found, its page is put in
its place, and what is reported of a bubble is what the stored scan shows.

## The modules

| Module | Models | Role |
|---|---|---|
| `JobLifecycle` | what a registrar promises | abstract specification: begin once, resolve once, be forgotten |
| `JobRegistrar` | `mw/job.go`, the calls of the handlers, `recovery.go` | implements `JobLifecycle` |
| `JobRegistrarProofs` | | TLAPS proofs about `JobRegistrar` |
| `Server` | `start.go` | composes start-up with `JobRegistrar` |
| `ScanPipeline` | `pdf.go`, `stream.go`, `handler/scan.go` | one upload from pages to response |
| `ScanPipelineProofs` | | TLAPS proofs about `ScanPipeline` |
| `ScanStore` | `resources/local.go`, `fstore/local.go`, the scan statements | the storage under failures and crashes |
| `ScanStoreProofs` | | TLAPS proofs about `ScanStore` |
| `RequestBody` | `dto/parsers.go`, the hand-over of a body in `AsyncJob` | from the network to the handler |
| `BlockPartition` | the arithmetic of `pdf.go` | operators, no state |
| `Templates` | posting, storing, deleting and loading templates, `RequestMarks` around them | extends `RequestBody` |
| `PdfUpload` | `blockPartitionPdf`, the renderers' files, `PostScanPdf` | composes `Templates` (and so `RequestBody`) with `BlockPartition` |
| `PdfUploadProofs` | | TLAPS proofs about `PdfUpload` |
| `AnchorSearch` | `omr/anchor.go` | all searches on one page |
| `AnchorSearchProofs` | | TLAPS proofs about `AnchorSearch` |
| `PageMatching` | `omr/preprocess.go` | `AnchorSearch`'s verdicts to a scan in order |
| `PageMatchingProofs` | | TLAPS proofs about `PageMatching` |
| `Marking` | `omr/mark.go`, `handler/mark.go`, `dto/outgoing.go` | one request for marks |
| `MarkingProofs` | | TLAPS proofs about `Marking` |
| `RecentEntries` | what a bounded history promises | abstract specification: the newest entries, in order |
| `RingBuffer` | `sys/ring.go` | implements `RecentEntries` |
| `History` | `sys/resources.go`, `handler/system.go` | uses `RingBuffer`: a poller, the peak and a reader |
| `HistoryProofs` | | TLAPS proofs about `RingBuffer` and `History` |
| `MC...` | | instances for TLC |

Definitions whose comment begins with `Bug:` are deliberate mistakes: each takes
the place of the definition below it to show that a property notices.

### JobRegistrar

Each registrar method holds `j.mu` from its first to its last statement, so it
is one step, written as an update of `jobs` and `jobResults`.  A request `r`
takes one step per call: `Start` (Register), `ParseBody`, then the handler
(`HandlerRefuse`, `HandlerBegin`, `HandlerItem`, `HandlerFull`, `HandlerNote`,
`HandlerRespond`, or `HandlerPanic` at any time) and `Finish` (SetFinished).  A
job carries its age instead of a date; ages stop one past `MaxAge`, where they
no longer matter.  `GetResult` and `GetResultMissed` are the two lookups of
`ResultHandler`, which anything may come between.  `used`, `query` and `answer`
are what the clients hold.

`ListHandler` is the one method that does something slow under the lock: it
keeps `j.mu` to read while it writes its response.  `listing` says that it
does, `BeginList` and `EndList` are its two ends, and every step that needs the
lock to write has `Writable` in its guard; readers go on.  A writer that waits
is a step that is not enabled.

Assumed: `uuid.New` returns no id of a job that was forgotten (an id still
registered may come up: that is `ErrJobIdConflict`).

### Server

`setup` opens the database, makes the registrar and returns the server; its two
deferred `Close` calls come next, and only then does `Start` listen.  The
module runs `JobRegistrar`'s actions once the server listens.

### ScanPipeline

`sub` holds the renderers, `worker` the workers, `main` the handler, `draining`
the goroutine of `CloseAllInStream`.  The channel of exams has no buffer, so
`Handover` is a send and a receive in one step, an action of whoever receives.
`out` has a slot per worker.  Both counters are modelled as they are: the
renderers' is incremented by each goroutine when it first runs, the workers'
before each is started.  A send on, or a close of, a closed channel is a panic:
recovered on the handler's goroutine (`panicked`), the end of the process on
any other (`Crash`).  An exam is its sub-document and its position; a result
also says whether it carries pages or an error.

`open` are the matrices in memory, by who made them: the template as loaded
(`Loaded`, closed by the handler's deferred call, in `Return`) and as scaled to
the first exam (`Scaled`, closed by the worker that closes the channel, in
`WorkerTidy`), the rendered pages of an exam (`Input`, closed in `Process`) and
the preprocessed ones (`Output`), which nobody closes.  Nor does anybody close
the matrix that the search for an anchor makes for each candidate
(`Candidates`), the page whose warp fails (`Warped`) and the anchor whose
scaling fails (`Unscaled`; those scaled before it are closed in `Refuse`).

Assumed: the upload has at least one sub-document (the split gives one unless
the PDF is empty), and the image operations return or give an error: they do
not panic and do not run for ever.

### ScanStore

`proc` is what each goroutine is doing: `Saver` holds `inUse` and runs
`SaveScan`; `Tasks` run `LoadScan`, `DeleteScan` and the purge.  A statement or
a file operation is a step, and every `Fault` alternative is one that fails:
INSERT, SELECT, DELETE, creating a file, encoding into it, opening it again.
`torn` are the files whose encoding failed, with an error or without one:
`EncodeM4t` closes its compressor in a `defer` and loses the error of the last
block (the event `"cut"`).  `DeleteScan`'s steps are shared with
`cleanupFailure`, whose tail is the same sequence of calls.  `past` records what
happened to a scan (its id was returned, its deletion was asked for, a clean
deletion ended, ...): the properties refer to it and no guard depends on it,
except that clients know only ids that were returned.

Assumed: removing an existing file succeeds.

### RingBuffer and History

`elements`, `idx` and `length` are the fields of the struct; the slice starts
at 0 as in Go.  `Add` and `Flush` hold the lock and `Get` the read lock
throughout, so each is a step.  `Slot` is the index arithmetic of `Get`, and
`got` is what the last reader received.  `RecentEntries` knows no slice and no
index: its state is the sequence of entries kept, and the refinement mapping
takes it to be what `Get` would return if asked for everything.

`History` puts a `RingBuffer` to its use in `sys/resources.go`, with the memory
samples as its items.  `TakeFirstSamples` is `init`; `AddCpu`, `AddMem`,
`AddDisk` and `RaisePeak` are a round of the goroutine that polls.  A request
(`Ask` to `Done`) is one of the three that show histories, reading one buffer
after the other.  `AsInt` is the conversion of its unsigned limit, which turns
the upper half of the numbers negative.  The peak is written by the poller and
read by the handler without a lock, a data race: `ReadPeak` gets any value that
was ever `written` and is not older than what a lock the reader took has made
visible.  `settled` holds the peak at each buffer's last unlock by the poller,
`floor` what the reader is sure of.

Assumed: a word is read and written in one piece, as on the platforms the
program is built for.

### RequestBody, Templates, BlockPartition and PdfUpload

A body is the list of codings really around it; `request` also has what its
header announces, and `decode` is a fold over the announced codings
(`Decoded`). The handler of a background job parses what the wrapper has
parsed: `by` tells which of the two runs, `stream` what is left of the body.
`files` are the temporary files on disk. `Templates` adds the handlers that
post and delete templates: a template is a sequence of pages of items, an item
an anchor or a question. `posted` is what the body held, `template` what the
handler has in hands, `row` what is stored, `native` the anchors whose matrices
are open. `Encoded` and `Restored` are the codecs: they separate the bytes of
the images from the rest and join them again. Ids are fresh and rows never
change, so one row is enough; the upload or marking request that follows uses
it (`NextRequest`), and anybody may delete it at any time. `BlockPartition`
deals blocks out to renderers as `blockPartition` does, and `PagesRendered` is
what a renderer reads when it counts the pages of its own sub-document.
`PdfUpload` puts them together; a block has as many pages as the template:
`OpenSubdoc` is a turn of the loop of `blockPartitionPdf`, with `GiveUp` for
its failures; `RendererEnd` comes before or after the answer.

Assumed: a coding shrinks what it codes, a body that is cut off is cut off
after its gzip headers, an image is good, not in base64, or in
base64 and no image (which OpenCV may report as an empty matrix), pdfcpu may
report any number of pages, and MuPDF refuses an empty file. That
`ScanPipeline` begins with at least one sub-document is what the exception in
`UploadEnds` is about.

### AnchorSearch

A page has a `skew`, and each anchor a `falloff`: how well it matches by the
distance of a candidate angle from the skew.  `EvaluateFirst`, `EvaluateLo` and
`EvaluateHi` are the calls of the objective function, `Narrow` the end of a
round; `Found` and `Refuse` are what `FindAnchors` does with a result, and
`initial` is its copy of `conf.InitialAngle`, which a good match replaces.

Angles are floats in the code.  Here they are whole numbers of a unit as small
as one likes, and what is computed from them is rounded: each end of an interval
(`Rounded`, `Around`) is any number within half a `spacing`, the distance of two
floats, of its exact value.  Nothing bounds the angle a template makes the
search begin at, so the spacing may be a tiny part of `Epsilon` or more than
that; it is chosen in `Init`.  `hi - lo` is exact: of two large angles close
together it is in the code too, and of small ones it is off by less than the
spacing of numbers as small as the breadth.

Assumed: matches get strictly worse with the distance (`FalloffsAssumption`),
one good enough to set the next angle is near the skew
(`MaxQualityAssumption`), and halving the first breadth once a round, less one,
brings it below a unit (`IterationsAssumption`: the code has 2^20 rounds, and no
float is more than 2^2100 times as large as another).

### PageMatching

`pages` is the slice, each entry a sheet and the side it lies on; `matches`
says on which of them `FindAnchors` finds a page's anchors.  `Match` swaps and
records, `Flip` and `FlipBack` are the half turns, `Warp` reads the two slices
that must still agree.

### Marking

A binarised matrix is the set of its black pixels, a bubble a square of the
page, of which the mask keeps a disc.  `FillRatio` counts white pixels under
the mask and, as `BitwiseAnd` does, writes the masked square back into the
page.  `Adapt` builds the answer, a map by question.  `open` are the matrices
whose native memory is held.  `LoadScan` may fail at any page, as when the scan
is deleted meanwhile.

Assumed: `Binarize` gives the same pixels each time, bubbles lie on the page.

## What is checked

| Run | Instance | Result |
|---|---|---|
| `job_registrar` | 2 requests, 1 client, 2 ids, 2 items, age 1, symmetric | 7 properties hold (1.06 million states) |
| `job_registrar_live` | 2 requests, no client, 2 ids, 1 item, age 1, under `FairSpec` | every job is forgotten, accepted jobs resolve (179 972 states) |
| `scan_pipeline` | 2 sub-documents of 2 exams, 2 workers, under `FairSpec` | 7 properties hold (369 922 states) |
| `scan_store` | 2 scans of 2 pages, 2 tasks, 1 failure or crash, symmetric | 4 properties hold (2.3 million states) |
| `history` | capacity 3, 3 memory samples, limits to 7, of which 4 to 7 are too big for an `int` | 4 properties hold, `RecentEntries` is implemented (3.3 million states) |
| `pdf_upload` | templates of up to 3 pages, PDFs of up to 9, 2 codings, 3 renderers, under `FairSpec` | 7 properties hold (500 760 states) |
| `anchor_search` | 2 anchors, breadth 32 narrowed to 4, spacing 1 or 2, skews to 36 on either side, 4 falloffs | 3 properties hold (3.2 million states) |
| `page_matching` | 3 pages, up to 5 matches of page, sheet and side | 4 properties hold (220 730 states) |
| `marking` | 2 pages of 3 by 3 pixels, 3 bubbles of 2 by 2, a black pixel, 2 scan ids, symmetric | 2 properties hold (2.6 million states) |
| `server` | 1 request, 1 client | the database is closed before the server listens |
| `pipeline_crash` | as `scan_pipeline` | a late renderer panics on a closed channel |
| `coded_job` | as `pdf_upload` | a background job sent in gzip is decoded twice and refused |

The last three end in a counterexample: each property states what a comment or
the API description says, and the run shows what the code does instead.

What the properties say:

* Registrar: the maps agree (`ResultsMatchJobs`), a result is its own job's
  (`ResultIsOwn`), a handler that is through has resolved its job
  (`AnsweredIsResolved`), progress and answers only move on
  (`ProgressNeverRegresses`, `AnswersNeverRegress`), the life cycle is
  `JobLifecycle`'s; jobs are forgotten (`JobsAreForgotten`) and nobody waits for
  ever (`AcceptedIsResolved`), unless a list is never read to its end.
* Pipeline: no exam is lost or counted twice (`ExamsConserved`), the channel of
  results closes after the last send (`ClosedAfterLastSend`), the answer has
  every exam of the renderers that are through (`AnswerIsComplete`), matrices
  are open while they are used (`UsedWhileOpen`), the rendered pages and both
  templates are closed in the end (`MatricesEnd`; results and what is forgotten
  are not), the handler and the renderers come to an end
  (`HandlerReturns`, `RenderersEnd`).
* Store: `SavedIsIntact`, `RemovedIsGone`, `LoadedIsWhole`,
  `FailedSaveLeavesOneFile`, each with the events that make an exception.
* History: readers get the newest entries in order (`KeepsRecentEntries`), the
  peak covers the samples beside it but for the newest (`PeakIsKept`), and only a
  limit that `int` made negative finds no sample (`OnlyHugeLimitsPanic`).
* Uploads and templates: templates come back as posted (`TemplateComesBack`) and
  no anchor of an upload stays open (`OnlyPostedAnchorsStay`); only plain bodies
  within their limits are processed (`OnlyPlainIsProcessed`, `LimitIsOnDecoded`);
  every page is rendered once and by one renderer (`EveryPageOnce`), no temporary
  file stays but one
  (`OnlyRefusedBodyStays`), and the upload ends (`UploadEnds`).
* Anchors, pages and marks: what is found is close to the skew (`FoundIsClose`),
  a page in reach is refused only for a poor match (`NoFalseRefusal`), and the
  iterations are used up only where floats are half an `Epsilon` apart
  (`EndsInTime`);
  `LocationsAreThePages`, `OthersLieAsScanned`, `OrderIsKept`,
  `SeparableIsFound`; `AnswersAreThePages`, `MatricesAreClosed`.

Why the bounds are enough. *Registrar*: the code treats ids independently, so
two requests on two ids, or both on one, show every interaction; two items tell
a partial progress from a full one; one tick of age tells fresh from expired.
*Pipeline*: with two sub-documents one renderer can close the channel before
the other starts; four exams through a buffer of two can fill it before the
first result is sent; two workers can end while the second is being started.
*Store*: two pages make
a scan that can be half saved or half deleted, two scans tell a purge's victims
from the rest, two tasks delete the same scan against each other. One fault,
reported or lost, in one call meets every step of the other two. *History*: a
capacity of three has a first, a last and a middle slot; three samples can
rise, fall and stay, and the oldest is overwritten before, between and after
the reads of a request; limits ask for less than is kept, for as much, for
more, and for a negative number. *Upload*: two codings can be in the wrong
order, sizes lie below, at and above each of the three limits; a template has
fewer anchors on a page than the three it needs or as many, and the one that
cannot be decoded is anywhere or nowhere; nine pages divide evenly, unevenly,
and into fewer exams than the three renderers, or not at all. *Anchors*: the
breadth of 32 units is halved until it is below an `Epsilon` of 4, skews go
beyond the reach of 32 units around the tilted first angle, the floats are one
unit apart, where every search must end, or two, where some use up the seven
rounds, falloffs reach above the early stop and below the refusal,
and the second anchor begins where the first was found or not. *Pages*: with
three pages a sheet swapped away is swapped again, with five matches every
sheet may match on both sides or two pages. *Marking*: two bubbles of one
question beside another question's, squares that overlap in a corner or in the
disc, and a scan marked again after its first matrices were blackened.

Fairness. `JobRegistrar`: a goroutine that runs a handler goes on, the
goroutine that ends a job does, and the clock and the eviction tick. For what
asks for the lock to write this is strong fairness: lists may come and go, but
a `Lock` of Go's RWMutex that waits keeps new readers out, so it gets its turn
when the present ones are through. Whether they are is up to the client, who
may never read its list; `Stalled` is that case, and the exception of both
properties. There is no fairness for `ParseBody` (the server sets no read
timeout: a client may stop sending), for clients, or for `Close`. A handler is
assumed to reach its end or panic; that the real one does is `HandlerReturns`
of the pipeline. `ScanPipeline`: every goroutine that can take a step takes
one, which the Go scheduler gives, and a channel with a sender and a receiver
hands over. `HandlerReturns` and `RenderersEnd` make one exception and name it:
`Stuck`, where the workers filled the buffer before the handler sent the result
it held back. It is a deadlock the code has; it needs a scheduler that keeps
the handler waiting for as long as the workers take for a bufferful of exams.

`PdfUpload`: the handler and the renderers go on once the body has been read,
and of the body itself nothing is said; that the handler answers (`ScanEnd`) is
what `HandlerReturns` shows.  The other modules are checked for safety only.

`CHECK_DEADLOCK FALSE` is in every configuration but that of `history` because
each of these systems may rightly stop: all requests answered, the upload over,
the page matched, all bounds used up.

### What the comments say otherwise

Met while reading and modelling; the first three have a run.

* `setup`'s deferred calls close the database before the server listens
  (`server`); a late renderer ends the process (`pipeline_crash`); a coded body
  of a background job is refused (`coded_job`).
* `omr/stream.go:129`: when calibration fails the handler returns and releases
  `inUse` while renderers still run, though "We only permit one PDF operation at
  a time" (`handler/scan.go:27`).
* `resources/local.go:229`: a `Set` that fails while encoding leaves its file,
  though "we won't leave behind any mess in the persistent storage" (203-206).
  `FailedSaveLeavesOneFile` says how much.
* `omr/codecs.go:286`: the error of the deferred `Close`, which writes the last
  block of a matrix, is lost, and the scan is reported as saved;
  `SavedIsIntact` names the exception.
* `resources/local.go:282`: whatever fails while a page is opened or read is
  taken for corruption, and the scan is deleted; an intact one too, when too
  many files are open.  `SavedIsIntact` names this exception as well.
* `resources/local.go:292`: a purge that overtakes a `SaveScan` makes a later
  `LoadScan` return some of the pages without an error; `LoadedIsWhole` names
  the exception.
* `mw/job.go:208`: a synchronous job never gets the success status that the
  comment at 544 speaks of; its result is nil.  And progress reaches 1.0 before
  the job has finished, which `api/openapi.yaml:1872` says it indicates.
* `dto/outgoing.go:97`: with one question id on two pages the later page's
  answers replace the earlier one's.  The API asks for ids that differ on the
  whole template (`openapi.yaml:1528`), the validation for a page only, and
  `omr/mark.go:120` says that the procedure does not care.
* `omr/anchor.go:287`: the search is not kept to the values between its bounds,
  and its first candidate is half their distance.  `FoundIsClose` shows that it
  does no harm within reach.
* `dto/incoming.go:269`: the upper limit of `searchAreaPadding` is checked on
  `angleSearchBreadth`.
* `dto/incoming.go:271`: a `maxQuality` below `minAnchorConfidence` is accepted;
  the search then stops early with a match that is refused.  `NoFalseRefusal`
  has the contrary as its precondition.
* `handler/template.go` never closes the anchors of a template it has stored,
  nor `PreprocessTemplate.Adapt` those it has decoded when a later one fails;
  `OnlyPostedAnchorsStay` says that no other handler leaves any.  And nobody
  closes the pages of a result (`handler/scan.go:115`), the matrix `findAnchor`
  makes for every candidate (`omr/anchor.go:160`), the page whose warp fails
  (`omr/preprocess.go:119`) and the anchor whose scaling fails (line 288):
  `MatricesEnd` says that the rest is closed.
* `dto/incoming.go:265`: `initialAngle` is not validated.  Around an angle of
  some 10^13 radians half an `epsilon` is lost in the rounding, the breadth need
  not fall below `epsilon`, and the search ends after 2^20 rounds with
  `ErrMaxIterations`; `EndsInTime` names the exception.
* `handler/system.go:94`: a limit above 2^63-1 turns negative and the handler
  indexes an empty history; `OnlyHugeLimitsPanic` says that nothing else does.
* `omr/preprocess.go:64`: where sheets match several pages the greedy choice may
  refuse a scan that has an assignment; `SeparableIsFound` is about the rest.

Seen on the way, in code the models leave out: `EncodeBase64` leaves out the
padding that `DecodeBase64` asks for; `sys.Docker()` answers the wrong way round
(`sys/resources.go:98`) and `InUseOther` may fall below zero, unsigned
(`sys/resources.go:204`); `Count` of a file store gives 0 when a file vanishes
while it counts (`fstore/local.go:98`); the check of `omr/visual.go:96`, which
nothing calls, admits the index one past the last page.

## What is proved

`JobRegistrarProofs` proves for any number of requests, clients, ids and items,
from `SetsAssumption` and `BoundsAssumption` only:

* `TypeCorrect`, `MapsAgree`, `ResultsOwned`, `AnsweredResolved`: the four
  invariants of the run `job_registrar`;
* `ProgressMonotone`, `AnswersMoveOn`: its two action properties;
* `LifecycleImplemented`: `JobRegistrar` implements `JobLifecycle` under the
  mapping `Phase`.

The argument is one inductive invariant, `IInv`.  The invariants are not
inductive by themselves.  That a result belongs to its job needs `Owners`: no
two requests hold one id, a request has an id exactly from its `Start` on, and
every id ever used belongs to a request; this is where the freshness of ids
comes in.  That progress never goes back needs `Reported`: a job's progress is
at most what its handler has done.  `IInv` is proved action by action
(`Invariant`).  The action properties use it as a fact about the state a step
starts from; `AnswersMoveOn` adds `ClientInv`, which relates what a client was
told to the phase of the job, and the fact that every step moves the phase on
(`EveryStepMovesOn`).  The refinement proof maps `Start` to `Begin`, `Finish`
to `Resolve`, `Evict` to `Forget` and every other step to a stutter.

`ScanPipelineProofs` proves `PipelineTypeCorrect`, `ExamsAreConserved`,
`ClosesAfterLastSend`, `AnswersAreComplete` and `MatricesAreOpenInUse` from the
four assumptions of `ScanPipeline`, for any number of sub-documents, exams and
workers: all its safety properties.  `Counted` says that each counter is the
number of goroutines counted in and not yet out.  So the worker that finds itself
the last is alone in its loop (`LastIsAlone`), and from then on nobody holds an
exam (`Closed`): a worker that starts later finds the exams' channel closed.
`Conserved` says where the exams are, each place without repetition (`Distinct`),
the places disjoint (`Apart`) and together all that was handed over (`Whole`);
every step moves at most one exam from one place to another
(`ConservedWhenReceived`, `ApartWhenMoved`).  `Memory` needs both: a worker that
closes its pages closes nobody else's because exams are held once, and the scaled
template is closed only when nobody works.

`ScanStoreProofs` proves all of `ScanStore`'s properties, from its three
assumptions, for any number of pages, scans, goroutines and faults:
`StoreTypeCorrect`, `SavedStaysIntact`, `RemovedLeavesNothing`, `LoadsAreWhole`
and `FailedSavesAreUndone`.  The argument has four parts.  Nobody removes a scan
that is not theirs to remove: a task does so only after one of the events the
properties name as exceptions (`AllowedTo`), the saver only the scan it is
making (`SaverRole`), and scans to come have nothing on disk (`Begun`).  How far
a save has got says which rows and files are there and that there are no others
(`RowsMade`, `FilesMade`, `NoneElse`), so with its last row the scan is whole
(`Intact`) and a failed one leaves what is torn (`Undoing`).  The rows of a saved
scan go together (`Together`) and name every file left (`Found`), because they
are deleted only by a goroutine that has removed the files on its list; so
whoever reads them has all the files on its list (`Going`) and a load all the
pages (`Loads`), however many delete at once.  A purge that overtakes the save
breaks this, which is why the exception is needed: its goroutine is at work
before the scan is known.  Each action has a lemma that says what it does to the
disk and to one goroutine (`SetMatDoes` and so on), and each part of the
invariant is carried over for one scan or one goroutine at a time.

`HistoryProofs` first proves of `RingBuffer`, from `CapacityAssumption` and
`MaxAskedAssumption` alone, `RingTypeCorrect` and `RingKeepsRecentEntries`: the ring implements
`RecentEntries` for every capacity.  The invariant adds `Filled` (the slots that
count hold items) to the type.  The heart of it is `AddShifts`: an addition
writes the newest slot and moves every other entry back by one place, across
the end of the slice too, which makes it an `Append` while the ring fills
(`Grown`) and an `Append` to the `Tail` once it is full (`Moved`).

Of `History` it proves, from the same two assumptions and `ItemsAssumption`: `HistoryIsRing` (the poller and the readers use the buffer as
`RingBuffer` allows, so all that was shown of it holds here:
`HistoryKeepsRecentEntries`), `PeakCoversHistory` and `OthersAreAnswered`.  That
the peak covers what is shown beside it, in spite of the race, takes
`Covered`: every sample but the newest is at most what the peak was when the
newest was added (`settled["mem"]`), because the round before had raised it; and
a reader that has seen the samples took that buffer's lock, so its `floor`
is no lower.  `Started` is why no history is empty: `init` samples before the
server listens.

`PdfUploadProofs` proves all of `PdfUpload`'s safety properties
(`UploadTypeCorrect`, `LimitsAreKept`, `TemplatesComeBack`,
`UploadsCloseAnchors`, `OnlyPlainIsUsed`, `EveryPageIsRendered` and
`OnlyRefusedBodiesStay`), and `WellCodedIsNotRefused`, for all limits, headers of any length, templates and
PDFs of any number of pages and any number of cores, from the assumptions of
`RequestBody`, `Templates`, `BlockPartition` and `PdfUpload`. It has four parts.

* The templates. `RoundTrip` shows that `Restored` undoes `Encoded`; the
  invariant (`UInv`) says which request reaches which place (`Places`), that the
  reader has counted its bytes when it stops (`Limits`), that the row holds what
  was posted from the handler's answer on, whoever deletes it (`Stored`), and
  where matrices are open (`Open`).
* The codings. `HeaderIsRead` shows that the fold over a header of any length is
  defined, and `HeaderIsUndone` that from any place of the header on it undoes
  what that part says; so what was around a body is what `Decoded` leaves and the
  codings of the header, in its order, or there is a fault (`DecodedIsUndone`).
  The invariant `Decoding` says that what the stream still has around it and what
  was undone before are together what the client sent; a body that the wrapper
  has decoded is therefore plain for the handler only if the client had coded it
  as its header says twice over.  Conversely such a body is never refused for its
  codings (`WellCodedIsNotRefused`, from `WellCodedIsUndone`) if its gzip headers
  arrive whole, which the model takes for granted: what the run
  `coded_job` shows happens only where two parsers undo what was put
  around the body once.
* The pages. `blockPartition` deals the blocks to the regions in turns:
  `BlocksAreDealtEvenly` gives the number each region has after every deal,
  `SharesAddUp` and `EveryBlockIsDealt` that none is lost, and
  `BlocksAreDealtInOrder` that regions begin where the one before ends. So exams
  do not meet (`ExamsAreApart`) and cover all pages (`ExamsCoverThePages`).
  `Rendering` ties the renderers to the subsets; it needs `Shown`, that no
  template without a page gets here, so nothing is divided by zero.
* The files. `Kept` says which file is on disk in which place, given what
  `Decoding` and `Rendering` say of the same place; `FilesDiffer` that the
  parsers and the sub-documents never remove each other's.

What decode's fold and the recursive functions of `BlockPartition` compute is
proved for every length, by descent instead of an induction theorem: numbers
that are not all as they should be have a first that is not (`LeastNumber`), and
the step from the number before it leads to a contradiction.

`AnchorSearchProofs` proves `SearchTypeCorrect`, `OrientationsAreClose`,
`NoPageIsRefusedWrongly` and `SearchesEndInTime` from the module's four
assumptions, for any number of anchors, breadth, epsilon, falloff and rounding.
The argument is `Bracketed`: while a page is in reach, its skew is never farther
from the interval than half of it, and what was rounded so far (`Slack`); as
quality falls with the distance, the best of the candidates is the nearest one
(`BetterIsNearer`), and an interval of half the breadth around it keeps the
bracket (`HalfBrackets`).  `BestSoFar` says that the best is at least as good as
what was evaluated, `Closing` that the end of a search leaves less than an
epsilon and the slack.  `InTime` bounds the breadth: what it exceeds two spacings
by is halved in each round whatever is rounded (`HalvedEachRound`), so
multiplied by as many powers of two as there were rounds it stays below the
first breadth.  Where an epsilon is more than two spacings, a search that goes
on has a breadth that exceeds them by a unit, and `IterationsAssumption` says
that there are rounds enough for that to be impossible in the last one.

`PageMatchingProofs` proves all five invariants of `PageMatching` from
`PagesAssumption`. The invariant adds to them `PassedOver` (a sheet between `i`
and `j` does not match page `i` on either side) and `StaysInOrder` (where every
page matches as scanned, no page was ever skipped). `SeparablePagesAreFound`
needs both that all sheets are still there (`AllSheets`) and that the matched
ones belong to other pages.

`MarkingProofs` proves `MarksAreThePages`, `MarkingTypeCorrect` and
`RequestsCloseTheirMatrices` from the two assumptions of
`Marking`, for any template, page size, mask and number of scan ids. The
invariant is that a page in memory is the stored ink and the corners of the
squares counted so far (`PagesAsMarked`), so that every undisturbed count is
true (`Counts`). `Opened` says that the open matrices of the scan being marked
are its pages and its mask, and those of the scans before are what the property
allows; an answer adds an outcome and leaves those before it as they are
(`AnswerKeepsOpened`). `CirclesAreSmall` bounds a count by the square of the
bubble; that every scan id has one outcome needs a list that is not empty, which
`Validate` asks for and `SizesAssumption` says.

Only checked: the liveness properties `JobsAreForgotten`, `AcceptedIsResolved`,
`HandlerReturns`, `RenderersEnd`, `MatricesEnd` and `UploadEnds` (fairness is out
of the prover's reach, as is `ENABLED`), and what the runs that expect a
violation show.  Every other property of a run is a theorem.  No module that is
proved about declares a recursive operator.

## What is not modelled, and what comes next

* The image operations and image codecs: pure functions of OpenCV's data.
* `ForEach`, `MarkStream`, the drawings of `omr/visual.go`, `ParseBodyBytes`,
  `RingBuffer.Len`, `MarkTemplate.Mask`, `EncodeBase64` and the result tables
  have no caller in the server, so nothing says in which states they run.
* Counts and single-row reads (`CountScans`, `GetScanPage`, `OpenScanPicture`,
  `LoadScanImage`) change nothing and read one thing.
* The middleware that inspects a single request (keys, CORS, logger), the
  command line, the certificates and the web pages have no state that several
  steps could get wrong.

What is left to do: a composition of `ScanPipeline` with `ScanStore` and
`JobRegistrar`, one upload from request to result.
