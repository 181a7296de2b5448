----------------------------- MODULE ScanStore -----------------------------
(***************************************************************************)
(* The scans of the local ServerResources: SaveScan, LoadScan, DeleteScan  *)
(* and DeleteAllScansFromBefore of internal/server/resources/local.go,     *)
(* over two SQLite tables and two directories of files.                    *)
(*                                                                         *)
(* Nothing ties the tables to the directories and no call holds a lock or  *)
(* a transaction, so each statement and each file operation is one step,   *)
(* and any of them can fail; the process can also crash between two.       *)
(* MaxFaults bounds how often something goes wrong.  inUse lets one        *)
(* SaveScan run at a time (scan.go), so scans are numbered as they are     *)
(* created; the other calls run at will.  Removing a file that is there is *)
(* taken to succeed.                                                       *)
(***************************************************************************)
EXTENDS Naturals

CONSTANTS
  Tasks,            \* the goroutines of POST /mark and of the two DELETEs
  Saver,            \* the goroutine that holds inUse
  Pages,            \* pages in a scan
  MaxScans,         \* bound: SaveScans begun
  MaxFaults         \* bound: failures and crashes

ASSUME SaverAssumption  == Saver \notin Tasks
ASSUME PagesAssumption  == Pages \in Nat \ {0}
ASSUME BoundsAssumption == MaxScans \in Nat /\ MaxFaults \in Nat

VARIABLES
  scanRows,         \* the table scans
  pageRows,         \* the table scan_pages: <<scan, page>>
  files,            \* the images and matrices on disk
  torn,             \* those that hold no complete matrix
  begun,            \* how many SaveScans have begun
  proc,             \* what each goroutine is doing
  past,             \* what has happened to each scan, for the properties
  faults

disk == <<scanRows, pageRows, files, torn>>
vars == <<disk, begun, proc, past, faults>>

Scans == 1..MaxScans
Procs == Tasks \cup {Saver}

Mat(s, p) == [kind |-> "mat", scan |-> s, page |-> p]
Pic(s, p) == [kind |-> "pic", scan |-> s, page |-> p]
FilesOf(s) == {f \in files : f.scan = s}

Idle == [at |-> "idle", scan |-> 0, page |-> 0, todo |-> {},
         left |-> {}, clean |-> FALSE]

\* Something fails.
Fault == faults < MaxFaults /\ faults' = faults + 1
Fine  == UNCHANGED faults

Goto(p, place) == proc' = [proc EXCEPT ![p].at = place]

\* The order of cleanupFailure, and that of the other loops over files.
MatsFirst(f, g)  == \/ f.kind = "mat" /\ g.kind = "pic"
                    \/ f.kind = g.kind /\ f.page <= g.page
PageByPage(f, g) == f.page < g.page \/ (f.page = g.page /\ (f.kind = "pic" \/ g.kind = "mat"))

\* The file that p comes to next.
IsNext(p, f) ==
  f \in proc[p].todo /\ \A g \in proc[p].todo : IF p = Saver THEN MatsFirst(f, g)
                                                              ELSE PageByPage(f, g)

Mark(s, events) == past' = [past EXCEPT ![s] = @ \cup events]

-----------------------------------------------------------------------------
(* SaveScan(pages, templateId).                                            *)

save == proc[Saver]

\* Bug: the pictures are not cleaned up.
UndoMats(mats, pics) == {Mat(save.scan, i) : i \in 1..mats}

\* savedMats, then savedImages.
Undo(mats, pics) ==
  {Mat(save.scan, i) : i \in 1..mats} \cup {Pic(save.scan, i) : i \in 1..pics}

\* cleanupFailure, when this many matrices and pictures were saved.
Cleanup(mats, pics) ==
  proc' = [proc EXCEPT ![Saver].at = "removing", ![Saver].todo = Undo(mats, pics)]

\* A new id, and its row in scans.
CreateScan ==
  /\ save.at = "idle" /\ begun < MaxScans
  /\ begun' = begun + 1
  /\ \/ /\ Fine
        /\ scanRows' = scanRows \cup {begun + 1}
        /\ proc' = [proc EXCEPT ![Saver] =
                      [Idle EXCEPT !.at = "mat", !.scan = begun + 1, !.page = 1]]
     \/ Fault /\ UNCHANGED <<scanRows, proc>>
  /\ UNCHANGED <<pageRows, files, torn, past>>

\* Bug: the error of Mats.Set is not looked at.
SetMatCareless ==
  /\ save.at = "mat"
  /\ files' = files \cup {Mat(save.scan, save.page)}
  /\ \/ Fine /\ UNCHANGED torn
     \/ Fault /\ torn' = torn \cup {Mat(save.scan, save.page)}
  /\ Goto(Saver, "pic")
  /\ UNCHANGED <<scanRows, pageRows, begun, past>>

\* EncodeM4t into a file just made.  An error leaves the file torn; the error of
\* the deferred Close, which writes the last block, is lost.
EncodeM4t(mat) ==
  /\ files' = files \cup {mat}
  /\ \/ Fine /\ Goto(Saver, "pic") /\ UNCHANGED <<torn, past>>
     \/ /\ Fault /\ torn' = torn \cup {mat}
        /\ \/ Cleanup(save.page - 1, save.page - 1) /\ UNCHANGED past
           \/ Goto(Saver, "pic") /\ Mark(save.scan, {"cut"})

\* Mats.Set creates the file, then encodes into it.  The file of an error stays:
\* its key is not in savedMats yet.
SetMat ==
  /\ save.at = "mat"
  /\ \/ EncodeM4t(Mat(save.scan, save.page))
     \/ /\ Fault /\ Cleanup(save.page - 1, save.page - 1)
        /\ UNCHANGED <<files, torn, past>>
  /\ UNCHANGED <<scanRows, pageRows, begun>>

\* Images.Create and EncodeMatToImage, which may fail too.
StorePicture ==
  /\ save.at = "pic"
  /\ \/ /\ Fine
        /\ files' = files \cup {Pic(save.scan, save.page)}
        /\ Goto(Saver, "row")
     \/ /\ Fault /\ Cleanup(save.page, save.page - 1)
        /\ UNCHANGED files
     \/ /\ Fault /\ Cleanup(save.page, save.page)
        /\ files' = files \cup {Pic(save.scan, save.page)}
  /\ UNCHANGED <<scanRows, pageRows, torn, begun, past>>

LastPage == save.page = Pages

\* The page's row; after the last one the id is returned.
CreateScanPage ==
  /\ save.at = "row"
  /\ \/ /\ Fine
        /\ pageRows' = pageRows \cup {<<save.scan, save.page>>}
        /\ IF LastPage
           THEN /\ proc' = [proc EXCEPT ![Saver] = Idle]
                /\ past' = [past EXCEPT ![save.scan] = @ \cup {"returned"} \cup
                              IF "asked" \in @ THEN {"raced"} ELSE {}]
           ELSE /\ proc' = [proc EXCEPT ![Saver].at = "mat", ![Saver].page = @ + 1]
                /\ UNCHANGED past
     \/ /\ Fault /\ UNCHANGED <<pageRows, past>>
        /\ Cleanup(save.page, save.page)
  /\ UNCHANGED <<scanRows, files, torn, begun>>

-----------------------------------------------------------------------------
(* DeleteScan(id), and the end of cleanupFailure.  Every error is ignored. *)

RowsOf(s) == {i \in 1..Pages : <<s, i>> \in pageRows}

FilesOfRows(s, rows) == {Pic(s, i) : i \in rows} \cup {Mat(s, i) : i \in rows}

\* Bug: one page is read, not all.
RemovalsOne(s) == FilesOfRows(s, {i \in RowsOf(s) : \A j \in RowsOf(s) : i <= j})

Removals(s) == FilesOfRows(s, RowsOf(s))

Delete(p, s, left) ==
  proc' = [proc EXCEPT ![p] = [Idle EXCEPT !.at = "selecting", !.scan = s, !.left = left,
                                           !.clean = "returned" \in past[s]]]

\* GetPagesForScan; after an error there is nothing to remove.
Select(p) ==
  /\ proc[p].at = "selecting"
  /\ \/ /\ Fine
        /\ proc' = [proc EXCEPT ![p].at = "removing", ![p].todo = Removals(proc[p].scan)]
        /\ UNCHANGED past
     \/ /\ Fault
        /\ proc' = [proc EXCEPT ![p].at = "removing", ![p].clean = FALSE]
        /\ Mark(proc[p].scan, {"unread"})
  /\ UNCHANGED <<disk, begun>>

RemoveFile(p) ==
  /\ proc[p].at = "removing"
  /\ \E f \in proc[p].todo :
       /\ IsNext(p, f)
       /\ files' = files \ {f} /\ torn' = torn \ {f}
       /\ proc' = [proc EXCEPT ![p].todo = @ \ {f}]
  /\ UNCHANGED <<scanRows, pageRows, begun, past, faults>>

DeletePagesForScan(p) ==
  /\ proc[p].at = "removing" /\ proc[p].todo = {}
  /\ \/ /\ Fine
        /\ pageRows' = {row \in pageRows : row[1] # proc[p].scan}
        /\ Goto(p, "unlisting")
     \/ /\ Fault /\ UNCHANGED pageRows
        /\ proc' = [proc EXCEPT ![p].at = "unlisting", ![p].clean = FALSE]
  /\ UNCHANGED <<scanRows, files, torn, begun, past>>

\* The scan's own row, and the end of the call.
DeleteScanRow(p) ==
  /\ proc[p].at = "unlisting"
  /\ \/ /\ Fine
        /\ scanRows' = scanRows \ {proc[p].scan}
        /\ Mark(proc[p].scan, {e \in {"removed"} : proc[p].clean} \cup {e \in {"undone"} : p = Saver})
     \/ /\ Fault /\ UNCHANGED scanRows
        /\ Mark(proc[p].scan, {e \in {"undone"} : p = Saver})
  /\ proc' = [proc EXCEPT ![p] = IF proc[p].left = {} THEN Idle
                                 ELSE [Idle EXCEPT !.at = "purging", !.left = proc[p].left]]
  /\ UNCHANGED <<pageRows, files, torn, begun>>

-----------------------------------------------------------------------------
(* What the other handlers call.  Clients know the ids SaveScan returned.  *)

Known(s) == "returned" \in past[s]

\* DELETE /scan.
AskDelete(p, s) ==
  /\ proc[p].at = "idle" /\ Known(s)
  /\ Delete(p, s, {})
  /\ Mark(s, {"asked"})
  /\ UNCHANGED <<disk, begun, faults>>

\* DELETE /admin/scans: GetScansFromBefore, for any cutoff.  It also sees a
\* scan that is still being saved.
Purge(p, cutoff) ==
  LET rows == {s \in scanRows : s < cutoff} IN
  /\ proc[p].at = "idle" /\ rows # {}
  /\ proc' = [proc EXCEPT ![p] = [Idle EXCEPT !.at = "purging", !.left = rows]]
  /\ past' = [s \in Scans |-> IF s \in rows THEN past[s] \cup {"asked"} ELSE past[s]]
  /\ UNCHANGED <<disk, begun, faults>>

PurgeNext(p) ==
  /\ proc[p].at = "purging"
  /\ \E s \in proc[p].left : Delete(p, s, proc[p].left \ {s})
  /\ UNCHANGED <<disk, begun, past, faults>>

\* LoadScan: GetPagesForScan; an error and ErrNotFound are answered at once.
Load(p, s) ==
  /\ proc[p].at = "idle" /\ Known(s) /\ RowsOf(s) # {}
  /\ proc' = [proc EXCEPT ![p] = [Idle EXCEPT !.at = "loading", !.scan = s,
                !.todo = {Mat(s, i) : i \in RowsOf(s)}]]
  /\ UNCHANGED <<disk, begun, past, faults>>

Readable(f) == f \in files /\ f \notin torn

Got(p, f, loaded) ==
  proc' = [proc EXCEPT ![p].page = loaded, ![p].todo = @ \ {f},
                       ![p].at = IF proc[p].todo = {f} THEN "loaded" ELSE "loading"]

\* Bug: a page that cannot be read is skipped.
GetSkipping(p) ==
  /\ proc[p].at = "loading"
  /\ \E f \in proc[p].todo :
       IsNext(p, f) /\ Got(p, f, IF Readable(f) THEN proc[p].page + 1 ELSE proc[p].page)
  /\ UNCHANGED <<disk, begun, past, faults>>

\* Mats.Get; when it fails the scan is taken to be corrupted and deleted.  It
\* also fails when the file is whole and cannot be opened just now.
Get(p) ==
  /\ proc[p].at = "loading"
  /\ \/ /\ Fine /\ UNCHANGED past
        /\ \E f \in proc[p].todo :
             IsNext(p, f) /\ IF Readable(f) THEN Got(p, f, proc[p].page + 1)
                             ELSE Delete(p, proc[p].scan, {})
     \/ /\ Fault /\ Mark(proc[p].scan, {"mistaken"})
        /\ Delete(p, proc[p].scan, {})
  /\ UNCHANGED <<disk, begun>>

\* LoadScan has returned the page matrices, and the caller is done with them.
Loaded(p) ==
  /\ proc[p].at = "loaded"
  /\ proc' = [proc EXCEPT ![p] = Idle]
  /\ UNCHANGED <<disk, begun, past, faults>>

\* The process dies and starts again; NewLocal cleans nothing up.
Crash ==
  /\ Fault
  /\ \E p \in Procs : proc[p] # Idle
  /\ proc' = [p \in Procs |-> Idle]
  /\ UNCHANGED <<disk, begun, past>>

-----------------------------------------------------------------------------

Init ==
  /\ scanRows = {} /\ pageRows = {} /\ files = {} /\ torn = {}
  /\ begun = 0
  /\ proc = [p \in Procs |-> Idle]
  /\ past = [s \in Scans |-> {}]
  /\ faults = 0

SaveScan == CreateScan \/ SetMat \/ StorePicture \/ CreateScanPage
DeleteScan(p) == Select(p) \/ RemoveFile(p) \/ DeletePagesForScan(p) \/ DeleteScanRow(p)
DeleteAllScansFromBefore(p) == PurgeNext(p) \/ \E cutoff \in 2..(MaxScans + 1) : Purge(p, cutoff)
LoadScan(p) == Get(p) \/ Loaded(p) \/ \E s \in Scans : Load(p, s)

Next ==
  \/ SaveScan
  \/ \E p \in Procs : DeleteScan(p)
  \/ \E p \in Tasks : \/ DeleteAllScansFromBefore(p) \/ LoadScan(p)
                      \/ \E s \in Scans : AskDelete(p, s)
  \/ Crash

Spec == Init /\ [][Next]_vars

-----------------------------------------------------------------------------
(* What must hold.                                                         *)

AllFiles == [kind : {"mat", "pic"}, scan : Scans, page : 1..Pages]

\* The tables, the directories and the goroutines hold what they may.
TypeOK ==
  /\ scanRows \subseteq Scans /\ pageRows \subseteq Scans \X (1..Pages)
  /\ torn \subseteq files /\ files \subseteq AllFiles
  /\ begun \in 0..MaxScans
  /\ proc \in [Procs -> [at : {"idle", "mat", "pic", "row", "selecting", "removing",
                                "unlisting", "purging", "loading", "loaded"},
                         scan : Scans \cup {0}, page : 0..Pages, todo : SUBSET AllFiles,
                         left : SUBSET Scans, clean : BOOLEAN]]
  /\ past \in [Scans -> SUBSET {"returned", "asked", "raced", "unread", "removed", "undone",
                              "mistaken", "cut"}]
  /\ faults \in 0..MaxFaults

\* A scan whose id was returned and that nobody asked to delete is all there:
\* whatever other scans' calls, failures and crashes came since, and however
\* often LoadScan looked for corruption; unless LoadScan once could not open a
\* file of it and took that for corruption, or the error of a last write to one
\* of its matrices was lost (SaveScan, LoadScan).
SavedIsIntact ==
  \A s \in Scans :
    "returned" \in past[s] /\ past[s] \cap {"asked", "mistaken", "cut"} = {} =>
      /\ s \in scanRows
      /\ \A i \in 1..Pages : /\ <<s, i>> \in pageRows
                             /\ Readable(Mat(s, i)) /\ Pic(s, i) \in files

\* A DeleteScan of a saved scan that met no error leaves no row and no file,
\* even when others were deleting it too or crashed doing so; only an error
\* of an earlier GetPagesForScan, or a purge that overtook the save, can have
\* made it lose track of files.
RemovedIsGone ==
  \A s \in Scans :
    "removed" \in past[s] /\ past[s] \cap {"unread", "raced"} = {} =>
      /\ s \notin scanRows
      /\ \A i \in 1..Pages : <<s, i>> \notin pageRows
      /\ FilesOf(s) = {}

\* LoadScan returns every page or fails, whatever deletes the scan meanwhile;
\* except for a scan that a purge overtook while it was being saved.
LoadedIsWhole ==
  \A p \in Tasks :
    proc[p].at = "loaded" /\ "raced" \notin past[proc[p].scan] => proc[p].page = Pages

\* cleanupFailure takes back every file but one that Mats.Set left torn.
FailedSaveLeavesOneFile ==
  \A s \in Scans : "undone" \in past[s] => FilesOf(s) \subseteq torn
=============================================================================
