--------------------------- MODULE ScanStoreProofs ---------------------------
(***************************************************************************)
(* What ScanStore guarantees for any number of pages, scans and calls and  *)
(* any faults: a saved scan stays whole, a deleted one leaves nothing, a   *)
(* load is whole or fails, and a failed save leaves at most what it tore.  *)
(* The argument: nobody removes a scan that is not theirs to remove, rows  *)
(* are deleted only when the files they name are gone, and no file of a    *)
(* returned scan is made again.                                            *)
(***************************************************************************)
EXTENDS ScanStore, TLAPS

Removing(p) == proc[p].at \in {"selecting", "removing", "unlisting"}
Loading(p)  == proc[p].at \in {"loading", "loaded"}
Saving      == save.at \in {"mat", "pic", "row"}

Asked(s)   == "asked" \in past[s]
Spared(s)  == past[s] \cap {"asked", "mistaken", "cut"} = {}
Raced(s)   == "raced" \in past[s]
Tracked(s) == Known(s) /\ past[s] \cap {"unread", "raced"} = {}

\* Nothing is there of scans to come.
Unborn(s) ==
  /\ past[s] = {} /\ s \notin scanRows
  /\ \A row \in pageRows : row[1] # s
  /\ \A f \in files : f.scan # s

Begun == \A s \in Scans : s > begun => Unborn(s)

\* Which goroutine may be where, and with which scan.
SaverRole ==
  /\ save.at \in {"idle", "mat", "pic", "row", "removing", "unlisting"}
  /\ save.at # "idle" => /\ save.scan = begun /\ begun # 0
                         /\ past[begun] \cap {"returned", "undone"} = {}
  /\ Saving => save.page # 0
  /\ save.left = {} /\ ~save.clean

TaskRole(p) ==
  /\ proc[p].at \notin {"mat", "pic", "row"}
  /\ Removing(p) \/ Loading(p) => proc[p].scan \in 1..begun
  /\ \A s \in proc[p].left : s <= begun

OwnFiles(p) ==
  proc[p].at \in {"selecting", "removing"} => \A f \in proc[p].todo : f.scan = proc[p].scan

Roles == SaverRole /\ (\A p \in Tasks : TaskRole(p)) /\ (\A p \in Procs : OwnFiles(p))

\* A task removes a scan only after one of the events that excuse its loss.
AllowedTo(p) ==
  /\ \A s \in proc[p].left : Asked(s)
  /\ Removing(p) => /\ ~Spared(proc[p].scan)
                    /\ Known(proc[p].scan) \/ Asked(proc[p].scan)
                    /\ proc[p].clean => Known(proc[p].scan)

Allowed == \A p \in Tasks : AllowedTo(p)

\* The matrices and the pictures of the scan being saved that may exist.
MatsMade == IF save.at = "mat" THEN save.page - 1 ELSE save.page
PicsMade == IF save.at = "row" THEN save.page ELSE save.page - 1

\* How far the save has got: its rows, its files, and no other files.
RowsMade ==
  Saving /\ ~Asked(begun) =>
    begun \in scanRows /\ \A i \in 1..(save.page - 1) : <<begun, i>> \in pageRows

FilesMade ==
  Saving /\ Spared(begun) =>
    /\ \A i \in 1..MatsMade : Readable(Mat(begun, i))
    /\ \A i \in 1..PicsMade : Pic(begun, i) \in files

NoneElse ==
  Saving => \A f \in files : f.scan = begun => f \in Undo(MatsMade, PicsMade)

\* Its undoing leaves what is torn.
Undoing ==
  /\ save.at = "removing" =>
       \A f \in files : f.scan = begun => f \in save.todo \cup torn
  /\ save.at = "unlisting" => \A f \in files : f.scan = begun => f \in torn

Undone(s) == "undone" \in past[s] => \A f \in files : f.scan = s => f \in torn

\* A saved scan is whole if nobody touched it,
Intact(s) ==
  Known(s) /\ Spared(s) =>
    /\ s \in scanRows
    /\ \A i \in 1..Pages : /\ <<s, i>> \in pageRows
                           /\ Readable(Mat(s, i)) /\ Pic(s, i) \in files

\* its rows go together,
Together(s) ==
  Known(s) /\ ~Raced(s) =>
    \/ \A i \in 1..Pages : <<s, i>> \in pageRows
    \/ \A i \in 1..Pages : <<s, i>> \notin pageRows

\* and a row names every file of it,
Found(s) == Tracked(s) => \A f \in files : f.scan = s => <<s, f.page>> \in pageRows

\* so whoever removes the scan has them all on its list.
Going(p) ==
  Removing(p) /\ Tracked(proc[p].scan) =>
    /\ proc[p].at = "removing" => \A f \in files : f.scan = proc[p].scan => f \in proc[p].todo
    /\ proc[p].at = "unlisting" => \A f \in files : f.scan # proc[p].scan
    /\ proc[p].at = "unlisting" /\ proc[p].clean => \A row \in pageRows : row[1] # proc[p].scan

Gone(s) ==
  "removed" \in past[s] =>
    /\ Known(s)
    /\ Tracked(s) => /\ s \notin scanRows
                     /\ \A row \in pageRows : row[1] # s
                     /\ \A f \in files : f.scan # s

\* A load has the pages yet to read on its list.
Loads(p) ==
  /\ Loading(p) => Known(proc[p].scan)
  /\ proc[p].at = "loading" =>
       /\ \A f \in proc[p].todo :
            \E i \in (proc[p].page + 1)..Pages : f = Mat(proc[p].scan, i)
       /\ ~Raced(proc[p].scan) =>
            \A i \in (proc[p].page + 1)..Pages : Mat(proc[p].scan, i) \in proc[p].todo
       /\ proc[p].todo # {}
  /\ proc[p].at = "loaded" /\ ~Raced(proc[p].scan) => proc[p].page = Pages

IInv ==
  /\ TypeOK /\ Begun /\ Roles /\ Allowed
  /\ RowsMade /\ FilesMade /\ NoneElse /\ Undoing
  /\ \A s \in Scans : Undone(s) /\ Intact(s) /\ Together(s) /\ Found(s) /\ Gone(s)
  /\ \A p \in Tasks : Going(p) /\ Loads(p)

-----------------------------------------------------------------------------
(* Names of files, and the initial state.                                  *)

LEMMA Names ==
  /\ \A s, i : /\ Mat(s, i).scan = s /\ Mat(s, i).page = i /\ Mat(s, i).kind = "mat"
               /\ Pic(s, i).scan = s /\ Pic(s, i).page = i /\ Pic(s, i).kind = "pic"
  /\ \A s \in Scans, i \in 1..Pages : Mat(s, i) \in AllFiles /\ Pic(s, i) \in AllFiles
  /\ \A f \in AllFiles : /\ f.scan \in Scans /\ f.page \in 1..Pages
                         /\ f = Mat(f.scan, f.page) \/ f = Pic(f.scan, f.page)
BY DEF Mat, Pic, AllFiles

Places == {"idle", "mat", "pic", "row", "selecting", "removing", "unlisting", "purging",
           "loading", "loaded"}

\* What a goroutine may be doing.
Doing == [at : Places, scan : Scans \cup {0}, page : 0..Pages, todo : SUBSET AllFiles,
          left : SUBSET Scans, clean : BOOLEAN]

Fits(at, scan, page, todo, left, clean) ==
  /\ at \in Places /\ scan \in Scans \cup {0} /\ page \in 0..Pages
  /\ todo \subseteq AllFiles /\ left \subseteq Scans /\ clean \in BOOLEAN

\* Only p acts, and this is what it does then.
Becomes(p, at, scan, page, todo, left, clean) ==
  /\ proc'[p].at = at /\ proc'[p].scan = scan /\ proc'[p].page = page
  /\ proc'[p].todo = todo /\ proc'[p].left = left /\ proc'[p].clean = clean
  /\ \A q \in Procs \ {p} : proc'[q] = proc[q]
  /\ Fits(at, scan, page, todo, left, clean) => proc' \in [Procs -> Doing]

LEMMA Fields ==
  ASSUME TypeOK, NEW p \in Procs
  PROVE  /\ proc \in [Procs -> Doing] /\ proc[p] \in Doing
         /\ Fits(proc[p].at, proc[p].scan, proc[p].page, proc[p].todo, proc[p].left,
                 proc[p].clean)
<1>1. proc \in [Procs -> Doing]
  BY DEF TypeOK, Doing, Places
<1>2. proc[p] \in Doing
  BY <1>1
<1> QED
  BY <1>1, <1>2 DEF Doing, Fits

\* One field at a time.
LEMMA Update ==
  ASSUME NEW r \in Doing
  PROVE  /\ \A x \in Places : [r EXCEPT !.at = x] \in Doing
         /\ \A x \in Scans \cup {0} : [r EXCEPT !.scan = x] \in Doing
         /\ \A x \in 0..Pages : [r EXCEPT !.page = x] \in Doing
         /\ \A x \in SUBSET AllFiles : [r EXCEPT !.todo = x] \in Doing
         /\ \A x \in SUBSET Scans : [r EXCEPT !.left = x] \in Doing
         /\ \A x \in BOOLEAN : [r EXCEPT !.clean = x] \in Doing
<1>1. \A x \in Places : [r EXCEPT !.at = x] \in Doing
  BY DEF Doing
<1>2. \A x \in Scans \cup {0} : [r EXCEPT !.scan = x] \in Doing
  BY DEF Doing
<1>3. \A x \in 0..Pages : [r EXCEPT !.page = x] \in Doing
  BY DEF Doing
<1>4. \A x \in SUBSET AllFiles : [r EXCEPT !.todo = x] \in Doing
  BY DEF Doing
<1>5. \A x \in SUBSET Scans : [r EXCEPT !.left = x] \in Doing
  BY DEF Doing
<1>6. \A x \in BOOLEAN : [r EXCEPT !.clean = x] \in Doing
  BY DEF Doing
<1> QED
  BY <1>1, <1>2, <1>3, <1>4, <1>5, <1>6

LEMMA IdleFits == Idle \in Doing
<1>1. 0 \in 0..Pages
  BY PagesAssumption
<1> QED
  BY <1>1, Zenon DEF Idle, Doing, Places

LEMMA Assigned ==
  ASSUME TypeOK, NEW p \in Procs, NEW r, proc' = [proc EXCEPT ![p] = r],
         Fits(r.at, r.scan, r.page, r.todo, r.left, r.clean) => r \in Doing
  PROVE  Becomes(p, r.at, r.scan, r.page, r.todo, r.left, r.clean)
<1>1. proc \in [Procs -> Doing]
  BY Fields
<1>2. proc'[p] = r
  BY <1>1
<1>3. \A q \in Procs \ {p} : proc'[q] = proc[q]
  BY <1>1
<1>4. r \in Doing => proc' \in [Procs -> Doing]
  BY <1>1
<1> QED
  BY <1>2, <1>3, <1>4 DEF Becomes

LEMMA GotoGoes ==
  ASSUME TypeOK, NEW p \in Procs, NEW place, Goto(p, place)
  PROVE  Becomes(p, place, proc[p].scan, proc[p].page, proc[p].todo, proc[p].left, proc[p].clean)
<1> DEFINE r == [proc[p] EXCEPT !.at = place]
<1>1. proc' = [proc EXCEPT ![p] = r]
  BY DEF Goto
<1>2. /\ r.at = place /\ r.scan = proc[p].scan /\ r.page = proc[p].page
      /\ r.todo = proc[p].todo /\ r.left = proc[p].left /\ r.clean = proc[p].clean
  BY Fields DEF Doing
<1>3. place \in Places => r \in Doing
  BY Fields, Update
<1> QED
  BY <1>1, <1>2, <1>3, Assigned DEF Fits

\* SaveScan leaves the removals of its own to no task, so it has nothing left.
LEMMA SaveFields ==
  ASSUME TypeOK, Roles
  PROVE  /\ save \in Doing /\ Saver \in Procs
         /\ save.at # "idle" => save.scan = begun /\ begun \in Scans
         /\ save.left = {} /\ save.clean = FALSE
<1>1. Saver \in Procs
  BY DEF Procs
<1>2. save \in Doing
  BY <1>1, Fields DEF save
<1> QED
  BY <1>1, <1>2, BoundsAssumption DEF Roles, SaverRole, Doing, TypeOK, Scans

LEMMA CreateScanDoes ==
  ASSUME TypeOK, Roles, CreateScan
  PROVE  /\ save.at = "idle" /\ begun + 1 \in Scans /\ begun' = begun + 1
         /\ \/ /\ scanRows' = scanRows \cup {begun + 1}
               /\ Becomes(Saver, "mat", begun + 1, 1, {}, {}, FALSE)
            \/ scanRows' = scanRows /\ proc' = proc
         /\ UNCHANGED <<pageRows, files, torn, past>>
<1>1. begun + 1 \in Scans
  BY BoundsAssumption DEF CreateScan, TypeOK, Scans
<1> DEFINE r == [Idle EXCEPT !.at = "mat", !.scan = begun + 1, !.page = 1]
<1>2. /\ r.at = "mat" /\ r.scan = begun + 1 /\ r.page = 1 /\ r.todo = {}
      /\ r.left = {} /\ r.clean = FALSE
  BY DEF Idle
<1>3. r \in Doing
  <2>1. [Idle EXCEPT !.at = "mat"] \in Doing
    BY IdleFits, Update DEF Places
  <2>2. [[Idle EXCEPT !.at = "mat"] EXCEPT !.scan = begun + 1] \in Doing
    BY <1>1, <2>1, Update
  <2> DEFINE q == [[Idle EXCEPT !.at = "mat"] EXCEPT !.scan = begun + 1]
  <2>3. 1 \in 0..Pages
    BY PagesAssumption
  <2>4. q \in Doing => [q EXCEPT !.page = 1] \in Doing
    <3> HIDE DEF q
    <3> QED
      BY <2>3, Update
  <2> QED
    BY <2>2, <2>4
<1>4. proc' = [proc EXCEPT ![Saver] = r] => Becomes(Saver, "mat", begun + 1, 1, {}, {}, FALSE)
  BY <1>2, <1>3, Assigned, SaveFields
<1> QED
  BY <1>1, <1>4 DEF CreateScan

LEMMA CleanupDoes ==
  ASSUME TypeOK, Roles, NEW mats, NEW pics, Cleanup(mats, pics)
  PROVE  Becomes(Saver, "removing", save.scan, save.page, Undo(mats, pics), {}, FALSE)
<1>1. proc' = [proc EXCEPT ![Saver] =
                 [proc[Saver] EXCEPT !.at = "removing", !.todo = Undo(mats, pics)]]
  <2>1. proc \in [Procs -> Doing] /\ Saver \in Procs
    BY Fields, SaveFields
  <2> QED
    BY <2>1 DEF Cleanup, Doing
<1> DEFINE r == [proc[Saver] EXCEPT !.at = "removing", !.todo = Undo(mats, pics)]
<1>2. /\ r.at = "removing" /\ r.scan = save.scan /\ r.page = save.page
      /\ r.todo = Undo(mats, pics) /\ r.left = {} /\ r.clean = FALSE
  BY SaveFields DEF save, Doing
<1>3. ASSUME Undo(mats, pics) \subseteq AllFiles PROVE r \in Doing
  <2>1. [proc[Saver] EXCEPT !.at = "removing"] \in Doing
    BY SaveFields, Update DEF Places, save
  <2>2. [[proc[Saver] EXCEPT !.at = "removing"] EXCEPT !.todo = Undo(mats, pics)] \in Doing
    BY <1>3, <2>1, Update
  <2> QED
    BY <2>2
<1>4. Becomes(Saver, r.at, r.scan, r.page, r.todo, r.left, r.clean)
  BY <1>1, <1>2, <1>3, Assigned, SaveFields DEF Fits
<1> QED
  BY <1>2, <1>4

\* What Mark writes.
LEMMA Marks ==
  ASSUME TypeOK, NEW s \in Scans, NEW events, Mark(s, events)
  PROVE  /\ past'[s] = past[s] \cup events
         /\ \A t \in Scans \ {s} : past'[t] = past[t]
BY DEF TypeOK, Mark

LEMMA SetMatDoes ==
  ASSUME TypeOK, Roles, SetMat
  PROVE  /\ save.at = "mat" /\ save.scan = begun /\ begun \in Scans
         /\ UNCHANGED <<scanRows, pageRows, begun>>
         /\ \/ /\ files' = files \cup {Mat(begun, save.page)}
               /\ UNCHANGED <<torn, past>>
               /\ Becomes(Saver, "pic", begun, save.page, save.todo, {}, FALSE)
            \/ /\ files' = files \cup {Mat(begun, save.page)}
               /\ torn' = torn \cup {Mat(begun, save.page)}
               /\ UNCHANGED past
               /\ Becomes(Saver, "removing", begun, save.page,
                          Undo(save.page - 1, save.page - 1), {}, FALSE)
            \/ /\ files' = files \cup {Mat(begun, save.page)}
               /\ torn' = torn \cup {Mat(begun, save.page)}
               /\ past'[begun] = past[begun] \cup {"cut"}
               /\ \A t \in Scans \ {begun} : past'[t] = past[t]
               /\ Becomes(Saver, "pic", begun, save.page, save.todo, {}, FALSE)
            \/ /\ UNCHANGED <<files, torn, past>>
               /\ Becomes(Saver, "removing", begun, save.page,
                          Undo(save.page - 1, save.page - 1), {}, FALSE)
<1>1. save.at = "mat" /\ save.scan = begun /\ begun \in Scans /\ Saver \in Procs
  BY SaveFields DEF SetMat
<1>2. Goto(Saver, "pic") => Becomes(Saver, "pic", begun, save.page, save.todo, {}, FALSE)
  BY <1>1, GotoGoes, SaveFields DEF save
<1>3. Cleanup(save.page - 1, save.page - 1) =>
        Becomes(Saver, "removing", begun, save.page, Undo(save.page - 1, save.page - 1), {}, FALSE)
  BY <1>1, CleanupDoes
<1>4. Mark(begun, {"cut"}) => /\ past'[begun] = past[begun] \cup {"cut"}
                              /\ \A t \in Scans \ {begun} : past'[t] = past[t]
  BY <1>1, Marks
<1> QED
  BY <1>1, <1>2, <1>3, <1>4 DEF SetMat, EncodeM4t

LEMMA StorePictureDoes ==
  ASSUME TypeOK, Roles, StorePicture
  PROVE  /\ save.at = "pic" /\ save.scan = begun /\ begun \in Scans
         /\ UNCHANGED <<scanRows, pageRows, torn, begun, past>>
         /\ \/ /\ files' = files \cup {Pic(begun, save.page)}
               /\ Becomes(Saver, "row", begun, save.page, save.todo, {}, FALSE)
            \/ /\ files' = files
               /\ Becomes(Saver, "removing", begun, save.page,
                          Undo(save.page, save.page - 1), {}, FALSE)
            \/ /\ files' = files \cup {Pic(begun, save.page)}
               /\ Becomes(Saver, "removing", begun, save.page,
                          Undo(save.page, save.page), {}, FALSE)
<1>1. save.at = "pic" /\ save.scan = begun /\ begun \in Scans /\ Saver \in Procs
  BY SaveFields DEF StorePicture
<1>2. Goto(Saver, "row") => Becomes(Saver, "row", begun, save.page, save.todo, {}, FALSE)
  BY <1>1, GotoGoes, SaveFields DEF save
<1>3. \A pics : Cleanup(save.page, pics) =>
        Becomes(Saver, "removing", begun, save.page, Undo(save.page, pics), {}, FALSE)
  BY <1>1, CleanupDoes
<1> QED
  BY <1>1, <1>2, <1>3 DEF StorePicture

LEMMA CreateScanPageDoes ==
  ASSUME TypeOK, Roles, CreateScanPage
  PROVE  /\ save.at = "row" /\ save.scan = begun /\ begun \in Scans
         /\ UNCHANGED <<scanRows, files, torn, begun>>
         /\ \/ /\ save.page = Pages
               /\ pageRows' = pageRows \cup {<<begun, save.page>>}
               /\ past'[begun] = past[begun] \cup {"returned"} \cup
                                   IF Asked(begun) THEN {"raced"} ELSE {}
               /\ \A t \in Scans \ {begun} : past'[t] = past[t]
               /\ Becomes(Saver, "idle", 0, 0, {}, {}, FALSE)
            \/ /\ save.page # Pages
               /\ pageRows' = pageRows \cup {<<begun, save.page>>}
               /\ UNCHANGED past
               /\ Becomes(Saver, "mat", begun, save.page + 1, save.todo, {}, FALSE)
            \/ /\ UNCHANGED <<pageRows, past>>
               /\ Becomes(Saver, "removing", begun, save.page,
                          Undo(save.page, save.page), {}, FALSE)
<1>1. save.at = "row" /\ save.scan = begun /\ begun \in Scans /\ Saver \in Procs
  BY SaveFields DEF CreateScanPage
<1>2. proc' = [proc EXCEPT ![Saver] = Idle] => Becomes(Saver, "idle", 0, 0, {}, {}, FALSE)
  <2>1. /\ Idle.at = "idle" /\ Idle.scan = 0 /\ Idle.page = 0 /\ Idle.todo = {}
        /\ Idle.left = {} /\ Idle.clean = FALSE
    BY DEF Idle
  <2> QED
    BY <1>1, <2>1, Assigned, IdleFits
<1>3. proc' = [proc EXCEPT ![Saver].at = "mat", ![Saver].page = @ + 1] =>
        Becomes(Saver, "mat", begun, save.page + 1, save.todo, {}, FALSE)
  <2> SUFFICES ASSUME proc' = [proc EXCEPT ![Saver].at = "mat", ![Saver].page = @ + 1]
               PROVE  Becomes(Saver, "mat", begun, save.page + 1, save.todo, {}, FALSE)
    OBVIOUS
  <2>1. proc \in [Procs -> Doing]
    BY <1>1, Fields
  <2> DEFINE r == [proc[Saver] EXCEPT !.at = "mat", !.page = proc[Saver].page + 1]
  <2>2. proc' = [proc EXCEPT ![Saver] = r]
    BY <1>1, <2>1 DEF Doing
  <2>3. /\ r.at = "mat" /\ r.scan = begun /\ r.page = save.page + 1
        /\ r.todo = save.todo /\ r.left = {} /\ r.clean = FALSE
    BY <1>1, SaveFields DEF save, Doing
  <2>4. ASSUME save.page + 1 \in 0..Pages PROVE r \in Doing
    <3>1. [proc[Saver] EXCEPT !.at = "mat"] \in Doing
      BY SaveFields, Update DEF Places, save
    <3>2. [[proc[Saver] EXCEPT !.at = "mat"] EXCEPT !.page = proc[Saver].page + 1] \in Doing
      BY <2>4, <3>1, Update DEF save
    <3> QED
      BY <3>2
  <2>5. Becomes(Saver, r.at, r.scan, r.page, r.todo, r.left, r.clean)
    BY <1>1, <2>2, <2>3, <2>4, Assigned DEF Fits
  <2> QED
    BY <2>3, <2>5
<1>4. Cleanup(save.page, save.page) =>
        Becomes(Saver, "removing", begun, save.page, Undo(save.page, save.page), {}, FALSE)
  BY <1>1, CleanupDoes
<1>5. past' = [past EXCEPT ![begun] = @ \cup {"returned"} \cup
                                       IF "asked" \in @ THEN {"raced"} ELSE {}]
        => /\ past'[begun] = past[begun] \cup {"returned"} \cup
                               IF Asked(begun) THEN {"raced"} ELSE {}
           /\ \A t \in Scans \ {begun} : past'[t] = past[t]
  BY <1>1 DEF TypeOK, Asked
<1> QED
  BY <1>1, <1>2, <1>3, <1>4, <1>5 DEF CreateScanPage, LastPage

\* Whose scan a goroutine removes.
LEMMA RemovedScan ==
  ASSUME TypeOK, Roles, NEW p \in Procs, Removing(p)
  PROVE  /\ proc[p].scan \in Scans /\ proc[p].scan <= begun
         /\ p \notin Tasks => p = Saver /\ proc[p].scan = begun
         /\ proc[p].at = "selecting" => p \in Tasks
<1>1. CASE p \in Tasks
  <2>1. proc[p].scan \in 1..begun
    BY <1>1 DEF Roles, TaskRole
  <2> QED
    BY <1>1, <2>1, BoundsAssumption DEF TypeOK, Scans
<1>2. CASE p = Saver
  <2>1. save.at # "idle" /\ save.at # "selecting"
    BY <1>2 DEF Roles, SaverRole, Removing, save
  <2>2. proc[p].scan = begun /\ begun \in Scans
    BY <1>2, <2>1, SaveFields DEF save
  <2> QED
    BY <1>2, <2>1, <2>2 DEF save, Scans
<1> QED
  BY <1>1, <1>2 DEF Procs

LEMMA DeleteDoes ==
  ASSUME TypeOK, NEW p \in Procs, NEW s \in Scans, NEW left, Delete(p, s, left)
  PROVE  Becomes(p, "selecting", s, 0, {}, left, Known(s))
<1> DEFINE r == [Idle EXCEPT !.at = "selecting", !.scan = s, !.left = left, !.clean = Known(s)]
<1>1. proc' = [proc EXCEPT ![p] = r]
  BY DEF Delete, Known
<1>2. /\ r.at = "selecting" /\ r.scan = s /\ r.page = 0 /\ r.todo = {} /\ r.left = left
      /\ r.clean = Known(s)
  BY DEF Idle
<1>3. ASSUME left \subseteq Scans PROVE r \in Doing
  <2> DEFINE q1 == [Idle EXCEPT !.at = "selecting"]
             q2 == [q1 EXCEPT !.scan = s]
             q3 == [q2 EXCEPT !.left = left]
  <2>1. q1 \in Doing
    BY IdleFits, Update DEF Places
  <2>2. q2 \in Doing
    BY <2>1, Update
  <2>3. q2 \in Doing => q3 \in Doing
    <3> HIDE DEF q2
    <3> QED
      BY <1>3, Update
  <2>4. q3 \in Doing => [q3 EXCEPT !.clean = Known(s)] \in Doing
    <3> HIDE DEF q3
    <3>1. Known(s) \in BOOLEAN
      BY DEF Known
    <3> QED
      BY <3>1, Update
  <2> QED
    BY <2>2, <2>3, <2>4
<1>4. Becomes(p, r.at, r.scan, r.page, r.todo, r.left, r.clean)
  BY <1>1, <1>3, <1>2, Assigned DEF Fits
<1> QED
  BY <1>2, <1>4

LEMMA SelectDoes ==
  ASSUME TypeOK, Roles, NEW p \in Procs, Select(p)
  PROVE  /\ p \in Tasks /\ proc[p].at = "selecting" /\ proc[p].scan \in Scans
         /\ UNCHANGED <<disk, begun>>
         /\ \/ /\ UNCHANGED past
               /\ Becomes(p, "removing", proc[p].scan, proc[p].page, Removals(proc[p].scan),
                          proc[p].left, proc[p].clean)
            \/ /\ past'[proc[p].scan] = past[proc[p].scan] \cup {"unread"}
               /\ \A t \in Scans \ {proc[p].scan} : past'[t] = past[t]
               /\ Becomes(p, "removing", proc[p].scan, proc[p].page, proc[p].todo,
                          proc[p].left, FALSE)
<1>1. p \in Tasks /\ proc[p].at = "selecting" /\ proc[p].scan \in Scans
  BY RemovedScan DEF Select, Removing
<1>2. ASSUME proc' = [proc EXCEPT ![p].at = "removing", ![p].todo = Removals(proc[p].scan)]
      PROVE  Becomes(p, "removing", proc[p].scan, proc[p].page, Removals(proc[p].scan),
                     proc[p].left, proc[p].clean)
  <2> DEFINE q == [proc[p] EXCEPT !.at = "removing"]
             r == [q EXCEPT !.todo = Removals(proc[p].scan)]
  <2>1. proc' = [proc EXCEPT ![p] = r]
    BY <1>2, Fields
  <2>2. /\ r.at = "removing" /\ r.scan = proc[p].scan /\ r.page = proc[p].page
        /\ r.todo = Removals(proc[p].scan) /\ r.left = proc[p].left /\ r.clean = proc[p].clean
    BY Fields DEF Doing
  <2>3. q \in Doing
    BY Fields, Update DEF Places
  <2>4. Removals(proc[p].scan) \subseteq AllFiles => r \in Doing
    <3> HIDE DEF q
    <3> QED
      BY <2>3, Update
  <2>5. Becomes(p, r.at, r.scan, r.page, r.todo, r.left, r.clean)
    BY <2>1, <2>2, <2>4, Assigned DEF Fits
  <2> QED
    BY <2>2, <2>5
<1>3. ASSUME proc' = [proc EXCEPT ![p].at = "removing", ![p].clean = FALSE]
      PROVE  Becomes(p, "removing", proc[p].scan, proc[p].page, proc[p].todo, proc[p].left, FALSE)
  <2> DEFINE q == [proc[p] EXCEPT !.at = "removing"]
             r == [q EXCEPT !.clean = FALSE]
  <2>1. proc' = [proc EXCEPT ![p] = r]
    BY <1>3, Fields
  <2>2. /\ r.at = "removing" /\ r.scan = proc[p].scan /\ r.page = proc[p].page
        /\ r.todo = proc[p].todo /\ r.left = proc[p].left /\ r.clean = FALSE
    BY Fields DEF Doing
  <2>3. q \in Doing
    BY Fields, Update DEF Places
  <2>4. r \in Doing
    <3> HIDE DEF q
    <3> QED
      BY <2>3, Update
  <2>5. Becomes(p, r.at, r.scan, r.page, r.todo, r.left, r.clean)
    BY <2>1, <2>2, <2>4, Assigned DEF Fits
  <2> QED
    BY <2>2, <2>5
<1> QED
  BY <1>1, <1>2, <1>3, Marks DEF Select

LEMMA RemoveFileDoes ==
  ASSUME TypeOK, NEW p \in Procs, RemoveFile(p)
  PROVE  /\ proc[p].at = "removing"
         /\ UNCHANGED <<scanRows, pageRows, begun, past>>
         /\ \E f \in proc[p].todo :
              /\ files' = files \ {f} /\ torn' = torn \ {f}
              /\ Becomes(p, "removing", proc[p].scan, proc[p].page, proc[p].todo \ {f},
                         proc[p].left, proc[p].clean)
<1>1. PICK f \in proc[p].todo : /\ files' = files \ {f} /\ torn' = torn \ {f}
                                /\ proc' = [proc EXCEPT ![p].todo = @ \ {f}]
  BY DEF RemoveFile
<1> DEFINE r == [proc[p] EXCEPT !.todo = proc[p].todo \ {f}]
<1>2. proc' = [proc EXCEPT ![p] = r]
  BY <1>1, Fields
<1>3. /\ r.at = proc[p].at /\ r.scan = proc[p].scan /\ r.page = proc[p].page
      /\ r.todo = proc[p].todo \ {f} /\ r.left = proc[p].left /\ r.clean = proc[p].clean
  BY Fields DEF Doing
<1>4. r \in Doing
  BY Fields, Update DEF Fits
<1>5. Becomes(p, r.at, r.scan, r.page, r.todo, r.left, r.clean)
  BY <1>2, <1>4, Assigned
<1> QED
  BY <1>1, <1>3, <1>5 DEF RemoveFile

LEMMA DeletePagesForScanDoes ==
  ASSUME TypeOK, NEW p \in Procs, DeletePagesForScan(p)
  PROVE  /\ proc[p].at = "removing" /\ proc[p].todo = {}
         /\ UNCHANGED <<scanRows, files, torn, begun, past>>
         /\ \/ /\ pageRows' = {row \in pageRows : row[1] # proc[p].scan}
               /\ Becomes(p, "unlisting", proc[p].scan, proc[p].page, proc[p].todo,
                          proc[p].left, proc[p].clean)
            \/ /\ pageRows' = pageRows
               /\ Becomes(p, "unlisting", proc[p].scan, proc[p].page, proc[p].todo,
                          proc[p].left, FALSE)
<1>1. Goto(p, "unlisting") =>
        Becomes(p, "unlisting", proc[p].scan, proc[p].page, proc[p].todo, proc[p].left,
                proc[p].clean)
  BY GotoGoes
<1>2. ASSUME proc' = [proc EXCEPT ![p].at = "unlisting", ![p].clean = FALSE]
      PROVE  Becomes(p, "unlisting", proc[p].scan, proc[p].page, proc[p].todo, proc[p].left, FALSE)
  <2> DEFINE q == [proc[p] EXCEPT !.at = "unlisting"]
             r == [q EXCEPT !.clean = FALSE]
  <2>1. proc' = [proc EXCEPT ![p] = r]
    BY <1>2, Fields
  <2>2. /\ r.at = "unlisting" /\ r.scan = proc[p].scan /\ r.page = proc[p].page
        /\ r.todo = proc[p].todo /\ r.left = proc[p].left /\ r.clean = FALSE
    BY Fields DEF Doing
  <2>3. q \in Doing
    BY Fields, Update DEF Places
  <2>4. r \in Doing
    <3> HIDE DEF q
    <3> QED
      BY <2>3, Update
  <2>5. Becomes(p, r.at, r.scan, r.page, r.todo, r.left, r.clean)
    BY <2>1, <2>2, <2>4, Assigned DEF Fits
  <2> QED
    BY <2>2, <2>5
<1> QED
  BY <1>1, <1>2 DEF DeletePagesForScan

LEMMA Idles ==
  ASSUME TypeOK, NEW p \in Procs, proc' = [proc EXCEPT ![p] = Idle]
  PROVE  Becomes(p, "idle", 0, 0, {}, {}, FALSE)
<1>1. /\ Idle.at = "idle" /\ Idle.scan = 0 /\ Idle.page = 0 /\ Idle.todo = {}
      /\ Idle.left = {} /\ Idle.clean = FALSE
  BY DEF Idle
<1> QED
  BY <1>1, Assigned, IdleFits

LEMMA PurgesOn ==
  ASSUME TypeOK, NEW p \in Procs, NEW rows,
         proc' = [proc EXCEPT ![p] = [Idle EXCEPT !.at = "purging", !.left = rows]]
  PROVE  Becomes(p, "purging", 0, 0, {}, rows, FALSE)
<1> DEFINE q == [Idle EXCEPT !.at = "purging"]
           r == [q EXCEPT !.left = rows]
<1>1. proc' = [proc EXCEPT ![p] = r]
  BY Fields
<1>2. /\ r.at = "purging" /\ r.scan = 0 /\ r.page = 0 /\ r.todo = {}
      /\ r.left = rows /\ r.clean = FALSE
  BY DEF Idle
<1>3. q \in Doing
  BY IdleFits, Update DEF Places
<1>4. rows \subseteq Scans => r \in Doing
  <2> HIDE DEF q
  <2> QED
    BY <1>3, Update
<1>5. Becomes(p, r.at, r.scan, r.page, r.todo, r.left, r.clean)
  BY <1>1, <1>2, <1>4, Assigned DEF Fits
<1> QED
  BY <1>2, <1>5

LEMMA DeleteScanRowDoes ==
  ASSUME TypeOK, Roles, NEW p \in Procs, DeleteScanRow(p)
  PROVE  /\ proc[p].at = "unlisting" /\ proc[p].scan \in Scans
         /\ UNCHANGED <<pageRows, files, torn, begun>>
         /\ \E events \in SUBSET {"removed", "undone"} :
              /\ past'[proc[p].scan] = past[proc[p].scan] \cup events
              /\ "removed" \in events => proc[p].clean /\ scanRows' = scanRows \ {proc[p].scan}
              /\ "undone" \in events => p = Saver
         /\ \A t \in Scans \ {proc[p].scan} : past'[t] = past[t]
         /\ scanRows' = scanRows \/ scanRows' = scanRows \ {proc[p].scan}
         /\ \/ Becomes(p, "idle", 0, 0, {}, {}, FALSE)
            \/ p \in Tasks /\ Becomes(p, "purging", 0, 0, {}, proc[p].left, FALSE)
<1>1. proc[p].at = "unlisting" /\ proc[p].scan \in Scans
  BY RemovedScan DEF DeleteScanRow, Removing
<1>2. proc[p].left # {} => p \in Tasks
  BY SaveFields DEF Procs, save
<1>3. \/ Becomes(p, "idle", 0, 0, {}, {}, FALSE)
      \/ p \in Tasks /\ Becomes(p, "purging", 0, 0, {}, proc[p].left, FALSE)
  <2>1. CASE proc[p].left = {}
    BY <2>1, Idles DEF DeleteScanRow
  <2>2. CASE proc[p].left # {}
    BY <1>2, <2>2, PurgesOn DEF DeleteScanRow
  <2> QED
    BY <2>1, <2>2
<1> DEFINE undone == {e \in {"undone"} : p = Saver}
           all == {e \in {"removed"} : proc[p].clean} \cup undone
<1>4. CASE scanRows' = scanRows \ {proc[p].scan} /\ Mark(proc[p].scan, all)
  <2>1. past'[proc[p].scan] = past[proc[p].scan] \cup all
    BY <1>1, <1>4, Marks
  <2>2. \A t \in Scans \ {proc[p].scan} : past'[t] = past[t]
    BY <1>1, <1>4, Marks
  <2>3. all \in SUBSET {"removed", "undone"}
    OBVIOUS
  <2>4. /\ "removed" \in all => proc[p].clean
        /\ "undone" \in all => p = Saver
    OBVIOUS
  <2> QED
    BY <1>1, <1>3, <1>4, <2>1, <2>2, <2>3, <2>4 DEF DeleteScanRow
<1>5. CASE scanRows' = scanRows /\ Mark(proc[p].scan, undone)
  <2>1. past'[proc[p].scan] = past[proc[p].scan] \cup undone
    BY <1>1, <1>5, Marks
  <2>2. \A t \in Scans \ {proc[p].scan} : past'[t] = past[t]
    BY <1>1, <1>5, Marks
  <2>3. undone \in SUBSET {"removed", "undone"}
    OBVIOUS
  <2>4. "removed" \notin undone /\ ("undone" \in undone => p = Saver)
    OBVIOUS
  <2> QED
    BY <1>1, <1>3, <1>5, <2>1, <2>2, <2>3, <2>4 DEF DeleteScanRow
<1> QED
  BY <1>4, <1>5 DEF DeleteScanRow

LEMMA PurgeNextDoes ==
  ASSUME TypeOK, NEW p \in Tasks, PurgeNext(p)
  PROVE  /\ proc[p].at = "purging" /\ UNCHANGED <<disk, begun, past>>
         /\ \E s \in proc[p].left :
              Becomes(p, "selecting", s, 0, {}, proc[p].left \ {s}, Known(s))
<1>1. p \in Procs /\ proc[p].left \subseteq Scans
  BY Fields DEF Procs, Fits
<1> QED
  BY <1>1, DeleteDoes DEF PurgeNext

LEMMA PurgeDoes ==
  ASSUME TypeOK, NEW p \in Tasks, NEW cutoff, Purge(p, cutoff)
  PROVE  /\ proc[p].at = "idle" /\ UNCHANGED <<disk, begun>>
         /\ \E rows \in SUBSET scanRows :
              /\ Becomes(p, "purging", 0, 0, {}, rows, FALSE)
              /\ \A s \in Scans : past'[s] = IF s \in rows THEN past[s] \cup {"asked"} ELSE past[s]
<1> DEFINE rows == {s \in scanRows : s < cutoff}
<1>1. Becomes(p, "purging", 0, 0, {}, rows, FALSE)
  BY PurgesOn DEF Purge, Procs
<1>2. \A s \in Scans : past'[s] = IF s \in rows THEN past[s] \cup {"asked"} ELSE past[s]
  BY DEF Purge
<1> HIDE DEF rows
<1>3. rows \in SUBSET scanRows
  BY DEF rows
<1> QED
  BY <1>1, <1>2, <1>3 DEF Purge

LEMMA AskDeleteDoes ==
  ASSUME TypeOK, NEW p \in Tasks, NEW s \in Scans, AskDelete(p, s)
  PROVE  /\ proc[p].at = "idle" /\ Known(s) /\ UNCHANGED <<disk, begun>>
         /\ Becomes(p, "selecting", s, 0, {}, {}, TRUE)
         /\ past'[s] = past[s] \cup {"asked"}
         /\ \A t \in Scans \ {s} : past'[t] = past[t]
<1>1. Known(s) => Known(s) = TRUE
  BY DEF Known
<1> QED
  BY <1>1, DeleteDoes, Marks DEF AskDelete, Procs

LEMMA LoadDoes ==
  ASSUME TypeOK, NEW p \in Tasks, NEW s \in Scans, Load(p, s)
  PROVE  /\ proc[p].at = "idle" /\ Known(s) /\ RowsOf(s) # {}
         /\ UNCHANGED <<disk, begun, past>>
         /\ Becomes(p, "loading", s, 0, {Mat(s, i) : i \in RowsOf(s)}, {}, FALSE)
<1> DEFINE q1 == [Idle EXCEPT !.at = "loading"]
           q2 == [q1 EXCEPT !.scan = s]
           todo == {Mat(s, i) : i \in RowsOf(s)}
           r == [q2 EXCEPT !.todo = todo]
<1>1. proc' = [proc EXCEPT ![p] = r]
  BY DEF Load
<1>2. /\ r.at = "loading" /\ r.scan = s /\ r.page = 0 /\ r.todo = todo
      /\ r.left = {} /\ r.clean = FALSE
  BY DEF Idle
<1>3. todo \subseteq AllFiles
  BY Names DEF RowsOf
<1>4. r \in Doing
  <2>1. q1 \in Doing
    BY IdleFits, Update DEF Places
  <2>2. q2 \in Doing
    BY <2>1, Update
  <2>3. q2 \in Doing => r \in Doing
    <3> HIDE DEF q2, todo
    <3> QED
      BY <1>3, Update
  <2> QED
    BY <2>2, <2>3
<1>5. Becomes(p, r.at, r.scan, r.page, r.todo, r.left, r.clean)
  BY <1>1, <1>4, Assigned DEF Procs
<1> QED
  BY <1>2, <1>5 DEF Load

LEMMA GetDoes ==
  ASSUME TypeOK, Roles, NEW p \in Tasks, Get(p)
  PROVE  /\ proc[p].at = "loading" /\ UNCHANGED <<disk, begun>> /\ proc[p].scan \in Scans
         /\ \/ \E f \in proc[p].todo :
                 /\ UNCHANGED past /\ IsNext(p, f)
                 /\ Becomes(p, IF proc[p].todo = {f} THEN "loaded" ELSE "loading",
                            proc[p].scan, proc[p].page + 1, proc[p].todo \ {f},
                            proc[p].left, proc[p].clean)
            \/ \E f \in proc[p].todo :
                 /\ UNCHANGED past /\ ~Readable(f)
                 /\ Becomes(p, "selecting", proc[p].scan, 0, {}, {}, Known(proc[p].scan))
            \/ /\ past'[proc[p].scan] = past[proc[p].scan] \cup {"mistaken"}
               /\ \A t \in Scans \ {proc[p].scan} : past'[t] = past[t]
               /\ Becomes(p, "selecting", proc[p].scan, 0, {}, {}, Known(proc[p].scan))
<1>1. p \in Procs /\ proc[p].at = "loading" /\ proc[p].scan \in Scans
  BY BoundsAssumption DEF Get, Procs, Roles, TaskRole, Loading, TypeOK, Scans
<1>2. ASSUME NEW f \in proc[p].todo, Got(p, f, proc[p].page + 1)
      PROVE  Becomes(p, IF proc[p].todo = {f} THEN "loaded" ELSE "loading",
                     proc[p].scan, proc[p].page + 1, proc[p].todo \ {f},
                     proc[p].left, proc[p].clean)
  <2> DEFINE place == IF proc[p].todo = {f} THEN "loaded" ELSE "loading"
             q1 == [proc[p] EXCEPT !.page = proc[p].page + 1]
             q2 == [q1 EXCEPT !.todo = proc[p].todo \ {f}]
             r == [q2 EXCEPT !.at = place]
  <2>1. proc' = [proc EXCEPT ![p] = r]
    BY <1>1, <1>2, Fields DEF Got
  <2>2. /\ r.at = place /\ r.scan = proc[p].scan /\ r.page = proc[p].page + 1
        /\ r.todo = proc[p].todo \ {f} /\ r.left = proc[p].left /\ r.clean = proc[p].clean
    BY <1>1, Fields DEF Doing
  <2>3. ASSUME proc[p].page + 1 \in 0..Pages PROVE r \in Doing
    <3>1. q1 \in Doing
      BY <1>1, <2>3, Fields, Update
    <3>2. q1 \in Doing => q2 \in Doing
      <4> HIDE DEF q1
      <4> QED
        BY <1>1, Fields, Update DEF Fits
    <3>3. q2 \in Doing => r \in Doing
      <4> HIDE DEF q2
      <4> QED
        BY Update DEF Places
    <3> QED
      BY <3>1, <3>2, <3>3
  <2>4. Becomes(p, r.at, r.scan, r.page, r.todo, r.left, r.clean)
    BY <1>1, <2>1, <2>2, <2>3, Assigned DEF Fits
  <2> QED
    BY <2>2, <2>4
<1>3. Delete(p, proc[p].scan, {}) =>
        Becomes(p, "selecting", proc[p].scan, 0, {}, {}, Known(proc[p].scan))
  BY <1>1, DeleteDoes
<1>4. Mark(proc[p].scan, {"mistaken"}) =>
        /\ past'[proc[p].scan] = past[proc[p].scan] \cup {"mistaken"}
        /\ \A t \in Scans \ {proc[p].scan} : past'[t] = past[t]
  BY <1>1, Marks
<1> QED
  BY <1>1, <1>2, <1>3, <1>4 DEF Get

LEMMA LoadedDoes ==
  ASSUME TypeOK, NEW p \in Tasks, Loaded(p)
  PROVE  /\ UNCHANGED <<disk, begun, past>>
         /\ Becomes(p, "idle", 0, 0, {}, {}, FALSE)
BY Idles DEF Loaded, Procs

LEMMA CrashDoes ==
  ASSUME TypeOK, Crash
  PROVE  /\ UNCHANGED <<disk, begun, past>> /\ proc' \in [Procs -> Doing]
         /\ \A p \in Procs : /\ proc'[p].at = "idle" /\ proc'[p].scan = 0 /\ proc'[p].page = 0
                             /\ proc'[p].todo = {} /\ proc'[p].left = {}
                             /\ proc'[p].clean = FALSE
<1>1. proc' = [p \in Procs |-> Idle]
  BY DEF Crash
<1>2. /\ Idle.at = "idle" /\ Idle.scan = 0 /\ Idle.page = 0 /\ Idle.todo = {}
      /\ Idle.left = {} /\ Idle.clean = FALSE
  BY DEF Idle
<1> QED
  BY <1>1, <1>2, IdleFits DEF Crash

-----------------------------------------------------------------------------
(* What every step keeps.                                                  *)

Events == {"returned", "asked", "raced", "unread", "removed", "undone", "mistaken", "cut"}

LEMMA FaultsTyped ==
  ASSUME TypeOK, [Next]_vars
  PROVE  faults' \in 0..MaxFaults
<1>1. SaveScan => Fault \/ Fine
  BY DEF SaveScan, CreateScan, SetMat, EncodeM4t, StorePicture, CreateScanPage
<1>2. \A p \in Procs : DeleteScan(p) => Fault \/ Fine
  BY DEF DeleteScan, Select, RemoveFile, DeletePagesForScan, DeleteScanRow, Fine
<1>3. \A p \in Tasks : DeleteAllScansFromBefore(p) \/ LoadScan(p) => Fault \/ Fine
  BY DEF DeleteAllScansFromBefore, PurgeNext, Purge, LoadScan, Get, Loaded, Load, Fine
<1>4. \A p \in Tasks, s \in Scans : AskDelete(p, s) => Fault \/ Fine
  BY DEF AskDelete, Fine
<1>5. Fault \/ Fine
  BY <1>1, <1>2, <1>3, <1>4 DEF Next, Crash, vars, Fine
<1> QED
  BY <1>5, BoundsAssumption DEF TypeOK, Fault, Fine

LEMMA PastTyped ==
  ASSUME TypeOK, Roles, [Next]_vars
  PROVE  past' \in [Scans -> SUBSET Events]
<1>1. CASE CreateScan
  BY <1>1, CreateScanDoes DEF TypeOK, Events
<1>2. CASE SetMat
  BY <1>2, SaveFields DEF TypeOK, Events, SetMat, EncodeM4t, Mark
<1>3. CASE StorePicture
  BY <1>3, StorePictureDoes DEF TypeOK, Events
<1>4. CASE CreateScanPage
  BY <1>4, SaveFields DEF TypeOK, Events, CreateScanPage
<1>5. ASSUME NEW p \in Procs, Select(p) PROVE past' \in [Scans -> SUBSET Events]
  BY <1>5, RemovedScan DEF TypeOK, Events, Select, Removing, Mark
<1>6. ASSUME NEW p \in Procs, RemoveFile(p) PROVE past' \in [Scans -> SUBSET Events]
  BY <1>6, RemoveFileDoes DEF TypeOK, Events
<1>7. ASSUME NEW p \in Procs, DeletePagesForScan(p) PROVE past' \in [Scans -> SUBSET Events]
  BY <1>7, DeletePagesForScanDoes DEF TypeOK, Events
<1>8. ASSUME NEW p \in Procs, DeleteScanRow(p) PROVE past' \in [Scans -> SUBSET Events]
  BY <1>8, RemovedScan DEF TypeOK, Events, DeleteScanRow, Removing, Mark
<1>9. ASSUME NEW p \in Tasks, PurgeNext(p) PROVE past' \in [Scans -> SUBSET Events]
  BY <1>9, PurgeNextDoes DEF TypeOK, Events
<1>10. ASSUME NEW p \in Tasks, NEW cutoff \in 2..(MaxScans + 1), Purge(p, cutoff)
       PROVE  past' \in [Scans -> SUBSET Events]
  BY <1>10 DEF TypeOK, Events, Purge
<1>11. ASSUME NEW p \in Tasks, NEW s \in Scans, AskDelete(p, s)
       PROVE  past' \in [Scans -> SUBSET Events]
  BY <1>11 DEF TypeOK, Events, AskDelete, Mark
<1>12. ASSUME NEW p \in Tasks, NEW s \in Scans, Load(p, s)
       PROVE  past' \in [Scans -> SUBSET Events]
  BY <1>12, LoadDoes DEF TypeOK, Events
<1>13. ASSUME NEW p \in Tasks, Get(p) PROVE past' \in [Scans -> SUBSET Events]
  BY <1>13, GetDoes DEF TypeOK, Events, Get, Mark
<1>14. ASSUME NEW p \in Tasks, Loaded(p) PROVE past' \in [Scans -> SUBSET Events]
  BY <1>14, LoadedDoes DEF TypeOK, Events
<1>15. CASE Crash
  BY <1>15, CrashDoes DEF TypeOK, Events
<1>16. CASE UNCHANGED vars
  BY <1>16 DEF vars, TypeOK, Events
<1> QED
  BY <1>1, <1>2, <1>3, <1>4, <1>5, <1>6, <1>7, <1>8, <1>9, <1>10, <1>11, <1>12, <1>13,
     <1>14, <1>15, <1>16
     DEF Next, SaveScan, DeleteScan, DeleteAllScansFromBefore, LoadScan

\* Lists of files are lists of files of the scan.
LEMMA UndoIsOwn ==
  ASSUME TypeOK, Roles, save.at # "idle", NEW mats \in 0..Pages, NEW pics \in 0..Pages
  PROVE  /\ Undo(mats, pics) \subseteq AllFiles
         /\ \A f \in Undo(mats, pics) : f.scan = begun
<1>1. save.scan = begun /\ begun \in Scans
  BY SaveFields
<1>2. \A i \in 1..mats : i \in 1..Pages
  BY PagesAssumption
<1>3. \A i \in 1..pics : i \in 1..Pages
  BY PagesAssumption
<1> QED
  BY <1>1, <1>2, <1>3, Names DEF Undo

LEMMA RemovalsAreOwn ==
  ASSUME NEW s \in Scans
  PROVE  Removals(s) \subseteq AllFiles /\ \A f \in Removals(s) : f.scan = s
<1>1. \A i \in RowsOf(s) : i \in 1..Pages
  BY DEF RowsOf
<1>2. \A f \in Removals(s) : \E i \in RowsOf(s) : f = Pic(s, i) \/ f = Mat(s, i)
  BY DEF Removals, FilesOfRows
<1> QED
  BY <1>1, <1>2, Names

LEMMA PagesLeft ==
  ASSUME TypeOK, Roles, Saving
  PROVE  /\ save.page \in 1..Pages /\ save.page - 1 \in 0..Pages /\ save.page \in 0..Pages
         /\ save.at # "idle"
<1>1. save.page \in 0..Pages
  BY SaveFields DEF Doing
<1>2. save.page # 0 /\ save.at # "idle"
  BY DEF Roles, SaverRole, Saving
<1> QED
  BY <1>1, <1>2, PagesAssumption

LEMMA Nothing ==
  /\ 0 \in 0..Pages /\ 1 \in 0..Pages /\ 0 \in Scans \cup {0}
  /\ {} \subseteq AllFiles /\ {} \subseteq Scans
  /\ \A s : Known(s) \in BOOLEAN
BY PagesAssumption DEF Known

\* Which steps touch the disk.
LEMMA DiskSteps ==
  ASSUME TypeOK, Roles, [Next]_vars
  PROVE  \/ CreateScan \/ SetMat \/ StorePicture \/ CreateScanPage
         \/ \E p \in Procs : RemoveFile(p) \/ DeletePagesForScan(p) \/ DeleteScanRow(p)
         \/ UNCHANGED <<disk, begun>>
<1>1. \A p \in Procs : Select(p) => UNCHANGED <<disk, begun>>
  BY DEF Select
<1>2. \A p \in Tasks : DeleteAllScansFromBefore(p) \/ LoadScan(p) => UNCHANGED <<disk, begun>>
  BY DEF DeleteAllScansFromBefore, PurgeNext, Purge, LoadScan, Get, Loaded, Load
<1>3. \A p \in Tasks, s \in Scans : AskDelete(p, s) => UNCHANGED <<disk, begun>>
  BY DEF AskDelete
<1>4. Crash => UNCHANGED <<disk, begun>>
  BY DEF Crash
<1> QED
  BY <1>1, <1>2, <1>3, <1>4 DEF Next, SaveScan, DeleteScan, vars

DiskType ==
  /\ scanRows \subseteq Scans /\ pageRows \subseteq Scans \X (1..Pages)
  /\ torn \subseteq files /\ files \subseteq AllFiles
  /\ begun \in 0..MaxScans

LEMMA DiskTyped ==
  ASSUME TypeOK, Roles, [Next]_vars
  PROVE  DiskType'
<1>1. CASE CreateScan
  <2>1. begun + 1 \in Scans /\ begun + 1 \in 0..MaxScans
    BY <1>1, CreateScanDoes, BoundsAssumption DEF Scans
  <2> QED
    BY <1>1, <2>1, CreateScanDoes DEF DiskType, TypeOK
<1>2. CASE SetMat
  <2>1. Mat(begun, save.page) \in AllFiles
    BY <1>2, SetMatDoes, PagesLeft, Names DEF Saving
  <2> QED
    BY <1>2, <2>1, SetMatDoes DEF DiskType, TypeOK
<1>3. CASE StorePicture
  <2>1. Pic(begun, save.page) \in AllFiles
    BY <1>3, StorePictureDoes, PagesLeft, Names DEF Saving
  <2> QED
    BY <1>3, <2>1, StorePictureDoes DEF DiskType, TypeOK
<1>4. CASE CreateScanPage
  <2>1. <<begun, save.page>> \in Scans \X (1..Pages)
    BY <1>4, CreateScanPageDoes, PagesLeft DEF Saving
  <2> QED
    BY <1>4, <2>1, CreateScanPageDoes DEF DiskType, TypeOK
<1>5. ASSUME NEW p \in Procs, RemoveFile(p) PROVE DiskType'
  BY <1>5, RemoveFileDoes DEF DiskType, TypeOK
<1>6. ASSUME NEW p \in Procs, DeletePagesForScan(p) PROVE DiskType'
  BY <1>6, DeletePagesForScanDoes DEF DiskType, TypeOK
<1>7. ASSUME NEW p \in Procs, DeleteScanRow(p) PROVE DiskType'
  BY <1>7, DeleteScanRowDoes DEF DiskType, TypeOK
<1>8. CASE UNCHANGED <<disk, begun>>
  BY <1>8 DEF DiskType, TypeOK, disk
<1> QED
  BY <1>1, <1>2, <1>3, <1>4, <1>5, <1>6, <1>7, <1>8, DiskSteps

LEMMA ProcTyped ==
  ASSUME TypeOK, Roles, \A p \in Tasks : Loads(p), [Next]_vars
  PROVE  proc' \in [Procs -> Doing]
<1>1. CASE CreateScan
  BY <1>1, CreateScanDoes, Fields, SaveFields, Nothing DEF Becomes, Fits, Places
<1>2. CASE SetMat
  BY <1>2, SetMatDoes, SaveFields, PagesLeft, UndoIsOwn
     DEF Becomes, Fits, Places, Saving, Doing
<1>3. CASE StorePicture
  BY <1>3, StorePictureDoes, SaveFields, PagesLeft, UndoIsOwn
     DEF Becomes, Fits, Places, Saving, Doing
<1>4. CASE CreateScanPage
  <2>1. save.page # Pages => save.page + 1 \in 0..Pages
    BY <1>4, CreateScanPageDoes, PagesLeft, PagesAssumption DEF Saving
  <2> QED
    BY <1>4, <2>1, CreateScanPageDoes, SaveFields, PagesLeft, UndoIsOwn, Nothing
       DEF Becomes, Fits, Places, Saving, Doing
<1>5. ASSUME NEW p \in Procs, Select(p) PROVE proc' \in [Procs -> Doing]
  BY <1>5, SelectDoes, Fields, RemovalsAreOwn DEF Becomes, Fits, Places
<1>6. ASSUME NEW p \in Procs, RemoveFile(p) PROVE proc' \in [Procs -> Doing]
  BY <1>6, RemoveFileDoes, Fields DEF Becomes, Fits, Places
<1>7. ASSUME NEW p \in Procs, DeletePagesForScan(p) PROVE proc' \in [Procs -> Doing]
  BY <1>7, DeletePagesForScanDoes, Fields DEF Becomes, Fits, Places
<1>8. ASSUME NEW p \in Procs, DeleteScanRow(p) PROVE proc' \in [Procs -> Doing]
  BY <1>8, DeleteScanRowDoes, Fields, Nothing DEF Becomes, Fits, Places
<1>9. ASSUME NEW p \in Tasks, PurgeNext(p) PROVE proc' \in [Procs -> Doing]
  BY <1>9, PurgeNextDoes, Fields, Nothing DEF Becomes, Fits, Places, Procs
<1>10. ASSUME NEW p \in Tasks, NEW cutoff \in 2..(MaxScans + 1), Purge(p, cutoff)
       PROVE  proc' \in [Procs -> Doing]
  BY <1>10, PurgeDoes, Fields, Nothing DEF Becomes, Fits, Places, TypeOK
<1>11. ASSUME NEW p \in Tasks, NEW s \in Scans, AskDelete(p, s)
       PROVE  proc' \in [Procs -> Doing]
  BY <1>11, AskDeleteDoes, Nothing DEF Becomes, Fits, Places
<1>12. ASSUME NEW p \in Tasks, NEW s \in Scans, Load(p, s) PROVE proc' \in [Procs -> Doing]
  <2> DEFINE todo == {Mat(s, i) : i \in RowsOf(s)}
  <2>1. todo \subseteq AllFiles
    BY Names DEF RowsOf
  <2>2. Becomes(p, "loading", s, 0, todo, {}, FALSE)
    BY <1>12, LoadDoes
  <2> HIDE DEF todo
  <2> QED
    BY <2>1, <2>2, Nothing DEF Becomes, Fits, Places
<1>13. ASSUME NEW p \in Tasks, Get(p) PROVE proc' \in [Procs -> Doing]
  <2>1. \A f \in proc[p].todo : proc[p].at = "loading" => proc[p].page + 1 \in 0..Pages
    BY PagesAssumption, Fields DEF Loads, Procs, Fits
  <2> QED
    BY <1>13, <2>1, GetDoes, Fields, Nothing DEF Becomes, Fits, Places, Procs
<1>14. ASSUME NEW p \in Tasks, Loaded(p) PROVE proc' \in [Procs -> Doing]
  BY <1>14, LoadedDoes, Nothing DEF Becomes, Fits, Places
<1>15. CASE Crash
  BY <1>15, CrashDoes
<1>16. CASE UNCHANGED vars
  BY <1>16, Fields, SaveFields DEF vars
<1> QED
  BY <1>1, <1>2, <1>3, <1>4, <1>5, <1>6, <1>7, <1>8, <1>9, <1>10, <1>11, <1>12, <1>13,
     <1>14, <1>15, <1>16
     DEF Next, SaveScan, DeleteScan, DeleteAllScansFromBefore, LoadScan

LEMMA TypeOKStep ==
  ASSUME TypeOK, Roles, \A p \in Tasks : Loads(p), [Next]_vars
  PROVE  TypeOK'
BY FaultsTyped, PastTyped, DiskTyped, ProcTyped DEF TypeOK, DiskType, Events, Doing, Places

-----------------------------------------------------------------------------
(* What a step may do to a scan, and which goroutine moves.                *)

\* Only SaveScan makes files and rows, of its scan,
LEMMA NewFiles ==
  ASSUME TypeOK, Roles, [Next]_vars, NEW f \in files'
  PROVE  f \in files \/ (Saving /\ f.scan = begun)
<1>1. CASE CreateScan
  BY <1>1, CreateScanDoes
<1>2. CASE SetMat
  <2>1. save.at = "mat" /\ files' \subseteq files \cup {Mat(begun, save.page)}
    BY <1>2, SetMatDoes
  <2> QED
    BY <1>2, <2>1, Names DEF Saving
<1>3. CASE StorePicture
  <2>1. save.at = "pic" /\ files' \subseteq files \cup {Pic(begun, save.page)}
    BY <1>3, StorePictureDoes
  <2> QED
    BY <1>3, <2>1, Names DEF Saving
<1>4. CASE CreateScanPage
  BY <1>4, CreateScanPageDoes
<1>5. ASSUME NEW p \in Procs, RemoveFile(p) PROVE f \in files \/ (Saving /\ f.scan = begun)
  BY <1>5, RemoveFileDoes
<1>6. ASSUME NEW p \in Procs, DeletePagesForScan(p)
      PROVE  f \in files \/ (Saving /\ f.scan = begun)
  BY <1>6, DeletePagesForScanDoes
<1>7. ASSUME NEW p \in Procs, DeleteScanRow(p)
      PROVE  f \in files \/ (Saving /\ f.scan = begun)
  BY <1>7, DeleteScanRowDoes
<1>8. CASE UNCHANGED <<disk, begun>>
  BY <1>8 DEF disk
<1> QED
  BY <1>1, <1>2, <1>3, <1>4, <1>5, <1>6, <1>7, <1>8, DiskSteps

LEMMA NewRows ==
  ASSUME TypeOK, Roles, [Next]_vars, NEW row \in pageRows'
  PROVE  row \in pageRows \/ (Saving /\ row[1] = begun)
<1>1. CASE CreateScan
  BY <1>1, CreateScanDoes
<1>2. CASE SetMat
  BY <1>2, SetMatDoes
<1>3. CASE StorePicture
  BY <1>3, StorePictureDoes
<1>4. CASE CreateScanPage
  <2>1. save.at = "row" /\ pageRows' \subseteq pageRows \cup {<<begun, save.page>>}
    BY <1>4, CreateScanPageDoes
  <2> QED
    BY <1>4, <2>1 DEF Saving
<1>5. ASSUME NEW p \in Procs, RemoveFile(p)
      PROVE  row \in pageRows \/ (Saving /\ row[1] = begun)
  BY <1>5, RemoveFileDoes
<1>6. ASSUME NEW p \in Procs, DeletePagesForScan(p)
      PROVE  row \in pageRows \/ (Saving /\ row[1] = begun)
  BY <1>6, DeletePagesForScanDoes
<1>7. ASSUME NEW p \in Procs, DeleteScanRow(p)
      PROVE  row \in pageRows \/ (Saving /\ row[1] = begun)
  BY <1>7, DeleteScanRowDoes
<1>8. CASE UNCHANGED <<disk, begun>>
  BY <1>8 DEF disk
<1> QED
  BY <1>1, <1>2, <1>3, <1>4, <1>5, <1>6, <1>7, <1>8, DiskSteps

LEMMA NewScans ==
  ASSUME TypeOK, Roles, [Next]_vars, NEW t \in scanRows'
  PROVE  t \in scanRows \/ (t = begun + 1 /\ begun' = t)
<1>1. CASE CreateScan
  <2>1. begun' = begun + 1 /\ scanRows' \subseteq scanRows \cup {begun + 1}
    BY <1>1, CreateScanDoes
  <2> QED
    BY <1>1, <2>1
<1>2. CASE SetMat
  BY <1>2, SetMatDoes
<1>3. CASE StorePicture
  BY <1>3, StorePictureDoes
<1>4. CASE CreateScanPage
  BY <1>4, CreateScanPageDoes
<1>5. ASSUME NEW p \in Procs, RemoveFile(p)
      PROVE  t \in scanRows \/ (t = begun + 1 /\ begun' = t)
  BY <1>5, RemoveFileDoes
<1>6. ASSUME NEW p \in Procs, DeletePagesForScan(p)
      PROVE  t \in scanRows \/ (t = begun + 1 /\ begun' = t)
  BY <1>6, DeletePagesForScanDoes
<1>7. ASSUME NEW p \in Procs, DeleteScanRow(p)
      PROVE  t \in scanRows \/ (t = begun + 1 /\ begun' = t)
  BY <1>7, DeleteScanRowDoes
<1>8. CASE UNCHANGED <<disk, begun>>
  BY <1>8 DEF disk
<1> QED
  BY <1>1, <1>2, <1>3, <1>4, <1>5, <1>6, <1>7, <1>8, DiskSteps

\* and only SetMat tears a file of it, which stays torn while it is there.
LEMMA NewTorn ==
  ASSUME TypeOK, Roles, [Next]_vars, NEW f \in torn'
  PROVE  f \in torn \/ (Saving /\ f.scan = begun)
<1>1. CASE CreateScan
  BY <1>1, CreateScanDoes
<1>2. CASE SetMat
  <2>1. save.at = "mat" /\ torn' \subseteq torn \cup {Mat(begun, save.page)}
    BY <1>2, SetMatDoes
  <2> QED
    BY <1>2, <2>1, Names DEF Saving
<1>3. CASE StorePicture
  BY <1>3, StorePictureDoes
<1>4. CASE CreateScanPage
  BY <1>4, CreateScanPageDoes
<1>5. ASSUME NEW p \in Procs, RemoveFile(p) PROVE f \in torn \/ (Saving /\ f.scan = begun)
  BY <1>5, RemoveFileDoes
<1>6. ASSUME NEW p \in Procs, DeletePagesForScan(p)
      PROVE  f \in torn \/ (Saving /\ f.scan = begun)
  BY <1>6, DeletePagesForScanDoes
<1>7. ASSUME NEW p \in Procs, DeleteScanRow(p)
      PROVE  f \in torn \/ (Saving /\ f.scan = begun)
  BY <1>7, DeleteScanRowDoes
<1>8. CASE UNCHANGED <<disk, begun>>
  BY <1>8 DEF disk
<1> QED
  BY <1>1, <1>2, <1>3, <1>4, <1>5, <1>6, <1>7, <1>8, DiskSteps

LEMMA StaysTorn ==
  ASSUME TypeOK, Roles, [Next]_vars, NEW f \in files', f \in torn
  PROVE  f \in torn'
<1>1. CASE CreateScan
  BY <1>1, CreateScanDoes
<1>2. CASE SetMat
  BY <1>2, SetMatDoes
<1>3. CASE StorePicture
  BY <1>3, StorePictureDoes
<1>4. CASE CreateScanPage
  BY <1>4, CreateScanPageDoes
<1>5. ASSUME NEW p \in Procs, RemoveFile(p) PROVE f \in torn'
  BY <1>5, RemoveFileDoes
<1>6. ASSUME NEW p \in Procs, DeletePagesForScan(p) PROVE f \in torn'
  BY <1>6, DeletePagesForScanDoes
<1>7. ASSUME NEW p \in Procs, DeleteScanRow(p) PROVE f \in torn'
  BY <1>7, DeleteScanRowDoes
<1>8. CASE UNCHANGED <<disk, begun>>
  BY <1>8 DEF disk
<1> QED
  BY <1>1, <1>2, <1>3, <1>4, <1>5, <1>6, <1>7, <1>8, DiskSteps

\* Only those who remove a scan make what is there of it disappear.
LEMMA LostFiles ==
  ASSUME TypeOK, Roles, [Next]_vars, NEW f \in files, f \notin files'
  PROVE  \E q \in Procs : proc[q].at = "removing" /\ proc[q].scan = f.scan
<1>1. CASE CreateScan
  BY <1>1, CreateScanDoes
<1>2. CASE SetMat
  BY <1>2, SetMatDoes
<1>3. CASE StorePicture
  BY <1>3, StorePictureDoes
<1>4. CASE CreateScanPage
  BY <1>4, CreateScanPageDoes
<1>5. ASSUME NEW p \in Procs, RemoveFile(p)
      PROVE  \E q \in Procs : proc[q].at = "removing" /\ proc[q].scan = f.scan
  BY <1>5, RemoveFileDoes DEF Roles, OwnFiles
<1>6. ASSUME NEW p \in Procs, DeletePagesForScan(p)
      PROVE  \E q \in Procs : proc[q].at = "removing" /\ proc[q].scan = f.scan
  BY <1>6, DeletePagesForScanDoes
<1>7. ASSUME NEW p \in Procs, DeleteScanRow(p)
      PROVE  \E q \in Procs : proc[q].at = "removing" /\ proc[q].scan = f.scan
  BY <1>7, DeleteScanRowDoes
<1>8. CASE UNCHANGED <<disk, begun>>
  BY <1>8 DEF disk
<1> QED
  BY <1>1, <1>2, <1>3, <1>4, <1>5, <1>6, <1>7, <1>8, DiskSteps

LEMMA LostRows ==
  ASSUME TypeOK, Roles, [Next]_vars, NEW row \in pageRows, row \notin pageRows'
  PROVE  \E q \in Procs : DeletePagesForScan(q) /\ proc[q].scan = row[1]
<1>1. CASE CreateScan
  BY <1>1, CreateScanDoes
<1>2. CASE SetMat
  BY <1>2, SetMatDoes
<1>3. CASE StorePicture
  BY <1>3, StorePictureDoes
<1>4. CASE CreateScanPage
  BY <1>4, CreateScanPageDoes
<1>5. ASSUME NEW p \in Procs, RemoveFile(p)
      PROVE  \E q \in Procs : DeletePagesForScan(q) /\ proc[q].scan = row[1]
  BY <1>5, RemoveFileDoes
<1>6. ASSUME NEW p \in Procs, DeletePagesForScan(p)
      PROVE  \E q \in Procs : DeletePagesForScan(q) /\ proc[q].scan = row[1]
  BY <1>6, DeletePagesForScanDoes
<1>7. ASSUME NEW p \in Procs, DeleteScanRow(p)
      PROVE  \E q \in Procs : DeletePagesForScan(q) /\ proc[q].scan = row[1]
  BY <1>7, DeleteScanRowDoes
<1>8. CASE UNCHANGED <<disk, begun>>
  BY <1>8 DEF disk
<1> QED
  BY <1>1, <1>2, <1>3, <1>4, <1>5, <1>6, <1>7, <1>8, DiskSteps

LEMMA LostScans ==
  ASSUME TypeOK, Roles, [Next]_vars, NEW t \in scanRows, t \notin scanRows'
  PROVE  \E q \in Procs : DeleteScanRow(q) /\ proc[q].scan = t
<1>1. CASE CreateScan
  BY <1>1, CreateScanDoes
<1>2. CASE SetMat
  BY <1>2, SetMatDoes
<1>3. CASE StorePicture
  BY <1>3, StorePictureDoes
<1>4. CASE CreateScanPage
  BY <1>4, CreateScanPageDoes
<1>5. ASSUME NEW p \in Procs, RemoveFile(p)
      PROVE  \E q \in Procs : DeleteScanRow(q) /\ proc[q].scan = t
  BY <1>5, RemoveFileDoes
<1>6. ASSUME NEW p \in Procs, DeletePagesForScan(p)
      PROVE  \E q \in Procs : DeleteScanRow(q) /\ proc[q].scan = t
  BY <1>6, DeletePagesForScanDoes
<1>7. ASSUME NEW p \in Procs, DeleteScanRow(p)
      PROVE  \E q \in Procs : DeleteScanRow(q) /\ proc[q].scan = t
  <2>1. scanRows' = scanRows \/ scanRows' = scanRows \ {proc[p].scan}
    BY <1>7, DeleteScanRowDoes
  <2> QED
    BY <1>7, <2>1
<1>8. CASE UNCHANGED <<disk, begun>>
  BY <1>8 DEF disk
<1> QED
  BY <1>1, <1>2, <1>3, <1>4, <1>5, <1>6, <1>7, <1>8, DiskSteps

\* What has happened stays, and only begun scans have a past.
PastOf(t) ==
  \/ past'[t] = past[t]
  \/ past'[t] = past[t] \cup {"cut"} /\ SetMat /\ t = begun
  \/ /\ CreateScanPage /\ t = begun
     /\ past'[t] = past[t] \cup {"returned"} \cup IF Asked(t) THEN {"raced"} ELSE {}
  \/ past'[t] = past[t] \cup {"unread"} /\ \E p \in Tasks : Select(p) /\ proc[p].scan = t
  \/ past'[t] = past[t] \cup {"asked"} /\ (t \in scanRows \/ Known(t))
  \/ past'[t] = past[t] \cup {"mistaken"} /\ \E p \in Tasks : Get(p) /\ proc[p].scan = t
  \/ \E p \in Procs : /\ DeleteScanRow(p) /\ proc[p].scan = t
                      /\ \/ past'[t] = past[t]
                         \/ past'[t] = past[t] \cup {"undone"} /\ p = Saver
                         \/ /\ past'[t] = past[t] \cup {"removed"} /\ p # Saver
                            /\ proc[p].clean /\ scanRows' = scanRows \ {t}

LEMMA Pasts ==
  ASSUME TypeOK, Roles, [Next]_vars, NEW t \in Scans
  PROVE  PastOf(t)
<1>1. CASE CreateScan
  BY <1>1, CreateScanDoes DEF PastOf
<1>2. CASE SetMat
  <2>1. \/ UNCHANGED past
        \/ /\ past'[begun] = past[begun] \cup {"cut"}
           /\ \A u \in Scans \ {begun} : past'[u] = past[u]
    BY <1>2, SetMatDoes
  <2> QED
    BY <1>2, <2>1 DEF PastOf
<1>3. CASE StorePicture
  BY <1>3, StorePictureDoes DEF PastOf
<1>4. CASE CreateScanPage
  <2>1. \/ UNCHANGED past
        \/ /\ past'[begun] = past[begun] \cup {"returned"} \cup
                               IF Asked(begun) THEN {"raced"} ELSE {}
           /\ \A u \in Scans \ {begun} : past'[u] = past[u]
    BY <1>4, CreateScanPageDoes
  <2> QED
    BY <1>4, <2>1 DEF PastOf
<1>5. ASSUME NEW p \in Procs, Select(p) PROVE PastOf(t)
  <2>0. p \in Tasks
    BY <1>5, SelectDoes
  <2>1. \/ UNCHANGED past
        \/ /\ past'[proc[p].scan] = past[proc[p].scan] \cup {"unread"}
           /\ \A u \in Scans \ {proc[p].scan} : past'[u] = past[u]
    BY <1>5, SelectDoes
  <2> QED
    BY <1>5, <2>1, <2>0 DEF PastOf
<1>6. ASSUME NEW p \in Procs, RemoveFile(p) PROVE PastOf(t)
  BY <1>6, RemoveFileDoes DEF PastOf
<1>7. ASSUME NEW p \in Procs, DeletePagesForScan(p) PROVE PastOf(t)
  BY <1>7, DeletePagesForScanDoes DEF PastOf
<1>8. ASSUME NEW p \in Procs, DeleteScanRow(p) PROVE PastOf(t)
  <2>1. \A u \in Scans \ {proc[p].scan} : past'[u] = past[u]
    BY <1>8, DeleteScanRowDoes
  <2>2. PICK events \in SUBSET {"removed", "undone"} :
          /\ past'[proc[p].scan] = past[proc[p].scan] \cup events
          /\ "removed" \in events => proc[p].clean /\ scanRows' = scanRows \ {proc[p].scan}
          /\ "undone" \in events => p = Saver
    BY <1>8, DeleteScanRowDoes
  <2>3. p = Saver => ~proc[p].clean
    BY SaveFields DEF save
  <2>4. events = {} \/ events = {"removed"} \/ events = {"undone"}
    BY <2>2, <2>3
  <2> QED
    BY <1>8, <2>1, <2>2, <2>3, <2>4 DEF PastOf
<1>9. ASSUME NEW p \in Tasks, PurgeNext(p) PROVE PastOf(t)
  BY <1>9, PurgeNextDoes DEF PastOf
<1>10. ASSUME NEW p \in Tasks, NEW cutoff \in 2..(MaxScans + 1), Purge(p, cutoff)
       PROVE  PastOf(t)
  <2>1. PICK rows \in SUBSET scanRows :
          \A s \in Scans : past'[s] = IF s \in rows THEN past[s] \cup {"asked"} ELSE past[s]
    BY <1>10, PurgeDoes
  <2> QED
    BY <2>1 DEF PastOf
<1>11. ASSUME NEW p \in Tasks, NEW s \in Scans, AskDelete(p, s) PROVE PastOf(t)
  <2>1. /\ past'[s] = past[s] \cup {"asked"}
        /\ \A u \in Scans \ {s} : past'[u] = past[u]
    BY <1>11, AskDeleteDoes
  <2> QED
    BY <1>11, <2>1, AskDeleteDoes DEF PastOf
<1>12. ASSUME NEW p \in Tasks, NEW s \in Scans, Load(p, s) PROVE PastOf(t)
  BY <1>12, LoadDoes DEF PastOf
<1>13. ASSUME NEW p \in Tasks, Get(p) PROVE PastOf(t)
  <2>1. \/ UNCHANGED past
        \/ /\ past'[proc[p].scan] = past[proc[p].scan] \cup {"mistaken"}
           /\ \A u \in Scans \ {proc[p].scan} : past'[u] = past[u]
    BY <1>13, GetDoes
  <2> QED
    BY <1>13, <2>1 DEF PastOf
<1>14. ASSUME NEW p \in Tasks, Loaded(p) PROVE PastOf(t)
  BY <1>14, LoadedDoes DEF PastOf
<1>15. CASE Crash
  BY <1>15, CrashDoes DEF PastOf
<1>16. CASE UNCHANGED vars
  BY <1>16 DEF vars, PastOf
<1> QED
  BY <1>1, <1>2, <1>3, <1>4, <1>5, <1>6, <1>7, <1>8, <1>9, <1>10, <1>11, <1>12, <1>13,
     <1>14, <1>15, <1>16
     DEF Next, SaveScan, DeleteScan, DeleteAllScansFromBefore, LoadScan

LEMMA PastGrows ==
  ASSUME TypeOK, Roles, [Next]_vars, NEW t \in Scans
  PROVE  past[t] \subseteq past'[t]
BY Pasts DEF PastOf

LEMMA OnlyBegunHavePast ==
  ASSUME TypeOK, Roles, Begun, [Next]_vars, NEW t \in Scans, t > begun
  PROVE  past'[t] = past[t]
<1>1. t # begun /\ t \notin scanRows /\ ~Known(t)
  BY DEF Begun, Unborn, Known, Scans, TypeOK
<1>2. \A p \in Procs : Removing(p) => proc[p].scan # t
  BY RemovedScan DEF TypeOK, Scans
<1>3. \A p \in Tasks : proc[p].at = "loading" => proc[p].scan # t
  <2>1. begun \in Nat
    BY DEF TypeOK
  <2>2. \A p \in Tasks : proc[p].at = "loading" => proc[p].scan \in 1..begun
    BY DEF Roles, TaskRole, Loading
  <2> QED
    BY <2>1, <2>2 DEF Scans
<1>4. \A p \in Tasks : Get(p) => proc[p].at = "loading"
  BY DEF Get
<1>5. \A p \in Procs : Select(p) \/ DeleteScanRow(p) => Removing(p)
  BY DEF Select, DeleteScanRow, Removing
<1> QED
  BY <1>1, <1>2, <1>3, <1>4, <1>5, Pasts DEF PastOf, Procs

\* Scans are numbered as they begin.
LEMMA BegunGrows ==
  ASSUME TypeOK, Roles, [Next]_vars
  PROVE  begun' = begun \/ (CreateScan /\ begun' = begun + 1)
<1>1. CASE CreateScan
  BY <1>1, CreateScanDoes
<1>2. CASE SetMat
  BY <1>2, SetMatDoes
<1>3. CASE StorePicture
  BY <1>3, StorePictureDoes
<1>4. CASE CreateScanPage
  BY <1>4, CreateScanPageDoes
<1>5. ASSUME NEW p \in Procs, RemoveFile(p)
      PROVE  begun' = begun \/ (CreateScan /\ begun' = begun + 1)
  BY <1>5, RemoveFileDoes
<1>6. ASSUME NEW p \in Procs, DeletePagesForScan(p)
      PROVE  begun' = begun \/ (CreateScan /\ begun' = begun + 1)
  BY <1>6, DeletePagesForScanDoes
<1>7. ASSUME NEW p \in Procs, DeleteScanRow(p)
      PROVE  begun' = begun \/ (CreateScan /\ begun' = begun + 1)
  BY <1>7, DeleteScanRowDoes
<1>8. CASE UNCHANGED <<disk, begun>>
  BY <1>8 DEF disk
<1> QED
  BY <1>1, <1>2, <1>3, <1>4, <1>5, <1>6, <1>7, <1>8, DiskSteps

\* A goroutine rests, or the step is its own, or the process dies.
Moved(q) ==
  \/ proc'[q] = proc[q] \/ Crash \/ DeleteScan(q)
  \/ q = Saver /\ SaveScan
  \/ q \in Tasks /\ \/ DeleteAllScansFromBefore(q) \/ LoadScan(q)
                    \/ \E s \in Scans : AskDelete(q, s)

LEMMA Moves ==
  ASSUME TypeOK, Roles, [Next]_vars, NEW q \in Procs
  PROVE  Moved(q)
<1>1. CASE CreateScan
  <2>1. q # Saver => proc'[q] = proc[q]
    BY <1>1, CreateScanDoes DEF Becomes, Procs
  <2> QED
    BY <1>1, <2>1 DEF Moved, SaveScan, DeleteScan, DeleteAllScansFromBefore, LoadScan
<1>2. CASE SetMat
  <2>1. q # Saver => proc'[q] = proc[q]
    BY <1>2, SetMatDoes DEF Becomes, Procs
  <2> QED
    BY <1>2, <2>1 DEF Moved, SaveScan, DeleteScan, DeleteAllScansFromBefore, LoadScan
<1>3. CASE StorePicture
  <2>1. q # Saver => proc'[q] = proc[q]
    BY <1>3, StorePictureDoes DEF Becomes, Procs
  <2> QED
    BY <1>3, <2>1 DEF Moved, SaveScan, DeleteScan, DeleteAllScansFromBefore, LoadScan
<1>4. CASE CreateScanPage
  <2>1. q # Saver => proc'[q] = proc[q]
    BY <1>4, CreateScanPageDoes DEF Becomes, Procs
  <2> QED
    BY <1>4, <2>1 DEF Moved, SaveScan, DeleteScan, DeleteAllScansFromBefore, LoadScan
<1>5. ASSUME NEW p \in Procs, Select(p) PROVE Moved(q)
  <2>1. q # p => proc'[q] = proc[q]
    BY <1>5, SelectDoes DEF Becomes, Procs
  <2> QED
    BY <1>5, <2>1 DEF Moved, SaveScan, DeleteScan, DeleteAllScansFromBefore, LoadScan
<1>6. ASSUME NEW p \in Procs, RemoveFile(p) PROVE Moved(q)
  <2>1. q # p => proc'[q] = proc[q]
    BY <1>6, RemoveFileDoes DEF Becomes, Procs
  <2> QED
    BY <1>6, <2>1 DEF Moved, SaveScan, DeleteScan, DeleteAllScansFromBefore, LoadScan
<1>7. ASSUME NEW p \in Procs, DeletePagesForScan(p) PROVE Moved(q)
  <2>1. q # p => proc'[q] = proc[q]
    BY <1>7, DeletePagesForScanDoes DEF Becomes, Procs
  <2> QED
    BY <1>7, <2>1 DEF Moved, SaveScan, DeleteScan, DeleteAllScansFromBefore, LoadScan
<1>8. ASSUME NEW p \in Procs, DeleteScanRow(p) PROVE Moved(q)
  <2>1. q # p => proc'[q] = proc[q]
    BY <1>8, DeleteScanRowDoes DEF Becomes, Procs
  <2> QED
    BY <1>8, <2>1 DEF Moved, SaveScan, DeleteScan, DeleteAllScansFromBefore, LoadScan
<1>9. ASSUME NEW p \in Tasks, PurgeNext(p) PROVE Moved(q)
  <2>1. q # p => proc'[q] = proc[q]
    BY <1>9, PurgeNextDoes DEF Becomes, Procs
  <2> QED
    BY <1>9, <2>1 DEF Moved, SaveScan, DeleteScan, DeleteAllScansFromBefore, LoadScan
<1>10. ASSUME NEW p \in Tasks, NEW cutoff \in 2..(MaxScans + 1), Purge(p, cutoff)
       PROVE  Moved(q)
  <2>1. q # p => proc'[q] = proc[q]
    BY <1>10, PurgeDoes DEF Becomes, Procs
  <2> QED
    BY <1>10, <2>1 DEF Moved, SaveScan, DeleteScan, DeleteAllScansFromBefore, LoadScan
<1>11. ASSUME NEW p \in Tasks, NEW s \in Scans, AskDelete(p, s) PROVE Moved(q)
  <2>1. q # p => proc'[q] = proc[q]
    BY <1>11, AskDeleteDoes DEF Becomes, Procs
  <2> QED
    BY <1>11, <2>1 DEF Moved, SaveScan, DeleteScan, DeleteAllScansFromBefore, LoadScan
<1>12. ASSUME NEW p \in Tasks, NEW s \in Scans, Load(p, s) PROVE Moved(q)
  <2>1. q # p => proc'[q] = proc[q]
    BY <1>12, LoadDoes DEF Becomes, Procs
  <2> QED
    BY <1>12, <2>1 DEF Moved, SaveScan, DeleteScan, DeleteAllScansFromBefore, LoadScan
<1>13. ASSUME NEW p \in Tasks, Get(p) PROVE Moved(q)
  <2>1. q # p => proc'[q] = proc[q]
    BY <1>13, GetDoes DEF Becomes, Procs
  <2> QED
    BY <1>13, <2>1 DEF Moved, SaveScan, DeleteScan, DeleteAllScansFromBefore, LoadScan
<1>14. ASSUME NEW p \in Tasks, Loaded(p) PROVE Moved(q)
  <2>1. q # p => proc'[q] = proc[q]
    BY <1>14, LoadedDoes DEF Becomes, Procs
  <2> QED
    BY <1>14, <2>1 DEF Moved, SaveScan, DeleteScan, DeleteAllScansFromBefore, LoadScan
<1>15. CASE Crash
  BY <1>15 DEF Moved
<1>16. CASE UNCHANGED vars
  BY <1>16 DEF vars, Moved
<1> QED
  BY <1>1, <1>2, <1>3, <1>4, <1>5, <1>6, <1>7, <1>8, <1>9, <1>10, <1>11, <1>12, <1>13,
     <1>14, <1>15, <1>16
     DEF Next, SaveScan, DeleteScan, DeleteAllScansFromBefore, LoadScan

-----------------------------------------------------------------------------
(* Roles and Begun.                                                        *)

LEMMA BegunStep ==
  ASSUME TypeOK, Roles, Begun, [Next]_vars, NEW t \in Scans, t > begun'
  PROVE  Unborn(t)'
<1>1. begun \in Nat /\ t > begun /\ t # begun
  BY BegunGrows DEF TypeOK, Scans
<1>2. Unborn(t)
  BY <1>1 DEF Begun
<1>3. past'[t] = {}
  BY <1>1, <1>2, OnlyBegunHavePast DEF Unborn
<1>4. t \notin scanRows'
  BY <1>2, NewScans DEF Unborn, Scans
<1>5. \A row \in pageRows' : row[1] # t
  BY <1>1, <1>2, NewRows DEF Unborn
<1>6. \A f \in files' : f.scan # t
  BY <1>1, <1>2, NewFiles DEF Unborn
<1> QED
  BY <1>3, <1>4, <1>5, <1>6 DEF Unborn

LEMMA SaverRoleStep ==
  ASSUME TypeOK, Roles, [Next]_vars, Begun
  PROVE  SaverRole'
<1>0. Saver \in Procs
  BY DEF Procs
<1>1. CASE save' = save
  <2>1. save.at # "idle" => begun' = begun
    BY BegunGrows DEF CreateScan
  <2>2. save.at # "idle" => past'[begun] \cap {"returned", "undone"} = {}
    <3> SUFFICES ASSUME save.at # "idle"
                 PROVE  past'[begun] \cap {"returned", "undone"} = {}
      OBVIOUS
    <3>1. begun \in Scans /\ past[begun] \cap {"returned", "undone"} = {}
      BY SaveFields DEF Roles, SaverRole
    <3>2. ~CreateScanPage
      BY <1>1, CreateScanPageDoes DEF Becomes, save
    <3>3. ~DeleteScanRow(Saver)
      BY <1>0, <1>1, DeleteScanRowDoes DEF Becomes, save
    <3> QED
      BY <3>1, <3>2, <3>3, Pasts DEF PastOf
  <2> QED
    BY <1>1, <2>1, <2>2 DEF Roles, SaverRole, Saving
<1>2. CASE Crash
  BY <1>0, <1>2, CrashDoes DEF SaverRole, Saving, save
<1>3. CASE CreateScan
  <2>0. begun \in Nat /\ begun + 1 # 0 /\ begun + 1 > begun
    BY DEF TypeOK
  <2>1. save.at = "idle" /\ begun' = begun + 1 /\ begun + 1 \in Scans
    BY <1>0, <1>3, CreateScanDoes
  <2>2. \/ Becomes(Saver, "mat", begun + 1, 1, {}, {}, FALSE)
        \/ proc' = proc
    BY <1>0, <1>3, CreateScanDoes
  <2>3. past'[begun + 1] = {}
    BY <2>0, <2>1, OnlyBegunHavePast DEF Begun, Unborn
  <2>4. CASE proc' = proc
    BY <2>1, <2>4 DEF Roles, SaverRole, Saving, save
  <2>5. CASE Becomes(Saver, "mat", begun + 1, 1, {}, {}, FALSE)
    BY <2>0, <2>1, <2>3, <2>5 DEF SaverRole, Saving, Becomes, save
  <2> QED
    BY <2>2, <2>4, <2>5
<1>4. CASE SetMat
  <2>1. save.at = "mat" /\ begun' = begun /\ begun # 0
    BY <1>0, <1>4, SetMatDoes DEF Roles, SaverRole
  <2>2. past'[begun] \cap {"returned", "undone"} = {}
    <3>1. past[begun] \cap {"returned", "undone"} = {}
      BY <2>1 DEF Roles, SaverRole
    <3>2. past'[begun] = past[begun] \/ past'[begun] = past[begun] \cup {"cut"}
      BY <1>0, <1>4, SetMatDoes
    <3> QED
      BY <3>1, <3>2
  <2>3. \/ Becomes(Saver, "pic", begun, save.page, save.todo, {}, FALSE)
        \/ \E todo : Becomes(Saver, "removing", begun, save.page, todo, {}, FALSE)
    BY <1>0, <1>4, SetMatDoes
  <2> QED
    BY <2>1, <2>2, <2>3 DEF Roles, SaverRole, Saving, Becomes, save
<1>5. CASE StorePicture
  <2>1. save.at = "pic" /\ begun' = begun /\ begun # 0 /\ past' = past
    BY <1>0, <1>5, StorePictureDoes DEF Roles, SaverRole
  <2>2. past'[begun] \cap {"returned", "undone"} = {}
    BY <2>1 DEF Roles, SaverRole
  <2>3. \/ Becomes(Saver, "row", begun, save.page, save.todo, {}, FALSE)
        \/ \E todo : Becomes(Saver, "removing", begun, save.page, todo, {}, FALSE)
    BY <1>0, <1>5, StorePictureDoes
  <2> QED
    BY <2>1, <2>2, <2>3 DEF Roles, SaverRole, Saving, Becomes, save
<1>6. CASE CreateScanPage
  <2>0. save.page + 1 # 0
    BY SaveFields DEF Doing
  <2>1. save.at = "row" /\ begun' = begun /\ begun # 0
    BY <1>0, <1>6, CreateScanPageDoes DEF Roles, SaverRole
  <2>2. past' = past => past'[begun] \cap {"returned", "undone"} = {}
    BY <2>1 DEF Roles, SaverRole
  <2>3. \/ Becomes(Saver, "idle", 0, 0, {}, {}, FALSE)
        \/ past' = past /\ Becomes(Saver, "mat", begun, save.page + 1, save.todo, {}, FALSE)
        \/ past' = past /\ \E todo : Becomes(Saver, "removing", begun, save.page, todo, {}, FALSE)
    BY <1>0, <1>6, CreateScanPageDoes
  <2> QED
    BY <2>0, <2>1, <2>2, <2>3 DEF Roles, SaverRole, Saving, Becomes, save
<1>7. CASE RemoveFile(Saver)
  <2>1. begun' = begun /\ past' = past /\ save.at = "removing"
    BY <1>0, <1>7, RemoveFileDoes DEF save
  <2>2. \E todo : Becomes(Saver, "removing", save.scan, save.page, todo, save.left, save.clean)
    BY <1>0, <1>7, RemoveFileDoes DEF save
  <2> QED
    BY <2>1, <2>2 DEF Roles, SaverRole, Saving, Becomes, save
<1>8. CASE DeletePagesForScan(Saver)
  <2>1. begun' = begun /\ past' = past /\ save.at = "removing"
    BY <1>0, <1>8, DeletePagesForScanDoes DEF save
  <2>2. \E clean \in {save.clean, FALSE} :
          Becomes(Saver, "unlisting", save.scan, save.page, save.todo, save.left, clean)
    BY <1>0, <1>8, DeletePagesForScanDoes DEF save
  <2> QED
    BY <2>1, <2>2 DEF Roles, SaverRole, Saving, Becomes, save
<1>9. CASE DeleteScanRow(Saver)
  <2>1. Becomes(Saver, "idle", 0, 0, {}, {}, FALSE)
    BY <1>0, <1>9, DeleteScanRowDoes, SaverAssumption
  <2> QED
    BY <2>1 DEF SaverRole, Saving, Becomes, save
<1>10. ~Select(Saver)
  BY <1>0, SelectDoes, SaverAssumption
<1> QED
  BY <1>0, <1>1, <1>2, <1>3, <1>4, <1>5, <1>6, <1>7, <1>8, <1>9, <1>10,
     Moves, SaverAssumption DEF Moved, DeleteScan, SaveScan, save

LEMMA TaskRoleStep ==
  ASSUME TypeOK, Roles, [Next]_vars, Begun, NEW q \in Tasks
  PROVE  TaskRole(q)'
<1>0. q \in Procs
  BY DEF Procs
<1>1. CASE proc'[q] = proc[q]
  <2>1. begun' >= begun /\ begun \in Nat /\ begun' \in Nat
    BY BegunGrows DEF TypeOK
  <2>2. TaskRole(q)
    BY DEF Roles
  <2> QED
    BY <1>1, <2>1, <2>2, Fields, <1>0 DEF TaskRole, Removing, Loading, Doing, Scans
<1>2. CASE Crash
  BY <1>0, <1>2, CrashDoes DEF TaskRole, Removing, Loading
<1>3. CASE Select(q)
  <2>1. proc'[q].at = "removing" /\ proc'[q].scan = proc[q].scan /\ proc'[q].left = proc[q].left
    BY <1>0, <1>3, SelectDoes DEF Becomes
  <2>2. begun' = begun /\ Removing(q)
    BY <1>0, <1>3, SelectDoes DEF Removing
  <2> QED
    BY <2>1, <2>2 DEF Roles, TaskRole, Removing, Loading
<1>4. CASE RemoveFile(q)
  <2>1. proc'[q].at = "removing" /\ proc'[q].scan = proc[q].scan /\ proc'[q].left = proc[q].left
    BY <1>0, <1>4, RemoveFileDoes DEF Becomes
  <2>2. begun' = begun /\ Removing(q)
    BY <1>0, <1>4, RemoveFileDoes DEF Removing
  <2> QED
    BY <2>1, <2>2 DEF Roles, TaskRole, Removing, Loading
<1>5. CASE DeletePagesForScan(q)
  <2>1. proc'[q].at = "unlisting" /\ proc'[q].scan = proc[q].scan /\ proc'[q].left = proc[q].left
    BY <1>0, <1>5, DeletePagesForScanDoes DEF Becomes
  <2>2. begun' = begun /\ Removing(q)
    BY <1>0, <1>5, DeletePagesForScanDoes DEF Removing
  <2> QED
    BY <2>1, <2>2 DEF Roles, TaskRole, Removing, Loading
<1>6. CASE DeleteScanRow(q)
  <2>1. proc'[q].at \in {"idle", "purging"} /\ proc'[q].left \subseteq proc[q].left
    BY <1>0, <1>6, DeleteScanRowDoes DEF Becomes
  <2>2. begun' = begun
    BY <1>0, <1>6, DeleteScanRowDoes
  <2> QED
    BY <2>1, <2>2 DEF Roles, TaskRole, Removing, Loading
<1>7. CASE PurgeNext(q)
  <2>1. PICK s \in proc[q].left :
          Becomes(q, "selecting", s, 0, {}, proc[q].left \ {s}, Known(s))
    BY <1>0, <1>7, PurgeNextDoes
  <2>2. begun' = begun /\ begun \in Nat /\ s \in Scans /\ s <= begun
    BY <1>0, <1>7, PurgeNextDoes, Fields DEF Roles, TaskRole, Fits, TypeOK
  <2> QED
    BY <2>1, <2>2 DEF Roles, TaskRole, Removing, Loading, Becomes, Scans
<1>8. ASSUME NEW cutoff \in 2..(MaxScans + 1), Purge(q, cutoff) PROVE TaskRole(q)'
  <2>1. proc'[q].at = "purging" /\ proc'[q].left \subseteq scanRows
    BY <1>0, <1>8, PurgeDoes DEF Becomes
  <2>2. \A s \in scanRows : s <= begun
    BY DEF Begun, Unborn, TypeOK, Scans
  <2>3. begun' = begun
    BY <1>0, <1>8, PurgeDoes
  <2> QED
    BY <2>1, <2>2, <2>3 DEF TaskRole, Removing, Loading
<1>9. ASSUME NEW s \in Scans, AskDelete(q, s) PROVE TaskRole(q)'
  <2>1. proc'[q].at = "selecting" /\ proc'[q].scan = s /\ proc'[q].left = {}
    BY <1>0, <1>9, AskDeleteDoes DEF Becomes
  <2>2. begun' = begun /\ Known(s)
    BY <1>0, <1>9, AskDeleteDoes
  <2>3. s \in 1..begun
    BY <2>2 DEF Begun, Unborn, Known, TypeOK, Scans
  <2> QED
    BY <2>1, <2>2, <2>3 DEF TaskRole, Removing, Loading
<1>10. ASSUME NEW s \in Scans, Load(q, s) PROVE TaskRole(q)'
  <2>1. proc'[q].at = "loading" /\ proc'[q].scan = s /\ proc'[q].left = {}
    BY <1>0, <1>10, LoadDoes DEF Becomes
  <2>2. begun' = begun /\ Known(s)
    BY <1>0, <1>10, LoadDoes DEF disk
  <2>3. s \in 1..begun
    BY <2>2 DEF Begun, Unborn, Known, TypeOK, Scans
  <2> QED
    BY <2>1, <2>2, <2>3 DEF TaskRole, Removing, Loading
<1>11. CASE Get(q)
  <2>1. /\ proc'[q].at \in {"loading", "loaded", "selecting"}
        /\ proc'[q].scan = proc[q].scan /\ proc'[q].left \subseteq proc[q].left
    BY <1>0, <1>11, GetDoes DEF Becomes
  <2>2. begun' = begun /\ Loading(q)
    BY <1>0, <1>11, GetDoes DEF Loading
  <2> QED
    BY <2>1, <2>2 DEF Roles, TaskRole, Removing, Loading
<1>12. CASE Loaded(q)
  <2>1. proc'[q].at = "idle" /\ proc'[q].left = {}
    BY <1>0, <1>12, LoadedDoes DEF Becomes
  <2> QED
    BY <2>1 DEF TaskRole, Removing, Loading
<1> QED
  BY <1>0, <1>1, <1>2, <1>3, <1>4, <1>5, <1>6, <1>7, <1>8, <1>9, <1>10, <1>11, <1>12,
     Moves, SaverAssumption
     DEF Moved, DeleteScan, DeleteAllScansFromBefore, LoadScan

LEMMA TaskOwnFilesStep ==
  ASSUME TypeOK, Roles, [Next]_vars, NEW q \in Tasks
  PROVE  OwnFiles(q)'
<1>0. q \in Procs
  BY DEF Procs
<1>1. CASE proc'[q] = proc[q]
  BY <1>0, <1>1 DEF Roles, OwnFiles
<1>2. CASE Crash
  BY <1>0, <1>2, CrashDoes DEF OwnFiles
<1>3. CASE Select(q)
  <2>1. \/ proc'[q].todo = Removals(proc[q].scan)
        \/ proc'[q].todo = proc[q].todo /\ proc[q].at = "selecting"
    BY <1>0, <1>3, SelectDoes DEF Becomes
  <2>3. OwnFiles(q)
    BY <1>0 DEF Roles
  <2>2. proc'[q].scan = proc[q].scan /\ proc[q].scan \in Scans
    BY <1>0, <1>3, SelectDoes DEF Becomes
  <2> QED
    BY <2>1, <2>2, <2>3, RemovalsAreOwn DEF OwnFiles
<1>4. CASE RemoveFile(q)
  <2>1. proc'[q].todo \subseteq proc[q].todo /\ proc'[q].scan = proc[q].scan
    BY <1>0, <1>4, RemoveFileDoes DEF Becomes
  <2> QED
    BY <1>0, <2>1, <1>4, RemoveFileDoes DEF Roles, OwnFiles
<1>5. CASE DeletePagesForScan(q)
  BY <1>0, <1>5, DeletePagesForScanDoes DEF OwnFiles, Becomes
<1>6. CASE DeleteScanRow(q)
  BY <1>0, <1>6, DeleteScanRowDoes DEF OwnFiles, Becomes
<1>7. CASE PurgeNext(q)
  BY <1>0, <1>7, PurgeNextDoes DEF OwnFiles, Becomes
<1>8. ASSUME NEW cutoff \in 2..(MaxScans + 1), Purge(q, cutoff) PROVE OwnFiles(q)'
  BY <1>0, <1>8, PurgeDoes DEF OwnFiles, Becomes
<1>9. ASSUME NEW s \in Scans, AskDelete(q, s) PROVE OwnFiles(q)'
  BY <1>0, <1>9, AskDeleteDoes DEF OwnFiles, Becomes
<1>10. ASSUME NEW s \in Scans, Load(q, s) PROVE OwnFiles(q)'
  BY <1>0, <1>10, LoadDoes DEF OwnFiles, Becomes
<1>11. CASE Get(q)
  <2>1. \/ proc'[q].at \notin {"selecting", "removing"}
        \/ proc'[q].todo = {}
    BY <1>0, <1>11, GetDoes DEF Becomes
  <2> QED
    BY <2>1 DEF OwnFiles
<1>12. CASE Loaded(q)
  BY <1>0, <1>12, LoadedDoes DEF OwnFiles, Becomes
<1> QED
  BY <1>0, <1>1, <1>2, <1>3, <1>4, <1>5, <1>6, <1>7, <1>8, <1>9, <1>10, <1>11, <1>12,
     Moves, SaverAssumption
     DEF Moved, DeleteScan, DeleteAllScansFromBefore, LoadScan

LEMMA SaverOwnFilesStep ==
  ASSUME TypeOK, Roles, [Next]_vars
  PROVE  OwnFiles(Saver)'
<1>0. Saver \in Procs
  BY DEF Procs
<1>1. CASE save' = save
  BY <1>0, <1>1 DEF Roles, OwnFiles, save
<1>2. CASE Crash
  BY <1>0, <1>2, CrashDoes DEF OwnFiles
<1>3. CASE CreateScan
  BY <1>0, <1>3, CreateScanDoes DEF OwnFiles, Becomes, save
<1>4. CASE SetMat
  <2>1. Saving
    BY <1>0, <1>4, SetMatDoes DEF Saving
  <2>2. \/ proc'[Saver].at \notin {"selecting", "removing"}
        \/ /\ proc'[Saver].todo = Undo(save.page - 1, save.page - 1)
           /\ proc'[Saver].scan = begun
    BY <1>0, <1>4, SetMatDoes DEF Becomes
  <2> QED
    BY <2>1, <2>2, PagesLeft, UndoIsOwn DEF OwnFiles
<1>5. CASE StorePicture
  <2>1. Saving
    BY <1>0, <1>5, StorePictureDoes DEF Saving
  <2>2. \/ proc'[Saver].at \notin {"selecting", "removing"}
        \/ /\ \E pics \in {save.page - 1, save.page} : proc'[Saver].todo = Undo(save.page, pics)
           /\ proc'[Saver].scan = begun
    BY <1>0, <1>5, StorePictureDoes DEF Becomes
  <2> QED
    BY <2>1, <2>2, PagesLeft, UndoIsOwn DEF OwnFiles
<1>6. CASE CreateScanPage
  <2>1. Saving
    BY <1>0, <1>6, CreateScanPageDoes DEF Saving
  <2>2. \/ proc'[Saver].at \notin {"selecting", "removing"}
        \/ /\ proc'[Saver].todo = Undo(save.page, save.page)
           /\ proc'[Saver].scan = begun
    BY <1>0, <1>6, CreateScanPageDoes DEF Becomes
  <2> QED
    BY <2>1, <2>2, PagesLeft, UndoIsOwn DEF OwnFiles
<1>7. CASE RemoveFile(Saver)
  <2>1. /\ proc'[Saver].todo \subseteq proc[Saver].todo /\ proc'[Saver].scan = proc[Saver].scan
        /\ proc[Saver].at = "removing"
    BY <1>0, <1>7, RemoveFileDoes DEF Becomes
  <2> QED
    BY <1>0, <2>1 DEF Roles, OwnFiles
<1>8. CASE DeletePagesForScan(Saver)
  BY <1>0, <1>8, DeletePagesForScanDoes DEF OwnFiles, Becomes
<1>9. CASE DeleteScanRow(Saver)
  BY <1>0, <1>9, DeleteScanRowDoes DEF OwnFiles, Becomes
<1>10. ~Select(Saver)
  BY <1>0, SelectDoes, SaverAssumption
<1> QED
  BY <1>0, <1>1, <1>2, <1>3, <1>4, <1>5, <1>6, <1>7, <1>8, <1>9, <1>10,
     Moves, SaverAssumption DEF Moved, DeleteScan, SaveScan, save

LEMMA RolesStep ==
  ASSUME TypeOK, Roles, Begun, [Next]_vars
  PROVE  Roles' /\ Begun'
<1>1. \A p \in Procs : OwnFiles(p)'
  BY TaskOwnFilesStep, SaverOwnFilesStep DEF Procs
<1>2. \A t \in Scans : t > begun' => Unborn(t)'
  BY BegunStep
<1> QED
  BY <1>1, <1>2, SaverRoleStep, TaskRoleStep DEF Roles, Begun

-----------------------------------------------------------------------------
(* Who may remove and what is being loaded.                                *)

LEMMA PastStays ==
  ASSUME TypeOK, Roles, [Next]_vars, NEW t \in Scans
  PROVE  /\ Known(t) => Known(t)'
         /\ Asked(t) => Asked(t)'
         /\ Spared(t)' => Spared(t)
         /\ Raced(t) => Raced(t)'
         /\ Tracked(t)' /\ Known(t) => Tracked(t)
BY PastGrows DEF Known, Asked, Spared, Raced, Tracked

LEMMA RemovingIsBegun ==
  ASSUME TypeOK, Roles, NEW q \in Tasks, Removing(q) \/ Loading(q)
  PROVE  proc[q].scan \in Scans
<1>1. proc[q].scan \in 1..begun
  BY DEF Roles, TaskRole
<1> QED
  BY <1>1, BoundsAssumption DEF TypeOK, Scans

LEMMA LeftAreScans ==
  ASSUME TypeOK, NEW q \in Tasks
  PROVE  proc[q].left \subseteq Scans
BY Fields DEF Fits, Procs

LEMMA AllowedStep ==
  ASSUME TypeOK, Roles, Allowed, [Next]_vars,
         \A s \in Scans : Intact(s), NEW q \in Tasks, Loads(q)
  PROVE  AllowedTo(q)'
<1>0. q \in Procs
  BY DEF Procs
<1>1. CASE proc'[q] = proc[q]
  <2>1. AllowedTo(q) /\ (Removing(q) => proc[q].scan \in Scans)
    BY RemovingIsBegun DEF Allowed
  <2>2. Removing(q)' = Removing(q)
    BY <1>1 DEF Removing
  <2> QED
    BY <1>1, <2>1, <2>2, PastStays, LeftAreScans DEF AllowedTo
<1>2. CASE Crash
  BY <1>0, <1>2, CrashDoes DEF AllowedTo, Removing
<1>3. CASE Select(q)
  <2>1. /\ Removing(q) /\ proc'[q].scan = proc[q].scan /\ proc'[q].left = proc[q].left
        /\ proc'[q].clean => proc[q].clean
    BY <1>0, <1>3, SelectDoes DEF Becomes, Removing
  <2>2. AllowedTo(q)
    BY DEF Allowed
  <2>3. proc[q].scan \in Scans
    BY <2>1, RemovingIsBegun
  <2> QED
    BY <2>1, <2>2, <2>3, PastStays, LeftAreScans DEF AllowedTo
<1>4. CASE RemoveFile(q)
  <2>1. /\ Removing(q) /\ proc'[q].scan = proc[q].scan /\ proc'[q].left = proc[q].left
        /\ proc'[q].clean => proc[q].clean
    BY <1>0, <1>4, RemoveFileDoes DEF Becomes, Removing
  <2>2. AllowedTo(q)
    BY DEF Allowed
  <2>3. proc[q].scan \in Scans
    BY <2>1, RemovingIsBegun
  <2> QED
    BY <2>1, <2>2, <2>3, PastStays, LeftAreScans DEF AllowedTo
<1>5. CASE DeletePagesForScan(q)
  <2>1. /\ Removing(q) /\ proc'[q].scan = proc[q].scan /\ proc'[q].left = proc[q].left
        /\ proc'[q].clean => proc[q].clean
    BY <1>0, <1>5, DeletePagesForScanDoes DEF Becomes, Removing
  <2>2. AllowedTo(q)
    BY DEF Allowed
  <2>3. proc[q].scan \in Scans
    BY <2>1, RemovingIsBegun
  <2> QED
    BY <2>1, <2>2, <2>3, PastStays, LeftAreScans DEF AllowedTo
<1>6. CASE DeleteScanRow(q)
  <2>1. proc'[q].at \in {"idle", "purging"} /\ proc'[q].left \subseteq proc[q].left
    BY <1>0, <1>6, DeleteScanRowDoes DEF Becomes
  <2> QED
    BY <2>1, PastStays, LeftAreScans DEF Allowed, AllowedTo, Removing
<1>7. CASE PurgeNext(q)
  <2>1. PICK s \in proc[q].left :
          Becomes(q, "selecting", s, 0, {}, proc[q].left \ {s}, Known(s))
    BY <1>0, <1>7, PurgeNextDoes
  <2>2. \A t \in proc[q].left : Asked(t)' /\ ~Spared(t)' /\ (Known(t) => Known(t)')
    <3>1. \A t \in proc[q].left : Asked(t)
      BY DEF Allowed, AllowedTo
    <3> QED
      BY <3>1, PastStays, LeftAreScans DEF Asked, Spared
  <2> QED
    BY <2>1, <2>2 DEF AllowedTo, Becomes
<1>8. ASSUME NEW cutoff \in 2..(MaxScans + 1), Purge(q, cutoff) PROVE AllowedTo(q)'
  <2>1. PICK rows \in SUBSET scanRows :
          /\ Becomes(q, "purging", 0, 0, {}, rows, FALSE)
          /\ \A s \in Scans : past'[s] = IF s \in rows THEN past[s] \cup {"asked"} ELSE past[s]
    BY <1>0, <1>8, PurgeDoes
  <2>2. \A s \in rows : Asked(s)'
    BY <2>1 DEF Asked, TypeOK
  <2> QED
    BY <2>1, <2>2 DEF AllowedTo, Removing, Becomes
<1>9. ASSUME NEW s \in Scans, AskDelete(q, s) PROVE AllowedTo(q)'
  <2>1. proc'[q].scan = s /\ proc'[q].left = {} /\ Known(s)
    BY <1>0, <1>9, AskDeleteDoes DEF Becomes
  <2>2. past'[s] = past[s] \cup {"asked"}
    BY <1>0, <1>9, AskDeleteDoes
  <2>3. Asked(s)' /\ ~Spared(s)' /\ Known(s)'
    BY <2>1, <2>2 DEF Asked, Spared, Known
  <2> QED
    BY <2>1, <2>3 DEF AllowedTo
<1>10. ASSUME NEW s \in Scans, Load(q, s) PROVE AllowedTo(q)'
  <2>1. proc'[q].at = "loading" /\ proc'[q].left = {}
    BY <1>0, <1>10, LoadDoes DEF Becomes
  <2> QED
    BY <2>1 DEF AllowedTo, Removing
<1>11. CASE Get(q)
  <2>0. PICK scan : scan = proc[q].scan
    OBVIOUS
  <2>1. Loading(q) /\ scan \in Scans /\ Known(scan)
    <3>1. proc[q].at = "loading" /\ Known(scan)
      BY <1>0, <1>11, <2>0, GetDoes DEF Loads, Loading
    <3> QED
      BY <2>0, <3>1, RemovingIsBegun DEF Loading
  <2>2. /\ proc'[q].scan = scan /\ proc'[q].left \subseteq proc[q].left
        /\ proc'[q].at \in {"loading", "loaded", "selecting"}
    BY <1>0, <1>11, <2>0, GetDoes DEF Becomes
  <2>3. ASSUME NEW f \in proc[q].todo, ~Readable(f) PROVE ~Spared(scan)
    <3>1. PICK i \in (proc[q].page + 1)..Pages : f = Mat(scan, i)
      BY <1>0, <1>11, <2>0, GetDoes DEF Loads
    <3>2. i \in 1..Pages
      BY <1>0, Fields DEF Fits
    <3> QED
      BY <2>1, <2>3, <3>1, <3>2 DEF Intact
  <2>4. ASSUME past'[scan] = past[scan] \cup {"mistaken"} PROVE ~Spared(scan)'
    <3>1. "mistaken" \in past'[scan]
      BY <2>4
    <3> QED
      BY <3>1 DEF Spared
  <2>5. \/ proc'[q].at \in {"loading", "loaded"}
        \/ \E f \in proc[q].todo : ~Readable(f)
        \/ past'[scan] = past[scan] \cup {"mistaken"}
    BY <1>0, <1>11, <2>0, GetDoes DEF Becomes
  <2>6. proc'[q].at = "selecting" => ~Spared(scan)'
    <3>1. ~Spared(scan) => ~Spared(scan)'
      BY <2>1, PastStays
    <3> QED
      BY <2>3, <2>4, <2>5, <3>1
  <2>7. \A s \in proc[q].left : Asked(s)'
    BY PastStays, LeftAreScans DEF Allowed, AllowedTo
  <2>8. Known(scan)'
    BY <2>1, PastStays
  <2> QED
    BY <2>2, <2>6, <2>7, <2>8 DEF AllowedTo, Removing
<1>12. CASE Loaded(q)
  <2>1. proc'[q].at = "idle" /\ proc'[q].left = {}
    BY <1>0, <1>12, LoadedDoes DEF Becomes
  <2> QED
    BY <2>1 DEF AllowedTo, Removing
<1> QED
  BY <1>0, <1>1, <1>2, <1>3, <1>4, <1>5, <1>6, <1>7, <1>8, <1>9, <1>10, <1>11, <1>12,
     Moves, SaverAssumption
     DEF Moved, DeleteScan, DeleteAllScansFromBefore, LoadScan

LEMMA LoadsStep ==
  ASSUME TypeOK, Roles, [Next]_vars, NEW q \in Tasks, Loads(q),
         \A s \in Scans : Together(s)
  PROVE  Loads(q)'
<1>0. q \in Procs
  BY DEF Procs
<1>1. CASE proc'[q] = proc[q]
  <2>1. Loading(q)' = Loading(q) /\ (Loading(q) => proc[q].scan \in Scans)
    BY <1>1, RemovingIsBegun DEF Loading
  <2> QED
    BY <1>1, <2>1, PastStays DEF Loads, Loading
<1>2. CASE Crash
  BY <1>0, <1>2, CrashDoes DEF Loads, Loading
<1>3. CASE Select(q)
  <2>1. proc'[q].at \notin {"loading", "loaded"}
    BY <1>0, <1>3, SelectDoes DEF Becomes
  <2> QED
    BY <2>1 DEF Loads, Loading
<1>4. CASE RemoveFile(q)
  <2>1. proc'[q].at \notin {"loading", "loaded"}
    BY <1>0, <1>4, RemoveFileDoes DEF Becomes
  <2> QED
    BY <2>1 DEF Loads, Loading
<1>5. CASE DeletePagesForScan(q)
  <2>1. proc'[q].at \notin {"loading", "loaded"}
    BY <1>0, <1>5, DeletePagesForScanDoes DEF Becomes
  <2> QED
    BY <2>1 DEF Loads, Loading
<1>6. CASE DeleteScanRow(q)
  <2>1. proc'[q].at \notin {"loading", "loaded"}
    BY <1>0, <1>6, DeleteScanRowDoes DEF Becomes
  <2> QED
    BY <2>1 DEF Loads, Loading
<1>7. CASE PurgeNext(q)
  <2>1. proc'[q].at \notin {"loading", "loaded"}
    BY <1>0, <1>7, PurgeNextDoes DEF Becomes
  <2> QED
    BY <2>1 DEF Loads, Loading
<1>8. ASSUME NEW cutoff \in 2..(MaxScans + 1), Purge(q, cutoff) PROVE Loads(q)'
  <2>1. proc'[q].at \notin {"loading", "loaded"}
    BY <1>0, <1>8, PurgeDoes DEF Becomes
  <2> QED
    BY <2>1 DEF Loads, Loading
<1>9. ASSUME NEW s \in Scans, AskDelete(q, s) PROVE Loads(q)'
  <2>1. proc'[q].at \notin {"loading", "loaded"}
    BY <1>0, <1>9, AskDeleteDoes DEF Becomes
  <2> QED
    BY <2>1 DEF Loads, Loading
<1>10. ASSUME NEW s \in Scans, Load(q, s) PROVE Loads(q)'
  <2> DEFINE todo == {Mat(s, i) : i \in RowsOf(s)}
  <2>1. /\ proc'[q].at = "loading" /\ proc'[q].scan = s /\ proc'[q].page = 0
        /\ proc'[q].todo = todo
    BY <1>0, <1>10, LoadDoes DEF Becomes
  <2>2. Known(s) /\ RowsOf(s) # {}
    BY <1>0, <1>10, LoadDoes
  <2>3. \A i \in RowsOf(s) : i \in 1..Pages /\ <<s, i>> \in pageRows
    BY DEF RowsOf
  <2>4. ~Raced(s) => \A i \in 1..Pages : Mat(s, i) \in todo
    BY <2>2, <2>3 DEF Together, RowsOf
  <2>5. todo # {} /\ \A f \in todo : \E i \in 1..Pages : f = Mat(s, i)
    BY <2>2, <2>3
  <2> HIDE DEF todo
  <2>6. 0 + 1 = 1
    OBVIOUS
  <2> QED
    BY <2>1, <2>2, <2>4, <2>5, <2>6, PastStays DEF Loads, Loading
<1>11. CASE Get(q)
  <2> DEFINE page == proc[q].page
             todo == proc[q].todo
  <2>0. PICK scan : scan = proc[q].scan
    OBVIOUS
  <2>1. /\ proc[q].at = "loading" /\ scan \in Scans /\ page \in 0..Pages
        /\ Known(scan)' /\ (~Raced(scan)' => ~Raced(scan))
    <3>1. proc[q].at = "loading" /\ Known(scan)
      BY <1>0, <1>11, <2>0, GetDoes DEF Loads, Loading
    <3>2. scan \in Scans /\ page \in 0..Pages
      BY <1>0, <2>0, <3>1, Fields, RemovingIsBegun DEF Loading, Fits
    <3> QED
      BY <3>1, <3>2, PastStays
  <2>2. /\ \A f \in todo : \E i \in (page + 1)..Pages : f = Mat(scan, i)
        /\ ~Raced(scan) => \A i \in (page + 1)..Pages : Mat(scan, i) \in todo
    BY <2>0, <2>1 DEF Loads
  <2>3. ASSUME NEW f \in todo, IsNext(q, f),
               Becomes(q, IF todo = {f} THEN "loaded" ELSE "loading", scan, page + 1, todo \ {f},
                       proc[q].left, proc[q].clean)
        PROVE  Loads(q)'
    <3>1. PICK i \in (page + 1)..Pages : f = Mat(scan, i)
      BY <2>2
    <3>2. \A g \in todo : f.page <= g.page
      BY <2>3, SaverAssumption, <2>2, Names DEF IsNext, PageByPage
    <3>3. \A g \in todo \ {f} : \E j \in (page + 2)..Pages : g = Mat(scan, j)
      <4> TAKE g \in todo \ {f}
      <4>1. PICK j \in (page + 1)..Pages : g = Mat(scan, j)
        BY <2>2
      <4>2. i <= j /\ i # j
        BY <3>1, <3>2, <4>1, Names
      <4> QED
        BY <2>1, <4>1, <4>2
    <3>4. ~Raced(scan) => f = Mat(scan, page + 1)
      <4> SUFFICES ASSUME ~Raced(scan) PROVE f = Mat(scan, page + 1)
        OBVIOUS
      <4>1. page + 1 \in (page + 1)..Pages
        BY <2>1, <3>1, PagesAssumption
      <4>2. i <= page + 1
        BY <2>2, <3>1, <3>2, <4>1, Names
      <4> QED
        BY <2>1, <3>1, <4>2
    <3>5. ~Raced(scan) => \A j \in (page + 2)..Pages : Mat(scan, j) \in todo \ {f}
      <4> SUFFICES ASSUME ~Raced(scan), NEW j \in (page + 2)..Pages
                   PROVE  Mat(scan, j) \in todo /\ Mat(scan, j) # f
        OBVIOUS
      <4>1. j \in (page + 1)..Pages /\ j # page + 1
        BY <2>1
      <4>2. Mat(scan, j).page = j /\ Mat(scan, page + 1).page = page + 1
        BY Names
      <4> QED
        BY <2>2, <3>4, <4>1, <4>2
    <3>6. ~Raced(scan) /\ todo = {f} => page + 1 = Pages
      <4>1. page + 1 # Pages => page + 2 \in (page + 2)..Pages
        BY <2>1, <3>1, PagesAssumption
      <4> QED
        BY <3>5, <4>1
    <3>7. (page + 1) + 1 = page + 2
      BY <2>1
    <3>8. /\ proc'[q].at = IF todo = {f} THEN "loaded" ELSE "loading"
          /\ proc'[q].scan = scan /\ proc'[q].page = page + 1 /\ proc'[q].todo = todo \ {f}
      BY <2>3 DEF Becomes
    <3> QED
      BY <2>1, <3>3, <3>5, <3>6, <3>7, <3>8 DEF Loads, Loading
  <2>4. \/ \E f \in todo :
             /\ IsNext(q, f)
             /\ Becomes(q, IF todo = {f} THEN "loaded" ELSE "loading", scan, page + 1,
                        todo \ {f}, proc[q].left, proc[q].clean)
        \/ proc'[q].at = "selecting"
    BY <1>0, <1>11, <2>0, GetDoes DEF Becomes
  <2>5. proc'[q].at = "selecting" => Loads(q)'
    BY DEF Loads, Loading
  <2> QED
    BY <2>3, <2>4, <2>5
<1>12. CASE Loaded(q)
  <2>1. proc'[q].at \notin {"loading", "loaded"}
    BY <1>0, <1>12, LoadedDoes DEF Becomes
  <2> QED
    BY <2>1 DEF Loads, Loading
<1> QED
  BY <1>0, <1>1, <1>2, <1>3, <1>4, <1>5, <1>6, <1>7, <1>8, <1>9, <1>10, <1>11, <1>12,
     Moves, SaverAssumption
     DEF Moved, DeleteScan, DeleteAllScansFromBefore, LoadScan

-----------------------------------------------------------------------------
(* The scan being saved.                                                   *)

Untouched(t) == \A p \in Procs : Removing(p) => proc[p].scan # t

LEMMA SavingIsNew ==
  ASSUME TypeOK, Roles, Saving
  PROVE  begun \in Scans /\ save.scan = begun /\ ~Known(begun) /\ "undone" \notin past[begun]
BY SaveFields, PagesLeft DEF Roles, SaverRole, Known

\* No task removes a scan without an event that says so, nor the saver while saving.
LEMMA NobodyRemoves ==
  ASSUME TypeOK, Roles, Allowed, NEW t \in Scans,
         Spared(t) \/ (~Asked(t) /\ ~Known(t)), Saving \/ t # begun \/ Known(t)
  PROVE  Untouched(t)
<1> SUFFICES ASSUME NEW p \in Procs, Removing(p), proc[p].scan = t PROVE FALSE
  BY DEF Untouched
<1>1. CASE p \in Tasks
  BY <1>1 DEF Allowed, AllowedTo
<1>2. CASE p = Saver
  <2>1. t = begun /\ ~Saving
    BY <1>2, SaveFields DEF Saving, Removing, save
  <2>2. ~Known(begun)
    BY <1>2 DEF Roles, SaverRole, Known, Removing, save
  <2> QED
    BY <2>1, <2>2
<1> QED
  BY <1>1, <1>2 DEF Procs

LEMMA Keeps ==
  ASSUME TypeOK, Roles, [Next]_vars, NEW t \in Scans, Untouched(t)
  PROVE  /\ t \in scanRows => t \in scanRows'
         /\ \A row \in pageRows : row[1] = t => row \in pageRows'
         /\ \A f \in files : f.scan = t => f \in files'
<1>1. \A p \in Procs : DeletePagesForScan(p) \/ DeleteScanRow(p) => Removing(p)
  BY DEF DeletePagesForScan, DeleteScanRow, Removing
<1> QED
  BY <1>1, LostScans, LostRows, LostFiles DEF Untouched, Removing

\* While a scan is saved its number stays.
LEMMA SavingOn ==
  ASSUME TypeOK, Roles, [Next]_vars, save.at # "idle"
  PROVE  begun' = begun /\ begun \in Scans
BY BegunGrows, SaveFields DEF CreateScan

LEMMA RowsMadeStep ==
  ASSUME TypeOK, Roles, [Next]_vars, Allowed, Begun, RowsMade
  PROVE  RowsMade'
<1>0. Saver \in Procs
  BY DEF Procs
<1>1. CASE save' = save
  <2> SUFFICES ASSUME Saving, ~Asked(begun)' PROVE RowsMade'
    BY <1>1 DEF RowsMade, Saving
  <2>1. begun' = begun /\ begun \in Scans /\ ~Known(begun)
    BY SavingOn, SavingIsNew, PagesLeft
  <2>2. ~Asked(begun)
    BY <2>1, PastStays
  <2>3. Untouched(begun)
    BY <2>1, <2>2, NobodyRemoves
  <2>4. begun \in scanRows /\ \A i \in 1..(save.page - 1) : <<begun, i>> \in pageRows
    BY <2>2 DEF RowsMade
  <2>5. begun \in scanRows' /\ \A i \in 1..(save.page - 1) : <<begun, i>> \in pageRows'
    BY <2>1, <2>3, <2>4, Keeps
  <2> QED
    BY <1>1, <2>1, <2>5 DEF RowsMade
<1>2. CASE Crash
  BY <1>0, <1>2, CrashDoes DEF RowsMade, Saving, save
<1>3. CASE CreateScan
  <2>1. begun' = begun + 1 /\ begun + 1 \in Scans /\ save.at = "idle"
    BY <1>0, <1>3, CreateScanDoes
  <2>2. CASE proc' = proc
    BY <2>1, <2>2 DEF RowsMade, Saving, save
  <2>3. CASE scanRows' = scanRows \cup {begun + 1} /\ save'.page = 1
    BY <2>1, <2>3 DEF RowsMade
  <2> QED
    BY <1>0, <1>3, <2>2, <2>3, CreateScanDoes DEF Becomes, save
<1>4. CASE SetMat
  <2>1. Saving /\ begun' = begun /\ begun \in Scans /\ scanRows' = scanRows /\ pageRows' = pageRows
    BY <1>0, <1>4, SetMatDoes DEF Saving
  <2>2. save'.page = save.page
    BY <1>0, <1>4, SetMatDoes DEF Becomes, save
  <2>3. ~Asked(begun)' => ~Asked(begun)
    BY <2>1, PastStays
  <2> QED
    BY <2>1, <2>2, <2>3 DEF RowsMade
<1>5. CASE StorePicture
  <2>1. Saving /\ begun' = begun /\ begun \in Scans /\ scanRows' = scanRows /\ pageRows' = pageRows
    BY <1>0, <1>5, StorePictureDoes DEF Saving
  <2>2. save'.page = save.page
    BY <1>0, <1>5, StorePictureDoes DEF Becomes, save
  <2>3. ~Asked(begun)' => ~Asked(begun)
    BY <2>1, PastStays
  <2> QED
    BY <2>1, <2>2, <2>3 DEF RowsMade
<1>6. CASE CreateScanPage
  <2>1. Saving /\ begun' = begun /\ begun \in Scans /\ scanRows' = scanRows
    BY <1>0, <1>6, CreateScanPageDoes DEF Saving
  <2>2. \/ save'.at \notin {"mat", "pic", "row"}
        \/ save'.page = save.page + 1 /\ pageRows' = pageRows \cup {<<begun, save.page>>}
    BY <1>0, <1>6, CreateScanPageDoes DEF Becomes, save
  <2>3. ~Asked(begun)' => ~Asked(begun)
    BY <2>1, PastStays
  <2>4. \A i \in 1..((save.page + 1) - 1) : i \in 1..(save.page - 1) \/ i = save.page
    BY <2>1, PagesLeft
  <2> QED
    BY <2>1, <2>2, <2>3, <2>4 DEF RowsMade, Saving
<1>7. CASE RemoveFile(Saver)
  <2>1. proc'[Saver].at \notin {"mat", "pic", "row"}
    BY <1>0, <1>7, RemoveFileDoes, SaverAssumption DEF Becomes
  <2> QED
    BY <2>1 DEF RowsMade, Saving, save
<1>8. CASE DeletePagesForScan(Saver)
  <2>1. proc'[Saver].at \notin {"mat", "pic", "row"}
    BY <1>0, <1>8, DeletePagesForScanDoes, SaverAssumption DEF Becomes
  <2> QED
    BY <2>1 DEF RowsMade, Saving, save
<1>9. CASE DeleteScanRow(Saver)
  <2>1. proc'[Saver].at \notin {"mat", "pic", "row"}
    BY <1>0, <1>9, DeleteScanRowDoes, SaverAssumption DEF Becomes
  <2> QED
    BY <2>1 DEF RowsMade, Saving, save
<1>10. ~Select(Saver)
  BY <1>0, SelectDoes, SaverAssumption
<1> QED
  BY <1>0, <1>1, <1>2, <1>3, <1>4, <1>5, <1>6, <1>7, <1>8, <1>9, <1>10,
     Moves, SaverAssumption DEF Moved, DeleteScan, SaveScan, save

LEMMA OldFiles ==
  ASSUME TypeOK, Roles, [Next]_vars, ~SetMat, ~StorePicture
  PROVE  files' \subseteq files
<1>1. CASE CreateScan
  BY <1>1, CreateScanDoes
<1>2. CASE SetMat
  BY <1>2
<1>3. CASE StorePicture
  BY <1>3
<1>4. CASE CreateScanPage
  BY <1>4, CreateScanPageDoes
<1>5. ASSUME NEW p \in Procs, RemoveFile(p) PROVE files' \subseteq files
  BY <1>5, RemoveFileDoes
<1>6. ASSUME NEW p \in Procs, DeletePagesForScan(p) PROVE files' \subseteq files
  BY <1>6, DeletePagesForScanDoes
<1>7. ASSUME NEW p \in Procs, DeleteScanRow(p) PROVE files' \subseteq files
  BY <1>7, DeleteScanRowDoes
<1>8. CASE UNCHANGED <<disk, begun>>
  BY <1>8 DEF disk
<1> QED
  BY <1>1, <1>2, <1>3, <1>4, <1>5, <1>6, <1>7, <1>8, DiskSteps

LEMMA UndoGrows ==
  ASSUME NEW m \in Nat
  PROVE  /\ 1..(m - 1) \subseteq 1..m
         /\ m # 0 => m \in 1..m
         /\ \A i \in 1..m : i \in 1..(m - 1) \/ i = m
OBVIOUS

LEMMA OldTorn ==
  ASSUME TypeOK, Roles, [Next]_vars, ~SetMat
  PROVE  torn' \subseteq torn
<1>1. CASE CreateScan
  BY <1>1, CreateScanDoes
<1>2. CASE SetMat
  BY <1>2
<1>3. CASE StorePicture
  BY <1>3, StorePictureDoes
<1>4. CASE CreateScanPage
  BY <1>4, CreateScanPageDoes
<1>5. ASSUME NEW p \in Procs, RemoveFile(p) PROVE torn' \subseteq torn
  BY <1>5, RemoveFileDoes
<1>6. ASSUME NEW p \in Procs, DeletePagesForScan(p) PROVE torn' \subseteq torn
  BY <1>6, DeletePagesForScanDoes
<1>7. ASSUME NEW p \in Procs, DeleteScanRow(p) PROVE torn' \subseteq torn
  BY <1>7, DeleteScanRowDoes
<1>8. CASE UNCHANGED <<disk, begun>>
  BY <1>8 DEF disk
<1> QED
  BY <1>1, <1>2, <1>3, <1>4, <1>5, <1>6, <1>7, <1>8, DiskSteps

LEMMA NoneElseStep ==
  ASSUME TypeOK, Roles, [Next]_vars, Begun, NoneElse
  PROVE  NoneElse'
<1>0. Saver \in Procs
  BY DEF Procs
<1>1. CASE save' = save
  <2> SUFFICES ASSUME Saving PROVE NoneElse'
    BY <1>1 DEF NoneElse, Saving
  <2>1. begun' = begun
    BY SavingOn, PagesLeft
  <2>2. ~SetMat /\ ~StorePicture
    BY <1>0, <1>1, SetMatDoes, StorePictureDoes DEF Becomes, save
  <2>3. files' \subseteq files
    BY <2>2, OldFiles
  <2> QED
    BY <1>1, <2>1, <2>3 DEF NoneElse, Undo, MatsMade, PicsMade, Saving
<1>2. CASE Crash
  BY <1>0, <1>2, CrashDoes DEF NoneElse, Saving, save
<1>3. CASE CreateScan
  <2>1. begun' = begun + 1 /\ begun + 1 \in Scans /\ save.at = "idle" /\ files' = files
    BY <1>0, <1>3, CreateScanDoes
  <2>2. CASE proc' = proc
    BY <2>1, <2>2 DEF NoneElse, Saving, save
  <2>3. \A f \in files : f.scan # begun + 1
    BY <2>1 DEF Begun, Unborn, TypeOK
  <2> QED
    BY <2>1, <2>3 DEF NoneElse
<1>4. CASE SetMat
  <2>1. save.at = "mat" /\ Saving /\ begun' = begun /\ save.scan = begun /\ save.page \in 1..Pages
    BY <1>0, <1>4, SetMatDoes, PagesLeft DEF Saving
  <2>2. files' \subseteq files \cup {Mat(begun, save.page)}
    BY <1>0, <1>4, SetMatDoes
  <2>3. save'.page = save.page /\ save'.scan = begun /\ save'.at \in {"pic", "removing"}
    BY <1>0, <1>4, SetMatDoes DEF Becomes, save
  <2>4. \A f \in files : f.scan = begun => f \in Undo(save.page - 1, save.page - 1)
    BY <2>1 DEF NoneElse, MatsMade, PicsMade
  <2>5. \A f \in files' : f.scan = begun => f \in Undo(save.page, save.page - 1)
    BY <2>1, <2>2, <2>4, UndoGrows DEF Undo
  <2>6. Undo(save.page, save.page - 1)' = Undo(save.page, save.page - 1)
    BY <2>1, <2>3 DEF Undo
  <2> QED
    BY <2>1, <2>3, <2>5, <2>6 DEF NoneElse, MatsMade, PicsMade, Saving
<1>5. CASE StorePicture
  <2>1. save.at = "pic" /\ Saving /\ begun' = begun /\ save.scan = begun /\ save.page \in 1..Pages
    BY <1>0, <1>5, StorePictureDoes, PagesLeft DEF Saving
  <2>2. files' \subseteq files \cup {Pic(begun, save.page)}
    BY <1>0, <1>5, StorePictureDoes
  <2>3. save'.page = save.page /\ save'.scan = begun /\ save'.at \in {"row", "removing"}
    BY <1>0, <1>5, StorePictureDoes DEF Becomes, save
  <2>4. \A f \in files : f.scan = begun => f \in Undo(save.page, save.page - 1)
    BY <2>1 DEF NoneElse, MatsMade, PicsMade
  <2>5. \A f \in files' : f.scan = begun => f \in Undo(save.page, save.page)
    BY <2>1, <2>2, <2>4, UndoGrows DEF Undo
  <2>6. Undo(save.page, save.page)' = Undo(save.page, save.page)
    BY <2>1, <2>3 DEF Undo
  <2> QED
    BY <2>1, <2>3, <2>5, <2>6 DEF NoneElse, MatsMade, PicsMade, Saving
<1>6. CASE CreateScanPage
  <2>1. save.at = "row" /\ Saving /\ begun' = begun /\ save.scan = begun /\ save.page \in 1..Pages
    BY <1>0, <1>6, CreateScanPageDoes, PagesLeft DEF Saving
  <2>2. files' = files
    BY <1>0, <1>6, CreateScanPageDoes
  <2>3. \/ save'.at \notin {"mat", "pic", "row"}
        \/ save'.at = "mat" /\ save'.page = save.page + 1 /\ save'.scan = begun
    BY <1>0, <1>6, CreateScanPageDoes DEF Becomes, save
  <2>4. \A f \in files : f.scan = begun => f \in Undo(save.page, save.page)
    BY <2>1 DEF NoneElse, MatsMade, PicsMade
  <2>5. (save.page + 1) - 1 = save.page
    BY <2>1
  <2> QED
    BY <2>1, <2>2, <2>3, <2>4, <2>5 DEF NoneElse, MatsMade, PicsMade, Saving, Undo
<1>7. CASE RemoveFile(Saver)
  <2>1. proc'[Saver].at \notin {"mat", "pic", "row"}
    BY <1>0, <1>7, RemoveFileDoes, SaverAssumption DEF Becomes
  <2> QED
    BY <2>1 DEF NoneElse, Saving, save
<1>8. CASE DeletePagesForScan(Saver)
  <2>1. proc'[Saver].at \notin {"mat", "pic", "row"}
    BY <1>0, <1>8, DeletePagesForScanDoes, SaverAssumption DEF Becomes
  <2> QED
    BY <2>1 DEF NoneElse, Saving, save
<1>9. CASE DeleteScanRow(Saver)
  <2>1. proc'[Saver].at \notin {"mat", "pic", "row"}
    BY <1>0, <1>9, DeleteScanRowDoes, SaverAssumption DEF Becomes
  <2> QED
    BY <2>1 DEF NoneElse, Saving, save
<1>10. ~Select(Saver)
  BY <1>0, SelectDoes, SaverAssumption
<1> QED
  BY <1>0, <1>1, <1>2, <1>3, <1>4, <1>5, <1>6, <1>7, <1>8, <1>9, <1>10,
     Moves, SaverAssumption DEF Moved, DeleteScan, SaveScan, save

\* The files made so far are in Undo, and later ones are not.
LEMMA UndoNames ==
  ASSUME TypeOK, Roles, Saving, NEW m \in Nat, NEW k \in Nat
  PROVE  /\ \A i \in Nat \ {0} : Mat(begun, i) \in Undo(m, k) => i <= m
         /\ \A i \in Nat \ {0} : Pic(begun, i) \in Undo(m, k) => i <= k
         /\ \A f \in Undo(m, k) : f \in Undo(m + 1, k) /\ f \in Undo(m, k + 1)
         /\ Mat(begun, m + 1) \in Undo(m + 1, k) /\ Pic(begun, k + 1) \in Undo(m, k + 1)
<1>1. save.scan = begun
  BY SavingIsNew
<1>2. \A i : /\ Mat(begun, i).page = i /\ Mat(begun, i).kind = "mat"
             /\ Pic(begun, i).page = i /\ Pic(begun, i).kind = "pic"
  BY Names
<1>3. /\ m + 1 \in 1..(m + 1) /\ 1..m \subseteq 1..(m + 1)
      /\ k + 1 \in 1..(k + 1) /\ 1..k \subseteq 1..(k + 1)
  OBVIOUS
<1>4. \A i \in Nat \ {0} : Mat(begun, i) \in Undo(m, k) => i <= m
  BY <1>1, <1>2 DEF Undo
<1>5. \A i \in Nat \ {0} : Pic(begun, i) \in Undo(m, k) => i <= k
  BY <1>1, <1>2 DEF Undo
<1> QED
  BY <1>1, <1>3, <1>4, <1>5 DEF Undo

LEMMA FilesMadeStep ==
  ASSUME TypeOK, Roles, [Next]_vars, Allowed, Begun, FilesMade, NoneElse
  PROVE  FilesMade'
<1>0. Saver \in Procs
  BY DEF Procs
<1>1. CASE save' = save
  <2> SUFFICES ASSUME Saving, Spared(begun)' PROVE FilesMade'
    BY <1>1 DEF FilesMade, Saving
  <2>1. begun' = begun /\ begun \in Scans /\ ~Known(begun)
    BY SavingOn, SavingIsNew, PagesLeft
  <2>2. Spared(begun)
    BY <2>1, PastStays
  <2>3. Untouched(begun)
    BY <2>1, <2>2, NobodyRemoves
  <2>4. ~SetMat
    BY <1>0, <1>1, SetMatDoes DEF Becomes, save
  <2>5. torn' \subseteq torn
    BY <2>4, OldTorn
  <2>6. /\ \A i \in 1..MatsMade : Readable(Mat(begun, i))'
        /\ \A i \in 1..PicsMade : Pic(begun, i) \in files'
    BY <2>1, <2>2, <2>3, <2>5, Keeps, Names DEF FilesMade, Readable
  <2> QED
    BY <1>1, <2>1, <2>6 DEF FilesMade, MatsMade, PicsMade
<1>2. CASE Crash
  BY <1>0, <1>2, CrashDoes DEF FilesMade, Saving, save
<1>3. CASE CreateScan
  <2>1. save'.at \in {"idle", "mat"} /\ (save'.at = "mat" => save'.page = 1)
    BY <1>0, <1>3, CreateScanDoes DEF Becomes, save
  <2>2. save'.at = "mat" => MatsMade' = 0 /\ PicsMade' = 0
    BY <2>1 DEF MatsMade, PicsMade
  <2> QED
    BY <2>1, <2>2 DEF FilesMade, Saving
<1>4. CASE SetMat
  <2>1. save.at = "mat" /\ Saving /\ begun' = begun /\ begun \in Scans /\ save.page \in 1..Pages
    BY <1>0, <1>4, SetMatDoes, PagesLeft DEF Saving
  <2>2. \/ /\ files' = files \cup {Mat(begun, save.page)} /\ torn' = torn
           /\ save'.at = "pic" /\ save'.page = save.page
        \/ save'.at = "removing"
        \/ "cut" \in past'[begun]
    BY <1>0, <1>4, SetMatDoes DEF Becomes, save
  <2>3. Spared(begun)' => Spared(begun)
    BY <2>1, PastStays
  <2>4. Mat(begun, save.page) \notin torn
    <3>1. Mat(begun, save.page) \notin Undo(save.page - 1, save.page - 1)
      BY <2>1, UndoNames
    <3> QED
      BY <2>1, <3>1, Names DEF NoneElse, MatsMade, PicsMade, TypeOK
  <2>5. Spared(begun) => /\ \A i \in 1..(save.page - 1) : Readable(Mat(begun, i))
                        /\ \A i \in 1..(save.page - 1) : Pic(begun, i) \in files
    BY <2>1 DEF FilesMade, MatsMade, PicsMade
  <2>6. "cut" \in past'[begun] => ~Spared(begun)'
    BY <2>1 DEF Spared
  <2>7. CASE /\ files' = files \cup {Mat(begun, save.page)} /\ torn' = torn
            /\ save'.at = "pic" /\ save'.page = save.page
    <3>1. Spared(begun) => \A i \in 1..save.page : Readable(Mat(begun, i))'
      BY <2>1, <2>4, <2>5, <2>7, UndoGrows DEF Readable
    <3> QED
      BY <2>1, <2>3, <2>5, <2>7, <3>1 DEF FilesMade, MatsMade, PicsMade
  <2> QED
    BY <2>1, <2>2, <2>6, <2>7 DEF FilesMade, Saving
<1>5. CASE StorePicture
  <2>1. save.at = "pic" /\ Saving /\ begun' = begun /\ begun \in Scans /\ save.page \in 1..Pages
    BY <1>0, <1>5, StorePictureDoes, PagesLeft DEF Saving
  <2>2. /\ torn' = torn /\ files \subseteq files'
        /\ \/ /\ Pic(begun, save.page) \in files'
              /\ save'.at = "row" /\ save'.page = save.page
           \/ save'.at = "removing"
    BY <1>0, <1>5, StorePictureDoes DEF Becomes, save
  <2>3. Spared(begun)' => Spared(begun)
    BY <2>1, PastStays
  <2>4. Spared(begun) => /\ \A i \in 1..save.page : Readable(Mat(begun, i))
                        /\ \A i \in 1..(save.page - 1) : Pic(begun, i) \in files
    BY <2>1 DEF FilesMade, MatsMade, PicsMade
  <2>5. CASE /\ Pic(begun, save.page) \in files'
            /\ save'.at = "row" /\ save'.page = save.page
    <3>1. Spared(begun) => \A i \in 1..save.page : Pic(begun, i) \in files'
      BY <2>1, <2>2, <2>4, <2>5, UndoGrows
    <3>2. Spared(begun) => \A i \in 1..save.page : Readable(Mat(begun, i))'
      BY <2>1, <2>2, <2>4 DEF Readable
    <3> QED
      BY <2>1, <2>3, <2>5, <3>1, <3>2 DEF FilesMade, MatsMade, PicsMade
  <2> QED
    BY <2>1, <2>2, <2>5 DEF FilesMade, Saving
<1>6. CASE CreateScanPage
  <2>1. save.at = "row" /\ Saving /\ begun' = begun /\ begun \in Scans /\ save.page \in 1..Pages
    BY <1>0, <1>6, CreateScanPageDoes, PagesLeft DEF Saving
  <2>2. files' = files /\ torn' = torn
    BY <1>0, <1>6, CreateScanPageDoes
  <2>3. \/ save'.at \notin {"mat", "pic", "row"}
        \/ save'.at = "mat" /\ save'.page = save.page + 1
    BY <1>0, <1>6, CreateScanPageDoes DEF Becomes, save
  <2>4. Spared(begun)' => Spared(begun)
    BY <2>1, PastStays
  <2>5. Spared(begun) => /\ \A i \in 1..save.page : Readable(Mat(begun, i))'
                        /\ \A i \in 1..save.page : Pic(begun, i) \in files'
    BY <2>1, <2>2 DEF FilesMade, MatsMade, PicsMade, Readable
  <2>6. (save.page + 1) - 1 = save.page
    BY <2>1
  <2> QED
    BY <2>1, <2>3, <2>4, <2>5, <2>6 DEF FilesMade, MatsMade, PicsMade, Saving
<1>7. CASE RemoveFile(Saver)
  <2>1. proc'[Saver].at \notin {"mat", "pic", "row"}
    BY <1>0, <1>7, RemoveFileDoes, SaverAssumption DEF Becomes
  <2> QED
    BY <2>1 DEF FilesMade, Saving, save
<1>8. CASE DeletePagesForScan(Saver)
  <2>1. proc'[Saver].at \notin {"mat", "pic", "row"}
    BY <1>0, <1>8, DeletePagesForScanDoes, SaverAssumption DEF Becomes
  <2> QED
    BY <2>1 DEF FilesMade, Saving, save
<1>9. CASE DeleteScanRow(Saver)
  <2>1. proc'[Saver].at \notin {"mat", "pic", "row"}
    BY <1>0, <1>9, DeleteScanRowDoes, SaverAssumption DEF Becomes
  <2> QED
    BY <2>1 DEF FilesMade, Saving, save
<1>10. ~Select(Saver)
  BY <1>0, SelectDoes, SaverAssumption
<1> QED
  BY <1>0, <1>1, <1>2, <1>3, <1>4, <1>5, <1>6, <1>7, <1>8, <1>9, <1>10,
     Moves, SaverAssumption DEF Moved, DeleteScan, SaveScan, save

LEMMA UndoingStep ==
  ASSUME TypeOK, Roles, [Next]_vars, NoneElse, Undoing
  PROVE  Undoing'
<1>0. Saver \in Procs
  BY DEF Procs
<1>1. CASE save' = save
  <2> SUFFICES ASSUME save.at \in {"removing", "unlisting"} PROVE Undoing'
    BY <1>1 DEF Undoing
  <2>1. begun' = begun
    BY SavingOn
  <2>2. ~SetMat /\ ~StorePicture
    BY SetMatDoes, StorePictureDoes
  <2>3. files' \subseteq files /\ \A f \in files' : f \in torn => f \in torn'
    BY <2>2, OldFiles, StaysTorn
  <2> QED
    BY <1>1, <2>1, <2>3 DEF Undoing
<1>2. CASE Crash
  BY <1>0, <1>2, CrashDoes DEF Undoing, save
<1>3. CASE CreateScan
  <2>1. save'.at \in {"idle", "mat"}
    BY <1>0, <1>3, CreateScanDoes DEF Becomes, save
  <2> QED
    BY <2>1 DEF Undoing
<1>4. CASE SetMat
  <2>1. save.at = "mat" /\ Saving /\ begun' = begun
    BY <1>0, <1>4, SetMatDoes DEF Saving
  <2>2. \/ save'.at = "pic"
        \/ /\ save'.at = "removing" /\ save'.todo = Undo(save.page - 1, save.page - 1)
           /\ \/ files' = files /\ torn' = torn
              \/ /\ files' = files \cup {Mat(begun, save.page)}
                 /\ torn' = torn \cup {Mat(begun, save.page)}
    BY <1>0, <1>4, SetMatDoes DEF Becomes, save
  <2>3. \A f \in files : f.scan = begun => f \in Undo(save.page - 1, save.page - 1)
    BY <2>1 DEF NoneElse, MatsMade, PicsMade
  <2> QED
    BY <2>1, <2>2, <2>3 DEF Undoing
<1>5. CASE StorePicture
  <2>1. save.at = "pic" /\ Saving /\ begun' = begun /\ save.page \in 1..Pages
    BY <1>0, <1>5, StorePictureDoes, PagesLeft DEF Saving
  <2>2. \/ save'.at = "row"
        \/ /\ save'.at = "removing"
           /\ \/ files' = files /\ save'.todo = Undo(save.page, save.page - 1)
              \/ /\ files' = files \cup {Pic(begun, save.page)}
                 /\ save'.todo = Undo(save.page, save.page)
    BY <1>0, <1>5, StorePictureDoes DEF Becomes, save
  <2>3. \A f \in files : f.scan = begun => f \in Undo(save.page, save.page - 1)
    BY <2>1 DEF NoneElse, MatsMade, PicsMade
  <2>4. /\ save.page - 1 \in Nat /\ (save.page - 1) + 1 = save.page /\ save.page \in Nat
    BY <2>1
  <2>5. /\ Pic(begun, save.page) \in Undo(save.page, save.page)
        /\ \A f \in Undo(save.page, save.page - 1) : f \in Undo(save.page, save.page)
    BY <2>1, <2>4, UndoNames
  <2> QED
    BY <2>1, <2>2, <2>3, <2>5 DEF Undoing
<1>6. CASE CreateScanPage
  <2>1. save.at = "row" /\ Saving /\ begun' = begun /\ files' = files
    BY <1>0, <1>6, CreateScanPageDoes DEF Saving
  <2>2. \/ save'.at \in {"idle", "mat"}
        \/ save'.at = "removing" /\ save'.todo = Undo(save.page, save.page)
    BY <1>0, <1>6, CreateScanPageDoes DEF Becomes, save
  <2>3. \A f \in files : f.scan = begun => f \in Undo(save.page, save.page)
    BY <2>1 DEF NoneElse, MatsMade, PicsMade
  <2> QED
    BY <2>1, <2>2, <2>3 DEF Undoing
<1>7. CASE RemoveFile(Saver)
  <2>1. /\ save.at = "removing" /\ save'.at = "removing" /\ begun' = begun
        /\ \E g \in save.todo : /\ files' = files \ {g} /\ torn' = torn \ {g}
                              /\ save'.todo = save.todo \ {g}
    BY <1>0, <1>7, RemoveFileDoes DEF Becomes, save
  <2> QED
    BY <2>1 DEF Undoing
<1>8. CASE DeletePagesForScan(Saver)
  <2>1. /\ save.at = "removing" /\ save.todo = {} /\ save'.at = "unlisting"
        /\ begun' = begun /\ files' = files /\ torn' = torn
    BY <1>0, <1>8, DeletePagesForScanDoes DEF Becomes, save
  <2> QED
    BY <2>1 DEF Undoing
<1>9. CASE DeleteScanRow(Saver)
  <2>1. save'.at = "idle"
    BY <1>0, <1>9, DeleteScanRowDoes, SaverAssumption DEF Becomes, save
  <2> QED
    BY <2>1 DEF Undoing
<1>10. ~Select(Saver)
  BY <1>0, SelectDoes, SaverAssumption
<1> QED
  BY <1>0, <1>1, <1>2, <1>3, <1>4, <1>5, <1>6, <1>7, <1>8, <1>9, <1>10,
     Moves, SaverAssumption DEF Moved, DeleteScan, SaveScan, save

-----------------------------------------------------------------------------
(* What becomes of each scan.                                              *)

\* A returned scan gets no more files and rows, and the saver is not at it.
LEMMA KnownIsClosed ==
  ASSUME TypeOK, Roles, Begun, [Next]_vars, NEW t \in Scans, Known(t)
  PROVE  /\ \A f \in files' : f.scan = t => f \in files
         /\ \A f \in torn' : f.scan = t => f \in torn
         /\ \A row \in pageRows' : row[1] = t => row \in pageRows
         /\ t \in scanRows' => t \in scanRows
         /\ \A p \in Procs : Removing(p) /\ proc[p].scan = t => p \in Tasks
<1>1. ~(Saving /\ begun = t)
  BY SavingIsNew
<1>2. t # begun + 1
  BY DEF Begun, Unborn, Known, TypeOK
<1>3. \A p \in Procs : Removing(p) /\ proc[p].scan = t => p \in Tasks
  <2>1. save.at # "idle" => ~Known(begun)
    BY DEF Roles, SaverRole, Known
  <2> QED
    BY <2>1, RemovedScan DEF save, Removing
<1> QED
  BY <1>1, <1>2, <1>3, NewFiles, NewTorn, NewRows, NewScans

\* A scan becomes known with its last page.
LEMMA NewlyKnown ==
  ASSUME TypeOK, Roles, [Next]_vars, NEW t \in Scans, ~Known(t), Known(t)'
  PROVE  /\ CreateScanPage /\ t = begun /\ Saving /\ MatsMade = Pages /\ PicsMade = Pages
         /\ Asked(t) => Raced(t)'
         /\ pageRows' = pageRows \cup {<<t, Pages>>} /\ UNCHANGED <<scanRows, files, torn>>
         /\ \A i \in 1..Pages : i \in 1..(save.page - 1) \/ i = Pages
<1>1. CreateScanPage /\ t = begun
  BY Pasts DEF PastOf, Known
<1>2. past' # past
  BY DEF Known
<1>3. /\ save.at = "row" /\ save.page = Pages /\ UNCHANGED <<scanRows, files, torn>>
      /\ pageRows' = pageRows \cup {<<t, Pages>>}
      /\ past'[t] = past[t] \cup {"returned"} \cup IF Asked(t) THEN {"raced"} ELSE {}
  BY <1>1, <1>2, CreateScanPageDoes
<1>4. Asked(t) => Raced(t)'
  BY <1>3 DEF Raced
<1>5. \A i \in 1..Pages : i \in 1..(Pages - 1) \/ i = Pages
  BY PagesAssumption
<1> QED
  BY <1>1, <1>3, <1>4, <1>5 DEF Saving, MatsMade, PicsMade

LEMMA UndoneStep ==
  ASSUME TypeOK, Roles, Undoing, [Next]_vars, NEW t \in Scans, Undone(t)
  PROVE  Undone(t)'
<1> SUFFICES ASSUME "undone" \in past'[t], NEW f \in files', f.scan = t PROVE f \in torn'
  BY DEF Undone
<1>1. CASE "undone" \in past[t]
  <2>1. f \in files
    BY <1>1, NewFiles, SavingIsNew
  <2> QED
    BY <1>1, <2>1, StaysTorn DEF Undone
<1>2. CASE "undone" \notin past[t]
  <2>1. DeleteScanRow(Saver) /\ save.scan = t
    BY <1>2, Pasts DEF PastOf, save
  <2>2. save.at = "unlisting" /\ files' = files /\ torn' = torn
    BY <2>1, DeleteScanRowDoes DEF save, Procs
  <2>3. t = begun
    BY <2>1, <2>2, SaveFields
  <2> QED
    BY <2>2, <2>3 DEF Undoing
<1> QED
  BY <1>1, <1>2

LEMMA IntactStep ==
  ASSUME TypeOK, Roles, Begun, Allowed, RowsMade, FilesMade, [Next]_vars,
         NEW t \in Scans, Intact(t)
  PROVE  Intact(t)'
<1> SUFFICES ASSUME Known(t)', Spared(t)' PROVE Intact(t)'
  BY DEF Intact
<1>0. Spared(t)
  BY PastStays
<1>1. CASE Known(t)
  <2>1. Untouched(t)
    BY <1>0, <1>1, NobodyRemoves
  <2>2. /\ t \in scanRows
        /\ \A i \in 1..Pages : <<t, i>> \in pageRows /\ Readable(Mat(t, i)) /\ Pic(t, i) \in files
    BY <1>0, <1>1 DEF Intact
  <2>3. \A i \in 1..Pages : Mat(t, i) \in files' /\ Pic(t, i) \in files'
    <3> TAKE i \in 1..Pages
    <3>1. Mat(t, i).scan = t /\ Pic(t, i).scan = t
      BY Names
    <3>2. Mat(t, i) \in files /\ Pic(t, i) \in files
      BY <2>2 DEF Readable
    <3>3. \A f \in files : f.scan = t => f \in files'
      BY <2>1, Keeps
    <3> QED
      BY <3>1, <3>2, <3>3
  <2>4. \A i \in 1..Pages : Mat(t, i) \notin torn'
    <3> TAKE i \in 1..Pages
    <3>1. Mat(t, i).scan = t
      BY Names
    <3>2. Mat(t, i) \notin torn
      BY <2>2 DEF Readable
    <3>3. \A f \in torn' : f.scan = t => f \in torn
      BY <1>1, KnownIsClosed
    <3> QED
      BY <3>1, <3>2, <3>3
  <2>5. t \in scanRows' /\ \A i \in 1..Pages : <<t, i>> \in pageRows'
    BY <2>1, <2>2, Keeps
  <2> QED
    BY <2>3, <2>4, <2>5 DEF Intact, Readable
<1>2. CASE ~Known(t)
  <2>1. /\ t = begun /\ Saving /\ MatsMade = Pages /\ PicsMade = Pages
        /\ pageRows' = pageRows \cup {<<t, Pages>>} /\ UNCHANGED <<scanRows, files, torn>>
        /\ \A i \in 1..Pages : i \in 1..(save.page - 1) \/ i = Pages
    BY <1>2, NewlyKnown
  <2>2. \A i \in 1..Pages : Readable(Mat(t, i)) /\ Pic(t, i) \in files
    BY <1>0, <2>1 DEF FilesMade
  <2>3. t \in scanRows /\ \A i \in 1..(save.page - 1) : <<t, i>> \in pageRows
    BY <1>0, <2>1 DEF RowsMade, Spared, Asked
  <2> QED
    BY <2>1, <2>2, <2>3 DEF Intact, Readable
<1> QED
  BY <1>1, <1>2

LEMMA TogetherStep ==
  ASSUME TypeOK, Roles, Begun, RowsMade, [Next]_vars, NEW t \in Scans, Together(t)
  PROVE  Together(t)'
<1> SUFFICES ASSUME Known(t)', ~Raced(t)' PROVE Together(t)'
  BY DEF Together
<1>1. CASE Known(t)
  <2>1. ~Raced(t)
    BY PastStays
  <2>2. CASE \A i \in 1..Pages : <<t, i>> \notin pageRows
    BY <1>1, <2>2, KnownIsClosed DEF Together
  <2>3. CASE \A i \in 1..Pages : <<t, i>> \in pageRows
    <3>1. CASE \A i \in 1..Pages : <<t, i>> \in pageRows'
      BY <3>1 DEF Together
    <3>2. ASSUME NEW i \in 1..Pages, <<t, i>> \notin pageRows'
          PROVE  \A j \in 1..Pages : <<t, j>> \notin pageRows'
      <4>1. PICK p \in Procs : DeletePagesForScan(p) /\ proc[p].scan = t
        BY <2>3, <3>2, LostRows
      <4>2. pageRows' = {row \in pageRows : row[1] # t} \/ pageRows' = pageRows
        BY <4>1, DeletePagesForScanDoes
      <4> QED
        BY <2>3, <3>2, <4>2
    <3> QED
      BY <3>1, <3>2 DEF Together
  <2> QED
    BY <1>1, <2>1, <2>2, <2>3 DEF Together
<1>2. CASE ~Known(t)
  <2>1. /\ t = begun /\ Saving /\ ~Asked(t) /\ pageRows' = pageRows \cup {<<t, Pages>>}
        /\ \A i \in 1..Pages : i \in 1..(save.page - 1) \/ i = Pages
    BY <1>2, NewlyKnown
  <2>2. \A i \in 1..(save.page - 1) : <<t, i>> \in pageRows
    BY <2>1 DEF RowsMade
  <2> QED
    BY <2>1, <2>2 DEF Together
<1> QED
  BY <1>1, <1>2

LEMMA FoundStep ==
  ASSUME TypeOK, Roles, Begun, RowsMade, NoneElse, \A p \in Tasks : Going(p), [Next]_vars,
         NEW t \in Scans, Found(t)
  PROVE  Found(t)'
<1> SUFFICES ASSUME Tracked(t)', NEW f \in files', f.scan = t
             PROVE  <<t, f.page>> \in pageRows'
  BY DEF Found
<1>1. CASE Known(t)
  <2>1. Tracked(t) /\ f \in files /\ <<t, f.page>> \in pageRows
    BY <1>1, PastStays, KnownIsClosed DEF Found
  <2>2. ASSUME <<t, f.page>> \notin pageRows' PROVE FALSE
    <3>1. PICK p \in Procs : DeletePagesForScan(p) /\ proc[p].scan = t
      BY <2>1, <2>2, LostRows
    <3>2. proc[p].at = "removing" /\ proc[p].todo = {}
      BY <3>1 DEF DeletePagesForScan
    <3>3. p \in Tasks
      BY <1>1, <3>1, <3>2, KnownIsClosed DEF Removing
    <3> QED
      BY <2>1, <3>1, <3>2, <3>3 DEF Going, Removing
  <2> QED
    BY <2>2
<1>2. CASE ~Known(t)
  <2>0. Known(t)' /\ ~Raced(t)'
    BY DEF Tracked, Raced
  <2>1. /\ t = begun /\ Saving /\ ~Asked(t) /\ MatsMade = Pages /\ PicsMade = Pages
        /\ pageRows' = pageRows \cup {<<t, Pages>>} /\ files' = files
        /\ \A i \in 1..Pages : i \in 1..(save.page - 1) \/ i = Pages
    BY <1>2, <2>0, NewlyKnown
  <2>2. \A i \in 1..Pages : <<t, i>> \in pageRows'
    BY <2>1 DEF RowsMade
  <2>3. f.page \in 1..Pages
    BY <2>1, Names DEF TypeOK
  <2> QED
    BY <2>2, <2>3
<1> QED
  BY <1>1, <1>2

LEMMA GoneStep ==
  ASSUME TypeOK, Roles, Begun, Allowed, \A p \in Tasks : Going(p), [Next]_vars,
         NEW t \in Scans, Gone(t)
  PROVE  Gone(t)'
<1> SUFFICES ASSUME "removed" \in past'[t] PROVE Gone(t)'
  BY DEF Gone
<1>1. CASE "removed" \in past[t]
  <2>1. Known(t) /\ Known(t)' /\ (Tracked(t)' => Tracked(t))
    BY <1>1, PastStays DEF Gone
  <2>2. Tracked(t)' => /\ t \notin scanRows'
                       /\ \A row \in pageRows' : row[1] # t
                       /\ \A f \in files' : f.scan # t
    BY <1>1, <2>1, KnownIsClosed DEF Gone
  <2> QED
    BY <2>1, <2>2 DEF Gone
<1>2. CASE "removed" \notin past[t]
  <2>1. PICK p \in Procs : /\ DeleteScanRow(p) /\ proc[p].scan = t /\ p # Saver
                           /\ proc[p].clean /\ scanRows' = scanRows \ {t}
    BY <1>2, Pasts DEF PastOf
  <2>2. p \in Tasks /\ proc[p].at = "unlisting" /\ pageRows' = pageRows /\ files' = files
    BY <2>1, DeleteScanRowDoes DEF Procs
  <2>3. Known(t)
    BY <2>1, <2>2 DEF Allowed, AllowedTo, Removing
  <2>4. Known(t)' /\ (Tracked(t)' => Tracked(t))
    BY <2>3, PastStays
  <2>5. Tracked(t) => /\ \A row \in pageRows : row[1] # t
                      /\ \A f \in files : f.scan # t
    BY <2>1, <2>2 DEF Going, Removing
  <2> QED
    BY <2>1, <2>2, <2>4, <2>5 DEF Gone
<1> QED
  BY <1>1, <1>2

LEMMA GoingStep ==
  ASSUME TypeOK, Roles, [Next]_vars, Allowed, Begun, NEW q \in Tasks, Going(q),
         \A s \in Scans : Found(s)
  PROVE  Going(q)'
<1>0. q \in Procs
  BY DEF Procs
<1>1. CASE proc'[q] = proc[q]
  <2> SUFFICES ASSUME Removing(q), Tracked(proc[q].scan)' PROVE Going(q)'
    BY <1>1 DEF Going, Removing
  <2>0. PICK t \in Scans : t = proc[q].scan
    BY RemovingIsBegun
  <2>1. Tracked(t)'
    BY <1>1, <2>0
  <2>2. Known(t)
    <3> SUFFICES ASSUME ~Known(t) PROVE FALSE
      OBVIOUS
    <3>1. Asked(t)
      BY <2>0 DEF Allowed, AllowedTo
    <3>2. Raced(t)'
      BY <2>1, <3>1, NewlyKnown DEF Tracked
    <3> QED
      BY <2>1, <3>2 DEF Tracked, Raced
  <2>3. Tracked(t)
    BY <2>1, <2>2, PastStays
  <2>4. /\ \A f \in files' : f.scan = t => f \in files
        /\ \A row \in pageRows' : row[1] = t => row \in pageRows
    BY <2>2, KnownIsClosed
  <2> QED
    BY <1>1, <2>0, <2>3, <2>4 DEF Going, Removing
<1>2. CASE Crash
  BY <1>0, <1>2, CrashDoes DEF Going, Removing
<1>3. CASE Select(q)
  <2>0. PICK t \in Scans : t = proc[q].scan
    BY <1>0, <1>3, SelectDoes
  <2>1. proc'[q].at = "removing" /\ proc'[q].scan = t /\ files' = files
    BY <1>0, <1>3, <2>0, SelectDoes DEF Becomes, disk
  <2>2. \/ past' = past /\ proc'[q].todo = Removals(t)
        \/ "unread" \in past'[t]
    BY <1>0, <1>3, <2>0, SelectDoes DEF Becomes
  <2>3. CASE past' = past /\ proc'[q].todo = Removals(t)
    <3>1. ASSUME Tracked(t), NEW f \in files, f.scan = t PROVE f \in Removals(t)
      <4>1. <<t, f.page>> \in pageRows
        BY <3>1 DEF Found
      <4>2. f \in AllFiles
        BY DEF TypeOK
      <4>3. f.page \in RowsOf(t) /\ (f = Mat(t, f.page) \/ f = Pic(t, f.page))
        BY <3>1, <4>1, <4>2, Names DEF RowsOf
      <4> QED
        BY <4>3 DEF Removals, FilesOfRows
    <3>2. Tracked(t)' => Tracked(t)
      BY <2>3 DEF Tracked, Known
    <3> QED
      BY <2>1, <2>3, <3>1, <3>2 DEF Going
  <2>4. CASE "unread" \in past'[t]
    BY <2>1, <2>4 DEF Going, Tracked
  <2> QED
    BY <2>2, <2>3, <2>4
<1>4. CASE RemoveFile(q)
  <2>1. /\ proc[q].at = "removing" /\ proc'[q].at = "removing" /\ proc'[q].scan = proc[q].scan
        /\ past' = past
        /\ \E f \in proc[q].todo : files' = files \ {f} /\ proc'[q].todo = proc[q].todo \ {f}
    BY <1>0, <1>4, RemoveFileDoes DEF Becomes
  <2>2. Tracked(proc[q].scan)' => Tracked(proc[q].scan)
    BY <2>1 DEF Tracked, Known
  <2> QED
    BY <2>1, <2>2 DEF Going, Removing
<1>5. CASE DeletePagesForScan(q)
  <2>1. /\ proc[q].at = "removing" /\ proc[q].todo = {} /\ past' = past /\ files' = files
        /\ proc'[q].at = "unlisting" /\ proc'[q].scan = proc[q].scan
    BY <1>0, <1>5, DeletePagesForScanDoes DEF Becomes
  <2>3. \/ pageRows' = {row \in pageRows : row[1] # proc[q].scan}
        \/ proc'[q].clean = FALSE
    BY <1>0, <1>5, DeletePagesForScanDoes DEF Becomes
  <2>2. Tracked(proc[q].scan)' => Tracked(proc[q].scan)
    BY <2>1 DEF Tracked, Known
  <2> QED
    BY <2>1, <2>2, <2>3 DEF Going, Removing
<1>6. CASE DeleteScanRow(q)
  <2>1. proc'[q].at \notin {"removing", "unlisting"}
    BY <1>0, <1>6, DeleteScanRowDoes DEF Becomes
  <2> QED
    BY <2>1 DEF Going
<1>7. CASE PurgeNext(q)
  <2>1. proc'[q].at \notin {"removing", "unlisting"}
    BY <1>0, <1>7, PurgeNextDoes DEF Becomes
  <2> QED
    BY <2>1 DEF Going
<1>8. ASSUME NEW cutoff \in 2..(MaxScans + 1), Purge(q, cutoff) PROVE Going(q)'
  <2>1. proc'[q].at \notin {"removing", "unlisting"}
    BY <1>0, <1>8, PurgeDoes DEF Becomes
  <2> QED
    BY <2>1 DEF Going
<1>9. ASSUME NEW s \in Scans, AskDelete(q, s) PROVE Going(q)'
  <2>1. proc'[q].at \notin {"removing", "unlisting"}
    BY <1>0, <1>9, AskDeleteDoes DEF Becomes
  <2> QED
    BY <2>1 DEF Going
<1>10. ASSUME NEW s \in Scans, Load(q, s) PROVE Going(q)'
  <2>1. proc'[q].at \notin {"removing", "unlisting"}
    BY <1>0, <1>10, LoadDoes DEF Becomes
  <2> QED
    BY <2>1 DEF Going
<1>11. CASE Get(q)
  <2>1. proc'[q].at \notin {"removing", "unlisting"}
    BY <1>0, <1>11, GetDoes DEF Becomes
  <2> QED
    BY <2>1 DEF Going
<1>12. CASE Loaded(q)
  <2>1. proc'[q].at \notin {"removing", "unlisting"}
    BY <1>0, <1>12, LoadedDoes DEF Becomes
  <2> QED
    BY <2>1 DEF Going
<1> QED
  BY <1>0, <1>1, <1>2, <1>3, <1>4, <1>5, <1>6, <1>7, <1>8, <1>9, <1>10, <1>11, <1>12,
     Moves, SaverAssumption
     DEF Moved, DeleteScan, DeleteAllScansFromBefore, LoadScan

-----------------------------------------------------------------------------
(* The invariant and what follows from it.                                 *)

LEMMA InitInvariant == Init => IInv
<1> SUFFICES ASSUME Init PROVE IInv
  OBVIOUS
<1>0. \A p \in Procs : proc[p] = Idle
  BY DEF Init
<1>1. /\ Idle.at = "idle" /\ Idle.todo = {} /\ Idle.left = {} /\ Idle.clean = FALSE
  BY DEF Idle
<1>2. \A p \in Procs : /\ proc[p].at = "idle" /\ proc[p].todo = {} /\ proc[p].left = {}
                       /\ proc[p].clean = FALSE
  BY <1>0, <1>1
<1>3. save.at = "idle" /\ save.left = {} /\ save.clean = FALSE /\ Tasks \subseteq Procs
  BY <1>2 DEF save, Procs
<1>4. \A s \in Scans : past[s] = {}
  BY DEF Init
<1>5. scanRows = {} /\ pageRows = {} /\ files = {} /\ torn = {} /\ begun = 0
  BY DEF Init
<1>6. TypeOK
  <2>1. proc \in [Procs -> Doing]
    BY IdleFits DEF Init
  <2>2. 0 \in 0..MaxScans /\ 0 \in 0..MaxFaults
    BY BoundsAssumption
  <2>3. past \in [Scans -> SUBSET {"returned", "asked", "raced", "unread", "removed", "undone",
                                  "mistaken", "cut"}]
    BY DEF Init
  <2> QED
    BY <1>5, <2>1, <2>2, <2>3 DEF TypeOK, Doing, Places, Init
<1>7. Begun
  BY <1>4, <1>5 DEF Begun, Unborn
<1>8. Roles
  BY <1>2, <1>3 DEF Roles, SaverRole, TaskRole, OwnFiles, Saving, Removing, Loading
<1>9. Allowed
  BY <1>2, <1>3 DEF Allowed, AllowedTo, Removing
<1>10. RowsMade /\ FilesMade /\ NoneElse /\ Undoing
  BY <1>3 DEF RowsMade, FilesMade, NoneElse, Undoing, Saving
<1>11. \A s \in Scans : Undone(s) /\ Intact(s) /\ Together(s) /\ Found(s) /\ Gone(s)
  BY <1>4 DEF Undone, Intact, Together, Found, Gone, Tracked, Known
<1>12. \A p \in Tasks : Going(p) /\ Loads(p)
  BY <1>2, <1>3 DEF Going, Loads, Removing, Loading
<1> QED
  BY <1>6, <1>7, <1>8, <1>9, <1>10, <1>11, <1>12 DEF IInv

LEMMA StepInvariant == IInv /\ [Next]_vars => IInv'
<1> SUFFICES ASSUME IInv, [Next]_vars PROVE IInv'
  OBVIOUS
<1>1. /\ TypeOK /\ Begun /\ Roles /\ Allowed
      /\ RowsMade /\ FilesMade /\ NoneElse /\ Undoing
      /\ \A s \in Scans : Undone(s) /\ Intact(s) /\ Together(s) /\ Found(s) /\ Gone(s)
      /\ \A p \in Tasks : Going(p) /\ Loads(p)
  BY DEF IInv
<1>2. TypeOK'
  BY <1>1, TypeOKStep
<1>3. Begun' /\ Roles'
  BY <1>1, RolesStep
<1>4. \A p \in Tasks : AllowedTo(p)'
  BY <1>1, AllowedStep
<1>5. RowsMade' /\ FilesMade' /\ NoneElse' /\ Undoing'
  BY <1>1, RowsMadeStep, FilesMadeStep, NoneElseStep, UndoingStep
<1>6. \A s \in Scans : Undone(s)'
  BY <1>1, UndoneStep
<1>7. \A s \in Scans : Intact(s)'
  BY <1>1, IntactStep
<1>8. \A s \in Scans : Together(s)'
  BY <1>1, TogetherStep
<1>9. \A s \in Scans : Found(s)'
  BY <1>1, FoundStep
<1>10. \A s \in Scans : Gone(s)'
  BY <1>1, GoneStep
<1>11. \A p \in Tasks : Going(p)'
  BY <1>1, GoingStep
<1>12. \A p \in Tasks : Loads(p)'
  BY <1>1, LoadsStep
<1> QED
  BY <1>2, <1>3, <1>4, <1>5, <1>6, <1>7, <1>8, <1>9, <1>10, <1>11, <1>12 DEF IInv, Allowed

\* The invariant of a scan's rows and files holds of every reachable state.
LEMMA Invariant == Spec => []IInv
BY InitInvariant, StepInvariant, PTL DEF Spec

\* The tables, the directories and the goroutines of local.go hold what they
\* may, for any number of pages, scans, calls and faults.
THEOREM StoreTypeCorrect == Spec => []TypeOK
<1>1. IInv => TypeOK
  BY DEF IInv
<1> QED
  BY Invariant, <1>1, PTL

\* What SaveScan returned is all there until somebody asks to delete it, or
\* LoadScan mistakes an unopened file for corruption, or SaveScan lost the
\* error of a last write.
THEOREM SavedStaysIntact == Spec => []SavedIsIntact
<1>1. IInv => SavedIsIntact
  BY DEF IInv, SavedIsIntact, Intact, Known, Spared
<1> QED
  BY Invariant, <1>1, PTL

\* A DeleteScan of a saved scan that met no error leaves no row and no file,
\* unless GetPagesForScan failed before or a purge overtook the save.
THEOREM RemovedLeavesNothing == Spec => []RemovedIsGone
<1>1. IInv => RemovedIsGone
  BY DEF IInv, RemovedIsGone, Gone, Tracked, FilesOf
<1> QED
  BY Invariant, <1>1, PTL

\* LoadScan returns every page or fails, whatever deletes the scan meanwhile.
THEOREM LoadsAreWhole == Spec => []LoadedIsWhole
<1>1. IInv => LoadedIsWhole
  BY DEF IInv, LoadedIsWhole, Loads, Raced
<1> QED
  BY Invariant, <1>1, PTL

\* cleanupFailure takes back every file but one that Mats.Set left torn.
THEOREM FailedSavesAreUndone == Spec => []FailedSaveLeavesOneFile
<1>1. IInv => FailedSaveLeavesOneFile
  BY DEF IInv, FailedSaveLeavesOneFile, Undone, FilesOf
<1> QED
  BY Invariant, <1>1, PTL
=============================================================================
