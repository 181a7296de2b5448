------------------------------ MODULE History ------------------------------
(***************************************************************************)
(* The resource history: init and its polling goroutine                    *)
(* (internal/sys/resources.go) fill three RingBuffers and keep the peak of *)
(* memory use; GetResourceUtilization, GetCpuInfo and GetMemoryInfo        *)
(* (handler/system.go) show them.  The ring of this module is memHistory,  *)
(* whose items are the bytes the program uses; of the other two the        *)
(* lengths matter.  The buffers have locks; the peak, lifetimeMaxMem, has  *)
(* none.  Requests share nothing, so one at a time is enough.              *)
(***************************************************************************)
EXTENDS RingBuffer

\* currentMemInfo gives zeros, and no error, when it cannot read.
ASSUME ItemsAssumption == Items \subseteq Nat /\ 0 \in Items

VARIABLES
  cpuLength, diskLength,
  peak,             \* lifetimeMaxMem
  written,          \* the values it has had
  settled,          \* its value when each buffer was last unlocked by the poller
  poller,           \* what the goroutine does next; first "init" runs
  inUse,            \* the memory sample in its hands
  at,               \* where the request is
  kind, limit,      \* what it asks
  shownCpu,         \* samples of CPU in the answer (those of memory: got)
  floor,            \* the peak it is sure to see
  shownPeak         \* the peak in the answer

pollerVars  == <<ring, cpuLength, diskLength, peak, written, settled, poller, inUse>>
requestVars == <<got, at, kind, limit, shownCpu, floor, shownPeak>>
historyVars == <<pollerVars, requestVars>>

Larger(a, b) == IF a > b THEN a ELSE b

\* int(q.Limit): the upper half of the unsigned numbers turns negative.
AsInt(n) == IF 2 * n > MaxAsked THEN n - (MaxAsked + 1) ELSE n

-----------------------------------------------------------------------------
(* Writing.                                                                *)

HistoryInit ==
  /\ Init
  /\ cpuLength = 0 /\ diskLength = 0
  /\ peak = 0 /\ written = {0}
  /\ settled = [cpu |-> 0, mem |-> 0, disk |-> 0]
  /\ poller = "init" /\ inUse = 0
  /\ at = "idle" /\ kind = "memory" /\ limit = 0
  /\ shownCpu = 0 /\ floor = 0 /\ shownPeak = 0

\* Bug: the goroutine takes the first samples.
TakeFirstSamplesLater ==
  /\ poller = "init" /\ poller' = "cpu"
  /\ UNCHANGED <<ring, cpuLength, diskLength, peak, written, settled, inUse, requestVars>>

\* init, before main: an error of the CPU or the disk ends the program.
TakeFirstSamples ==
  /\ poller = "init" /\ poller' = "cpu"
  /\ \E use \in Items :
       /\ Add(use) /\ inUse' = use
       /\ peak' = use /\ written' = {use}
       /\ settled' = [cpu |-> 0, mem |-> 0, disk |-> 0]
  /\ cpuLength' = 1 /\ diskLength' = 1
  /\ UNCHANGED <<at, kind, limit, shownCpu, floor, shownPeak>>

\* What was written before an unlock is visible to who locks after it.
Settle(buffer) == settled' = [settled EXCEPT ![buffer] = peak]

AddCpu ==
  /\ poller = "cpu" /\ poller' = "mem"
  /\ cpuLength' = Smaller(Capacity, cpuLength + 1) /\ Settle("cpu")
  /\ UNCHANGED <<ring, diskLength, peak, written, inUse, requestVars>>

AddMem ==
  /\ poller = "mem" /\ poller' = "disk"
  /\ \E use \in Items : Add(use) /\ inUse' = use
  /\ Settle("mem")
  /\ UNCHANGED <<cpuLength, diskLength, peak, written>>
  /\ UNCHANGED <<at, kind, limit, shownCpu, floor, shownPeak>>

AddDisk ==
  /\ poller = "disk" /\ poller' = "peak"
  /\ diskLength' = Smaller(Capacity, diskLength + 1) /\ Settle("disk")
  /\ UNCHANGED <<ring, cpuLength, peak, written, inUse, requestVars>>

\* Bug: the newest sample takes the place of the peak.
RaisePeakAlways ==
  /\ poller = "peak" /\ poller' = "cpu"
  /\ peak' = inUse /\ written' = written \cup {peak'}
  /\ UNCHANGED <<ring, cpuLength, diskLength, settled, inUse, requestVars>>

\* The maximum is taken after the sample can be seen.
RaisePeak ==
  /\ poller = "peak" /\ poller' = "cpu"
  /\ peak' = Larger(peak, inUse) /\ written' = written \cup {peak'}
  /\ UNCHANGED <<ring, cpuLength, diskLength, settled, inUse, requestVars>>

-----------------------------------------------------------------------------
(* Reading.                                                                *)

\* ParseQuery: Validate refuses a limit of zero.
Ask ==
  /\ at = "idle" /\ poller # "init"
  /\ \E k \in {"utilization", "cpu", "memory"}, n \in 0..MaxAsked :
       /\ n # 0
       /\ kind' = k /\ limit' = n
       /\ at' = IF k = "memory" THEN "mem" ELSE "cpu"
  /\ UNCHANGED <<pollerVars, got, shownCpu, floor, shownPeak>>

See(buffer) == floor' = Larger(floor, settled[buffer])

\* CpuHistory.  GetCpuInfo indexes its last sample; with none it panics, and
\* net/http recovers.
ReadCpu ==
  /\ at = "cpu"
  /\ shownCpu' = Larger(0, Smaller(AsInt(limit), cpuLength))
  /\ at' = IF kind = "utilization" THEN "mem"
           ELSE IF shownCpu' > 0 THEN "answered" ELSE "panicked"
  /\ See("cpu")
  /\ UNCHANGED <<pollerVars, got, kind, limit, shownPeak>>

\* MemHistory; a negative number asks for nothing.
ReadMem ==
  /\ at = "mem"
  /\ Get(AsInt(limit))
  /\ at' = IF kind = "memory" THEN "answered" ELSE "disk"
  /\ See("mem")
  /\ UNCHANGED <<cpuLength, diskLength, peak, written, settled, poller, inUse>>
  /\ UNCHANGED <<kind, limit, shownCpu, shownPeak>>

\* DiskHistory(1).
ReadDisk ==
  /\ at = "disk" /\ at' = "peak"
  /\ See("disk")
  /\ UNCHANGED <<pollerVars, got, kind, limit, shownCpu, shownPeak>>

\* PeakMem takes no lock: a data race with RaisePeak.  It gets a value that was
\* written, and none older than what a lock it took has made visible.
ReadPeak ==
  /\ at = "peak" /\ at' = "answered"
  /\ shownPeak' \in {value \in written : value >= floor}
  /\ UNCHANGED <<pollerVars, got, kind, limit, shownCpu, floor>>

\* The answer is sent, or the connection is closed.
Done ==
  /\ at \in {"answered", "panicked"} /\ at' = "idle"
  /\ kind' = "memory" /\ limit' = 0 /\ shownCpu' = 0 /\ floor' = 0 /\ shownPeak' = 0
  /\ UNCHANGED <<pollerVars, got>>

Poll    == AddCpu \/ AddMem \/ AddDisk \/ RaisePeak
Request == Ask \/ ReadCpu \/ ReadMem \/ ReadDisk \/ ReadPeak \/ Done

HistoryNext == TakeFirstSamples \/ Poll \/ Request

HistorySpec == HistoryInit /\ [][HistoryNext]_historyVars

-----------------------------------------------------------------------------
(* What must hold.                                                         *)

\* However the request falls between the poller's steps and whatever the race
\* on the peak gives, the peak in an answer is no less than the memory samples
\* in it, but for the newest, which can be shown before it counts
\* (resources.go, GetResourceUtilization).
PeakIsKept ==
  at = "answered" /\ kind = "utilization" =>
    \A i \in 1..(Len(got) - 1) : got[i] <= shownPeak

\* There is a sample to show from the first request on: GetCpuInfo panics only
\* when int() made the limit negative, and else no history is empty.
OnlyHugeLimitsPanic ==
  /\ at = "panicked" => AsInt(limit) < 0
  /\ at = "answered" /\ AsInt(limit) > 0 =>
       /\ kind = "memory" \/ shownCpu > 0
       /\ kind = "cpu" \/ got # <<>>
=============================================================================
