---------------------------- MODULE CascadeOfmap ----------------------------
(***************************************************************************)
(* The output path of the first generation, memx_cascade.c.  The ofmap     *)
(* worker asks the interface driver for as many rows as a flow's ring has  *)
(* room for, and puts a job in one list for all flows for every frame that *)
(* is complete; a job worker takes a job and decodes the oldest frame of   *)
(* its flow into the flow's list; stream_ofmap takes it from there.        *)
(*                                                                         *)
(* A row comes in parts, numbered by their place in the flow's stream.     *)
(* One read takes one node of the interface driver's list, a block of as   *)
(* many parts as the device made it: the driver copies all of it, whatever *)
(* length the worker asks for.  NodesFit is the assumption that the device *)
(* never makes a node larger than the room the worker has left; the        *)
(* properties hold under it, and nothing in the code enforces it.          *)
(* Memory is sequentially consistent and never runs out.                   *)
(***************************************************************************)
EXTENDS CascadeWorkers

CONSTANTS
    NF,             \* configured flows are 0..NF-1
    H,              \* rows of a frame
    P,              \* parts of a row
    RingFrames,     \* frames a ring has rows for
    QueueSize,      \* ofmap_queue_size
    Readers,        \* threads that call stream_ofmap
    NodesFit,       \* no node of the device is larger than what is asked for
    MaxRows,        \* bound on the rows the device sends on a flow
    MaxCalls        \* bound on the calls to stream_ofmap

ASSUME CascadeOfmapAssumption ==
    /\ {NF, H, P, RingFrames, QueueSize} \subseteq Nat \ {0}
    /\ H * RingFrames > 1
    /\ NodesFit \in BOOLEAN
    /\ {MaxRows, MaxCalls} \subseteq Nat

Flows == 0 .. NF - 1
R     == H * RingFrames         \* max_num_of_entry_by_hight
Rows  == 0 .. R - 1

VARIABLES
    ring,       \* ring[f]: entry_w, entry_r, entry_report_r, data, and who
                \* has read_guard
    queue,      \* ofmap_queues[f]: frames, each the rows it was decoded from
    work,       \* work[e]: the rows job worker e has decoded
    rcv,        \* the ofmap worker's variables; locked: read_guard is kept
    user,       \* user[u]: place and flow
    calls,
    fetched,    \* parts taken from the interface driver, by flow
    dropped,    \* history: flows of frames dropped because their list was full
    delivered   \* history: frames taken by the application, by flow

vars == <<sharedVars, ring, queue, work, rcv, user, calls, fetched, dropped,
          delivered>>

-----------------------------------------------------------------------------
NextRowNoWrap(i) == i + 1                       \* mutant: pointer never wraps
NextRow(i) == IF i + 1 = R THEN 0 ELSE i + 1

Full(f) == (ring[f].entry_w + 1) % R = ring[f].entry_r

(* Rows free up to the read pointer or the end of the buffer. *)
RoomToEnd(f) == R - ring[f].entry_w             \* mutant: entry_r ignored
Room(f) ==
    IF ring[f].entry_w >= ring[f].entry_r
      THEN R - ring[f].entry_w - (IF ring[f].entry_r = 0 THEN 1 ELSE 0)
      ELSE ring[f].entry_r - ring[f].entry_w - 1

(* Rows from pointer a to pointer b. *)
RowsFromTo(a, b) == IF b >= a THEN b - a ELSE R - (a - b)

Init ==
    /\ WorkersInit
    /\ ring = [f \in Flows |-> [entry_w |-> 0, entry_r |-> 0,
                                entry_report_r |-> 0,
                                data |-> [i \in Rows |-> [p \in 1 .. P |-> -1]],
                                guard |-> NoWorker]]
    /\ queue = [f \in Flows |-> <<>>]
    /\ work = [e \in JobWorkers |-> <<>>]
    /\ rcv = [flow |-> 0, n |-> 0, got |-> 0, frames |-> 0, locked |-> FALSE]
    /\ user = [u \in Readers |-> [pc |-> "idle", flow |-> 0]]
    /\ calls = 0
    /\ fetched = [f \in Flows |-> 0]
    /\ dropped = <<>>
    /\ delivered = [f \in Flows |-> <<>>]

-----------------------------------------------------------------------------
(* The ofmap worker. *)

WorkerTop ==
    /\ wk.pc = "top"
    /\ WorkerGoes(IF wk.enable = 1 THEN "gate" ELSE "exit")
    /\ rcv' = [rcv EXCEPT !.flow = 0]
    /\ UNCHANGED <<jobs, jw, pool, lost, ctl, ring, queue, work, user, calls,
                   fetched, dropped, delivered>>

PastFlow(r) ==
    /\ WorkerGoes(IF r.flow + 1 < NF THEN "scan" ELSE "top")
    /\ rcv' = [r EXCEPT !.flow = @ + 1, !.n = 0, !.got = 0, !.frames = 0]

ScanFlow ==
    /\ wk.pc = "scan"
    /\ IF Full(rcv.flow) THEN PastFlow(rcv)
                         ELSE WorkerGoes("begin") /\ UNCHANGED rcv
    /\ UNCHANGED <<jobs, jw, pool, lost, ctl, ring, queue, work, user, calls,
                   fetched, dropped, delivered>>

(* The illegal case, a full ring, returns with read_guard locked. *)
TransferBegin == LET f == rcv.flow IN
    /\ wk.pc = "begin"
    /\ ring[f].guard = NoWorker
    /\ ~rcv.locked
    /\ IF Full(f) THEN PastFlow([rcv EXCEPT !.locked = TRUE])
                  ELSE /\ WorkerGoes("read")
                       /\ rcv' = [rcv EXCEPT !.n = Room(f), !.got = 0]
    /\ UNCHANGED <<jobs, jw, pool, lost, ctl, ring, queue, work, user, calls,
                   fetched, dropped, delivered>>

(* k more parts go to where the last read ended; what is behind the end of *)
(* the buffer is memory of others, and not modelled.                       *)
Store(f, k) ==
    /\ ring' = [ring EXCEPT ![f].data = [i \in Rows |-> [p \in 1 .. P |->
                  LET j == (i - ring[f].entry_w) * P + p - 1 IN
                  IF j \in rcv.got .. rcv.got + k - 1
                    THEN fetched[f] + j - rcv.got
                    ELSE ring[f].data[i][p]]]]
    /\ fetched' = [fetched EXCEPT ![f] = @ + k]
    /\ rcv' = [rcv EXCEPT !.got = @ + k]

Asked == IF rcv.got = 0 THEN rcv.n * P ELSE P - (rcv.got % P)
Aligned(got) == got % P = 0

NodeSizes == 1 .. IF NodesFit THEN Asked ELSE MaxRows * P

(* The first read is the last one if it ends with a row, a later one if it *)
(* has brought what was missing.                                           *)
LastRead(k) == IF rcv.got = 0 THEN Aligned(k) ELSE k >= Asked

(* The first read, and those that complete the last row, which go on until *)
(* the device has sent it, whatever enable and state_next say.             *)
ReadParts == LET f == rcv.flow IN
    /\ wk.pc = "read"
    /\ \E k \in NodeSizes :
        /\ fetched[f] + k <= MaxRows * P
        /\ Store(f, k)
        /\ WorkerGoes(IF LastRead(k) THEN "publish" ELSE "read")
    /\ UNCHANGED <<jobs, jw, pool, lost, ctl, queue, work, user, calls, dropped,
                   delivered>>

ReadNothing ==
    /\ wk.pc = "read"
    /\ rcv.got = 0
    /\ PastFlow(rcv)
    /\ UNCHANGED <<jobs, jw, pool, lost, ctl, ring, queue, work, user, calls,
                   fetched, dropped, delivered>>

(* Only this worker uses write_guard, entry_w and entry_report_r. *)
NewFramesFromEntry(f, w) ==                     \* mutant: counts from entry_r
    RowsFromTo(ring[f].entry_r, w) \div H
NewFrames(f, w) == RowsFromTo(ring[f].entry_report_r, w) \div H

Publish == LET f == rcv.flow
               w == (ring[f].entry_w + rcv.got \div P) % R IN
    /\ wk.pc = "publish"
    /\ ring' = [ring EXCEPT ![f].entry_w = w]
    /\ IF NewFrames(f, w) = 0 THEN PastFlow(rcv)
       ELSE /\ rcv' = [rcv EXCEPT !.frames = NewFrames(f, w)]
            /\ WorkerGoes("report")
    /\ UNCHANGED <<jobs, jw, pool, lost, ctl, queue, work, user, calls, fetched,
                   dropped, delivered>>

ReportJob ==
    /\ wk.pc = "report"
    /\ jobs' = Append(jobs, rcv.flow)
    /\ WorkerGoes("signal")
    /\ UNCHANGED <<jw, pool, lost, ctl, ring, queue, work, rcv, user, calls,
                   fetched, dropped, delivered>>

Report == LET f == rcv.flow
              r == ring[f].entry_report_r + H IN
    /\ wk.pc = "signal"
    /\ SignalEnqueue
    /\ ring' = [ring EXCEPT ![f].entry_report_r = IF r = R THEN 0 ELSE r]
    /\ IF rcv.frames > 1
         THEN WorkerGoes("report") /\ rcv' = [rcv EXCEPT !.frames = @ - 1]
         ELSE PastFlow(rcv)
    /\ UNCHANGED <<jobs, pool, lost, ctl, queue, work, user, calls, fetched,
                   dropped, delivered>>

Worker ==
    \/ WorkerTop \/ ScanFlow \/ TransferBegin \/ ReadParts \/ ReadNothing
    \/ Publish \/ ReportJob \/ Report
    \/ WorkerGate /\ UNCHANGED <<ring, queue, work, rcv, user, calls, fetched,
                                 dropped, delivered>>

-----------------------------------------------------------------------------
(* A job worker decodes a frame. *)

GuardIgnored(f) == TRUE                         \* mutant: no lock
GuardFree(f) == ring[f].guard = NoWorker

DecodeLock(e) == LET f == jw[e].flow IN
    /\ jw[e].pc = "execute"
    /\ GuardFree(f)
    /\ ring' = [ring EXCEPT ![f].guard = e]
    /\ JobWorkerGoes(e, "row")
    /\ UNCHANGED <<jobs, pool, lost, wk, ctl, queue, work, rcv, user, calls,
                   fetched, dropped, delivered>>

DecodeRow(e) == LET f == jw[e].flow IN
    /\ jw[e].pc = "row"
    /\ work' = [work EXCEPT ![e] = Append(@, ring[f].data[ring[f].entry_r])]
    /\ LET last == Len(work[e]) + 1 = H IN
        /\ ring' = [ring EXCEPT ![f].entry_r = NextRow(@),
                                ![f].guard = IF last THEN NoWorker ELSE @]
        /\ JobWorkerGoes(e, IF last THEN "full" ELSE "row")
    /\ UNCHANGED <<jobs, pool, lost, wk, ctl, queue, rcv, user, calls, fetched,
                   dropped, delivered>>

QueueFull(f) == Len(queue[f]) >= QueueSize

(* Poll for space; after _CASCADE_MPU_OFMAP_ENQUEUE_TIMEOUT drop the frame. *)
DecodePoll(e) == LET f == jw[e].flow IN
    /\ jw[e].pc = "full"
    /\ IF QueueFull(f)
         THEN /\ JobWorkerGoes(e, "rest")
              /\ work' = [work EXCEPT ![e] = <<>>]
              /\ dropped' = Append(dropped, f)
         ELSE JobWorkerGoes(e, "push") /\ UNCHANGED <<work, dropped>>
    /\ UNCHANGED <<jobs, pool, lost, wk, ctl, ring, queue, rcv, user, calls,
                   fetched, delivered>>

DecodePush(e) == LET f == jw[e].flow IN
    /\ jw[e].pc = "push"
    /\ queue' = [queue EXCEPT ![f] = Append(@, work[e])]
    /\ work' = [work EXCEPT ![e] = <<>>]
    /\ JobWorkerGoes(e, "rest")
    /\ UNCHANGED <<jobs, pool, lost, wk, ctl, ring, rcv, user, calls, fetched,
                   dropped, delivered>>

Decode(e) ==
    \/ DecodeLock(e) \/ DecodeRow(e) \/ DecodePoll(e) \/ DecodePush(e)
    \/ JobWorkerLoop(e) /\ UNCHANGED <<ring, queue, work, rcv, user, calls,
                                       fetched, dropped, delivered>>

-----------------------------------------------------------------------------
(* Threads in stream_ofmap. *)

ReadCall(u, f) ==
    /\ user[u].pc = "idle"
    /\ ~Destroying
    /\ calls < MaxCalls
    /\ calls' = calls + 1
    /\ user' = [user EXCEPT ![u] = [pc |-> "poll", flow |-> f]]
    /\ UNCHANGED <<sharedVars, ring, queue, work, rcv, fetched, dropped,
                   delivered>>

ReadPoll(u) == LET empty == queue[user[u].flow] = <<>> IN
    /\ user[u].pc = "poll"
    /\ user' = [user EXCEPT ![u].pc = IF empty THEN "idle" ELSE "pop"]
    /\ UNCHANGED <<sharedVars, ring, queue, work, rcv, calls, fetched, dropped,
                   delivered>>

(* Another reader may have emptied the list: DEQUEUE_FAIL, whatever the    *)
(* timeout.                                                                *)
ReadPop(u) == LET f == user[u].flow IN
    /\ user[u].pc = "pop"
    /\ IF queue[f] = <<>> THEN UNCHANGED <<queue, delivered>>
       ELSE /\ delivered' = [delivered EXCEPT ![f] = Append(@, Head(queue[f]))]
            /\ queue' = [queue EXCEPT ![f] = Tail(@)]
    /\ user' = [user EXCEPT ![u].pc = "idle"]
    /\ UNCHANGED <<sharedVars, ring, work, rcv, calls, fetched, dropped>>

Reader(u) == ReadPoll(u) \/ ReadPop(u)

-----------------------------------------------------------------------------
Next ==
    \/ \E u \in Readers : Reader(u) \/ \E f \in Flows : ReadCall(u, f)
    \/ \E e \in JobWorkers : Decode(e)
    \/ Worker
    \/ /\ \/ SpuriousWakeup \/ Control(TRUE) \/ Request
          \/ DestroyDisable /\ \A u \in Readers : user[u].pc = "idle"
       /\ UNCHANGED <<ring, queue, work, rcv, user, calls, fetched, dropped,
                      delivered>>
    \/ /\ DestroyJoin
       /\ queue' = [f \in Flows |-> <<>>]
       /\ UNCHANGED <<ring, work, rcv, user, calls, fetched, dropped, delivered>>

Spec == Init /\ [][Next]_vars

-----------------------------------------------------------------------------
(* Pointers, counts and the workers stay in their ranges.  The test for    *)
(* space and the push are two steps: every further decoder can put one     *)
(* frame more into a list than ofmap_queue_size.                           *)
TypeOK ==
    /\ WorkersTypeOK
    /\ \A f \in Flows : Len(queue[f]) < QueueSize + Cardinality(JobWorkers)
    /\ \A f \in Flows :
        /\ {ring[f].entry_w, ring[f].entry_r, ring[f].entry_report_r}
             \subseteq Rows
        /\ ring[f].entry_report_r % H = 0
    /\ rcv.n \in 0 .. R - 1 /\ rcv.got \in Nat

(* A frame as the device sent it: consecutive parts from a frame's first.  *)
FrameNumber(x) == x[1][1] \div (H * P)
Sent(n) == [i \in 1 .. H |-> [p \in 1 .. P |-> (n * H + i - 1) * P + p - 1]]

Decoded(f) == delivered[f] \o queue[f]

(* If nodes fit: however many decoders there are, and in however many      *)
(* parts a row comes, every frame handed to the application is one the     *)
(* device sent, whole, and none is handed out twice: no row was            *)
(* overwritten or decoded before it came.                                  *)
WholeFramesOnce ==
    \A f \in Flows : LET d == Decoded(f) IN
        /\ \A k \in DOMAIN d : d[k] = Sent(FrameNumber(d[k]))
        /\ \A j, k \in DOMAIN d : d[j] = d[k] => j = k

(* If nodes fit, with one decoder frames keep their order, and are         *)
(* complete unless one was dropped because its list stayed full.           *)
FramesInOrder ==
    ~ctl.grown => \A f \in Flows : LET d == Decoded(f) IN
        /\ \A j, k \in DOMAIN d : j < k => FrameNumber(d[j]) < FrameNumber(d[k])
        /\ (\A i \in DOMAIN dropped : dropped[i] # f)
             => \A k \in DOMAIN d : FrameNumber(d[k]) = k - 1

(* If nodes fit: the rows between entry_r and entry_report_r are exactly   *)
(* those of the frames whose job waits or is being executed, as long as no *)
(* job of the flow was discarded; and with one decoder none is before      *)
(* destroy.                                                                *)
ReportMatchesJobs ==
    /\ ~ctl.grown /\ ~Destroying => lost = <<>>
    /\ ctl.pc # "gone" => \A f \in Flows : LostFor(f) = 0 =>
        LET queued == IF wk.pc = "signal" /\ rcv.flow = f THEN H ELSE 0 IN
        RowsFromTo(ring[f].entry_r, (ring[f].entry_report_r + queued) % R)
          = H * (JobsFor(f) + WorkersAt(f, "execute"))
            + Cardinality({p \in JobWorkers \X (1 .. H) :
                /\ jw[p[1]].flow = f /\ jw[p[1]].pc = "row"
                /\ p[2] > Len(work[p[1]])})

(* A decoder of the pool is up when there is a job, or a signal is coming; *)
(* and if nodes fit, the branch of the transfer that returns with          *)
(* read_guard locked, after which no frame of the flow is decoded, is      *)
(* never taken.                                                            *)
NobodyStuck ==
    /\ jobs # <<>> /\ (\A i \in DOMAIN pool : jw[pool[i]].pc = "waiting")
         => ctl.pc \in {"remove_tell", "gone"} \/ wk.pc = "signal"
    /\ ~rcv.locked
=============================================================================
