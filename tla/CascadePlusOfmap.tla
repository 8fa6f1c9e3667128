-------------------------- MODULE CascadePlusOfmap --------------------------
(***************************************************************************)
(* The output path of memx_cascadeplus.c: the ofmap worker polls the       *)
(* interface driver and assembles frames in a ring per flow; threads of    *)
(* the application take them with stream_ofmap, which copies a frame, or   *)
(* with dequeue_ofmap_buf, which lends the slot until enqueue_ofmap_buf    *)
(* gives it back; a control thread enables, disables and destroys.         *)
(*                                                                         *)
(* The device sends a frame in parts.  A part is one node of the list the  *)
(* interface driver keeps for a flow, and memx_mpuio_stream_read takes one *)
(* node or none.  A slot is remembered part by part, each by the number of *)
(* the frame it belongs to.                                                *)
(***************************************************************************)
EXTENDS Integers, Sequences, FiniteSets

CONSTANTS
    NF,             \* configured flows are 0..NF-1, polled in this order
    N,              \* max_num_of_frame of every ring; one slot stays empty
    Parts,          \* parts of a frame
    Readers,        \* threads that call stream_ofmap, dequeue and enqueue
    NoReader,       \* read_guard is free
    Kinds,          \* calls the application may take the frames of a flow
                    \* with, one of them for each flow
    InOrder,        \* lent buffers come back in the order they were lent
    MaxFrames,      \* bound on the frames the device sends on a flow
    MaxCalls,       \* bound on the calls that take a frame
    MaxControl,     \* bound on the calls to set_stream_enable / disable
    SIZE_MAX        \* largest value of a size_t; a ring is an array in memory

ASSUME OfmapAssumption ==
    /\ NF \in Nat \ {0}
    /\ N \in Nat \ {0}
    /\ Parts \in Nat \ {0}
    /\ Kinds \subseteq {"stream", "dequeue"}
    /\ InOrder \in BOOLEAN
    /\ MaxFrames \in Nat
    /\ MaxCalls \in Nat
    /\ MaxControl \in Nat
    /\ NoReader \notin Readers
    /\ IsFiniteSet(Readers)
    /\ SIZE_MAX \in Nat
    /\ N <= SIZE_MAX

Flows == 0 .. NF - 1
Slots == 0 .. N - 1

VARIABLES
    entry_w, entry_r,       \* ring pointers of each flow
    remain_buf_cnt,         \* frames not yet taken, by the driver's count
    read_buf_idx,           \* slot dequeue_ofmap_buf lends next
    transferred,            \* parts in the slot at entry_w
    data,                   \* data[f][i][p]: frame that part p of slot i is of
    write_guard,            \* write_guard[f]: TRUE when the worker holds it
    read_guard,             \* read_guard[f]: the reader that holds it
    enable, state, state_next,              \* ofmap_worker_info
    wpc, flow_id,                           \* the worker's own variables
    reads,                  \* reads[f]: the call the application takes frames
                            \* of f with
    upc, uflow, utimed, ucopy, calls,       \* the readers
    held,                   \* held[f]: buffers the application has, oldest first
    cpc, quiesced, controls,                \* the control thread
    arrived, fetched,       \* parts that came from the device, and were read
    delivered               \* history: slots' contents taken on each flow

ringVars    == <<entry_w, entry_r, remain_buf_cnt, read_buf_idx, transferred,
                 data, write_guard, read_guard>>
infoVars    == <<enable, state, state_next>>
workerVars  == <<wpc, flow_id>>
userVars    == <<upc, reads, uflow, utimed, ucopy, calls, held>>
controlVars == <<cpc, quiesced, controls>>
deviceVars  == <<arrived, fetched>>
vars == <<ringVars, infoVars, workerVars, userVars, controlVars, deviceVars,
          delivered>>

-----------------------------------------------------------------------------
NextEntryNoWrap(i) == i + 1                     \* mutant: pointer never wraps
NextEntry(i) == IF i + 1 = N THEN 0 ELSE i + 1

FullByReadIdx(f) ==                             \* mutant: lent slots are free
    NextEntry(entry_w[f]) = read_buf_idx[f]
Full(f) == (entry_w[f] + 1) % N = entry_r[f]

Occupied(w, r) == IF w >= r THEN w - r ELSE w - r + N

Whole(n) == [p \in 1 .. Parts |-> n]            \* a slot that holds frame n

Init ==
    /\ entry_w = [f \in Flows |-> 0]
    /\ entry_r = [f \in Flows |-> 0]
    /\ remain_buf_cnt = [f \in Flows |-> 0]
    /\ read_buf_idx = [f \in Flows |-> 0]
    /\ transferred = [f \in Flows |-> 0]
    /\ data = [f \in Flows |-> [i \in Slots |-> Whole(0)]]
    /\ write_guard = [f \in Flows |-> FALSE]
    /\ read_guard = [f \in Flows |-> NoReader]
    /\ enable = 1
    /\ state = "pending"
    /\ state_next = "pending"
    /\ wpc = "top"
    /\ flow_id = 0
    /\ reads \in [Flows -> Kinds]
    /\ upc = [u \in Readers |-> "idle"]
    /\ uflow = [u \in Readers |-> 0]
    /\ utimed = [u \in Readers |-> FALSE]
    /\ ucopy = [u \in Readers |-> Whole(0)]
    /\ calls = 0
    /\ held = [f \in Flows |-> <<>>]
    /\ cpc = "idle"
    /\ quiesced = FALSE
    /\ controls = 0
    /\ arrived = [f \in Flows |-> 0]
    /\ fetched = [f \in Flows |-> 0]
    /\ delivered = [f \in Flows |-> <<>>]

-----------------------------------------------------------------------------
(* The ofmap worker. *)

(* The test of the loop, made without the guard. *)
WorkerTop ==
    /\ wpc = "top"
    /\ wpc' = IF enable = 1 THEN "gate" ELSE "exit"
    /\ UNCHANGED <<ringVars, infoVars, flow_id, userVars, controlVars,
                   deviceVars, delivered>>

(* _memx_mpu_worker_go_to_sleep: wait on state_changed while pending. *)
MustSleep == enable = 1 /\ state_next = "pending"

WorkerSleep ==
    /\ wpc = "gate"
    /\ MustSleep
    /\ state' = "pending"
    /\ wpc' = "asleep"
    /\ UNCHANGED <<ringVars, enable, state_next, flow_id, userVars,
                   controlVars, deviceVars, delivered>>

SpuriousWakeup ==
    /\ wpc = "asleep"
    /\ wpc' = "gate"
    /\ UNCHANGED <<ringVars, infoVars, flow_id, userVars, controlVars,
                   deviceVars, delivered>>

WorkerGo ==
    /\ wpc = "gate"
    /\ ~MustSleep
    /\ state' = "running"
    /\ wpc' = "scan"
    /\ flow_id' = 0
    /\ UNCHANGED <<ringVars, enable, state_next, userVars, controlVars,
                   deviceVars, delivered>>

(* The test for space, made without a lock. *)
ScanFlow ==
    /\ wpc = "scan"
    /\ flow_id < NF
    /\ IF Full(flow_id)
         THEN flow_id' = flow_id + 1 /\ UNCHANGED wpc
         ELSE wpc' = "read" /\ UNCHANGED flow_id
    /\ UNCHANGED <<ringVars, infoVars, userVars, controlVars, deviceVars,
                   delivered>>

ScanDone ==
    /\ wpc = "scan"
    /\ flow_id = NF
    /\ wpc' = "top"
    /\ UNCHANGED <<ringVars, infoVars, flow_id, userVars, controlVars,
                   deviceVars, delivered>>

ReadNothing ==
    /\ wpc = "read"
    /\ fetched[flow_id] = arrived[flow_id]
    /\ flow_id' = flow_id + 1
    /\ wpc' = "scan"
    /\ UNCHANGED <<ringVars, infoVars, userVars, controlVars, deviceVars,
                   delivered>>

FrameDoneLate(n) == n > Parts                   \* mutant: off by one
FrameDoneAny(n) == n > 0                        \* mutant: any part is a frame
FrameDone(n) == n = Parts

(* memx_mpuio_stream_read copies one part into the slot at entry_w. *)
ReadPart ==
    LET f == flow_id
        n == transferred[f] + 1
    IN  /\ wpc = "read"
        /\ fetched[f] < arrived[f]
        /\ fetched' = [fetched EXCEPT ![f] = @ + 1]
        /\ data' = [data EXCEPT ![f][entry_w[f]][n] = (fetched[f] \div Parts) + 1]
        /\ IF FrameDone(n)
             THEN /\ transferred' = [transferred EXCEPT ![f] = 0]
                  /\ wpc' = "count"
                  /\ UNCHANGED flow_id
             ELSE /\ transferred' = [transferred EXCEPT ![f] = n]
                  /\ wpc' = "scan"
                  /\ flow_id' = f + 1
        /\ UNCHANGED <<entry_w, entry_r, remain_buf_cnt, read_buf_idx,
                       write_guard, read_guard, infoVars, userVars,
                       controlVars, arrived, delivered>>

(* Under write_guard the count goes up first, the pointer second; readers  *)
(* poll either of them without that lock.                                  *)
Increase(n) == (n + 1) % (SIZE_MAX + 1)

CountFrame ==
    /\ wpc = "count"
    /\ write_guard' = [write_guard EXCEPT ![flow_id] = TRUE]
    /\ remain_buf_cnt' = [remain_buf_cnt EXCEPT ![flow_id] = Increase(@)]
    /\ wpc' = "advance"
    /\ UNCHANGED <<entry_w, entry_r, read_buf_idx, transferred, data,
                   read_guard, infoVars, flow_id, userVars, controlVars,
                   deviceVars, delivered>>

AdvanceEntry ==
    /\ wpc = "advance"
    /\ entry_w' = [entry_w EXCEPT ![flow_id] = NextEntry(@)]
    /\ write_guard' = [write_guard EXCEPT ![flow_id] = FALSE]
    /\ flow_id' = flow_id + 1
    /\ wpc' = "scan"
    /\ UNCHANGED <<entry_r, remain_buf_cnt, read_buf_idx, transferred, data,
                   read_guard, infoVars, userVars, controlVars, deviceVars,
                   delivered>>

Worker ==
    \/ WorkerTop \/ WorkerSleep \/ WorkerGo \/ ScanFlow \/ ScanDone
    \/ ReadNothing \/ ReadPart \/ CountFrame \/ AdvanceEntry

-----------------------------------------------------------------------------
(* memx_cascade_plus_stream_ofmap and memx_cascade_plus_dequeue_ofmap_buf. *)

ReadCall(u, f, timed) ==
    /\ upc[u] = "idle"
    /\ cpc \notin {"stop", "join", "destroyed"}
    /\ calls < MaxCalls
    /\ calls' = calls + 1
    /\ upc' = [upc EXCEPT ![u] = "lock"]
    /\ uflow' = [uflow EXCEPT ![u] = f]
    /\ utimed' = [utimed EXCEPT ![u] = timed]
    /\ UNCHANGED <<ringVars, infoVars, workerVars, reads, ucopy, held,
                   controlVars, deviceVars, delivered>>

GuardIgnored(f) == TRUE                         \* mutant: read_guard not taken
ReadGuardFree(f) == read_guard[f] = NoReader

ReadLock(u) ==
    /\ upc[u] = "lock"
    /\ ReadGuardFree(uflow[u])
    /\ read_guard' = [read_guard EXCEPT ![uflow[u]] = u]
    /\ upc' = [upc EXCEPT ![u] = "poll"]
    /\ UNCHANGED <<entry_w, entry_r, remain_buf_cnt, read_buf_idx, transferred,
                   data, write_guard, infoVars, workerVars, reads, uflow,
                   utimed, ucopy, calls, held, controlVars, deviceVars,
                   delivered>>

(* stream_ofmap looks at the pointers, dequeue_ofmap_buf at the count. *)
NothingToRead(u) ==
    IF reads[uflow[u]] = "stream" THEN entry_w[uflow[u]] = entry_r[uflow[u]]
                           ELSE remain_buf_cnt[uflow[u]] = 0

ReadTimeout(u) ==
    /\ upc[u] = "poll"
    /\ NothingToRead(u)
    /\ utimed[u]
    /\ read_guard' = [read_guard EXCEPT ![uflow[u]] = NoReader]
    /\ upc' = [upc EXCEPT ![u] = "idle"]
    /\ UNCHANGED <<entry_w, entry_r, remain_buf_cnt, read_buf_idx, transferred,
                   data, write_guard, infoVars, workerVars, reads, uflow,
                   utimed, ucopy, calls, held, controlVars, deviceVars,
                   delivered>>

DecreaseNot(n) == n                             \* mutant: frame counted twice
Decrease(n) == (n + SIZE_MAX) % (SIZE_MAX + 1)

(* The count goes down under write_guard; read_guard stays locked. *)
ReadClaim(u) ==
    /\ upc[u] = "poll"
    /\ ~NothingToRead(u)
    /\ ~write_guard[uflow[u]]
    /\ remain_buf_cnt' = [remain_buf_cnt EXCEPT ![uflow[u]] = Decrease(@)]
    /\ upc' = [upc EXCEPT ![u] = "take"]
    /\ UNCHANGED <<entry_w, entry_r, read_buf_idx, transferred, data,
                   write_guard, read_guard, infoVars, workerVars, reads,
                   uflow, utimed, ucopy, calls, held, controlVars, deviceVars,
                   delivered>>

StreamCopy(u) ==
    /\ upc[u] = "take"
    /\ reads[uflow[u]] = "stream"
    /\ ucopy' = [ucopy EXCEPT ![u] = data[uflow[u]][entry_r[uflow[u]]]]
    /\ upc' = [upc EXCEPT ![u] = "release"]
    /\ UNCHANGED <<ringVars, infoVars, workerVars, reads, uflow, utimed, calls,
                   held, controlVars, deviceVars, delivered>>

StreamRelease(u) ==
    /\ upc[u] = "release"
    /\ entry_r' = [entry_r EXCEPT ![uflow[u]] = NextEntry(@)]
    /\ read_guard' = [read_guard EXCEPT ![uflow[u]] = NoReader]
    /\ delivered' = [delivered EXCEPT ![uflow[u]] = Append(@, ucopy[u])]
    /\ upc' = [upc EXCEPT ![u] = "idle"]
    /\ UNCHANGED <<entry_w, remain_buf_cnt, read_buf_idx, transferred, data,
                   write_guard, infoVars, workerVars, reads, uflow, utimed,
                   ucopy, calls, held, controlVars, deviceVars>>

(* The buffer at read_buf_idx is the application's now. *)
DequeueTake(u) ==
    LET f == uflow[u]
        i == read_buf_idx[f]
    IN  /\ upc[u] = "take"
        /\ reads[uflow[u]] = "dequeue"
        /\ held' = [held EXCEPT ![f] =
                        Append(@, [idx |-> i, frame |-> data[f][i]])]
        /\ delivered' = [delivered EXCEPT ![f] = Append(@, data[f][i])]
        /\ read_buf_idx' = [read_buf_idx EXCEPT ![f] = NextEntry(@)]
        /\ read_guard' = [read_guard EXCEPT ![f] = NoReader]
        /\ upc' = [upc EXCEPT ![u] = "idle"]
        /\ UNCHANGED <<entry_w, entry_r, remain_buf_cnt, transferred, data,
                       write_guard, infoVars, workerVars, reads, uflow,
                       utimed, ucopy, calls, controlVars, deviceVars>>

(* memx_cascade_plus_enqueue_ofmap_buf.  A thread that calls it has done   *)
(* with the buffer.  Which buffer comes back plays no part in the call,    *)
(* and neither does its timeout.                                           *)
EnqueueCall(u, f, k) ==
    /\ upc[u] = "idle"
    /\ cpc \notin {"stop", "join", "destroyed"}
    /\ k \in 1 .. Len(held[f])
    /\ InOrder => k = 1
    /\ held' = [held EXCEPT ![f] =
                    SubSeq(@, 1, k - 1) \o SubSeq(@, k + 1, Len(@))]
    /\ uflow' = [uflow EXCEPT ![u] = f]
    /\ upc' = [upc EXCEPT ![u] = "giveback"]
    /\ UNCHANGED <<ringVars, infoVars, workerVars, reads, utimed, ucopy, calls,
                   controlVars, deviceVars, delivered>>

EnqueueRelease(u) ==
    /\ upc[u] = "giveback"
    /\ ReadGuardFree(uflow[u])
    /\ entry_r' = [entry_r EXCEPT ![uflow[u]] = NextEntry(@)]
    /\ upc' = [upc EXCEPT ![u] = "idle"]
    /\ UNCHANGED <<entry_w, remain_buf_cnt, read_buf_idx, transferred, data,
                   write_guard, read_guard, infoVars, workerVars, reads,
                   uflow, utimed, ucopy, calls, held, controlVars, deviceVars,
                   delivered>>

Reader(u) ==
    \/ ReadLock(u) \/ ReadTimeout(u) \/ ReadClaim(u) \/ StreamCopy(u)
    \/ StreamRelease(u) \/ DequeueTake(u) \/ EnqueueRelease(u)

-----------------------------------------------------------------------------
(* The control thread, as far as it concerns the ofmap worker. *)

Wake == wpc' = IF wpc = "asleep" THEN "gate" ELSE wpc

GoToState(s) == state_next' = s /\ Wake

SetStreamEnable(wait) ==
    /\ cpc = "idle"
    /\ controls < MaxControl
    /\ controls' = controls + 1
    /\ GoToState("running")
    /\ quiesced' = FALSE
    /\ cpc' = IF wait THEN "wait_running" ELSE "idle"
    /\ UNCHANGED <<ringVars, enable, state, flow_id, userVars, deviceVars,
                   delivered>>

SetStreamDisable(wait) ==
    /\ cpc = "idle"
    /\ controls < MaxControl
    /\ controls' = controls + 1
    /\ GoToState("pending")
    /\ cpc' = IF wait THEN "wait_pending" ELSE "idle"
    /\ UNCHANGED <<ringVars, enable, state, flow_id, userVars, quiesced,
                   deviceVars, delivered>>

EnteredUnchecked(s) == TRUE                     \* mutant: returns at once
Entered(s) == state = s

StateEntered ==
    /\ \/ cpc = "wait_running" /\ Entered("running") /\ UNCHANGED quiesced
       \/ cpc = "wait_pending" /\ Entered("pending") /\ quiesced' = TRUE
    /\ cpc' = "idle"
    /\ UNCHANGED <<ringVars, infoVars, workerVars, userVars, controls,
                   deviceVars, delivered>>

(* memx_cascade_plus_destroy, called when no thread is in a call. *)
DestroyDisable ==
    /\ cpc = "idle"
    /\ \A u \in Readers : upc[u] = "idle"
    /\ enable' = 0
    /\ cpc' = "stop"
    /\ UNCHANGED <<ringVars, state, state_next, workerVars, userVars, quiesced,
                   controls, deviceVars, delivered>>

DestroySignal ==
    /\ cpc = "stop"
    /\ GoToState("pending")
    /\ cpc' = "join"
    /\ UNCHANGED <<ringVars, enable, state, flow_id, userVars, quiesced,
                   controls, deviceVars, delivered>>

DestroyJoin ==
    /\ cpc = "join"
    /\ wpc = "exit"
    /\ cpc' = "destroyed"
    /\ UNCHANGED <<ringVars, infoVars, workerVars, userVars, quiesced,
                   controls, deviceVars, delivered>>

Control == StateEntered \/ DestroySignal \/ DestroyJoin

(* The interface driver queues one more part of a flow. *)
Arrive(f) ==
    /\ arrived[f] < MaxFrames * Parts
    /\ arrived' = [arrived EXCEPT ![f] = @ + 1]
    /\ UNCHANGED <<ringVars, infoVars, workerVars, userVars, controlVars,
                   fetched, delivered>>

-----------------------------------------------------------------------------
Next ==
    \/ Worker
    \/ SpuriousWakeup
    \/ \E u \in Readers :
          \/ Reader(u)
          \/ \E f \in Flows :
                \/ \E timed \in BOOLEAN : ReadCall(u, f, timed)
                \/ \E k \in 1 .. N : EnqueueCall(u, f, k)
    \/ Control
    \/ \E wait \in BOOLEAN : SetStreamEnable(wait) \/ SetStreamDisable(wait)
    \/ DestroyDisable
    \/ \E f \in Flows : Arrive(f)

Spec == Init /\ [][Next]_vars

(* Threads that are not blocked keep running.  Nobody has to call the API  *)
(* or to give a buffer back, the device has to send nothing, and a mutex   *)
(* need not be fair.                                                       *)
Fairness ==
    /\ WF_vars(Worker)
    /\ WF_vars(Control)
    /\ \A u \in Readers : WF_vars(Reader(u))

FairSpec == Spec /\ Fairness

-----------------------------------------------------------------------------
WorkerPCs == {"top", "gate", "asleep", "scan", "read", "count", "advance",
              "exit"}
ReaderPCs == {"idle", "lock", "poll", "take", "release", "giveback"}
ControlPCs == {"idle", "wait_running", "wait_pending", "stop", "join",
               "destroyed"}
Contents == [1 .. Parts -> 0 .. MaxFrames]

RingType ==
    /\ entry_w \in [Flows -> Slots]
    /\ entry_r \in [Flows -> Slots]
    /\ remain_buf_cnt \in [Flows -> 0 .. SIZE_MAX]
    /\ read_buf_idx \in [Flows -> Slots]
    /\ transferred \in [Flows -> 0 .. Parts - 1]
    /\ data \in [Flows -> [Slots -> Contents]]
    /\ write_guard \in [Flows -> BOOLEAN]
    /\ read_guard \in [Flows -> Readers \cup {NoReader}]

InfoType ==
    /\ enable \in {0, 1}
    /\ state \in {"pending", "running"}
    /\ state_next \in {"pending", "running"}

WorkerType == wpc \in WorkerPCs /\ flow_id \in 0 .. NF

ReaderType ==
    /\ upc \in [Readers -> ReaderPCs]
    /\ reads \in [Flows -> Kinds]
    /\ uflow \in [Readers -> Flows]
    /\ utimed \in [Readers -> BOOLEAN]
    /\ ucopy \in [Readers -> Contents]
    /\ calls \in 0 .. MaxCalls
    /\ held \in [Flows -> Seq([idx : Slots, frame : Contents])]

ControlType ==
    /\ cpc \in ControlPCs
    /\ quiesced \in BOOLEAN
    /\ controls \in 0 .. MaxControl

DeviceType ==
    /\ arrived \in [Flows -> 0 .. MaxFrames * Parts]
    /\ fetched \in [Flows -> 0 .. MaxFrames * Parts]
    /\ delivered \in [Flows -> Seq(Contents)]

TypeOK ==
    RingType /\ InfoType /\ WorkerType /\ ReaderType /\ ControlType /\ DeviceType

(* The application receives the frames of a flow whole, each once and in   *)
(* the order the device sent them, whichever threads take them and however *)
(* their calls overlap with the worker that fills the ring.                *)
WholeFramesInOrder ==
    \A f \in Flows : \A k \in 1 .. Len(delivered[f]) :
        delivered[f][k] = Whole(k)

(* A buffer that dequeue_ofmap_buf lent keeps its frame until the          *)
(* application gives it back: the worker does not reuse the slot.          *)
LentBuffersIntact ==
    \A f \in Flows : \A k \in 1 .. Len(held[f]) :
        data[f][held[f][k].idx] = held[f][k].frame

(* The slot the next reader of flow f takes, by the calls in use. *)
FirstUntaken(f) == IF reads[f] = "stream" THEN entry_r[f] ELSE read_buf_idx[f]

Claimed(f) == {u \in Readers : upc[u] \in {"take", "release"} /\ uflow[u] = f}

(* remain_buf_cnt, which dequeue_ofmap_buf trusts, and the pointers, which *)
(* stream_ofmap trusts, agree but for the frame the worker is adding and   *)
(* the one a reader has claimed and not taken yet.                         *)
CountMatchesPointers ==
    \A f \in Flows :
        remain_buf_cnt[f] + (IF Claimed(f) = {} THEN 0 ELSE 1) =
            Occupied(entry_w[f], FirstUntaken(f)) +
                (IF write_guard[f] THEN 1 ELSE 0)

(* Between the return of set_stream_disable(wait = 1) and the next         *)
(* set_stream_enable the worker takes nothing from the interface driver,   *)
(* as long as nobody destroys the model: the worker that destroy wakes     *)
(* polls every flow once more before it sees enable.                       *)
QuietWhenDisabled == [][quiesced /\ enable = 1 => fetched' = fetched]_vars

(* A whole frame of flow f is in the host and no reader has it yet. *)
FrameWaiting(f) == arrived[f] >= (Len(delivered[f]) + 1) * Parts

(* A reader that polls returns, with or without a timeout, when the host   *)
(* has a frame for it and the ring has room, on an enabled stream.         *)
ReadReturns ==
    \A u \in Readers : \A f \in Flows :
        (upc[u] = "poll" /\ uflow[u] = f /\ FrameWaiting(f) /\ ~Full(f)) ~>
            upc[u] = "idle" \/ state_next = "pending"

(* enqueue_ofmap_buf takes a "milliseconds timeout" and returns, when the  *)
(* host has a frame of that flow for whoever waits for one.                *)
EnqueueReturns ==
    \A u \in Readers : \A f \in Flows :
        (upc[u] = "giveback" /\ uflow[u] = f /\ FrameWaiting(f)) ~>
            upc[u] = "idle" \/ state_next = "pending"
=============================================================================
