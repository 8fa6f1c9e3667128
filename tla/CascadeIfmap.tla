---------------------------- MODULE CascadeIfmap ----------------------------
(***************************************************************************)
(* The input path of the first generation, memx_cascade.c.  stream_ifmap   *)
(* puts a frame in the list of its flow and a job in one list for all      *)
(* flows; a job worker takes a job, then the oldest frame of its flow, and *)
(* encodes it row by row into the flow's ring; the ifmap worker sends rows *)
(* to the interface driver.                                                *)
(*                                                                         *)
(* Memory is sequentially consistent and never runs out.  The interface    *)
(* driver takes rows one by one; a caller does not call during destroy.    *)
(***************************************************************************)
EXTENDS CascadeWorkers

CONSTANTS
    NF,             \* configured flows are 0..NF-1
    H,              \* rows of a frame
    RingFrames,     \* frames a ring has rows for
    QueueSize,      \* ifmap_queue_size
    Users,          \* threads that call stream_ifmap
    MaxCalls        \* bound on the calls to stream_ifmap

ASSUME CascadeIfmapAssumption ==
    /\ {NF, H, RingFrames, QueueSize} \subseteq Nat \ {0}
    /\ H * RingFrames > 1
    /\ IsFiniteSet(Users)
    /\ MaxCalls \in Nat

Flows == 0 .. NF - 1
R     == H * RingFrames         \* max_num_of_entry_by_hight
Rows  == 0 .. R - 1

VARIABLES
    queue,      \* ifmap_queues[f]: frames, each by its number
    ring,       \* ring[f]: entry_w, entry_r, data, and who has read_guard
    ota,        \* ifmap_ota_entry_count.value
    work,       \* work[e]: the frame and row job worker e is at
    send,       \* the ifmap worker's variables; locked: write_guard is kept
    user,       \* user[u]: place and flow
    calls,
    accepted,   \* history: number of frames pushed on each flow
    wire        \* history: rows the interface driver took, by flow

vars == <<sharedVars, queue, ring, ota, work, send, user, calls, accepted, wire>>

-----------------------------------------------------------------------------
NextRowNoWrap(i) == i + 1                       \* mutant: pointer never wraps
NextRow(i) == IF i + 1 = R THEN 0 ELSE i + 1

NeverFull(f) == FALSE                           \* mutant: no test for space
Full(f) == (ring[f].entry_w + 1) % R = ring[f].entry_r

Empty(f) == ring[f].entry_w = ring[f].entry_r

Occupied(f) == (ring[f].entry_w + R - ring[f].entry_r) % R

Init ==
    /\ WorkersInit
    /\ queue = [f \in Flows |-> <<>>]
    /\ ring = [f \in Flows |-> [entry_w |-> 0, entry_r |-> 0,
                                data |-> [i \in Rows |-> <<0, 0>>],
                                guard |-> NoWorker]]
    /\ ota = 0
    /\ work = [e \in JobWorkers |-> [frame |-> 0, row |-> 0]]
    /\ send = [flow |-> 0, n |-> 0, sent |-> 0, locked |-> FALSE]
    /\ user = [u \in Users |-> [pc |-> "idle", flow |-> 0]]
    /\ calls = 0
    /\ accepted = [f \in Flows |-> 0]
    /\ wire = [f \in Flows |-> <<>>]

-----------------------------------------------------------------------------
(* Threads in stream_ifmap. *)

UserGoes(u, pc) == user' = [user EXCEPT ![u].pc = pc]

StreamCall(u, f) ==
    /\ user[u].pc = "idle"
    /\ ~Destroying
    /\ calls < MaxCalls
    /\ calls' = calls + 1
    /\ user' = [user EXCEPT ![u] = [pc |-> "poll", flow |-> f]]
    /\ UNCHANGED <<sharedVars, queue, ring, ota, work, send, accepted, wire>>

QueueFull(f) == Len(queue[f]) >= QueueSize

StreamPoll(u) == LET full == QueueFull(user[u].flow) IN
    /\ user[u].pc = "poll"
    /\ UserGoes(u, IF full THEN "idle" ELSE "push")     \* timeout, space
    /\ UNCHANGED <<sharedVars, queue, ring, ota, work, send, calls, accepted,
                   wire>>

StreamPush(u) == LET f == user[u].flow IN
    /\ user[u].pc = "push"
    /\ accepted' = [accepted EXCEPT ![f] = @ + 1]
    /\ queue' = [queue EXCEPT ![f] = Append(@, accepted[f] + 1)]
    /\ UserGoes(u, "job")
    /\ UNCHANGED <<sharedVars, ring, ota, work, send, calls, wire>>

StreamJob(u) ==
    /\ user[u].pc = "job"
    /\ jobs' = Append(jobs, user[u].flow)
    /\ UserGoes(u, "signal")
    /\ UNCHANGED <<jw, pool, lost, wk, ctl, queue, ring, ota, work, send, calls,
                   accepted, wire>>

StreamSignal(u) ==
    /\ user[u].pc = "signal"
    /\ SignalEnqueue
    /\ UserGoes(u, "idle")
    /\ UNCHANGED <<jobs, pool, lost, wk, ctl, queue, ring, ota, work, send,
                   calls, accepted, wire>>

User(u) == StreamPoll(u) \/ StreamPush(u) \/ StreamJob(u) \/ StreamSignal(u)

-----------------------------------------------------------------------------
(* A job worker encodes a frame. *)

EncodePeek(e) == LET f == jw[e].flow IN         \* mutant: frame not removed
    /\ jw[e].pc = "execute"
    /\ queue[f] # <<>>
    /\ JobWorkerGoes(e, "lock")
    /\ work' = [work EXCEPT ![e].frame = Head(queue[f])]
    /\ UNCHANGED <<jobs, pool, lost, wk, ctl, queue, ring, ota, send, user,
                   calls, accepted, wire>>

EncodePop(e) == LET f == jw[e].flow IN
    /\ jw[e].pc = "execute"
    /\ IF queue[f] = <<>> THEN JobWorkerGoes(e, "rest") /\ UNCHANGED <<queue, work>>
       ELSE /\ JobWorkerGoes(e, "lock")
            /\ work' = [work EXCEPT ![e].frame = Head(queue[f])]
            /\ queue' = [queue EXCEPT ![f] = Tail(@)]
    /\ UNCHANGED <<jobs, pool, lost, wk, ctl, ring, ota, send, user, calls,
                   accepted, wire>>

GuardIgnored(f) == TRUE                         \* mutant: no lock
GuardFree(f) == ring[f].guard = NoWorker

EncodeLock(e) == LET f == jw[e].flow IN
    /\ jw[e].pc = "lock"
    /\ GuardFree(f)
    /\ ring' = [ring EXCEPT ![f].guard = e]
    /\ JobWorkerGoes(e, "row")
    /\ work' = [work EXCEPT ![e].row = 0]
    /\ UNCHANGED <<jobs, pool, lost, wk, ctl, queue, ota, send, user, calls,
                   accepted, wire>>

(* Sleep on pointer_changed while the ring is full, whatever enable says;  *)
(* a spurious wake-up only looks again.                                    *)
EncodeWait(e) ==
    /\ jw[e].pc = "row"
    /\ Full(jw[e].flow)
    /\ JobWorkerGoes(e, "full")
    /\ UNCHANGED <<jobs, pool, lost, wk, ctl, queue, ring, ota, work, send, user,
                   calls, accepted, wire>>

EncodeRow(e) == LET f == jw[e].flow IN
    /\ jw[e].pc = "row"
    /\ ~Full(f)
    /\ ring' = [ring EXCEPT
                  ![f].data[ring[f].entry_w] = <<work[e].frame, work[e].row>>,
                  ![f].entry_w = NextRow(@)]
    /\ JobWorkerGoes(e, "count")
    /\ UNCHANGED <<jobs, pool, lost, wk, ctl, queue, ota, work, send, user,
                   calls, accepted, wire>>

(* _memx_mpu_ota_counter_increase; after the last row the ring is unlocked. *)
EncodeCount(e) == LET f == jw[e].flow IN
    /\ jw[e].pc = "count"
    /\ ota' = ota + 1
    /\ SignalNewRows
    /\ IF work[e].row + 1 < H
         THEN /\ JobWorkerGoes(e, "row")
              /\ work' = [work EXCEPT ![e].row = @ + 1]
              /\ UNCHANGED ring
         ELSE /\ JobWorkerGoes(e, "rest")
              /\ ring' = [ring EXCEPT ![f].guard = NoWorker]
              /\ UNCHANGED work
    /\ UNCHANGED <<jobs, pool, lost, ctl, queue, send, user, calls, accepted,
                   wire>>

Encode(e) ==
    \/ EncodePop(e) \/ EncodeLock(e) \/ EncodeWait(e) \/ EncodeRow(e)
    \/ EncodeCount(e)
    \/ JobWorkerLoop(e) /\ UNCHANGED <<queue, ring, ota, work, send, user,
                                       calls, accepted, wire>>

-----------------------------------------------------------------------------
(* The ifmap worker. *)

WorkerTop ==
    /\ wk.pc = "top"
    /\ WorkerGoes("gate")
    /\ send' = [send EXCEPT !.flow = 0]
    /\ UNCHANGED <<jobs, jw, pool, lost, ctl, queue, ring, ota, work, user,
                   calls, accepted, wire>>

PastFlow(s) ==
    /\ WorkerGoes(IF s.flow + 1 < NF THEN "scan" ELSE "scanned")
    /\ send' = [s EXCEPT !.flow = @ + 1]

ScanFlow ==
    /\ wk.pc = "scan"
    /\ IF Empty(send.flow) THEN PastFlow(send)
                           ELSE WorkerGoes("begin") /\ UNCHANGED send
    /\ UNCHANGED <<jobs, jw, pool, lost, ctl, queue, ring, ota, work, user,
                   calls, accepted, wire>>

(* The transfer reads entry_w once for every test and once to subtract,    *)
(* under write_guard; encoders advance it under read_guard, so that it may *)
(* wrap between two reads.                                                 *)
TransferBegin == LET r == ring[send.flow] IN
    /\ wk.pc = "begin"
    /\ ~send.locked
    /\ WorkerGoes(IF r.entry_w > r.entry_r THEN "subtract" ELSE "compare")
    /\ UNCHANGED <<jobs, jw, pool, lost, ctl, queue, ring, ota, work, send, user,
                   calls, accepted, wire>>

Counted(n) == WorkerGoes("send") /\ send' = [send EXCEPT !.n = n, !.sent = 0]

TransferSubtract == LET r == ring[send.flow] IN
    /\ wk.pc = "subtract"
    /\ Counted(r.entry_w - r.entry_r)
    /\ UNCHANGED <<jobs, jw, pool, lost, ctl, queue, ring, ota, work, user,
                   calls, accepted, wire>>

(* The illegal case, an empty ring, returns with write_guard locked. *)
TransferCompare == LET r == ring[send.flow] IN
    /\ wk.pc = "compare"
    /\ IF r.entry_w < r.entry_r THEN Counted(R - r.entry_r)
                                ELSE PastFlow([send EXCEPT !.locked = TRUE])
    /\ UNCHANGED <<jobs, jw, pool, lost, ctl, queue, ring, ota, work, user,
                   calls, accepted, wire>>

(* A count below zero makes a length the driver refuses: nothing is sent,  *)
(* and the worker offers it again for ever.                                *)
SendRow == LET f == send.flow IN
    /\ wk.pc = "send"
    /\ send.n > 0
    /\ wire' = [wire EXCEPT ![f] = Append(@,
                  ring[f].data[(ring[f].entry_r + send.sent) % R])]
    /\ send' = [send EXCEPT !.sent = @ + 1]
    /\ WorkerGoes(IF send.sent + 1 = send.n THEN "move" ELSE "send")
    /\ UNCHANGED <<jobs, jw, pool, lost, ctl, queue, ring, ota, work, user,
                   calls, accepted>>

CountDownOnce == IF send.n > 1 THEN ota ELSE ota - 1    \* mutant: not per row
CountDown == ota - 1

(* One turn of the loop over sent rows: pointer, signal, counter. *)
MoveEntry == LET f == send.flow IN
    /\ wk.pc = "move"
    /\ ring' = [ring EXCEPT ![f].entry_r = NextRow(@)]
    /\ jw' = [e \in JobWorkers |-> IF jw[e].pc = "full" /\ jw[e].flow = f
                 THEN [jw[e] EXCEPT !.pc = "row"] ELSE jw[e]]
    /\ ota' = CountDown
    /\ IF send.n > 1 THEN send' = [send EXCEPT !.n = @ - 1] /\ UNCHANGED wk
                     ELSE PastFlow([send EXCEPT !.n = 0, !.sent = 0])
    /\ UNCHANGED <<jobs, pool, lost, ctl, queue, work, user, calls, accepted,
                   wire>>

(* After a round: leave, or wait for the counter of rows. *)
WorkerRest ==
    /\ \/ /\ wk.pc = "scanned"
          /\ WorkerGoes(IF wk.enable = 0 THEN "exit" ELSE "idle")
       \/ /\ wk.pc = "idle"
          /\ WorkerGoes(IF wk.enable = 1 /\ wk.next = "running" /\ ota = 0
                          THEN "waiting" ELSE "top")
    /\ UNCHANGED <<jobs, jw, pool, lost, ctl, queue, ring, ota, work, send, user,
                   calls, accepted, wire>>

Worker ==
    \/ WorkerTop \/ ScanFlow \/ TransferBegin \/ TransferSubtract
    \/ TransferCompare \/ SendRow \/ MoveEntry \/ WorkerRest
    \/ WorkerGate /\ UNCHANGED <<queue, ring, ota, work, send, user, calls,
                                 accepted, wire>>

-----------------------------------------------------------------------------
UsersDone == \A u \in Users : user[u].pc = "idle"

Next ==
    \/ \E u \in Users : User(u) \/ \E f \in Flows : StreamCall(u, f)
    \/ \E e \in JobWorkers : Encode(e)
    \/ Worker
    \/ /\ \/ SpuriousWakeup \/ Control(FALSE) \/ Request
          \/ DestroyDisable /\ UsersDone
       /\ UNCHANGED <<queue, ring, ota, work, send, user, calls, accepted, wire>>
    \/ /\ DestroyJoin
       /\ queue' = [f \in Flows |-> <<>>]
       /\ UNCHANGED <<ring, ota, work, send, user, calls, accepted, wire>>

Spec == Init /\ [][Next]_vars

-----------------------------------------------------------------------------
(* Pointers, the counter and the workers stay in their ranges.  The test   *)
(* for space and the push are two steps: every further caller can put one  *)
(* frame more into a list than ifmap_queue_size.                           *)
TypeOK ==
    /\ WorkersTypeOK
    /\ \A f \in Flows : Len(queue[f]) < QueueSize + Cardinality(Users)
    /\ \A f \in Flows : ring[f].entry_w \in Rows /\ ring[f].entry_r \in Rows
    /\ ota \in -R * NF .. R * NF
    /\ \A e \in JobWorkers : work[e].row \in 0 .. H - 1
    /\ send.n \in 1 - R .. R - 1 /\ send.sent \in 0 .. R - 1

FrameAt(f, k) == wire[f][k][1]

(* However many encoders there are, the device gets whole frames: H rows   *)
(* of one frame in order, no row of another between them, and no frame     *)
(* twice.  The ring's lock is taken after the frame has left the list.     *)
WholeFramesOnce ==
    \A f \in Flows : \A k \in 1 .. Len(wire[f]) :
        LET first == k - ((k - 1) % H) IN
        /\ wire[f][k] = <<FrameAt(f, first), (k - 1) % H>>
        /\ \A j \in 1 .. first - 1 : FrameAt(f, j) # FrameAt(f, k)

(* As long as there never were two encoders, frames arrive in the order in *)
(* which stream_ifmap accepted them; with two they need not.               *)
FramesInOrder ==
    ~ctl.grown => \A f \in Flows : \A k \in 1 .. Len(wire[f]) :
        FrameAt(f, k) = 1 + (k - 1) \div H

FrameHasJob(f) ==
    Len(queue[f]) = JobsFor(f) + WorkersAt(f, "execute")
        + Cardinality({u \in Users : user[u] = [pc |-> "job", flow |-> f]})

(* Every frame in the list of a flow has a job that is queued, taken or    *)
(* about to be queued, and no job is without a frame, as long as no job of *)
(* the flow was discarded; and with one encoder none is before destroy.    *)
JobsMatchFrames ==
    /\ ~ctl.grown /\ ~Destroying => lost = <<>>
    /\ ctl.pc # "gone" => \A f \in Flows : LostFor(f) = 0 => FrameHasJob(f)

(* What set_worker_number says where it stops an encoder, "make sure not   *)
(* discard any on-going data": before destroy every frame in a list has a  *)
(* job.                                                                    *)
EveryFrameHasJob == ~Destroying => \A f \in Flows : FrameHasJob(f)

(* Wherever encoders move entry_w between the reads of a transfer, rows    *)
(* that are sent are in the ring and before the end of the buffer, and a   *)
(* count can be wrong only by being below zero after entry_w has wrapped.  *)
TransferWithinRows ==
    wk.pc = "send" =>
        LET f == send.flow  r == ring[f].entry_r IN
        \/ send.n \in 1 .. Occupied(f) /\ r + send.n <= R
        \/ send.n < 0 /\ ring[f].entry_w < r

(* The counter the ifmap worker sleeps on is the number of rows in the     *)
(* rings but for the row an encoder is about to count: it may be negative  *)
(* for a moment, and two errors may cancel out, but it never drifts.       *)
CounterMatchesRows ==
    ota = Cardinality({p \in Flows \X Rows : p[2] < Occupied(p[1])})
            - Cardinality({e \in JobWorkers : jw[e].pc = "count"})

(* Nobody is stuck: a waiting ifmap worker has a signal coming if there is *)
(* a row or the stream is to stop, some encoder of the pool is up when     *)
(* there is a job or a signal for it is coming, an encoder sleeps on       *)
(* pointer_changed only while its ring is full, and the branch of the      *)
(* transfer that returns with write_guard locked is never taken, whatever  *)
(* encoders do between its reads of entry_w.  It does not say that a       *)
(* transfer ends: one with a count below zero does not.                    *)
NobodyStuck ==
    /\ wk.pc = "waiting" /\ Running /\ (\E f \in Flows : ~Empty(f))
         => \E e \in JobWorkers : jw[e].pc = "count"
    /\ wk.pc = "waiting" /\ ~Running
         => ctl.pc \in {"disable_signal", "stop", "unblock"}
    /\ jobs # <<>> /\ (\A i \in DOMAIN pool : jw[pool[i]].pc = "waiting")
         => \/ ctl.pc \in {"remove_tell", "gone"}
            \/ \E u \in Users : user[u].pc = "signal"
    /\ \A e \in JobWorkers : jw[e].pc = "full" => Full(jw[e].flow)
    /\ ~send.locked
=============================================================================
