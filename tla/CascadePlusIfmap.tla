-------------------------- MODULE CascadePlusIfmap --------------------------
(***************************************************************************)
(* The input path of memx_cascadeplus.c: threads that call stream_ifmap    *)
(* copy frames into a ring per flow, the ifmap worker moves them from the  *)
(* rings to the interface driver, and a control thread enables, disables   *)
(* and destroys the stream.                                                *)
(*                                                                         *)
(* An action is what a thread does between two points where another one    *)
(* can see or disturb it.  A critical section of ifmap_worker_info.guard   *)
(* calls nothing that blocks but the wait on state_changed, so each is one *)
(* action.  Frames are opaque: only their identity and order matter.       *)
(* Every flow here is a blocking one (its input_mode_flag bit is 0).       *)
(***************************************************************************)
EXTENDS Integers, Sequences

CONSTANTS
    NF,             \* configured flows are 0..NF-1, polled in this order
    N,              \* max_num_of_frame of every ring; one slot stays empty
    Users,          \* threads that call memx_cascade_plus_stream_ifmap
    NoUser,         \* write_guard is free
    MaxCalls,       \* bound on the calls to stream_ifmap
    MaxControl,     \* bound on the calls to set_stream_enable / disable
    DeviceMayStop   \* whether the device can cease to accept data for good

ASSUME IfmapAssumption ==
    /\ NF \in Nat \ {0}
    /\ N \in Nat \ {0}
    /\ MaxCalls \in Nat
    /\ MaxControl \in Nat
    /\ DeviceMayStop \in BOOLEAN
    /\ NoUser \notin Users

Flows == 0 .. NF - 1
Slots == 0 .. N - 1
Frames == 1 .. MaxCalls     \* a frame is named by the call that brought it

VARIABLES
    entry_w, entry_r,       \* ring pointers of each flow
    data,                   \* data[f][i]: frame in slot i, 0 when never written
    write_guard,            \* write_guard[f]: the caller that holds it, or NoUser
    read_guard,             \* read_guard[f]: TRUE when the worker holds it
    enable, state, state_next, blocking,    \* ifmap_worker_info
    wpc, flow_id, need, sent, moved, all_empty, \* the worker's own variables
    upc, uflow, uframe, utimed, calls,      \* the callers of stream_ifmap
    cpc, quiesced, controls,                \* the control thread
    accepting,              \* whether the interface driver takes data
    accepted, wire          \* history: frames put in the ring, frames written

ringVars    == <<entry_w, entry_r, data, write_guard, read_guard>>
infoVars    == <<enable, state, state_next, blocking>>
workerVars  == <<wpc, flow_id, need, sent, moved, all_empty>>
userVars    == <<upc, uflow, uframe, utimed, calls>>
controlVars == <<cpc, quiesced, controls>>
vars == <<ringVars, infoVars, workerVars, userVars, controlVars, accepting,
          accepted, wire>>

-----------------------------------------------------------------------------
(* The ring. *)

NextEntryNoWrap(i) == i + 1                     \* mutant: pointer never wraps
NextEntry(i) == IF i + 1 = N THEN 0 ELSE i + 1

NeverFull(f) == FALSE                           \* mutant: no test for space
Full(f) == NextEntry(entry_w[f]) = entry_r[f]

Empty(f) == entry_w[f] = entry_r[f]

(* Frames from the read pointer up to the write pointer or the end of the  *)
(* buffer, whichever comes first.                                          *)
ContiguousToEnd(f) == N - entry_r[f]            \* mutant: entry_w ignored
Contiguous(f) ==
    IF entry_w[f] > entry_r[f] THEN entry_w[f] - entry_r[f]
                               ELSE N - entry_r[f]

(* Frames between two pointers, and the slot k places after a pointer. *)
Occupied(w, r) == IF w >= r THEN w - r ELSE w - r + N
SlotAfter(r, k) == IF r + k < N THEN r + k ELSE r + k - N

Count(f)   == Occupied(entry_w[f], entry_r[f])
Slot(f, k) == SlotAfter(entry_r[f], k)

-----------------------------------------------------------------------------
(* memx_cascade_plus_create and one set_ifmap_size for each flow. *)
Init ==
    /\ entry_w = [f \in Flows |-> 0]
    /\ entry_r = [f \in Flows |-> 0]
    /\ data = [f \in Flows |-> [i \in Slots |-> 0]]
    /\ write_guard = [f \in Flows |-> NoUser]
    /\ read_guard = [f \in Flows |-> FALSE]
    /\ enable = 1
    /\ state = "pending"
    /\ state_next = "pending"
    /\ blocking = 0
    /\ wpc = "gate"
    /\ flow_id = 0
    /\ need = 0
    /\ sent = 0
    /\ moved = 0
    /\ all_empty = TRUE
    /\ upc = [u \in Users |-> "idle"]
    /\ uflow = [u \in Users |-> 0]
    /\ uframe = [u \in Users |-> 0]
    /\ utimed = [u \in Users |-> FALSE]
    /\ calls = 0
    /\ cpc = "idle"
    /\ quiesced = FALSE
    /\ controls = 0
    /\ accepting = TRUE
    /\ accepted = [f \in Flows |-> <<>>]
    /\ wire = [f \in Flows |-> <<>>]

-----------------------------------------------------------------------------
(* The ifmap worker. *)

IsPending  == enable = 1 /\ state_next = "pending"
IsBlockingAlways ==                             \* mutant: blocking not tested
    enable = 1 /\ state_next = "running"
IsBlocking == enable = 1 /\ state_next = "running" /\ blocking = 1

MustWaitForData == IsBlocking /\ all_empty      \* mutant: pending not obeyed
MustWait == IsPending \/ (IsBlocking /\ all_empty)

(* Wait on state_changed: the guard is given up and the thread sleeps. *)
WorkerSleep ==
    /\ wpc = "gate"
    /\ MustWait
    /\ state' = "pending"
    /\ wpc' = "asleep"
    /\ UNCHANGED <<ringVars, enable, state_next, blocking, flow_id, need, sent,
                   moved, all_empty, userVars, controlVars, accepting,
                   accepted, wire>>

(* A condition variable may wake its waiter without a signal. *)
SpuriousWakeup ==
    /\ wpc = "asleep"
    /\ wpc' = "gate"
    /\ UNCHANGED <<ringVars, infoVars, flow_id, need, sent, moved, all_empty,
                   userVars, controlVars, accepting, accepted, wire>>

WorkerGo ==
    /\ wpc = "gate"
    /\ ~MustWait
    /\ state' = "running"
    /\ blocking' = 1
    /\ wpc' = "begin"
    /\ UNCHANGED <<ringVars, enable, state_next, flow_id, need, sent, moved,
                   all_empty, userVars, controlVars, accepting, accepted, wire>>

(* After the guard is released: forget the last round, then leave the      *)
(* thread if destroy has cleared enable, else poll the flows.              *)
WorkerBegin ==
    /\ wpc = "begin"
    /\ all_empty' = TRUE
    /\ wpc' = IF enable = 0 THEN "exit" ELSE "scan"
    /\ flow_id' = 0
    /\ UNCHANGED <<ringVars, infoVars, need, sent, moved, userVars,
                   controlVars, accepting, accepted, wire>>

ScanFlowUntested ==             \* mutant: every flow is transferred
    /\ wpc = "scan"
    /\ flow_id < NF
    /\ wpc' = "transfer"
    /\ UNCHANGED <<ringVars, infoVars, flow_id, need, sent, moved, all_empty,
                   userVars, controlVars, accepting, accepted, wire>>

(* Test of one flow, made without a lock. *)
ScanFlow ==
    /\ wpc = "scan"
    /\ flow_id < NF
    /\ IF Empty(flow_id)
         THEN flow_id' = flow_id + 1 /\ UNCHANGED wpc
         ELSE wpc' = "transfer" /\ UNCHANGED flow_id
    /\ UNCHANGED <<ringVars, infoVars, need, sent, moved, all_empty, userVars,
                   controlVars, accepting, accepted, wire>>

ScanDone ==
    /\ wpc = "scan"
    /\ flow_id = NF
    /\ wpc' = "gate"
    /\ UNCHANGED <<ringVars, infoVars, flow_id, need, sent, moved, all_empty,
                   userVars, controlVars, accepting, accepted, wire>>

(* Take read_guard and fix how many frames this transfer moves.  The      *)
(* branch for an empty ring returns with read_guard still locked.          *)
TransferBegin ==
    /\ wpc = "transfer"
    /\ ~read_guard[flow_id]
    /\ read_guard' = [read_guard EXCEPT ![flow_id] = TRUE]
    /\ IF Empty(flow_id)
         THEN wpc' = "recheck" /\ UNCHANGED <<need, sent, moved>>
         ELSE /\ need' = Contiguous(flow_id)
              /\ sent' = 0
              /\ moved' = 0
              /\ wpc' = "send"
    /\ UNCHANGED <<entry_w, entry_r, data, write_guard, infoVars, flow_id,
                   all_empty, userVars, controlVars, accepting, accepted, wire>>

(* One frame goes through memx_mpuio_stream_write.  When the driver takes  *)
(* nothing the loop comes back here: no step, whatever enable and          *)
(* state_next say.                                                         *)
SendFrame ==
    /\ wpc = "send"
    /\ sent < need
    /\ accepting
    /\ wire' = [wire EXCEPT ![flow_id] =
                    Append(@, data[flow_id][entry_r[flow_id] + sent])]
    /\ sent' = sent + 1
    /\ UNCHANGED <<ringVars, infoVars, wpc, flow_id, need, moved, all_empty,
                   userVars, controlVars, accepting, accepted>>

Written == sent = need

(* entry_r moves one slot at a time; callers poll it without read_guard. *)
MoveEntry ==
    /\ wpc = "send"
    /\ Written
    /\ moved < need
    /\ entry_r' = [entry_r EXCEPT ![flow_id] = NextEntry(@)]
    /\ moved' = moved + 1
    /\ UNCHANGED <<entry_w, data, write_guard, read_guard, infoVars, wpc,
                   flow_id, need, sent, all_empty, userVars, controlVars,
                   accepting, accepted, wire>>

TransferEnd ==
    /\ wpc = "send"
    /\ Written
    /\ moved = need
    /\ read_guard' = [read_guard EXCEPT ![flow_id] = FALSE]
    /\ wpc' = "recheck"
    /\ UNCHANGED <<entry_w, entry_r, data, write_guard, infoVars, flow_id,
                   need, sent, moved, all_empty, userVars, controlVars,
                   accepting, accepted, wire>>

(* Frames that came meanwhile, or lie behind the wrap, forbid sleeping     *)
(* after this round.                                                       *)
StillEmpty(f) == all_empty /\ Empty(f)

Recheck ==
    /\ wpc = "recheck"
    /\ all_empty' = StillEmpty(flow_id)
    /\ flow_id' = flow_id + 1
    /\ wpc' = "scan"
    /\ UNCHANGED <<ringVars, infoVars, need, sent, moved, userVars,
                   controlVars, accepting, accepted, wire>>

Worker ==
    \/ WorkerSleep \/ WorkerGo \/ WorkerBegin \/ ScanFlow \/ ScanDone
    \/ TransferBegin \/ SendFrame \/ MoveEntry \/ TransferEnd \/ Recheck

-----------------------------------------------------------------------------
(* cond_signal on state_changed. *)
Wake == wpc' = IF wpc = "asleep" THEN "gate" ELSE wpc

(* memx_cascade_plus_stream_ifmap. *)

(* A caller passes the checks; timed is whether it gave a timeout. *)
StreamCall(u, f, timed) ==
    /\ upc[u] = "idle"
    /\ cpc \notin {"clear", "stop", "join", "destroyed"}
    /\ calls < MaxCalls
    /\ calls' = calls + 1
    /\ upc' = [upc EXCEPT ![u] = "lock"]
    /\ uflow' = [uflow EXCEPT ![u] = f]
    /\ uframe' = [uframe EXCEPT ![u] = calls + 1]
    /\ utimed' = [utimed EXCEPT ![u] = timed]
    /\ UNCHANGED <<ringVars, infoVars, workerVars, controlVars, accepting,
                   accepted, wire>>

GuardIgnored(f) == TRUE                         \* mutant: write_guard not taken
GuardFree(f) == write_guard[f] = NoUser

StreamLock(u) ==
    /\ upc[u] = "lock"
    /\ GuardFree(uflow[u])
    /\ write_guard' = [write_guard EXCEPT ![uflow[u]] = u]
    /\ upc' = [upc EXCEPT ![u] = "poll"]
    /\ UNCHANGED <<entry_w, entry_r, data, read_guard, infoVars, workerVars,
                   uflow, uframe, utimed, calls, controlVars, accepting,
                   accepted, wire>>

(* Returns MEMX_STATUS_MPU_IFMAP_ENQUEUE_TIMEOUT. *)
StreamTimeout(u) ==
    /\ upc[u] = "poll"
    /\ Full(uflow[u])
    /\ utimed[u]
    /\ write_guard' = [write_guard EXCEPT ![uflow[u]] = NoUser]
    /\ upc' = [upc EXCEPT ![u] = "idle"]
    /\ UNCHANGED <<entry_w, entry_r, data, read_guard, infoVars, workerVars,
                   uflow, uframe, utimed, calls, controlVars, accepting,
                   accepted, wire>>

StreamCopy(u) ==
    /\ upc[u] = "poll"
    /\ ~Full(uflow[u])
    /\ data' = [data EXCEPT ![uflow[u]][entry_w[uflow[u]]] = uframe[u]]
    /\ upc' = [upc EXCEPT ![u] = "publish"]
    /\ UNCHANGED <<entry_w, entry_r, write_guard, read_guard, infoVars,
                   workerVars, uflow, uframe, utimed, calls, controlVars,
                   accepting, accepted, wire>>

StreamPublish(u) ==
    /\ upc[u] = "publish"
    /\ entry_w' = [entry_w EXCEPT ![uflow[u]] = NextEntry(@)]
    /\ write_guard' = [write_guard EXCEPT ![uflow[u]] = NoUser]
    /\ accepted' = [accepted EXCEPT ![uflow[u]] = Append(@, uframe[u])]
    /\ upc' = [upc EXCEPT ![u] = "signal"]
    /\ UNCHANGED <<entry_r, data, read_guard, infoVars, workerVars, uflow,
                   uframe, utimed, calls, controlVars, accepting, wire>>

SignalOnly == UNCHANGED blocking /\ Wake        \* mutant: blocking not cleared
SignalNewData == blocking' = 0 /\ Wake

StreamSignal(u) ==
    /\ upc[u] = "signal"
    /\ SignalNewData
    /\ upc' = [upc EXCEPT ![u] = "idle"]
    /\ UNCHANGED <<ringVars, enable, state, state_next, flow_id, need, sent,
                   moved, all_empty, uflow, uframe, utimed, calls, controlVars,
                   accepting, accepted, wire>>

User(u) ==
    \/ StreamLock(u) \/ StreamTimeout(u) \/ StreamCopy(u)
    \/ StreamPublish(u) \/ StreamSignal(u)

-----------------------------------------------------------------------------
(* The control thread.  quiesced is history: TRUE from the return of       *)
(* set_stream_disable(wait = 1) to the next set_stream_enable.             *)

SetStateNext(s) ==                              \* mutant: no signal
    state_next' = s /\ UNCHANGED wpc
GoToState(s) == state_next' = s /\ Wake

SetStreamEnable(wait) ==
    /\ cpc = "idle"
    /\ controls < MaxControl
    /\ controls' = controls + 1
    /\ GoToState("running")
    /\ quiesced' = FALSE
    /\ cpc' = IF wait THEN "wait_running" ELSE "idle"
    /\ UNCHANGED <<ringVars, enable, state, blocking, flow_id, need, sent,
                   moved, all_empty, userVars, accepting, accepted, wire>>

SetStreamDisable(wait) ==
    /\ cpc = "idle"
    /\ controls < MaxControl
    /\ controls' = controls + 1
    /\ GoToState("pending")
    /\ cpc' = IF wait THEN "wait_pending" ELSE "idle"
    /\ UNCHANGED <<ringVars, enable, state, blocking, flow_id, need, sent,
                   moved, all_empty, userVars, quiesced, accepting, accepted,
                   wire>>

(* The poll of _memx_mpu_worker_wait_state_entered sees the state it wants. *)
EnteredUnchecked(s) == TRUE                     \* mutant: returns at once
Entered(s) == state = s

StateEntered ==
    /\ \/ cpc = "wait_running" /\ Entered("running") /\ UNCHANGED quiesced
       \/ cpc = "wait_pending" /\ Entered("pending") /\ quiesced' = TRUE
    /\ cpc' = "idle"
    /\ UNCHANGED <<ringVars, infoVars, workerVars, userVars, controls,
                   accepting, accepted, wire>>

(* memx_cascade_plus_destroy, called when no thread streams any more. *)
DestroyDisable ==
    /\ cpc = "idle"
    /\ \A u \in Users : upc[u] = "idle"
    /\ enable' = 0
    /\ cpc' = "clear"
    /\ UNCHANGED <<ringVars, state, state_next, blocking, workerVars, userVars,
                   quiesced, controls, accepting, accepted, wire>>

DestroyUnblock ==
    /\ cpc = "clear"
    /\ blocking' = 0
    /\ cpc' = "stop"
    /\ UNCHANGED <<ringVars, enable, state, state_next, workerVars, userVars,
                   quiesced, controls, accepting, accepted, wire>>

DestroySignal ==
    /\ cpc = "stop"
    /\ GoToState("pending")
    /\ cpc' = "join"
    /\ UNCHANGED <<ringVars, enable, state, blocking, flow_id, need, sent,
                   moved, all_empty, userVars, quiesced, controls, accepting,
                   accepted, wire>>

DestroyJoin ==
    /\ cpc = "join"
    /\ wpc = "exit"
    /\ cpc' = "destroyed"
    /\ UNCHANGED <<ringVars, infoVars, workerVars, userVars, quiesced,
                   controls, accepting, accepted, wire>>

Control ==
    \/ StateEntered \/ DestroyUnblock \/ DestroySignal \/ DestroyJoin

(* The interface driver refuses data from now on: an error or 0 bytes from *)
(* every later memx_mpuio_stream_write.                                    *)
DeviceStop ==
    /\ DeviceMayStop
    /\ accepting
    /\ accepting' = FALSE
    /\ UNCHANGED <<ringVars, infoVars, workerVars, userVars, controlVars,
                   accepted, wire>>

-----------------------------------------------------------------------------
Next ==
    \/ Worker
    \/ SpuriousWakeup
    \/ \E u \in Users :
          \/ User(u)
          \/ \E f \in Flows, timed \in BOOLEAN : StreamCall(u, f, timed)
    \/ Control
    \/ \E wait \in BOOLEAN : SetStreamEnable(wait) \/ SetStreamDisable(wait)
    \/ DestroyDisable
    \/ DeviceStop

Spec == Init /\ [][Next]_vars

(* Threads that are not blocked keep running.  Nobody has to call the API, *)
(* a condition variable need not wake by itself, and a mutex need not be   *)
(* fair.  The device is fair only through SendFrame: while it accepts      *)
(* data, a write is taken in the end.                                      *)
Fairness ==
    /\ WF_vars(Worker)
    /\ WF_vars(Control)
    /\ \A u \in Users : WF_vars(User(u))

FairSpec == Spec /\ Fairness

-----------------------------------------------------------------------------
(* Frames written to the device in the current transfer whose slots are    *)
(* not given back to the callers yet.                                      *)
InFlight(f) == IF wpc = "send" /\ f = flow_id THEN sent - moved ELSE 0

WorkerPCs == {"gate", "asleep", "begin", "scan", "transfer", "send",
              "recheck", "exit"}
UserPCs == {"idle", "lock", "poll", "publish", "signal"}
ControlPCs == {"idle", "wait_running", "wait_pending", "clear", "stop",
               "join", "destroyed"}

RingType ==
    /\ entry_w \in [Flows -> Slots]
    /\ entry_r \in [Flows -> Slots]
    /\ data \in [Flows -> [Slots -> Frames \cup {0}]]
    /\ write_guard \in [Flows -> Users \cup {NoUser}]
    /\ read_guard \in [Flows -> BOOLEAN]

InfoType ==
    /\ enable \in {0, 1}
    /\ state \in {"pending", "running"}
    /\ state_next \in {"pending", "running"}
    /\ blocking \in {0, 1}

WorkerType ==
    /\ wpc \in WorkerPCs
    /\ flow_id \in 0 .. NF
    /\ need \in 0 .. N
    /\ sent \in 0 .. N
    /\ moved \in 0 .. N
    /\ all_empty \in BOOLEAN

UserType ==
    /\ upc \in [Users -> UserPCs]
    /\ uflow \in [Users -> Flows]
    /\ uframe \in [Users -> Frames \cup {0}]
    /\ utimed \in [Users -> BOOLEAN]
    /\ calls \in 0 .. MaxCalls

ControlType ==
    /\ cpc \in ControlPCs
    /\ quiesced \in BOOLEAN
    /\ controls \in 0 .. MaxControl

HistoryType ==
    /\ accepting \in BOOLEAN
    /\ accepted \in [Flows -> Seq(Frames)]
    /\ wire \in [Flows -> Seq(Frames \cup {0})]

TypeOK ==
    RingType /\ InfoType /\ WorkerType /\ UserType /\ ControlType /\ HistoryType

(* Whatever the callers and the worker do at once, the device has received *)
(* a prefix of the frames accepted on the flow: none lost, none twice,     *)
(* none out of order, none half replaced by a later one (stream_ifmap and  *)
(* _memx_cascade_plus_ifmap_worker_transfer share the ring with no common  *)
(* lock).                                                                  *)
FifoDelivery ==
    \A f \in Flows :
        /\ Len(wire[f]) <= Len(accepted[f])
        /\ \A i \in 1 .. Len(wire[f]) : wire[f][i] = accepted[f][i]

(* Every frame that was accepted and is not on the wire yet lies untouched *)
(* in its slot: no caller copies over it, and the worker gives no slot     *)
(* back before the device has its frame (stream_ifmap checks for space     *)
(* without read_guard, while the worker moves entry_r).                    *)
UnsentFramesIntact ==
    \A f \in Flows : \A k \in Len(wire[f]) + 1 .. Len(accepted[f]) :
        data[f][Slot(f, InFlight(f) + k - Len(wire[f]) - 1)] = accepted[f][k]

(* The branch "illegal expected case" of the transfer is never taken: it   *)
(* would leave read_guard locked and stop the flow at the next transfer.   *)
ReadGuardReleased ==
    \A f \in Flows : read_guard[f] => wpc = "send" /\ f = flow_id

(* No lost wake-up: when the worker sleeps on an enabled stream although a *)
(* ring holds a frame, some caller is still on its way to signal it.       *)
NoLostWakeup ==
    /\ wpc = "asleep"
    /\ enable = 1
    /\ state_next = "running"
    /\ \E f \in Flows : ~Empty(f)
    => \E u \in Users : upc[u] = "signal"

(* Between the return of set_stream_disable(wait = 1) and the next         *)
(* set_stream_enable the worker sends nothing ("used to guarantee no data  *)
(* from specified model will be transferred to device").                   *)
QuietWhenDisabled == [][quiesced => wire' = wire]_vars

(* A slot comes back to the callers only when the device has its frame: an *)
(* accepted frame is in the ring, on the wire, or both while the pointer   *)
(* catches up, and never in neither.                                       *)
SlotFreedAfterWrite ==
    \A f \in Flows : Len(wire[f]) + Count(f) >= Len(accepted[f])

(* A frame whose call has put it in the ring reaches the device unless the *)
(* stream is disabled or destroyed or the device stops.                    *)
FramesReachDevice ==
    \A f \in Flows : \A k \in 1 .. MaxCalls :
        Len(accepted[f]) >= k ~>
            \/ Len(wire[f]) >= k
            \/ state_next = "pending" \/ enable = 0 \/ ~accepting

(* A caller that holds write_guard gets a slot and returns, with or        *)
(* without a timeout, while the stream is enabled and the device accepts.  *)
StreamReturns ==
    \A u \in Users :
        upc[u] = "poll" ~>
            upc[u] = "idle" \/ state_next = "pending" \/ ~accepting

(* destroy joins the worker from whatever it was doing. *)
DestroyReturns == cpc = "clear" ~> cpc = "destroyed" \/ ~accepting

(* set_stream_disable(wait = 1) returns. *)
DisableReturns == cpc = "wait_pending" ~> cpc = "idle" \/ ~accepting
=============================================================================
