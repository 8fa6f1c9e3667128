--------------------------- MODULE CascadeWorkers ---------------------------
(***************************************************************************)
(* What both directions of memx_cascade.c have in common: a transfer       *)
(* worker, job workers that share a list of jobs, and the control thread   *)
(* that enables, disables, changes the number of job workers and destroys. *)
(* CascadeIfmap and CascadeOfmap add the data and the rest of the threads. *)
(***************************************************************************)
EXTENDS Integers, Sequences, FiniteSets

CONSTANTS
    JobWorkers,     \* threads that can be job workers
    NoWorker,
    MaxControl      \* bound on the calls of the control thread

ASSUME WorkersAssumption ==
    /\ IsFiniteSet(JobWorkers) /\ JobWorkers # {}
    /\ NoWorker \notin JobWorkers
    /\ MaxControl \in Nat

VARIABLES
    jobs,   \* the job queue: the flow of each job
    jw,     \* jw[e]: place, enable, state, state_next and flow of job worker e
    pool,   \* the job workers, first created first
    lost,   \* history: flows of the jobs that were popped and not executed
    wk,     \* the transfer worker: place, enable, state, state_next
    ctl     \* the control thread: place, worker it removes, whether there
            \* ever were two job workers, and its calls

sharedVars == <<jobs, jw, pool, lost, wk, ctl>>

NewJobWorker == [pc |-> "top", enable |-> 1, state |-> "running",
                 next |-> "running", flow |-> 0]

WorkersInit ==
    /\ jobs = <<>>
    /\ \E e \in JobWorkers :
        /\ pool = <<e>>
        /\ jw = [d \in JobWorkers |-> IF d = e THEN NewJobWorker
                                      ELSE [NewJobWorker EXCEPT !.pc = "off"]]
    /\ lost = <<>>
    /\ wk = [pc |-> "top", enable |-> 1, state |-> "pending",
             next |-> "pending"]
    /\ ctl = [pc |-> "idle", who |-> NoWorker, grown |-> FALSE, done |-> 0]

-----------------------------------------------------------------------------
(* The loop of a job worker around the jobs. *)

JobWorkerGoes(e, pc) == jw' = [jw EXCEPT ![e].pc = pc]

JobWorkerTop(e) ==
    /\ jw[e].pc = "top"
    /\ JobWorkerGoes(e, IF jw[e].enable = 1 THEN "gate" ELSE "off")
    /\ UNCHANGED <<jobs, pool, lost, wk, ctl>>

(* _memx_mpu_worker_go_to_sleep.  Between the report of state pending and  *)
(* the wait the worker has the guard of its info ("committed").            *)
JobWorkerGate(e) ==
    /\ jw[e].pc = "gate"
    /\ jw' = IF jw[e].enable = 1 /\ jw[e].next = "pending"
               THEN [jw EXCEPT ![e].state = "pending", ![e].pc = "committed"]
               ELSE [jw EXCEPT ![e].state = "running", ![e].pc = "pop"]
    /\ UNCHANGED <<jobs, pool, lost, wk, ctl>>

JobWorkerSleep(e) ==
    /\ jw[e].pc = "committed"
    /\ JobWorkerGoes(e, "asleep")
    /\ UNCHANGED <<jobs, pool, lost, wk, ctl>>

(* A job that is popped when enable is 0 is not executed. *)
JobWorkerPop(e) ==
    /\ jw[e].pc = "pop"
    /\ IF jobs = <<>> THEN JobWorkerGoes(e, "rest") /\ UNCHANGED <<jobs, lost>>
       ELSE /\ jobs' = Tail(jobs)
            /\ IF jw[e].enable = 1
                 THEN /\ jw' = [jw EXCEPT ![e].pc = "execute",
                                          ![e].flow = Head(jobs)]
                      /\ UNCHANGED lost
                 ELSE /\ JobWorkerGoes(e, "rest")
                      /\ lost' = Append(lost, Head(jobs))
    /\ UNCHANGED <<pool, wk, ctl>>

(* Wait on enqueue if there is nothing to do. *)
NothingToDo(e) ==
    /\ jw[e].enable = 1
    /\ jw[e].next = "running"
    /\ jobs = <<>>

JobWorkerRest(e) ==
    /\ jw[e].pc = "rest"
    /\ JobWorkerGoes(e, IF NothingToDo(e) THEN "waiting" ELSE "top")
    /\ UNCHANGED <<jobs, pool, lost, wk, ctl>>

JobWorkerLoop(e) ==
    \/ JobWorkerTop(e) \/ JobWorkerGate(e) \/ JobWorkerSleep(e)
    \/ JobWorkerPop(e) \/ JobWorkerRest(e)

(* Signals on enqueue: to one waiter if there is one, and to all. *)
SignalNobody == UNCHANGED jw                    \* mutant: no signal
SignalEnqueue ==
    IF \E e \in JobWorkers : jw[e].pc = "waiting"
      THEN \E e \in JobWorkers : jw[e].pc = "waiting" /\ JobWorkerGoes(e, "rest")
      ELSE UNCHANGED jw

Broadcast ==
    jw' = [e \in JobWorkers |-> IF jw[e].pc = "waiting"
             THEN [jw[e] EXCEPT !.pc = "rest"] ELSE jw[e]]

(* A condition variable may wake by itself. *)
SpuriousWakeup ==
    /\ \/ \E e \in JobWorkers :
            /\ jw[e].pc \in {"asleep", "waiting"}
            /\ JobWorkerGoes(e, IF jw[e].pc = "asleep" THEN "gate" ELSE "rest")
            /\ UNCHANGED wk
       \/ /\ wk.pc \in {"asleep", "waiting"}
          /\ wk' = [wk EXCEPT !.pc = IF @ = "asleep" THEN "gate" ELSE "idle"]
          /\ UNCHANGED jw
    /\ UNCHANGED <<jobs, pool, lost, ctl>>

(* The transfer worker goes to sleep on demand. *)
WorkerGate ==
    /\ wk.pc = "gate"
    /\ wk' = IF wk.enable = 1 /\ wk.next = "pending"
               THEN [wk EXCEPT !.state = "pending", !.pc = "asleep"]
               ELSE [wk EXCEPT !.state = "running", !.pc = "scan"]
    /\ UNCHANGED <<jobs, jw, pool, lost, ctl>>

WorkerGoes(pc) == wk' = [wk EXCEPT !.pc = pc]

-----------------------------------------------------------------------------
(* The control thread. *)

ControlCall(pc) ==
    /\ ctl.pc = "idle"
    /\ ctl.done < MaxControl
    /\ ctl' = [ctl EXCEPT !.pc = pc, !.done = @ + 1]

(* _memx_mpu_worker_go_to_state *)
WorkerTo(s) ==
    wk' = [wk EXCEPT !.next = s, !.pc = IF @ = "asleep" THEN "gate" ELSE @]

GuardOf(e) == jw[e].pc # "committed"            \* the guard of e's info is free

JobWorkerTo(e, s) ==
    /\ GuardOf(e)
    /\ jw' = [jw EXCEPT ![e].next = s,
                        ![e].pc = IF @ = "asleep" THEN "gate" ELSE @]

(* The counter of the input rings, which only the ifmap worker waits for.  *)
SignalNewRows == wk' = [wk EXCEPT !.pc = IF @ = "waiting" THEN "idle" ELSE @]

(* Enable returns at once or waits for state running, disable for pending. *)
SetStreamEnable ==
    /\ \E pc \in {"idle", "enable_wait"} : ControlCall(pc)
    /\ WorkerTo("running")
    /\ UNCHANGED <<jobs, jw, pool, lost>>

SetStreamDisable ==
    /\ ControlCall("disable_signal")
    /\ WorkerTo("pending")
    /\ UNCHANGED <<jobs, jw, pool, lost>>

DisableSignal ==
    /\ ctl.pc = "disable_signal"
    /\ SignalNewRows
    /\ \E pc \in {"idle", "disable_wait"} : ctl' = [ctl EXCEPT !.pc = pc]
    /\ UNCHANGED <<jobs, jw, pool, lost>>

StateEntered ==
    /\ \/ ctl.pc = "enable_wait" /\ wk.state = "running"
       \/ ctl.pc = "disable_wait" /\ wk.state = "pending"
    /\ ctl' = [ctl EXCEPT !.pc = "idle"]
    /\ UNCHANGED <<jobs, jw, pool, lost, wk>>

(* set_worker_number, one more. *)
AddJobWorker ==
    /\ ctl.pc = "idle"
    /\ ctl.done < MaxControl
    /\ ctl' = [ctl EXCEPT !.done = @ + 1, !.grown = TRUE]
    /\ \E e \in JobWorkers :
        /\ jw[e].pc = "off"
        /\ jw' = [jw EXCEPT ![e] = NewJobWorker]
        /\ pool' = Append(pool, e)
    /\ UNCHANGED <<jobs, lost, wk>>

(* set_worker_number, one fewer: state_next pending, broadcast, wait for   *)
(* state pending, enable 0 with a signal, broadcast, join.                 *)
RemoveJobWorker ==
    /\ ctl.pc = "idle"
    /\ ctl.done < MaxControl
    /\ Len(pool) > 1
    /\ JobWorkerTo(Head(pool), "pending")
    /\ pool' = Tail(pool)
    /\ ctl' = [ctl EXCEPT !.pc = "remove_tell", !.who = Head(pool),
                          !.done = @ + 1]
    /\ UNCHANGED <<jobs, lost, wk>>

RemoveTell ==
    /\ ctl.pc \in {"remove_tell", "remove_retell"}
    /\ Broadcast
    /\ ctl' = [ctl EXCEPT !.pc = IF @ = "remove_tell" THEN "remove_wait"
                                                      ELSE "remove_join"]
    /\ UNCHANGED <<jobs, pool, lost, wk>>

(* For an encoder the signal is sent without the guard, and is lost if the *)
(* encoder is not yet waiting; for a decoder it is sent under it.          *)
RemoveStop(locked) == LET e == ctl.who IN
    /\ ctl.pc = "remove_wait"
    /\ jw[e].state = "pending"
    /\ locked => GuardOf(e)
    /\ jw' = [jw EXCEPT ![e].enable = 0,
                        ![e].pc = IF @ = "asleep" THEN "gate" ELSE @]
    /\ ctl' = [ctl EXCEPT !.pc = "remove_retell"]
    /\ UNCHANGED <<jobs, pool, lost, wk>>

RemoveJoin ==
    /\ ctl.pc = "remove_join"
    /\ jw[ctl.who].pc = "off"
    /\ ctl' = [ctl EXCEPT !.pc = "idle", !.who = NoWorker]
    /\ UNCHANGED <<jobs, jw, pool, lost, wk>>

(* destroy: enable 0 for all, then every worker is told to stop. *)
DestroyDisable ==
    /\ ctl.pc = "idle"
    /\ ctl' = [ctl EXCEPT !.pc = "stop"]
    /\ wk' = [wk EXCEPT !.enable = 0]
    /\ jw' = [e \in JobWorkers |-> [jw[e] EXCEPT !.enable = 0]]
    /\ UNCHANGED <<jobs, pool, lost>>

DestroyWorker ==
    /\ \/ /\ ctl.pc = "stop"
          /\ WorkerTo("pending")
          /\ ctl' = [ctl EXCEPT !.pc = "unblock"]
       \/ /\ ctl.pc = "unblock"
          /\ SignalNewRows
          /\ ctl' = [ctl EXCEPT !.pc = "stop_jobs"]
    /\ UNCHANGED <<jobs, jw, pool, lost>>

Untold == SelectSeq(pool, LAMBDA e : jw[e].next = "running")

DestroyJobWorker ==
    /\ ctl.pc = "stop_jobs"
    /\ JobWorkerTo(Head(Untold), "pending")
    /\ ctl' = [ctl EXCEPT !.pc = "signal_jobs"]
    /\ UNCHANGED <<jobs, pool, lost, wk>>

DestroySignal ==
    /\ ctl.pc = "signal_jobs"
    /\ SignalEnqueue
    /\ ctl' = [ctl EXCEPT !.pc = IF Untold = <<>> THEN "join" ELSE "stop_jobs"]
    /\ UNCHANGED <<jobs, pool, lost, wk>>

(* The joins; the jobs that are left are freed. *)
DestroyJoin ==
    /\ ctl.pc = "join"
    /\ wk.pc = "exit"
    /\ \A e \in JobWorkers : jw[e].pc = "off"
    /\ ctl' = [ctl EXCEPT !.pc = "gone"]
    /\ jobs' = <<>>
    /\ pool' = <<>>
    /\ UNCHANGED <<jw, lost, wk>>

Destroying == ctl.pc \in {"stop", "unblock", "stop_jobs", "signal_jobs",
                          "join", "gone"}

Control(locked) ==
    \/ DisableSignal \/ StateEntered \/ RemoveTell \/ RemoveStop(locked)
    \/ RemoveJoin \/ DestroyWorker \/ DestroyJobWorker \/ DestroySignal

Request ==
    SetStreamEnable \/ SetStreamDisable \/ AddJobWorker \/ RemoveJobWorker

-----------------------------------------------------------------------------
Running == wk.enable = 1 /\ wk.next = "running"

JobsFor(f) == Cardinality({i \in DOMAIN jobs : jobs[i] = f})
LostFor(f) == Cardinality({i \in DOMAIN lost : lost[i] = f})
WorkersAt(f, pc) ==
    Cardinality({e \in JobWorkers : jw[e].pc = pc /\ jw[e].flow = f})

WorkersTypeOK ==
    /\ \A e \in JobWorkers :
        /\ jw[e].enable \in {0, 1}
        /\ jw[e].state \in {"pending", "running"}
        /\ jw[e].next \in {"pending", "running"}
    /\ wk.state \in {"pending", "running"}
    /\ wk.next \in {"pending", "running"}
    /\ ctl.who \in JobWorkers \cup {NoWorker}
    /\ ctl.done \in 0 .. MaxControl
=============================================================================
