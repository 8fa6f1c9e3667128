----------------------- MODULE CascadePlusLoadBalance -----------------------
(***************************************************************************)
(* How the ifmap worker of memx_cascadeplus.c shares the device between    *)
(* the inputs of a multi-input model (input_mode_flag bit set).  A flow is *)
(* written one row at a time; two masks and a threshold decide which flow  *)
(* may write next, so that no input runs ahead of the others.              *)
(*                                                                         *)
(* A ring is the number of whole frames in it, the frame being written     *)
(* included.  A row stands for the piece one call of                       *)
(* _memx_cascade_plus_ifmap_worker_transfer_noblocking writes: the driver  *)
(* takes all of it or nothing.                                             *)
(***************************************************************************)
EXTENDS Integers, FiniteSets

CONSTANTS
    NF,         \* input ports are 0..NF-1, polled in this order
    Heights,    \* numbers of rows a frame may have
    MaxFrames,  \* bound on the frames streamed to a flow of a model
    MaxSwitch   \* bound on the model downloads after the first

ASSUME LoadBalanceAssumption ==
    /\ NF \in Nat /\ NF >= 2
    /\ Heights \subseteq Nat \ {0}
    /\ MaxFrames \in Nat
    /\ MaxSwitch \in Nat

Flows == 0 .. NF - 1

VARIABLES
    input_mode_flag,    \* the flows of the model, as a set
    rows,               \* rows[f]: rows of one frame of f
    queued,             \* queued[f]: frames in the ring of f
    transferred_row,    \* transferred_row[f]: rows of its first frame written
    row_mask, frm_mask, \* transfered_flow_row_mask, transfered_flow_frm_mask
    threshold,          \* load_balance_threshold
    flow_id,            \* the flow polled next
    fed, done,          \* history: frames streamed to, written from each flow
    switches            \* history: model downloads

balanceVars == <<row_mask, frm_mask, threshold>>
modelVars   == <<input_mode_flag, rows, switches>>
vars == <<modelVars, queued, transferred_row, balanceVars, flow_id, fed, done>>

(* load_dfp sets the bits of inputs in pairs, so that a model has none or  *)
(* at least two non-blocking inputs.                                       *)
Models == {m \in SUBSET Flows : Cardinality(m) >= 2}

Zero == [f \in Flows |-> 0]

Init ==
    /\ input_mode_flag \in Models
    /\ rows \in [Flows -> Heights]
    /\ queued = Zero
    /\ transferred_row = Zero
    /\ row_mask = {}
    /\ frm_mask = {}
    /\ threshold = 0
    /\ flow_id = 0
    /\ fed = Zero
    /\ done = Zero
    /\ switches = 0

-----------------------------------------------------------------------------
(* A caller of stream_ifmap adds a frame. *)
Feed(f) ==
    /\ f \in input_mode_flag
    /\ fed[f] < MaxFrames
    /\ fed' = [fed EXCEPT ![f] = @ + 1]
    /\ queued' = [queued EXCEPT ![f] = @ + 1]
    /\ UNCHANGED <<modelVars, transferred_row, balanceVars, flow_id, done>>

NextFlow == flow_id' = IF flow_id + 1 = NF THEN 0 ELSE flow_id + 1

RowTurnAnyRow(f) ==         \* mutant: rows written in this round not masked
    frm_mask = {} /\ transferred_row[f] <= threshold
RowTurn(f) ==
    /\ frm_mask = {}
    /\ f \notin row_mask
    /\ transferred_row[f] <= threshold

FrameTurnAnyFlow(f) ==      \* mutant: a flow that has sent its frame goes on
    frm_mask # {}
FrameTurn(f) == frm_mask # {} /\ f \notin frm_mask

MayTransfer(f) == queued[f] > 0 /\ (RowTurn(f) \/ FrameTurn(f))

(* A mask that covers the model starts over. *)
KeepMask(mask) == mask      \* mutant: a full mask is not cleared
Renew(mask) == IF mask = input_mode_flag THEN {} ELSE mask

RowAfter(row, whole) == IF whole THEN 0 ELSE row

(* The driver takes one row of the flow polled. *)
TransferRow ==
    LET f == flow_id
        row == transferred_row[f] + 1
        whole == row = rows[f]
    IN  /\ MayTransfer(f)
        /\ transferred_row' = [transferred_row EXCEPT ![f] =
                                   RowAfter(row, whole)]
        /\ threshold' = IF whole THEN threshold ELSE row
        /\ row_mask' = Renew(row_mask \cup {f})
        /\ frm_mask' = Renew(IF whole THEN frm_mask \cup {f} ELSE frm_mask)
        /\ queued' = IF whole THEN [queued EXCEPT ![f] = @ - 1] ELSE queued
        /\ done' = IF whole THEN [done EXCEPT ![f] = @ + 1] ELSE done
        /\ NextFlow
        /\ UNCHANGED <<modelVars, fed>>

(* It takes nothing: the masks stay as they are. *)
RowRefused ==
    /\ MayTransfer(flow_id)
    /\ NextFlow
    /\ UNCHANGED <<modelVars, queued, transferred_row, balanceVars, fed, done>>

PassOver ==
    /\ ~MayTransfer(flow_id)
    /\ NextFlow
    /\ UNCHANGED <<modelVars, queued, transferred_row, balanceVars, fed, done>>

(* memx_download_model of another model, when every input got the same     *)
(* number of frames and all of them are written.  The rings are made new;  *)
(* the masks and the threshold belong to the worker thread and stay.       *)
SwitchModel(m) ==
    /\ switches < MaxSwitch
    /\ flow_id = 0
    /\ \A f \in input_mode_flag : queued[f] = 0
    /\ \A f, g \in input_mode_flag : fed[f] = fed[g]
    /\ input_mode_flag' = m
    /\ rows' \in [Flows -> Heights]
    /\ switches' = switches + 1
    /\ queued' = Zero
    /\ fed' = Zero
    /\ done' = Zero
    /\ UNCHANGED <<transferred_row, balanceVars, flow_id>>

Next ==
    \/ \E f \in Flows : Feed(f)
    \/ TransferRow
    \/ RowRefused
    \/ PassOver
    \/ \E m \in Models : SwitchModel(m)

Spec == Init /\ [][Next]_vars

(* The worker keeps polling, and a device that is offered a row of a flow  *)
(* again and again takes it in the end.                                    *)
Fairness ==
    /\ WF_vars(TransferRow \/ RowRefused \/ PassOver)
    /\ \A f \in Flows : SF_vars(flow_id = f /\ TransferRow)

FairSpec == Spec /\ Fairness

-----------------------------------------------------------------------------
TypeOK ==
    /\ input_mode_flag \in Models
    /\ rows \in [Flows -> Heights]
    /\ queued \in [Flows -> 0 .. MaxFrames]
    /\ transferred_row \in [Flows -> Nat]
    /\ \A f \in Flows : transferred_row[f] < rows[f]
    /\ row_mask \subseteq Flows
    /\ frm_mask \subseteq Flows
    /\ threshold \in Nat /\ \E h \in Heights : threshold < h
    /\ flow_id \in Flows
    /\ fed \in [Flows -> 0 .. MaxFrames]
    /\ done \in [Flows -> 0 .. MaxFrames]
    /\ switches \in 0 .. MaxSwitch

(* A flow in the middle of a frame is never ahead of another input of the  *)
(* model: the device has to buffer less than one frame of an input while   *)
(* it waits for the others.                                                *)
NoFlowAhead ==
    \A f, g \in input_mode_flag :
        transferred_row[f] > 0 => done[f] <= done[g]

(* While no input has finished its frame the inputs advance in step.  An   *)
(* input is one row ahead in the middle of a round, and one more when its  *)
(* first round only completed a row mask that the last frame left behind.  *)
RowsInStep ==
    frm_mask = {} =>
        \A f, g \in input_mode_flag :
            transferred_row[f] <= transferred_row[g] + 2

(* Load balance exists "to avoid deadlock": when every input of the model  *)
(* has been given k frames, k frames of every input reach the device.      *)
BalancedInputsDrain ==
    \A k \in 1 .. MaxFrames :
        (\A f \in input_mode_flag : fed[f] >= k) ~>
            (\A f \in input_mode_flag : done[f] >= k)

(* The same for the first model: until another one is downloaded, every    *)
(* frame all inputs have been given reaches the device.                     *)
DrainBeforeSwitch ==
    \A k \in 1 .. MaxFrames :
        (\A f \in input_mode_flag : fed[f] >= k) ~>
            switches > 0 \/ \A f \in input_mode_flag : done[f] >= k
=============================================================================
