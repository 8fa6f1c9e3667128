------------------- MODULE CascadePlusLoadBalance_proofs -------------------
(***************************************************************************)
(* The load balance of multi-input models, for any number of inputs, any   *)
(* frame heights and any number of model downloads: its variables keep     *)
(* their types and no input gets ahead of another in the middle of a frame.*)
(***************************************************************************)
EXTENDS CascadePlusLoadBalance, FiniteSetTheorems, TLAPS

(* Frames of f that the current round of frames has already finished. *)
Finished(f) == IF f \in frm_mask THEN 1 ELSE 0

(* Every frame streamed is in the ring or written, a frame begun is in the *)
(* ring, and only inputs of the model have frames.                         *)
FramesAccounted ==
    \A f \in Flows :
        /\ fed[f] = queued[f] + done[f]
        /\ transferred_row[f] > 0 => queued[f] > 0
        /\ f \notin input_mode_flag => queued[f] = 0

(* The frame mask holds the inputs that are one frame ahead of the rest;   *)
(* they wait at the start of their next frame.                             *)
MaskIsLead ==
    /\ frm_mask \subseteq input_mode_flag
    /\ frm_mask # input_mode_flag
    /\ \A f \in frm_mask : transferred_row[f] = 0
    /\ \A f, g \in input_mode_flag :
          done[f] - Finished(f) = done[g] - Finished(g)

BalanceInv == TypeOK /\ FramesAccounted /\ MaskIsLead

-----------------------------------------------------------------------------
LEMMA ModelsNotEmpty == \A m \in Models : m # {} /\ m \subseteq Flows
  BY FS_EmptySet DEF Models

LEMMA BalanceInvInit == Init => BalanceInv
  <1> SUFFICES ASSUME Init PROVE BalanceInv
    OBVIOUS
  <1>1. 0 \in Flows /\ 0 \in 0 .. MaxFrames /\ 0 \in 0 .. MaxSwitch
    BY LoadBalanceAssumption DEF Flows
  <1>2. rows \in [Flows -> Heights] /\ \A h \in Heights : h \in Nat /\ 0 < h
    BY LoadBalanceAssumption DEF Init
  <1>3. Zero \in [Flows -> 0 .. MaxFrames] /\ Zero \in [Flows -> Nat]
    BY <1>1 DEF Zero
  <1>4. \A f \in Flows : Zero[f] = 0 /\ Zero[f] < rows[f]
    BY <1>2 DEF Zero
  <1>5. \E h \in Heights : 0 < h
    BY <1>1, <1>2
  <1>6. TypeOK
    BY <1>1, <1>3, <1>4, <1>5 DEF Init, TypeOK
  <1>7. FramesAccounted
    BY <1>4 DEF Init, FramesAccounted
  <1>8. MaskIsLead
    BY <1>4, ModelsNotEmpty DEF Init, MaskIsLead, Finished
  <1> QED
    BY <1>6, <1>7, <1>8 DEF BalanceInv

LEMMA NextFlowType == ASSUME TypeOK, NextFlow PROVE flow_id' \in Flows
  BY LoadBalanceAssumption DEF TypeOK, NextFlow, Flows

LEMMA FeedKeeps ==
    ASSUME BalanceInv, NEW f \in Flows, Feed(f) PROVE BalanceInv'
  <1>1. TypeOK'
    <2>1. fed' \in [Flows -> 0 .. MaxFrames]
      BY LoadBalanceAssumption DEF BalanceInv, TypeOK, Feed
    <2>2. queued' \in [Flows -> 0 .. MaxFrames]
      BY LoadBalanceAssumption DEF BalanceInv, TypeOK, FramesAccounted, Feed
    <2> QED
      BY <2>1, <2>2 DEF BalanceInv, TypeOK, Feed, modelVars, balanceVars
  <1>2. FramesAccounted'
    <2> SUFFICES ASSUME NEW g \in Flows
                 PROVE  /\ fed'[g] = queued'[g] + done[g]
                        /\ transferred_row[g] > 0 => queued'[g] > 0
                        /\ g \notin input_mode_flag => queued'[g] = 0
      BY DEF FramesAccounted, Feed, modelVars
    <2>1. /\ fed[g] = queued[g] + done[g]
          /\ transferred_row[g] > 0 => queued[g] > 0
          /\ g \notin input_mode_flag => queued[g] = 0
          /\ queued[g] \in Nat /\ done[g] \in Nat /\ fed[g] \in Nat
      BY LoadBalanceAssumption DEF BalanceInv, TypeOK, FramesAccounted
    <2>2. CASE g = f
      BY <2>1, <2>2 DEF BalanceInv, TypeOK, Feed
    <2>3. CASE g # f
      BY <2>1, <2>3 DEF BalanceInv, TypeOK, Feed
    <2> QED
      BY <2>2, <2>3
  <1>3. MaskIsLead'
    BY DEF BalanceInv, MaskIsLead, Finished, Feed, modelVars, balanceVars
  <1> QED
    BY <1>1, <1>2, <1>3 DEF BalanceInv

(* What every transfer knows of the flow it is made for. *)
LEMMA TransferFlow ==
    ASSUME BalanceInv, MayTransfer(flow_id)
    PROVE  /\ flow_id \in Flows
           /\ flow_id \in input_mode_flag
           /\ flow_id \notin frm_mask
           /\ queued[flow_id] > 0
  BY DEF BalanceInv, TypeOK, FramesAccounted, MayTransfer, RowTurn, FrameTurn

(* A row that does not complete its frame. *)
LEMMA PartialRowKeeps ==
    ASSUME BalanceInv, TransferRow,
           transferred_row[flow_id] + 1 # rows[flow_id]
    PROVE  BalanceInv'
  <1> DEFINE f == flow_id
             row == transferred_row[f] + 1
  <1>1. f \in Flows /\ f \in input_mode_flag /\ f \notin frm_mask /\ queued[f] > 0
    BY TransferFlow DEF TransferRow
  <1>2. /\ transferred_row' = [transferred_row EXCEPT ![f] = row]
        /\ threshold' = row
        /\ row_mask' = Renew(row_mask \cup {f})
        /\ frm_mask' = Renew(frm_mask)
        /\ NextFlow
        /\ UNCHANGED <<input_mode_flag, rows, switches, fed, queued, done>>
    BY DEF TransferRow, RowAfter, modelVars
  <1>3. frm_mask' = frm_mask
    BY <1>2 DEF BalanceInv, MaskIsLead, Renew
  <1>4. row \in Nat /\ row < rows[f] /\ rows[f] \in Heights
    <2>1. /\ transferred_row[f] \in Nat /\ rows[f] \in Heights
          /\ transferred_row[f] < rows[f]
      BY <1>1 DEF BalanceInv, TypeOK
    <2>2. rows[f] \in Nat
      BY <2>1, LoadBalanceAssumption
    <2>3. transferred_row[f] + 1 # rows[f]
      OBVIOUS
    <2> QED
      BY ONLY <2>1, <2>2, <2>3
  <1>5. TypeOK'
    <2>1. transferred_row' \in [Flows -> Nat]
          /\ \A g \in Flows : transferred_row'[g] < rows[g]
      BY <1>2, <1>4 DEF BalanceInv, TypeOK
    <2>2. row_mask' \subseteq Flows
      BY <1>1, <1>2 DEF BalanceInv, TypeOK, Renew
    <2>3. flow_id' \in Flows
      BY <1>2, NextFlowType DEF BalanceInv
    <2>4. threshold' \in Nat /\ \E h \in Heights : threshold' < h
      BY <1>2, <1>4
    <2> QED
      BY <1>2, <1>3, <2>1, <2>2, <2>3, <2>4 DEF BalanceInv, TypeOK
  <1>6. FramesAccounted'
    <2> SUFFICES ASSUME NEW g \in Flows
                 PROVE  /\ fed[g] = queued[g] + done[g]
                        /\ transferred_row'[g] > 0 => queued[g] > 0
                        /\ g \notin input_mode_flag => queued[g] = 0
      BY <1>2 DEF FramesAccounted
    <2>1. transferred_row'[g] > 0 => queued[g] > 0
      <3>1. CASE g = f
        BY <1>1, <3>1
      <3>2. CASE g # f
        BY <1>2, <3>2 DEF BalanceInv, TypeOK, FramesAccounted
      <3> QED
        BY <3>1, <3>2
    <2> QED
      BY <2>1 DEF BalanceInv, FramesAccounted
  <1>7. MaskIsLead'
    BY <1>1, <1>2, <1>3 DEF BalanceInv, TypeOK, MaskIsLead, Finished
  <1> QED
    BY <1>5, <1>6, <1>7 DEF BalanceInv

(* A row that completes its frame. *)
LEMMA WholeRowKeeps ==
    ASSUME BalanceInv, TransferRow,
           transferred_row[flow_id] + 1 = rows[flow_id]
    PROVE  BalanceInv'
  <1> DEFINE f == flow_id
             lead == frm_mask \cup {f}
  <1>1. f \in Flows /\ f \in input_mode_flag /\ f \notin frm_mask /\ queued[f] > 0
    BY TransferFlow DEF TransferRow
  <1>2. /\ transferred_row' = [transferred_row EXCEPT ![f] = 0]
        /\ row_mask' = Renew(row_mask \cup {f})
        /\ frm_mask' = Renew(lead)
        /\ queued' = [queued EXCEPT ![f] = @ - 1]
        /\ done' = [done EXCEPT ![f] = @ + 1]
        /\ NextFlow
        /\ UNCHANGED <<input_mode_flag, rows, switches, fed, threshold>>
    BY DEF TransferRow, RowAfter, modelVars
  <1>3. \A g \in Flows : /\ queued[g] \in 0 .. MaxFrames
                         /\ done[g] \in 0 .. MaxFrames
                         /\ fed[g] \in 0 .. MaxFrames
                         /\ fed[g] = queued[g] + done[g]
    BY DEF BalanceInv, TypeOK, FramesAccounted
  <1>4. TypeOK'
    <2>1. transferred_row' \in [Flows -> Nat]
          /\ \A g \in Flows : transferred_row'[g] < rows[g]
      <3>1. rows[f] \in Heights /\ 0 < rows[f]
        BY <1>1, LoadBalanceAssumption DEF BalanceInv, TypeOK
      <3> QED
        BY <1>2, <3>1 DEF BalanceInv, TypeOK
    <2>2. row_mask' \subseteq Flows /\ frm_mask' \subseteq Flows
      BY <1>1, <1>2 DEF BalanceInv, TypeOK, Renew
    <2>3. flow_id' \in Flows
      BY <1>2, NextFlowType DEF BalanceInv
    <2>4. queued[f] - 1 \in 0 .. MaxFrames /\ done[f] + 1 \in 0 .. MaxFrames
      BY <1>1, <1>3, LoadBalanceAssumption
    <2>5. queued' \in [Flows -> 0 .. MaxFrames] /\ done' \in [Flows -> 0 .. MaxFrames]
      BY <1>2, <2>4 DEF BalanceInv, TypeOK
    <2> QED
      BY <1>2, <2>1, <2>2, <2>3, <2>5 DEF BalanceInv, TypeOK
  <1>5. FramesAccounted'
    <2> SUFFICES ASSUME NEW g \in Flows
                 PROVE  /\ fed[g] = queued'[g] + done'[g]
                        /\ transferred_row'[g] > 0 => queued'[g] > 0
                        /\ g \notin input_mode_flag => queued'[g] = 0
      BY <1>2 DEF FramesAccounted
    <2>1. CASE g = f
      BY <1>1, <1>2, <1>3, <2>1, LoadBalanceAssumption DEF BalanceInv, TypeOK
    <2>2. CASE g # f
      BY <1>2, <1>3, <2>2 DEF BalanceInv, TypeOK, FramesAccounted
    <2> QED
      BY <2>1, <2>2
  <1>6. MaskIsLead'
    <2>1. /\ input_mode_flag' = input_mode_flag
          /\ input_mode_flag \subseteq Flows /\ input_mode_flag # {}
          /\ lead \subseteq input_mode_flag
      BY <1>1, <1>2, ModelsNotEmpty DEF BalanceInv, TypeOK, MaskIsLead
    <2>2. \A g \in lead : transferred_row'[g] = 0
      BY <1>2, <2>1 DEF BalanceInv, TypeOK, MaskIsLead
    <2>3. \A g \in input_mode_flag :
             done'[g] - (IF g \in lead THEN 1 ELSE 0) = done[g] - Finished(g)
      <3> SUFFICES ASSUME NEW g \in input_mode_flag
                   PROVE  done'[g] - (IF g \in lead THEN 1 ELSE 0) =
                             done[g] - Finished(g)
        OBVIOUS
      <3>1. g \in Flows /\ done[g] \in Int
        BY <1>3, <2>1, LoadBalanceAssumption
      <3>2. CASE g = f
        BY <1>1, <1>2, <3>1, <3>2 DEF Finished, BalanceInv, TypeOK
      <3>3. CASE g # f
        BY <1>2, <3>1, <3>3 DEF Finished, BalanceInv, TypeOK
      <3> QED
        BY <3>2, <3>3
    <2>4. \A g, h \in input_mode_flag :
             done[g] - Finished(g) = done[h] - Finished(h)
      BY DEF BalanceInv, MaskIsLead
    <2>5. CASE lead = input_mode_flag
      <3>1. frm_mask' = {}
        BY <1>2, <2>5 DEF Renew
      <3>2. \A g \in input_mode_flag :
               /\ g \in lead
               /\ g \in Flows
               /\ done'[g] \in Int
               /\ Finished(g)' = 0
        BY <1>4, <2>1, <2>5, <3>1, LoadBalanceAssumption DEF TypeOK, Finished
      <3>3. \A g \in input_mode_flag : done'[g] - 1 = done[g] - Finished(g)
        BY <2>3, <3>2
      <3>4. \A g, h \in input_mode_flag : done'[g] - 1 = done'[h] - 1
        BY <2>4, <3>3
      <3>5. \A g, h \in input_mode_flag : done'[g] - 0 = done'[h] - 0
        BY <3>2, <3>4
      <3> QED
        BY <2>1, <3>1, <3>2, <3>5 DEF MaskIsLead
    <2>6. CASE lead # input_mode_flag
      <3>1. frm_mask' = lead
        BY <1>2, <2>6 DEF Renew
      <3>2. \A g \in input_mode_flag :
               Finished(g)' = IF g \in lead THEN 1 ELSE 0
        BY <3>1 DEF Finished
      <3> QED
        BY <2>1, <2>2, <2>3, <2>4, <2>6, <3>1, <3>2 DEF MaskIsLead
    <2> QED
      BY <2>5, <2>6
  <1> QED
    BY <1>4, <1>5, <1>6 DEF BalanceInv

LEMMA SwitchKeeps ==
    ASSUME BalanceInv, NEW m \in Models, SwitchModel(m) PROVE BalanceInv'
  <1>1. /\ input_mode_flag' = m
        /\ rows' \in [Flows -> Heights]
        /\ switches' = switches + 1 /\ switches < MaxSwitch
        /\ queued' = Zero /\ fed' = Zero /\ done' = Zero
        /\ UNCHANGED <<transferred_row, row_mask, frm_mask, threshold, flow_id>>
    BY DEF SwitchModel, balanceVars
  <1>2. \A f \in Flows : queued[f] = 0 /\ transferred_row[f] = 0
    BY DEF BalanceInv, TypeOK, FramesAccounted, SwitchModel
  <1>3. 0 \in 0 .. MaxFrames /\ \A f \in Flows : Zero[f] = 0
    BY LoadBalanceAssumption DEF Zero
  <1>4. \A h \in Heights : h \in Nat /\ 0 < h
    BY LoadBalanceAssumption
  (* All inputs are at the same frame, so no input leads. *)
  <1>5. frm_mask = {}
    <2>1. /\ input_mode_flag \subseteq Flows
          /\ frm_mask \subseteq input_mode_flag
          /\ frm_mask # input_mode_flag
      BY ModelsNotEmpty DEF BalanceInv, TypeOK, MaskIsLead
    <2>2. PICK g \in input_mode_flag : g \notin frm_mask
      BY <2>1
    <2> SUFFICES ASSUME NEW f \in frm_mask PROVE FALSE
      OBVIOUS
    <2>3. fed[f] = fed[g] /\ queued[f] = 0 /\ queued[g] = 0
      BY <1>2, <2>1 DEF SwitchModel
    <2>4. done[f] - 1 = done[g] - 0
      BY <2>1, <2>2 DEF BalanceInv, MaskIsLead, Finished
    <2>5. /\ fed[f] = queued[f] + done[f] /\ fed[g] = queued[g] + done[g]
          /\ done[f] \in Int /\ done[g] \in Int
      BY <2>1, LoadBalanceAssumption DEF BalanceInv, TypeOK, FramesAccounted
    <2>6. 0 + done[f] = 0 + done[g]
      BY <2>3, <2>5
    <2> QED
      BY ONLY <2>4, <2>5, <2>6
  <1>6. TypeOK'
    <2>1. Zero \in [Flows -> 0 .. MaxFrames]
      BY <1>3 DEF Zero
    <2>2. switches' \in 0 .. MaxSwitch
      BY <1>1, LoadBalanceAssumption DEF BalanceInv, TypeOK
    <2>3. \A f \in Flows : transferred_row'[f] < rows'[f]
      BY <1>1, <1>2, <1>4
    <2> QED
      BY <1>1, <2>1, <2>2, <2>3 DEF BalanceInv, TypeOK
  <1>7. FramesAccounted'
    BY <1>1, <1>2, <1>3 DEF FramesAccounted
  <1>8. MaskIsLead'
    <2>1. m # {} /\ m \subseteq Flows
      BY ModelsNotEmpty
    <2> QED
      BY <1>1, <1>3, <1>5, <2>1 DEF MaskIsLead, Finished
  <1> QED
    BY <1>6, <1>7, <1>8 DEF BalanceInv

LEMMA BalanceInvStep == BalanceInv /\ [Next]_vars => BalanceInv'
  <1> SUFFICES ASSUME BalanceInv, [Next]_vars PROVE BalanceInv'
    OBVIOUS
  <1>1. CASE \E f \in Flows : Feed(f)
    BY <1>1, FeedKeeps
  <1>2. CASE TransferRow
    BY <1>2, PartialRowKeeps, WholeRowKeeps
  <1>3. CASE RowRefused \/ PassOver
    <2>1. /\ NextFlow
          /\ UNCHANGED <<modelVars, queued, transferred_row, balanceVars, fed,
                         done>>
      BY <1>3 DEF RowRefused, PassOver
    <2>2. flow_id' \in Flows
      BY <2>1, NextFlowType DEF BalanceInv
    <2> QED
      BY <2>1, <2>2 DEF BalanceInv, TypeOK, FramesAccounted, MaskIsLead,
         Finished, modelVars, balanceVars
  <1>4. CASE \E m \in Models : SwitchModel(m)
    BY <1>4, SwitchKeeps
  <1>5. CASE UNCHANGED vars
    BY <1>5 DEF BalanceInv, TypeOK, FramesAccounted, MaskIsLead, Finished,
       vars, modelVars, balanceVars
  <1> QED
    BY <1>1, <1>2, <1>3, <1>4, <1>5 DEF Next

LEMMA BalanceInvAlways == Spec => []BalanceInv
  BY BalanceInvInit, BalanceInvStep, PTL DEF Spec

-----------------------------------------------------------------------------
(* The worker's masks, threshold and row counts stay in their ranges; the  *)
(* rows written of a frame are always fewer than the frame has.            *)
THEOREM TypeCorrect == Spec => []TypeOK
  <1>1. BalanceInv => TypeOK
    BY DEF BalanceInv
  <1> QED
    BY <1>1, BalanceInvAlways, PTL

(* No input in the middle of a frame is ahead of another input of the      *)
(* model, whatever the heights, the order of polling and what an earlier   *)
(* model left in the row mask.                                             *)
THEOREM NoFlowAheadHolds == Spec => []NoFlowAhead
  <1>1. BalanceInv => NoFlowAhead
    <2> SUFFICES ASSUME BalanceInv,
                        NEW f \in input_mode_flag, NEW g \in input_mode_flag,
                        transferred_row[f] > 0
                 PROVE  done[f] <= done[g]
      BY DEF NoFlowAhead
    <2>1. f \notin frm_mask
      BY DEF BalanceInv, MaskIsLead
    <2>2. /\ done[f] - 0 = done[g] - Finished(g)
          /\ Finished(g) \in {0, 1}
      BY <2>1 DEF BalanceInv, MaskIsLead, Finished
    <2>3. done[f] \in Int /\ done[g] \in Int
      BY ModelsNotEmpty, LoadBalanceAssumption DEF BalanceInv, TypeOK
    <2> QED
      BY <2>2, <2>3
  <1> QED
    BY <1>1, BalanceInvAlways, PTL

-----------------------------------------------------------------------------
(* The rounds of rows f has been through: an input in the row mask has its *)
(* row of this round already.  A mask left over from the last frame puts   *)
(* an input one round behind at the start.                                 *)
Rounds(f) == transferred_row[f] - (IF f \in row_mask THEN 1 ELSE 0)

RoundsAlike ==
    frm_mask = {} =>
        \A f, g \in input_mode_flag : Rounds(f) <= Rounds(g) + 1

LEMMA RoundsAlikeAtRest ==
    ASSUME \A f \in input_mode_flag : transferred_row[f] = 0
    PROVE  RoundsAlike
  BY DEF RoundsAlike, Rounds

LEMMA RoundsAlikeTransfer ==
    ASSUME BalanceInv, RoundsAlike, TransferRow PROVE RoundsAlike'
  <1> DEFINE f == flow_id
             row == transferred_row[f] + 1
             mask == row_mask \cup {f}
  <1>1. f \in Flows /\ f \in input_mode_flag /\ f \notin frm_mask
    BY TransferFlow DEF TransferRow
  <1>2. /\ input_mode_flag' = input_mode_flag
        /\ row_mask' = Renew(mask)
        /\ input_mode_flag \subseteq Flows
        /\ transferred_row \in [Flows -> Nat]
        /\ row_mask \subseteq Flows
    BY ModelsNotEmpty DEF TransferRow, modelVars, BalanceInv, TypeOK
  <1>3. CASE row = rows[f]
    <2>1. /\ transferred_row' = [transferred_row EXCEPT ![f] = 0]
          /\ frm_mask' = Renew(frm_mask \cup {f})
      BY <1>3 DEF TransferRow, RowAfter
    <2> SUFFICES ASSUME frm_mask' = {} PROVE RoundsAlike'
      BY DEF RoundsAlike
    <2>2. frm_mask \cup {f} = input_mode_flag
      BY <2>1 DEF Renew
    <2>3. \A g \in input_mode_flag : transferred_row'[g] = 0
      BY <1>2, <2>1, <2>2 DEF BalanceInv, MaskIsLead
    <2> QED
      BY <1>2, <2>3 DEF RoundsAlike, Rounds
  <1>4. CASE row # rows[f]
    <2>1. /\ transferred_row' = [transferred_row EXCEPT ![f] = row]
          /\ frm_mask' = frm_mask
      BY <1>4 DEF TransferRow, RowAfter, Renew, BalanceInv, MaskIsLead
    <2> SUFFICES ASSUME frm_mask = {} PROVE RoundsAlike'
      BY <2>1 DEF RoundsAlike
    <2>2. f \notin row_mask
      BY DEF TransferRow, MayTransfer, RowTurn, FrameTurn
    (* The step adds the row and the bit: no input changes its rounds. *)
    <2>3. \A g \in input_mode_flag :
             Rounds(g) = transferred_row'[g] - (IF g \in mask THEN 1 ELSE 0)
      <3> SUFFICES ASSUME NEW g \in input_mode_flag
                   PROVE  Rounds(g) = transferred_row'[g] -
                                         (IF g \in mask THEN 1 ELSE 0)
        OBVIOUS
      <3>1. transferred_row[g] \in Int
        BY <1>2
      <3>2. CASE g = f
        BY <1>1, <1>2, <2>1, <2>2, <3>1, <3>2 DEF Rounds
      <3>3. CASE g # f
        BY <1>2, <2>1, <3>1, <3>3 DEF Rounds
      <3> QED
        BY <3>2, <3>3
    <2>4. \A g, h \in input_mode_flag : Rounds(g) <= Rounds(h) + 1
      BY DEF RoundsAlike
    <2>5. \A g \in input_mode_flag : transferred_row'[g] \in Int
      BY <1>1, <1>2, <2>1
    <2>6. CASE mask = input_mode_flag
      <3>1. row_mask' = {}
        BY <1>2, <2>6 DEF Renew
      <3>2. \A g \in input_mode_flag : Rounds(g)' = Rounds(g) + 1
        BY <2>3, <2>5, <2>6, <3>1 DEF Rounds
      <3>3. \A g \in input_mode_flag : Rounds(g) \in Int
        BY <1>2 DEF Rounds
      <3>4. \A g, h \in input_mode_flag : Rounds(g)' <= Rounds(h)' + 1
        BY <2>4, <3>2, <3>3
      <3> QED
        BY <1>2, <3>4 DEF RoundsAlike
    <2>7. CASE mask # input_mode_flag
      <3>1. row_mask' = mask
        BY <1>2, <2>7 DEF Renew
      <3>2. \A g \in input_mode_flag : Rounds(g)' = Rounds(g)
        BY <2>3, <3>1 DEF Rounds
      <3>3. \A g, h \in input_mode_flag : Rounds(g)' <= Rounds(h)' + 1
        BY <2>4, <3>2
      <3> QED
        BY <1>2, <3>3 DEF RoundsAlike
    <2> QED
      BY <2>6, <2>7
  <1> QED
    BY <1>3, <1>4

LEMMA RoundsAlikeStep ==
    ASSUME BalanceInv, RoundsAlike, [Next]_vars PROVE RoundsAlike'
  <1>1. CASE TransferRow
    BY <1>1, RoundsAlikeTransfer
  <1>2. CASE \/ \E f \in Flows : Feed(f)
             \/ RowRefused \/ PassOver \/ UNCHANGED vars
    <2>1. UNCHANGED <<input_mode_flag, transferred_row, row_mask, frm_mask>>
      BY <1>2 DEF Feed, RowRefused, PassOver, vars, modelVars, balanceVars
    <2> QED
      BY <2>1 DEF RoundsAlike, Rounds
  <1>3. CASE \E m \in Models : SwitchModel(m)
    <2>1. PICK m \in Models : SwitchModel(m)
      BY <1>3
    <2>2. m \subseteq Flows
      BY ModelsNotEmpty
    <2>3. \A f \in m : transferred_row'[f] = 0
      BY <2>1, <2>2 DEF SwitchModel, BalanceInv, TypeOK, FramesAccounted
    <2> QED
      BY <2>1, <2>3 DEF SwitchModel, RoundsAlike, Rounds
  <1> QED
    BY <1>1, <1>2, <1>3 DEF Next

(* While no input has finished its frame, none is more than two rows ahead *)
(* of another: one for its place in the round, one for a row mask that was *)
(* not empty when the frame began.  The threshold plays no part in this.   *)
THEOREM RowsInStepHolds == Spec => []RowsInStep
  <1>1. Init => RoundsAlike
    BY ModelsNotEmpty, RoundsAlikeAtRest DEF Init, Zero
  <1>2. BalanceInv /\ RoundsAlike /\ [Next]_vars => RoundsAlike'
    BY RoundsAlikeStep
  <1>3. BalanceInv /\ RoundsAlike => RowsInStep
    <2> SUFFICES ASSUME BalanceInv, RoundsAlike, frm_mask = {},
                        NEW f \in input_mode_flag, NEW g \in input_mode_flag
                 PROVE  transferred_row[f] <= transferred_row[g] + 2
      BY DEF RowsInStep
    <2>1. transferred_row[f] \in Int /\ transferred_row[g] \in Int
      BY ModelsNotEmpty DEF BalanceInv, TypeOK
    <2>2. Rounds(f) <= Rounds(g) + 1
      BY DEF RoundsAlike
    <2> QED
      BY <2>1, <2>2 DEF Rounds
  <1> QED
    BY <1>1, <1>2, <1>3, BalanceInvAlways, PTL DEF Spec
=============================================================================
