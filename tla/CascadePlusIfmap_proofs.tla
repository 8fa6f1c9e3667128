---------------------- MODULE CascadePlusIfmap_proofs ----------------------
(***************************************************************************)
(* Theorems about CascadePlusIfmap, for any number of flows, callers and   *)
(* frames and any ring size; the last part is that it implements           *)
(* FrameChannel.                                                           *)
(***************************************************************************)
EXTENDS CascadePlusIfmapChannel, TLAPS, SequenceTheorems

(* Stepping a ring pointer stays in the ring. *)
LEMMA NextEntryInSlots ==
    ASSUME NEW i \in Slots PROVE NextEntry(i) \in Slots
  BY IfmapAssumption DEF Slots, NextEntry

-----------------------------------------------------------------------------
(* What the types need besides themselves: a caller past its checks has a  *)
(* frame; in a transfer the worker is at a configured flow, has not moved  *)
(* entry_r before the last write, and writes no slot past the end of the   *)
(* buffer.                                                                 *)
CallersHaveFrames == \A u \in Users : upc[u] # "idle" => uframe[u] \in Frames

TransferInRing ==
    /\ wpc \in {"transfer", "send", "recheck"} => flow_id \in Flows
    /\ wpc = "send" =>
          /\ moved <= need
          /\ sent <= need
          /\ moved > 0 => sent = need
          /\ sent < need => entry_r[flow_id] + need <= N

TypeInv == TypeOK /\ CallersHaveFrames /\ TransferInRing

LEMMA TypeInvInit == Init => TypeInv
  <1> SUFFICES ASSUME Init PROVE TypeInv
    OBVIOUS
  <1>1. 0 \in Slots /\ 0 \in Flows /\ 0 \in 0 .. N /\ 0 \in 0 .. NF /\ 0 \in 0 .. MaxControl
        /\ 0 \in 0 .. MaxCalls
    BY IfmapAssumption DEF Slots, Flows
  <1>2. RingType
    BY <1>1 DEF Init, RingType
  <1>3. InfoType
    BY DEF Init, InfoType
  <1>4. WorkerType
    BY <1>1 DEF Init, WorkerType, WorkerPCs
  <1>5. UserType
    BY <1>1 DEF Init, UserType, UserPCs
  <1>6. ControlType
    BY <1>1 DEF Init, ControlType, ControlPCs
  <1>7. HistoryType
    <2>1. <<>> \in Seq(Frames) /\ <<>> \in Seq(Frames \cup {0})
      OBVIOUS
    <2> QED
      BY <2>1 DEF Init, HistoryType
  <1>8. CallersHaveFrames /\ TransferInRing
    BY DEF Init, CallersHaveFrames, TransferInRing
  <1> QED
    BY <1>2, <1>3, <1>4, <1>5, <1>6, <1>7, <1>8 DEF TypeInv, TypeOK

(* Every step keeps the types. *)
LEMMA TypeInvNext == TypeInv /\ [Next]_vars => TypeInv'
  <1> SUFFICES ASSUME TypeInv, [Next]_vars PROVE TypeInv'
    OBVIOUS
  <1> USE IfmapAssumption DEF TypeInv, TypeOK, RingType, InfoType, WorkerType,
          UserType, ControlType, HistoryType, CallersHaveFrames,
          TransferInRing, WorkerPCs, UserPCs, ControlPCs, ringVars, infoVars,
          workerVars, userVars, controlVars
  <1>1. CASE WorkerSleep
    BY <1>1 DEF WorkerSleep
  <1>2. CASE SpuriousWakeup
    BY <1>2 DEF SpuriousWakeup
  <1>3. CASE WorkerGo
    BY <1>3 DEF WorkerGo
  <1>4. CASE WorkerBegin
    BY <1>4 DEF WorkerBegin, Flows
  <1>5. CASE ScanFlow
    BY <1>5 DEF ScanFlow, Flows
  <1>6. CASE ScanDone
    BY <1>6 DEF ScanDone
  <1>7. CASE TransferBegin
    <2>1. read_guard' \in [Flows -> BOOLEAN]
      BY <1>7 DEF TransferBegin
    <2>2. CASE Empty(flow_id)
      BY <1>7, <2>1, <2>2 DEF TransferBegin
    <2>3. CASE ~Empty(flow_id)
      <3>1. entry_r[flow_id] \in Slots /\ entry_w[flow_id] \in Slots
        BY <1>7 DEF TransferBegin
      <3>2. Contiguous(flow_id) \in 1 .. N - entry_r[flow_id]
        BY <2>3, <3>1, IfmapAssumption DEF Contiguous, Empty, Slots
      <3>3. need' = Contiguous(flow_id)
        BY <1>7, <2>3 DEF TransferBegin
      <3>4. need' \in 1 .. N /\ entry_r[flow_id] + need' <= N
        BY ONLY <3>1, <3>2, <3>3, IfmapAssumption DEF Slots
      <3> QED
        BY <1>7, <2>1, <2>3, <3>4 DEF TransferBegin
    <2> QED
      BY <2>2, <2>3
  <1>8. CASE SendFrame
    <2>1. flow_id \in Flows /\ entry_r[flow_id] + sent \in Slots
      BY <1>8 DEF SendFrame, Slots
    <2>2. data[flow_id][entry_r[flow_id] + sent] \in Frames \cup {0}
      BY <2>1
    <2>3. wire' \in [Flows -> Seq(Frames \cup {0})]
      BY <1>8, <2>1, <2>2 DEF SendFrame
    <2>4. sent' \in 0 .. N /\ sent' <= need
      BY <1>8 DEF SendFrame
    <2> QED
      BY <1>8, <2>3, <2>4 DEF SendFrame
  <1>9. CASE MoveEntry
    <2>1. flow_id \in Flows /\ entry_r[flow_id] \in Slots
      BY <1>9 DEF MoveEntry
    <2>2. NextEntry(entry_r[flow_id]) \in Slots
      BY <2>1, NextEntryInSlots
    <2>3. entry_r' \in [Flows -> Slots]
      BY <1>9, <2>2 DEF MoveEntry
    <2>4. moved' \in 0 .. N /\ moved' <= need /\ sent = need
      BY <1>9 DEF MoveEntry, Written
    <2> QED
      BY <1>9, <2>3, <2>4 DEF MoveEntry
  <1>10. CASE TransferEnd
    BY <1>10 DEF TransferEnd, Written
  <1>11. CASE Recheck
    BY <1>11 DEF Recheck, StillEmpty, Flows
  <1>12. ASSUME NEW u \in Users, StreamLock(u) PROVE TypeInv'
    BY <1>12 DEF StreamLock, GuardFree
  <1>13. ASSUME NEW u \in Users, StreamTimeout(u) PROVE TypeInv'
    BY <1>13 DEF StreamTimeout
  <1>14. ASSUME NEW u \in Users, StreamCopy(u) PROVE TypeInv'
    BY <1>14 DEF StreamCopy
  <1>15. ASSUME NEW u \in Users, StreamPublish(u) PROVE TypeInv'
    <2>1. entry_w' \in [Flows -> Slots]
      BY <1>15, NextEntryInSlots DEF StreamPublish
    <2>2. accepted' \in [Flows -> Seq(Frames)]
      BY <1>15 DEF StreamPublish
    <2> QED
      BY <1>15, <2>1, <2>2 DEF StreamPublish
  <1>16. ASSUME NEW u \in Users, StreamSignal(u) PROVE TypeInv'
    BY <1>16 DEF StreamSignal, SignalNewData, Wake
  <1>17. ASSUME NEW u \in Users, NEW f \in Flows, NEW timed \in BOOLEAN,
               StreamCall(u, f, timed)
        PROVE  TypeInv'
    <2>1. calls + 1 \in Frames
      BY <1>17 DEF StreamCall, Frames
    <2> QED
      BY <1>17, <2>1 DEF StreamCall
  <1>18. CASE StateEntered
    <2>1. quiesced' \in BOOLEAN /\ cpc' = "idle"
      BY <1>18 DEF StateEntered
    <2> QED
      BY <1>18, <2>1 DEF StateEntered
  <1>19. CASE DestroyUnblock
    BY <1>19 DEF DestroyUnblock
  <1>20. CASE DestroySignal
    BY <1>20 DEF DestroySignal, GoToState, Wake
  <1>21. CASE DestroyJoin
    BY <1>21 DEF DestroyJoin
  <1>22. ASSUME NEW wait \in BOOLEAN, SetStreamEnable(wait) PROVE TypeInv'
    <2>1. quiesced' \in BOOLEAN
      BY <1>22 DEF SetStreamEnable
    <2>2. ControlType'
      BY <1>22, <2>1 DEF SetStreamEnable
    <2> QED
      BY <1>22, <2>2 DEF SetStreamEnable, GoToState, Wake
  <1>23. ASSUME NEW wait \in BOOLEAN, SetStreamDisable(wait) PROVE TypeInv'
    BY <1>23 DEF SetStreamDisable, GoToState, Wake
  <1>24. CASE DestroyDisable
    BY <1>24 DEF DestroyDisable
  <1>25. CASE DeviceStop
    <2>1. accepting' \in BOOLEAN
      BY <1>25 DEF DeviceStop
    <2> QED
      BY <1>25, <2>1 DEF DeviceStop
  <1>26. CASE UNCHANGED vars
    BY <1>26 DEF vars
  <1> HIDE DEF TypeInv
  <1> QED
    BY <1>1, <1>2, <1>3, <1>4, <1>5, <1>6, <1>7, <1>8, <1>9, <1>10,
       <1>11, <1>12, <1>13, <1>14, <1>15, <1>16, <1>17, <1>18, <1>19,
       <1>20, <1>21, <1>22, <1>23, <1>24, <1>25, <1>26 DEF Next, Worker,
       User, Control

(* The type invariant holds for every number of flows, callers, frames and *)
(* every ring size.                                                        *)
THEOREM TypeCorrect == Spec => []TypeOK
  <1>1. TypeInv => TypeOK
    BY DEF TypeInv
  <1> QED
    BY TypeInvInit, TypeInvNext, <1>1, PTL DEF Spec

-----------------------------------------------------------------------------
(* Arithmetic of the ring. *)

LEMMA OccupiedRange ==
    ASSUME NEW w \in Slots, NEW r \in Slots
    PROVE  /\ Occupied(w, r) \in 0 .. N - 1
           /\ Occupied(w, r) = 0 <=> w = r
           /\ NextEntry(w) = r <=> Occupied(w, r) = N - 1
  BY IfmapAssumption DEF Slots, Occupied, NextEntry

LEMMA OccupiedAfterPublish ==
    ASSUME NEW w \in Slots, NEW r \in Slots, NextEntry(w) # r
    PROVE  Occupied(NextEntry(w), r) = Occupied(w, r) + 1
  BY IfmapAssumption DEF Slots, Occupied, NextEntry

LEMMA OccupiedAfterMove ==
    ASSUME NEW w \in Slots, NEW r \in Slots, w # r
    PROVE  Occupied(w, NextEntry(r)) = Occupied(w, r) - 1
  BY IfmapAssumption DEF Slots, Occupied, NextEntry

LEMMA SlotInRing ==
    ASSUME NEW r \in Slots, NEW k \in 0 .. N - 1
    PROVE  SlotAfter(r, k) \in Slots
  BY IfmapAssumption DEF Slots, SlotAfter

LEMMA SlotOfWritePointer ==
    ASSUME NEW w \in Slots, NEW r \in Slots
    PROVE  SlotAfter(r, Occupied(w, r)) = w
  BY IfmapAssumption DEF Slots, Occupied, SlotAfter

LEMMA SlotInjective ==
    ASSUME NEW r \in Slots, NEW j \in 0 .. N - 1, NEW k \in 0 .. N - 1,
           SlotAfter(r, j) = SlotAfter(r, k)
    PROVE  j = k
  BY IfmapAssumption DEF Slots, SlotAfter

LEMMA SlotAfterMove ==
    ASSUME NEW r \in Slots, NEW k \in 0 .. N - 2
    PROVE  SlotAfter(NextEntry(r), k) = SlotAfter(r, k + 1)
  BY IfmapAssumption DEF Slots, SlotAfter, NextEntry

-----------------------------------------------------------------------------
(* The inductive invariant of the rings.  The frames of a ring are the     *)
(* last ones accepted, those of the running transfer counted although they *)
(* are written; a transfer never moves more frames than the ring holds;    *)
(* and a caller between copy and publish owns the slot at entry_w.         *)
CountsMatch ==
    \A f \in Flows :
        /\ Len(wire[f]) + Count(f) = Len(accepted[f]) + InFlight(f)
        /\ Count(f) <= Len(accepted[f])

SlotsHold ==
    \A f \in Flows : \A k \in 0 .. Count(f) - 1 :
        data[f][Slot(f, k)] = accepted[f][Len(accepted[f]) - Count(f) + k + 1]

TransferCovered ==
    /\ wpc = "transfer" => Count(flow_id) > 0
    /\ wpc = "send" => need - moved <= Count(flow_id)

CallersOwnRing ==
    \A u \in Users :
        /\ upc[u] \in {"poll", "publish"} => write_guard[uflow[u]] = u
        /\ upc[u] = "publish" =>
              /\ ~Full(uflow[u])
              /\ data[uflow[u]][entry_w[uflow[u]]] = uframe[u]

DeliveryInv ==
    /\ CountsMatch /\ SlotsHold /\ FifoDelivery
    /\ TransferCovered /\ ReadGuardReleased /\ CallersOwnRing

LEMMA DeliveryInvInit == Init => DeliveryInv
  <1> SUFFICES ASSUME Init PROVE DeliveryInv
    OBVIOUS
  <1>1. \A f \in Flows : Count(f) = 0 /\ InFlight(f) = 0
    BY DEF Init, Count, Occupied, InFlight
  <1>2. CountsMatch /\ SlotsHold /\ FifoDelivery
    BY <1>1 DEF Init, CountsMatch, SlotsHold, FifoDelivery
  <1>3. TransferCovered /\ ReadGuardReleased /\ CallersOwnRing
    BY DEF Init, TransferCovered, ReadGuardReleased, CallersOwnRing
  <1> QED
    BY <1>2, <1>3 DEF DeliveryInv

(* A step that touches no ring and no frame, and keeps the frames in       *)
(* flight, keeps what the rings hold.                                      *)
LEMMA RingsUntouched ==
    ASSUME DeliveryInv,
           UNCHANGED <<entry_w, entry_r, data, accepted, wire>>,
           \A f \in Flows : InFlight(f)' = InFlight(f)
    PROVE  CountsMatch' /\ SlotsHold' /\ FifoDelivery'
  BY DEF DeliveryInv, CountsMatch, SlotsHold, FifoDelivery, Count, Slot

(* Neither does a step of another thread disturb the callers' slots.       *)
LEMMA CallersUntouched ==
    ASSUME TypeInv, DeliveryInv,
           UNCHANGED <<entry_w, entry_r, data, write_guard, userVars>>
    PROVE  CallersOwnRing'
  BY DEF DeliveryInv, CallersOwnRing, Full, userVars

(* The steps of the worker outside a transfer. *)
LEMMA DeliveryWorkerIdle ==
    ASSUME TypeInv, DeliveryInv,
           WorkerSleep \/ SpuriousWakeup \/ WorkerGo \/ WorkerBegin
               \/ ScanFlow \/ ScanDone \/ Recheck
    PROVE  DeliveryInv'
  <1> USE DEF WorkerSleep, SpuriousWakeup, WorkerGo, WorkerBegin, ScanFlow,
          ScanDone, Recheck, ringVars
  <1>1. wpc # "send" /\ wpc' # "send"
    OBVIOUS
  <1>2. \A f \in Flows : InFlight(f)' = InFlight(f)
    BY <1>1 DEF InFlight
  <1>3. CountsMatch' /\ SlotsHold' /\ FifoDelivery'
    BY <1>2, RingsUntouched
  <1>4. CallersOwnRing'
    BY CallersUntouched
  <1>5. ReadGuardReleased'
    BY <1>1 DEF DeliveryInv, ReadGuardReleased
  <1>6. TransferCovered'
    <2>1. wpc' = "transfer" => /\ ~Empty(flow_id)
                               /\ flow_id' = flow_id
                               /\ flow_id \in Flows
      BY IfmapAssumption DEF TypeInv, TypeOK, WorkerType, Flows
    <2>2. CASE wpc' # "transfer"
      BY <1>1, <2>2 DEF TransferCovered
    <2>3. CASE wpc' = "transfer"
      <3>1. Count(flow_id) \in 0 .. N - 1 /\ Count(flow_id) # 0
        BY <2>1, <2>3, OccupiedRange DEF Count, Empty, TypeInv, TypeOK, RingType
      <3>2. Count(flow_id)' = Count(flow_id)
        BY <2>1, <2>3 DEF Count
      <3> QED
        BY <1>1, <2>1, <2>3, <3>1, <3>2, IfmapAssumption DEF TransferCovered
    <2> QED
      BY <2>2, <2>3
  <1> QED
    BY <1>3, <1>4, <1>5, <1>6 DEF DeliveryInv

LEMMA DeliveryTransferBegin ==
    ASSUME TypeInv, DeliveryInv, TransferBegin PROVE DeliveryInv'
  <1> USE DEF TransferBegin
  <1>1. flow_id \in Flows /\ Count(flow_id) \in 1 .. N - 1
    <2>1. flow_id \in Flows
      BY DEF TypeInv, TransferInRing
    <2>2. Count(flow_id) \in 0 .. N - 1
      BY <2>1, OccupiedRange DEF Count, TypeInv, TypeOK, RingType
    <2> QED
      BY <2>1, <2>2, IfmapAssumption DEF DeliveryInv, TransferCovered
  <1>2. ~Empty(flow_id)
    BY <1>1, OccupiedRange DEF Count, Empty, TypeInv, TypeOK, RingType
  <1>3. /\ wpc' = "send" /\ flow_id' = flow_id /\ sent' = 0 /\ moved' = 0
        /\ need' = Contiguous(flow_id)
    BY <1>2
  <1>4. Contiguous(flow_id) <= Count(flow_id)
    BY <1>1, IfmapAssumption
       DEF Contiguous, Count, Occupied, TypeInv, TypeOK, RingType, Slots
  <1>5. \A f \in Flows : InFlight(f)' = InFlight(f)
    BY <1>3 DEF InFlight
  <1>6. CountsMatch' /\ SlotsHold' /\ FifoDelivery'
    BY <1>5, RingsUntouched
  <1>7. CallersOwnRing'
    BY CallersUntouched
  <1>8. Count(flow_id)' = Count(flow_id)
    BY <1>3 DEF Count
  <1>9. Contiguous(flow_id) \in Int
    BY <1>1, IfmapAssumption DEF Contiguous, TypeInv, TypeOK, RingType, Slots
  <1>10. TransferCovered'
    BY <1>3, <1>4, <1>8, <1>9 DEF TransferCovered
  <1>11. ReadGuardReleased'
    BY <1>3 DEF DeliveryInv, ReadGuardReleased, TypeInv, TypeOK, RingType
  <1> QED
    BY <1>6, <1>7, <1>10, <1>11 DEF DeliveryInv

LEMMA DeliverySendFrame ==
    ASSUME TypeInv, DeliveryInv, SendFrame PROVE DeliveryInv'
  <1> DEFINE f == flow_id
             n == Len(wire[f])
             c == Count(f)
  <1>1. /\ f \in Flows /\ wpc = "send" /\ sent < need /\ need <= N /\ moved = 0
        /\ sent \in Nat /\ need \in Nat
        /\ entry_r[f] \in Slots /\ entry_w[f] \in Slots
        /\ entry_r[f] + need <= N
    BY IfmapAssumption
       DEF SendFrame, TypeInv, TypeOK, RingType, WorkerType, TransferInRing
  <1>2. wire \in [Flows -> Seq(Frames \cup {0})] /\ accepted \in [Flows -> Seq(Frames)]
    BY DEF TypeInv, TypeOK, HistoryType
  <1>3. n \in Nat /\ Len(accepted[f]) \in Nat
    BY <1>1, <1>2
  <1>4. c \in 0 .. N - 1 /\ need <= c
    BY <1>1, OccupiedRange DEF Count, DeliveryInv, TransferCovered
  <1>5. n + c = Len(accepted[f]) + sent
    <2>1. InFlight(f) = sent
      BY <1>1 DEF InFlight
    <2> QED
      BY <1>1, <2>1 DEF DeliveryInv, CountsMatch
  <1>6. Slot(f, sent) = entry_r[f] + sent
    BY <1>1, IfmapAssumption DEF Slot, SlotAfter, Slots
  <1>7. data[f][entry_r[f] + sent] = accepted[f][n + 1]
    <2>1. sent \in 0 .. c - 1
      BY <1>1, <1>4, IfmapAssumption
    <2>2. data[f][Slot(f, sent)] = accepted[f][Len(accepted[f]) - c + sent + 1]
      BY <1>1, <2>1 DEF DeliveryInv, SlotsHold
    <2>3. Len(accepted[f]) - c + sent + 1 = n + 1
      <3> HIDE DEF c, n
      <3> QED
        BY <1>1, <1>3, <1>4, <1>5, IfmapAssumption
    <2> QED
      BY <1>6, <2>2, <2>3
  <1>8. data[f][entry_r[f] + sent] \in Frames \cup {0}
    BY <1>1, IfmapAssumption DEF TypeInv, TypeOK, RingType, Slots
  <1>9. /\ wire' = [wire EXCEPT ![f] = Append(wire[f], accepted[f][n + 1])]
        /\ UNCHANGED <<entry_w, entry_r, data, accepted, wpc, flow_id, need,
                       moved, read_guard>>
        /\ sent' = sent + 1
    BY <1>7 DEF SendFrame, ringVars
  <1>10. Len(wire'[f]) = n + 1 /\ \A g \in Flows : g # f => wire'[g] = wire[g]
    BY <1>1, <1>2, <1>7, <1>8, <1>9
  <1>11. \A g \in Flows : Count(g)' = Count(g)
    BY <1>9 DEF Count
  <1>12. CountsMatch'
    <2> SUFFICES ASSUME NEW g \in Flows
                 PROVE  Len(wire'[g]) + Count(g)' = Len(accepted'[g]) + InFlight(g)'
      BY <1>9, <1>11 DEF DeliveryInv, CountsMatch
    <2>1. CASE g = f
      <3>1. InFlight(g)' = sent + 1
        BY <1>1, <1>9, <2>1 DEF InFlight
      <3>2. Count(g)' = c /\ Len(wire'[g]) = n + 1 /\ accepted'[g] = accepted[f]
        BY <1>1, <1>9, <1>10, <1>11, <2>1
      <3>3. c \in Int
        BY <1>4, IfmapAssumption
      <3>4. n + 1 + c = Len(accepted[f]) + (sent + 1)
        <4> DEFINE l == Len(accepted[f])
        <4>1. n \in Int /\ l \in Int /\ n + c = l + sent
          BY <1>3, <1>5
        <4> HIDE DEF n, c, l
        <4>2. n + 1 + c = l + (sent + 1)
          BY <1>1, <3>3, <4>1
        <4> QED
          BY <4>2 DEF l
      <3> QED
        BY <3>1, <3>2, <3>4
    <2>2. CASE g # f
      BY <1>9, <1>10, <1>11, <2>2 DEF InFlight, DeliveryInv, CountsMatch
    <2> QED
      BY <2>1, <2>2
  <1>13. SlotsHold'
    BY <1>9, <1>11 DEF DeliveryInv, SlotsHold, Slot
  <1>14. FifoDelivery'
    <2> SUFFICES ASSUME NEW g \in Flows
                 PROVE  /\ Len(wire'[g]) <= Len(accepted[g])
                        /\ \A i \in 1 .. Len(wire'[g]) : wire'[g][i] = accepted[g][i]
      BY <1>9 DEF FifoDelivery
    <2>1. CASE g = f
      <3>1. n + 1 <= Len(accepted[f])
        BY <1>1, <1>3, <1>4, <1>5, IfmapAssumption
      <3>2. \A i \in 1 .. n : wire[f][i] = accepted[f][i]
        BY <1>1 DEF DeliveryInv, FifoDelivery
      <3>3. wire'[f] = Append(wire[f], accepted[f][n + 1])
        BY <1>1, <1>2, <1>9
      <3>4. ASSUME NEW i \in 1 .. n + 1 PROVE wire'[f][i] = accepted[f][i]
        BY <1>1, <1>2, <1>3, <1>7, <1>8, <3>2, <3>3
      <3> QED
        BY <1>10, <2>1, <3>1, <3>4
    <2>2. CASE g # f
      BY <1>10, <2>2 DEF DeliveryInv, FifoDelivery
    <2> QED
      BY <2>1, <2>2
  <1>15. TransferCovered' /\ ReadGuardReleased'
    BY <1>1, <1>9, <1>11 DEF DeliveryInv, TransferCovered, ReadGuardReleased
  <1>16. CallersOwnRing'
    BY CallersUntouched DEF SendFrame, ringVars
  <1> QED
    BY <1>12, <1>13, <1>14, <1>15, <1>16 DEF DeliveryInv

LEMMA DeliveryMoveEntry ==
    ASSUME TypeInv, DeliveryInv, MoveEntry PROVE DeliveryInv'
  <1> DEFINE f == flow_id
             c == Count(f)
  <1>1. /\ f \in Flows /\ wpc = "send" /\ sent = need /\ moved < need
        /\ need \in Nat /\ moved \in Nat
        /\ entry_r[f] \in Slots /\ entry_w[f] \in Slots
        /\ entry_r \in [Flows -> Slots] /\ entry_w \in [Flows -> Slots]
    BY IfmapAssumption
       DEF MoveEntry, Written, TypeInv, TypeOK, RingType, WorkerType, TransferInRing
  <1>2. c \in 1 .. N - 1 /\ need - moved <= c
    <2>1. c \in 0 .. N - 1 /\ need - moved <= c
      BY <1>1, OccupiedRange DEF Count, DeliveryInv, TransferCovered
    <2> QED
      BY <1>1, <2>1, IfmapAssumption
  <1>3. entry_w[f] # entry_r[f]
    BY <1>1, <1>2, OccupiedRange DEF Count
  <1>4. /\ UNCHANGED <<entry_w, data, write_guard, read_guard, accepted, wire,
                       wpc, flow_id, need, sent, upc, uflow, uframe>>
        /\ moved' = moved + 1
        /\ entry_r' = [entry_r EXCEPT ![f] = NextEntry(entry_r[f])]
    BY DEF MoveEntry, userVars
  <1>5. /\ entry_r'[f] = NextEntry(entry_r[f])
        /\ \A g \in Flows : g # f => entry_r'[g] = entry_r[g]
    BY <1>1, <1>4
  <1> DEFINE C(g) == Occupied(entry_w[g], entry_r'[g])
             I(g) == IF g = f THEN sent - (moved + 1) ELSE 0
  <1>6. C(f) = c - 1
    BY <1>1, <1>3, <1>5, OccupiedAfterMove DEF Count
  <1>7. \A g \in Flows : Count(g)' = C(g) /\ InFlight(g)' = I(g)
    BY <1>1, <1>4 DEF Count, InFlight
  <1>8. CountsMatch'
    <2> SUFFICES ASSUME NEW g \in Flows
                 PROVE  /\ Len(wire[g]) + C(g) = Len(accepted[g]) + I(g)
                        /\ C(g) <= Len(accepted[g])
      BY <1>4, <1>7 DEF CountsMatch
    <2>1. /\ Len(wire[g]) + Count(g) = Len(accepted[g]) + InFlight(g)
          /\ Count(g) <= Len(accepted[g])
      BY DEF DeliveryInv, CountsMatch
    <2>2. CASE g = f
      <3> DEFINE l == Len(wire[f])
                 a == Len(accepted[f])
      <3>1. l \in Int /\ a \in Int
        BY <1>1 DEF TypeInv, TypeOK, HistoryType
      <3>2. l + c = a + (sent - moved) /\ c <= a
        BY <1>1, <2>1, <2>2 DEF InFlight
      <3>3. l + (c - 1) = a + (sent - (moved + 1)) /\ c - 1 <= a
        <4> HIDE DEF l, a, c
        <4> QED
          BY <1>1, <1>2, <3>1, <3>2, IfmapAssumption
      <3> QED
        BY <1>6, <2>2, <3>3
    <2>3. CASE g # f
      BY <1>5, <2>1, <2>3 DEF Count, InFlight
    <2> QED
      BY <2>2, <2>3
  <1>9. SlotsHold'
    <2> SUFFICES ASSUME NEW g \in Flows, NEW k \in 0 .. C(g) - 1
                 PROVE  data[g][SlotAfter(entry_r'[g], k)]
                          = accepted[g][Len(accepted[g]) - C(g) + k + 1]
      BY <1>4, <1>7 DEF SlotsHold, Slot
    <2>1. CASE g = f
      <3> DEFINE a == Len(accepted[f])
      <3>1. k \in 0 .. N - 2 /\ k + 1 \in 0 .. c - 1
        <4>1. k \in 0 .. (c - 1) - 1
          BY <1>6, <2>1
        <4> HIDE DEF c
        <4> QED
          BY <1>2, <4>1, IfmapAssumption
      <3>2. SlotAfter(entry_r'[f], k) = SlotAfter(entry_r[f], k + 1)
        BY <1>1, <1>5, <3>1, SlotAfterMove
      <3>3. data[f][Slot(f, k + 1)] = accepted[f][a - c + (k + 1) + 1]
        BY <1>1, <3>1 DEF DeliveryInv, SlotsHold
      <3>4. a - c + (k + 1) + 1 = a - (c - 1) + k + 1
        <4>1. a \in Int
          BY <1>1 DEF TypeInv, TypeOK, HistoryType
        <4> HIDE DEF a, c
        <4> QED
          BY <1>2, <3>1, <4>1, IfmapAssumption
      <3>5. data[f][SlotAfter(entry_r'[f], k)] = accepted[f][a - (c - 1) + k + 1]
        BY <3>2, <3>3, <3>4 DEF Slot
      <3> QED
        BY <1>6, <2>1, <3>5
    <2>2. CASE g # f
      BY <1>5, <2>2 DEF DeliveryInv, SlotsHold, Slot, Count
    <2> QED
      BY <2>1, <2>2
  <1>10. FifoDelivery'
    BY <1>4 DEF DeliveryInv, FifoDelivery
  <1>11. TransferCovered' /\ ReadGuardReleased'
    <2>1. need - (moved + 1) <= c - 1
      <3> HIDE DEF c
      <3> QED
        BY <1>1, <1>2, IfmapAssumption
    <2> QED
      BY <1>1, <1>4, <1>6, <1>7, <2>1
         DEF DeliveryInv, TransferCovered, ReadGuardReleased
  <1>12. CallersOwnRing'
    <2> SUFFICES ASSUME NEW u \in Users, upc[u] = "publish"
                 PROVE  NextEntry(entry_w[uflow[u]]) # entry_r'[uflow[u]]
      BY <1>4 DEF DeliveryInv, CallersOwnRing, Full
    <2>1. uflow[u] \in Flows
      BY DEF TypeInv, TypeOK, UserType
    <2>2. CASE uflow[u] = f
      <3>1. entry_r'[f] \in Slots
        BY <1>1, <1>5, NextEntryInSlots
      <3>3. c - 1 # N - 1
        BY <1>2, IfmapAssumption
      <3> QED
        BY <1>1, <1>6, <2>2, <3>1, <3>3, OccupiedRange
    <2>3. CASE uflow[u] # f
      BY <1>5, <2>1, <2>3 DEF DeliveryInv, CallersOwnRing, Full
    <2> QED
      BY <2>2, <2>3
  <1> QED
    BY <1>8, <1>9, <1>10, <1>11, <1>12 DEF DeliveryInv

LEMMA DeliveryTransferEnd ==
    ASSUME TypeInv, DeliveryInv, TransferEnd PROVE DeliveryInv'
  <1>1. /\ wpc = "send" /\ wpc' = "recheck" /\ sent = moved
        /\ moved \in Int /\ flow_id \in Flows
    BY IfmapAssumption
       DEF TransferEnd, Written, TypeInv, TypeOK, WorkerType, TransferInRing
  <1>2. UNCHANGED <<entry_w, entry_r, data, write_guard, accepted, wire, userVars>>
    BY DEF TransferEnd
  <1>3. \A f \in Flows : InFlight(f) = 0 /\ InFlight(f)' = 0
    BY <1>1 DEF InFlight
  <1>4. CountsMatch' /\ SlotsHold' /\ FifoDelivery'
    BY <1>2, <1>3, RingsUntouched
  <1>5. CallersOwnRing'
    BY <1>2, CallersUntouched
  <1>6. TransferCovered' /\ ReadGuardReleased'
    BY <1>1 DEF TransferEnd, DeliveryInv, TransferCovered, ReadGuardReleased,
                TypeInv, TypeOK, RingType
  <1> QED
    BY <1>4, <1>5, <1>6 DEF DeliveryInv

(* The control thread, the device and a caller outside its critical        *)
(* section touch neither rings nor frames; a signal moves the worker only  *)
(* out of its sleep.                                                       *)
LEMMA DeliveryUntouched ==
    ASSUME TypeInv, DeliveryInv,
           UNCHANGED <<entry_w, entry_r, data, read_guard, accepted, wire,
                       flow_id, need, sent, moved>>,
           wpc' = wpc \/ (wpc = "asleep" /\ wpc' = "gate"),
           CallersOwnRing'
    PROVE  DeliveryInv'
  <1>1. \A f \in Flows : InFlight(f)' = InFlight(f)
    BY DEF InFlight
  <1>2. CountsMatch' /\ SlotsHold' /\ FifoDelivery'
    BY <1>1, RingsUntouched
  <1>3. TransferCovered' /\ ReadGuardReleased'
    BY DEF DeliveryInv, TransferCovered, ReadGuardReleased, Count
  <1> QED
    BY <1>2, <1>3 DEF DeliveryInv

(* write_guard keeps the callers of one flow apart. *)
LEMMA OneCallerPerRing ==
    ASSUME DeliveryInv, NEW u \in Users, NEW v \in Users,
           upc[u] \in {"poll", "publish"}, upc[v] \in {"poll", "publish"},
           uflow[u] = uflow[v]
    PROVE  u = v
  BY DEF DeliveryInv, CallersOwnRing

LEMMA DeliveryStreamLock ==
    ASSUME TypeInv, DeliveryInv, NEW u \in Users, StreamLock(u)
    PROVE  DeliveryInv'
  <1>1. CallersOwnRing'
    <2>1. \A v \in Users : uflow[v] \in Flows /\ v # NoUser
      BY IfmapAssumption DEF TypeInv, TypeOK, UserType
    <2>2. write_guard \in [Flows -> Users \cup {NoUser}] /\ upc \in [Users -> UserPCs]
      BY DEF TypeInv, TypeOK, RingType, UserType
    <2> QED
      BY <2>1, <2>2 DEF StreamLock, GuardFree, DeliveryInv, CallersOwnRing, Full
  <1> QED
    BY <1>1, DeliveryUntouched DEF StreamLock, workerVars

LEMMA DeliveryStreamTimeout ==
    ASSUME TypeInv, DeliveryInv, NEW u \in Users, StreamTimeout(u)
    PROVE  DeliveryInv'
  <1>1. CallersOwnRing'
    <2>1. \A v \in Users : uflow[v] \in Flows
      BY DEF TypeInv, TypeOK, UserType
    <2>2. write_guard \in [Flows -> Users \cup {NoUser}] /\ upc \in [Users -> UserPCs]
      BY DEF TypeInv, TypeOK, RingType, UserType
    <2> QED
      BY <2>1, <2>2 DEF StreamTimeout, DeliveryInv, CallersOwnRing, Full
  <1> QED
    BY <1>1, DeliveryUntouched DEF StreamTimeout, workerVars

LEMMA DeliveryStreamCall ==
    ASSUME TypeInv, DeliveryInv, NEW u \in Users, NEW f \in Flows,
           NEW timed \in BOOLEAN, StreamCall(u, f, timed)
    PROVE  DeliveryInv'
  <1>1. CallersOwnRing'
    BY DEF StreamCall, ringVars, DeliveryInv, CallersOwnRing, Full, TypeInv,
           TypeOK, UserType
  <1> QED
    BY <1>1, DeliveryUntouched DEF StreamCall, ringVars, workerVars

LEMMA DeliveryStreamSignal ==
    ASSUME TypeInv, DeliveryInv, NEW u \in Users, StreamSignal(u)
    PROVE  DeliveryInv'
  <1>1. CallersOwnRing'
    BY DEF StreamSignal, ringVars, DeliveryInv, CallersOwnRing, Full, TypeInv,
           TypeOK, UserType
  <1> QED
    BY <1>1, DeliveryUntouched DEF StreamSignal, SignalNewData, Wake, ringVars

LEMMA DeliveryStreamCopy ==
    ASSUME TypeInv, DeliveryInv, NEW u \in Users, StreamCopy(u)
    PROVE  DeliveryInv'
  <1> DEFINE f == uflow[u]
             w == entry_w[f]
  <1>1. f \in Flows /\ upc[u] = "poll" /\ ~Full(f) /\ w \in Slots
    BY DEF StreamCopy, TypeInv, TypeOK, UserType, RingType
  <1>2. /\ UNCHANGED <<entry_w, entry_r, write_guard, read_guard, accepted,
                       wire, wpc, flow_id, need, sent, moved, uflow, uframe>>
        /\ data' = [data EXCEPT ![f] = [data[f] EXCEPT ![w] = uframe[u]]]
        /\ upc' = [upc EXCEPT ![u] = "publish"]
    BY DEF StreamCopy, workerVars
  <1>3. /\ data'[f][w] = uframe[u]
        /\ \A i \in Slots : i # w => data'[f][i] = data[f][i]
        /\ \A g \in Flows : g # f => data'[g] = data[g]
    <2>1. data \in [Flows -> [Slots -> Frames \cup {0}]]
      BY DEF TypeInv, TypeOK, RingType
    <2> QED
      BY <1>1, <1>2, <2>1
  <1>4. \A g \in Flows : Count(g)' = Count(g) /\ InFlight(g)' = InFlight(g)
    BY <1>2 DEF Count, InFlight
  <1>5. CountsMatch' /\ FifoDelivery'
    BY <1>2, <1>4 DEF DeliveryInv, CountsMatch, FifoDelivery
  <1>6. SlotsHold'
    <2> SUFFICES ASSUME NEW g \in Flows, NEW k \in 0 .. Count(g) - 1
                 PROVE  data'[g][Slot(g, k)]
                          = accepted[g][Len(accepted[g]) - Count(g) + k + 1]
      BY <1>2, <1>4 DEF SlotsHold, Slot
    <2>1. data[g][Slot(g, k)] = accepted[g][Len(accepted[g]) - Count(g) + k + 1]
      BY DEF DeliveryInv, SlotsHold
    <2>2. CASE g = f
      <3>1. entry_r[f] \in Slots /\ Count(f) \in 0 .. N - 1
        BY <1>1, OccupiedRange DEF Count, TypeInv, TypeOK, RingType
      <3>2. k \in 0 .. N - 1 /\ k # Count(f)
        BY <2>2, <3>1, IfmapAssumption
      <3>3. SlotAfter(entry_r[f], Count(f)) = w
        BY <1>1, <3>1, SlotOfWritePointer DEF Count
      <3>4. Slot(f, k) \in Slots /\ Slot(f, k) # w
        BY <3>1, <3>2, <3>3, SlotInRing, SlotInjective DEF Slot
      <3> QED
        BY <1>3, <2>1, <2>2, <3>4
    <2>3. CASE g # f
      BY <1>3, <2>1, <2>3
    <2> QED
      BY <2>2, <2>3
  <1>7. TransferCovered' /\ ReadGuardReleased'
    BY <1>2 DEF DeliveryInv, TransferCovered, ReadGuardReleased, Count
  <1>8. CallersOwnRing'
    <2> SUFFICES ASSUME NEW v \in Users
                 PROVE  /\ upc'[v] \in {"poll", "publish"} => write_guard[uflow[v]] = v
                        /\ upc'[v] = "publish" =>
                              /\ ~Full(uflow[v])
                              /\ data'[uflow[v]][entry_w[uflow[v]]] = uframe[v]
      BY <1>2 DEF CallersOwnRing, Full
    <2>1. uflow[v] \in Flows /\ upc \in [Users -> UserPCs]
      BY DEF TypeInv, TypeOK, UserType
    <2>2. CASE v = u
      BY <1>1, <1>2, <1>3, <2>1, <2>2 DEF DeliveryInv, CallersOwnRing
    <2>3. CASE v # u
      <3>1. upc'[v] = upc[v]
        BY <1>2, <2>1, <2>3
      <3>2. upc[v] = "publish" => uflow[v] # f
        BY <1>1, <2>3, OneCallerPerRing
      <3> QED
        BY <1>3, <2>1, <3>1, <3>2 DEF DeliveryInv, CallersOwnRing
    <2> QED
      BY <2>2, <2>3
  <1> QED
    BY <1>5, <1>6, <1>7, <1>8 DEF DeliveryInv

LEMMA DeliveryStreamPublish ==
    ASSUME TypeInv, DeliveryInv, NEW u \in Users, StreamPublish(u)
    PROVE  DeliveryInv'
  <1> DEFINE f == uflow[u]
             x == uframe[u]
             c == Count(f)
             a == Len(accepted[f])
             C(g) == Occupied(entry_w'[g], entry_r[g])
  <1>1. /\ f \in Flows /\ upc[u] = "publish" /\ ~Full(f) /\ x \in Frames
        /\ entry_w[f] \in Slots /\ entry_r[f] \in Slots
        /\ data[f][entry_w[f]] = x
    BY DEF StreamPublish, TypeInv, TypeOK, UserType, RingType,
           CallersHaveFrames, DeliveryInv, CallersOwnRing
  <1>2. /\ UNCHANGED <<entry_r, data, read_guard, wire, wpc, flow_id, need,
                       sent, moved, uflow, uframe>>
        /\ entry_w' = [entry_w EXCEPT ![f] = NextEntry(entry_w[f])]
        /\ write_guard' = [write_guard EXCEPT ![f] = NoUser]
        /\ accepted' = [accepted EXCEPT ![f] = Append(accepted[f], x)]
        /\ upc' = [upc EXCEPT ![u] = "signal"]
    BY DEF StreamPublish, workerVars
  <1>3. /\ entry_w'[f] = NextEntry(entry_w[f])
        /\ \A g \in Flows : g # f => entry_w'[g] = entry_w[g]
    BY <1>1, <1>2 DEF TypeInv, TypeOK, RingType
  <1>4. accepted \in [Flows -> Seq(Frames)] /\ a \in Nat
    BY <1>1 DEF TypeInv, TypeOK, HistoryType
  <1>5. /\ Len(accepted'[f]) = a + 1
        /\ accepted'[f][a + 1] = x
        /\ \A i \in 1 .. a : accepted'[f][i] = accepted[f][i]
        /\ \A g \in Flows : g # f => accepted'[g] = accepted[g]
    BY <1>1, <1>2, <1>4
  <1>6. c \in 0 .. N - 1 /\ c # N - 1 /\ C(f) = c + 1
    BY <1>1, <1>3, OccupiedRange, OccupiedAfterPublish DEF Count, Full
  <1>7. \A g \in Flows : Count(g)' = C(g) /\ InFlight(g)' = InFlight(g)
    BY <1>2 DEF Count, InFlight
  <1>8. c <= a
    BY <1>1 DEF DeliveryInv, CountsMatch
  <1>9. CountsMatch'
    <2> SUFFICES ASSUME NEW g \in Flows
                 PROVE  /\ Len(wire[g]) + C(g) = Len(accepted'[g]) + InFlight(g)
                        /\ C(g) <= Len(accepted'[g])
      BY <1>2, <1>7 DEF CountsMatch
    <2>1. Len(wire[g]) + Count(g) = Len(accepted[g]) + InFlight(g) /\ Count(g) <= Len(accepted[g])
      BY DEF DeliveryInv, CountsMatch
    <2>2. CASE g = f
      <3> DEFINE l == Len(wire[f])
                 i == InFlight(f)
      <3>1. l \in Int /\ i \in Int /\ c \in Int
        BY <1>1, <1>6, IfmapAssumption
           DEF InFlight, TypeInv, TypeOK, HistoryType, WorkerType
      <3>2. l + c = a + i
        BY <2>1, <2>2
      <3>3. l + (c + 1) = (a + 1) + i /\ c + 1 <= a + 1
        <4> HIDE DEF l, i, c, a
        <4> QED
          BY <1>4, <1>8, <3>1, <3>2
      <3> QED
        BY <1>5, <1>6, <2>2, <3>3
    <2>3. CASE g # f
      BY <1>3, <1>5, <2>1, <2>3 DEF Count
    <2> QED
      BY <2>2, <2>3
  <1>10. SlotsHold'
    <2> SUFFICES ASSUME NEW g \in Flows, NEW k \in 0 .. C(g) - 1
                 PROVE  data[g][SlotAfter(entry_r[g], k)]
                          = accepted'[g][Len(accepted'[g]) - C(g) + k + 1]
      BY <1>2, <1>7 DEF SlotsHold, Slot
    <2>1. CASE g = f
      <3>1. (a + 1) - (c + 1) + k + 1 = a - c + k + 1 /\ k \in 0 .. c
        <4>1. k \in 0 .. (c + 1) - 1
          BY <1>6, <2>1
        <4> HIDE DEF c, a
        <4> QED
          BY <1>4, <1>6, <4>1, IfmapAssumption
      <3>a. Len(accepted'[g]) - C(g) + k + 1 = a - c + k + 1
        <4>1. Len(accepted'[g]) = a + 1 /\ C(g) = c + 1
          BY <1>5, <1>6, <2>1
        <4> HIDE DEF c, a
        <4> QED
          BY <3>1, <4>1
      <3>2. CASE k = c
        <4>1. data[f][SlotAfter(entry_r[f], k)] = x
          BY <1>1, <3>2, SlotOfWritePointer DEF Count
        <4>2. a - c + k + 1 = a + 1
          <5> HIDE DEF c, a
          <5> QED
            BY <1>4, <1>6, <3>2, IfmapAssumption
        <4> QED
          BY <1>5, <2>1, <3>a, <4>1, <4>2
      <3>3. CASE k # c
        <4>1. k \in 0 .. c - 1 /\ a - c + k + 1 \in 1 .. a
          <5> HIDE DEF c, a
          <5> QED
            BY <1>4, <1>6, <1>8, <3>1, <3>3, IfmapAssumption
        <4>2. data[f][SlotAfter(entry_r[f], k)] = accepted[f][a - c + k + 1]
          BY <1>1, <4>1 DEF DeliveryInv, SlotsHold, Slot
        <4> QED
          BY <1>5, <2>1, <3>a, <4>1, <4>2
      <3> QED
        BY <3>2, <3>3
    <2>2. CASE g # f
      BY <1>3, <1>5, <2>2 DEF DeliveryInv, SlotsHold, Slot, Count
    <2> QED
      BY <2>1, <2>2
  <1>11. FifoDelivery'
    <2> SUFFICES ASSUME NEW g \in Flows
                 PROVE  /\ Len(wire[g]) <= Len(accepted'[g])
                        /\ \A i \in 1 .. Len(wire[g]) : wire[g][i] = accepted'[g][i]
      BY <1>2 DEF FifoDelivery
    <2>1. /\ Len(wire[g]) <= Len(accepted[g]) /\ Len(wire[g]) \in Nat
          /\ \A i \in 1 .. Len(wire[g]) : wire[g][i] = accepted[g][i]
      BY DEF DeliveryInv, FifoDelivery, TypeInv, TypeOK, HistoryType
    <2>2. CASE g = f
      BY <1>4, <1>5, <2>1, <2>2
    <2>3. CASE g # f
      BY <1>5, <2>1, <2>3
    <2> QED
      BY <2>2, <2>3
  <1>12. TransferCovered' /\ ReadGuardReleased'
    <2>1. \A g \in Flows : Count(g) \in Int /\ C(g) \in Int /\ Count(g) <= C(g)
      <3> SUFFICES ASSUME NEW g \in Flows
                   PROVE  Count(g) \in Int /\ C(g) \in Int /\ Count(g) <= C(g)
        OBVIOUS
      <3>1. CASE g = f
        BY <1>6, <3>1, IfmapAssumption
      <3>2. CASE g # f
        BY <1>3, <3>2, OccupiedRange, IfmapAssumption
           DEF Count, TypeInv, TypeOK, RingType
      <3> QED
        BY <3>1, <3>2
    <2>2. wpc \in {"transfer", "send"} => flow_id \in Flows
      BY DEF TypeInv, TransferInRing
    <2>3. need \in Int /\ moved \in Int
      BY IfmapAssumption DEF TypeInv, TypeOK, WorkerType
    <2> HIDE DEF C
    <2> QED
      BY <1>2, <1>7, <2>1, <2>2, <2>3
         DEF DeliveryInv, TransferCovered, ReadGuardReleased
  <1>13. CallersOwnRing'
    <2> SUFFICES ASSUME NEW v \in Users
                 PROVE  /\ upc'[v] \in {"poll", "publish"} => write_guard'[uflow[v]] = v
                        /\ upc'[v] = "publish" =>
                              /\ NextEntry(entry_w'[uflow[v]]) # entry_r[uflow[v]]
                              /\ data[uflow[v]][entry_w'[uflow[v]]] = uframe[v]
      BY <1>2 DEF CallersOwnRing, Full
    <2>1. /\ uflow[v] \in Flows /\ upc \in [Users -> UserPCs]
          /\ write_guard \in [Flows -> Users \cup {NoUser}]
      BY DEF TypeInv, TypeOK, UserType, RingType
    <2>2. CASE v = u
      BY <1>2, <2>1, <2>2
    <2>3. CASE v # u
      <3>1. upc'[v] = upc[v]
        BY <1>2, <2>1, <2>3
      <3>2. upc[v] \in {"poll", "publish"} => uflow[v] # f
        BY <1>1, <2>3, OneCallerPerRing
      <3> QED
        BY <1>2, <1>3, <2>1, <3>1, <3>2 DEF DeliveryInv, CallersOwnRing, Full
    <2> QED
      BY <2>2, <2>3
  <1> QED
    BY <1>9, <1>10, <1>11, <1>12, <1>13 DEF DeliveryInv

(* Every step keeps the invariant. *)
LEMMA DeliveryNext == TypeInv /\ DeliveryInv /\ [Next]_vars => DeliveryInv'
  <1> SUFFICES ASSUME TypeInv, DeliveryInv, [Next]_vars PROVE DeliveryInv'
    OBVIOUS
  <1>1. CASE Worker
    BY <1>1, DeliveryWorkerIdle, DeliveryTransferBegin, DeliverySendFrame,
       DeliveryMoveEntry, DeliveryTransferEnd DEF Worker
  <1>2. CASE SpuriousWakeup
    BY <1>2, DeliveryWorkerIdle
  <1>3. ASSUME NEW u \in Users, User(u) PROVE DeliveryInv'
    BY <1>3, DeliveryStreamLock, DeliveryStreamTimeout, DeliveryStreamCopy,
       DeliveryStreamPublish, DeliveryStreamSignal DEF User
  <1>4. ASSUME NEW u \in Users, NEW f \in Flows, NEW timed \in BOOLEAN,
               StreamCall(u, f, timed)
        PROVE  DeliveryInv'
    BY <1>4, DeliveryStreamCall
  <1>5. CASE \/ Control \/ DestroyDisable \/ DeviceStop \/ UNCHANGED vars
             \/ \E wait \in BOOLEAN : SetStreamEnable(wait) \/ SetStreamDisable(wait)
    <2>1. /\ UNCHANGED <<ringVars, userVars, accepted, wire, flow_id, need, sent, moved>>
          /\ wpc' = wpc \/ (wpc = "asleep" /\ wpc' = "gate")
      BY <1>5 DEF Control, StateEntered, DestroyUnblock, DestroySignal,
         DestroyJoin, DestroyDisable, DeviceStop, SetStreamEnable,
         SetStreamDisable, GoToState, Wake, vars, workerVars
    <2>2. CallersOwnRing'
      BY <2>1, CallersUntouched DEF ringVars
    <2> QED
      BY <2>1, <2>2, DeliveryUntouched DEF ringVars
  <1> QED
    BY <1>1, <1>2, <1>3, <1>4, <1>5 DEF Next

LEMMA InvariantsHold == Spec => [](TypeInv /\ DeliveryInv)
  <1>1. Init => TypeInv /\ DeliveryInv
    BY TypeInvInit, DeliveryInvInit
  <1>2. TypeInv /\ DeliveryInv /\ [Next]_vars => (TypeInv /\ DeliveryInv)'
    BY TypeInvNext, DeliveryNext
  <1> QED
    BY <1>1, <1>2, PTL DEF Spec

(* What the device receives on a flow is a prefix of what stream_ifmap     *)
(* accepted on it: the ring shared by writer and worker without a common   *)
(* lock neither loses, repeats, reorders nor overwrites a frame.           *)
THEOREM FifoDeliveryHolds == Spec => []FifoDelivery
  <1>1. DeliveryInv => FifoDelivery
    BY DEF DeliveryInv
  <1> QED
    BY InvariantsHold, <1>1, PTL

(* The worker holds read_guard only inside a transfer: the branch that     *)
(* returns with it locked is never reached.                                *)
THEOREM ReadGuardReleasedHolds == Spec => []ReadGuardReleased
  <1>1. DeliveryInv => ReadGuardReleased
    BY DEF DeliveryInv
  <1> QED
    BY InvariantsHold, <1>1, PTL

(* In a transfer no slot is given back before its frame is written. *)
LEMMA InFlightPositive ==
    ASSUME TypeInv, NEW f \in Flows PROVE InFlight(f) \in Nat
  BY IfmapAssumption DEF TypeInv, TypeOK, WorkerType, TransferInRing, InFlight

(* A slot comes back to the callers only when the device has its frame. *)
THEOREM SlotFreedAfterWriteHolds == Spec => []SlotFreedAfterWrite
  <1>1. TypeInv /\ DeliveryInv => SlotFreedAfterWrite
    <2> SUFFICES ASSUME TypeInv, DeliveryInv, NEW f \in Flows
                 PROVE  Len(wire[f]) + Count(f) >= Len(accepted[f])
      BY DEF SlotFreedAfterWrite
    <2> DEFINE a == Len(accepted[f])
               b == Len(wire[f]) + Count(f)
               i == InFlight(f)
    <2>1. b = a + i /\ i \in Nat /\ a \in Nat
      BY InFlightPositive DEF DeliveryInv, CountsMatch, TypeInv, TypeOK, HistoryType
    <2> HIDE DEF a, b, i
    <2>2. b >= a
      BY <2>1
    <2> QED
      BY <2>2 DEF a, b
  <1> QED
    BY InvariantsHold, <1>1, PTL

(* What the slots hold, by place in the accepted frames. *)
LEMMA UnsentIntact == TypeInv /\ DeliveryInv => UnsentFramesIntact
  <1> SUFFICES ASSUME TypeInv, DeliveryInv, NEW f \in Flows,
                      NEW k \in Len(wire[f]) + 1 .. Len(accepted[f])
               PROVE  data[f][Slot(f, InFlight(f) + k - Len(wire[f]) - 1)]
                        = accepted[f][k]
    BY DEF UnsentFramesIntact
  <1> DEFINE a == Len(accepted[f])
             l == Len(wire[f])
             c == Count(f)
             i == InFlight(f)
             j == i + k - l - 1
  <1>1. /\ a \in Nat /\ l \in Nat /\ i \in Nat /\ c \in Nat
        /\ l + c = a + i /\ k \in l + 1 .. a
    <2>1. c \in 0 .. N - 1
      BY OccupiedRange DEF Count, TypeInv, TypeOK, RingType
    <2> QED
      BY <2>1, InFlightPositive, IfmapAssumption
         DEF DeliveryInv, CountsMatch, TypeInv, TypeOK, HistoryType
  <1>2. j \in 0 .. c - 1 /\ a - c + j + 1 = k
    <2> HIDE DEF a, l, c, i
    <2> QED
      BY <1>1
  <1> HIDE DEF j
  <1>3. data[f][Slot(f, j)] = accepted[f][a - c + j + 1]
    BY <1>2 DEF DeliveryInv, SlotsHold
  <1> QED
    BY <1>2, <1>3 DEF j

(* A frame accepted and not yet on the wire lies untouched in its slot. *)
THEOREM UnsentFramesIntactHolds == Spec => []UnsentFramesIntact
  BY InvariantsHold, UnsentIntact, PTL

-----------------------------------------------------------------------------
(* What the hand-over to a sleeping worker rests on.  A frame in a ring is *)
(* seen by the worker before it can sleep: blocking is clear, or a caller  *)
(* is about to clear it, or the round that is running still comes to the   *)
(* flow or has found that it must not sleep.                               *)
WillSee(f) ==
    \/ wpc \in {"begin", "exit"}
    \/ /\ wpc \in {"scan", "transfer", "send", "recheck"}
       /\ f >= flow_id \/ ~all_empty
    \/ wpc \in {"gate", "asleep"} /\ ~all_empty

FramesSeen ==
    \A f \in Flows :
        \/ Empty(f)
        \/ blocking = 0
        \/ \E u \in Users : upc[u] = "signal"
        \/ WillSee(f)

SleepsForData ==
    wpc = "asleep" /\ enable = 1 /\ state_next = "running" =>
        all_empty /\ blocking = 1

WakeInv == FramesSeen /\ SleepsForData

(* The steps of the worker. *)
LEMMA WakeWorker ==
    ASSUME TypeInv, WakeInv, Worker \/ SpuriousWakeup PROVE WakeInv'
  <1>1. FramesSeen'
    <2> SUFFICES ASSUME NEW f \in Flows, ~Empty(f)', blocking' # 0,
                        ~\E u \in Users : upc'[u] = "signal"
                 PROVE  WillSee(f)'
      BY DEF FramesSeen
    <2>1. UNCHANGED <<entry_w, upc>>
      BY DEF Worker, WorkerSleep, WorkerGo, WorkerBegin, ScanFlow, ScanDone,
         TransferBegin, SendFrame, MoveEntry, TransferEnd, Recheck,
         SpuriousWakeup, ringVars, userVars
    <2>2. ASSUME UNCHANGED <<entry_r, blocking>> PROVE ~Empty(f) /\ WillSee(f)
      BY <2>1, <2>2 DEF WakeInv, FramesSeen, Empty
    <2>3. flow_id \in 0 .. NF /\ f \in 0 .. NF - 1 /\ NF \in Nat
      BY IfmapAssumption DEF TypeInv, TypeOK, WorkerType, Flows
    <2>4. CASE WorkerSleep \/ SpuriousWakeup
      BY <2>2, <2>4 DEF WorkerSleep, SpuriousWakeup, WillSee, ringVars, infoVars
    <2>5. CASE WorkerGo
      BY <2>5 DEF WorkerGo, WillSee
    <2>6. CASE WorkerBegin
      BY <2>3, <2>6 DEF WorkerBegin, WillSee
    <2>7. CASE ScanFlow
      <3>1. ~Empty(f) /\ WillSee(f) /\ wpc = "scan"
        BY <2>2, <2>7 DEF ScanFlow, ringVars, infoVars
      <3>2. f >= flow_id \/ ~all_empty
        BY <3>1 DEF WillSee
      <3>3. CASE Empty(flow_id)
        <4>1. /\ flow_id' = flow_id + 1 /\ wpc' = "scan" /\ all_empty' = all_empty
              /\ f # flow_id
          BY <2>7, <3>1, <3>3 DEF ScanFlow
        <4> QED
          BY <2>3, <3>2, <4>1 DEF WillSee
      <3>4. CASE ~Empty(flow_id)
        BY <2>7, <3>2, <3>4 DEF ScanFlow, WillSee
      <3> QED
        BY <3>3, <3>4
    <2>8. CASE ScanDone
      <3>1. WillSee(f) /\ wpc = "scan" /\ flow_id = NF
        BY <2>2, <2>8 DEF ScanDone, ringVars, infoVars
      <3>2. ~all_empty
        BY <2>3, <3>1 DEF WillSee
      <3> QED
        BY <2>8, <3>2 DEF ScanDone, WillSee
    <2>9. CASE TransferBegin \/ SendFrame \/ TransferEnd
      <3>1. /\ UNCHANGED <<entry_r, blocking, flow_id, all_empty>>
            /\ wpc \in {"transfer", "send"} /\ wpc' \in {"send", "recheck"}
        BY <2>9 DEF TransferBegin, SendFrame, TransferEnd, ringVars, infoVars
      <3> QED
        BY <2>2, <3>1 DEF WillSee
    <2>10. CASE MoveEntry
      <3>1. /\ wpc = "send" /\ wpc' = "send" /\ UNCHANGED <<flow_id, all_empty, blocking>>
            /\ flow_id \in Flows
            /\ entry_r' = [entry_r EXCEPT ![flow_id] = NextEntry(entry_r[flow_id])]
        BY <2>10 DEF MoveEntry, infoVars, TypeInv, TransferInRing
      <3>2. CASE f = flow_id
        BY <2>3, <3>1, <3>2 DEF WillSee
      <3>3. CASE f # flow_id
        <4>1. entry_r'[f] = entry_r[f]
          BY <3>1, <3>3 DEF TypeInv, TypeOK, RingType
        <4>2. WillSee(f)
          BY <2>1, <3>1, <4>1 DEF WakeInv, FramesSeen, Empty
        <4> QED
          BY <3>1, <4>2 DEF WillSee
      <3> QED
        BY <3>2, <3>3
    <2>11. CASE Recheck
      <3>1. /\ wpc = "recheck" /\ wpc' = "scan" /\ flow_id' = flow_id + 1
            /\ all_empty' = (all_empty /\ Empty(flow_id))
        BY <2>11 DEF Recheck, StillEmpty
      <3>2. ~Empty(f) /\ WillSee(f)
        BY <2>2, <2>11 DEF Recheck, ringVars, infoVars
      <3>3. f >= flow_id \/ ~all_empty
        BY <3>1, <3>2 DEF WillSee
      <3>4. CASE f = flow_id
        BY <3>1, <3>2, <3>4 DEF WillSee
      <3>5. CASE ~all_empty
        BY <3>1, <3>5 DEF WillSee
      <3>6. CASE f # flow_id /\ all_empty
        <4>1. f >= flow_id + 1
          BY <2>3, <3>3, <3>6
        <4> QED
          BY <3>1, <4>1 DEF WillSee
      <3> QED
        BY <3>4, <3>5, <3>6
    <2> QED
      BY <2>4, <2>5, <2>6, <2>7, <2>8, <2>9, <2>10, <2>11 DEF Worker
  <1>2. SleepsForData'
    <2> SUFFICES ASSUME wpc' = "asleep", enable' = 1, state_next' = "running"
                 PROVE  all_empty' /\ blocking' = 1
      BY DEF SleepsForData
    <2>1. WorkerSleep
      BY DEF Worker, WorkerGo, WorkerBegin, ScanFlow, ScanDone, TransferBegin,
         SendFrame, MoveEntry, TransferEnd, Recheck, SpuriousWakeup
    <2> QED
      BY <2>1 DEF WorkerSleep, MustWait, IsPending, IsBlocking
  <1> QED
    BY <1>1, <1>2 DEF WakeInv

(* A caller signals after it moved entry_w. *)
LEMMA WakeUser ==
    ASSUME TypeInv, WakeInv, NEW u \in Users, User(u) PROVE WakeInv'
  <1>1. UNCHANGED <<entry_r, enable, state_next, flow_id, all_empty>>
    BY DEF User, StreamLock, StreamTimeout, StreamCopy, StreamPublish,
       StreamSignal, ringVars, infoVars, workerVars
  <1>2. upc \in [Users -> UserPCs]
    BY DEF TypeInv, TypeOK, UserType
  <1>3. CASE StreamSignal(u)
    <2>1. blocking' = 0 /\ wpc' # "asleep"
      BY <1>3 DEF StreamSignal, SignalNewData, Wake
    <2> QED
      BY <2>1 DEF WakeInv, FramesSeen, SleepsForData
  <1>4. CASE StreamPublish(u)
    <2>1. upc'[u] = "signal" /\ UNCHANGED <<wpc, blocking>>
      BY <1>2, <1>4 DEF StreamPublish, infoVars, workerVars
    <2> QED
      BY <1>1, <2>1 DEF WakeInv, FramesSeen, SleepsForData
  <1>5. CASE StreamLock(u) \/ StreamTimeout(u) \/ StreamCopy(u)
    <2>1. /\ UNCHANGED <<entry_w, wpc, blocking>>
          /\ upc[u] # "signal" /\ \A v \in Users : v # u => upc'[v] = upc[v]
      BY <1>2, <1>5 DEF StreamLock, StreamTimeout, StreamCopy, infoVars, workerVars
    <2>2. (\E v \in Users : upc[v] = "signal") => \E v \in Users : upc'[v] = "signal"
      BY <2>1
    <2>3. \A f \in Flows : (Empty(f)' <=> Empty(f)) /\ (WillSee(f)' <=> WillSee(f))
      BY <1>1, <2>1 DEF Empty, WillSee
    <2>4. FramesSeen'
      BY <2>1, <2>2, <2>3 DEF WakeInv, FramesSeen
    <2>5. SleepsForData'
      BY <1>1, <2>1 DEF WakeInv, SleepsForData
    <2> QED
      BY <2>4, <2>5 DEF WakeInv
  <1> QED
    BY <1>3, <1>4, <1>5 DEF User

(* Every other step leaves the rings alone, and wakes the worker when it   *)
(* changes what the worker waits for.                                      *)
LEMMA WakeOther ==
    ASSUME TypeInv, WakeInv,
           UNCHANGED <<entry_w, entry_r, flow_id, all_empty>>,
           \A u \in Users : upc[u] = "signal" => upc'[u] = "signal",
           \/ UNCHANGED <<wpc, state_next>>
           \/ wpc' = IF wpc = "asleep" THEN "gate" ELSE wpc,
           enable' = enable \/ enable' = 0,
           blocking' = blocking \/ (blocking' = 0 /\ enable = 0 /\ enable' = 0)
    PROVE  WakeInv'
  <1>1. \A f \in Flows : (Empty(f)' <=> Empty(f)) /\ (WillSee(f) => WillSee(f)')
    BY DEF Empty, WillSee
  <1>2. FramesSeen'
    BY <1>1 DEF WakeInv, FramesSeen
  <1>3. SleepsForData'
    BY DEF WakeInv, SleepsForData
  <1> QED
    BY <1>2, <1>3 DEF WakeInv

-----------------------------------------------------------------------------
(* What set_stream_disable(wait = 1) rests on.  The state reads "pending"  *)
(* only while the worker is between its test and its next round, the       *)
(* stream is not enabled again while the call waits, and destroy clears    *)
(* enable before anything else.                                            *)
Destroying == cpc \in {"clear", "stop", "join", "destroyed"}

ControlInv ==
    /\ enable = 0 <=> Destroying
    /\ state = "pending" => wpc \in {"gate", "asleep"}
    /\ cpc = "wait_pending" => state_next = "pending"
    /\ cpc = "wait_running" => ~quiesced
    /\ wpc = "exit" => enable = 0

WorkerHeld ==
    quiesced =>
        \/ enable = 1 /\ state_next = "pending" /\ wpc \in {"gate", "asleep"}
        \/ enable = 0 /\ wpc \in {"gate", "asleep", "begin", "exit"}

QuietInv == ControlInv /\ WorkerHeld

LEMMA QuietInvNext == TypeInv /\ QuietInv /\ [Next]_vars => QuietInv'
  <1> SUFFICES ASSUME TypeInv, QuietInv, [Next]_vars PROVE QuietInv'
    OBVIOUS
  <1> USE DEF QuietInv, ControlInv, WorkerHeld, Destroying
  <1>1. enable \in {0, 1} /\ quiesced \in BOOLEAN
    BY DEF TypeInv, TypeOK, InfoType, ControlType
  <1>2. CASE WorkerSleep \/ WorkerGo \/ WorkerBegin \/ SpuriousWakeup
    BY <1>1, <1>2 DEF WorkerSleep, WorkerGo, WorkerBegin, SpuriousWakeup,
       MustWait, IsPending, IsBlocking, infoVars, controlVars
  <1>3. CASE \/ ScanFlow \/ ScanDone \/ TransferBegin \/ SendFrame
             \/ MoveEntry \/ TransferEnd \/ Recheck
    BY <1>1, <1>3 DEF ScanFlow, ScanDone, TransferBegin, SendFrame, MoveEntry,
       TransferEnd, Recheck, infoVars, controlVars
  <1>4. ASSUME NEW u \in Users, User(u) PROVE QuietInv'
    BY <1>1, <1>4 DEF User, StreamLock, StreamTimeout, StreamCopy,
       StreamPublish, StreamSignal, SignalNewData, Wake, infoVars, workerVars,
       controlVars
  <1>5. CASE \/ DeviceStop \/ UNCHANGED vars
             \/ \E u \in Users : \E f \in Flows, timed \in BOOLEAN : StreamCall(u, f, timed)
    BY <1>1, <1>5 DEF DeviceStop, StreamCall, vars, infoVars, workerVars, controlVars
  <1>6. CASE \/ DestroyDisable
             \/ \E wait \in BOOLEAN : SetStreamEnable(wait) \/ SetStreamDisable(wait)
    BY <1>1, <1>6 DEF DestroyDisable, SetStreamEnable, SetStreamDisable,
       GoToState, Wake, workerVars
  <1>7. CASE Control
    BY <1>1, <1>7 DEF Control, StateEntered, Entered, DestroyUnblock,
       DestroySignal, DestroyJoin, GoToState, Wake, infoVars, workerVars
  <1> QED
    BY <1>2, <1>3, <1>4, <1>5, <1>6, <1>7 DEF Next, Worker

LEMMA QuietInvHolds == Spec => [](TypeInv /\ QuietInv)
  <1>1. Init => TypeInv /\ QuietInv
    BY TypeInvInit DEF Init, QuietInv, ControlInv, WorkerHeld, Destroying
  <1>2. TypeInv /\ QuietInv /\ [Next]_vars => (TypeInv /\ QuietInv)'
    BY TypeInvNext, QuietInvNext
  <1> QED
    BY <1>1, <1>2, PTL DEF Spec

(* From the return of set_stream_disable(wait = 1) to the next             *)
(* set_stream_enable the worker sends nothing.                             *)
THEOREM QuietWhenDisabledHolds == Spec => QuietWhenDisabled
  <1>1. QuietInv /\ [Next]_vars => [quiesced => wire' = wire]_vars
    <2> SUFFICES ASSUME QuietInv, Next, quiesced PROVE wire' = wire
      BY DEF vars
    <2>1. wpc # "send"
      BY DEF QuietInv, WorkerHeld
    <2> QED
      BY <2>1 DEF Next, Worker, WorkerSleep, WorkerGo, WorkerBegin, ScanFlow,
         ScanDone, TransferBegin, SendFrame, MoveEntry, TransferEnd, Recheck,
         SpuriousWakeup, User, StreamLock, StreamTimeout, StreamCopy,
         StreamPublish, StreamSignal, StreamCall, Control, StateEntered,
         DestroyUnblock, DestroySignal, DestroyJoin, DestroyDisable,
         DeviceStop, SetStreamEnable, SetStreamDisable
  <1> QED
    BY QuietInvHolds, <1>1, PTL DEF Spec, QuietWhenDisabled

-----------------------------------------------------------------------------
(* The hand-over to the worker, over every step. *)
LEMMA WakeInvNext ==
    TypeInv /\ QuietInv /\ WakeInv /\ [Next]_vars => WakeInv'
  <1> SUFFICES ASSUME TypeInv, QuietInv, WakeInv, [Next]_vars PROVE WakeInv'
    OBVIOUS
  <1>1. CASE Worker \/ SpuriousWakeup
    BY <1>1, WakeWorker
  <1>2. ASSUME NEW u \in Users, User(u) PROVE WakeInv'
    BY <1>2, WakeUser
  <1>3. ASSUME NEW u \in Users, NEW f \in Flows, NEW timed \in BOOLEAN,
               StreamCall(u, f, timed)
        PROVE  WakeInv'
    <2>1. /\ UNCHANGED <<entry_w, entry_r, wpc, flow_id, all_empty, enable,
                         state_next, blocking>>
          /\ upc[u] = "idle" /\ \A v \in Users : v # u => upc'[v] = upc[v]
      BY <1>3 DEF StreamCall, ringVars, infoVars, workerVars, TypeInv, TypeOK, UserType
    <2> QED
      BY <2>1, WakeOther
  <1>4. CASE \/ Control \/ DestroyDisable \/ DeviceStop \/ UNCHANGED vars
             \/ \E wait \in BOOLEAN : SetStreamEnable(wait) \/ SetStreamDisable(wait)
    <2>1. /\ UNCHANGED <<entry_w, entry_r, flow_id, all_empty, upc>>
          /\ \/ UNCHANGED <<wpc, state_next>>
             \/ wpc' = IF wpc = "asleep" THEN "gate" ELSE wpc
          /\ enable' = enable \/ enable' = 0
      BY <1>4 DEF Control, StateEntered, DestroyUnblock, DestroySignal,
         DestroyJoin, DestroyDisable, DeviceStop, SetStreamEnable,
         SetStreamDisable, GoToState, Wake, vars, ringVars, infoVars,
         workerVars, userVars
    <2>2. blocking' = blocking \/ (blocking' = 0 /\ enable = 0 /\ enable' = 0)
      BY <1>4 DEF Control, StateEntered, DestroyUnblock, DestroySignal,
         DestroyJoin, DestroyDisable, DeviceStop, SetStreamEnable,
         SetStreamDisable, vars, infoVars, QuietInv, ControlInv, Destroying
    <2> QED
      BY <2>1, <2>2, WakeOther
  <1> QED
    BY <1>1, <1>2, <1>3, <1>4 DEF Next

(* A worker asleep on an enabled stream while a ring holds a frame is      *)
(* about to be signalled: the test of the rings without a lock, the flag   *)
(* blocking and the signal after entry_w lose no wake-up.                  *)
THEOREM NoLostWakeupHolds == Spec => []NoLostWakeup
  <1>1. Init => WakeInv
    BY DEF Init, WakeInv, FramesSeen, SleepsForData, Empty
  <1>2. WakeInv => NoLostWakeup
    BY DEF WakeInv, FramesSeen, SleepsForData, WillSee, NoLostWakeup
  <1> QED
    BY QuietInvHolds, WakeInvNext, <1>1, <1>2, PTL DEF Spec

-----------------------------------------------------------------------------
(* The input path implements FrameChannel. *)

(* The frames accepted and not on the wire, by the history alone. *)
Backlog(f) == SubSeq(accepted[f], Len(wire[f]) + 1, Len(accepted[f]))

(* The queue that is read from the slots of a ring is the backlog. *)
LEMMA QueueIsBacklog ==
    ASSUME TypeInv, DeliveryInv, NEW f \in Flows
    PROVE  /\ UnsentFrames(f) = Backlog(f)
           /\ Backlog(f) \in Seq(Frames)
           /\ Len(Backlog(f)) = Len(accepted[f]) - Len(wire[f])
           /\ Len(Backlog(f)) = Count(f) - InFlight(f)
           /\ Len(wire[f]) <= Len(accepted[f])
  <1> DEFINE a == Len(accepted[f])
             l == Len(wire[f])
             c == Count(f)
             i == InFlight(f)
  <1>1. /\ a \in Nat /\ l \in Nat /\ i \in Nat /\ c \in Nat
        /\ l + c = a + i /\ l <= a
    <2>1. c \in 0 .. N - 1
      BY OccupiedRange DEF Count, TypeInv, TypeOK, RingType
    <2> QED
      BY <2>1, InFlightPositive, IfmapAssumption
         DEF DeliveryInv, CountsMatch, FifoDelivery, TypeInv, TypeOK, HistoryType
  <1>2. c - i = a - l
    <2> HIDE DEF a, l, c, i
    <2> QED
      BY <1>1
  <1>3. accepted[f] \in Seq(Frames)
    BY DEF TypeInv, TypeOK, HistoryType
  <1>4. \A k \in 1 .. a : accepted[f][k] \in Frames
    BY <1>3, ElementOfSeq
  <1>5. /\ Backlog(f) \in Seq(Frames)
        /\ Len(Backlog(f)) = a - l
        /\ \A k \in 1 .. a - l : Backlog(f)[k] = accepted[f][l + k]
    <2>1. \A k \in l + 1 .. a : accepted[f][k] \in Frames
      BY <1>1, <1>4
    <2> DEFINE s == accepted[f]
               m == l + 1
    <2>2. m \in Int /\ a \in Int /\ \A k \in m .. a : s[k] \in Frames
      BY <1>1, <2>1
    <2> HIDE DEF a, l, m, s
    <2>3. /\ SubSeq(s, m, a) \in Seq(Frames)
          /\ Len(SubSeq(s, m, a)) = IF m <= a THEN a - m + 1 ELSE 0
          /\ \A k \in 1 .. a - m + 1 : SubSeq(s, m, a)[k] = s[m + k - 1]
      BY <2>2, SubSeqProperties
    <2>4. Backlog(f) = SubSeq(s, m, a)
      BY DEF Backlog, a, l, m, s
    <2> QED
      BY <1>1, <2>3, <2>4 DEF m, s
  <1>6. ASSUME NEW k \in 1 .. a - l
        PROVE  data[f][Slot(f, i + k - 1)] = accepted[f][l + k]
    <2>1. l + k \in l + 1 .. a /\ i + (l + k) - l - 1 = i + k - 1
      <3> HIDE DEF a, l, c, i
      <3> QED
        BY <1>1
    <2>2. data[f][Slot(f, i + (l + k) - l - 1)] = accepted[f][l + k]
      BY <2>1, UnsentIntact DEF UnsentFramesIntact
    <2> QED
      BY <2>1, <2>2
  <1>7. UnsentFrames(f) = [k \in 1 .. a - l |-> accepted[f][l + k]]
    BY <1>2, <1>6 DEF UnsentFrames
  <1>8. UnsentFrames(f) \in Seq(Frames) /\ Len(UnsentFrames(f)) = a - l
    <2>1. \A k \in 1 .. a - l : accepted[f][l + k] \in Frames
      <3> HIDE DEF a, l
      <3> QED
        BY <1>1, <1>4
    <2> HIDE DEF a, l
    <2> QED
      BY <1>1, <1>7, <2>1
  <1>9. UnsentFrames(f) = Backlog(f)
    BY <1>5, <1>7, <1>8, SeqEqual
  <1> QED
    BY <1>1, <1>2, <1>5, <1>9

(* The same as an invariant: what a queue holds, frame by frame. *)
QueueOf(f, q) ==
    /\ q \in Seq(Frames)
    /\ Len(q) = Len(accepted[f]) - Len(wire[f])
    /\ Len(q) = Count(f) - InFlight(f)
    /\ \A k \in 1 .. Len(q) : q[k] = accepted[f][Len(wire[f]) + k]

QueueInv == \A f \in Flows : QueueOf(f, UnsentFrames(f))

(* It follows from the invariants of the rings. *)
LEMMA QueueInvHolds == TypeInv /\ DeliveryInv => QueueInv
  <1> SUFFICES ASSUME TypeInv, DeliveryInv, NEW f \in Flows
               PROVE  QueueOf(f, UnsentFrames(f))
    BY DEF QueueInv
  <1> DEFINE a == Len(accepted[f])
             l == Len(wire[f])
             s == accepted[f]
             m == l + 1
  <1>1. /\ UnsentFrames(f) = Backlog(f) /\ Backlog(f) \in Seq(Frames)
        /\ Len(Backlog(f)) = a - l /\ l <= a
        /\ Len(Backlog(f)) = Count(f) - InFlight(f)
    BY QueueIsBacklog
  <1>2. s \in Seq(Frames) /\ a \in Nat /\ l \in Nat
    BY DEF TypeInv, TypeOK, HistoryType
  <1>3. m \in Int /\ a \in Int /\ \A k \in m .. a : s[k] \in Frames
    <2>1. \A k \in 1 .. a : s[k] \in Frames
      BY <1>2, ElementOfSeq
    <2> HIDE DEF a, l, s
    <2> QED
      BY <1>2, <2>1 DEF m
  <1>4. Backlog(f) = SubSeq(s, m, a)
    BY DEF Backlog
  <1>5. \A k \in 1 .. a - l : Backlog(f)[k] = s[l + k]
    <2> HIDE DEF m, a, l, s
    <2>1. \A k \in 1 .. a - m + 1 : SubSeq(s, m, a)[k] = s[m + k - 1]
      BY <1>3, SubSeqProperties
    <2>2. a - m + 1 = a - l /\ \A k \in 1 .. a - l : m + k - 1 = l + k
      BY <1>2 DEF m
    <2> QED
      BY <1>4, <2>1, <2>2
  <1> QED
    BY <1>1, <1>5 DEF QueueOf

(* A sequence one longer is the old one with its last element appended. *)
LEMMA IsAppend ==
    ASSUME NEW S, NEW s \in Seq(S), NEW t \in Seq(S), NEW x \in S,
           Len(t) = Len(s) + 1, t[Len(t)] = x,
           \A k \in 1 .. Len(s) : t[k] = s[k]
    PROVE  t = Append(s, x)
  <1>1. /\ Append(s, x) \in Seq(S) /\ Len(Append(s, x)) = Len(t)
        /\ \A k \in 1 .. Len(s) : Append(s, x)[k] = s[k]
        /\ Append(s, x)[Len(s) + 1] = x
    BY AppendProperties
  <1>2. Len(s) \in Nat
    OBVIOUS
  <1>3. ASSUME NEW k \in 1 .. Len(t) PROVE t[k] = Append(s, x)[k]
    <2>1. k \in 1 .. Len(s) \/ k = Len(s) + 1
      BY <1>2
    <2> QED
      BY <1>1, <2>1
  <1> QED
    BY <1>1, <1>3, SeqEqual

(* A sequence one shorter is the tail of the old one. *)
LEMMA IsTail ==
    ASSUME NEW S, NEW s \in Seq(S), NEW t \in Seq(S),
           Len(t) = Len(s) - 1,
           \A k \in 1 .. Len(t) : t[k] = s[k + 1]
    PROVE  s # <<>> /\ t = Tail(s) /\ Head(s) = s[1]
  <1>1. Len(s) \in Nat /\ Len(t) \in Nat
    OBVIOUS
  <1>2. s # <<>>
    BY <1>1, EmptySeq
  <1>3. /\ Tail(s) \in Seq(S) /\ Len(Tail(s)) = Len(t)
        /\ \A k \in 1 .. Len(t) : Tail(s)[k] = s[k + 1]
    BY <1>2, HeadTailProperties
  <1>4. t = Tail(s)
    BY <1>3, SeqEqual
  <1> QED
    BY <1>2, <1>4

-----------------------------------------------------------------------------
(* The refinement, step by step.  The initial states map to initial ones.  *)
LEMMA ChannelInit == Init => Channel!Init
  <1> SUFFICES ASSUME Init PROVE Channel!Init
    OBVIOUS
  <1>1. QueueInv
    BY TypeInvInit, DeliveryInvInit, QueueInvHolds
  <1>2. \A f \in Flows : UnsentFrames(f) = <<>>
    <2> SUFFICES ASSUME NEW f \in Flows PROVE UnsentFrames(f) = <<>>
      OBVIOUS
    <2>1. Len(accepted[f]) = 0 /\ Len(wire[f]) = 0
      BY DEF Init
    <2>2. UnsentFrames(f) \in Seq(Frames) /\ Len(UnsentFrames(f)) = 0
      BY <1>1, <2>1 DEF QueueInv, QueueOf
    <2> QED
      BY <2>2, EmptySeq
  <1>3. wire = [f \in Flows |-> <<>>]
    BY DEF Init
  <1> QED
    BY <1>2, <1>3 DEF Channel!Init

(* A flow whose history does not change keeps its queue. *)
LEMMA QueueKept ==
    ASSUME QueueInv, QueueInv', NEW f \in Flows,
           accepted'[f] = accepted[f], wire'[f] = wire[f]
    PROVE  UnsentFrames(f)' = UnsentFrames(f)
  <1> DEFINE p == UnsentFrames(f)
             q == UnsentFrames(f)'
             a == accepted[f]
             l == Len(wire[f])
  <1>1. p \in Seq(Frames) /\ Len(p) = Len(a) - l /\ \A k \in 1 .. Len(p) : p[k] = a[l + k]
    BY DEF QueueInv, QueueOf
  <1>2. q \in Seq(Frames) /\ Len(q) = Len(a) - l /\ \A k \in 1 .. Len(q) : q[k] = a[l + k]
    BY DEF QueueInv, QueueOf
  <1> HIDE DEF p, q, a, l
  <1>3. p = q
    BY <1>1, <1>2, SeqEqual
  <1> QED
    BY <1>3 DEF p, q

(* A caller that moves entry_w puts its frame. *)
LEMMA ChannelPut ==
    ASSUME TypeInv, DeliveryInv, QueueInv, QueueInv',
           NEW u \in Users, StreamPublish(u)
    PROVE  \E f \in Flows, x \in Frames : Channel!Put(f, x)
  <1>1. PICK f \in Flows, x \in Frames : f = uflow[u] /\ x = uframe[u]
    BY DEF StreamPublish, TypeInv, TypeOK, UserType, CallersHaveFrames
  <1>2. ~Full(f)
    BY <1>1 DEF StreamPublish, DeliveryInv, CallersOwnRing
  <1>3. /\ accepted' = [accepted EXCEPT ![f] = Append(accepted[f], x)]
        /\ wire' = wire
    BY <1>1 DEF StreamPublish
  <1>4. /\ accepted[f] \in Seq(Frames)
        /\ accepted'[f] = Append(accepted[f], x)
        /\ \A g \in Flows : g # f => accepted'[g] = accepted[g]
    BY <1>3 DEF TypeInv, TypeOK, HistoryType
  <1>5. \A g \in Flows : g # f => UnsentFrames(g)' = UnsentFrames(g)
    BY <1>3, <1>4, QueueKept
  <1>6. UnsentFrames(f)' = Append(UnsentFrames(f), x)
    <2> DEFINE p == UnsentFrames(f)
               q == UnsentFrames(f)'
               a == accepted[f]
               b == accepted'[f]
               l == Len(wire[f])
               z == Len(a)
    <2>1. p \in Seq(Frames) /\ Len(p) = z - l /\ \A k \in 1 .. Len(p) : p[k] = a[l + k]
      BY DEF QueueInv, QueueOf
    <2>2. q \in Seq(Frames) /\ Len(q) = Len(b) - l /\ \A k \in 1 .. Len(q) : q[k] = b[l + k]
      BY <1>3 DEF QueueInv, QueueOf
    <2>3. Len(b) = z + 1 /\ b[z + 1] = x /\ \A k \in 1 .. z : b[k] = a[k]
      BY <1>4, AppendProperties
    <2>4. z \in Nat /\ l \in Nat /\ Len(p) \in Nat /\ Len(q) \in Nat
      BY <1>4, <2>1, <2>2 DEF TypeInv, TypeOK, HistoryType
    <2> HIDE DEF p, q, a, b, l, z
    <2>5. Len(q) = Len(p) + 1 /\ q[Len(q)] = x
      BY <2>1, <2>2, <2>3, <2>4
    <2>6. \A k \in 1 .. Len(p) : q[k] = p[k]
      BY <2>1, <2>2, <2>3, <2>4
    <2>7. q = Append(p, x)
      BY <2>1, <2>2, <2>5, <2>6, IsAppend
    <2> QED
      BY <2>7 DEF p, q
  <1>7. Len(UnsentFrames(f)) < N - 1
    <2>1. Count(f) \in 0 .. N - 1 /\ Count(f) # N - 1
      BY <1>2, OccupiedRange DEF Count, Full, TypeInv, TypeOK, RingType
    <2>2. InFlight(f) \in Nat /\ Len(UnsentFrames(f)) = Count(f) - InFlight(f)
      BY InFlightPositive DEF QueueInv, QueueOf
    <2> QED
      BY <2>1, <2>2, IfmapAssumption
  <1>8. Channel!Put(f, x)
    BY <1>3, <1>5, <1>6, <1>7 DEF Channel!Put
  <1> QED
    BY <1>8

(* A write that the interface driver takes delivers the oldest frame. *)
LEMMA ChannelDeliver ==
    ASSUME TypeInv, DeliveryInv, DeliveryInv', QueueInv, QueueInv', SendFrame
    PROVE  \E f \in Flows : Channel!Deliver(f)
  <1>1. PICK f \in Flows : f = flow_id
    BY DEF SendFrame, TypeInv, TransferInRing
  <1> DEFINE y == data[f][entry_r[f] + sent]
             l == Len(wire[f])
             a == accepted[f]
             p == UnsentFrames(f)
             q == UnsentFrames(f)'
  <1>2. /\ wire' = [wire EXCEPT ![f] = Append(wire[f], y)]
        /\ accepted' = accepted
    BY <1>1 DEF SendFrame
  <1>3. y \in Frames \cup {0}
    <2>1. /\ wpc = "send" /\ sent < need /\ sent \in Nat /\ need \in Nat
          /\ entry_r[f] \in Slots /\ entry_r[f] + need <= N
      BY <1>1, IfmapAssumption
         DEF SendFrame, TypeInv, TypeOK, RingType, WorkerType, TransferInRing
    <2>2. entry_r[f] + sent \in Slots
      BY <2>1, IfmapAssumption DEF Slots
    <2> QED
      BY <2>2 DEF TypeInv, TypeOK, RingType
  <1>4. /\ wire[f] \in Seq(Frames \cup {0}) /\ l \in Nat
        /\ wire'[f] = Append(wire[f], y)
        /\ \A g \in Flows : g # f => wire'[g] = wire[g]
    BY <1>2 DEF TypeInv, TypeOK, HistoryType
  <1>5. Len(wire'[f]) = l + 1 /\ wire'[f][l + 1] = y
    BY <1>3, <1>4, AppendProperties
  <1>6. y = a[l + 1]
    <2>1. \A k \in 1 .. l + 1 : wire'[f][k] = accepted'[f][k]
      BY <1>5 DEF DeliveryInv, FifoDelivery
    <2>2. l + 1 \in 1 .. l + 1
      BY <1>4
    <2> QED
      BY <1>2, <1>5, <2>1, <2>2
  <1>7. \A g \in Flows : g # f => UnsentFrames(g)' = UnsentFrames(g)
    BY <1>2, <1>4, QueueKept
  <1>8. p # <<>> /\ q = Tail(p) /\ Head(p) = y
    <2> DEFINE z == Len(a)
    <2>1. p \in Seq(Frames) /\ Len(p) = z - l /\ \A k \in 1 .. Len(p) : p[k] = a[l + k]
      BY DEF QueueInv, QueueOf
    <2>2. q \in Seq(Frames) /\ Len(q) = z - (l + 1) /\ \A k \in 1 .. Len(q) : q[k] = a[l + 1 + k]
      <3>1. f \in Flows /\ accepted'[f] = a /\ Len(wire'[f]) = l + 1
        BY <1>2, <1>5
      <3>2. QueueOf(f, UnsentFrames(f))'
        BY <3>1 DEF QueueInv
      <3> QED
        BY <3>1, <3>2 DEF QueueOf
    <2>3. z \in Nat /\ Len(p) \in Nat /\ Len(q) \in Nat
      BY <2>1, <2>2 DEF TypeInv, TypeOK, HistoryType
    <2> HIDE DEF p, q, a, l, z, y
    <2>4. Len(q) = Len(p) - 1 /\ 1 \in 1 .. Len(p)
      BY <1>4, <2>1, <2>2, <2>3
    <2>5. \A k \in 1 .. Len(q) : q[k] = p[k + 1]
      BY <1>4, <2>1, <2>2, <2>3
    <2>6. p[1] = y
      BY <1>6, <2>1, <2>4
    <2> QED
      BY <2>1, <2>2, <2>4, <2>5, <2>6, IsTail
  <1>9. Channel!Deliver(f)
    <2>1. wire' = [wire EXCEPT ![f] = Append(wire[f], Head(p))]
      BY <1>2, <1>8
    <2> HIDE DEF y
    <2> QED
      BY <1>7, <1>8, <2>1 DEF Channel!Deliver
  <1> QED
    BY <1>9

(* No other step changes what was accepted or what is on the wire. *)
LEMMA ChannelStep ==
    TypeInv /\ DeliveryInv /\ DeliveryInv' /\ QueueInv /\ QueueInv' /\ [Next]_vars
        => [Channel!Next]_(Channel!channelVars)
  <1> SUFFICES ASSUME TypeInv, DeliveryInv, DeliveryInv', QueueInv, QueueInv',
                      [Next]_vars
               PROVE  [Channel!Next]_(Channel!channelVars)
    OBVIOUS
  <1>1. CASE SendFrame
    BY <1>1, ChannelDeliver DEF Channel!Next
  <1>2. ASSUME NEW u \in Users, StreamPublish(u)
        PROVE  [Channel!Next]_(Channel!channelVars)
    BY <1>2, ChannelPut DEF Channel!Next
  <1>3. CASE UNCHANGED <<accepted, wire>>
    <2>1. \A f \in Flows : UnsentFrames(f)' = UnsentFrames(f)
      BY <1>3, QueueKept
    <2> QED
      BY <1>3, <2>1 DEF Channel!channelVars
  <1>4. \/ SendFrame \/ \E u \in Users : StreamPublish(u)
        \/ UNCHANGED <<accepted, wire>>
    BY DEF Next, Worker, WorkerSleep, WorkerGo, WorkerBegin, ScanFlow, ScanDone,
       TransferBegin, MoveEntry, TransferEnd, Recheck, SpuriousWakeup, User,
       StreamLock, StreamTimeout, StreamCopy, StreamSignal, StreamCall, Control,
       StateEntered, DestroyUnblock, DestroySignal, DestroyJoin, DestroyDisable,
       DeviceStop, SetStreamEnable, SetStreamDisable, vars
  <1> QED
    BY <1>1, <1>2, <1>3, <1>4

(* Every behaviour of callers, worker and control thread is one of a       *)
(* bounded first-in first-out queue per flow: moving entry_w is the put,   *)
(* each frame that the interface driver takes the delivery.                *)
THEOREM ImplementsChannelHolds == Spec => ImplementsChannel
  <1>1. Spec => [](TypeInv /\ DeliveryInv /\ QueueInv)
    BY InvariantsHold, QueueInvHolds, PTL
  <1> QED
    BY <1>1, ChannelInit, ChannelStep, PTL DEF Spec, ImplementsChannel, Channel!Spec
=============================================================================
