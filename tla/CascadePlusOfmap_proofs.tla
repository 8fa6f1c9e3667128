---------------------- MODULE CascadePlusOfmap_proofs ----------------------
(***************************************************************************)
(* Theorems about CascadePlusOfmap, for any number of flows, readers,      *)
(* frames and parts and any ring size: frames reach the application whole, *)
(* once and in order, the count of dequeue_ofmap_buf agrees with the       *)
(* pointers, lent buffers are not reused, and the path implements          *)
(* FrameChannel.                                                           *)
(***************************************************************************)
EXTENDS CascadePlusOfmapChannel, TLAPS, FiniteSetTheorems, SequenceTheorems

-----------------------------------------------------------------------------
(* Arithmetic of the ring and of the parts. *)

SlotAfter(r, k) == IF r + k < N THEN r + k ELSE r + k - N

(* Stepping a ring pointer stays in the ring. *)
LEMMA NextEntryInSlots ==
    ASSUME NEW i \in Slots PROVE NextEntry(i) \in Slots
  BY OfmapAssumption DEF Slots, NextEntry

(* The distance of two pointers, and when the next step would close it. *)
LEMMA OccupiedRange ==
    ASSUME NEW w \in Slots, NEW r \in Slots
    PROVE  /\ Occupied(w, r) \in 0 .. N - 1
           /\ Occupied(w, r) = 0 <=> w = r
           /\ NextEntry(w) = r <=> Occupied(w, r) = N - 1
  BY OfmapAssumption DEF Slots, Occupied, NextEntry

(* The pointer in front moves. *)
LEMMA OccupiedAfterPublish ==
    ASSUME NEW w \in Slots, NEW r \in Slots, NextEntry(w) # r
    PROVE  Occupied(NextEntry(w), r) = Occupied(w, r) + 1
  BY OfmapAssumption DEF Slots, Occupied, NextEntry

(* The pointer behind moves. *)
LEMMA OccupiedAfterMove ==
    ASSUME NEW w \in Slots, NEW r \in Slots, w # r
    PROVE  Occupied(w, NextEntry(r)) = Occupied(w, r) - 1
  BY OfmapAssumption DEF Slots, Occupied, NextEntry

(* A slot counted from a pointer is a slot. *)
LEMMA SlotInRing ==
    ASSUME NEW r \in Slots, NEW k \in 0 .. N - 1
    PROVE  SlotAfter(r, k) \in Slots
  BY OfmapAssumption DEF Slots, SlotAfter

(* The pointer in front is as many places on as the ring is filled. *)
LEMMA SlotOfWritePointer ==
    ASSUME NEW w \in Slots, NEW r \in Slots
    PROVE  SlotAfter(r, Occupied(w, r)) = w
  BY OfmapAssumption DEF Slots, Occupied, SlotAfter

(* No two places are the same slot. *)
LEMMA SlotInjective ==
    ASSUME NEW r \in Slots, NEW j \in 0 .. N - 1, NEW k \in 0 .. N - 1,
           SlotAfter(r, j) = SlotAfter(r, k)
    PROVE  j = k
  BY OfmapAssumption DEF Slots, SlotAfter

(* Places seen from the next slot. *)
LEMMA SlotAfterMove ==
    ASSUME NEW r \in Slots, NEW k \in 0 .. N - 2
    PROVE  SlotAfter(NextEntry(r), k) = SlotAfter(r, k + 1)
  BY OfmapAssumption DEF Slots, SlotAfter, NextEntry

(* The slot at the pointer itself. *)
LEMMA SlotAtPointer == ASSUME NEW r \in Slots PROVE SlotAfter(r, 0) = r
  BY OfmapAssumption DEF Slots, SlotAfter

(* Remainders of what is less than twice the divisor. *)
LEMMA Remainder ==
    ASSUME NEW n \in Nat \ {0}
    PROVE  /\ \A x \in 0 .. n - 1 : x % n = x
           /\ \A x \in n .. n + n - 1 : x % n = x - n
  <1>1. ASSUME NEW x \in 0 .. n - 1 PROVE x % n = x
    OBVIOUS
  <1>2. ASSUME NEW x \in n .. n + n - 1 PROVE x % n = x - n
    OBVIOUS
  <1> QED
    BY <1>1, <1>2

(* The worker's test with % is the test for a filled ring. *)
LEMMA FullIsOccupied ==
    ASSUME NEW w \in Slots, NEW r \in Slots
    PROVE  (w + 1) % N = r <=> Occupied(w, r) = N - 1
  <1>1. (w + 1) % N = NextEntry(w)
    <2>1. CASE w + 1 = N
      <3>1. w + 1 \in N .. N + N - 1
        BY <2>1, OfmapAssumption
      <3>2. (w + 1) % N = w + 1 - N
        BY <3>1, OfmapAssumption, Remainder DEF Slots
      <3>3. w + 1 - N = 0
        BY <2>1, OfmapAssumption DEF Slots
      <3> QED
        BY <2>1, <3>2, <3>3 DEF NextEntry
    <2>2. CASE w + 1 # N
      <3>1. w + 1 \in 0 .. N - 1
        BY <2>2, OfmapAssumption DEF Slots
      <3>2. (w + 1) % N = w + 1
        BY <3>1, OfmapAssumption, Remainder
      <3> QED
        BY <2>2, <3>2 DEF NextEntry
    <2> QED
      BY <2>1, <2>2
  <1> QED
    BY <1>1, OccupiedRange

(* A slot counted with % is the same place. *)
LEMMA SlotByRemainder ==
    ASSUME NEW r \in Slots, NEW k \in 0 .. N - 1
    PROVE  (r + k) % N = SlotAfter(r, k)
  <1>1. CASE r + k < N
    <2>1. r + k \in 0 .. N - 1
      BY <1>1, OfmapAssumption DEF Slots
    <2> QED
      BY <1>1, <2>1, OfmapAssumption, Remainder DEF SlotAfter
  <1>2. CASE ~(r + k < N)
    <2>1. r + k \in N .. N + N - 1
      BY <1>2, OfmapAssumption DEF Slots
    <2>2. (r + k) % N = r + k - N
      BY <2>1, OfmapAssumption, Remainder DEF Slots
    <2>3. SlotAfter(r, k) = r + k - N
      BY <1>2 DEF SlotAfter
    <2> QED
      BY <2>2, <2>3
  <1> QED
    BY <1>1, <1>2

(* The frame a part belongs to, from the parts that were read before it. *)
LEMMA FrameOfPart ==
    ASSUME NEW n \in Nat \ {0}, NEW c \in Nat, NEW t \in 0 .. n - 1
    PROVE  (c * n + t) \div n = c
  OBVIOUS

(* A part before the last one is of a frame before the last one. *)
LEMMA FrameBound ==
    ASSUME NEW n \in Nat \ {0}, NEW x \in Nat, NEW m \in Nat, x < m * n
    PROVE  x \div n \in 0 .. m - 1
  OBVIOUS

(* Complete frames need their parts. *)
LEMMA CompleteBound ==
    ASSUME NEW n \in Nat \ {0}, NEW c \in Nat, NEW m \in Nat, c * n <= m * n
    PROVE  c <= m
  OBVIOUS

(* One more complete frame. *)
LEMMA OneMoreFrame ==
    ASSUME NEW n \in Nat \ {0}, NEW c \in Nat PROVE (c + 1) * n = c * n + n
  OBVIOUS

(* The count of size_t below its largest value, and above zero. *)
LEMMA CountSteps ==
    /\ \A n \in 0 .. SIZE_MAX - 1 : Increase(n) = n + 1
    /\ \A n \in 1 .. SIZE_MAX : Decrease(n) = n - 1
    /\ \A n \in 0 .. SIZE_MAX : Increase(n) \in 0 .. SIZE_MAX /\ Decrease(n) \in 0 .. SIZE_MAX
  <1> DEFINE m == SIZE_MAX + 1
  <1>1. m \in Nat \ {0} /\ SIZE_MAX \in Nat
    BY OfmapAssumption
  <1>2. /\ \A x \in 0 .. m - 1 : x % m = x
        /\ \A x \in m .. m + m - 1 : x % m = x - m
    BY <1>1, Remainder
  <1>3. ASSUME NEW n \in 0 .. SIZE_MAX - 1 PROVE Increase(n) = n + 1
    BY <1>1, <1>2 DEF Increase
  <1>4. ASSUME NEW n \in 1 .. SIZE_MAX PROVE Decrease(n) = n - 1
    <2>1. n + SIZE_MAX \in m .. m + m - 1
      BY <1>1
    <2>2. n + SIZE_MAX - m = n - 1
      BY <1>1
    <2>3. (n + SIZE_MAX) % m = n + SIZE_MAX - m
      <3> DEFINE x == n + SIZE_MAX
      <3>1. x \in m .. m + m - 1
        BY <2>1
      <3> HIDE DEF m, x
      <3>2. x % m = x - m
        BY <1>2, <3>1
      <3> QED
        BY <1>1, <3>2 DEF x, m
    <2> QED
      BY <2>2, <2>3 DEF Decrease
  <1>5. Increase(SIZE_MAX) = 0
    <2>1. m \in m .. m + m - 1 /\ m - m = 0
      BY <1>1
    <2> QED
      BY <1>2, <2>1 DEF Increase
  <1>6. Decrease(0) = SIZE_MAX
    BY <1>1, <1>2 DEF Decrease
  <1>7. ASSUME NEW n \in 0 .. SIZE_MAX
        PROVE  Increase(n) \in 0 .. SIZE_MAX /\ Decrease(n) \in 0 .. SIZE_MAX
    <2>1. Increase(n) \in 0 .. SIZE_MAX
      BY <1>1, <1>3, <1>5
    <2>2. Decrease(n) \in 0 .. SIZE_MAX
      BY <1>1, <1>4, <1>6
    <2> QED
      BY <2>1, <2>2
  <1> QED
    BY <1>3, <1>4, <1>7

-----------------------------------------------------------------------------
(* What the types need besides themselves: past its test for space the     *)
(* worker is at a configured flow.                                         *)
WorkerAtFlow == wpc \in {"read", "count", "advance"} => flow_id \in Flows

TypeInv == TypeOK /\ WorkerAtFlow

(* The parts that the worker reads belong to frames the device sends. *)
LEMMA PartValue ==
    ASSUME TypeInv, ReadPart
    PROVE  /\ flow_id \in Flows
           /\ transferred[flow_id] + 1 \in 1 .. Parts
           /\ (fetched[flow_id] \div Parts) + 1 \in 1 .. MaxFrames
           /\ fetched[flow_id] + 1 \in 0 .. MaxFrames * Parts
  <1> DEFINE x == fetched[flow_id]
             y == arrived[flow_id]
             l == MaxFrames * Parts
  <1>1. /\ flow_id \in Flows /\ transferred[flow_id] \in 0 .. Parts - 1
        /\ x \in 0 .. l /\ y \in 0 .. l /\ x < y
    BY DEF ReadPart, TypeInv, TypeOK, RingType, DeviceType, WorkerAtFlow
  <1>2. l \in Nat
    BY OfmapAssumption
  <1>3. x \in Nat /\ x < l /\ x + 1 \in 0 .. l
    <2> HIDE DEF x, y, l
    <2> QED
      BY <1>1, <1>2
  <1>4. x \div Parts \in 0 .. MaxFrames - 1
    <2> HIDE DEF x
    <2> QED
      BY <1>3, OfmapAssumption, FrameBound DEF l
  <1>5. (x \div Parts) + 1 \in 1 .. MaxFrames
    <2> DEFINE d == x \div Parts
    <2>1. d \in 0 .. MaxFrames - 1
      BY <1>4
    <2> HIDE DEF d
    <2>2. d + 1 \in 1 .. MaxFrames
      BY <2>1, OfmapAssumption
    <2> QED
      BY <2>2 DEF d
  <1> QED
    BY <1>1, <1>3, <1>5, OfmapAssumption

(* A part that is read changes one part of the slot at entry_w. *)
LEMMA PartWritten ==
    ASSUME TypeInv, ReadPart, NEW f, f = flow_id
    PROVE  /\ data' \in [Flows -> [Slots -> Contents]]
           /\ \A g \in Flows : g # f => data'[g] = data[g]
           /\ \A i \in Slots : i # entry_w[f] => data'[f][i] = data[f][i]
           /\ \A p \in 1 .. Parts :
                 data'[f][entry_w[f]][p] =
                     IF p = transferred[f] + 1 THEN (fetched[f] \div Parts) + 1
                                               ELSE data[f][entry_w[f]][p]
  <1> DEFINE w == entry_w[f]
             n == transferred[f] + 1
             v == (fetched[f] \div Parts) + 1
             slot == [data[f][w] EXCEPT ![n] = v]
             row == [data[f] EXCEPT ![w] = slot]
  <1>1. f \in Flows /\ n \in 1 .. Parts /\ v \in 1 .. MaxFrames
    BY PartValue
  <1>2. w \in Slots /\ data \in [Flows -> [Slots -> Contents]]
    BY <1>1 DEF TypeInv, TypeOK, RingType
  <1>3. data' = [data EXCEPT ![f] = row]
    BY DEF ReadPart
  <1> HIDE DEF w, n, v
  <1>4. data[f][w] \in [1 .. Parts -> 0 .. MaxFrames] /\ v \in 0 .. MaxFrames
    <2>1. data[f] \in [Slots -> Contents]
      BY <1>1, <1>2
    <2> QED
      BY <1>1, <1>2, <2>1, OfmapAssumption DEF Contents
  <1>5. slot \in Contents
    BY <1>1, <1>4 DEF Contents
  <1>6. \A p \in 1 .. Parts : slot[p] = IF p = n THEN v ELSE data[f][w][p]
    BY <1>1, <1>4
  <1> HIDE DEF slot
  <1>7. row \in [Slots -> Contents] /\ row[w] = slot
        /\ \A i \in Slots : i # w => row[i] = data[f][i]
    BY <1>1, <1>2, <1>5
  <1> HIDE DEF row
  <1>8. /\ data' \in [Flows -> [Slots -> Contents]] /\ data'[f] = row
        /\ \A g \in Flows : g # f => data'[g] = data[g]
    BY <1>1, <1>2, <1>3, <1>7
  <1> QED
    BY <1>6, <1>7, <1>8 DEF w, n, v

(* The initial states. *)
LEMMA TypeInvInit == Init => TypeInv
  <1> SUFFICES ASSUME Init PROVE TypeInv
    OBVIOUS
  <1>1. 0 \in Flows /\ 0 \in Slots /\ 0 \in 0 .. NF /\ 0 \in 0 .. SIZE_MAX
        /\ 0 \in 0 .. Parts - 1 /\ 0 \in 0 .. MaxCalls /\ 0 \in 0 .. MaxControl
        /\ 0 \in 0 .. MaxFrames
    BY OfmapAssumption DEF Flows, Slots
  <1>2. 0 \in 0 .. MaxFrames * Parts
    <2>1. MaxFrames * Parts \in Nat
      BY OfmapAssumption
    <2> QED
      BY <2>1
  <1>3. Whole(0) \in Contents
    BY <1>1 DEF Whole, Contents
  <1>4. RingType /\ InfoType
    BY <1>1, <1>3 DEF Init, RingType, InfoType
  <1>5. WorkerType /\ WorkerAtFlow /\ ControlType
    BY <1>1 DEF Init, WorkerType, WorkerAtFlow, WorkerPCs, ControlType, ControlPCs
  <1>6. ReaderType
    BY <1>1, <1>3 DEF Init, ReaderType, ReaderPCs
  <1>7. DeviceType
    <2> HIDE DEF Init
    <2> DEFINE l == MaxFrames * Parts
    <2>1. arrived = [f \in Flows |-> 0] /\ fetched = [f \in Flows |-> 0]
          /\ delivered = [f \in Flows |-> <<>>] /\ <<>> \in Seq(Contents)
      BY DEF Init
    <2>2. 0 \in 0 .. l
      BY <1>2
    <2> HIDE DEF l
    <2>3. /\ arrived \in [Flows -> 0 .. l] /\ fetched \in [Flows -> 0 .. l]
          /\ delivered \in [Flows -> Seq(Contents)]
      BY <2>1, <2>2
    <2> QED
      BY <2>3 DEF DeviceType, l
  <1> QED
    BY <1>4, <1>5, <1>6, <1>7 DEF TypeInv, TypeOK

(* What a step does not touch keeps its type. *)
LEMMA TypesUntouched ==
    ASSUME TypeInv
    PROVE  /\ UNCHANGED ringVars => RingType'
           /\ UNCHANGED infoVars => InfoType'
           /\ UNCHANGED workerVars => WorkerType' /\ WorkerAtFlow'
           /\ UNCHANGED userVars => ReaderType'
           /\ UNCHANGED controlVars => ControlType'
           /\ UNCHANGED <<deviceVars, delivered>> => DeviceType'
  <1>1. UNCHANGED ringVars => RingType'
    BY DEF ringVars, RingType, TypeInv, TypeOK
  <1>2. UNCHANGED infoVars => InfoType'
    BY DEF infoVars, InfoType, TypeInv, TypeOK
  <1>3. UNCHANGED workerVars => WorkerType' /\ WorkerAtFlow'
    BY DEF workerVars, WorkerType, WorkerAtFlow, TypeInv, TypeOK
  <1>4. UNCHANGED userVars => ReaderType'
    BY DEF userVars, ReaderType, TypeInv, TypeOK
  <1>5. UNCHANGED controlVars => ControlType'
    BY DEF controlVars, ControlType, TypeInv, TypeOK
  <1>6. UNCHANGED <<deviceVars, delivered>> => DeviceType'
    BY DEF deviceVars, DeviceType, TypeInv, TypeOK
  <1> QED
    BY <1>1, <1>2, <1>3, <1>4, <1>5, <1>6

(* The steps of the worker keep the types. *)
LEMMA TypeInvWorker ==
    ASSUME TypeInv, Worker \/ SpuriousWakeup PROVE TypeInv'
  <1> USE DEF WorkerAtFlow, WorkerType, WorkerPCs
  <1>t. RingType /\ InfoType /\ WorkerType /\ WorkerAtFlow /\ DeviceType
    BY DEF TypeInv, TypeOK
  <1>1. CASE WorkerTop \/ WorkerSleep \/ SpuriousWakeup \/ WorkerGo
    <2>1. UNCHANGED <<ringVars, userVars, controlVars, deviceVars, delivered>>
      BY <1>1 DEF WorkerTop, WorkerSleep, SpuriousWakeup, WorkerGo
    <2>2. InfoType' /\ WorkerType' /\ WorkerAtFlow'
      BY <1>1, <1>t, OfmapAssumption DEF WorkerTop, WorkerSleep,
         SpuriousWakeup, WorkerGo, InfoType, infoVars
    <2> QED
      BY <2>1, <2>2, TypesUntouched DEF TypeInv, TypeOK
  <1>2. CASE ScanFlow \/ ScanDone \/ ReadNothing
    <2>1. UNCHANGED <<ringVars, infoVars, userVars, controlVars, deviceVars, delivered>>
      BY <1>2 DEF ScanFlow, ScanDone, ReadNothing
    <2>2. WorkerType' /\ WorkerAtFlow'
      BY <1>2, <1>t, OfmapAssumption DEF ScanFlow, ScanDone, ReadNothing, Flows
    <2> QED
      BY <2>1, <2>2, TypesUntouched DEF TypeInv, TypeOK
  <1>4. CASE ReadPart
    <2>1. /\ flow_id \in Flows /\ transferred[flow_id] + 1 \in 1 .. Parts
          /\ fetched[flow_id] + 1 \in 0 .. MaxFrames * Parts
      BY <1>4, PartValue
    <2>2. data' \in [Flows -> [Slots -> Contents]]
      BY <1>4, PartWritten
    <2>3. DeviceType'
      BY <1>4, <1>t, <2>1 DEF ReadPart, DeviceType
    <2>4. /\ transferred' \in [Flows -> 0 .. Parts - 1]
          /\ wpc' \in {"count", "scan"} /\ flow_id' \in 0 .. NF
          /\ wpc' = "count" => flow_id' \in Flows
      <3>1. 0 \in 0 .. Parts - 1 /\ flow_id \in 0 .. NF /\ flow_id + 1 \in 0 .. NF
        BY <2>1, OfmapAssumption DEF Flows
      <3>2. CASE FrameDone(transferred[flow_id] + 1)
        BY <1>4, <1>t, <2>1, <3>1, <3>2 DEF ReadPart, RingType
      <3>3. CASE ~FrameDone(transferred[flow_id] + 1)
        <4>1. transferred[flow_id] + 1 \in 0 .. Parts - 1
          BY <2>1, <3>3, OfmapAssumption DEF FrameDone
        <4> QED
          BY <1>4, <1>t, <3>1, <3>3, <4>1 DEF ReadPart, RingType
      <3> QED
        BY <3>2, <3>3
    <2>5. RingType'
      BY <1>4, <1>t, <2>2, <2>4 DEF ReadPart, RingType
    <2>6. UNCHANGED <<infoVars, userVars, controlVars>>
      BY <1>4 DEF ReadPart
    <2> QED
      BY <2>3, <2>4, <2>5, <2>6, TypesUntouched DEF TypeInv, TypeOK
  <1>5. CASE CountFrame
    <2>1. flow_id \in Flows /\ Increase(remain_buf_cnt[flow_id]) \in 0 .. SIZE_MAX
      BY <1>5, <1>t, CountSteps DEF CountFrame, RingType
    <2>2. RingType'
      BY <1>5, <1>t, <2>1 DEF CountFrame, RingType
    <2>3. WorkerType' /\ WorkerAtFlow'
      BY <1>5, <1>t, <2>1 DEF CountFrame
    <2>4. UNCHANGED <<infoVars, userVars, controlVars, deviceVars, delivered>>
      BY <1>5 DEF CountFrame
    <2> QED
      BY <2>2, <2>3, <2>4, TypesUntouched DEF TypeInv, TypeOK
  <1>6. CASE AdvanceEntry
    <2>1. /\ flow_id \in Flows /\ NextEntry(entry_w[flow_id]) \in Slots
          /\ flow_id + 1 \in 0 .. NF
      BY <1>6, <1>t, NextEntryInSlots, OfmapAssumption DEF AdvanceEntry, Flows, RingType
    <2>2. RingType'
      BY <1>6, <1>t, <2>1 DEF AdvanceEntry, RingType
    <2>3. WorkerType' /\ WorkerAtFlow'
      BY <1>6, <2>1 DEF AdvanceEntry
    <2>4. UNCHANGED <<infoVars, userVars, controlVars, deviceVars, delivered>>
      BY <1>6 DEF AdvanceEntry
    <2> QED
      BY <2>2, <2>3, <2>4, TypesUntouched DEF TypeInv, TypeOK
  <1> QED
    BY <1>1, <1>2, <1>4, <1>5, <1>6 DEF Worker

(* The steps of a reader keep the types. *)
LEMMA TypeInvReader ==
    ASSUME TypeInv, NEW u \in Readers, Reader(u) PROVE TypeInv'
  <1> DEFINE f == uflow[u]
  <1>1. /\ f \in Flows /\ entry_r[f] \in Slots /\ read_buf_idx[f] \in Slots
        /\ remain_buf_cnt[f] \in 0 .. SIZE_MAX /\ data[f] \in [Slots -> Contents]
        /\ ucopy[u] \in Contents /\ delivered[f] \in Seq(Contents)
        /\ held[f] \in Seq([idx : Slots, frame : Contents])
    BY DEF TypeInv, TypeOK, RingType, ReaderType, DeviceType
  <1>t. RingType /\ ReaderType /\ DeviceType
    BY DEF TypeInv, TypeOK
  <1>2. NextEntry(entry_r[f]) \in Slots /\ NextEntry(read_buf_idx[f]) \in Slots
    BY <1>1, NextEntryInSlots
  <1>3. /\ UNCHANGED <<infoVars, workerVars, controlVars, deviceVars>>
    BY DEF Reader, ReadLock, ReadTimeout, ReadClaim, StreamCopy, StreamRelease,
       DequeueTake, EnqueueRelease
  <1>4. ASSUME RingType', ReaderType', DeviceType' PROVE TypeInv'
    BY <1>3, <1>4, TypesUntouched DEF TypeInv, TypeOK
  <1> USE DEF ReaderPCs
  <1>5. CASE ReadLock(u) \/ ReadTimeout(u) \/ EnqueueRelease(u)
    <2>1. RingType'
      <3>1. CASE ReadLock(u) \/ ReadTimeout(u)
        <4>1. \E x \in Readers \cup {NoReader} : read_guard' = [read_guard EXCEPT ![f] = x]
          BY <3>1 DEF ReadLock, ReadTimeout
        <4>2. read_guard' \in [Flows -> Readers \cup {NoReader}]
          BY <1>1, <1>t, <4>1 DEF RingType
        <4>3. UNCHANGED <<entry_w, entry_r, remain_buf_cnt, read_buf_idx,
                          transferred, data, write_guard>>
          BY <3>1 DEF ReadLock, ReadTimeout
        <4> QED
          BY <1>t, <4>2, <4>3 DEF RingType
      <3>2. CASE EnqueueRelease(u)
        BY <1>1, <1>2, <1>t, <3>2 DEF EnqueueRelease, RingType
      <3> QED
        BY <1>5, <3>1, <3>2
    <2>2. ReaderType'
      BY <1>5, <1>t DEF ReadLock, ReadTimeout, EnqueueRelease, ReaderType
    <2>3. UNCHANGED <<deviceVars, delivered>>
      BY <1>5 DEF ReadLock, ReadTimeout, EnqueueRelease
    <2> QED
      BY <1>4, <2>1, <2>2, <2>3, TypesUntouched
  <1>6. CASE ReadClaim(u)
    <2>1. Decrease(remain_buf_cnt[f]) \in 0 .. SIZE_MAX
      BY <1>1, CountSteps
    <2>2. RingType' /\ ReaderType'
      BY <1>1, <1>6, <1>t, <2>1 DEF ReadClaim, RingType, ReaderType
    <2>3. UNCHANGED <<deviceVars, delivered>>
      BY <1>6 DEF ReadClaim
    <2> QED
      BY <1>4, <2>2, <2>3, TypesUntouched
  <1>7. CASE StreamCopy(u)
    <2>1. data[f][entry_r[f]] \in Contents
      BY <1>1
    <2>2. ReaderType'
      BY <1>1, <1>7, <1>t, <2>1 DEF StreamCopy, ReaderType
    <2>3. UNCHANGED <<ringVars, deviceVars, delivered>>
      BY <1>7 DEF StreamCopy
    <2> QED
      BY <1>4, <2>2, <2>3, TypesUntouched
  <1>8. CASE StreamRelease(u)
    <2>1. Append(delivered[f], ucopy[u]) \in Seq(Contents)
      BY <1>1, AppendProperties
    <2>2. RingType' /\ ReaderType'
      BY <1>1, <1>2, <1>8, <1>t DEF StreamRelease, RingType, ReaderType
    <2>3. DeviceType'
      BY <1>1, <1>8, <1>t, <2>1 DEF StreamRelease, DeviceType, deviceVars
    <2> QED
      BY <1>4, <2>2, <2>3
  <1>9. CASE DequeueTake(u)
    <2> DEFINE i == read_buf_idx[f]
               x == [idx |-> i, frame |-> data[f][i]]
    <2>1. data[f][i] \in Contents /\ x \in [idx : Slots, frame : Contents]
      BY <1>1
    <2>2. Append(delivered[f], data[f][i]) \in Seq(Contents)
      BY <1>1, <2>1, AppendProperties
    <2>3. Append(held[f], x) \in Seq([idx : Slots, frame : Contents])
      BY <1>1, <2>1, AppendProperties
    <2>4. held' = [held EXCEPT ![f] = Append(held[f], x)]
      BY <1>9 DEF DequeueTake
    <2>5. held' \in [Flows -> Seq([idx : Slots, frame : Contents])]
      <3> HIDE DEF x
      <3> QED
        BY <1>1, <1>t, <2>3, <2>4 DEF ReaderType
    <2>6. RingType' /\ ReaderType'
      BY <1>1, <1>2, <1>9, <1>t, <2>5 DEF DequeueTake, RingType, ReaderType
    <2>7. DeviceType'
      BY <1>1, <1>9, <1>t, <2>2 DEF DequeueTake, DeviceType, deviceVars
    <2> QED
      BY <1>4, <2>6, <2>7
  <1> QED
    BY <1>5, <1>6, <1>7, <1>8, <1>9 DEF Reader

(* A list of buffers without the one that comes back. *)
LEMMA GivenBack ==
    ASSUME NEW S, NEW s \in Seq(S), NEW k \in 1 .. Len(s)
    PROVE  /\ SubSeq(s, 1, k - 1) \o SubSeq(s, k + 1, Len(s)) \in Seq(S)
           /\ Len(SubSeq(s, 1, k - 1) \o SubSeq(s, k + 1, Len(s))) = Len(s) - 1
           /\ k = 1 => \A j \in 1 .. Len(s) - 1 :
                 (SubSeq(s, 1, k - 1) \o SubSeq(s, k + 1, Len(s)))[j] = s[j + 1]
  <1> DEFINE l == Len(s)
             a == SubSeq(s, 1, k - 1)
             b == SubSeq(s, k + 1, l)
  <1>1. l \in Nat /\ \A i \in 1 .. l : s[i] \in S
    BY ElementOfSeq
  <1> HIDE DEF l
  <1>2. k \in 1 .. l
    BY DEF l
  <1>3. /\ 1 \in Int /\ k - 1 \in Int /\ k + 1 \in Int /\ l \in Int
        /\ \A i \in 1 .. k - 1 : s[i] \in S
        /\ \A i \in k + 1 .. l : s[i] \in S
    BY <1>1, <1>2
  <1>4. /\ a \in Seq(S) /\ Len(a) = IF 1 <= k - 1 THEN k - 1 - 1 + 1 ELSE 0
    BY <1>3, SubSeqProperties
  <1>5. /\ b \in Seq(S) /\ Len(b) = IF k + 1 <= l THEN l - (k + 1) + 1 ELSE 0
        /\ \A i \in 1 .. l - (k + 1) + 1 : b[i] = s[k + 1 + i - 1]
    BY <1>3, SubSeqProperties
  <1> HIDE DEF a, b
  <1>6. /\ a \o b \in Seq(S) /\ Len(a \o b) = Len(a) + Len(b)
        /\ \A i \in 1 .. Len(a) + Len(b) : (a \o b)[i] =
               IF i <= Len(a) THEN a[i] ELSE b[i - Len(a)]
    BY <1>4, <1>5, ConcatProperties
  <1>7. Len(a) = k - 1 /\ Len(b) = l - k
    BY <1>1, <1>2, <1>4, <1>5
  <1>8. Len(a \o b) = l - 1
    BY <1>1, <1>2, <1>6, <1>7
  <1>9. ASSUME k = 1, NEW j \in 1 .. l - 1 PROVE (a \o b)[j] = s[j + 1]
    <2>1. (a \o b)[j] = b[j]
      <3>1. Len(a) = 0 /\ j \in 1 .. Len(a) + Len(b) /\ ~(j <= Len(a)) /\ j - Len(a) = j
        BY <1>1, <1>2, <1>7, <1>9
      <3> QED
        BY <1>6, <3>1
    <2>2. b[j] = s[j + 1]
      <3>1. j \in 1 .. l - (k + 1) + 1 /\ k + 1 + j - 1 = j + 1
        BY <1>1, <1>9
      <3> QED
        BY <1>5, <3>1
    <2> QED
      BY <2>1, <2>2
  <1> QED
    BY <1>6, <1>8, <1>9 DEF a, b, l

(* Every step keeps the types. *)
LEMMA TypeInvNext == TypeInv /\ [Next]_vars => TypeInv'
  <1> SUFFICES ASSUME TypeInv, [Next]_vars PROVE TypeInv'
    OBVIOUS
  <1>1. CASE Worker \/ SpuriousWakeup
    BY <1>1, TypeInvWorker
  <1>2. ASSUME NEW u \in Readers, Reader(u) PROVE TypeInv'
    BY <1>2, TypeInvReader
  <1>t. InfoType /\ WorkerType /\ WorkerAtFlow /\ ReaderType /\ ControlType /\ DeviceType
    BY DEF TypeInv, TypeOK
  <1>3. ASSUME NEW u \in Readers, NEW f \in Flows, NEW timed \in BOOLEAN,
               ReadCall(u, f, timed)
        PROVE  TypeInv'
    <2>1. calls' \in 0 .. MaxCalls
      BY <1>3, <1>t, OfmapAssumption DEF ReadCall, ReaderType
    <2>2. ReaderType'
      BY <1>3, <1>t, <2>1 DEF ReadCall, ReaderType, ReaderPCs
    <2>3. UNCHANGED <<ringVars, infoVars, workerVars, controlVars, deviceVars, delivered>>
      BY <1>3 DEF ReadCall
    <2> QED
      BY <2>2, <2>3, TypesUntouched DEF TypeInv, TypeOK
  <1>4. ASSUME NEW u \in Readers, NEW f \in Flows, NEW k \in 1 .. N,
               EnqueueCall(u, f, k)
        PROVE  TypeInv'
    <2> DEFINE S == [idx : Slots, frame : Contents]
               rest == SubSeq(held[f], 1, k - 1) \o SubSeq(held[f], k + 1, Len(held[f]))
    <2>1. held[f] \in Seq(S) /\ k \in 1 .. Len(held[f])
      BY <1>4, <1>t DEF EnqueueCall, ReaderType
    <2>2. rest \in Seq(S)
      <3> HIDE DEF S
      <3> QED
        BY <2>1, GivenBack
    <2>3. held' = [held EXCEPT ![f] = rest]
      BY <1>4 DEF EnqueueCall
    <2>4. held' \in [Flows -> Seq(S)]
      <3> HIDE DEF rest
      <3> QED
        BY <1>t, <2>2, <2>3 DEF ReaderType
    <2> HIDE DEF rest
    <2>5. ReaderType'
      BY <1>4, <1>t, <2>4 DEF EnqueueCall, ReaderType, ReaderPCs
    <2>6. UNCHANGED <<ringVars, infoVars, workerVars, controlVars, deviceVars, delivered>>
      BY <1>4 DEF EnqueueCall
    <2> QED
      BY <2>5, <2>6, TypesUntouched DEF TypeInv, TypeOK
  <1>5. CASE Control \/ DestroyDisable
    <2>1. InfoType' /\ WorkerType' /\ WorkerAtFlow' /\ ControlType'
      BY <1>5, <1>t DEF Control, StateEntered, DestroySignal, DestroyJoin,
         DestroyDisable, GoToState, Wake, infoVars, workerVars, controlVars,
         InfoType, WorkerType, WorkerAtFlow, ControlType, ControlPCs, WorkerPCs
    <2>2. UNCHANGED <<ringVars, userVars, deviceVars, delivered>>
      BY <1>5 DEF Control, StateEntered, DestroySignal, DestroyJoin, DestroyDisable
    <2> QED
      BY <2>1, <2>2, TypesUntouched DEF TypeInv, TypeOK
  <1>6. CASE UNCHANGED vars
    BY <1>6, TypesUntouched DEF vars, TypeInv, TypeOK
  <1>7. ASSUME NEW wait \in BOOLEAN, SetStreamEnable(wait) \/ SetStreamDisable(wait)
        PROVE  TypeInv'
    <2>1. controls' \in 0 .. MaxControl
      BY <1>7, <1>t, OfmapAssumption DEF SetStreamEnable, SetStreamDisable, ControlType
    <2>2. InfoType' /\ WorkerType' /\ WorkerAtFlow' /\ ControlType'
      BY <1>7, <1>t, <2>1 DEF SetStreamEnable, SetStreamDisable, GoToState,
         Wake, InfoType, WorkerType, WorkerAtFlow, ControlType, ControlPCs, WorkerPCs
    <2>3. UNCHANGED <<ringVars, userVars, deviceVars, delivered>>
      BY <1>7 DEF SetStreamEnable, SetStreamDisable
    <2> QED
      BY <2>2, <2>3, TypesUntouched DEF TypeInv, TypeOK
  <1>8. ASSUME NEW f \in Flows, Arrive(f) PROVE TypeInv'
    <2> DEFINE l == MaxFrames * Parts
    <2>1. l \in Nat /\ arrived \in [Flows -> 0 .. l] /\ arrived[f] < l
          /\ fetched \in [Flows -> 0 .. l] /\ delivered \in [Flows -> Seq(Contents)]
          /\ arrived' = [arrived EXCEPT ![f] = arrived[f] + 1]
          /\ UNCHANGED <<fetched, delivered>>
      BY <1>8, <1>t, OfmapAssumption DEF Arrive, DeviceType
    <2>2. /\ arrived' \in [Flows -> 0 .. l] /\ fetched' \in [Flows -> 0 .. l]
          /\ delivered' \in [Flows -> Seq(Contents)]
      <3> HIDE DEF l
      <3> QED
        BY <2>1
    <2>3. DeviceType'
      BY <2>2 DEF DeviceType
    <2>4. UNCHANGED <<ringVars, infoVars, workerVars, userVars, controlVars>>
      BY <1>8 DEF Arrive
    <2> QED
      BY <2>3, <2>4, TypesUntouched DEF TypeInv, TypeOK
  <1> QED
    BY <1>1, <1>2, <1>3, <1>4, <1>5, <1>6, <1>7, <1>8 DEF Next

(* The state of the output path stays in its types: ring pointers in the   *)
(* ring, the count in a size_t, parts within their frame.                  *)
THEOREM TypeCorrect == Spec => []TypeOK
  <1>1. TypeInv => TypeOK
    BY DEF TypeInv
  <1> QED
    BY TypeInvInit, TypeInvNext, <1>1, PTL DEF Spec

-----------------------------------------------------------------------------
(* What set_stream_disable(wait = 1) rests on.  The state reads "pending"  *)
(* only while the worker is between two rounds, the stream is not enabled  *)
(* again while the call waits, and destroy clears enable before anything   *)
(* else.                                                                   *)
Destroying == cpc \in {"stop", "join", "destroyed"}

ControlInv ==
    /\ enable = 0 <=> Destroying
    /\ state = "pending" => wpc \in {"top", "gate", "asleep", "exit"}
    /\ cpc = "wait_pending" => state_next = "pending"
    /\ cpc = "wait_running" => ~quiesced
    /\ wpc = "exit" => enable = 0

WorkerHeld ==
    quiesced /\ enable = 1 =>
        state_next = "pending" /\ wpc \in {"top", "gate", "asleep"}

QuietInv == ControlInv /\ WorkerHeld

(* Every step keeps it. *)
LEMMA QuietInvNext == TypeInv /\ QuietInv /\ [Next]_vars => QuietInv'
  <1> SUFFICES ASSUME TypeInv, QuietInv, [Next]_vars PROVE QuietInv'
    OBVIOUS
  <1> USE DEF QuietInv, ControlInv, WorkerHeld, Destroying
  <1>1. enable \in {0, 1} /\ quiesced \in BOOLEAN
    BY DEF TypeInv, TypeOK, InfoType, ControlType
  <1>2. CASE WorkerTop \/ WorkerSleep \/ SpuriousWakeup \/ WorkerGo
    BY <1>1, <1>2 DEF WorkerTop, WorkerSleep, SpuriousWakeup, WorkerGo,
       MustSleep, infoVars, controlVars
  <1>3. CASE \/ ScanFlow \/ ScanDone \/ ReadNothing \/ ReadPart
             \/ CountFrame \/ AdvanceEntry
    <2>1. /\ UNCHANGED <<enable, state, state_next, cpc, quiesced>>
          /\ wpc \in {"scan", "read", "count", "advance"}
          /\ wpc' \in {"scan", "read", "count", "advance", "top"}
          /\ wpc' = "top" => wpc = "scan"
      BY <1>3 DEF ScanFlow, ScanDone, ReadNothing, ReadPart, CountFrame,
         AdvanceEntry, infoVars, controlVars
    <2> QED
      BY <1>1, <2>1
  <1>4. CASE \/ UNCHANGED vars \/ \E u \in Readers : Reader(u)
             \/ \E u \in Readers, f \in Flows, timed \in BOOLEAN : ReadCall(u, f, timed)
             \/ \E u \in Readers, f \in Flows, k \in 1 .. N : EnqueueCall(u, f, k)
             \/ \E f \in Flows : Arrive(f)
    <2>1. UNCHANGED <<enable, state, state_next, cpc, quiesced, wpc>>
      BY <1>4 DEF vars, Reader, ReadLock, ReadTimeout, ReadClaim, StreamCopy,
         StreamRelease, DequeueTake, EnqueueRelease, ReadCall, EnqueueCall,
         Arrive, infoVars, workerVars, controlVars
    <2> QED
      BY <1>1, <2>1
  <1>5. CASE \/ DestroyDisable
             \/ \E wait \in BOOLEAN : SetStreamEnable(wait) \/ SetStreamDisable(wait)
    BY <1>1, <1>5 DEF DestroyDisable, SetStreamEnable, SetStreamDisable,
       GoToState, Wake, workerVars
  <1>6. CASE Control
    BY <1>1, <1>6 DEF Control, StateEntered, Entered, DestroySignal,
       DestroyJoin, GoToState, Wake, infoVars, workerVars
  <1> QED
    BY <1>2, <1>3, <1>4, <1>5, <1>6 DEF Next, Worker

(* Between the return of set_stream_disable(wait = 1) and the next         *)
(* set_stream_enable or the destruction, the worker takes nothing from     *)
(* the interface driver.                                                   *)
THEOREM QuietWhenDisabledHolds == Spec => QuietWhenDisabled
  <1>1. Init => TypeInv /\ QuietInv
    BY TypeInvInit DEF Init, QuietInv, ControlInv, WorkerHeld, Destroying
  <1>2. TypeInv /\ QuietInv /\ [Next]_vars
            => [quiesced /\ enable = 1 => fetched' = fetched]_vars
    <2> SUFFICES ASSUME QuietInv, Next, quiesced, enable = 1 PROVE fetched' = fetched
      BY DEF vars
    <2>1. wpc # "read"
      BY DEF QuietInv, WorkerHeld
    <2>2. CASE Worker
      BY <2>1, <2>2 DEF Worker, WorkerTop, WorkerSleep, WorkerGo, ScanFlow,
         ScanDone, ReadNothing, ReadPart, CountFrame, AdvanceEntry, deviceVars
    <2>3. ASSUME NEW u \in Readers, Reader(u) PROVE fetched' = fetched
      BY <2>3 DEF Reader, ReadLock, ReadTimeout, ReadClaim, StreamCopy,
         StreamRelease, DequeueTake, EnqueueRelease, deviceVars
    <2>4. ASSUME NEW u \in Readers, NEW f \in Flows,
                 \/ \E timed \in BOOLEAN : ReadCall(u, f, timed)
                 \/ \E k \in 1 .. N : EnqueueCall(u, f, k)
          PROVE  fetched' = fetched
      BY <2>4 DEF ReadCall, EnqueueCall, deviceVars
    <2>5. CASE Control
      BY <2>5 DEF Control, StateEntered, DestroySignal, DestroyJoin, deviceVars
    <2>6. CASE SpuriousWakeup \/ DestroyDisable \/ \E f \in Flows : Arrive(f)
      BY <2>6 DEF SpuriousWakeup, DestroyDisable, Arrive, deviceVars
    <2>7. ASSUME NEW wait \in BOOLEAN, SetStreamEnable(wait) \/ SetStreamDisable(wait)
          PROVE  fetched' = fetched
      BY <2>7 DEF SetStreamEnable, SetStreamDisable, deviceVars
    <2> QED
      BY <2>2, <2>3, <2>4, <2>5, <2>6, <2>7 DEF Next
  <1> QED
    BY TypeInvNext, QuietInvNext, <1>1, <1>2, PTL DEF Spec, QuietWhenDisabled

-----------------------------------------------------------------------------
(* The inductive invariant of the rings.  Fresh frames of a flow are       *)
(* complete and untaken, lent ones taken and not given back; the worker is *)
(* adding the frame at entry_w from its last part to the step of the       *)
(* pointer.  Lent and fresh frames lie one behind the other and do not     *)
(* overrun each other.                                                     *)
Fresh(f) == Occupied(entry_w[f], FirstUntaken(f))
Lent(f) == Occupied(FirstUntaken(f), entry_r[f])
RingInv(f) == Occupied(entry_w[f], entry_r[f]) = Fresh(f) + Lent(f)

Adding(f) == wpc \in {"count", "advance"} /\ flow_id = f
Advancing(f) == wpc = "advance" /\ flow_id = f

(* Every part that was read is in a frame delivered, fresh, being added or *)
(* incomplete at entry_w.                                                  *)
Complete(f) == Len(delivered[f]) + Fresh(f) + (IF Adding(f) THEN 1 ELSE 0)

PartsInv(f) ==
    /\ fetched[f] = Complete(f) * Parts + transferred[f]
    /\ Adding(f) => transferred[f] = 0

(* The fresh slots hold the next frames to deliver, the slot at entry_w    *)
(* the one after them as far as it has come.                               *)
FreshSlots(f) ==
    \A j \in 0 .. Fresh(f) - 1 :
        data[f][SlotAfter(FirstUntaken(f), j)] = Whole(Len(delivered[f]) + j + 1)

GrowingSlot(f) ==
    \A p \in 1 .. Parts :
        p <= transferred[f] \/ Adding(f) =>
            data[f][entry_w[f]][p] = Len(delivered[f]) + Fresh(f) + 1

DeliveredInv(f) ==
    \A k \in 1 .. Len(delivered[f]) : delivered[f][k] = Whole(k)

CountInv(f) ==
    /\ remain_buf_cnt[f] + (IF Claimed(f) = {} THEN 0 ELSE 1)
         = Fresh(f) + (IF write_guard[f] THEN 1 ELSE 0)
    /\ write_guard[f] <=> Advancing(f)

(* Buffers are lent only on flows that are dequeued, and each slot between *)
(* entry_r and the next to lend is held or on its way back.                *)
Returning(f) == {u \in Readers : upc[u] = "giveback" /\ uflow[u] = f}

LentInv(f) ==
    IF reads[f] = "stream"
      THEN held[f] = <<>> /\ Returning(f) = {}
      ELSE Lent(f) = Len(held[f]) + Cardinality(Returning(f))

FlowInv(f) ==
    /\ RingInv(f) /\ PartsInv(f) /\ FreshSlots(f) /\ GrowingSlot(f)
    /\ DeliveredInv(f) /\ CountInv(f) /\ LentInv(f)

(* The worker found space and nobody takes it away. *)
SpaceFound == wpc \in {"read", "count", "advance"} => ~Full(flow_id)

(* A reader past the lock is alone on its flow, and has a frame once it    *)
(* has claimed one.                                                        *)
ReaderInv(u) ==
    /\ upc[u] \in {"poll", "take", "release"} => read_guard[uflow[u]] = u
    /\ upc[u] \in {"take", "release"} => Fresh(uflow[u]) >= 1
    /\ upc[u] = "release" =>
          /\ reads[uflow[u]] = "stream"
          /\ ucopy[u] = Whole(Len(delivered[uflow[u]]) + 1)

OutputInv ==
    /\ SpaceFound
    /\ \A u \in Readers : ReaderInv(u)
    /\ \A f \in Flows : FlowInv(f)

(* The kinds of a flow, and where its next reader takes. *)
LEMMA FirstIsPointer ==
    ASSUME TypeInv, NEW f \in Flows
    PROVE  /\ reads[f] \in {"stream", "dequeue"}
           /\ reads[f] = "stream" => FirstUntaken(f) = entry_r[f]
           /\ reads[f] = "dequeue" => FirstUntaken(f) = read_buf_idx[f]
           /\ FirstUntaken(f) \in Slots
           /\ entry_w[f] \in Slots /\ entry_r[f] \in Slots /\ read_buf_idx[f] \in Slots
  BY OfmapAssumption DEF TypeInv, TypeOK, RingType, ReaderType, FirstUntaken

(* The numbers of a flow. *)
LEMMA FlowNumbers ==
    ASSUME TypeInv, OutputInv, NEW f \in Flows
    PROVE  /\ Fresh(f) \in 0 .. N - 1 /\ Lent(f) \in 0 .. N - 1
           /\ Fresh(f) + Lent(f) \in 0 .. N - 1
           /\ Occupied(entry_w[f], entry_r[f]) = Fresh(f) + Lent(f)
           /\ Len(delivered[f]) \in Nat /\ Len(held[f]) \in Nat
           /\ transferred[f] \in 0 .. Parts - 1
           /\ fetched[f] \in Nat
           /\ remain_buf_cnt[f] \in 0 .. SIZE_MAX
           /\ Adding(f) \in BOOLEAN /\ write_guard[f] \in BOOLEAN
           /\ ~Full(f) => Fresh(f) + Lent(f) <= N - 2
  <1>1. /\ FirstUntaken(f) \in Slots /\ entry_w[f] \in Slots /\ entry_r[f] \in Slots
    BY FirstIsPointer
  <1>2. /\ Fresh(f) \in 0 .. N - 1 /\ Lent(f) \in 0 .. N - 1
        /\ Occupied(entry_w[f], entry_r[f]) \in 0 .. N - 1
    BY <1>1, OccupiedRange DEF Fresh, Lent
  <1>3. Occupied(entry_w[f], entry_r[f]) = Fresh(f) + Lent(f)
    BY DEF OutputInv, FlowInv, RingInv
  <1>4. Full(f) <=> Occupied(entry_w[f], entry_r[f]) = N - 1
    BY <1>1, FullIsOccupied DEF Full
  <1>5. fetched[f] \in Nat
    <2>1. fetched[f] \in 0 .. MaxFrames * Parts
      BY DEF TypeInv, TypeOK, DeviceType
    <2>2. MaxFrames * Parts \in Nat
      BY OfmapAssumption
    <2> DEFINE l == MaxFrames * Parts
    <2> HIDE DEF l
    <2> QED
      BY <2>1, <2>2
  <1>6. /\ Len(delivered[f]) \in Nat /\ Len(held[f]) \in Nat
        /\ transferred[f] \in 0 .. Parts - 1
        /\ remain_buf_cnt[f] \in 0 .. SIZE_MAX
        /\ write_guard[f] \in BOOLEAN
    BY DEF TypeInv, TypeOK, RingType, ReaderType, DeviceType
  <1>7. Adding(f) \in BOOLEAN
    BY DEF Adding
  <1>8. ~Full(f) => Fresh(f) + Lent(f) <= N - 2
    <2>1. N \in Nat
      BY OfmapAssumption
    <2> DEFINE o == Occupied(entry_w[f], entry_r[f])
               x == Fresh(f)
               y == Lent(f)
    <2> HIDE DEF o, x, y
    <2>2. o \in 0 .. N - 1 /\ o # N - 1 /\ o = x + y => x + y <= N - 2
      BY <2>1
    <2> QED
      BY <1>2, <1>3, <1>4, <2>2 DEF o, x, y
  <1>9. Fresh(f) + Lent(f) \in 0 .. N - 1
    BY <1>2, <1>3
  <1> QED
    BY <1>2, <1>3, <1>5, <1>6, <1>7, <1>8, <1>9

(* A flow whose ring, parts and readers a step leaves alone keeps its      *)
(* invariant.                                                              *)
RingKept(f) ==
    /\ entry_w'[f] = entry_w[f] /\ entry_r'[f] = entry_r[f]
    /\ read_buf_idx'[f] = read_buf_idx[f]
    /\ remain_buf_cnt'[f] = remain_buf_cnt[f]
    /\ transferred'[f] = transferred[f] /\ data'[f] = data[f]
    /\ write_guard'[f] = write_guard[f] /\ reads'[f] = reads[f]
    /\ held'[f] = held[f] /\ fetched'[f] = fetched[f]
    /\ delivered'[f] = delivered[f]
    /\ Adding(f)' <=> Adding(f)
    /\ Advancing(f)' <=> Advancing(f)
    /\ Claimed(f)' = Claimed(f)
    /\ Returning(f)' = Returning(f)

(* Nothing in the invariant of a flow depends on anything else. *)
LEMMA FlowUntouched ==
    ASSUME NEW f, FlowInv(f), RingKept(f) PROVE FlowInv(f)'
  <1> USE DEF FlowInv, RingKept
  <1>1. FirstUntaken(f)' = FirstUntaken(f)
    BY DEF FirstUntaken
  <1>2. Fresh(f)' = Fresh(f) /\ Lent(f)' = Lent(f)
    BY <1>1 DEF Fresh, Lent
  <1>3. RingInv(f)'
    BY <1>2 DEF RingInv
  <1>4. PartsInv(f)'
    BY <1>2 DEF PartsInv, Complete
  <1>5. FreshSlots(f)' /\ GrowingSlot(f)'
    BY <1>1, <1>2 DEF FreshSlots, GrowingSlot
  <1>6. DeliveredInv(f)' /\ CountInv(f)' /\ LentInv(f)'
    BY <1>2 DEF DeliveredInv, CountInv, LentInv
  <1> QED
    BY <1>3, <1>4, <1>5, <1>6

(* The initial states. *)
LEMMA OutputInvInit == Init => OutputInv
  <1> SUFFICES ASSUME Init PROVE OutputInv
    OBVIOUS
  <1>1. SpaceFound /\ \A u \in Readers : ReaderInv(u)
    BY DEF Init, SpaceFound, ReaderInv
  <1>2. ASSUME NEW f \in Flows PROVE FlowInv(f)
    <2>1. Fresh(f) = 0 /\ Lent(f) = 0 /\ Occupied(entry_w[f], entry_r[f]) = 0
      BY <1>2 DEF Init, Fresh, Lent, FirstUntaken, Occupied
    <2>2. Claimed(f) = {} /\ Returning(f) = {} /\ ~Adding(f) /\ ~Advancing(f)
      BY DEF Init, Claimed, Returning, Adding, Advancing
    <2>3. /\ Len(delivered[f]) = 0 /\ held[f] = <<>> /\ Len(held[f]) = 0
          /\ transferred[f] = 0 /\ fetched[f] = 0 /\ remain_buf_cnt[f] = 0
          /\ write_guard[f] = FALSE
      BY DEF Init
    <2>4. Cardinality({}) = 0
      BY FS_EmptySet
    <2>5. PartsInv(f)
      <3>1. Complete(f) = 0
        BY <2>1, <2>2, <2>3 DEF Complete
      <3>2. 0 * Parts = 0
        BY OfmapAssumption
      <3> QED
        BY <2>2, <2>3, <3>1, <3>2 DEF PartsInv
    <2>6. FreshSlots(f) /\ DeliveredInv(f)
      BY <2>1, <2>3 DEF FreshSlots, DeliveredInv
    <2>7. GrowingSlot(f)
      BY <2>2, <2>3 DEF GrowingSlot
    <2>8. CountInv(f) /\ LentInv(f) /\ RingInv(f)
      BY <2>1, <2>2, <2>3, <2>4 DEF CountInv, LentInv, RingInv
    <2> QED
      BY <2>5, <2>6, <2>7, <2>8 DEF FlowInv
  <1> QED
    BY <1>1, <1>2 DEF OutputInv

(* Readers are not disturbed by steps that take no frame from them. *)
LEMMA ReadersUntouched ==
    ASSUME TypeInv, OutputInv,
           UNCHANGED <<upc, uflow, ucopy, reads, read_guard, delivered>>,
           \A g \in Flows : Fresh(g)' \in Int /\ Fresh(g)' >= Fresh(g)
    PROVE  \A u \in Readers : ReaderInv(u)'
  <1> SUFFICES ASSUME NEW u \in Readers PROVE ReaderInv(u)'
    OBVIOUS
  <1>1. PICK g \in Flows : g = uflow[u]
    BY DEF TypeInv, TypeOK, ReaderType
  <1>2. g = uflow'[u]
    BY <1>1
  <1>3. /\ upc[u] \in {"poll", "take", "release"} => read_guard[g] = u
        /\ upc[u] \in {"take", "release"} => Fresh(g) >= 1
        /\ upc[u] = "release" =>
              reads[g] = "stream" /\ ucopy[u] = Whole(Len(delivered[g]) + 1)
    BY <1>1 DEF OutputInv, ReaderInv
  <1>4. Fresh(g) \in Int
    BY FlowNumbers, OfmapAssumption
  <1>5. upc[u] \in {"take", "release"} => Fresh(g)' >= 1
    BY <1>3, <1>4
  <1> QED
    BY <1>2, <1>3, <1>5 DEF ReaderInv

(* Steps that touch no ring at all: those of the worker between transfers, *)
(* of the control thread and of the device.                                *)
LEMMA OutputUntouched ==
    ASSUME TypeInv, OutputInv,
           UNCHANGED <<ringVars, userVars, fetched, delivered>>,
           \/ wpc \notin {"read", "count", "advance"} /\ wpc' \notin {"read", "count", "advance"}
           \/ wpc' = wpc /\ flow_id' = flow_id
           \/ wpc = "scan" /\ wpc' = "read" /\ flow_id' = flow_id /\ ~Full(flow_id)
           \/ wpc = "read" /\ wpc' = "scan"
    PROVE  OutputInv'
  <1> USE DEF ringVars, userVars
  <1>1. SpaceFound'
    <2>1. flow_id' = flow_id => (Full(flow_id)' <=> Full(flow_id))
      BY DEF Full
    <2> QED
      BY <2>1 DEF OutputInv, SpaceFound
  <1>2. ASSUME NEW f \in Flows PROVE FlowInv(f)'
    <2>1. (Adding(f)' <=> Adding(f)) /\ (Advancing(f)' <=> Advancing(f))
      BY DEF Adding, Advancing
    <2>2. Claimed(f)' = Claimed(f) /\ Returning(f)' = Returning(f)
      BY DEF Claimed, Returning
    <2>3. RingKept(f)
      BY <2>1, <2>2 DEF RingKept
    <2> QED
      BY <2>3, FlowUntouched DEF OutputInv
  <1>3. \A g \in Flows : Fresh(g)' \in Int /\ Fresh(g)' >= Fresh(g)
    <2> SUFFICES ASSUME NEW g \in Flows PROVE Fresh(g)' \in Int /\ Fresh(g)' >= Fresh(g)
      OBVIOUS
    <2>1. Fresh(g)' = Fresh(g)
      BY DEF Fresh, FirstUntaken
    <2>2. Fresh(g) \in Int
      BY FlowNumbers, OfmapAssumption
    <2> QED
      BY <2>1, <2>2
  <1>4. \A u \in Readers : ReaderInv(u)'
    BY <1>3, ReadersUntouched
  <1> QED
    BY <1>1, <1>2, <1>4 DEF OutputInv

(* A part read goes to the frame that grows at entry_w. *)
LEMMA OutputReadPart ==
    ASSUME TypeInv, OutputInv, ReadPart PROVE OutputInv'
  <1>1. PICK f \in Flows : f = flow_id
    BY DEF ReadPart, TypeInv, WorkerAtFlow
  <1> DEFINE n == transferred[f] + 1
             v == (fetched[f] \div Parts) + 1
             w == entry_w[f]
             r == FirstUntaken(f)
             x == Fresh(f)
             l == Len(delivered[f])
             t == transferred[f]
             c == Complete(f)
             a == fetched[f]
  <1>2. /\ UNCHANGED <<entry_w, entry_r, remain_buf_cnt, read_buf_idx,
                       write_guard, read_guard, delivered, reads, upc, uflow,
                       ucopy, held>>
        /\ wpc = "read" /\ wpc' \in {"count", "scan"}
        /\ wpc' = "count" <=> n = Parts
        /\ wpc' = "count" => flow_id' = f
        /\ fetched' = [fetched EXCEPT ![f] = a + 1]
        /\ transferred' = [transferred EXCEPT ![f] = IF n = Parts THEN 0 ELSE n]
    BY <1>1 DEF ReadPart, FrameDone, userVars
  <1>3. /\ \A g \in Flows : g # f => data'[g] = data[g]
        /\ \A i \in Slots : i # w => data'[f][i] = data[f][i]
        /\ \A p \in 1 .. Parts :
              data'[f][w][p] = IF p = n THEN v ELSE data[f][w][p]
    BY <1>1, PartWritten
  <1>4. /\ x \in 0 .. N - 1 /\ l \in Nat /\ t \in 0 .. Parts - 1 /\ a \in Nat
        /\ FlowInv(f)
    BY FlowNumbers DEF OutputInv
  <1>5. /\ r \in Slots /\ w \in Slots
    BY FirstIsPointer
  <1>6. \A g \in Flows : /\ ~Adding(g) /\ ~Advancing(g) /\ ~Advancing(g)'
                         /\ Adding(g)' <=> g = f /\ n = Parts
    BY <1>1, <1>2 DEF Adding, Advancing
  <1>7. \A g \in Flows : /\ FirstUntaken(g)' = FirstUntaken(g)
                         /\ Fresh(g)' = Fresh(g) /\ Lent(g)' = Lent(g)
                         /\ Claimed(g)' = Claimed(g) /\ Returning(g)' = Returning(g)
    BY <1>2 DEF FirstUntaken, Fresh, Lent, Claimed, Returning
  <1>8. c = l + x /\ c \in Nat /\ a = c * Parts + t
    <2>1. a = c * Parts + t /\ c = l + x + 0
      BY <1>4, <1>6 DEF FlowInv, PartsInv, Complete
    <2>2. l + x + 0 = l + x /\ l + x \in Nat
      BY <1>4, OfmapAssumption
    <2> QED
      BY <2>1, <2>2
  <1>9. v = l + x + 1
    <2> HIDE DEF a, c, t
    <2>1. a \div Parts = c
      BY <1>4, <1>8, FrameOfPart, OfmapAssumption
    <2> QED
      BY <1>8, <2>1 DEF a
  <1>10. fetched'[f] = a + 1 /\ transferred'[f] = IF n = Parts THEN 0 ELSE n
    BY <1>2 DEF TypeInv, TypeOK, RingType, DeviceType
  <1>11. PartsInv(f)'
    <2>1. CASE n = Parts
      <3>1. Complete(f)' = l + x + 1 /\ transferred'[f] = 0
        BY <1>2, <1>6, <1>7, <1>10, <2>1 DEF Complete
      <3>2. a + 1 = (c + 1) * Parts + 0
        <4> HIDE DEF a, c
        <4>1. (c + 1) * Parts = c * Parts + Parts
          BY <1>8, OneMoreFrame, OfmapAssumption
        <4> DEFINE d == c * Parts
        <4>2. d \in Nat
          BY <1>8, OfmapAssumption
        <4>3. a = d + t /\ t + 1 = Parts /\ (c + 1) * Parts = d + Parts
          BY <1>8, <2>1, <4>1
        <4> HIDE DEF d, t
        <4>4. a + 1 = d + Parts + 0
          BY <1>4, <4>2, <4>3, OfmapAssumption
        <4> QED
          BY <4>3, <4>4
      <3>3. (c + 1) = l + x + 1
        BY <1>4, <1>8
      <3> QED
        BY <1>10, <3>1, <3>2, <3>3 DEF PartsInv
    <2>2. CASE n # Parts
      <3>1. Complete(f)' = l + x + 0 /\ transferred'[f] = n /\ ~Adding(f)'
        BY <1>2, <1>6, <1>7, <1>10, <2>2 DEF Complete
      <3>2. l + x + 0 = c
        BY <1>4, <1>8
      <3>3. a + 1 = c * Parts + n
        <4> DEFINE d == c * Parts
        <4> HIDE DEF a, c
        <4>1. d \in Nat
          BY <1>8, OfmapAssumption
        <4>2. a = d + t
          BY <1>8
        <4> HIDE DEF d, t
        <4>3. a + 1 = d + (t + 1)
          BY <1>4, <4>1, <4>2, OfmapAssumption
        <4> QED
          BY <4>3 DEF d, t
      <3> QED
        BY <1>10, <3>1, <3>2, <3>3 DEF PartsInv
    <2> QED
      BY <2>1, <2>2
  <1>12. FreshSlots(f)'
    <2> SUFFICES ASSUME NEW j \in 0 .. x - 1
                 PROVE  data'[f][SlotAfter(r, j)] = Whole(l + j + 1)
      BY <1>2, <1>7 DEF FreshSlots
    <2>1. SlotAfter(r, x) = w
      BY <1>5, SlotOfWritePointer DEF Fresh
    <2> HIDE DEF x, r, w
    <2>2. j \in 0 .. N - 1 /\ j # x
      BY <1>4, OfmapAssumption
    <2>3. SlotAfter(r, j) \in Slots /\ SlotAfter(r, j) # w
      BY <1>4, <1>5, <2>1, <2>2, SlotInRing, SlotInjective
    <2>4. data[f][SlotAfter(r, j)] = Whole(l + j + 1)
      BY <1>4 DEF FlowInv, FreshSlots, x, r
    <2> QED
      BY <1>3, <2>3, <2>4
  <1>13. GrowingSlot(f)'
    <2> SUFFICES ASSUME NEW p \in 1 .. Parts, p <= transferred'[f] \/ Adding(f)'
                 PROVE  data'[f][w][p] = l + x + 1
      BY <1>2, <1>7 DEF GrowingSlot
    <2>1. p <= n
      BY <1>4, <1>6, <1>10, OfmapAssumption
    <2>2. CASE p = n
      BY <1>3, <1>9, <2>2
    <2>3. CASE p # n
      <3>1. p <= t
        BY <1>4, <2>1, <2>3, OfmapAssumption
      <3>2. data[f][w][p] = l + x + 1
        BY <1>4, <3>1 DEF FlowInv, GrowingSlot
      <3> QED
        BY <1>3, <2>3, <3>2
    <2> QED
      BY <2>2, <2>3
  <1>14. FlowInv(f)'
    <2>1. RingInv(f)' /\ DeliveredInv(f)'
      BY <1>2, <1>4, <1>7 DEF FlowInv, RingInv, DeliveredInv
    <2>2. CountInv(f)'
      BY <1>2, <1>4, <1>6, <1>7 DEF FlowInv, CountInv
    <2>3. LentInv(f)'
      BY <1>2, <1>4, <1>7 DEF FlowInv, LentInv
    <2> QED
      BY <1>11, <1>12, <1>13, <2>1, <2>2, <2>3 DEF FlowInv
  <1>15. ASSUME NEW g \in Flows, g # f PROVE FlowInv(g)'
    <2>1. fetched'[g] = fetched[g] /\ transferred'[g] = transferred[g]
      BY <1>2, <1>15 DEF TypeInv, TypeOK, RingType, DeviceType
    <2>2. RingKept(g)
      BY <1>2, <1>3, <1>6, <1>7, <1>15, <2>1 DEF RingKept
    <2> QED
      BY <2>2, FlowUntouched DEF OutputInv
  <1>16. SpaceFound'
    <2>1. Full(f)' <=> Full(f)
      BY <1>2 DEF Full
    <2>2. ~Full(f)
      BY <1>1, <1>2 DEF OutputInv, SpaceFound
    <2>3. wpc' \in {"read", "count", "advance"} => flow_id' = f
      BY <1>2
    <2> QED
      BY <2>1, <2>2, <2>3 DEF SpaceFound, Full
  <1>17. \A u \in Readers : ReaderInv(u)'
    <2>1. \A g \in Flows : Fresh(g)' \in Int /\ Fresh(g)' >= Fresh(g)
      BY <1>7, FlowNumbers, OfmapAssumption
    <2> QED
      BY <1>2, <2>1, ReadersUntouched
  <1> QED
    BY <1>14, <1>15, <1>16, <1>17 DEF OutputInv

(* The count goes up, the pointer not yet. *)
LEMMA OutputCountFrame ==
    ASSUME TypeInv, OutputInv, CountFrame PROVE OutputInv'
  <1>1. PICK f \in Flows : f = flow_id
    BY DEF CountFrame, TypeInv, WorkerAtFlow
  <1>2. /\ UNCHANGED <<entry_w, entry_r, read_buf_idx, transferred, data,
                       read_guard, flow_id, userVars, deviceVars, delivered>>
        /\ wpc = "count" /\ wpc' = "advance"
        /\ write_guard' = [write_guard EXCEPT ![f] = TRUE]
        /\ remain_buf_cnt' = [remain_buf_cnt EXCEPT ![f] = Increase(remain_buf_cnt[f])]
    BY <1>1 DEF CountFrame
  <1> USE DEF userVars, deviceVars
  <1>3. \A g \in Flows : /\ Adding(g)' <=> Adding(g)
                         /\ ~Advancing(g) /\ (Advancing(g)' <=> g = f)
    BY <1>1, <1>2 DEF Adding, Advancing
  <1>4. \A g \in Flows : /\ FirstUntaken(g)' = FirstUntaken(g)
                         /\ Fresh(g)' = Fresh(g) /\ Lent(g)' = Lent(g)
                         /\ Claimed(g)' = Claimed(g) /\ Returning(g)' = Returning(g)
    BY <1>2 DEF FirstUntaken, Fresh, Lent, Claimed, Returning
  <1>5. ASSUME NEW g \in Flows, g # f PROVE FlowInv(g)'
    <2>1. remain_buf_cnt'[g] = remain_buf_cnt[g] /\ write_guard'[g] = write_guard[g]
      BY <1>2, <1>5 DEF TypeInv, TypeOK, RingType
    <2>2. RingKept(g)
      BY <1>2, <1>3, <1>4, <1>5, <2>1 DEF RingKept
    <2> QED
      BY <2>2, FlowUntouched DEF OutputInv
  <1>6. FlowInv(f) /\ ~Full(f)
    BY <1>1, <1>2 DEF OutputInv, SpaceFound
  <1>7. CountInv(f)'
    <2> DEFINE m == remain_buf_cnt[f]
               x == Fresh(f)
               k == IF Claimed(f) = {} THEN 0 ELSE 1
    <2>1. m + k = x + 0
      BY <1>3, <1>6 DEF FlowInv, CountInv
    <2>2. x \in 0 .. N - 1 /\ x <= N - 2 /\ m \in 0 .. SIZE_MAX
      <3>1. Lent(f) \in 0 .. N - 1 /\ Fresh(f) + Lent(f) <= N - 2
            /\ x \in 0 .. N - 1 /\ m \in 0 .. SIZE_MAX
        BY <1>6, FlowNumbers
      <3> DEFINE y == Lent(f)
      <3> HIDE DEF x, y, m
      <3>2. x <= N - 2
        BY <3>1, OfmapAssumption DEF x, y
      <3> QED
        BY <3>1, <3>2
    <2>3. k \in {0, 1}
      OBVIOUS
    <2>4. m \in 0 .. SIZE_MAX - 1 /\ m + 1 + k = x + 1
      <3> HIDE DEF m, x, k
      <3> QED
        BY <2>1, <2>2, <2>3, OfmapAssumption
    <2>5. Increase(m) = m + 1
      <3> HIDE DEF m
      <3> QED
        BY <2>4, CountSteps
    <2>6. remain_buf_cnt'[f] = m + 1 /\ write_guard'[f] = TRUE
      BY <1>2, <2>5 DEF TypeInv, TypeOK, RingType
    <2> QED
      BY <1>3, <1>4, <2>4, <2>6 DEF CountInv
  <1>8. FlowInv(f)'
    <2>1. RingInv(f)' /\ DeliveredInv(f)'
      BY <1>2, <1>4, <1>6 DEF FlowInv, RingInv, DeliveredInv
    <2>2. PartsInv(f)'
      BY <1>2, <1>3, <1>4, <1>6 DEF FlowInv, PartsInv, Complete
    <2>3. FreshSlots(f)' /\ GrowingSlot(f)'
      BY <1>2, <1>3, <1>4, <1>6 DEF FlowInv, FreshSlots, GrowingSlot
    <2>4. LentInv(f)'
      BY <1>2, <1>4, <1>6 DEF FlowInv, LentInv
    <2> QED
      BY <1>7, <2>1, <2>2, <2>3, <2>4 DEF FlowInv
  <1>9. SpaceFound'
    <2>1. Full(flow_id)' <=> Full(flow_id)
      BY <1>2 DEF Full
    <2> QED
      BY <1>1, <1>6, <2>1 DEF SpaceFound
  <1>10. \A u \in Readers : ReaderInv(u)'
    <2>1. \A g \in Flows : Fresh(g)' \in Int /\ Fresh(g)' >= Fresh(g)
      BY <1>4, FlowNumbers, OfmapAssumption
    <2> QED
      BY <1>2, <2>1, ReadersUntouched
  <1> QED
    BY <1>5, <1>8, <1>9, <1>10 DEF OutputInv

(* The step of entry_w turns the frame that was added into a fresh one. *)
LEMMA OutputAdvanceEntry ==
    ASSUME TypeInv, OutputInv, AdvanceEntry PROVE OutputInv'
  <1>1. PICK f \in Flows : f = flow_id
    BY DEF AdvanceEntry, TypeInv, WorkerAtFlow
  <1> DEFINE w == entry_w[f]
             r == FirstUntaken(f)
             e == entry_r[f]
             x == Fresh(f)
             y == Lent(f)
             l == Len(delivered[f])
  <1>2. /\ UNCHANGED <<entry_r, remain_buf_cnt, read_buf_idx, transferred, data,
                       read_guard, userVars, deviceVars, delivered>>
        /\ wpc = "advance" /\ wpc' = "scan"
        /\ entry_w' = [entry_w EXCEPT ![f] = NextEntry(w)]
        /\ write_guard' = [write_guard EXCEPT ![f] = FALSE]
    BY <1>1 DEF AdvanceEntry
  <1> USE DEF userVars, deviceVars
  <1>3. \A g \in Flows : /\ ~Adding(g)' /\ ~Advancing(g)'
                         /\ (Adding(g) <=> g = f) /\ (Advancing(g) <=> g = f)
    BY <1>1, <1>2 DEF Adding, Advancing
  <1>4. /\ \A g \in Flows : g # f => entry_w'[g] = entry_w[g] /\ write_guard'[g] = write_guard[g]
        /\ entry_w'[f] = NextEntry(w) /\ write_guard'[f] = FALSE
    BY <1>2 DEF TypeInv, TypeOK, RingType
  <1>5. \A g \in Flows : /\ FirstUntaken(g)' = FirstUntaken(g) /\ Lent(g)' = Lent(g)
                         /\ Claimed(g)' = Claimed(g) /\ Returning(g)' = Returning(g)
    BY <1>2 DEF FirstUntaken, Lent, Claimed, Returning
  <1>6. ASSUME NEW g \in Flows, g # f PROVE FlowInv(g)' /\ Fresh(g)' = Fresh(g)
    <2>1. RingKept(g)
      BY <1>2, <1>3, <1>4, <1>5, <1>6 DEF RingKept
    <2>2. Fresh(g)' = Fresh(g)
      BY <1>4, <1>5, <1>6 DEF Fresh
    <2> QED
      BY <2>1, <2>2, FlowUntouched DEF OutputInv
  <1>7. FlowInv(f) /\ ~Full(f)
    BY <1>1, <1>2 DEF OutputInv, SpaceFound
  <1>8. /\ x \in 0 .. N - 1 /\ y \in 0 .. N - 1 /\ x + y <= N - 2 /\ l \in Nat
        /\ w \in Slots /\ r \in Slots /\ e \in Slots
        /\ Occupied(w, e) = x + y /\ N \in Nat
    BY <1>7, FlowNumbers, FirstIsPointer, OfmapAssumption
  <1>9. /\ Fresh(f)' = x + 1
        /\ Occupied(NextEntry(w), e) = x + 1 + y
    <2>1. Occupied(w, r) = x
      BY DEF Fresh
    <2>2. Fresh(f)' = Occupied(NextEntry(w), r)
      BY <1>4, <1>5 DEF Fresh
    <2> HIDE DEF x, y, w, r, e
    <2>3. Occupied(w, r) # N - 1 /\ Occupied(w, e) # N - 1
      BY <1>8, <2>1
    <2>4. NextEntry(w) # r /\ NextEntry(w) # e
      BY <1>8, <2>3, OccupiedRange
    <2>5. /\ Occupied(NextEntry(w), r) = Occupied(w, r) + 1
          /\ Occupied(NextEntry(w), e) = Occupied(w, e) + 1
      BY <1>8, <2>4, OccupiedAfterPublish
    <2>6. x + y + 1 = x + 1 + y
      BY <1>8
    <2> QED
      BY <1>8, <2>1, <2>2, <2>5, <2>6
  <1>10. RingInv(f)'
    BY <1>2, <1>4, <1>5, <1>9 DEF RingInv
  <1>11. PartsInv(f)'
    <2>1. Complete(f) = l + x + 1 /\ transferred[f] = 0
      BY <1>3, <1>7 DEF Complete, FlowInv, PartsInv
    <2>2. Complete(f)' = l + (x + 1) + 0
      BY <1>2, <1>3, <1>9 DEF Complete
    <2>3. l + (x + 1) + 0 = l + x + 1
      BY <1>8
    <2> QED
      BY <1>2, <1>3, <1>7, <2>1, <2>2, <2>3 DEF FlowInv, PartsInv
  <1>12. data[f][w] = Whole(l + x + 1)
    <2>1. \A p \in 1 .. Parts : data[f][w][p] = l + x + 1
      BY <1>3, <1>7 DEF FlowInv, GrowingSlot
    <2>2. data[f][w] \in [1 .. Parts -> 0 .. MaxFrames]
      BY <1>8 DEF TypeInv, TypeOK, RingType, Contents
    <2>3. data[f][w] = [p \in 1 .. Parts |-> data[f][w][p]]
      BY <2>2
    <2> HIDE DEF w, x, l
    <2> QED
      BY <2>1, <2>3 DEF Whole
  <1>13. FreshSlots(f)'
    <2>1. /\ FirstUntaken(f)' = r /\ Fresh(f)' = x + 1
          /\ Len(delivered'[f]) = l /\ data'[f] = data[f]
      BY <1>2, <1>5, <1>9
    <2>2. ASSUME NEW j \in 0 .. x PROVE data[f][SlotAfter(r, j)] = Whole(l + j + 1)
      <3>1. CASE j = x
        <4>1. SlotAfter(r, x) = w
          BY <1>8, SlotOfWritePointer DEF Fresh
        <4> QED
          BY <1>12, <3>1, <4>1
      <3>2. CASE j # x
        <4>1. j \in 0 .. x - 1
          BY <1>8, <3>2
        <4> QED
          BY <1>7, <4>1 DEF FlowInv, FreshSlots
      <3> QED
        BY <3>1, <3>2
    <2> HIDE DEF w, r, x, l
    <2>3. 0 .. Fresh(f)' - 1 = 0 .. x
      BY <1>8, <2>1
    <2>4. \A j \in 0 .. Fresh(f)' - 1 :
             data'[f][SlotAfter(FirstUntaken(f)', j)] = Whole(Len(delivered'[f]) + j + 1)
      BY <2>1, <2>2, <2>3
    <2> QED
      BY <2>4 DEF FreshSlots
  <1>14. GrowingSlot(f)'
    <2>1. transferred'[f] = 0
      BY <1>2, <1>3, <1>7 DEF FlowInv, PartsInv
    <2> QED
      BY <1>3, <2>1 DEF GrowingSlot
  <1>15. CountInv(f)'
    <2>1. remain_buf_cnt[f] + (IF Claimed(f) = {} THEN 0 ELSE 1) = x + 1
      BY <1>3, <1>7 DEF FlowInv, CountInv
    <2>2. x + 1 = x + 1 + 0
      BY <1>8
    <2> QED
      BY <1>2, <1>3, <1>4, <1>5, <1>9, <2>1, <2>2 DEF CountInv
  <1>16. DeliveredInv(f)' /\ LentInv(f)'
    BY <1>2, <1>5, <1>7 DEF FlowInv, DeliveredInv, LentInv
  <1>17. SpaceFound'
    BY <1>2 DEF SpaceFound
  <1>18. \A u \in Readers : ReaderInv(u)'
    <2>1. \A g \in Flows : Fresh(g)' \in Int /\ Fresh(g)' >= Fresh(g)
      <3> SUFFICES ASSUME NEW g \in Flows PROVE Fresh(g)' \in Int /\ Fresh(g)' >= Fresh(g)
        OBVIOUS
      <3>1. CASE g = f
        BY <1>8, <1>9, <3>1
      <3>2. CASE g # f
        BY <1>6, <3>2, FlowNumbers, OfmapAssumption
      <3> QED
        BY <3>1, <3>2
    <2> QED
      BY <1>2, <2>1, ReadersUntouched
  <1> QED
    BY <1>6, <1>10, <1>11, <1>13, <1>14, <1>15, <1>16, <1>17, <1>18
       DEF OutputInv, FlowInv

-----------------------------------------------------------------------------
(* The steps of the readers.  A step of one reader on a flow disturbs no   *)
(* other reader, which is past the lock only on another flow, or waits.    *)
LEMMA OtherReader ==
    ASSUME TypeInv, OutputInv, NEW u \in Readers, NEW v \in Readers, v # u,
           NEW f \in Flows,
           upc'[v] = upc[v], uflow'[v] = uflow[v], ucopy'[v] = ucopy[v],
           reads' = reads,
           \A g \in Flows : g # f =>
               /\ read_guard'[g] = read_guard[g] /\ delivered'[g] = delivered[g]
               /\ Fresh(g)' = Fresh(g),
           \/ read_guard[f] \in {u, NoReader}
           \/ /\ read_guard'[f] = read_guard[f] /\ delivered'[f] = delivered[f]
              /\ Fresh(f)' = Fresh(f)
    PROVE  ReaderInv(v)'
  <1>1. PICK g \in Flows : g = uflow[v]
    BY DEF TypeInv, TypeOK, ReaderType
  <1>2. g = uflow'[v]
    BY <1>1
  <1>3. /\ upc[v] \in {"poll", "take", "release"} => read_guard[g] = v
        /\ upc[v] \in {"take", "release"} => Fresh(g) >= 1
        /\ upc[v] = "release" =>
              reads[g] = "stream" /\ ucopy[v] = Whole(Len(delivered[g]) + 1)
    BY <1>1 DEF OutputInv, ReaderInv
  <1>4. CASE g = f /\ read_guard[f] \in {u, NoReader}
    <2>1. upc[v] \notin {"poll", "take", "release"}
      BY <1>3, <1>4, OfmapAssumption
    <2> QED
      BY <2>1 DEF ReaderInv
  <1>5. CASE ~(g = f /\ read_guard[f] \in {u, NoReader})
    <2>1. /\ read_guard'[g] = read_guard[g] /\ delivered'[g] = delivered[g]
          /\ Fresh(g)' = Fresh(g)
      BY <1>5
    <2> QED
      BY <1>2, <1>3, <2>1 DEF ReaderInv
  <1> QED
    BY <1>4, <1>5

(* Whoever holds read_guard is the only one that can have claimed a frame. *)
LEMMA OneClaim ==
    ASSUME TypeInv, OutputInv, NEW u \in Readers, NEW f \in Flows, read_guard[f] = u
    PROVE  \A v \in Readers : v # u => ~(upc[v] \in {"take", "release"} /\ uflow[v] = f)
  BY DEF OutputInv, ReaderInv

(* The worker keeps the space it found when a slot comes back. *)
LEMMA SpaceKept ==
    ASSUME TypeInv, TypeInv', OutputInv, NEW f \in Flows,
           UNCHANGED <<wpc, flow_id, entry_w>>,
           \A g \in Flows : g # f => entry_r'[g] = entry_r[g],
           Occupied(entry_w[f], entry_r'[f]) # N - 1
    PROVE  SpaceFound'
  <1> SUFFICES ASSUME wpc \in {"read", "count", "advance"} PROVE ~Full(flow_id)'
    BY DEF SpaceFound
  <1>1. PICK g \in Flows : g = flow_id /\ g = flow_id'
    BY DEF TypeInv, WorkerAtFlow
  <1>2. ~Full(g)
    BY <1>1 DEF OutputInv, SpaceFound
  <1>3. CASE g = f
    <2> DEFINE w == entry_w[f]
               e == entry_r'[f]
    <2>1. w \in Slots /\ e \in Slots /\ Occupied(w, e) # N - 1
      BY FirstIsPointer DEF TypeInv, TypeOK, RingType
    <2> HIDE DEF w, e
    <2>2. (w + 1) % N # e
      BY <2>1, FullIsOccupied
    <2> QED
      BY <1>1, <1>3, <2>2 DEF Full, w, e
  <1>4. CASE g # f
    BY <1>1, <1>2, <1>4 DEF Full
  <1> QED
    BY <1>3, <1>4

(* Calls, locks and time-outs move nothing in the ring. *)
LEMMA OutputReadCall ==
    ASSUME TypeInv, OutputInv, NEW u \in Readers, NEW f \in Flows,
           \/ \E timed \in BOOLEAN : ReadCall(u, f, timed)
           \/ f = uflow[u] /\ (ReadLock(u) \/ ReadTimeout(u))
    PROVE  OutputInv'
  <1>1. /\ UNCHANGED <<entry_w, entry_r, remain_buf_cnt, read_buf_idx,
                       transferred, data, write_guard, wpc, flow_id, reads,
                       held, ucopy, fetched, delivered>>
        /\ upc[u] \in {"idle", "lock", "poll"}
        /\ \E x \in {"idle", "lock", "poll"} : upc' = [upc EXCEPT ![u] = x]
        /\ uflow' = [uflow EXCEPT ![u] = f]
        /\ \A g \in Flows : g # f => read_guard'[g] = read_guard[g]
        /\ read_guard[f] \in {u, NoReader} \/ read_guard' = read_guard
        /\ upc'[u] = "poll" => read_guard'[f] = u
    <2>1. CASE ReadLock(u) \/ ReadTimeout(u)
      <3>1. upc[u] \in {"lock", "poll"} /\ f = uflow[u]
        BY <2>1 DEF ReadLock, ReadTimeout, ReadCall
      <3>2. uflow' = [uflow EXCEPT ![u] = f]
        BY <2>1, <3>1 DEF ReadLock, ReadTimeout, TypeInv, TypeOK, ReaderType
      <3>3. read_guard[f] \in {u, NoReader}
        BY <2>1, <3>1 DEF ReadLock, ReadTimeout, ReadGuardFree, OutputInv, ReaderInv
      <3> QED
        BY <2>1, <3>1, <3>2, <3>3 DEF ReadLock, ReadTimeout, workerVars,
           deviceVars, TypeInv, TypeOK, RingType, ReaderType
    <2>2. CASE \E timed \in BOOLEAN : ReadCall(u, f, timed)
      BY <2>2 DEF ReadCall, ringVars, workerVars, deviceVars, TypeInv, TypeOK, ReaderType
    <2> QED
      BY <2>1, <2>2
  <1>2. /\ \A v \in Readers : v # u => upc'[v] = upc[v] /\ uflow'[v] = uflow[v]
        /\ upc'[u] \in {"idle", "lock", "poll"} /\ uflow'[u] = f
    BY <1>1 DEF TypeInv, TypeOK, ReaderType
  <1>3. \A g \in Flows : /\ Claimed(g)' = Claimed(g) /\ Returning(g)' = Returning(g)
                         /\ Fresh(g)' = Fresh(g)
    BY <1>1, <1>2 DEF Claimed, Returning, Fresh, FirstUntaken
  <1>4. ASSUME NEW g \in Flows PROVE FlowInv(g)'
    <2>1. RingKept(g)
      BY <1>1, <1>3 DEF RingKept, Adding, Advancing
    <2> QED
      BY <2>1, FlowUntouched DEF OutputInv
  <1>5. SpaceFound'
    BY <1>1 DEF OutputInv, SpaceFound, Full
  <1>6. ASSUME NEW v \in Readers PROVE ReaderInv(v)'
    <2>1. CASE v = u
      BY <1>1, <1>2, <2>1 DEF ReaderInv
    <2>2. CASE v # u
      BY <1>1, <1>2, <1>3, <2>2, OtherReader
    <2> QED
      BY <2>1, <2>2
  <1> QED
    BY <1>4, <1>5, <1>6 DEF OutputInv

(* A reader claims a frame: the count goes down. *)
LEMMA OutputReadClaim ==
    ASSUME TypeInv, OutputInv, NEW u \in Readers, ReadClaim(u) PROVE OutputInv'
  <1>1. PICK f \in Flows : f = uflow[u]
    BY DEF TypeInv, TypeOK, ReaderType
  <1>2. /\ UNCHANGED <<entry_w, entry_r, read_buf_idx, transferred, data,
                       write_guard, read_guard, wpc, flow_id, reads, uflow,
                       ucopy, held, fetched, delivered>>
        /\ upc[u] = "poll" /\ upc' = [upc EXCEPT ![u] = "take"]
        /\ ~NothingToRead(u) /\ ~write_guard[f]
        /\ remain_buf_cnt' = [remain_buf_cnt EXCEPT ![f] = Decrease(remain_buf_cnt[f])]
    BY <1>1 DEF ReadClaim, workerVars, deviceVars
  <1>3. /\ upc'[u] = "take" /\ \A v \in Readers : v # u => upc'[v] = upc[v]
        /\ \A g \in Flows : g # f => remain_buf_cnt'[g] = remain_buf_cnt[g]
        /\ remain_buf_cnt'[f] = Decrease(remain_buf_cnt[f])
    BY <1>2 DEF TypeInv, TypeOK, RingType, ReaderType
  <1>4. read_guard[f] = u
    BY <1>1, <1>2 DEF OutputInv, ReaderInv
  <1>5. Claimed(f) = {} /\ Claimed(f)' # {}
    <2>1. Claimed(f) = {}
      BY <1>2, <1>4, OneClaim DEF Claimed
    <2>2. u \in Claimed(f)'
      BY <1>1, <1>2, <1>3 DEF Claimed
    <2> QED
      BY <2>1, <2>2
  <1>6. \A g \in Flows : /\ g # f => Claimed(g)' = Claimed(g)
                         /\ Returning(g)' = Returning(g)
                         /\ FirstUntaken(g)' = FirstUntaken(g)
                         /\ Fresh(g)' = Fresh(g) /\ Lent(g)' = Lent(g)
                         /\ (Adding(g)' <=> Adding(g)) /\ (Advancing(g)' <=> Advancing(g))
    BY <1>1, <1>2, <1>3 DEF Claimed, Returning, Fresh, Lent, FirstUntaken,
       Adding, Advancing
  <1>7. ASSUME NEW g \in Flows, g # f PROVE FlowInv(g)'
    <2>1. RingKept(g)
      BY <1>2, <1>3, <1>6, <1>7 DEF RingKept
    <2> QED
      BY <2>1, FlowUntouched DEF OutputInv
  <1> DEFINE m == remain_buf_cnt[f]
             x == Fresh(f)
  <1>8. FlowInv(f) /\ m \in 0 .. SIZE_MAX /\ x \in 0 .. N - 1
    BY FlowNumbers DEF OutputInv
  <1>9. m = x
    <2>1. m + 0 = x + 0
      BY <1>2, <1>5, <1>8 DEF FlowInv, CountInv
    <2> HIDE DEF m, x
    <2> QED
      BY <1>8, <2>1, OfmapAssumption
  <1>10. x # 0
    <2>1. CASE reads[f] = "stream"
      <3>1. entry_w[f] # entry_r[f]
        BY <1>1, <1>2, <2>1 DEF NothingToRead
      <3> QED
        BY <2>1, <3>1, FirstIsPointer, OccupiedRange DEF Fresh
    <2>2. CASE reads[f] = "dequeue"
      BY <1>1, <1>2, <1>9, <2>2 DEF NothingToRead
    <2> QED
      BY <2>1, <2>2, FirstIsPointer
  <1>11. CountInv(f)'
    <2>1. m \in 1 .. SIZE_MAX /\ m - 1 + 1 = x + 0
      <3> HIDE DEF m, x
      <3> QED
        BY <1>8, <1>9, <1>10, OfmapAssumption
    <2>2. Decrease(m) = m - 1
      <3> HIDE DEF m
      <3> QED
        BY <2>1, CountSteps
    <2>3. ~Advancing(f)
      BY <1>2, <1>8 DEF FlowInv, CountInv
    <2> QED
      BY <1>2, <1>3, <1>5, <1>6, <2>1, <2>2, <2>3 DEF CountInv
  <1>12. FlowInv(f)'
    <2>1. RingInv(f)' /\ DeliveredInv(f)'
      BY <1>2, <1>6, <1>8 DEF FlowInv, RingInv, DeliveredInv
    <2>2. PartsInv(f)'
      BY <1>2, <1>6, <1>8 DEF FlowInv, PartsInv, Complete
    <2>3. FreshSlots(f)' /\ GrowingSlot(f)'
      BY <1>2, <1>6, <1>8 DEF FlowInv, FreshSlots, GrowingSlot
    <2>4. LentInv(f)'
      BY <1>2, <1>6, <1>8 DEF FlowInv, LentInv
    <2> QED
      BY <1>11, <2>1, <2>2, <2>3, <2>4 DEF FlowInv
  <1>13. SpaceFound'
    BY <1>2 DEF OutputInv, SpaceFound, Full
  <1>14. ASSUME NEW v \in Readers PROVE ReaderInv(v)'
    <2>1. CASE v = u
      <3>1. Fresh(f)' >= 1
        BY <1>6, <1>8, <1>10, OfmapAssumption
      <3>2. f = uflow'[u]
        BY <1>1, <1>2
      <3> QED
        BY <1>2, <1>3, <1>4, <2>1, <3>1, <3>2 DEF ReaderInv
    <2>2. CASE v # u
      BY <1>2, <1>3, <1>6, <2>2, OtherReader
    <2> QED
      BY <2>1, <2>2
  <1> QED
    BY <1>7, <1>12, <1>13, <1>14 DEF OutputInv

(* stream_ofmap copies the next frame. *)
LEMMA OutputStreamCopy ==
    ASSUME TypeInv, OutputInv, NEW u \in Readers, StreamCopy(u) PROVE OutputInv'
  <1>1. PICK f \in Flows : f = uflow[u]
    BY DEF TypeInv, TypeOK, ReaderType
  <1>2. /\ UNCHANGED <<entry_w, entry_r, remain_buf_cnt, read_buf_idx,
                       transferred, data, write_guard, read_guard, wpc, flow_id,
                       reads, uflow, held, fetched, delivered>>
        /\ upc[u] = "take" /\ upc' = [upc EXCEPT ![u] = "release"]
        /\ reads[f] = "stream"
        /\ ucopy' = [ucopy EXCEPT ![u] = data[f][entry_r[f]]]
    BY <1>1 DEF StreamCopy, ringVars, workerVars, deviceVars
  <1>3. /\ upc'[u] = "release" /\ ucopy'[u] = data[f][entry_r[f]]
        /\ \A v \in Readers : v # u => upc'[v] = upc[v] /\ ucopy'[v] = ucopy[v]
    BY <1>2 DEF TypeInv, TypeOK, ReaderType
  <1>4. \A g \in Flows : /\ Claimed(g)' = Claimed(g)
                         /\ Returning(g)' = Returning(g)
                         /\ Fresh(g)' = Fresh(g)
                         /\ (Adding(g)' <=> Adding(g)) /\ (Advancing(g)' <=> Advancing(g))
    <2> SUFFICES ASSUME NEW g \in Flows
                 PROVE  /\ Claimed(g)' = Claimed(g) /\ Returning(g)' = Returning(g)
                        /\ Fresh(g)' = Fresh(g)
                        /\ (Adding(g)' <=> Adding(g)) /\ (Advancing(g)' <=> Advancing(g))
      OBVIOUS
    <2>1. \A v \in Readers : /\ upc'[v] \in {"take", "release"} <=> upc[v] \in {"take", "release"}
                             /\ upc'[v] = "giveback" <=> upc[v] = "giveback"
      BY <1>2, <1>3
    <2> QED
      BY <1>2, <2>1 DEF Claimed, Returning, Fresh, FirstUntaken, Adding, Advancing
  <1>5. ASSUME NEW g \in Flows PROVE FlowInv(g)'
    <2>1. RingKept(g)
      BY <1>2, <1>4 DEF RingKept
    <2> QED
      BY <2>1, FlowUntouched DEF OutputInv
  <1>6. SpaceFound'
    BY <1>2 DEF OutputInv, SpaceFound, Full
  <1>7. /\ read_guard[f] = u /\ Fresh(f) >= 1
    BY <1>1, <1>2 DEF OutputInv, ReaderInv
  <1>8. data[f][entry_r[f]] = Whole(Len(delivered[f]) + 1)
    <2>1. /\ Fresh(f) \in 0 .. N - 1 /\ Len(delivered[f]) \in Nat
          /\ FirstUntaken(f) = entry_r[f] /\ entry_r[f] \in Slots
      BY <1>2, FlowNumbers, FirstIsPointer
    <2>2. 0 \in 0 .. Fresh(f) - 1
      BY <1>7, <2>1, OfmapAssumption
    <2>3. data[f][SlotAfter(FirstUntaken(f), 0)] = Whole(Len(delivered[f]) + 0 + 1)
      BY <2>2 DEF OutputInv, FlowInv, FreshSlots
    <2>4. SlotAfter(FirstUntaken(f), 0) = entry_r[f]
      BY <2>1, SlotAtPointer
    <2>5. Len(delivered[f]) + 0 + 1 = Len(delivered[f]) + 1
      BY <2>1
    <2> QED
      BY <2>3, <2>4, <2>5
  <1>9. ASSUME NEW v \in Readers PROVE ReaderInv(v)'
    <2>1. CASE v = u
      <3>1. f = uflow'[u]
        BY <1>1, <1>2
      <3> QED
        BY <1>2, <1>3, <1>4, <1>7, <1>8, <2>1, <3>1 DEF ReaderInv
    <2>2. CASE v # u
      BY <1>2, <1>3, <1>4, <2>2, OtherReader
    <2> QED
      BY <2>1, <2>2
  <1> QED
    BY <1>5, <1>6, <1>9 DEF OutputInv

(* A slot that a reader takes becomes free at once, or lent. *)
LEMMA FirstMoves ==
    ASSUME TypeInv, OutputInv, NEW f \in Flows, Fresh(f) >= 1
    PROVE  LET n == NextEntry(FirstUntaken(f)) IN
           /\ n \in Slots
           /\ Occupied(entry_w[f], n) = Fresh(f) - 1
           /\ Occupied(n, entry_r[f]) = Lent(f) + 1
           /\ Occupied(n, n) = 0
           /\ \A j \in 0 .. Fresh(f) - 2 :
                 data[f][SlotAfter(n, j)] = Whole(Len(delivered[f]) + 1 + j + 1)
           /\ data[f][FirstUntaken(f)] = Whole(Len(delivered[f]) + 1)
  <1> DEFINE w == entry_w[f]
             r == FirstUntaken(f)
             e == entry_r[f]
             n == NextEntry(r)
             x == Fresh(f)
             y == Lent(f)
             l == Len(delivered[f])
  <1>1. /\ x \in 1 .. N - 1 /\ y \in 0 .. N - 1 /\ x + y \in 0 .. N - 1
        /\ w \in Slots /\ r \in Slots /\ e \in Slots /\ l \in Nat /\ N \in Nat
    BY FlowNumbers, FirstIsPointer, OfmapAssumption
  <1>2. Occupied(w, r) = x /\ Occupied(r, e) = y
    BY DEF Fresh, Lent
  <1>3. \A j \in 0 .. x - 1 : data[f][SlotAfter(r, j)] = Whole(l + j + 1)
    BY DEF OutputInv, FlowInv, FreshSlots
  <1> HIDE DEF w, r, e, n, x, y, l
  <1>4. n \in Slots
    BY <1>1, NextEntryInSlots DEF n
  <1>5. Occupied(w, n) = x - 1
    <2>1. w # r
      BY <1>1, <1>2, OccupiedRange
    <2> QED
      BY <1>1, <1>2, <2>1, OccupiedAfterMove DEF n
  <1>6. Occupied(n, e) = y + 1
    <2>1. y # N - 1
      BY <1>1
    <2>2. NextEntry(r) # e
      BY <1>1, <1>2, <2>1, OccupiedRange
    <2> QED
      BY <1>1, <1>2, <2>2, OccupiedAfterPublish DEF n
  <1>7. Occupied(n, n) = 0
    BY <1>4, OccupiedRange
  <1>8. ASSUME NEW j \in 0 .. x - 2
        PROVE  data[f][SlotAfter(n, j)] = Whole(l + 1 + j + 1)
    <2>1. j + 1 \in 0 .. x - 1 /\ j \in 0 .. N - 2 /\ l + (j + 1) + 1 = l + 1 + j + 1
      BY <1>1
    <2>2. SlotAfter(n, j) = SlotAfter(r, j + 1)
      BY <1>1, <2>1, SlotAfterMove DEF n
    <2>3. data[f][SlotAfter(r, j + 1)] = Whole(l + (j + 1) + 1)
      BY <1>3, <2>1
    <2> QED
      BY <2>1, <2>2, <2>3
  <1>9. data[f][r] = Whole(l + 1)
    <2>1. 0 \in 0 .. x - 1 /\ l + 0 + 1 = l + 1
      BY <1>1
    <2>2. data[f][SlotAfter(r, 0)] = Whole(l + 0 + 1)
      BY <1>3, <2>1
    <2> QED
      BY <1>1, <2>1, <2>2, SlotAtPointer
  <1> QED
    BY <1>4, <1>5, <1>6, <1>7, <1>8, <1>9 DEF w, r, e, n, x, y, l

(* What taking a frame does to the rest of the flow's invariant: the frame *)
(* moves from the fresh to the delivered ones.                             *)
LEMMA FrameTaken ==
    ASSUME TypeInv, OutputInv, NEW f \in Flows, Fresh(f) >= 1,
           Claimed(f) # {}, Claimed(f)' = {},
           UNCHANGED <<entry_w, remain_buf_cnt, transferred, data, write_guard,
                       wpc, flow_id, reads, fetched>>,
           FirstUntaken(f)' = NextEntry(FirstUntaken(f)),
           delivered'[f] = Append(delivered[f], Whole(Len(delivered[f]) + 1))
    PROVE  /\ Fresh(f)' = Fresh(f) - 1
           /\ Len(delivered'[f]) = Len(delivered[f]) + 1
           /\ PartsInv(f)' /\ FreshSlots(f)' /\ GrowingSlot(f)'
           /\ DeliveredInv(f)' /\ CountInv(f)'
  <1> DEFINE x == Fresh(f)
             l == Len(delivered[f])
             n == NextEntry(FirstUntaken(f))
             s == delivered[f]
  <1>1. /\ x \in 1 .. N - 1 /\ l \in Nat /\ N \in Nat
        /\ remain_buf_cnt[f] \in 0 .. SIZE_MAX /\ SIZE_MAX \in Nat
    BY FlowNumbers, OfmapAssumption
  <1>2. /\ Occupied(entry_w[f], n) = x - 1
        /\ \A j \in 0 .. x - 2 : data[f][SlotAfter(n, j)] = Whole(l + 1 + j + 1)
    BY FirstMoves
  <1>3. Fresh(f)' = x - 1
    BY <1>2 DEF Fresh
  <1>4. s \in Seq(Contents)
    BY DEF TypeInv, TypeOK, DeviceType
  <1>5. Len(delivered'[f]) = l + 1
    <2> HIDE DEF s
    <2>1. \A v : Len(Append(s, v)) = Len(s) + 1
      BY <1>4
    <2> QED
      BY <2>1 DEF s
  <1>6. (Adding(f)' <=> Adding(f)) /\ (Advancing(f)' <=> Advancing(f))
    BY DEF Adding, Advancing
  <1>7. FlowInv(f)
    BY DEF OutputInv
  <1> HIDE DEF x, l, n
  <1>8. PartsInv(f)'
    <2>1. Complete(f)' = l + 1 + (x - 1) + (IF Adding(f) THEN 1 ELSE 0)
      BY <1>3, <1>5, <1>6 DEF Complete
    <2>2. Complete(f) = l + x + (IF Adding(f) THEN 1 ELSE 0)
      BY DEF Complete, l, x
    <2>3. l + 1 + (x - 1) = l + x
      BY <1>1
    <2> QED
      BY <1>6, <1>7, <2>1, <2>2, <2>3 DEF FlowInv, PartsInv
  <1>9. FreshSlots(f)'
    <2> SUFFICES ASSUME NEW j \in 0 .. x - 1 - 1
                 PROVE  data[f][SlotAfter(n, j)] = Whole(l + 1 + j + 1)
      BY <1>3, <1>5 DEF FreshSlots, n
    <2>1. j \in 0 .. x - 2
      BY <1>1
    <2> QED
      BY <1>2, <2>1
  <1>10. GrowingSlot(f)'
    <2>1. l + 1 + (x - 1) + 1 = l + x + 1
      BY <1>1
    <2> QED
      BY <1>3, <1>5, <1>6, <1>7, <2>1 DEF FlowInv, GrowingSlot, l, x
  <1>11. DeliveredInv(f)'
    <2> SUFFICES ASSUME NEW k \in 1 .. l + 1 PROVE delivered'[f][k] = Whole(k)
      BY <1>5 DEF DeliveredInv
    <2>1. CASE k = l + 1
      <3>1. \A v : Append(s, v)[l + 1] = v
        <4> HIDE DEF s
        <4>1. \A v : Append(s, v)[Len(s) + 1] = v
          BY <1>4
        <4> QED
          BY <4>1 DEF s, l
      <3> QED
        BY <2>1, <3>1 DEF l
    <2>2. CASE k # l + 1
      <3>1. k \in 1 .. l
        BY <1>1, <2>2
      <3>2. \A v : Append(s, v)[k] = s[k]
        <4> HIDE DEF s
        <4>1. k \in 1 .. Len(s)
          BY <3>1 DEF s, l
        <4> QED
          BY <1>4, <4>1
      <3>3. s[k] = Whole(k)
        BY <1>7, <3>1 DEF FlowInv, DeliveredInv, l
      <3> QED
        BY <3>2, <3>3
    <2> QED
      BY <2>1, <2>2
  <1>12. CountInv(f)'
    <2> DEFINE m == remain_buf_cnt[f]
               g == IF write_guard[f] THEN 1 ELSE 0
    <2>1. m + 1 = x + g
      BY <1>7 DEF FlowInv, CountInv, x
    <2>2. g \in {0, 1} /\ m \in Nat
      BY <1>1
    <2>3. m + 0 = x - 1 + g
      <3> HIDE DEF m, g
      <3> QED
        BY <1>1, <2>1, <2>2
    <2> QED
      BY <1>3, <1>6, <1>7, <2>3 DEF FlowInv, CountInv
  <1> QED
    BY <1>3, <1>5, <1>8, <1>9, <1>10, <1>11, <1>12 DEF x, l

(* stream_ofmap gives the slot back: the frame it copied is delivered. *)
LEMMA OutputStreamRelease ==
    ASSUME TypeInv, TypeInv', OutputInv, NEW u \in Readers, StreamRelease(u)
    PROVE  OutputInv'
  <1>1. PICK f \in Flows : f = uflow[u]
    BY DEF TypeInv, TypeOK, ReaderType
  <1>2. /\ UNCHANGED <<entry_w, remain_buf_cnt, read_buf_idx, transferred, data,
                       write_guard, wpc, flow_id, reads, uflow, ucopy, held,
                       fetched>>
        /\ upc[u] = "release" /\ upc' = [upc EXCEPT ![u] = "idle"]
        /\ entry_r' = [entry_r EXCEPT ![f] = NextEntry(entry_r[f])]
        /\ read_guard' = [read_guard EXCEPT ![f] = NoReader]
        /\ delivered' = [delivered EXCEPT ![f] = Append(delivered[f], ucopy[u])]
    BY <1>1 DEF StreamRelease, workerVars, deviceVars
  <1>3. /\ upc'[u] = "idle" /\ \A v \in Readers : v # u => upc'[v] = upc[v]
        /\ entry_r'[f] = NextEntry(entry_r[f])
        /\ delivered'[f] = Append(delivered[f], ucopy[u])
        /\ \A g \in Flows : g # f => /\ entry_r'[g] = entry_r[g]
                                     /\ read_guard'[g] = read_guard[g]
                                     /\ delivered'[g] = delivered[g]
    BY <1>2 DEF TypeInv, TypeOK, RingType, ReaderType, DeviceType
  <1>4. /\ read_guard[f] = u /\ Fresh(f) >= 1 /\ reads[f] = "stream"
        /\ ucopy[u] = Whole(Len(delivered[f]) + 1)
    BY <1>1, <1>2 DEF OutputInv, ReaderInv
  <1>5. Claimed(f) # {} /\ Claimed(f)' = {}
    <2>1. u \in Claimed(f)
      BY <1>1, <1>2 DEF Claimed
    <2>2. Claimed(f)' = {}
      BY <1>2, <1>3, <1>4, OneClaim DEF Claimed
    <2> QED
      BY <2>1, <2>2
  <1>6. \A g \in Flows : /\ g # f => Claimed(g)' = Claimed(g)
                         /\ g # f => Fresh(g)' = Fresh(g)
                         /\ Returning(g)' = Returning(g)
                         /\ (Adding(g)' <=> Adding(g)) /\ (Advancing(g)' <=> Advancing(g))
    BY <1>1, <1>2, <1>3 DEF Claimed, Returning, Fresh, FirstUntaken, Adding, Advancing
  <1>7. ASSUME NEW g \in Flows, g # f PROVE FlowInv(g)'
    <2>1. RingKept(g)
      BY <1>2, <1>3, <1>6, <1>7 DEF RingKept
    <2> QED
      BY <2>1, FlowUntouched DEF OutputInv
  <1>8. FirstUntaken(f) = entry_r[f] /\ FirstUntaken(f)' = NextEntry(FirstUntaken(f))
    BY <1>2, <1>3, <1>4 DEF FirstUntaken
  <1>9. /\ Fresh(f)' = Fresh(f) - 1
        /\ PartsInv(f)' /\ FreshSlots(f)' /\ GrowingSlot(f)'
        /\ DeliveredInv(f)' /\ CountInv(f)'
    BY <1>2, <1>3, <1>4, <1>5, <1>8, FrameTaken
  <1>10. Lent(f)' = 0 /\ Occupied(entry_w'[f], entry_r'[f]) = Fresh(f)'
    <2>1. FirstUntaken(f)' = entry_r'[f]
      BY <1>3, <1>8
    <2>2. Occupied(NextEntry(FirstUntaken(f)), NextEntry(FirstUntaken(f))) = 0
      BY <1>4, FirstMoves
    <2> QED
      BY <1>3, <1>8, <2>1, <2>2 DEF Lent, Fresh
  <1>11. Fresh(f) \in 1 .. N - 1 /\ N \in Nat
    BY <1>4, FlowNumbers, OfmapAssumption
  <1>12. FlowInv(f)'
    <2>1. RingInv(f)'
      <3>1. Fresh(f)' = Fresh(f)' + 0
        BY <1>9, <1>11
      <3> QED
        BY <1>10, <3>1 DEF RingInv
    <2>2. LentInv(f)'
      BY <1>2, <1>4, <1>6 DEF LentInv, OutputInv, FlowInv
    <2> QED
      BY <1>9, <2>1, <2>2 DEF FlowInv
  <1>13. SpaceFound'
    <2>1. Occupied(entry_w[f], entry_r'[f]) # N - 1
      BY <1>2, <1>9, <1>10, <1>11
    <2> QED
      BY <1>2, <1>3, <2>1, SpaceKept
  <1>14. ASSUME NEW v \in Readers PROVE ReaderInv(v)'
    <2>1. CASE v = u
      BY <1>3, <2>1 DEF ReaderInv
    <2>2. CASE v # u
      BY <1>2, <1>3, <1>4, <1>6, <2>2, OtherReader
    <2> QED
      BY <2>1, <2>2
  <1> QED
    BY <1>7, <1>12, <1>13, <1>14 DEF OutputInv

(* dequeue_ofmap_buf lends the slot: the frame is delivered, and the slot  *)
(* is between entry_r and the next to lend.                                *)
LEMMA OutputDequeueTake ==
    ASSUME TypeInv, OutputInv, NEW u \in Readers, DequeueTake(u)
    PROVE  OutputInv'
  <1>1. PICK f \in Flows : f = uflow[u]
    BY DEF TypeInv, TypeOK, ReaderType
  <1> DEFINE i == read_buf_idx[f]
             b == [idx |-> i, frame |-> data[f][i]]
  <1>2. /\ UNCHANGED <<entry_w, entry_r, remain_buf_cnt, transferred, data,
                       write_guard, wpc, flow_id, reads, uflow, ucopy, fetched>>
        /\ upc[u] = "take" /\ upc' = [upc EXCEPT ![u] = "idle"]
        /\ reads[f] = "dequeue"
        /\ held' = [held EXCEPT ![f] = Append(held[f], b)]
        /\ read_buf_idx' = [read_buf_idx EXCEPT ![f] = NextEntry(i)]
        /\ read_guard' = [read_guard EXCEPT ![f] = NoReader]
        /\ delivered' = [delivered EXCEPT ![f] = Append(delivered[f], data[f][i])]
    BY <1>1 DEF DequeueTake, workerVars, deviceVars
  <1>3. /\ upc'[u] = "idle" /\ \A v \in Readers : v # u => upc'[v] = upc[v]
        /\ read_buf_idx'[f] = NextEntry(i)
        /\ held'[f] = Append(held[f], b)
        /\ delivered'[f] = Append(delivered[f], data[f][i])
        /\ \A g \in Flows : g # f => /\ read_buf_idx'[g] = read_buf_idx[g]
                                     /\ held'[g] = held[g]
                                     /\ read_guard'[g] = read_guard[g]
                                     /\ delivered'[g] = delivered[g]
    BY <1>2 DEF TypeInv, TypeOK, RingType, ReaderType, DeviceType
  <1>4. read_guard[f] = u /\ Fresh(f) >= 1
    BY <1>1, <1>2 DEF OutputInv, ReaderInv
  <1>5. Claimed(f) # {} /\ Claimed(f)' = {}
    <2>1. u \in Claimed(f)
      BY <1>1, <1>2 DEF Claimed
    <2>2. Claimed(f)' = {}
      BY <1>2, <1>3, <1>4, OneClaim DEF Claimed
    <2> QED
      BY <2>1, <2>2
  <1>6. \A g \in Flows : /\ g # f => Claimed(g)' = Claimed(g)
                         /\ g # f => Fresh(g)' = Fresh(g)
                         /\ Returning(g)' = Returning(g)
                         /\ (Adding(g)' <=> Adding(g)) /\ (Advancing(g)' <=> Advancing(g))
    BY <1>1, <1>2, <1>3 DEF Claimed, Returning, Fresh, FirstUntaken, Adding, Advancing
  <1>7. ASSUME NEW g \in Flows, g # f PROVE FlowInv(g)'
    <2>1. RingKept(g)
      BY <1>2, <1>3, <1>6, <1>7 DEF RingKept
    <2> QED
      BY <2>1, FlowUntouched DEF OutputInv
  <1>8. FirstUntaken(f) = i /\ FirstUntaken(f)' = NextEntry(FirstUntaken(f))
    BY <1>2, <1>3 DEF FirstUntaken
  <1>9. /\ data[f][i] = Whole(Len(delivered[f]) + 1)
        /\ Occupied(NextEntry(i), entry_r[f]) = Lent(f) + 1
    BY <1>4, <1>8, FirstMoves
  <1>10. /\ Fresh(f)' = Fresh(f) - 1
         /\ PartsInv(f)' /\ FreshSlots(f)' /\ GrowingSlot(f)'
         /\ DeliveredInv(f)' /\ CountInv(f)'
    BY <1>2, <1>3, <1>4, <1>5, <1>8, <1>9, FrameTaken
  <1>11. Lent(f)' = Lent(f) + 1
    BY <1>2, <1>8, <1>9 DEF Lent
  <1>12. /\ Fresh(f) \in 1 .. N - 1 /\ Lent(f) \in 0 .. N - 1 /\ N \in Nat
         /\ Len(held[f]) \in Nat
    BY <1>4, FlowNumbers, OfmapAssumption
  <1>13. FlowInv(f) /\ Len(held'[f]) = Len(held[f]) + 1
    <2>1. held[f] \in Seq([idx : Slots, frame : Contents])
      BY DEF TypeInv, TypeOK, ReaderType
    <2> DEFINE s == held[f]
    <2> HIDE DEF s, b
    <2>2. Len(Append(s, b)) = Len(s) + 1
      BY <2>1 DEF s
    <2> QED
      BY <1>3, <2>2 DEF OutputInv, s
  <1>14. RingInv(f)'
    <2> DEFINE x == Fresh(f)
               y == Lent(f)
    <2>1. x + y = x - 1 + (y + 1)
      <3>1. x \in 1 .. N - 1 /\ y \in 0 .. N - 1 /\ N \in Nat
        BY <1>12
      <3> HIDE DEF x, y
      <3> QED
        BY <3>1
    <2> QED
      BY <1>2, <1>10, <1>11, <1>13, <2>1 DEF RingInv, FlowInv
  <1>15. LentInv(f)'
    <2> DEFINE c == Cardinality(Returning(f))
               h == Len(held[f])
               y == Lent(f)
    <2>1. y = h + c
      BY <1>2, <1>13 DEF FlowInv, LentInv
    <2>2. c \in Nat
      <3>1. IsFiniteSet(Returning(f))
        BY FS_Subset, OfmapAssumption DEF Returning
      <3> QED
        BY <3>1, FS_CardinalityType
    <2>3. y + 1 = h + 1 + c
      <3>1. h \in Nat
        BY <1>12
      <3> HIDE DEF c, h, y
      <3> QED
        BY <2>1, <2>2, <3>1
    <2>4. reads'[f] # "stream" /\ Returning(f)' = Returning(f)
      BY <1>2, <1>6
    <2> QED
      BY <1>11, <1>13, <2>3, <2>4 DEF LentInv
  <1>16. SpaceFound'
    BY <1>2 DEF OutputInv, SpaceFound, Full
  <1>17. ASSUME NEW v \in Readers PROVE ReaderInv(v)'
    <2>1. CASE v = u
      BY <1>3, <2>1 DEF ReaderInv
    <2>2. CASE v # u
      BY <1>2, <1>3, <1>4, <1>6, <2>2, OtherReader
    <2> QED
      BY <2>1, <2>2
  <1> QED
    BY <1>7, <1>10, <1>14, <1>15, <1>16, <1>17 DEF OutputInv, FlowInv

(* How many threads are giving a buffer of the flow back. *)
LEMMA ReturningCounted ==
    ASSUME NEW f \in Flows
    PROVE  /\ IsFiniteSet(Returning(f)) /\ Cardinality(Returning(f)) \in Nat
           /\ \A u \in Returning(f) : Cardinality(Returning(f)) >= 1
           /\ \A u \in Readers \ Returning(f) :
                 Cardinality(Returning(f) \cup {u}) = Cardinality(Returning(f)) + 1
           /\ \A u \in Returning(f) :
                 Cardinality(Returning(f) \ {u}) = Cardinality(Returning(f)) - 1
  <1> DEFINE R == Returning(f)
  <1>1. IsFiniteSet(R)
    BY FS_Subset, OfmapAssumption DEF Returning
  <1> HIDE DEF R
  <1>2. Cardinality(R) \in Nat /\ (Cardinality(R) = 0 <=> R = {})
    BY <1>1, FS_CardinalityType, FS_EmptySet
  <1>3. \A u \in R : Cardinality(R) >= 1
    BY <1>2
  <1>4. \A u \in Readers \ R : Cardinality(R \cup {u}) = Cardinality(R) + 1
    BY <1>1, FS_AddElement
  <1>5. \A u \in R : Cardinality(R \ {u}) = Cardinality(R) - 1
    BY <1>1, FS_RemoveElement
  <1> QED
    BY <1>1, <1>2, <1>3, <1>4, <1>5 DEF R

(* A call of enqueue_ofmap_buf takes a buffer from the application, and    *)
(* its slot is on the way back.                                            *)
LEMMA OutputEnqueueCall ==
    ASSUME TypeInv, OutputInv, NEW u \in Readers, NEW f \in Flows, NEW k \in 1 .. N,
           EnqueueCall(u, f, k)
    PROVE  OutputInv'
  <1> DEFINE s == held[f]
             rest == SubSeq(s, 1, k - 1) \o SubSeq(s, k + 1, Len(s))
             c == Cardinality(Returning(f))
  <1>1. /\ UNCHANGED <<ringVars, wpc, flow_id, reads, ucopy, fetched, delivered>>
        /\ upc[u] = "idle" /\ upc' = [upc EXCEPT ![u] = "giveback"]
        /\ uflow' = [uflow EXCEPT ![u] = f]
        /\ k \in 1 .. Len(s)
        /\ held' = [held EXCEPT ![f] = rest]
    BY DEF EnqueueCall, workerVars, deviceVars
  <1> USE DEF ringVars
  <1>2. s \in Seq([idx : Slots, frame : Contents])
    BY DEF TypeInv, TypeOK, ReaderType
  <1>3. Len(rest) = Len(s) - 1
    <2> HIDE DEF s
    <2> QED
      BY <1>1, <1>2, GivenBack
  <1>4. /\ upc'[u] = "giveback" /\ uflow'[u] = f
        /\ \A v \in Readers : v # u => upc'[v] = upc[v] /\ uflow'[v] = uflow[v]
        /\ held'[f] = rest
        /\ \A g \in Flows : g # f => held'[g] = held[g]
    BY <1>1 DEF TypeInv, TypeOK, ReaderType
  <1> HIDE DEF rest
  <1>5. \A g \in Flows : /\ Claimed(g)' = Claimed(g)
                         /\ g # f => Returning(g)' = Returning(g)
                         /\ FirstUntaken(g)' = FirstUntaken(g)
                         /\ Fresh(g)' = Fresh(g) /\ Lent(g)' = Lent(g)
                         /\ (Adding(g)' <=> Adding(g)) /\ (Advancing(g)' <=> Advancing(g))
    BY <1>1, <1>4 DEF Claimed, Returning, Fresh, Lent, FirstUntaken, Adding, Advancing
  <1>6. Returning(f)' = Returning(f) \cup {u} /\ u \in Readers \ Returning(f)
    BY <1>1, <1>4 DEF Returning
  <1>7. ASSUME NEW g \in Flows, g # f PROVE FlowInv(g)'
    <2>1. RingKept(g)
      BY <1>1, <1>4, <1>5, <1>7 DEF RingKept
    <2> QED
      BY <2>1, FlowUntouched DEF OutputInv
  <1>8. FlowInv(f)
    BY DEF OutputInv
  <1>9. LentInv(f)'
    <2>1. reads[f] # "stream"
      BY <1>1, <1>8 DEF FlowInv, LentInv
    <2>2. Cardinality(Returning(f)') = c + 1 /\ c \in Nat
      BY <1>6, ReturningCounted
    <2>3. Len(s) \in Nat
      BY <1>2
    <2>4. Lent(f) = Len(s) + c
      BY <1>8, <2>1 DEF FlowInv, LentInv
    <2>5. Len(s) + c = Len(s) - 1 + (c + 1)
      <3> HIDE DEF c, s
      <3> QED
        BY <2>2, <2>3
    <2>6. Lent(f)' = Lent(f) /\ reads' = reads /\ Len(held'[f]) = Len(s) - 1
      BY <1>1, <1>3, <1>4, <1>5
    <2> HIDE DEF c, s
    <2> QED
      BY <2>1, <2>2, <2>4, <2>5, <2>6 DEF LentInv
  <1>10. FlowInv(f)'
    <2>1. RingInv(f)' /\ DeliveredInv(f)'
      BY <1>1, <1>5, <1>8 DEF FlowInv, RingInv, DeliveredInv
    <2>2. PartsInv(f)'
      BY <1>1, <1>5, <1>8 DEF FlowInv, PartsInv, Complete
    <2>3. FreshSlots(f)' /\ GrowingSlot(f)'
      BY <1>1, <1>5, <1>8 DEF FlowInv, FreshSlots, GrowingSlot
    <2>4. CountInv(f)'
      BY <1>1, <1>5, <1>8 DEF FlowInv, CountInv
    <2> QED
      BY <1>9, <2>1, <2>2, <2>3, <2>4 DEF FlowInv
  <1>11. SpaceFound'
    BY <1>1 DEF OutputInv, SpaceFound, Full
  <1>12. ASSUME NEW v \in Readers PROVE ReaderInv(v)'
    <2>1. CASE v = u
      BY <1>4, <2>1 DEF ReaderInv
    <2>2. CASE v # u
      BY <1>1, <1>4, <1>5, <2>2, OtherReader
    <2> QED
      BY <2>1, <2>2
  <1> QED
    BY <1>7, <1>10, <1>11, <1>12 DEF OutputInv

(* enqueue_ofmap_buf moves entry_r past the oldest lent slot. *)
LEMMA OutputEnqueueRelease ==
    ASSUME TypeInv, TypeInv', OutputInv, NEW u \in Readers, EnqueueRelease(u)
    PROVE  OutputInv'
  <1>1. PICK f \in Flows : f = uflow[u]
    BY DEF TypeInv, TypeOK, ReaderType
  <1> DEFINE w == entry_w[f]
             e == entry_r[f]
             r == FirstUntaken(f)
             x == Fresh(f)
             y == Lent(f)
             c == Cardinality(Returning(f))
             h == Len(held[f])
  <1>2. /\ UNCHANGED <<entry_w, remain_buf_cnt, read_buf_idx, transferred, data,
                       write_guard, read_guard, wpc, flow_id, reads, uflow, ucopy,
                       held, fetched, delivered>>
        /\ upc[u] = "giveback" /\ upc' = [upc EXCEPT ![u] = "idle"]
        /\ read_guard[f] = NoReader
        /\ entry_r' = [entry_r EXCEPT ![f] = NextEntry(e)]
    BY <1>1 DEF EnqueueRelease, ReadGuardFree, workerVars, deviceVars
  <1>3. /\ upc'[u] = "idle" /\ \A v \in Readers : v # u => upc'[v] = upc[v]
        /\ entry_r'[f] = NextEntry(e)
        /\ \A g \in Flows : g # f => entry_r'[g] = entry_r[g]
    BY <1>2 DEF TypeInv, TypeOK, RingType, ReaderType
  <1>4. Returning(f)' = Returning(f) \ {u} /\ u \in Returning(f)
    BY <1>1, <1>2, <1>3 DEF Returning
  <1>5. c \in Nat /\ c >= 1 /\ Cardinality(Returning(f)') = c - 1
    BY <1>4, ReturningCounted
  <1>6. FlowInv(f)
    BY DEF OutputInv
  <1>7. reads[f] = "dequeue" /\ y = h + c
    <2>1. reads[f] # "stream"
      BY <1>4, <1>6 DEF FlowInv, LentInv
    <2> QED
      BY <1>6, <2>1, FirstIsPointer DEF FlowInv, LentInv
  <1>8. /\ x \in 0 .. N - 1 /\ y \in 0 .. N - 1 /\ x + y \in 0 .. N - 1 /\ N \in Nat
        /\ h \in Nat /\ w \in Slots /\ e \in Slots /\ r \in Slots
        /\ Occupied(w, e) = x + y
    BY FlowNumbers, FirstIsPointer, OfmapAssumption
  <1>9. Occupied(r, e) = y
    BY DEF Lent
  <1>10. /\ Occupied(r, NextEntry(e)) = y - 1
         /\ Occupied(w, NextEntry(e)) = x + y - 1
    <2> HIDE DEF w, e, r, x, y, c, h
    <2>1. y >= 1 /\ x + y >= 1
      BY <1>5, <1>7, <1>8
    <2>2. r # e /\ w # e
      BY <1>8, <1>9, <2>1, OccupiedRange
    <2> QED
      BY <1>8, <1>9, <2>2, OccupiedAfterMove
  <1>11. \A g \in Flows : /\ Claimed(g)' = Claimed(g)
                          /\ g # f => Returning(g)' = Returning(g)
                          /\ (Adding(g)' <=> Adding(g)) /\ (Advancing(g)' <=> Advancing(g))
    BY <1>1, <1>2, <1>3 DEF Claimed, Returning, Adding, Advancing
  <1>12. \A g \in Flows : /\ FirstUntaken(g)' = FirstUntaken(g)
                          /\ Fresh(g)' = Fresh(g)
    BY <1>2, <1>3, <1>7 DEF Fresh, FirstUntaken
  <1>13. ASSUME NEW g \in Flows, g # f PROVE FlowInv(g)'
    <2>1. RingKept(g)
      BY <1>2, <1>3, <1>11, <1>13 DEF RingKept
    <2> QED
      BY <2>1, FlowUntouched DEF OutputInv
  <1>14. Lent(f)' = y - 1 /\ Occupied(entry_w'[f], entry_r'[f]) = x + y - 1
    BY <1>2, <1>3, <1>10, <1>12 DEF Lent
  <1>15. RingInv(f)' /\ LentInv(f)'
    <2>1. x + y - 1 = x + (y - 1) /\ y - 1 = h + (c - 1)
      <3> HIDE DEF x, y, h, c
      <3> QED
        BY <1>5, <1>7, <1>8
    <2>2. RingInv(f)'
      BY <1>12, <1>14, <2>1 DEF RingInv
    <2>3. reads'[f] # "stream" /\ Len(held'[f]) = h
      BY <1>2, <1>7
    <2>4. LentInv(f)'
      BY <1>5, <1>14, <2>1, <2>3 DEF LentInv
    <2> QED
      BY <2>2, <2>4
  <1>16. FlowInv(f)'
    <2>1. DeliveredInv(f)'
      BY <1>2, <1>6 DEF FlowInv, DeliveredInv
    <2>2. PartsInv(f)'
      BY <1>2, <1>6, <1>11, <1>12 DEF FlowInv, PartsInv, Complete
    <2>3. FreshSlots(f)' /\ GrowingSlot(f)'
      BY <1>2, <1>6, <1>11, <1>12 DEF FlowInv, FreshSlots, GrowingSlot
    <2>4. CountInv(f)'
      BY <1>2, <1>6, <1>11, <1>12 DEF FlowInv, CountInv
    <2> QED
      BY <1>15, <2>1, <2>2, <2>3, <2>4 DEF FlowInv
  <1>17. SpaceFound'
    <2>1. Occupied(entry_w[f], entry_r'[f]) # N - 1
      <3>1. x + y - 1 # N - 1
        <4> HIDE DEF x, y
        <4> QED
          BY <1>8
      <3> QED
        BY <1>2, <1>14, <3>1
    <2> QED
      BY <1>2, <1>3, <2>1, SpaceKept
  <1>18. ASSUME NEW v \in Readers PROVE ReaderInv(v)'
    <2>1. CASE v = u
      BY <1>3, <2>1 DEF ReaderInv
    <2>2. CASE v # u
      BY <1>2, <1>3, <1>12, <2>2, OtherReader
    <2> QED
      BY <2>1, <2>2
  <1> QED
    BY <1>13, <1>16, <1>17, <1>18 DEF OutputInv

(* Every step keeps the invariant. *)
LEMMA OutputInvNext ==
    TypeInv /\ TypeInv' /\ OutputInv /\ [Next]_vars => OutputInv'
  <1> SUFFICES ASSUME TypeInv, TypeInv', OutputInv, [Next]_vars PROVE OutputInv'
    OBVIOUS
  <1>1. CASE \/ WorkerTop \/ WorkerSleep \/ SpuriousWakeup \/ WorkerGo
             \/ ScanFlow \/ ScanDone \/ ReadNothing
    <2>1. UNCHANGED <<ringVars, userVars, fetched, delivered>>
      BY <1>1 DEF WorkerTop, WorkerSleep, SpuriousWakeup, WorkerGo, ScanFlow,
         ScanDone, ReadNothing, deviceVars
    <2>2. \/ wpc \notin {"read", "count", "advance"} /\ wpc' \notin {"read", "count", "advance"}
          \/ wpc = "scan" /\ wpc' = "read" /\ flow_id' = flow_id /\ ~Full(flow_id)
          \/ wpc = "read" /\ wpc' = "scan"
      BY <1>1 DEF WorkerTop, WorkerSleep, SpuriousWakeup, WorkerGo, ScanFlow,
         ScanDone, ReadNothing
    <2> QED
      BY <2>1, <2>2, OutputUntouched
  <1>2. CASE \/ UNCHANGED vars
             \/ \E f \in Flows : Arrive(f)
             \/ DestroyDisable
    <2>1. UNCHANGED <<ringVars, userVars, fetched, delivered, wpc, flow_id>>
      BY <1>2 DEF vars, Arrive, DestroyDisable, workerVars, deviceVars
    <2> QED
      BY <2>1, OutputUntouched
  <1>3. CASE Control \/ \E wait \in BOOLEAN : SetStreamEnable(wait) \/ SetStreamDisable(wait)
    <2>1. UNCHANGED <<ringVars, userVars, fetched, delivered, flow_id>>
      BY <1>3 DEF Control, StateEntered, DestroySignal, DestroyJoin,
         SetStreamEnable, SetStreamDisable, workerVars, deviceVars
    <2>2. \/ wpc' = wpc
          \/ wpc = "asleep" /\ wpc' = "gate"
      BY <1>3 DEF Control, StateEntered, DestroySignal, DestroyJoin,
         SetStreamEnable, SetStreamDisable, GoToState, Wake, workerVars
    <2> QED
      BY <2>1, <2>2, OutputUntouched
  <1>4. CASE ReadPart \/ CountFrame \/ AdvanceEntry
    BY <1>4, OutputReadPart, OutputCountFrame, OutputAdvanceEntry
  <1>5. ASSUME NEW u \in Readers, Reader(u) PROVE OutputInv'
    <2>1. CASE ReadLock(u) \/ ReadTimeout(u)
      <3>1. PICK f \in Flows : f = uflow[u]
        BY DEF TypeInv, TypeOK, ReaderType
      <3> QED
        BY <2>1, <3>1, OutputReadCall
    <2>2. CASE ReadClaim(u)
      BY <2>2, OutputReadClaim
    <2>3. CASE StreamCopy(u)
      BY <2>3, OutputStreamCopy
    <2>4. CASE StreamRelease(u)
      BY <2>4, OutputStreamRelease
    <2>5. CASE DequeueTake(u)
      BY <2>5, OutputDequeueTake
    <2>6. CASE EnqueueRelease(u)
      BY <2>6, OutputEnqueueRelease
    <2> QED
      BY <1>5, <2>1, <2>2, <2>3, <2>4, <2>5, <2>6 DEF Reader
  <1>6. ASSUME NEW u \in Readers, NEW f \in Flows, NEW timed \in BOOLEAN, ReadCall(u, f, timed)
        PROVE  OutputInv'
    BY <1>6, OutputReadCall
  <1>7. ASSUME NEW u \in Readers, NEW f \in Flows, NEW k \in 1 .. N, EnqueueCall(u, f, k)
        PROVE  OutputInv'
    BY <1>7, OutputEnqueueCall
  <1> QED
    BY <1>1, <1>2, <1>3, <1>4, <1>5, <1>6, <1>7 DEF Next, Worker

(* The types and the invariant of the rings hold in every state. *)
THEOREM InvariantsHold == Spec => [](TypeInv /\ OutputInv)
  <1>1. Init => TypeInv /\ OutputInv
    BY TypeInvInit, OutputInvInit
  <1>2. TypeInv /\ OutputInv /\ [Next]_vars => (TypeInv /\ OutputInv)'
    BY TypeInvNext, OutputInvNext
  <1> QED
    BY <1>1, <1>2, PTL DEF Spec

-----------------------------------------------------------------------------
(* The frames of a flow reach the application whole, once and in the order *)
(* the device sent them, for any number of readers.                        *)
THEOREM WholeFramesInOrderHolds == Spec => []WholeFramesInOrder
  <1>1. OutputInv => WholeFramesInOrder
    BY DEF OutputInv, FlowInv, DeliveredInv, WholeFramesInOrder
  <1> QED
    BY <1>1, InvariantsHold, PTL

(* The count that dequeue_ofmap_buf polls and the pointers that            *)
(* stream_ofmap polls agree, but for the frame being added and the one     *)
(* that is claimed.                                                        *)
THEOREM CountMatchesPointersHolds == Spec => []CountMatchesPointers
  <1>1. OutputInv => CountMatchesPointers
    BY DEF OutputInv, FlowInv, CountInv, CountMatchesPointers, Fresh
  <1> QED
    BY <1>1, InvariantsHold, PTL

-----------------------------------------------------------------------------
(* Lent buffers.  When they come back in the order they were lent, the     *)
(* buffers that are held are the last of the slots between entry_r and the *)
(* next to lend, in order; those on their way back come before them.       *)
LentSlots(f) ==
    \A k \in 1 .. Len(held[f]) :
        /\ held[f][k].idx = SlotAfter(entry_r[f], Cardinality(Returning(f)) + k - 1)
        /\ data[f][held[f][k].idx] = held[f][k].frame

LentSlotsInv == \A f \in Flows : LentSlots(f)

(* Where a held buffer is among the slots of its flow. *)
LEMMA PlaceOfHeld ==
    ASSUME TypeInv, OutputInv, NEW f \in Flows, NEW k \in 1 .. Len(held[f])
    PROVE  /\ Cardinality(Returning(f)) + k - 1 \in 0 .. N - 1
           /\ Cardinality(Returning(f)) + k - 1 < Lent(f)
           /\ Lent(f) = Len(held[f]) + Cardinality(Returning(f))
           /\ reads[f] = "dequeue"
  <1> DEFINE c == Cardinality(Returning(f))
             h == Len(held[f])
             y == Lent(f)
  <1>1. /\ c \in Nat /\ h \in Nat /\ y \in 0 .. N - 1 /\ N \in Nat
    BY ReturningCounted, FlowNumbers, OfmapAssumption
  <1>2. k \in 1 .. h
    OBVIOUS
  <1>3. reads[f] = "dequeue" /\ y = h + c
    <2>1. h # 0
      BY <1>1, <1>2
    <2>2. held[f] # <<>>
      BY <2>1
    <2> QED
      BY <2>2, FirstIsPointer DEF OutputInv, FlowInv, LentInv
  <1> HIDE DEF c, h, y
  <1>4. c + k - 1 \in 0 .. N - 1 /\ c + k - 1 < y
    BY <1>1, <1>2, <1>3
  <1> QED
    BY <1>3, <1>4 DEF c, h, y

(* The buffers that are left when the oldest one is given back. *)
LEMMA OldestGivenBack ==
    ASSUME NEW S, NEW s \in Seq(S), 1 \in 1 .. Len(s),
           NEW j \in 1 .. Len(s) - 1
    PROVE  (SubSeq(s, 1, 1 - 1) \o SubSeq(s, 1 + 1, Len(s)))[j] = s[j + 1]
  <1> DEFINE l == Len(s)
             a == SubSeq(s, 1, 0)
             b == SubSeq(s, 2, l)
  <1>1. l \in Nat /\ \A i \in 1 .. l : s[i] \in S
    BY ElementOfSeq
  <1>2. a \in Seq(S) /\ Len(a) = 0
    <2>1. \A i \in 1 .. 0 : s[i] \in S
      OBVIOUS
    <2> QED
      BY <2>1, SubSeqProperties
  <1>3. b \in Seq(S) /\ Len(b) = l - 1 /\ \A i \in 1 .. l - 1 : b[i] = s[i + 1]
    <2> HIDE DEF l
    <2>1. \A i \in 2 .. l : s[i] \in S
      BY <1>1
    <2>2. /\ b \in Seq(S) /\ Len(b) = IF 2 <= l THEN l - 2 + 1 ELSE 0
          /\ \A i \in 1 .. l - 2 + 1 : b[i] = s[2 + i - 1]
      BY <1>1, <2>1, SubSeqProperties
    <2>3. l >= 1
      BY DEF l
    <2>4. \A i \in 1 .. l - 1 : i \in 1 .. l - 2 + 1 /\ 2 + i - 1 = i + 1
      BY <1>1
    <2> QED
      BY <1>1, <2>2, <2>3, <2>4
  <1> HIDE DEF a, b
  <1>4. (a \o b)[j] = b[j]
    <2>1. j \in 1 .. Len(b) /\ Len(b) \in Nat
      BY <1>1, <1>3
    <2> HIDE DEF l
    <2>2. j \in 1 .. Len(a) + Len(b) /\ ~(j <= Len(a)) /\ j - Len(a) = j
      BY <1>2, <2>1
    <2> QED
      BY <1>2, <1>3, <2>2, ConcatProperties
  <1>5. b[j] = s[j + 1]
    BY <1>3
  <1> QED
    BY <1>4, <1>5 DEF a, b

(* A flow whose buffers and slots a step leaves alone. *)
LEMMA LentKept ==
    ASSUME TypeInv, NEW f \in Flows, LentSlots(f),
           held'[f] = held[f], data'[f] = data[f], entry_r'[f] = entry_r[f],
           uflow' = uflow,
           \A v \in Readers : upc'[v] = "giveback" <=> upc[v] = "giveback"
    PROVE  LentSlots(f)'
  <1>1. Returning(f)' = Returning(f)
    BY DEF Returning
  <1> QED
    BY <1>1 DEF LentSlots

(* The worker writes at entry_w, which no held buffer is. *)
LEMMA LentReadPart ==
    ASSUME TypeInv, OutputInv, NEW f \in Flows, LentSlots(f), ReadPart
    PROVE  LentSlots(f)'
  <1>1. PICK g \in Flows : g = flow_id
    BY DEF ReadPart, TypeInv, WorkerAtFlow
  <1>2. UNCHANGED <<held, entry_r, uflow, upc>>
    BY DEF ReadPart, userVars
  <1>3. CASE g # f
    BY <1>1, <1>2, <1>3, PartWritten, LentKept
  <1>4. CASE g = f
    <2> DEFINE w == entry_w[f]
               e == entry_r[f]
               o == Occupied(w, e)
               c == Cardinality(Returning(f))
    <2>1. /\ o \in 0 .. N - 1 /\ o = Fresh(f) + Lent(f)
          /\ Fresh(f) \in 0 .. N - 1 /\ Lent(f) \in 0 .. N - 1
          /\ w \in Slots /\ e \in Slots /\ N \in Nat
      BY FlowNumbers, FirstIsPointer, OfmapAssumption
    <2>2. SlotAfter(e, o) = w
      BY <2>1, SlotOfWritePointer
    <2>3. c' = c
      BY <1>2 DEF Returning
    <2> SUFFICES ASSUME NEW k \in 1 .. Len(held[f])
                 PROVE  /\ held[f][k].idx = SlotAfter(e, c + k - 1)
                        /\ data'[f][held[f][k].idx] = held[f][k].frame
      BY <1>2, <2>3 DEF LentSlots
    <2>4. /\ held[f][k].idx = SlotAfter(e, c + k - 1)
          /\ data[f][held[f][k].idx] = held[f][k].frame
      BY DEF LentSlots
    <2>5. c + k - 1 \in 0 .. N - 1 /\ c + k - 1 < Lent(f)
      BY PlaceOfHeld
    <2>6. c + k - 1 # o
      <3> DEFINE x == Fresh(f)
                 y == Lent(f)
                 z == c + k - 1
      <3>1. z \in 0 .. N - 1 /\ z < y /\ o = x + y /\ x \in 0 .. N - 1 /\ y \in 0 .. N - 1
        BY <2>1, <2>5
      <3> HIDE DEF x, y, z, o
      <3>2. z # o
        BY <2>1, <3>1
      <3> QED
        BY <3>2 DEF z
    <2> HIDE DEF w, e, o, c
    <2>7. SlotAfter(e, c + k - 1) # w /\ SlotAfter(e, c + k - 1) \in Slots
      BY <2>1, <2>2, <2>5, <2>6, SlotInjective, SlotInRing
    <2>8. data'[f][held[f][k].idx] = data[f][held[f][k].idx]
      BY <1>1, <1>4, <2>4, <2>7, PartWritten DEF w
    <2> QED
      BY <2>4, <2>8
  <1> QED
    BY <1>3, <1>4

(* dequeue_ofmap_buf lends the slot behind those that are lent already. *)
LEMMA LentDequeueTake ==
    ASSUME TypeInv, OutputInv, NEW f \in Flows, LentSlots(f),
           NEW u \in Readers, DequeueTake(u)
    PROVE  LentSlots(f)'
  <1>1. PICK g \in Flows : g = uflow[u]
    BY DEF TypeInv, TypeOK, ReaderType
  <1>2. /\ UNCHANGED <<entry_r, data, uflow, reads>>
        /\ upc[u] = "take" /\ upc' = [upc EXCEPT ![u] = "idle"]
        /\ reads[g] = "dequeue"
        /\ held' = [held EXCEPT ![g] = Append(held[g],
                        [idx |-> read_buf_idx[g], frame |-> data[g][read_buf_idx[g]]])]
    BY <1>1 DEF DequeueTake
  <1>3. \A v \in Readers : upc'[v] = "giveback" <=> upc[v] = "giveback"
    BY <1>2 DEF TypeInv, TypeOK, ReaderType
  <1>4. CASE g # f
    <2>1. held'[f] = held[f]
      BY <1>2, <1>4 DEF TypeInv, TypeOK, ReaderType
    <2> QED
      BY <1>2, <1>3, <2>1, LentKept
  <1>5. CASE g = f
    <2> DEFINE i == read_buf_idx[f]
               b == [idx |-> i, frame |-> data[f][i]]
               s == held[f]
               e == entry_r[f]
               c == Cardinality(Returning(f))
    <2>1. held'[f] = Append(s, b) /\ s \in Seq([idx : Slots, frame : Contents])
      BY <1>2, <1>5 DEF TypeInv, TypeOK, ReaderType
    <2>2. /\ Len(Append(s, b)) = Len(s) + 1
          /\ \A k \in 1 .. Len(s) : Append(s, b)[k] = s[k]
          /\ Append(s, b)[Len(s) + 1] = b
      <3> HIDE DEF s, b
      <3> QED
        BY <2>1
    <2>3. c' = c
      BY <1>2, <1>3 DEF Returning
    <2>4. i = SlotAfter(e, c + (Len(s) + 1) - 1)
      <3>1. i = FirstUntaken(f) /\ i \in Slots /\ e \in Slots
        BY <1>2, <1>5, FirstIsPointer
      <3>2. i = SlotAfter(e, Lent(f))
        BY <3>1, SlotOfWritePointer DEF Lent
      <3>3. Lent(f) = Len(s) + c
        BY <1>2, <1>5 DEF OutputInv, FlowInv, LentInv
      <3>4. c \in Nat /\ Len(s) \in Nat
        BY <2>1, ReturningCounted
      <3>5. Len(s) + c = c + (Len(s) + 1) - 1
        <4> HIDE DEF s, c
        <4> QED
          BY <3>4
      <3> QED
        BY <3>2, <3>3, <3>5
    <2> SUFFICES ASSUME NEW k \in 1 .. Len(s) + 1
                 PROVE  /\ Append(s, b)[k].idx = SlotAfter(e, c + k - 1)
                        /\ data[f][Append(s, b)[k].idx] = Append(s, b)[k].frame
      BY <1>2, <2>1, <2>2, <2>3 DEF LentSlots
    <2>5. CASE k = Len(s) + 1
      <3>1. Append(s, b)[k] = b /\ b.idx = i /\ b.frame = data[f][i]
        BY <2>2, <2>5
      <3> HIDE DEF b, s, c, e, i
      <3> QED
        BY <2>4, <2>5, <3>1
    <2>6. CASE k # Len(s) + 1
      <3>1. k \in 1 .. Len(s)
        <4>1. Len(s) \in Nat
          BY <2>1
        <4> HIDE DEF s
        <4> QED
          BY <2>6, <4>1
      <3>2. Append(s, b)[k] = s[k]
        BY <2>2, <3>1
      <3> HIDE DEF b
      <3> QED
        BY <3>1, <3>2 DEF LentSlots
    <2> QED
      BY <2>5, <2>6
  <1> QED
    BY <1>4, <1>5

(* The oldest buffer is on its way back: the others are the next ones. *)
LEMMA LentEnqueueCall ==
    ASSUME TypeInv, OutputInv, NEW f \in Flows, LentSlots(f), InOrder,
           NEW u \in Readers, NEW g \in Flows, NEW k \in 1 .. N, EnqueueCall(u, g, k)
    PROVE  LentSlots(f)'
  <1> DEFINE s == held[g]
             rest == SubSeq(s, 1, 1 - 1) \o SubSeq(s, 1 + 1, Len(s))
  <1>1. /\ UNCHANGED <<entry_r, data>>
        /\ upc[u] = "idle" /\ upc' = [upc EXCEPT ![u] = "giveback"]
        /\ uflow' = [uflow EXCEPT ![u] = g]
        /\ k = 1 /\ 1 \in 1 .. Len(s)
        /\ held' = [held EXCEPT ![g] = rest]
    BY DEF EnqueueCall, ringVars
  <1>2. s \in Seq([idx : Slots, frame : Contents])
    BY DEF TypeInv, TypeOK, ReaderType
  <1>3. /\ held'[g] = rest
        /\ upc'[u] = "giveback" /\ uflow'[u] = g
        /\ \A v \in Readers : v # u => upc'[v] = upc[v] /\ uflow'[v] = uflow[v]
        /\ \A h \in Flows : h # g => held'[h] = held[h]
    BY <1>1 DEF TypeInv, TypeOK, ReaderType
  <1>4. CASE g # f
    <2>1. Returning(f)' = Returning(f)
      BY <1>1, <1>3, <1>4 DEF Returning
    <2> QED
      BY <1>1, <1>3, <1>4, <2>1 DEF LentSlots
  <1>5. CASE g = f
    <2> DEFINE c == Cardinality(Returning(f))
               e == entry_r[f]
    <2>1. Returning(f)' = Returning(f) \cup {u} /\ u \in Readers \ Returning(f)
      BY <1>1, <1>3, <1>5 DEF Returning
    <2>2. c' = c + 1 /\ c \in Nat
      BY <2>1, ReturningCounted
    <2>3. Len(rest) = Len(s) - 1
      <3> HIDE DEF s
      <3> QED
        BY <1>1, <1>2, GivenBack
    <2>4. \A j \in 1 .. Len(s) - 1 : rest[j] = s[j + 1]
      BY <1>1, <1>2, OldestGivenBack
    <2>5. Len(s) \in Nat
      BY <1>2
    <2> HIDE DEF rest, c
    <2> SUFFICES ASSUME NEW j \in 1 .. Len(s) - 1
                 PROVE  /\ rest[j].idx = SlotAfter(e, c + 1 + j - 1)
                        /\ data[f][rest[j].idx] = rest[j].frame
      <3>1. Len(held'[f]) = Len(s) - 1 /\ held'[f] = rest /\ data'[f] = data[f]
        BY <1>1, <1>3, <1>5, <2>3
      <3>2. entry_r'[f] = e /\ Cardinality(Returning(f))' = c + 1
        BY <1>1, <2>2 DEF c
      <3> HIDE DEF s, e
      <3> QED
        BY <3>1, <3>2 DEF LentSlots
    <2>6. j + 1 \in 1 .. Len(s) /\ c + (j + 1) - 1 = c + 1 + j - 1
      <3> HIDE DEF s
      <3> QED
        BY <2>2, <2>5
    <2>7. /\ s[j + 1].idx = SlotAfter(e, c + (j + 1) - 1)
          /\ data[f][s[j + 1].idx] = s[j + 1].frame
      BY <1>5, <2>6 DEF LentSlots, c
    <2> QED
      BY <2>4, <2>6, <2>7
  <1> QED
    BY <1>4, <1>5

(* entry_r passes a slot that is on its way back. *)
LEMMA LentEnqueueRelease ==
    ASSUME TypeInv, OutputInv, NEW f \in Flows, LentSlots(f),
           NEW u \in Readers, EnqueueRelease(u)
    PROVE  LentSlots(f)'
  <1>1. PICK g \in Flows : g = uflow[u]
    BY DEF TypeInv, TypeOK, ReaderType
  <1>2. /\ UNCHANGED <<held, data, uflow>>
        /\ upc[u] = "giveback" /\ upc' = [upc EXCEPT ![u] = "idle"]
        /\ entry_r' = [entry_r EXCEPT ![g] = NextEntry(entry_r[g])]
    BY <1>1 DEF EnqueueRelease
  <1>3. /\ upc'[u] = "idle" /\ \A v \in Readers : v # u => upc'[v] = upc[v]
        /\ entry_r'[g] = NextEntry(entry_r[g])
        /\ \A h \in Flows : h # g => entry_r'[h] = entry_r[h]
    BY <1>2 DEF TypeInv, TypeOK, RingType, ReaderType
  <1>4. CASE g # f
    <2>1. Returning(f)' = Returning(f)
      BY <1>1, <1>2, <1>3, <1>4 DEF Returning
    <2> QED
      BY <1>2, <1>3, <1>4, <2>1 DEF LentSlots
  <1>5. CASE g = f
    <2> DEFINE c == Cardinality(Returning(f))
               e == entry_r[f]
    <2>1. Returning(f)' = Returning(f) \ {u} /\ u \in Returning(f)
      BY <1>1, <1>2, <1>3, <1>5 DEF Returning
    <2>2. c' = c - 1 /\ c \in Nat /\ c >= 1
      BY <2>1, ReturningCounted
    <2> SUFFICES ASSUME NEW k \in 1 .. Len(held[f])
                 PROVE  /\ held[f][k].idx = SlotAfter(NextEntry(e), c - 1 + k - 1)
                        /\ data[f][held[f][k].idx] = held[f][k].frame
      BY <1>2, <1>3, <1>5, <2>2 DEF LentSlots
    <2>3. /\ held[f][k].idx = SlotAfter(e, c + k - 1)
          /\ data[f][held[f][k].idx] = held[f][k].frame
      BY DEF LentSlots
    <2>4. c + k - 1 \in 0 .. N - 1 /\ N \in Nat /\ e \in Slots /\ k \in Nat /\ k >= 1
      <3>1. Len(held[f]) \in Nat
        BY FlowNumbers
      <3> QED
        BY <3>1, PlaceOfHeld, FirstIsPointer, OfmapAssumption
    <2> HIDE DEF c, e
    <2>5. c - 1 + k - 1 \in 0 .. N - 2 /\ c - 1 + k - 1 + 1 = c + k - 1
      BY <2>2, <2>4
    <2>6. SlotAfter(NextEntry(e), c - 1 + k - 1) = SlotAfter(e, c + k - 1)
      BY <2>4, <2>5, SlotAfterMove
    <2> QED
      BY <2>3, <2>6
  <1> QED
    BY <1>4, <1>5

(* Every step keeps the held buffers in their slots. *)
LEMMA LentSlotsNext ==
    ASSUME InOrder, TypeInv, OutputInv, LentSlotsInv, [Next]_vars
    PROVE  LentSlotsInv'
  <1> SUFFICES ASSUME NEW f \in Flows PROVE LentSlots(f)'
    BY DEF LentSlotsInv
  <1>1. LentSlots(f)
    BY DEF LentSlotsInv
  <1>2. CASE ReadPart
    BY <1>1, <1>2, LentReadPart
  <1>3. ASSUME NEW u \in Readers, DequeueTake(u) \/ EnqueueRelease(u)
        PROVE  LentSlots(f)'
    BY <1>1, <1>3, LentDequeueTake, LentEnqueueRelease
  <1>4. ASSUME NEW u \in Readers, NEW g \in Flows, NEW k \in 1 .. N, EnqueueCall(u, g, k)
        PROVE  LentSlots(f)'
    BY <1>1, <1>4, LentEnqueueCall
  <1>5. ASSUME NEW u \in Readers, StreamRelease(u) PROVE LentSlots(f)'
    <2>1. PICK g \in Flows : g = uflow[u]
      BY DEF TypeInv, TypeOK, ReaderType
    <2>2. /\ UNCHANGED <<held, data, uflow>>
          /\ upc[u] = "release" /\ upc' = [upc EXCEPT ![u] = "idle"]
          /\ entry_r' = [entry_r EXCEPT ![g] = NextEntry(entry_r[g])]
      BY <1>5, <2>1 DEF StreamRelease
    <2>3. \A v \in Readers : upc'[v] = "giveback" <=> upc[v] = "giveback"
      BY <2>2 DEF TypeInv, TypeOK, ReaderType
    <2>4. CASE g = f
      <3>1. reads[f] = "stream"
        BY <1>5, <2>1, <2>2, <2>4 DEF OutputInv, ReaderInv
      <3>2. held'[f] = <<>>
        BY <2>2, <3>1 DEF OutputInv, FlowInv, LentInv
      <3>3. Len(held'[f]) = 0
        BY <3>2
      <3> QED
        BY <3>3 DEF LentSlots
    <2>5. CASE g # f
      <3>1. entry_r'[f] = entry_r[f]
        BY <2>2, <2>5 DEF TypeInv, TypeOK, RingType
      <3> QED
        BY <1>1, <2>2, <2>3, <3>1, LentKept
    <2> QED
      BY <2>4, <2>5
  <1>6. ASSUME NEW u \in Readers,
               ReadLock(u) \/ ReadTimeout(u) \/ ReadClaim(u) \/ StreamCopy(u)
        PROVE  LentSlots(f)'
    <2>1. /\ UNCHANGED <<held, data, entry_r, uflow>>
          /\ upc[u] # "giveback"
          /\ \E x \in ReaderPCs \ {"giveback"} : upc' = [upc EXCEPT ![u] = x]
      BY <1>6 DEF ReadLock, ReadTimeout, ReadClaim, StreamCopy, ringVars, ReaderPCs
    <2>2. \A v \in Readers : upc'[v] = "giveback" <=> upc[v] = "giveback"
      BY <2>1 DEF TypeInv, TypeOK, ReaderType
    <2> QED
      BY <1>1, <2>1, <2>2, LentKept
  <1>7. ASSUME NEW u \in Readers, NEW g \in Flows, NEW timed \in BOOLEAN, ReadCall(u, g, timed)
        PROVE  LentSlots(f)'
    <2>1. /\ UNCHANGED <<held, data, entry_r>>
          /\ upc[u] = "idle" /\ upc' = [upc EXCEPT ![u] = "lock"]
          /\ uflow' = [uflow EXCEPT ![u] = g]
      BY <1>7 DEF ReadCall, ringVars
    <2>2. Returning(f)' = Returning(f)
      BY <2>1 DEF Returning, TypeInv, TypeOK, ReaderType
    <2> QED
      BY <1>1, <2>1, <2>2 DEF LentSlots
  <1>8. CASE \/ UNCHANGED vars \/ SpuriousWakeup \/ WorkerTop \/ WorkerSleep
             \/ WorkerGo \/ ScanFlow \/ ScanDone \/ ReadNothing \/ CountFrame
             \/ AdvanceEntry \/ Control \/ DestroyDisable
             \/ \E wait \in BOOLEAN : SetStreamEnable(wait) \/ SetStreamDisable(wait)
             \/ \E g \in Flows : Arrive(g)
    <2>1. UNCHANGED <<held, data, entry_r, uflow, upc>>
      BY <1>8 DEF vars, SpuriousWakeup, WorkerTop, WorkerSleep, WorkerGo,
         ScanFlow, ScanDone, ReadNothing, CountFrame, AdvanceEntry, Control,
         StateEntered, DestroySignal, DestroyJoin, DestroyDisable,
         SetStreamEnable, SetStreamDisable, Arrive, ringVars, userVars
    <2> QED
      BY <1>1, <2>1, LentKept
  <1> QED
    BY <1>2, <1>3, <1>4, <1>5, <1>6, <1>7, <1>8 DEF Next, Worker, Reader

(* An application that gives its buffers back in the order it got them     *)
(* never sees the worker write into one that it still holds.               *)
THEOREM LentBuffersIntactHolds == ASSUME InOrder PROVE Spec => []LentBuffersIntact
  <1>1. Init => LentSlotsInv
    BY DEF Init, LentSlotsInv, LentSlots
  <1>2. TypeInv /\ OutputInv /\ LentSlotsInv /\ [Next]_vars => LentSlotsInv'
    BY LentSlotsNext
  <1>3. LentSlotsInv => LentBuffersIntact
    BY DEF LentSlotsInv, LentSlots, LentBuffersIntact
  <1> QED
    BY InvariantsHold, <1>1, <1>2, <1>3, PTL DEF Spec

-----------------------------------------------------------------------------
(* The refinement of FrameChannel.  The queue of a flow, by the history    *)
(* alone: the next frames after those delivered.                           *)
FramesAfter(l, n) == [k \in 1 .. n |-> Whole(l + k)]

(* Such a queue grows at its end and is taken from its front.              *)
LEMMA FramesAfterSteps ==
    ASSUME NEW l \in Nat, NEW n \in Nat
    PROVE  /\ Len(FramesAfter(l, n)) = n
           /\ FramesAfter(l, n + 1) = Append(FramesAfter(l, n), Whole(l + n + 1))
           /\ n >= 1 => /\ FramesAfter(l, n) # <<>>
                        /\ Head(FramesAfter(l, n)) = Whole(l + 1)
                        /\ FramesAfter(l + 1, n - 1) = Tail(FramesAfter(l, n))
  <1> DEFINE S == {Whole(k) : k \in Nat}
  <1>1. ASSUME NEW a \in Nat, NEW m \in Nat
        PROVE  /\ FramesAfter(a, m) \in Seq(S) /\ Len(FramesAfter(a, m)) = m
               /\ \A k \in 1 .. m : FramesAfter(a, m)[k] = Whole(a + k)
    <2>1. \A k \in 1 .. m : Whole(a + k) \in S
      OBVIOUS
    <2> HIDE DEF S
    <2> QED
      BY <2>1 DEF FramesAfter
  <1>2. Whole(l + n + 1) \in S
    OBVIOUS
  <1> DEFINE s == FramesAfter(l, n)
             t == FramesAfter(l, n + 1)
             u == FramesAfter(l + 1, n - 1)
  <1>3. /\ s \in Seq(S) /\ Len(s) = n /\ \A k \in 1 .. n : s[k] = Whole(l + k)
        /\ t \in Seq(S) /\ Len(t) = n + 1 /\ \A k \in 1 .. n + 1 : t[k] = Whole(l + k)
    <2>1. n + 1 \in Nat
      OBVIOUS
    <2> HIDE DEF S
    <2> QED
      BY <1>1, <2>1
  <1> HIDE DEF S, s, t, u
  <1>4. t = Append(s, Whole(l + n + 1))
    <2> DEFINE x == Whole(l + n + 1)
               a == Append(s, x)
    <2>1. /\ a \in Seq(S) /\ Len(a) = n + 1
          /\ \A k \in 1 .. n : a[k] = s[k]
          /\ a[n + 1] = x
      BY <1>2, <1>3, AppendProperties
    <2> HIDE DEF a
    <2>2. ASSUME NEW k \in 1 .. n + 1 PROVE t[k] = a[k]
      <3>1. CASE k = n + 1
        <4>1. l + (n + 1) = l + n + 1
          OBVIOUS
        <4> QED
          BY <1>3, <2>1, <3>1, <4>1
      <3>2. CASE k # n + 1
        <4>1. k \in 1 .. n
          BY <3>2
        <4> QED
          BY <1>3, <2>1, <4>1
      <3> QED
        BY <3>1, <3>2
    <2>3. t = a
      BY <1>3, <2>1, <2>2, SeqEqual
    <2> QED
      BY <2>3 DEF a
  <1>5. ASSUME n >= 1
        PROVE  s # <<>> /\ Head(s) = Whole(l + 1) /\ u = Tail(s)
    <2>1. s # <<>>
      BY <1>3, <1>5, EmptySeq
    <2>2. Head(s) = Whole(l + 1)
      BY <1>3, <1>5, <2>1, HeadTailProperties
    <2>3. /\ Tail(s) \in Seq(S) /\ Len(Tail(s)) = n - 1
          /\ \A k \in 1 .. n - 1 : Tail(s)[k] = s[k + 1]
      BY <1>3, <2>1, HeadTailProperties
    <2>4. /\ u \in Seq(S) /\ Len(u) = n - 1
          /\ \A k \in 1 .. n - 1 : u[k] = Whole(l + 1 + k)
      <3>1. l + 1 \in Nat /\ n - 1 \in Nat
        BY <1>5
      <3> QED
        BY <1>1, <3>1 DEF u
    <2>5. ASSUME NEW k \in 1 .. n - 1 PROVE u[k] = Tail(s)[k]
      <3>1. k + 1 \in 1 .. n /\ l + (k + 1) = l + 1 + k
        OBVIOUS
      <3> QED
        BY <1>3, <2>3, <2>4, <3>1
    <2>6. u = Tail(s)
      BY <2>3, <2>4, <2>5, SeqEqual
    <2> QED
      BY <2>1, <2>2, <2>6
  <1> QED
    BY <1>3, <1>4, <1>5 DEF s, t, u

(* The queue read from the slots is the queue by the history. *)
QueueInv == \A f \in Flows : UntakenFrames(f) = FramesAfter(Len(delivered[f]), Fresh(f))

(* It follows from the invariant of the rings. *)
LEMMA QueueInvHolds == TypeInv /\ OutputInv => QueueInv
  <1> SUFFICES ASSUME TypeInv, OutputInv, NEW f \in Flows
               PROVE  UntakenFrames(f) = FramesAfter(Len(delivered[f]), Fresh(f))
    BY DEF QueueInv
  <1> DEFINE r == FirstUntaken(f)
             x == Fresh(f)
             l == Len(delivered[f])
  <1>1. r \in Slots /\ x \in 0 .. N - 1 /\ l \in Nat /\ N \in Nat
    BY FlowNumbers, FirstIsPointer, OfmapAssumption
  <1>2. \A j \in 0 .. x - 1 : data[f][SlotAfter(r, j)] = Whole(l + j + 1)
    BY DEF OutputInv, FlowInv, FreshSlots
  <1>3. UntakenFrames(f) = [k \in 1 .. x |-> data[f][(r + k - 1) % N]]
    BY DEF UntakenFrames, Fresh
  <1> HIDE DEF r, x, l
  <1>4. ASSUME NEW k \in 1 .. x PROVE data[f][(r + k - 1) % N] = Whole(l + k)
    <2>1. /\ k - 1 \in 0 .. N - 1 /\ k - 1 \in 0 .. x - 1
          /\ r + k - 1 = r + (k - 1) /\ l + (k - 1) + 1 = l + k
      BY <1>1 DEF Slots
    <2>2. (r + k - 1) % N = SlotAfter(r, k - 1)
      BY <1>1, <2>1, SlotByRemainder
    <2> QED
      BY <1>2, <2>1, <2>2
  <1> QED
    BY <1>3, <1>4 DEF FramesAfter, x, l

(* The frame that is being added is one of those that the device sends. *)
LEMMA AddedFrame ==
    ASSUME TypeInv, OutputInv, NEW f \in Flows, Adding(f)
    PROVE  Len(delivered[f]) + Fresh(f) + 1 \in 1 .. MaxFrames
  <1> DEFINE c == Complete(f)
             l == Len(delivered[f])
             x == Fresh(f)
             a == fetched[f]
  <1>1. x \in 0 .. N - 1 /\ l \in Nat /\ a \in Nat
    BY FlowNumbers
  <1>2. c = l + x + 1 /\ a = c * Parts + 0
    BY DEF Complete, OutputInv, FlowInv, PartsInv
  <1>3. c \in Nat /\ c >= 1
    BY <1>1, <1>2, OfmapAssumption
  <1>4. a \in 0 .. MaxFrames * Parts
    BY DEF TypeInv, TypeOK, DeviceType
  <1> HIDE DEF c, l, x, a
  <1>5. c * Parts <= MaxFrames * Parts
    <2> DEFINE d == c * Parts
               m == MaxFrames * Parts
    <2>1. d \in Nat /\ m \in Nat /\ a = d + 0 /\ a \in 0 .. m
      BY <1>2, <1>3, <1>4, OfmapAssumption
    <2> HIDE DEF d, m
    <2>2. d <= m
      BY <2>1
    <2> QED
      BY <2>2 DEF d, m
  <1>6. c <= MaxFrames
    BY <1>3, <1>5, CompleteBound, OfmapAssumption
  <1>7. c \in 1 .. MaxFrames
    BY <1>3, <1>6, OfmapAssumption
  <1> QED
    BY <1>2, <1>7 DEF l, x

(* The initial states map to initial ones. *)
LEMMA ChannelInit == Init => Channel!Init
  <1> SUFFICES ASSUME Init PROVE Channel!Init
    OBVIOUS
  <1>1. \A f \in Flows : UntakenFrames(f) = <<>>
    <2> SUFFICES ASSUME NEW f \in Flows PROVE UntakenFrames(f) = <<>>
      OBVIOUS
    <2>1. Occupied(entry_w[f], FirstUntaken(f)) = 0
      BY DEF Init, FirstUntaken, Occupied
    <2> HIDE DEF Init
    <2> QED
      BY <2>1 DEF UntakenFrames
  <1>2. delivered = [f \in Flows |-> <<>>]
    BY DEF Init
  <1> QED
    BY <1>1, <1>2 DEF Channel!Init

(* A flow with as many fresh and delivered frames has the same queue. *)
LEMMA QueueKept ==
    ASSUME QueueInv, QueueInv', NEW f \in Flows,
           Fresh(f)' = Fresh(f), delivered'[f] = delivered[f]
    PROVE  UntakenFrames(f)' = UntakenFrames(f)
  <1>1. UntakenFrames(f)' = FramesAfter(Len(delivered'[f]), Fresh(f)')
    BY DEF QueueInv, FramesAfter, Whole
  <1> QED
    BY <1>1 DEF QueueInv

(* The worker's step of entry_w puts a frame. *)
LEMMA ChannelPut ==
    ASSUME TypeInv, OutputInv, OutputInv', QueueInv, QueueInv', AdvanceEntry
    PROVE  Channel!Next
  <1>1. PICK f \in Flows : f = flow_id
    BY DEF AdvanceEntry, TypeInv, WorkerAtFlow
  <1> DEFINE w == entry_w[f]
             r == FirstUntaken(f)
             x == Fresh(f)
             l == Len(delivered[f])
  <1>2. /\ UNCHANGED <<entry_r, read_buf_idx, reads, delivered>>
        /\ wpc = "advance"
        /\ entry_w' = [entry_w EXCEPT ![f] = NextEntry(w)]
    BY <1>1 DEF AdvanceEntry, userVars
  <1>3. /\ entry_w'[f] = NextEntry(w)
        /\ \A g \in Flows : g # f => entry_w'[g] = entry_w[g]
        /\ \A g \in Flows : FirstUntaken(g)' = FirstUntaken(g)
    BY <1>2 DEF TypeInv, TypeOK, RingType, FirstUntaken
  <1>4. ~Full(f)
    BY <1>1, <1>2 DEF OutputInv, SpaceFound
  <1>5. /\ x \in 0 .. N - 1 /\ x < N - 1 /\ l \in Nat /\ N \in Nat
        /\ w \in Slots /\ r \in Slots
    <2> DEFINE y == Lent(f)
    <2>1. /\ x \in 0 .. N - 1 /\ y \in 0 .. N - 1 /\ x + y <= N - 2 /\ l \in Nat /\ N \in Nat
          /\ w \in Slots /\ r \in Slots
      BY <1>4, FlowNumbers, FirstIsPointer, OfmapAssumption
    <2> HIDE DEF w, r, x, y, l
    <2> QED
      BY <2>1
  <1>6. Fresh(f)' = x + 1
    <2>1. Occupied(w, r) = x /\ Fresh(f)' = Occupied(NextEntry(w), r)
      BY <1>3 DEF Fresh
    <2> HIDE DEF w, r, x
    <2>2. NextEntry(w) # r
      BY <1>5, <2>1, OccupiedRange
    <2> QED
      BY <1>5, <2>1, <2>2, OccupiedAfterPublish
  <1>7. l + x + 1 \in 1 .. MaxFrames
    BY <1>1, <1>2, AddedFrame DEF Adding
  <1>8. UntakenFrames(f)' = Append(UntakenFrames(f), Whole(l + x + 1))
    <2>1. UntakenFrames(f) = FramesAfter(l, x)
      BY DEF QueueInv
    <2>2. UntakenFrames(f)' = FramesAfter(l, x + 1)
      <3>1. UntakenFrames(f)' = FramesAfter(Len(delivered'[f]), Fresh(f)')
        BY DEF QueueInv, FramesAfter, Whole
      <3> QED
        BY <1>2, <1>6, <3>1
    <2>3. l \in Nat /\ x \in Nat
      BY <1>5
    <2> HIDE DEF l, x
    <2> QED
      BY <2>1, <2>2, <2>3, FramesAfterSteps
  <1>9. Len(UntakenFrames(f)) < N - 1
    <2>1. UntakenFrames(f) = FramesAfter(l, x)
      BY DEF QueueInv
    <2> HIDE DEF l, x
    <2>2. Len(FramesAfter(l, x)) = x
      BY <1>5, FramesAfterSteps
    <2> QED
      BY <1>5, <2>1, <2>2
  <1>10. \A g \in Flows : g # f => UntakenFrames(g)' = UntakenFrames(g)
    <2> SUFFICES ASSUME NEW g \in Flows, g # f
                 PROVE  UntakenFrames(g)' = UntakenFrames(g)
      OBVIOUS
    <2>1. Fresh(g)' = Fresh(g) /\ delivered'[g] = delivered[g]
      BY <1>2, <1>3 DEF Fresh
    <2> QED
      BY <2>1, QueueKept
  <1>11. Channel!Put(f, Whole(l + x + 1))
    <2> HIDE DEF l, x
    <2> QED
      BY <1>2, <1>8, <1>9, <1>10 DEF Channel!Put
  <1>12. Whole(l + x + 1) \in {Whole(n) : n \in 1 .. MaxFrames}
    BY <1>7
  <1> QED
    BY <1>11, <1>12 DEF Channel!Next

(* A reader that takes the next frame delivers the head of the queue. *)
LEMMA ChannelDeliver ==
    ASSUME TypeInv, OutputInv, QueueInv, QueueInv',
           NEW f \in Flows, Fresh(f) >= 1,
           Fresh(f)' = Fresh(f) - 1,
           delivered' = [delivered EXCEPT ![f] = Append(delivered[f], Whole(Len(delivered[f]) + 1))],
           Len(delivered'[f]) = Len(delivered[f]) + 1,
           \A g \in Flows : g # f => Fresh(g)' = Fresh(g)
    PROVE  Channel!Next
  <1> DEFINE x == Fresh(f)
             l == Len(delivered[f])
  <1>1. l \in Nat /\ x \in 0 .. N - 1
    BY FlowNumbers
  <1>2. x \in Nat /\ x >= 1 /\ l \in Nat
    BY <1>1, OfmapAssumption
  <1>3. UntakenFrames(f) = FramesAfter(l, x)
    BY DEF QueueInv
  <1>4. UntakenFrames(f)' = FramesAfter(l + 1, x - 1)
    <2>1. UntakenFrames(f)' = FramesAfter(Len(delivered'[f]), Fresh(f)')
      BY DEF QueueInv, FramesAfter, Whole
    <2> QED
      BY <2>1
  <1>5. /\ FramesAfter(l, x) # <<>>
        /\ Head(FramesAfter(l, x)) = Whole(l + 1)
        /\ FramesAfter(l + 1, x - 1) = Tail(FramesAfter(l, x))
    <2> HIDE DEF l, x
    <2> QED
      BY <1>2, FramesAfterSteps
  <1>6. \A g \in Flows : g # f => UntakenFrames(g)' = UntakenFrames(g)
    <2> SUFFICES ASSUME NEW g \in Flows, g # f
                 PROVE  UntakenFrames(g)' = UntakenFrames(g)
      OBVIOUS
    <2>1. delivered'[g] = delivered[g]
      BY DEF TypeInv, TypeOK, DeviceType
    <2> QED
      BY <2>1, QueueKept
  <1>7. delivered' = [delivered EXCEPT ![f] = Append(delivered[f], Whole(l + 1))]
    OBVIOUS
  <1>8. Channel!Deliver(f)
    <2> HIDE DEF l, x
    <2> QED
      BY <1>3, <1>4, <1>5, <1>6, <1>7 DEF Channel!Deliver
  <1> QED
    BY <1>8 DEF Channel!Next

(* The end of stream_ofmap and of dequeue_ofmap_buf is such a step.        *)
LEMMA ChannelTake ==
    ASSUME TypeInv, OutputInv, QueueInv, QueueInv',
           NEW u \in Readers, StreamRelease(u) \/ DequeueTake(u)
    PROVE  Channel!Next
  <1>1. PICK f \in Flows : f = uflow[u]
    BY DEF TypeInv, TypeOK, ReaderType
  <1> DEFINE r == FirstUntaken(f)
             v == Whole(Len(delivered[f]) + 1)
  <1>2. UNCHANGED <<entry_w, reads>>
    BY DEF StreamRelease, DequeueTake
  <1>3. Fresh(f) >= 1
    BY <1>1 DEF StreamRelease, DequeueTake, OutputInv, ReaderInv
  <1>4. data[f][r] = v /\ Occupied(entry_w[f], NextEntry(r)) = Fresh(f) - 1
    BY <1>3, FirstMoves
  <1>5. /\ delivered' = [delivered EXCEPT ![f] = Append(delivered[f], v)]
        /\ FirstUntaken(f)' = NextEntry(r)
        /\ \A g \in Flows : g # f => FirstUntaken(g)' = FirstUntaken(g)
    <2>1. CASE StreamRelease(u)
      <3>1. reads[f] = "stream" /\ ucopy[u] = v
        BY <1>1, <2>1 DEF StreamRelease, OutputInv, ReaderInv
      <3>2. /\ entry_r' = [entry_r EXCEPT ![f] = NextEntry(entry_r[f])]
            /\ read_buf_idx' = read_buf_idx
            /\ delivered' = [delivered EXCEPT ![f] = Append(delivered[f], ucopy[u])]
        BY <1>1, <2>1 DEF StreamRelease
      <3>3. entry_r'[f] = NextEntry(entry_r[f]) /\ \A g \in Flows : g # f => entry_r'[g] = entry_r[g]
        BY <3>2 DEF TypeInv, TypeOK, RingType
      <3> QED
        BY <1>2, <3>1, <3>2, <3>3 DEF FirstUntaken
    <2>2. CASE DequeueTake(u)
      <3>1. reads[f] = "dequeue" /\ r = read_buf_idx[f]
        BY <1>1, <2>2 DEF DequeueTake, FirstUntaken
      <3>2. /\ read_buf_idx' = [read_buf_idx EXCEPT ![f] = NextEntry(read_buf_idx[f])]
            /\ entry_r' = entry_r
            /\ delivered' = [delivered EXCEPT ![f] = Append(delivered[f], data[f][read_buf_idx[f]])]
        BY <1>1, <2>2 DEF DequeueTake
      <3>3. /\ read_buf_idx'[f] = NextEntry(read_buf_idx[f])
            /\ \A g \in Flows : g # f => read_buf_idx'[g] = read_buf_idx[g]
        BY <3>2 DEF TypeInv, TypeOK, RingType
      <3> QED
        BY <1>2, <1>4, <3>1, <3>2, <3>3 DEF FirstUntaken
    <2> QED
      BY <2>1, <2>2
  <1>6. /\ Fresh(f)' = Fresh(f) - 1
        /\ \A g \in Flows : g # f => Fresh(g)' = Fresh(g)
    BY <1>2, <1>4, <1>5 DEF Fresh
  <1>7. Len(delivered'[f]) = Len(delivered[f]) + 1
    <2> DEFINE s == delivered[f]
    <2>1. s \in Seq(Contents) /\ delivered'[f] = Append(s, v)
      BY <1>5 DEF TypeInv, TypeOK, DeviceType
    <2> HIDE DEF s, v
    <2>2. Len(Append(s, v)) = Len(s) + 1
      BY <2>1
    <2> QED
      BY <2>1, <2>2 DEF s
  <1> QED
    BY <1>3, <1>5, <1>6, <1>7, ChannelDeliver

(* No other step changes a queue or what was delivered. *)
LEMMA ChannelStep ==
    TypeInv /\ OutputInv /\ OutputInv' /\ QueueInv /\ QueueInv' /\ [Next]_vars
        => [Channel!Next]_(Channel!channelVars)
  <1> SUFFICES ASSUME TypeInv, OutputInv, OutputInv', QueueInv, QueueInv', [Next]_vars
               PROVE  [Channel!Next]_(Channel!channelVars)
    OBVIOUS
  <1>1. CASE AdvanceEntry
    BY <1>1, ChannelPut
  <1>2. ASSUME NEW u \in Readers, StreamRelease(u) \/ DequeueTake(u)
        PROVE  Channel!Next
    BY <1>2, ChannelTake
  <1>3. ASSUME delivered' = delivered,
               \A f \in Flows : Fresh(f)' = Fresh(f)
        PROVE  UNCHANGED Channel!channelVars
    <2>1. \A f \in Flows : UntakenFrames(f)' = UntakenFrames(f)
      BY <1>3, QueueKept
    <2> QED
      BY <1>3, <2>1 DEF Channel!channelVars
  <1>4. CASE UNCHANGED <<entry_w, entry_r, read_buf_idx, reads, delivered>>
    BY <1>3, <1>4 DEF Fresh, FirstUntaken
  <1>5. ASSUME NEW u \in Readers, EnqueueRelease(u)
        PROVE  UNCHANGED Channel!channelVars
    <2>1. PICK f \in Flows : f = uflow[u]
      BY DEF TypeInv, TypeOK, ReaderType
    <2>2. /\ UNCHANGED <<entry_w, read_buf_idx, reads, delivered>>
          /\ entry_r' = [entry_r EXCEPT ![f] = NextEntry(entry_r[f])]
          /\ upc[u] = "giveback"
      BY <1>5, <2>1 DEF EnqueueRelease
    <2>3. reads[f] # "stream"
      <3>1. Returning(f) # {}
        BY <2>1, <2>2 DEF Returning
      <3> QED
        BY <3>1 DEF OutputInv, FlowInv, LentInv
    <2>4. \A g \in Flows : FirstUntaken(g)' = FirstUntaken(g)
      BY <2>2, <2>3 DEF FirstUntaken, TypeInv, TypeOK, RingType
    <2> QED
      BY <1>3, <2>2, <2>4 DEF Fresh
  <1>6. \/ AdvanceEntry
        \/ \E u \in Readers : StreamRelease(u) \/ DequeueTake(u)
        \/ \E u \in Readers : EnqueueRelease(u)
        \/ UNCHANGED <<entry_w, entry_r, read_buf_idx, reads, delivered>>
    BY DEF Next, Worker, WorkerTop, WorkerSleep, WorkerGo, ScanFlow, ScanDone,
       ReadNothing, ReadPart, CountFrame, SpuriousWakeup, Reader, ReadLock,
       ReadTimeout, ReadClaim, StreamCopy, ReadCall, EnqueueCall, Control,
       StateEntered, DestroySignal, DestroyJoin, DestroyDisable,
       SetStreamEnable, SetStreamDisable, Arrive, ringVars, userVars, vars
  <1> QED
    BY <1>1, <1>2, <1>4, <1>3, <1>5, <1>6

(* Every behaviour of readers, worker and control thread is one of a       *)
(* bounded first-in first-out queue of whole frames per flow: the step of  *)
(* entry_w is the put, the end of stream_ofmap or dequeue_ofmap_buf the    *)
(* delivery.                                                               *)
THEOREM ImplementsChannelHolds == Spec => ImplementsChannel
  <1>1. Spec => [](TypeInv /\ OutputInv /\ QueueInv)
    BY InvariantsHold, QueueInvHolds, PTL
  <1> QED
    BY <1>1, ChannelInit, ChannelStep, PTL DEF Spec, ImplementsChannel, Channel!Spec
=============================================================================
