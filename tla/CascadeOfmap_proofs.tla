------------------------ MODULE CascadeOfmap_proofs ------------------------
(***************************************************************************)
(* Theorems about CascadeOfmap, for any number of flows, readers, job      *)
(* workers and control calls, any frame height, parts of a row, ring and   *)
(* queue size, under the assumption that no node of the device is larger   *)
(* than the room there is: the application gets whole frames, once, and in *)
(* order if the pool never grew, the rows that are told are those of       *)
(* frames that have a job, and no decoder sleeps for good.                 *)
(***************************************************************************)
EXTENDS CascadeOfmap, CascadeWorkers_proofs

-----------------------------------------------------------------------------
(* Types. *)

Parts == [1 .. P -> Int]        \* a row: the numbers of its parts
Rings == [entry_w : Rows, entry_r : Rows, entry_report_r : Nat,
          data : [Rows -> Parts], guard : JobWorkers \cup {NoWorker}]
Transfers == [flow : Nat, n : 0 .. R - 1, got : Nat, frames : Int, locked : BOOLEAN]
WorkerStates ==
    [pc : WorkerPCs, enable : {0, 1}, state : {"pending", "running"},
     next : {"pending", "running"}]
ReaderStates == [pc : {"idle", "poll", "pop"}, flow : Flows]

OfmapType ==
    /\ WorkersType(Flows)
    /\ ring \in [Flows -> Rings]
    /\ queue \in [Flows -> Seq(Seq(Parts))]
    /\ work \in [JobWorkers -> Seq(Parts)]
    /\ rcv \in Transfers
    /\ user \in [Readers -> ReaderStates]
    /\ calls \in Nat
    /\ fetched \in [Flows -> Nat]
    /\ dropped \in Seq(Flows)
    /\ delivered \in [Flows -> Seq(Seq(Parts))]

(* The ofmap worker is at a configured flow; a read that does not end with *)
(* a row goes on, one that does is published; and the worker does not come *)
(* back when all is destroyed.                                             *)
AtFlow ==
    {"gate", "asleep", "scan", "begin", "read", "publish", "report", "signal"}
PlaceInv ==
    /\ wk.pc \in AtFlow => rcv.flow \in Flows
    /\ rcv.got <= rcv.n * P
    /\ wk.pc = "read" => rcv.got = 0 \/ rcv.got % P # 0
    /\ wk.pc = "publish" => rcv.got % P = 0
    /\ ~rcv.locked
    /\ ctl.pc = "gone" => wk.pc = "exit"

-----------------------------------------------------------------------------
(* A flow, in terms of W rows published, of which q frames and m rows of   *)
(* the next one are decoded, and t frames whose job was counted.           *)

(* Parts that are stored and not yet published. *)
Transferring(f) == wk.pc \in {"read", "publish"} /\ rcv.flow = f
Got(f) == IF Transferring(f) THEN rcv.got ELSE 0

Row(n) == [p \in 1 .. P |-> n * P + p - 1]

PointersAre(f, W, q, m, t) ==
    /\ fetched[f] = P * W + Got(f)
    /\ ring[f].entry_w = W % R
    /\ ring[f].entry_r = (H * q + m) % R
    /\ ring[f].entry_report_r = (H * t) % R
    /\ H * q + m <= W /\ W <= H * q + m + R - 1
    /\ H * t <= W

(* What is in the ring: the rows from H * q + m to W, and g parts more. *)
RowsBe(d, W, q, m, g) ==
    /\ \A n \in H * q + m .. W - 1 : d[n % R] = Row(n)
    /\ \A j \in 0 .. g - 1 : d[(W % R) + (j \div P)][(j % P) + 1] = P * W + j
RowsAre(f, W, q, m) == RowsBe(ring[f].data, W, q, m, Got(f))

(* Who has the lock has the rows of a frame that were decoded. *)
Reading(e, f) == jw[e].pc = "row" /\ jw[e].flow = f
Prefix(s, q, m) == Len(s) = m /\ \A i \in 1 .. m : s[i] = Row(H * q + i - 1)
LockIs(f, q, m) ==
    /\ ring[f].guard = NoWorker => m = 0
    /\ ring[f].guard # NoWorker => Reading(ring[f].guard, f)
    /\ \A e \in JobWorkers : Reading(e, f) =>
        ring[f].guard = e /\ Prefix(work[e], q, m)

(* Frames are whole, and none is there twice. *)
Good(x, q) == FrameNumber(x) \in 0 .. q - 1 /\ x = Sent(FrameNumber(x))
AllGood(s, q) == \A k \in 1 .. Len(s) : Good(s[k], q)
Holds(e, f) == jw[e].pc \in {"full", "push"} /\ jw[e].flow = f
Differ(s) == \A j, k \in 1 .. Len(s) : FrameNumber(s[j]) = FrameNumber(s[k]) => j = k
NotIn(s, x) == \A k \in 1 .. Len(s) : FrameNumber(s[k]) # FrameNumber(x)
FramesAre(f, q) ==
    /\ Differ(Decoded(f))
    /\ AllGood(Decoded(f), q)
    /\ \A e \in JobWorkers : Holds(e, f) =>
        /\ Good(work[e], q) /\ NotIn(Decoded(f), work[e])
        /\ \A d \in JobWorkers : d # e /\ Holds(d, f) =>
             FrameNumber(work[d]) # FrameNumber(work[e])

(* The ofmap worker takes no more rows than there is room for, and reports *)
(* no more frames than there are.                                          *)
TransferIs(f, W, q, m, t) ==
    rcv.flow = f =>
        /\ wk.pc = "begin" => W < H * q + m + R - 1
        /\ wk.pc \in {"read", "publish"} =>
            (W % R) + rcv.n <= R /\ W + rcv.n <= H * q + m + R - 1
        /\ wk.pc \in {"report", "signal"} =>
            rcv.frames >= 1 /\ H * (t + rcv.frames) <= W

(* The frames that are told and not decoded have jobs. *)
Signalling(f) == IF wk.pc = "signal" /\ rcv.flow = f THEN 1 ELSE 0
Held(f) == IF ring[f].guard = NoWorker THEN 0 ELSE 1
JobsAre(f, q, t) ==
    ctl.pc # "gone" =>
        t + Signalling(f)
          = q + JobsFor(f) + LostFor(f) + WorkersAt(f, "execute") + Held(f)

(* With one job worker, frames are decoded in order, and all of them but   *)
(* for the ones dropped.                                                   *)
Rising(s) == \A j, k \in 1 .. Len(s) : j < k => FrameNumber(s[j]) < FrameNumber(s[k])
Counted(s) == \A k \in 1 .. Len(s) : FrameNumber(s[k]) = k - 1
OrderIs(f, q) ==
    ~ctl.grown =>
        /\ Rising(Decoded(f))
        /\ \A e \in JobWorkers : Holds(e, f) =>
            /\ FrameNumber(work[e]) = q - 1
            /\ ~In(dropped, f) /\ ctl.pc # "gone" => Len(Decoded(f)) = q - 1
        /\ ~In(dropped, f) =>
            /\ Counted(Decoded(f))
            /\ (\A e \in JobWorkers : ~Holds(e, f)) /\ ctl.pc # "gone"
                 => Len(Decoded(f)) = q

FlowIs(f, W, q, m, t) ==
    /\ PointersAre(f, W, q, m, t) /\ RowsAre(f, W, q, m) /\ LockIs(f, q, m)
    /\ FramesAre(f, q) /\ TransferIs(f, W, q, m, t) /\ JobsAre(f, q, t)
    /\ OrderIs(f, q)
FlowInv ==
    \A f \in Flows : \E W, q, t \in Nat : \E m \in 0 .. H - 1 : FlowIs(f, W, q, m, t)

-----------------------------------------------------------------------------
(* Pushes and signals. *)

ListsInv ==
    \A f \in Flows :
        Len(queue[f]) + WorkersAt(f, "push") < QueueSize + Cardinality(JobWorkers)

JobsSignalled == AllWait => wk.pc = "signal"

(* Only a job worker in a frame has rows. *)
Carrying == {"row", "full", "push"}
EmptyHanded == \A e \in JobWorkers : jw[e].pc \notin Carrying => work[e] = <<>>

OfmapInv ==
    /\ OfmapType /\ PoolInv /\ PlaceInv /\ EmptyHanded /\ FlowInv /\ ListsInv
    /\ JobsSignalled /\ NoneDiscarded

-----------------------------------------------------------------------------
(* Arithmetic of the ring. *)

(* The sizes. *)
LEMMA Sizes ==
    /\ R \in Nat /\ R > 1 /\ H \in Nat /\ H > 0 /\ NF \in Nat /\ NF > 0
    /\ P \in Nat /\ P > 0 /\ RingFrames \in Nat /\ RingFrames > 0
    /\ QueueSize \in Nat /\ QueueSize > 0 /\ 0 \in Flows /\ 0 \in Rows
    /\ NoWorker \notin JobWorkers /\ 0 \in 0 .. H - 1 /\ 0 \in 0 .. R - 1
  <1>1. /\ H \in Nat /\ H > 0 /\ NF \in Nat /\ NF > 0 /\ P \in Nat /\ P > 0
        /\ RingFrames \in Nat /\ RingFrames > 0 /\ H * RingFrames > 1
        /\ QueueSize \in Nat /\ QueueSize > 0 /\ NoWorker \notin JobWorkers
    BY CascadeOfmapAssumption, WorkersAssumption
  <1>2. R \in Nat /\ R > 1
    BY <1>1 DEF R
  <1> QED
    BY <1>1, <1>2 DEF Flows, Rows

(* The slot of a row, and those after it. *)
LEMMA SlotAfter ==
    ASSUME NEW a \in Nat, NEW k \in 0 .. R
    PROVE  /\ a % R \in Rows
           /\ ((a % R) + k) % R = (a + k) % R
           /\ (a + k) % R = IF (a % R) + k < R THEN (a % R) + k ELSE (a % R) + k - R
  <1>1. R \in Nat /\ R > 0
    BY Sizes
  <1>2. PICK u \in Nat, v \in 0 .. R - 1 : a = R * u + v /\ a % R = v
    BY <1>1, DivMod
  <1>3. v \in Nat /\ v + k \in Nat /\ v + k < R + R
    BY <1>1
  <1>4. (v + k) % R = IF v + k < R THEN v + k ELSE v + k - R
    BY <1>1, <1>3, FirstPeriods
  <1>5. CASE v + k < R
    <2>1. (R * u + (v + k)) % R = v + k
      BY <1>1, <1>3, <1>5, DivModUnique
    <2>2. a + k = R * u + (v + k)
      BY <1>1, <1>2, <1>3
    <2> QED
      BY <1>2, <1>4, <1>5, <2>1, <2>2 DEF Rows
  <1>6. CASE ~(v + k < R)
    <2>1. v + k - R \in Nat /\ v + k - R < R /\ u + 1 \in Int
      BY <1>1, <1>3, <1>6
    <2>2. (R * (u + 1) + (v + k - R)) % R = v + k - R
      BY <1>1, <2>1, DivModUnique
    <2>3. a + k = R * (u + 1) + (v + k - R)
      BY <1>1, <1>2, <1>3
    <2> QED
      BY <1>2, <1>4, <1>6, <2>2, <2>3 DEF Rows
  <1> QED
    BY <1>5, <1>6

(* Rows in the ring at the same time are in different slots, and as many   *)
(* are counted between the pointers as there are.                          *)
LEMMA SlotsApart ==
    ASSUME NEW a \in Nat, NEW b \in Nat, a <= b, b < a + R
    PROVE  /\ a % R = b % R <=> a = b
           /\ RowsFromTo(a % R, b % R) = b - a
           /\ (b + 1) % R = a % R <=> b + 1 = a + R
  <1>1. R \in Nat /\ R > 1
    BY Sizes
  <1>2. PICK k \in 0 .. R - 1 : k = b - a
    BY <1>1
  <1>3. k \in 0 .. R /\ k + 1 \in 0 .. R /\ a + k = b /\ a + (k + 1) = b + 1
    BY <1>1, <1>2
  <1>4. PICK v \in 0 .. R - 1 : v = a % R
    BY <1>3, SlotAfter DEF Rows
  <1>5. b % R = IF v + k < R THEN v + k ELSE v + k - R
    BY <1>3, <1>4, SlotAfter
  <1>6. (b + 1) % R = IF v + (k + 1) < R THEN v + (k + 1) ELSE v + (k + 1) - R
    BY <1>3, <1>4, SlotAfter
  <1>7. a % R = b % R <=> a = b
    BY <1>1, <1>2, <1>4, <1>5
  <1>8. RowsFromTo(v, b % R) = b - a
    BY <1>1, <1>2, <1>5 DEF RowsFromTo
  <1>9. (b + 1) % R = a % R <=> b + 1 = a + R
    BY <1>1, <1>2, <1>4, <1>6
  <1> QED
    BY <1>4, <1>7, <1>8, <1>9

(* The slot of the first row of a frame, and that of the next frame. *)
LEMMA FrameSlot ==
    ASSUME NEW t \in Nat
    PROVE  /\ (H * t) % R \in Rows /\ ((H * t) % R) % H = 0
           /\ (H * (t + 1)) % R
                = IF ((H * t) % R) + H = R THEN 0 ELSE ((H * t) % R) + H
  <1>1. /\ H \in Nat /\ H > 0 /\ RingFrames \in Nat /\ RingFrames > 0
        /\ R = H * RingFrames /\ R \in Nat /\ R > 0
    BY Sizes DEF R
  <1>2. PICK u \in Nat, v \in 0 .. RingFrames - 1 : t = RingFrames * u + v
    <2>1. /\ t % RingFrames \in 0 .. RingFrames - 1 /\ t \div RingFrames \in Nat
          /\ t = RingFrames * (t \div RingFrames) + (t % RingFrames)
      BY <1>1, DivMod
    <2> QED
      BY <2>1
  <1>3. PICK z \in Nat : z = H * v
    BY <1>1
  <1>4. /\ H * t = R * u + z
        /\ H * (t + 1) = R * u + (z + H)
        /\ v + 1 = RingFrames => z + H = R
        /\ v + 1 < RingFrames => z + H < R
    <2>1. H * t = R * u + z
      BY <1>1, <1>2, <1>3
    <2>2. H * (t + 1) = H * t + H
      BY <1>1
    <2>3. v + 1 = RingFrames => z + H = R
      BY <1>1, <1>3
    <2>4. v + 1 < RingFrames => z + H < R
      <3>1. ASSUME v + 1 < RingFrames PROVE z + H < R
        <4>1. PICK x \in Nat : RingFrames = v + 1 + x /\ x >= 1
          BY <1>1, <3>1
        <4>2. R = z + H + H * x /\ H * x >= 1
          BY <1>1, <1>3, <4>1
        <4> QED
          BY <1>1, <1>3, <4>2
      <3> QED
        BY <3>1
    <2> QED
      BY <1>1, <1>3, <2>1, <2>2, <2>3, <2>4
  <1>5. v + 1 = RingFrames \/ v + 1 < RingFrames
    BY <1>1
  <1>6. z < R
    BY <1>1, <1>3, <1>4, <1>5
  <1>7. (H * t) % R = z
    <2>1. R \in Nat /\ R > 0 /\ u \in Int /\ z \in Nat
      BY <1>1, <1>2, <1>3
    <2>2. (R * u + z) % R = z
      BY <1>6, <2>1, DivModUnique
    <2> QED
      BY <1>4, <2>2
  <1>8. z % H = 0
    <2>1. (H * v + 0) % H = 0
      BY <1>1, DivModUnique
    <2> QED
      BY <1>1, <1>3, <2>1
  <1>9. (H * (t + 1)) % R = IF z + H = R THEN 0 ELSE z + H
    <2>1. CASE z + H = R
      <3>1. (R * (u + 1) + 0) % R = 0
        BY <1>1, DivModUnique
      <3>2. R * (u + 1) + 0 = R * u + (z + H)
        BY <1>1, <2>1
      <3> QED
        BY <1>4, <2>1, <3>1, <3>2
    <2>2. CASE z + H # R
      <3>1. z + H \in Nat /\ z + H < R
        <4>1. z \in Nat /\ H \in Nat /\ R \in Nat
          BY <1>1, <1>3
        <4>2. z + H = R \/ z + H < R
          BY <1>4, <1>5
        <4> QED
          BY <2>2, <4>1, <4>2
      <3>2. (R * u + (z + H)) % R = z + H
        <4>1. PICK y \in Nat : y = z + H /\ y < R
          BY <3>1
        <4>2. R \in Nat /\ R > 0 /\ u \in Int
          BY <1>1, <1>2
        <4>3. (R * u + y) % R = y
          BY <4>1, <4>2, DivModUnique
        <4> QED
          BY <4>1, <4>3
      <3>3. (H * (t + 1)) % R = z + H
        BY <1>4, <3>2
      <3> QED
        BY <2>2, <3>3
    <2> QED
      BY <2>1, <2>2
  <1> QED
    BY <1>1, <1>3, <1>6, <1>7, <1>8, <1>9 DEF Rows

(* A part below a number of rows is in one of them. *)
LEMMA PartOfRow ==
    ASSUME NEW n \in Nat, NEW j \in Nat
    PROVE  /\ j \div P \in Nat /\ j % P \in 0 .. P - 1
           /\ j = P * (j \div P) + (j % P)
           /\ j < n * P <=> j \div P < n
           /\ j <= n * P /\ j % P # 0 => j + P - (j % P) <= n * P
           /\ j <= n * P => j \div P <= n
  <1>1. P \in Nat /\ P > 0
    BY Sizes
  <1>2. PICK d \in Nat, m \in 0 .. P - 1 :
          d = j \div P /\ m = j % P /\ j = P * d + m
    BY <1>1, DivMod
  <1>3. d < n => P * d + P <= n * P
    <2>1. ASSUME d < n PROVE P * d + P <= n * P
      <3>1. PICK x \in Nat : n = d + 1 + x
        BY <2>1
      <3>2. n * P = P * d + P + P * x /\ P * x >= 0
        BY <1>1, <3>1
      <3> QED
        BY <1>1, <3>2
    <2> QED
      BY <2>1
  <1>4. d >= n => P * d >= n * P
    <2>1. ASSUME d >= n PROVE P * d >= n * P
      <3>1. PICK x \in Nat : d = n + x
        BY <2>1
      <3>2. P * d = n * P + P * x /\ P * x >= 0
        BY <1>1, <3>1
      <3> QED
        BY <1>1, <3>2
    <2> QED
      BY <2>1
  <1>5. PICK y \in Nat, z \in Nat : y = P * d /\ z = n * P
    BY <1>1
  <1>6. j < z <=> d < n
    BY <1>1, <1>2, <1>3, <1>4, <1>5
  <1>7. j <= z /\ m # 0 => j + P - m <= z
    BY <1>1, <1>2, <1>3, <1>4, <1>5
  <1>8. j <= z => d <= n
    <2>1. d > n => y >= z + P
      <3>1. ASSUME d > n PROVE y >= z + P
        <4>1. PICK x \in Nat : d = n + 1 + x
          BY <3>1
        <4>2. P * d = n * P + P + P * x /\ P * x >= 0
          BY <1>1, <4>1
        <4> QED
          BY <1>1, <1>5, <4>2
      <3> QED
        BY <3>1
    <2> QED
      BY <1>1, <1>2, <1>5, <2>1
  <1> QED
    BY <1>2, <1>5, <1>6, <1>7, <1>8

-----------------------------------------------------------------------------
(* What single steps do to rings and workers. *)

(* Parts of the invariant on types. *)
LEMMA Typed ==
    ASSUME OfmapType
    PROVE  /\ WorkersType(Flows) /\ rcv \in Transfers /\ wk \in WorkerStates
           /\ jw \in [JobWorkers -> JobWorkerStates(Flows)]
           /\ \A e \in JobWorkers : jw[e].flow \in Flows /\ work[e] \in Seq(Parts)
           /\ \A f \in Flows :
                /\ ring[f] \in Rings /\ queue[f] \in Seq(Seq(Parts))
                /\ delivered[f] \in Seq(Seq(Parts)) /\ fetched[f] \in Nat
                /\ Len(queue[f]) \in Nat
           /\ \A u \in Readers : user[u].flow \in Flows
  <1>1. \A f \in Flows : queue[f] \in Seq(Seq(Parts))
    BY DEF OfmapType
  <1>2. \A f \in Flows : Len(queue[f]) \in Nat
    BY <1>1, LenProperties
  <1>3. \A e \in JobWorkers : jw[e].flow \in Flows
    BY DEF OfmapType, WorkersType, JobWorkerStates
  <1>4. \A u \in Readers : user[u].flow \in Flows
    BY DEF OfmapType, ReaderStates
  <1> QED
    BY <1>1, <1>2, <1>3, <1>4 DEF OfmapType, WorkersType, WorkerStates

(* The rings of the other flows do not change. *)
OtherRingsSame(f) == \A g \in Flows : g # f => ring'[g] = ring[g]

(* A job worker takes the lock of a ring. *)
LEMMA GuardTaken ==
    ASSUME OfmapType, NEW f \in Flows, NEW e \in JobWorkers,
           ring' = [ring EXCEPT ![f].guard = e]
    PROVE  /\ ring' \in [Flows -> Rings] /\ OtherRingsSame(f)
           /\ ring'[f].entry_w = ring[f].entry_w
           /\ ring'[f].entry_r = ring[f].entry_r
           /\ ring'[f].entry_report_r = ring[f].entry_report_r
           /\ ring'[f].data = ring[f].data
           /\ ring'[f].guard = e
  BY DEF OfmapType, Rings, OtherRingsSame

(* The ofmap worker publishes rows. *)
LEMMA EntryMoved ==
    ASSUME OfmapType, NEW f \in Flows, NEW w \in Rows,
           ring' = [ring EXCEPT ![f].entry_w = w]
    PROVE  /\ ring' \in [Flows -> Rings] /\ OtherRingsSame(f)
           /\ ring'[f].entry_w = w
           /\ ring'[f].entry_r = ring[f].entry_r
           /\ ring'[f].entry_report_r = ring[f].entry_report_r
           /\ ring'[f].data = ring[f].data
           /\ ring'[f].guard = ring[f].guard
  BY DEF OfmapType, Rings, OtherRingsSame

(* The ofmap worker reports a frame. *)
LEMMA ReportMoved ==
    ASSUME OfmapType, NEW f \in Flows, NEW r \in Nat,
           ring' = [ring EXCEPT ![f].entry_report_r = r]
    PROVE  /\ ring' \in [Flows -> Rings] /\ OtherRingsSame(f)
           /\ ring'[f].entry_w = ring[f].entry_w
           /\ ring'[f].entry_r = ring[f].entry_r
           /\ ring'[f].entry_report_r = r
           /\ ring'[f].data = ring[f].data
           /\ ring'[f].guard = ring[f].guard
  BY DEF OfmapType, Rings, OtherRingsSame

(* The ofmap worker writes into the data of a ring. *)
LEMMA DataWritten ==
    ASSUME OfmapType, NEW f \in Flows, NEW d \in [Rows -> Parts],
           ring' = [ring EXCEPT ![f].data = d]
    PROVE  /\ ring' \in [Flows -> Rings] /\ OtherRingsSame(f)
           /\ ring'[f].entry_w = ring[f].entry_w
           /\ ring'[f].entry_r = ring[f].entry_r
           /\ ring'[f].entry_report_r = ring[f].entry_report_r
           /\ ring'[f].data = d
           /\ ring'[f].guard = ring[f].guard
  BY DEF OfmapType, Rings, OtherRingsSame

(* A job worker takes a row, and frees the lock after the last. *)
LEMMA RowTaken ==
    ASSUME OfmapType, NEW e \in JobWorkers, DecodeRow(e), NEW f, f = jw[e].flow
    PROVE  /\ f \in Flows /\ ring' \in [Flows -> Rings] /\ OtherRingsSame(f)
           /\ ring'[f].entry_w = ring[f].entry_w
           /\ ring'[f].entry_r = NextRow(ring[f].entry_r)
           /\ ring'[f].entry_report_r = ring[f].entry_report_r
           /\ ring'[f].data = ring[f].data
           /\ Len(work[e]) + 1 = H => ring'[f].guard = NoWorker
           /\ Len(work[e]) + 1 # H => ring'[f].guard = ring[f].guard
           /\ ring[f].data[ring[f].entry_r] \in Parts
           /\ work' \in [JobWorkers -> Seq(Parts)]
           /\ work'[e] = Append(work[e], ring[f].data[ring[f].entry_r])
           /\ \A d \in JobWorkers : d # e => work'[d] = work[d]
           /\ Len(work[e]) + 1 = H => JobWorkerGoes(e, "full")
           /\ Len(work[e]) + 1 # H => JobWorkerGoes(e, "row")
  <1>1. f \in Flows /\ ring \in [Flows -> Rings] /\ work \in [JobWorkers -> Seq(Parts)]
    BY Typed DEF OfmapType
  <1>2. ring[f].entry_r \in Rows /\ ring[f].data \in [Rows -> Parts]
        /\ ring[f].guard \in JobWorkers \cup {NoWorker}
    BY <1>1 DEF Rings
  <1>3. NextRow(ring[f].entry_r) \in Rows
    BY <1>2, Sizes DEF Rows, NextRow
  <1>4. PICK r \in Rows : r = NextRow(ring[f].entry_r)
    BY <1>3
  <1>5. PICK g \in JobWorkers \cup {NoWorker} :
          g = IF Len(work[e]) + 1 = H THEN NoWorker ELSE ring[f].guard
    BY <1>2
  <1>6. ring' = [ring EXCEPT ![f].entry_r = r, ![f].guard = g]
    BY <1>1, <1>4, <1>5 DEF DecodeRow
  <1>7. /\ ring' \in [Flows -> Rings] /\ OtherRingsSame(f)
        /\ ring'[f].entry_w = ring[f].entry_w /\ ring'[f].entry_r = r
        /\ ring'[f].entry_report_r = ring[f].entry_report_r
        /\ ring'[f].data = ring[f].data /\ ring'[f].guard = g
    BY <1>1, <1>6 DEF Rings, OtherRingsSame
  <1>8. PICK x \in Parts : x = ring[f].data[ring[f].entry_r]
    BY <1>2
  <1>9. Append(work[e], x) \in Seq(Parts)
    BY <1>1, AppendProperties
  <1>10. work' = [work EXCEPT ![e] = Append(work[e], x)]
    BY <1>1, <1>8 DEF DecodeRow
  <1>11. /\ work' \in [JobWorkers -> Seq(Parts)] /\ work'[e] = Append(work[e], x)
         /\ \A d \in JobWorkers : d # e => work'[d] = work[d]
    BY <1>1, <1>9, <1>10
  <1>12. /\ Len(work[e]) + 1 = H => JobWorkerGoes(e, "full")
         /\ Len(work[e]) + 1 # H => JobWorkerGoes(e, "row")
    BY DEF DecodeRow
  <1> QED
    BY <1>1, <1>4, <1>5, <1>7, <1>8, <1>11, <1>12

(* Parts are stored. *)
Stored(f, k, i, p) ==
    LET j == (i - ring[f].entry_w) * P + p - 1 IN
    IF j \in rcv.got .. rcv.got + k - 1 THEN fetched[f] + j - rcv.got
    ELSE ring[f].data[i][p]

(* What a read does. *)
LEMMA PartsStored ==
    ASSUME OfmapType, NEW f \in Flows, f = rcv.flow, NEW k \in Nat, Store(f, k)
    PROVE  /\ ring' \in [Flows -> Rings] /\ OtherRingsSame(f)
           /\ ring'[f].entry_w = ring[f].entry_w
           /\ ring'[f].entry_r = ring[f].entry_r
           /\ ring'[f].entry_report_r = ring[f].entry_report_r
           /\ ring'[f].guard = ring[f].guard
           /\ ring'[f].data \in [Rows -> Parts]
           /\ \A i \in Rows : \A p \in 1 .. P : ring'[f].data[i][p] = Stored(f, k, i, p)
           /\ fetched' \in [Flows -> Nat] /\ fetched'[f] = fetched[f] + k
           /\ \A g \in Flows : g # f => fetched'[g] = fetched[g]
           /\ rcv' \in Transfers /\ rcv'.flow = f /\ rcv'.n = rcv.n
           /\ rcv'.got = rcv.got + k /\ rcv'.frames = rcv.frames
           /\ rcv'.locked = rcv.locked
  <1> DEFINE d == [i \in Rows |-> [p \in 1 .. P |-> Stored(f, k, i, p)]]
  <1>1. ring[f] \in Rings /\ rcv \in Transfers /\ fetched \in [Flows -> Nat]
        /\ P \in Nat
    BY Typed, Sizes DEF OfmapType
  <1>2. ASSUME NEW i \in Rows, NEW p \in 1 .. P PROVE Stored(f, k, i, p) \in Int
    <2>1. ring[f].data[i][p] \in Int /\ ring[f].entry_w \in Int /\ i \in Int
      <3>1. ring[f].data \in [Rows -> Parts] /\ ring[f].entry_w \in Rows
        BY <1>1 DEF Rings
      <3>2. ring[f].data[i] \in Parts
        BY <3>1
      <3>3. ring[f].data[i][p] \in Int
        BY <3>2 DEF Parts
      <3>4. Rows \subseteq Int
        BY Sizes DEF Rows
      <3> QED
        BY <3>1, <3>3, <3>4
    <2>2. PICK j \in Int : j = (i - ring[f].entry_w) * P + p - 1
      BY <1>1, <2>1
    <2>3. fetched[f] + j - rcv.got \in Int
      BY <1>1, <2>2 DEF Transfers
    <2> QED
      BY <2>1, <2>2, <2>3 DEF Stored
  <1>3. d \in [Rows -> Parts]
    BY <1>2 DEF Parts
  <1>4. ring' = [ring EXCEPT ![f].data = d]
    BY DEF Store, Stored
  <1>5. \A i \in Rows : \A p \in 1 .. P : d[i][p] = Stored(f, k, i, p)
    OBVIOUS
  <1>6. /\ fetched' = [fetched EXCEPT ![f] = fetched[f] + k]
        /\ rcv' = [rcv EXCEPT !.got = rcv.got + k]
    BY <1>1 DEF Store
  <1> HIDE DEF d
  <1>7. /\ ring' \in [Flows -> Rings] /\ OtherRingsSame(f)
        /\ ring'[f].entry_w = ring[f].entry_w
        /\ ring'[f].entry_r = ring[f].entry_r
        /\ ring'[f].entry_report_r = ring[f].entry_report_r
        /\ ring'[f].data = d
        /\ ring'[f].guard = ring[f].guard
    BY <1>3, <1>4, DataWritten
  <1>8. fetched[f] + k \in Nat /\ rcv.got + k \in Nat
    BY <1>1 DEF Transfers
  <1>9. /\ fetched' \in [Flows -> Nat] /\ fetched'[f] = fetched[f] + k
        /\ \A g \in Flows : g # f => fetched'[g] = fetched[g]
    BY <1>1, <1>6, <1>8
  <1>10. /\ rcv' \in Transfers /\ rcv'.flow = rcv.flow /\ rcv'.n = rcv.n
         /\ rcv'.got = rcv.got + k /\ rcv'.frames = rcv.frames
         /\ rcv'.locked = rcv.locked
    BY <1>1, <1>6, <1>8 DEF Transfers
  <1> QED
    BY <1>3, <1>5, <1>7, <1>9, <1>10

(* The ofmap worker moves on. *)
LEMMA WorkerMoves ==
    ASSUME OfmapType, NEW pc \in WorkerPCs, WorkerGoes(pc)
    PROVE  wk' \in WorkerStates /\ wk'.pc = pc
  <1>1. wk \in WorkerStates
    BY Typed
  <1> QED
    BY <1>1 DEF WorkerGoes, WorkerStates

(* The ofmap worker goes to the next flow. *)
LEMMA PastFlowMoves ==
    ASSUME OfmapType, NEW s \in Transfers, s.flow \in Flows, PastFlow(s)
    PROVE  /\ wk' \in WorkerStates /\ rcv' \in Transfers
           /\ wk'.pc \in {"scan", "top"}
           /\ wk'.pc = "scan" => rcv'.flow \in Flows
           /\ rcv'.n = 0 /\ rcv'.got = 0 /\ rcv'.locked = s.locked
  <1>1. PICK pc \in {"scan", "top"} :
          WorkerGoes(pc) /\ (pc = "scan" => s.flow + 1 < NF)
    BY DEF PastFlow
  <1>2. pc \in WorkerPCs
    BY <1>1 DEF WorkerPCs
  <1>3. wk' \in WorkerStates /\ wk'.pc = pc
    BY <1>1, <1>2, WorkerMoves
  <1>4. rcv' = [s EXCEPT !.flow = s.flow + 1, !.n = 0, !.got = 0, !.frames = 0]
    BY DEF PastFlow, Transfers
  <1>5. /\ rcv' \in Transfers /\ rcv'.flow = s.flow + 1 /\ rcv'.n = 0
        /\ rcv'.got = 0 /\ rcv'.locked = s.locked
    <2>1. s.flow + 1 \in Nat /\ 0 \in Nat /\ 0 \in Int
      BY DEF Transfers
    <2> QED
      BY <1>4, <2>1, Sizes DEF Transfers
  <1>6. pc = "scan" => s.flow + 1 \in Flows
    BY <1>1, Sizes DEF Flows
  <1> QED
    BY <1>1, <1>3, <1>5, <1>6

-----------------------------------------------------------------------------
(* The steps of the system, one by one. *)

ofmapVars == <<ring, queue, work, rcv, user, calls, fetched, dropped, delivered>>
LoopStep(e) == JobWorkerLoop(e) /\ UNCHANGED ofmapVars
GateStep == WorkerGate /\ UNCHANGED ofmapVars
ControlStep ==
    /\ \/ SpuriousWakeup \/ Control(TRUE) \/ Request
       \/ DestroyDisable /\ \A u \in Readers : user[u].pc = "idle"
    /\ UNCHANGED ofmapVars
JoinStep ==
    /\ DestroyJoin
    /\ queue' = [f \in Flows |-> <<>>]
    /\ UNCHANGED <<ring, work, rcv, user, calls, fetched, dropped, delivered>>

(* Every step is one of these. *)
LEMMA Steps ==
    ASSUME [Next]_vars
    PROVE  \/ UNCHANGED vars
           \/ \E u \in Readers : \E f \in Flows : ReadCall(u, f)
           \/ \E u \in Readers : ReadPoll(u) \/ ReadPop(u)
           \/ \E e \in JobWorkers :
                \/ DecodeLock(e) \/ DecodeRow(e) \/ DecodePoll(e) \/ DecodePush(e)
                \/ LoopStep(e)
           \/ WorkerTop \/ ScanFlow \/ TransferBegin \/ ReadParts \/ ReadNothing
           \/ Publish \/ ReportJob \/ Report \/ GateStep \/ ControlStep \/ JoinStep
  BY DEF Next, Reader, Decode, Worker, LoopStep, GateStep, ControlStep, JoinStep, ofmapVars

-----------------------------------------------------------------------------
(* Type correctness. *)

(* The steps of the readers. *)
LEMMA ReadersKeepType ==
    ASSUME OfmapType, NEW u \in Readers,
           \/ \E f \in Flows : ReadCall(u, f)
           \/ ReadPoll(u) \/ ReadPop(u)
    PROVE  OfmapType'
  <1>1. WorkersType(Flows) /\ user \in [Readers -> ReaderStates]
        /\ user[u].flow \in Flows
    BY Typed DEF OfmapType
  <1>2. CASE \E f \in Flows : ReadCall(u, f)
    <2>1. PICK f \in Flows : ReadCall(u, f)
      BY <1>2
    <2>2. user' \in [Readers -> ReaderStates]
      BY <1>1, <2>1 DEF ReadCall, ReaderStates
    <2>3. calls' \in Nat
      BY <2>1 DEF ReadCall, OfmapType
    <2> QED
      BY <1>1, <2>1, <2>2, <2>3 DEF ReadCall, sharedVars, OfmapType, WorkersType
  <1>3. CASE ReadPoll(u)
    <2>1. PICK pc \in {"idle", "pop"} : user' = [user EXCEPT ![u].pc = pc]
      BY <1>3 DEF ReadPoll
    <2>2. user' \in [Readers -> ReaderStates]
      BY <1>1, <2>1 DEF ReaderStates
    <2> QED
      BY <1>1, <1>3, <2>2 DEF ReadPoll, sharedVars, OfmapType, WorkersType
  <1>4. CASE ReadPop(u)
    <2>1. user' \in [Readers -> ReaderStates]
      BY <1>1, <1>4 DEF ReadPop, ReaderStates
    <2>2. /\ queue' \in [Flows -> Seq(Seq(Parts))]
          /\ delivered' \in [Flows -> Seq(Seq(Parts))]
      <3>1. PICK f \in Flows : f = user[u].flow
        BY <1>1
      <3>2. CASE queue[f] = <<>>
        BY <1>4, <3>1, <3>2 DEF ReadPop, OfmapType
      <3>3. CASE queue[f] # <<>>
        <4>1. queue[f] \in Seq(Seq(Parts)) /\ delivered[f] \in Seq(Seq(Parts))
          BY <3>1, Typed
        <4>2. Head(queue[f]) \in Seq(Parts) /\ Tail(queue[f]) \in Seq(Seq(Parts))
          BY <3>3, <4>1, HeadTailProperties
        <4>3. Append(delivered[f], Head(queue[f])) \in Seq(Seq(Parts))
          BY <4>1, <4>2, AppendProperties
        <4>4. /\ delivered' = [delivered EXCEPT ![f] = Append(delivered[f], Head(queue[f]))]
              /\ queue' = [queue EXCEPT ![f] = Tail(queue[f])]
          BY <1>4, <3>1, <3>3 DEF ReadPop, OfmapType
        <4> QED
          BY <4>2, <4>3, <4>4 DEF OfmapType
      <3> QED
        BY <3>2, <3>3
    <2> QED
      BY <1>1, <1>4, <2>1, <2>2 DEF ReadPop, sharedVars, OfmapType, WorkersType
  <1> QED
    BY <1>2, <1>3, <1>4

(* The steps of a job worker in a frame. *)
LEMMA DecodersKeepType ==
    ASSUME OfmapType, NEW e \in JobWorkers,
           DecodeLock(e) \/ DecodeRow(e) \/ DecodePoll(e) \/ DecodePush(e)
    PROVE  OfmapType'
  <1>1. WorkersType(Flows) /\ work \in [JobWorkers -> Seq(Parts)]
        /\ work[e] \in Seq(Parts)
    BY Typed DEF OfmapType
  <1>2. PICK f \in Flows : f = jw[e].flow
    BY Typed
  <1>3. ASSUME NEW pc \in JobPCs, JobWorkerGoes(e, pc)
        PROVE  jw' \in [JobWorkers -> JobWorkerStates(Flows)]
    BY <1>1, <1>3, JobWorkerMoves
  <1>4. {"row", "full", "rest", "push"} \subseteq JobPCs
    BY DEF JobPCs
  <1>5. <<>> \in Seq(Parts)
    BY EmptySeq
  <1>6. CASE DecodeLock(e)
    <2>1. jw' \in [JobWorkers -> JobWorkerStates(Flows)]
      BY <1>3, <1>4, <1>6 DEF DecodeLock
    <2>2. ring' \in [Flows -> Rings]
      BY <1>2, <1>6, GuardTaken DEF DecodeLock
    <2> QED
      BY <1>1, <1>6, <2>1, <2>2 DEF DecodeLock, OfmapType, WorkersType
  <1>7. CASE DecodeRow(e)
    <2>1. jw' \in [JobWorkers -> JobWorkerStates(Flows)]
      BY <1>3, <1>4, <1>7 DEF DecodeRow
    <2>2. ring' \in [Flows -> Rings] /\ work' \in [JobWorkers -> Seq(Parts)]
      BY <1>2, <1>7, RowTaken
    <2> QED
      BY <1>1, <1>7, <2>1, <2>2 DEF DecodeRow, OfmapType, WorkersType
  <1>8. CASE DecodePoll(e)
    <2>1. jw' \in [JobWorkers -> JobWorkerStates(Flows)]
      BY <1>3, <1>4, <1>8 DEF DecodePoll
    <2>2. work' \in [JobWorkers -> Seq(Parts)] /\ dropped' \in Seq(Flows)
      <3>1. CASE QueueFull(f)
        <4>1. dropped' = Append(dropped, f) /\ work' = [work EXCEPT ![e] = <<>>]
          BY <1>2, <1>8, <3>1 DEF DecodePoll
        <4>2. dropped' \in Seq(Flows)
          BY <4>1, AppendProperties DEF OfmapType
        <4> QED
          BY <1>1, <1>5, <4>1, <4>2
      <3>2. CASE ~QueueFull(f)
        BY <1>1, <1>2, <1>8, <3>2 DEF DecodePoll, OfmapType
      <3> QED
        BY <3>1, <3>2
    <2> QED
      BY <1>1, <1>8, <2>1, <2>2 DEF DecodePoll, OfmapType, WorkersType
  <1>9. CASE DecodePush(e)
    <2>1. jw' \in [JobWorkers -> JobWorkerStates(Flows)]
      BY <1>3, <1>4, <1>9 DEF DecodePush
    <2>2. work' \in [JobWorkers -> Seq(Parts)]
      BY <1>1, <1>5, <1>9 DEF DecodePush
    <2>3. queue' \in [Flows -> Seq(Seq(Parts))]
      <3>1. queue[f] \in Seq(Seq(Parts))
        BY Typed
      <3>2. Append(queue[f], work[e]) \in Seq(Seq(Parts))
        BY <1>1, <3>1, AppendProperties
      <3>3. queue' = [queue EXCEPT ![f] = Append(queue[f], work[e])]
        BY <1>2, <1>9 DEF DecodePush, OfmapType
      <3> QED
        BY <3>2, <3>3 DEF OfmapType
    <2> QED
      BY <1>1, <1>9, <2>1, <2>2, <2>3 DEF DecodePush, OfmapType, WorkersType
  <1> QED
    BY <1>6, <1>7, <1>8, <1>9

(* The ofmap worker has found room. *)
BeginRoom == wk.pc = "begin" => ~Full(rcv.flow)

(* The rows free up to the read pointer or the end of the buffer. *)
LEMMA RoomBounds ==
    ASSUME OfmapType, NEW f \in Flows, ~Full(f)
    PROVE  /\ Room(f) \in 0 .. R - 1 /\ Room(f) >= 1
           /\ ring[f].entry_w + Room(f) <= R
  <1>1. PICK w \in 0 .. R - 1, r \in 0 .. R - 1 :
          w = ring[f].entry_w /\ r = ring[f].entry_r
    BY Typed DEF Rings, Rows
  <1>2. R \in Nat /\ R > 1
    BY Sizes
  <1>3. (w + 1) % R = IF w + 1 < R THEN w + 1 ELSE w + 1 - R
    <2>1. w + 1 \in Nat /\ w + 1 < R + R
      BY <1>2
    <2> QED
      BY <1>2, <2>1, FirstPeriods
  <1>4. (w + 1) % R # r
    BY <1>1 DEF Full
  <1>5. Room(f) = IF w >= r THEN R - w - (IF r = 0 THEN 1 ELSE 0) ELSE r - w - 1
    BY <1>1 DEF Room
  <1>6. CASE w >= r
    <2>1. Room(f) = R - w - (IF r = 0 THEN 1 ELSE 0)
      BY <1>5, <1>6
    <2>2. r = 0 => w + 1 < R
      BY <1>2, <1>3, <1>4
    <2> QED
      BY <1>1, <1>2, <1>6, <2>1, <2>2
  <1>7. CASE w < r
    <2>1. Room(f) = r - w - 1
      BY <1>5, <1>7
    <2>2. w + 1 # r
      BY <1>2, <1>3, <1>4, <1>7
    <2> QED
      BY <1>1, <1>2, <1>7, <2>1, <2>2
  <1> QED
    BY <1>6, <1>7

(* A step that leaves the transfer alone, and is not the end of destroy.   *)
LEMMA PlaceQuiet ==
    ASSUME PlaceInv, UNCHANGED rcv, KeepsMoving,
           ctl'.pc = "gone" => ctl.pc = "gone" \/ wk.pc = "exit"
    PROVE  PlaceInv'
  BY DEF PlaceInv, KeepsMoving, AtFlow

(* If nodes fit, a read brings no more than was asked for, and is the last *)
(* one when rows are whole.                                                *)
LEMMA FittingRead ==
    ASSUME NodesFit, OfmapType, PlaceInv, ReadParts
    PROVE  \E k \in 1 .. Asked :
             /\ Store(rcv.flow, k)
             /\ WorkerGoes(IF Aligned(rcv.got + k) THEN "publish" ELSE "read")
  <1>1. PICK k \in 1 .. Asked :
          Store(rcv.flow, k) /\ WorkerGoes(IF LastRead(k) THEN "publish" ELSE "read")
    BY DEF ReadParts, NodeSizes
  <1>2. P \in Nat /\ P > 0 /\ rcv.got \in Nat
    BY Typed, Sizes DEF Transfers
  <1>3. LastRead(k) <=> Aligned(rcv.got + k)
    <2>1. CASE rcv.got = 0
      <3>1. LastRead(k) <=> k % P = 0
        BY <2>1 DEF LastRead, Aligned
      <3>2. k \in Int
        OBVIOUS
      <3>3. rcv.got + k = k
        BY <2>1, <3>2
      <3> QED
        BY <3>1, <3>3 DEF Aligned
    <2>2. CASE rcv.got # 0
      <3>1. PICK z \in 0 .. P - 1, q \in Nat :
              z = rcv.got % P /\ rcv.got = P * q + z
        BY <1>2, DivMod
      <3>2. Asked = P - z /\ (LastRead(k) <=> k >= P - z)
        BY <2>2, <3>1 DEF Asked, LastRead
      <3>3. k \in Nat /\ k >= 1 /\ z + k <= P
        BY <1>2, <3>2
      <3>4. CASE z + k = P
        <4>1. rcv.got + k = P * (q + 1) + 0
          <5>1. PICK y \in Nat : y = P * q
            BY <1>2
          <5>2. P * (q + 1) = y + P
            BY <1>2, <5>1
          <5>3. rcv.got = y + z /\ z \in Nat /\ k \in Nat /\ P \in Nat
            BY <1>2, <3>1, <3>3, <5>1
          <5>4. rcv.got + k = y + P
            BY <3>4, <5>3
          <5> QED
            BY <5>1, <5>2, <5>3, <5>4
        <4>2. (P * (q + 1) + 0) % P = 0
          <5>1. q + 1 \in Int /\ 0 \in Nat /\ 0 < P
            BY <1>2
          <5> QED
            BY <1>2, <5>1, DivModUnique
        <4> QED
          BY <1>2, <3>2, <3>3, <3>4, <4>1, <4>2 DEF Aligned
      <3>5. CASE z + k < P
        <4>1. rcv.got + k = P * q + (z + k)
          <5>1. PICK y \in Nat : y = P * q
            BY <1>2
          <5> QED
            BY <1>2, <3>1, <3>3, <5>1
        <4>2. (P * q + (z + k)) % P = z + k
          <5>1. q \in Int /\ z + k \in Nat /\ z + k < P
            BY <3>3, <3>5
          <5> QED
            BY <1>2, <5>1, DivModUnique
        <4> QED
          BY <1>2, <3>2, <3>3, <3>5, <4>1, <4>2 DEF Aligned
      <3> QED
        BY <1>2, <3>3, <3>4, <3>5
    <2> QED
      BY <2>1, <2>2
  <1> QED
    BY <1>1, <1>3

(* The steps of the ofmap worker before and in a transfer, if nodes fit. *)
LEMMA TransferKeepsType ==
    ASSUME NodesFit, OfmapType, PlaceInv, BeginRoom,
           WorkerTop \/ ScanFlow \/ TransferBegin \/ ReadParts \/ ReadNothing
    PROVE  OfmapType' /\ PlaceInv'
  <1>1. WorkersType(Flows) /\ rcv \in Transfers /\ P \in Nat /\ P > 0
        /\ rcv.got \in Nat /\ rcv.n \in Nat /\ rcv.n \in 0 .. R - 1
    BY Typed, Sizes DEF Transfers
  <1>2. ctl.pc = "gone" => wk.pc = "exit"
    BY DEF PlaceInv
  <1>3. {"gate", "exit", "begin", "read", "publish"} \subseteq WorkerPCs
    BY DEF WorkerPCs
  <1>4. ASSUME PastFlow(rcv), rcv.flow \in Flows, wk.pc # "exit",
               UNCHANGED <<jobs, jw, pool, lost, ctl, ring, queue, work, user, calls,
                           fetched, dropped, delivered>>
        PROVE  OfmapType' /\ PlaceInv'
    <2>1. /\ wk' \in WorkerStates /\ rcv' \in Transfers /\ wk'.pc \in {"scan", "top"}
          /\ wk'.pc = "scan" => rcv'.flow \in Flows
          /\ rcv'.n = 0 /\ rcv'.got = 0 /\ rcv'.locked = rcv.locked
      BY <1>1, <1>4, PastFlowMoves
    <2>2. OfmapType'
      BY <1>4, <2>1 DEF OfmapType, WorkersType, WorkerStates
    <2>3. 0 <= 0 * P /\ ctl'.pc # "gone" /\ ~rcv.locked
      BY <1>1, <1>2, <1>4 DEF PlaceInv
    <2> QED
      BY <2>1, <2>2, <2>3 DEF PlaceInv, AtFlow
  <1>5. CASE WorkerTop
    <2>1. PICK pc \in {"gate", "exit"} : WorkerGoes(pc)
      BY <1>5 DEF WorkerTop
    <2>2. wk' \in WorkerStates /\ wk'.pc = pc
      BY <1>3, <2>1, WorkerMoves
    <2>3. rcv' \in Transfers /\ rcv'.flow = 0 /\ rcv'.got = rcv.got /\ rcv'.n = rcv.n
          /\ rcv'.locked = rcv.locked
      BY <1>1, <1>5 DEF WorkerTop, Transfers
    <2>4. OfmapType'
      BY <1>5, <2>2, <2>3 DEF WorkerTop, OfmapType, WorkersType, WorkerStates
    <2>5. PlaceInv'
      BY <1>2, <1>5, <2>2, <2>3, Sizes DEF WorkerTop, PlaceInv
    <2> QED
      BY <2>4, <2>5
  <1>6. CASE ScanFlow
    <2>1. rcv.flow \in Flows /\ wk.pc # "exit"
      BY <1>6 DEF ScanFlow, PlaceInv, AtFlow
    <2>2. CASE Full(rcv.flow)
      BY <1>4, <1>6, <2>1, <2>2 DEF ScanFlow
    <2>3. CASE ~Full(rcv.flow)
      <3>1. WorkerGoes("begin") /\ UNCHANGED rcv
        BY <1>6, <2>3 DEF ScanFlow
      <3>2. wk' \in WorkerStates /\ wk'.pc = "begin"
        BY <1>3, <3>1, WorkerMoves
      <3>3. OfmapType'
        BY <1>6, <3>1, <3>2 DEF ScanFlow, OfmapType, WorkersType, WorkerStates
      <3>4. PlaceInv'
        BY <1>2, <1>6, <2>1, <3>1, <3>2 DEF ScanFlow, PlaceInv
      <3> QED
        BY <3>3, <3>4
    <2> QED
      BY <2>2, <2>3
  <1>7. CASE TransferBegin
    <2>1. rcv.flow \in Flows /\ wk.pc # "exit" /\ ~Full(rcv.flow)
      BY <1>7 DEF TransferBegin, PlaceInv, AtFlow, BeginRoom
    <2>2. PICK r \in 0 .. R - 1 : r = Room(rcv.flow)
      BY <2>1, RoomBounds
    <2>3. WorkerGoes("read") /\ rcv' = [rcv EXCEPT !.n = r, !.got = 0]
      BY <1>7, <2>1, <2>2 DEF TransferBegin
    <2>4. wk' \in WorkerStates /\ wk'.pc = "read"
      BY <1>3, <2>3, WorkerMoves
    <2>5. rcv' \in Transfers /\ rcv'.flow = rcv.flow /\ rcv'.got = 0 /\ rcv'.n = r
          /\ rcv'.locked = rcv.locked
      BY <1>1, <2>3 DEF Transfers
    <2>6. OfmapType'
      BY <1>7, <2>4, <2>5 DEF TransferBegin, OfmapType, WorkersType, WorkerStates
    <2>7. 0 <= r * P
      BY <1>1, Sizes
    <2>8. PlaceInv'
      BY <1>2, <1>7, <2>1, <2>4, <2>5, <2>7 DEF TransferBegin, PlaceInv
    <2> QED
      BY <2>6, <2>8
  <1>8. CASE ReadParts
    <2>1. PICK k \in 1 .. Asked :
            /\ Store(rcv.flow, k)
            /\ WorkerGoes(IF Aligned(rcv.got + k) THEN "publish" ELSE "read")
      BY <1>8, FittingRead
    <2>2. PICK f \in Flows : f = rcv.flow
      BY <1>8 DEF ReadParts, PlaceInv, AtFlow
    <2>3. PICK pc \in {"publish", "read"} :
            /\ WorkerGoes(pc)
            /\ pc = "publish" => (rcv.got + k) % P = 0
            /\ pc = "read" => (rcv.got + k) % P # 0
      BY <2>1 DEF Aligned
    <2>4. wk' \in WorkerStates /\ wk'.pc = pc
      BY <1>3, <2>3, WorkerMoves
    <2>5. Asked \in Int /\ rcv.got + Asked <= rcv.n * P
      <3>1. rcv.got <= rcv.n * P /\ (rcv.got = 0 \/ rcv.got % P # 0)
        BY <1>8 DEF ReadParts, PlaceInv
      <3>2. CASE rcv.got = 0
        <4>1. Asked = rcv.n * P
          BY <3>2 DEF Asked
        <4> QED
          BY <1>1, <3>2, <4>1
      <3>3. CASE rcv.got # 0
        <4>1. Asked = P - (rcv.got % P)
          BY <3>3 DEF Asked
        <4>2. rcv.got % P \in 0 .. P - 1 /\ rcv.got + P - (rcv.got % P) <= rcv.n * P
          BY <1>1, <3>1, <3>3, PartOfRow
        <4>3. PICK z \in 0 .. P - 1 : z = rcv.got % P
          BY <4>2
        <4>4. Asked = P - z /\ rcv.got + P - z <= rcv.n * P
          BY <4>1, <4>2, <4>3
        <4> QED
          BY <1>1, <4>3, <4>4
      <3> QED
        BY <3>2, <3>3
    <2>6. k \in Nat /\ rcv.got + k <= rcv.n * P
      BY <1>1, <2>5
    <2>7. /\ ring' \in [Flows -> Rings] /\ fetched' \in [Flows -> Nat]
          /\ rcv' \in Transfers /\ rcv'.flow = f /\ rcv'.n = rcv.n
          /\ rcv'.got = rcv.got + k /\ rcv'.locked = rcv.locked
      <3>1. Store(f, k)
        BY <2>1, <2>2
      <3> QED
        BY <2>2, <2>6, <3>1, PartsStored
    <2>8. OfmapType'
      BY <1>8, <2>4, <2>7 DEF ReadParts, OfmapType, WorkersType, WorkerStates
    <2>9. PlaceInv'
      BY <1>2, <1>8, <2>3, <2>4, <2>6, <2>7 DEF ReadParts, PlaceInv
    <2> QED
      BY <2>8, <2>9
  <1>9. CASE ReadNothing
    BY <1>4, <1>9 DEF ReadNothing, PlaceInv, AtFlow
  <1> QED
    BY <1>5, <1>6, <1>7, <1>8, <1>9

(* The steps of the ofmap worker after a transfer. *)
LEMMA ReportKeepsType ==
    ASSUME OfmapType, PlaceInv, Publish \/ ReportJob \/ Report \/ GateStep
    PROVE  OfmapType' /\ PlaceInv'
  <1>1. WorkersType(Flows) /\ rcv \in Transfers /\ P \in Nat /\ P > 0
        /\ rcv.got \in Nat /\ rcv.n \in Nat
    BY Typed, Sizes DEF Transfers
  <1>2. ctl.pc = "gone" => wk.pc = "exit"
    BY DEF PlaceInv
  <1>3. {"report", "signal"} \subseteq WorkerPCs
    BY DEF WorkerPCs
  <1>4. ASSUME PastFlow(rcv), rcv.flow \in Flows, wk.pc # "exit", UNCHANGED ctl
        PROVE  wk' \in WorkerStates /\ rcv' \in Transfers /\ PlaceInv'
    <2>1. /\ wk' \in WorkerStates /\ rcv' \in Transfers /\ wk'.pc \in {"scan", "top"}
          /\ wk'.pc = "scan" => rcv'.flow \in Flows
          /\ rcv'.n = 0 /\ rcv'.got = 0 /\ rcv'.locked = rcv.locked
      BY <1>1, <1>4, PastFlowMoves
    <2>2. 0 <= 0 * P /\ ctl'.pc # "gone" /\ ~rcv.locked
      BY <1>1, <1>2, <1>4 DEF PlaceInv
    <2> QED
      BY <2>1, <2>2 DEF PlaceInv, AtFlow
  <1>5. CASE Publish
    <2>1. PICK f \in Flows : f = rcv.flow
      BY <1>5 DEF Publish, PlaceInv, AtFlow
    <2>2. PICK w \in Rows : w = (ring[f].entry_w + (rcv.got \div P)) % R
      <3>1. PICK d \in Nat : d = rcv.got \div P
        BY <1>1, PartOfRow
      <3>2. ring[f].entry_w \in Nat
        BY Typed, Sizes DEF Rings, Rows
      <3>3. ring[f].entry_w + d \in Nat /\ R \in Nat /\ R > 0
        BY <3>2, Sizes
      <3>4. (ring[f].entry_w + d) % R \in 0 .. R - 1
        BY <3>3, DivMod
      <3> QED
        BY <3>1, <3>4 DEF Rows
    <2>3. ring' = [ring EXCEPT ![f].entry_w = w]
      BY <1>5, <2>1, <2>2 DEF Publish
    <2>4. ring' \in [Flows -> Rings]
      BY <2>3, EntryMoved
    <2>5. PICK n \in Int : n = NewFrames(f, w)
      <3>1. RowsFromTo(ring[f].entry_report_r, w) \in Int
        BY Typed, Sizes DEF Rings, Rows, RowsFromTo
      <3> QED
        BY <3>1, Sizes DEF NewFrames
    <2>6. CASE n = 0
      <3>1. PastFlow(rcv)
        BY <1>5, <2>1, <2>2, <2>5, <2>6 DEF Publish
      <3>2. wk' \in WorkerStates /\ rcv' \in Transfers /\ PlaceInv'
        BY <1>4, <1>5, <2>1, <3>1 DEF Publish
      <3> QED
        BY <1>5, <2>4, <3>2 DEF Publish, OfmapType, WorkersType, WorkerStates
    <2>7. CASE n # 0
      <3>1. rcv' = [rcv EXCEPT !.frames = n] /\ WorkerGoes("report")
        BY <1>5, <2>1, <2>2, <2>5, <2>7 DEF Publish
      <3>2. wk' \in WorkerStates /\ wk'.pc = "report"
        BY <1>3, <3>1, WorkerMoves
      <3>3. /\ rcv' \in Transfers /\ rcv'.flow = rcv.flow /\ rcv'.n = rcv.n
            /\ rcv'.got = rcv.got /\ rcv'.locked = rcv.locked
        BY <1>1, <2>5, <3>1 DEF Transfers
      <3>4. OfmapType'
        BY <1>5, <2>4, <3>2, <3>3 DEF Publish, OfmapType, WorkersType, WorkerStates
      <3>5. PlaceInv'
        BY <1>2, <1>5, <2>1, <3>2, <3>3 DEF Publish, PlaceInv
      <3> QED
        BY <3>4, <3>5
    <2> QED
      BY <2>6, <2>7
  <1>6. CASE ReportJob
    <2>1. rcv.flow \in Flows /\ UNCHANGED <<rcv, ctl>>
      BY <1>6 DEF ReportJob, PlaceInv, AtFlow
    <2>2. wk' \in WorkerStates /\ wk'.pc = "signal"
      BY <1>3, <1>6, WorkerMoves DEF ReportJob
    <2>3. jobs' \in Seq(Flows)
      BY <1>1, <1>6, <2>1, AppendProperties DEF ReportJob, WorkersType
    <2>4. OfmapType'
      BY <1>6, <2>2, <2>3 DEF ReportJob, OfmapType, WorkersType, WorkerStates
    <2>5. PlaceInv'
      BY <1>2, <1>6, <2>1, <2>2 DEF ReportJob, PlaceInv
    <2> QED
      BY <2>4, <2>5
  <1>7. CASE Report
    <2>1. PICK f \in Flows : f = rcv.flow
      BY <1>7 DEF Report, PlaceInv, AtFlow
    <2>2. jw' \in [JobWorkers -> JobWorkerStates(Flows)]
      BY <1>1, <1>7, WakeTyped DEF Report
    <2>3. PICK r \in Nat : r = IF ring[f].entry_report_r + H = R THEN 0
                               ELSE ring[f].entry_report_r + H
      BY Typed, Sizes DEF Rings
    <2>4. ring' = [ring EXCEPT ![f].entry_report_r = r]
      BY <1>7, <2>1, <2>3 DEF Report
    <2>5. ring' \in [Flows -> Rings]
      BY <2>4, ReportMoved
    <2>6. CASE rcv.frames > 1
      <3>1. rcv' = [rcv EXCEPT !.frames = rcv.frames - 1] /\ WorkerGoes("report")
        BY <1>7, <2>6 DEF Report
      <3>2. wk' \in WorkerStates /\ wk'.pc = "report"
        BY <1>3, <3>1, WorkerMoves
      <3>3. /\ rcv' \in Transfers /\ rcv'.flow = rcv.flow /\ rcv'.n = rcv.n
            /\ rcv'.got = rcv.got /\ rcv'.locked = rcv.locked
        BY <1>1, <3>1 DEF Transfers
      <3>4. OfmapType'
        BY <1>7, <2>2, <2>5, <3>2, <3>3 DEF Report, OfmapType, WorkersType, WorkerStates
      <3>5. PlaceInv'
        BY <1>2, <1>7, <2>1, <3>2, <3>3 DEF Report, PlaceInv
      <3> QED
        BY <3>4, <3>5
    <2>7. CASE ~(rcv.frames > 1)
      <3>1. PastFlow(rcv)
        BY <1>7, <2>7 DEF Report
      <3>2. wk' \in WorkerStates /\ rcv' \in Transfers /\ PlaceInv'
        BY <1>4, <1>7, <2>1, <3>1 DEF Report
      <3> QED
        BY <1>7, <2>2, <2>5, <3>2 DEF Report, OfmapType, WorkersType, WorkerStates
    <2> QED
      BY <2>6, <2>7
  <1>8. CASE GateStep
    <2>1. WorkersType(Flows)' /\ UNCHANGED ctl /\ wk.pc = "gate"
          /\ wk'.pc \in {"asleep", "scan"} /\ UNCHANGED ofmapVars
      BY <1>1, <1>8, GateKeeps DEF GateStep
    <2>2. OfmapType'
      BY <2>1 DEF OfmapType, ofmapVars
    <2>3. PlaceInv'
      BY <2>1 DEF PlaceInv, ofmapVars, AtFlow
    <2> QED
      BY <2>2, <2>3
  <1> QED
    BY <1>5, <1>6, <1>7, <1>8

(* The loop of a job worker, control and the end of destroy. *)
LEMMA ElsewhereKeepsType ==
    ASSUME OfmapType, PlaceInv,
           UNCHANGED vars \/ (\E e \in JobWorkers : LoopStep(e)) \/ ControlStep \/ JoinStep
    PROVE  OfmapType' /\ PlaceInv'
  <1>1. WorkersType(Flows) /\ 0 \in Flows
    BY Sizes DEF OfmapType
  <1>2. CASE UNCHANGED vars
    <2>1. UNCHANGED <<rcv, wk, ctl>>
      BY <1>2 DEF vars, sharedVars
    <2>2. PlaceInv'
      BY <2>1 DEF PlaceInv
    <2> QED
      BY <1>2, <2>2 DEF vars, sharedVars, OfmapType, WorkersType
  <1>3. ASSUME NEW e \in JobWorkers, LoopStep(e) PROVE OfmapType' /\ PlaceInv'
    <2>1. WorkersType(Flows)' /\ UNCHANGED <<wk, ctl>>
      BY <1>1, <1>3, LoopKeeps DEF LoopStep
    <2>2. PlaceInv'
      BY <1>3, <2>1 DEF LoopStep, ofmapVars, PlaceInv
    <2> QED
      BY <1>3, <2>1, <2>2 DEF LoopStep, ofmapVars, OfmapType
  <1>4. CASE ControlStep
    <2>1. WorkersType(Flows)' /\ KeepsMoving
      <3>1. CASE SpuriousWakeup
        BY <1>1, <3>1, WakeupKeeps
      <3>2. CASE Control(TRUE) \/ DestroyDisable
        BY <1>1, <3>2, ControlKeeps
      <3>3. CASE Request
        BY <1>1, <3>3, RequestKeeps
      <3> QED
        BY <1>4, <3>1, <3>2, <3>3 DEF ControlStep
    <2>2. ctl'.pc = "gone" => ctl.pc = "gone"
      BY <1>1, <1>4, ControlMarks DEF ControlStep
    <2>3. PlaceInv'
      BY <1>4, <2>1, <2>2, PlaceQuiet DEF ControlStep, ofmapVars
    <2> QED
      BY <1>4, <2>1, <2>3 DEF ControlStep, ofmapVars, OfmapType
  <1>5. CASE JoinStep
    <2>1. WorkersType(Flows)' /\ KeepsMoving
      BY <1>1, <1>5, JoinKeeps DEF JoinStep
    <2>2. <<>> \in Seq(Seq(Parts))
      BY EmptySeq
    <2>3. queue' \in [Flows -> Seq(Seq(Parts))]
      BY <1>5, <2>2 DEF JoinStep
    <2>4. wk.pc = "exit" /\ UNCHANGED rcv
      BY <1>5 DEF JoinStep, DestroyJoin
    <2>5. PlaceInv'
      BY <2>1, <2>4, PlaceQuiet
    <2> QED
      BY <1>5, <2>1, <2>3, <2>5 DEF JoinStep, OfmapType
  <1> QED
    BY <1>2, <1>3, <1>4, <1>5

(* Readers and job workers in a frame leave the transfer alone. *)
LEMMA ElsewherePlace ==
    ASSUME OfmapType, PlaceInv,
           \/ \E u \in Readers :
                (\E f \in Flows : ReadCall(u, f)) \/ ReadPoll(u) \/ ReadPop(u)
           \/ \E e \in JobWorkers :
                DecodeLock(e) \/ DecodeRow(e) \/ DecodePoll(e) \/ DecodePush(e)
    PROVE  PlaceInv'
  <1>1. UNCHANGED <<rcv, wk, ctl>>
    <2>1. ASSUME NEW u \in Readers,
                 (\E f \in Flows : ReadCall(u, f)) \/ ReadPoll(u) \/ ReadPop(u)
          PROVE  UNCHANGED <<rcv, wk, ctl>>
      BY <2>1 DEF ReadCall, ReadPoll, ReadPop, sharedVars
    <2>2. ASSUME NEW e \in JobWorkers,
                 DecodeLock(e) \/ DecodeRow(e) \/ DecodePoll(e) \/ DecodePush(e)
          PROVE  UNCHANGED <<rcv, wk, ctl>>
      BY <2>2 DEF DecodeLock, DecodeRow, DecodePoll, DecodePush
    <2> QED
      BY <2>1, <2>2
  <1> QED
    BY <1>1 DEF PlaceInv

(* If nodes fit, every step keeps types and the place of the ofmap worker. *)
LEMMA TypeSteps ==
    ASSUME NodesFit, OfmapType, PlaceInv, BeginRoom, [Next]_vars
    PROVE  OfmapType' /\ PlaceInv'
  <1>1. ASSUME NEW u \in Readers,
               (\E f \in Flows : ReadCall(u, f)) \/ ReadPoll(u) \/ ReadPop(u)
        PROVE  OfmapType' /\ PlaceInv'
    BY <1>1, ReadersKeepType, ElsewherePlace
  <1>2. ASSUME NEW e \in JobWorkers,
               DecodeLock(e) \/ DecodeRow(e) \/ DecodePoll(e) \/ DecodePush(e)
        PROVE  OfmapType' /\ PlaceInv'
    BY <1>2, DecodersKeepType, ElsewherePlace
  <1> QED
    BY <1>1, <1>2, TransferKeepsType, ReportKeepsType, ElsewhereKeepsType, Steps

(* The initial state. *)
LEMMA InitType ==
    ASSUME Init PROVE OfmapType /\ PlaceInv
  <1>1. WorkersType(Flows)
    BY Sizes, WorkersTypeInit DEF Init
  <1>2. ring \in [Flows -> Rings]
    <2>1. [i \in Rows |-> [p \in 1 .. P |-> -1]] \in [Rows -> Parts]
      BY DEF Parts
    <2> QED
      BY <2>1, Sizes DEF Init, Rings
  <1>3. user \in [Readers -> ReaderStates]
    BY Sizes DEF Init, ReaderStates
  <1>4. /\ queue \in [Flows -> Seq(Seq(Parts))] /\ work \in [JobWorkers -> Seq(Parts)]
        /\ delivered \in [Flows -> Seq(Seq(Parts))] /\ dropped \in Seq(Flows)
    BY EmptySeq DEF Init
  <1>5. fetched \in [Flows -> Nat] /\ calls \in Nat
    BY DEF Init
  <1>6. rcv \in Transfers
    BY Sizes DEF Init, Transfers
  <1>7. OfmapType
    BY <1>1, <1>2, <1>3, <1>4, <1>5, <1>6 DEF OfmapType
  <1>8. /\ wk.pc = "top" /\ ctl.pc = "idle" /\ ~rcv.locked /\ rcv.got = 0 /\ rcv.n = 0
        /\ 0 <= 0 * P
    BY Sizes DEF Init, WorkersInit
  <1>9. PlaceInv
    BY <1>8 DEF PlaceInv, AtFlow
  <1> QED
    BY <1>7, <1>9

-----------------------------------------------------------------------------
(* The pool of job workers. *)

(* Readers, job workers in a frame and the ofmap worker but for its signal *)
(* stop no job worker and let none wait for jobs.                          *)
LEMMA DataStepsGo ==
    ASSUME OfmapType, PlaceInv,
           \/ UNCHANGED vars
           \/ \E u \in Readers : \E f \in Flows : ReadCall(u, f)
           \/ \E u \in Readers : ReadPoll(u) \/ ReadPop(u)
           \/ \E e \in JobWorkers :
                DecodeLock(e) \/ DecodeRow(e) \/ DecodePoll(e) \/ DecodePush(e)
           \/ WorkerTop \/ ScanFlow \/ TransferBegin \/ ReadParts \/ ReadNothing
           \/ Publish \/ ReportJob \/ GateStep
    PROVE  /\ JobsKeepGoing
           /\ (ReportJob /\ wk'.pc = "signal")
                \/ (UNCHANGED jobs /\ (wk.pc = "signal" => wk'.pc = "signal"))
  <1>1. WorkersType(Flows)
    BY DEF OfmapType
  <1>2. ASSUME NEW e \in JobWorkers,
               DecodeLock(e) \/ DecodeRow(e) \/ DecodePoll(e) \/ DecodePush(e)
        PROVE  JobsKeepGoing /\ UNCHANGED <<jobs, wk>>
    <2>1. PICK pc \in {"row", "full", "rest", "push"} : JobWorkerGoes(e, pc)
      <3>1. CASE DecodeRow(e)
        <4>1. JobWorkerGoes(e, "full") \/ JobWorkerGoes(e, "row")
          BY <3>1 DEF DecodeRow
        <4> QED
          BY <4>1
      <3>2. CASE DecodeLock(e) \/ DecodePush(e)
        BY <3>2 DEF DecodeLock, DecodePush
      <3>3. CASE DecodePoll(e)
        BY <3>3 DEF DecodePoll
      <3> QED
        BY <1>2, <3>1, <3>2, <3>3
    <2>2. pc \in JobPCs /\ pc \notin {"off", "waiting"}
      BY DEF JobPCs
    <2>3. jw[e].pc # "off" /\ UNCHANGED <<jobs, wk, pool, ctl>>
      BY <1>2 DEF DecodeLock, DecodeRow, DecodePoll, DecodePush
    <2>4. \A d \in JobWorkers :
            /\ jw'[d].pc = IF d = e THEN pc ELSE jw[d].pc
            /\ jw'[d].enable = jw[d].enable /\ jw'[d].next = jw[d].next
      BY <1>1, <2>1, <2>2, JobWorkerMoves
    <2> QED
      BY <2>2, <2>3, <2>4 DEF JobsKeepGoing
  <1>3. ASSUME UNCHANGED <<jw, pool, ctl>> PROVE JobsKeepGoing
    BY <1>3 DEF JobsKeepGoing
  <1>4. CASE UNCHANGED vars
    BY <1>3, <1>4 DEF vars, sharedVars
  <1>5. ASSUME NEW u \in Readers,
               (\E f \in Flows : ReadCall(u, f)) \/ ReadPoll(u) \/ ReadPop(u)
        PROVE  UNCHANGED <<jw, pool, ctl, jobs, wk>>
    BY <1>5 DEF ReadCall, ReadPoll, ReadPop, sharedVars
  <1>6. CASE \/ WorkerTop \/ ScanFlow \/ TransferBegin \/ ReadParts \/ ReadNothing
             \/ Publish
    <2>1. UNCHANGED <<jw, pool, ctl, jobs>> /\ wk.pc # "signal"
      BY <1>6 DEF WorkerTop, ScanFlow, TransferBegin, ReadParts, ReadNothing, Publish
    <2> QED
      BY <1>3, <2>1
  <1>7. CASE GateStep
    BY <1>3, <1>7 DEF GateStep, WorkerGate
  <1>8. CASE ReportJob
    <2>1. WorkerGoes("signal") /\ "signal" \in WorkerPCs /\ UNCHANGED <<jw, pool, ctl>>
      BY <1>8 DEF ReportJob, WorkerPCs
    <2>2. wk'.pc = "signal"
      BY <2>1, WorkerMoves
    <2> QED
      BY <1>3, <1>8, <2>1, <2>2
  <1> QED
    BY <1>2, <1>3, <1>4, <1>5, <1>6, <1>7, <1>8

(* Every step keeps the pool; when all its workers wait although there is  *)
(* a job, the ofmap worker is about to signal.                             *)
LEMMA PoolSteps ==
    ASSUME OfmapType, PlaceInv, PoolInv, [Next]_vars
    PROVE  PoolInv' /\ (JobsSignalled => JobsSignalled')
  <1>1. WorkersType(Flows) /\ 0 \in Flows
    BY Sizes DEF OfmapType
  <1>2. ASSUME \/ UNCHANGED vars
               \/ \E u \in Readers : \E f \in Flows : ReadCall(u, f)
               \/ \E u \in Readers : ReadPoll(u) \/ ReadPop(u)
               \/ \E e \in JobWorkers :
                    DecodeLock(e) \/ DecodeRow(e) \/ DecodePoll(e) \/ DecodePush(e)
               \/ WorkerTop \/ ScanFlow \/ TransferBegin \/ ReadParts \/ ReadNothing
               \/ Publish \/ ReportJob \/ GateStep
        PROVE  PoolInv' /\ (JobsSignalled => JobsSignalled')
    <2>1. /\ JobsKeepGoing
          /\ (ReportJob /\ wk'.pc = "signal")
               \/ (UNCHANGED jobs /\ (wk.pc = "signal" => wk'.pc = "signal"))
      BY <1>2, DataStepsGo
    <2>2. PoolInv' /\ (UNCHANGED jobs => (AllWait' => AllWait))
      BY <1>1, <2>1, GoingKeeps
    <2> QED
      BY <2>1, <2>2 DEF JobsSignalled
  <1>3. CASE Report
    <2>1. SignalEnqueue /\ UNCHANGED <<pool, ctl>>
      BY <1>3 DEF Report
    <2>2. JobsKeepGoing /\ ~AllWait'
      BY <1>1, <2>1, SignalKeeps
    <2>3. PoolInv'
      BY <1>1, <2>2, GoingKeeps
    <2> QED
      BY <2>2, <2>3 DEF JobsSignalled
  <1>4. ASSUME NEW e \in JobWorkers, LoopStep(e)
        PROVE  PoolInv' /\ (JobsSignalled => JobsSignalled')
    <2>1. PoolInv' /\ (AllWait' => AllWait) /\ UNCHANGED wk
      BY <1>1, <1>4, LoopPool, LoopKeeps DEF LoopStep
    <2> QED
      BY <2>1 DEF JobsSignalled
  <1>5. CASE ControlStep
    <2>1. PoolInv' /\ (AllWait' => AllWait) /\ KeepsMoving
      <3>1. CASE SpuriousWakeup
        BY <1>1, <3>1, WakeupPool, WakeupKeeps
      <3>2. CASE Control(TRUE) \/ DestroyDisable
        BY <1>1, <3>2, ControlPool, ControlKeeps
      <3>3. CASE Request
        BY <1>1, <3>3, RequestPool, RequestKeeps
      <3> QED
        BY <1>5, <3>1, <3>2, <3>3 DEF ControlStep
    <2> QED
      BY <2>1 DEF JobsSignalled, KeepsMoving
  <1>6. CASE JoinStep
    <2>1. PoolInv' /\ ~AllWait'
      BY <1>1, <1>6, JoinPool DEF JoinStep
    <2> QED
      BY <2>1 DEF JobsSignalled
  <1>7. CASE \E e \in JobWorkers : LoopStep(e)
    BY <1>4, <1>7
  <1> QED
    BY <1>2, <1>3, <1>5, <1>6, <1>7, Steps

(* With one decoder no step before destroy discards a job.                 *)
LEMMA DiscardSteps ==
    ASSUME OfmapType, PoolInv, NoneDiscarded, [Next]_vars
    PROVE  NoneDiscarded'
  <1>1. WorkersType(Flows)
    BY DEF OfmapType
  <1>2. ASSUME UNCHANGED <<lost, ctl>> PROVE NoneDiscarded'
    BY <1>2 DEF NoneDiscarded, Destroying
  <1>3. CASE \/ UNCHANGED vars
             \/ \E u \in Readers : \E f \in Flows : ReadCall(u, f)
             \/ \E u \in Readers : ReadPoll(u) \/ ReadPop(u)
    BY <1>2, <1>3 DEF vars, sharedVars, ReadCall, ReadPoll, ReadPop
  <1>4. CASE \E e \in JobWorkers :
               DecodeLock(e) \/ DecodeRow(e) \/ DecodePoll(e) \/ DecodePush(e)
    BY <1>2, <1>4 DEF DecodeLock, DecodeRow, DecodePoll, DecodePush
  <1>5. CASE \/ WorkerTop \/ ScanFlow \/ TransferBegin \/ ReadParts \/ ReadNothing
             \/ Publish \/ ReportJob \/ Report \/ GateStep
    BY <1>2, <1>5 DEF WorkerTop, ScanFlow, TransferBegin, ReadParts, ReadNothing, Publish,
                      ReportJob, Report, GateStep, WorkerGate
  <1>6. CASE (\E e \in JobWorkers : LoopStep(e)) \/ ControlStep \/ JoinStep
    <2>1. \/ \E e \in JobWorkers : JobWorkerLoop(e)
          \/ SpuriousWakeup \/ Control(TRUE) \/ Request
          \/ DestroyDisable \/ DestroyJoin
      BY <1>6 DEF LoopStep, ControlStep, JoinStep
    <2> QED
      BY <1>1, <2>1, NoneDiscardedStays
  <1> QED
    BY <1>3, <1>4, <1>5, <1>6, Steps

-----------------------------------------------------------------------------
(* What leaves the invariant of a flow as it is. *)

PointersSame(f) ==
    /\ fetched'[f] = fetched[f] /\ Got(f)' = Got(f)
    /\ ring'[f].entry_w = ring[f].entry_w
    /\ ring'[f].entry_r = ring[f].entry_r
    /\ ring'[f].entry_report_r = ring[f].entry_report_r
RowsSame(f) == ring'[f].data = ring[f].data /\ Got(f)' = Got(f)
LockSame(f) ==
    /\ ring'[f].guard = ring[f].guard
    /\ \A e \in JobWorkers :
        /\ Reading(e, f)' <=> Reading(e, f)
        /\ Reading(e, f) => work'[e] = work[e]
HoldersSame(f) ==
    \A e \in JobWorkers :
        /\ Holds(e, f)' <=> Holds(e, f)
        /\ Holds(e, f) => work'[e] = work[e]
FramesSame(f) == Decoded(f)' = Decoded(f) /\ HoldersSame(f)
InTransfer == {"begin", "read", "publish", "report", "signal"}
TransferSame(f) ==
    wk'.pc \in InTransfer /\ rcv'.flow = f => wk'.pc = wk.pc /\ rcv' = rcv
JobsSame(f) ==
    /\ JobsFor(f)' = JobsFor(f) /\ LostFor(f)' = LostFor(f)
    /\ WorkersAt(f, "execute")' = WorkersAt(f, "execute")
    /\ Held(f)' = Held(f) /\ Signalling(f)' = Signalling(f)
    /\ ctl'.pc # "gone" => ctl.pc # "gone"
OrderSame(f) ==
    /\ FramesSame(f)
    /\ ctl.grown => ctl'.grown
    /\ ctl'.pc # "gone" => ctl.pc # "gone"
    /\ In(dropped', f) <=> In(dropped, f)
FlowSame(f) ==
    /\ PointersSame(f) /\ RowsSame(f) /\ LockSame(f) /\ TransferSame(f)
    /\ JobsSame(f) /\ OrderSame(f)

(* The parts of the invariant of a flow, when what they are about does not *)
(* change.                                                                 *)
LEMMA PointersQuiet ==
    ASSUME NEW f \in Flows, NEW W, NEW q, NEW m, NEW t,
           PointersAre(f, W, q, m, t), PointersSame(f)
    PROVE  PointersAre(f, W, q, m, t)'
  BY DEF PointersAre, PointersSame

(* The rows in the ring. *)
LEMMA RowsQuiet ==
    ASSUME NEW f \in Flows, NEW W, NEW q, NEW m, RowsAre(f, W, q, m), RowsSame(f)
    PROVE  RowsAre(f, W, q, m)'
  BY DEF RowsAre, RowsSame

(* The lock of the ring. *)
LEMMA LockQuiet ==
    ASSUME OfmapType, NEW f \in Flows, NEW q, NEW m, LockIs(f, q, m), LockSame(f)
    PROVE  LockIs(f, q, m)'
  <1>1. ring[f].guard \in JobWorkers \cup {NoWorker}
    BY Typed DEF Rings
  <1>2. PICK g \in JobWorkers \cup {NoWorker} : g = ring[f].guard /\ g = ring'[f].guard
    BY <1>1 DEF LockSame
  <1>3. g = NoWorker => m = 0
    BY <1>2 DEF LockIs
  <1>4. g # NoWorker => g \in JobWorkers /\ Reading(g, f)'
    BY <1>2 DEF LockIs, LockSame
  <1>5. \A e \in JobWorkers : Reading(e, f)' => g = e /\ Prefix(work'[e], q, m)
    BY <1>2 DEF LockIs, LockSame
  <1>6. \A e \in JobWorkers : Prefix(work[e], q, m)' <=> Prefix(work'[e], q, m)
    BY DEF Prefix, Row
  <1> QED
    BY <1>2, <1>3, <1>4, <1>5, <1>6 DEF LockIs

(* The frames. *)
LEMMA FramesQuiet ==
    ASSUME NEW f \in Flows, NEW q, FramesAre(f, q), FramesSame(f)
    PROVE  FramesAre(f, q)'
  <1>1. PICK s : s = Decoded(f) /\ s = Decoded(f)'
    BY DEF FramesSame
  <1>2. Differ(s) /\ AllGood(s, q)
    BY <1>1 DEF FramesAre
  <1>3. ASSUME NEW e \in JobWorkers, Holds(e, f)'
        PROVE  /\ Holds(e, f) /\ work'[e] = work[e]
               /\ Good(work'[e], q) /\ NotIn(s, work'[e])
    BY <1>1, <1>3 DEF FramesAre, FramesSame, HoldersSame
  <1>4. ASSUME NEW e \in JobWorkers, Holds(e, f)', NEW d \in JobWorkers, d # e,
               Holds(d, f)'
        PROVE  FrameNumber(work'[d]) # FrameNumber(work'[e])
    <2>1. FrameNumber(work[d]) # FrameNumber(work[e])
      BY <1>3, <1>4 DEF FramesAre
    <2> QED
      BY <1>3, <1>4, <2>1
  <1> QED
    BY <1>1, <1>2, <1>3, <1>4 DEF FramesAre, Differ, AllGood, Good, NotIn, FrameNumber

(* The transfer. *)
LEMMA TransferQuiet ==
    ASSUME NEW f \in Flows, NEW W, NEW q, NEW m, NEW t,
           TransferIs(f, W, q, m, t), TransferSame(f)
    PROVE  TransferIs(f, W, q, m, t)'
  BY DEF TransferIs, TransferSame, InTransfer

(* The jobs. *)
LEMMA JobsQuiet ==
    ASSUME NEW f \in Flows, NEW q, NEW t, JobsAre(f, q, t), JobsSame(f)
    PROVE  JobsAre(f, q, t)'
  BY DEF JobsAre, JobsSame

(* The order. *)
LEMMA OrderQuiet ==
    ASSUME NEW f \in Flows, NEW q, OrderIs(f, q), OrderSame(f)
    PROVE  OrderIs(f, q)'
  <1>1. PICK s : s = Decoded(f) /\ s = Decoded(f)'
    BY DEF OrderSame, FramesSame
  <1>2. SUFFICES ASSUME ~ctl'.grown
                 PROVE  /\ Rising(s)
                        /\ \A e \in JobWorkers : Holds(e, f)' =>
                            /\ FrameNumber(work'[e]) = q - 1
                            /\ ~In(dropped', f) /\ ctl'.pc # "gone" => Len(s) = q - 1
                        /\ ~In(dropped', f) =>
                            /\ Counted(s)
                            /\ (\A e \in JobWorkers : ~Holds(e, f)') /\ ctl'.pc # "gone"
                                 => Len(s) = q
    BY <1>1 DEF OrderIs, Rising, Counted, In, FrameNumber
  <1>3. ~ctl.grown
    BY <1>2 DEF OrderSame
  <1>4. \A e \in JobWorkers : (Holds(e, f)' <=> Holds(e, f))
                              /\ (Holds(e, f) => work'[e] = work[e])
    BY DEF OrderSame, FramesSame, HoldersSame
  <1>5. (ctl'.pc # "gone" => ctl.pc # "gone") /\ (In(dropped', f) <=> In(dropped, f))
    BY DEF OrderSame
  <1>6. Rising(s)
    BY <1>1, <1>3 DEF OrderIs
  <1>7. ASSUME NEW e \in JobWorkers, Holds(e, f)'
        PROVE  /\ FrameNumber(work'[e]) = q - 1
               /\ ~In(dropped', f) /\ ctl'.pc # "gone" => Len(s) = q - 1
    <2>1. Holds(e, f) /\ work'[e] = work[e]
      BY <1>4, <1>7
    <2> QED
      BY <1>1, <1>3, <1>5, <2>1 DEF OrderIs
  <1>8. ASSUME ~In(dropped', f)
        PROVE  /\ Counted(s)
               /\ (\A e \in JobWorkers : ~Holds(e, f)') /\ ctl'.pc # "gone" => Len(s) = q
    <2>1. ~In(dropped, f)
      BY <1>5, <1>8
    <2>2. Counted(s)
      BY <1>1, <1>3, <2>1 DEF OrderIs
    <2>3. ASSUME \A e \in JobWorkers : ~Holds(e, f)', ctl'.pc # "gone" PROVE Len(s) = q
      <3>1. (\A e \in JobWorkers : ~Holds(e, f)) /\ ctl.pc # "gone"
        BY <1>4, <1>5, <2>3
      <3> QED
        BY <1>1, <1>3, <2>1, <3>1 DEF OrderIs
    <2> QED
      BY <2>2, <2>3
  <1> QED
    BY <1>6, <1>7, <1>8

(* All of them. *)
LEMMA FlowQuiet ==
    ASSUME OfmapType, NEW f \in Flows, NEW W, NEW q, NEW m, NEW t,
           FlowIs(f, W, q, m, t), FlowSame(f)
    PROVE  FlowIs(f, W, q, m, t)'
  <1>1. /\ PointersAre(f, W, q, m, t)' /\ RowsAre(f, W, q, m)'
    BY PointersQuiet, RowsQuiet DEF FlowIs, FlowSame
  <1>2. LockIs(f, q, m)' /\ FramesAre(f, q)'
    BY LockQuiet, FramesQuiet DEF FlowIs, FlowSame, OrderSame
  <1>3. TransferIs(f, W, q, m, t)' /\ JobsAre(f, q, t)' /\ OrderIs(f, q)'
    BY TransferQuiet, JobsQuiet, OrderQuiet DEF FlowIs, FlowSame
  <1> QED
    BY <1>1, <1>2, <1>3 DEF FlowIs

-----------------------------------------------------------------------------
(* Counts of job workers and jobs. *)

(* A job worker is at a place for a flow. *)
IsAt(e, f, pc) == jw[e].pc = pc /\ jw[e].flow = f

(* Counts are numbers. *)
LEMMA CountsTyped ==
    ASSUME OfmapType, NEW f, NEW pc
    PROVE  /\ JobsFor(f) \in Nat /\ LostFor(f) \in Nat
           /\ WorkersAt(f, pc) \in Nat /\ WorkersAt(f, pc) <= Cardinality(JobWorkers)
           /\ Cardinality(JobWorkers) \in Nat
  <1> DEFINE A == {e \in JobWorkers : jw[e].pc = pc /\ jw[e].flow = f}
  <1>1. WorkersAt(f, pc) = Cardinality(A) /\ A \in SUBSET JobWorkers
    BY DEF WorkersAt
  <1>2. IsFiniteSet(JobWorkers)
    BY WorkersAssumption
  <1> HIDE DEF A
  <1>3. /\ WorkersAt(f, pc) \in Nat /\ WorkersAt(f, pc) <= Cardinality(JobWorkers)
        /\ Cardinality(JobWorkers) \in Nat
    BY <1>1, <1>2, FS_Subset, FS_CardinalityType
  <1>4. jobs \in Seq(Flows) /\ lost \in Seq(Flows)
    BY DEF OfmapType, WorkersType
  <1>5. JobsFor(f) = Times(jobs, f) /\ LostFor(f) = Times(lost, f)
    BY DEF JobsFor, LostFor, Times
  <1>6. Times(jobs, f) \in Nat /\ Times(lost, f) \in Nat
    <2>1. 0 \in Flows
      BY Sizes
    <2> QED
      BY <1>4, <2>1, CountAppended
  <1> QED
    BY <1>3, <1>5, <1>6

(* One job worker moves: those at a place change by it at most. *)
LEMMA WorkersChange ==
    ASSUME NEW f, NEW pc, NEW e \in JobWorkers,
           \A d \in JobWorkers : d # e => (IsAt(d, f, pc)' <=> IsAt(d, f, pc))
    PROVE  /\ (IsAt(e, f, pc)' <=> IsAt(e, f, pc))
                => WorkersAt(f, pc)' = WorkersAt(f, pc)
           /\ ~IsAt(e, f, pc) /\ IsAt(e, f, pc)' =>
                WorkersAt(f, pc)' = WorkersAt(f, pc) + 1
           /\ IsAt(e, f, pc) /\ ~IsAt(e, f, pc)' =>
                WorkersAt(f, pc)' = WorkersAt(f, pc) - 1 /\ WorkersAt(f, pc) >= 1
  <1> DEFINE A == {d \in JobWorkers : jw[d].pc = pc /\ jw[d].flow = f}
             B == {d \in JobWorkers : jw'[d].pc = pc /\ jw'[d].flow = f}
  <1>1. WorkersAt(f, pc) = Cardinality(A) /\ WorkersAt(f, pc)' = Cardinality(B)
    BY DEF WorkersAt
  <1>2. IsFiniteSet(JobWorkers) /\ A \in SUBSET JobWorkers /\ B \in SUBSET JobWorkers
    BY WorkersAssumption
  <1>3. \A d \in JobWorkers : d # e => (d \in A <=> d \in B)
    BY DEF IsAt
  <1>4. (e \in A <=> IsAt(e, f, pc)) /\ (e \in B <=> IsAt(e, f, pc)')
    BY DEF IsAt
  <1> HIDE DEF A, B
  <1>5. /\ e \in A /\ e \in B => Cardinality(B) = Cardinality(A)
        /\ e \notin A /\ e \notin B => Cardinality(B) = Cardinality(A)
        /\ e \notin A /\ e \in B => Cardinality(B) = Cardinality(A) + 1
        /\ e \in A /\ e \notin B =>
             Cardinality(B) = Cardinality(A) - 1 /\ Cardinality(A) >= 1
    BY <1>2, <1>3, CountChanges
  <1> QED
    BY <1>1, <1>4, <1>5

(* No job worker comes to a place or leaves it. *)
LEMMA WorkersStay ==
    ASSUME NEW f, NEW pc, \A d \in JobWorkers : IsAt(d, f, pc)' <=> IsAt(d, f, pc)
    PROVE  WorkersAt(f, pc)' = WorkersAt(f, pc)
  <1>1. {d \in JobWorkers : jw'[d].pc = pc /\ jw'[d].flow = f}
          = {d \in JobWorkers : jw[d].pc = pc /\ jw[d].flow = f}
    BY DEF IsAt
  <1> QED
    BY <1>1 DEF WorkersAt

-----------------------------------------------------------------------------
(* Steps that leave a flow alone. *)

(* A job worker has nothing to do with the flows but for f. *)
Away(e, f) == jw[e].pc \in Resting \/ jw[e].flow = f
WorkingElse(f) ==
    \A e \in JobWorkers :
        \/ /\ jw'[e].pc = jw[e].pc /\ jw'[e].flow = jw[e].flow
           /\ work'[e] = work[e]
        \/ Away(e, f) /\ Away(e, f)'
TransferElse(f) ==
    \/ /\ rcv' = rcv
       /\ wk'.pc = wk.pc \/ (wk.pc \notin InTransfer /\ wk'.pc \notin InTransfer)
    \/ /\ wk.pc \in InTransfer => rcv.flow = f
       /\ wk'.pc \in InTransfer => rcv'.flow = f
FlowElse(g) ==
    /\ fetched'[g] = fetched[g] /\ Decoded(g)' = Decoded(g)
    /\ In(dropped', g) <=> In(dropped, g)
    /\ JobsFor(g)' = JobsFor(g) /\ LostFor(g)' = LostFor(g)
OthersSame(f) ==
    /\ OtherRingsSame(f) /\ WorkingElse(f) /\ TransferElse(f)
    /\ \A g \in Flows : g # f => FlowElse(g)
    /\ ctl.grown => ctl'.grown
    /\ ctl'.pc # "gone" => ctl.pc # "gone"

(* A job worker that is not away stays where it is. *)
LEMMA WorkingElseSame ==
    ASSUME NEW f, NEW g, g # f, WorkingElse(f)
    PROVE  /\ \A e \in JobWorkers :
                /\ Reading(e, g)' <=> Reading(e, g)
                /\ Holds(e, g)' <=> Holds(e, g)
                /\ Reading(e, g) \/ Holds(e, g) => work'[e] = work[e]
           /\ WorkersAt(g, "execute")' = WorkersAt(g, "execute")
           /\ WorkersAt(g, "push")' = WorkersAt(g, "push")
  <1>1. ASSUME NEW e \in JobWorkers, NEW pc \in {"execute", "row", "full", "push"}
        PROVE  /\ IsAt(e, g, pc)' <=> IsAt(e, g, pc)
               /\ IsAt(e, g, pc) => work'[e] = work[e]
    <2>1. CASE /\ jw'[e].pc = jw[e].pc /\ jw'[e].flow = jw[e].flow
               /\ work'[e] = work[e]
      BY <2>1 DEF IsAt
    <2>2. CASE Away(e, f) /\ Away(e, f)'
      <3>1. pc \notin Resting
        BY DEF Resting
      <3> QED
        BY <2>2, <3>1 DEF Away, IsAt
    <2> QED
      BY <2>1, <2>2 DEF WorkingElse
  <1>2. \A e \in JobWorkers :
          /\ Reading(e, g)' <=> Reading(e, g)
          /\ Holds(e, g)' <=> Holds(e, g)
          /\ Reading(e, g) \/ Holds(e, g) => work'[e] = work[e]
    BY <1>1 DEF IsAt, Reading, Holds
  <1>3. WorkersAt(g, "execute")' = WorkersAt(g, "execute")
    BY <1>1, WorkersStay
  <1>4. WorkersAt(g, "push")' = WorkersAt(g, "push")
    BY <1>1, WorkersStay
  <1> QED
    BY <1>2, <1>3, <1>4

(* Such a step keeps the invariant of the other flows. *)
LEMMA OthersKeep ==
    ASSUME OfmapType, NEW f, OthersSame(f), NEW g \in Flows, g # f
    PROVE  FlowSame(g)
  <1>1. /\ ring'[g] = ring[g] /\ FlowElse(g) /\ WorkingElse(f) /\ TransferElse(f)
        /\ ctl.grown => ctl'.grown
        /\ ctl'.pc # "gone" => ctl.pc # "gone"
    BY DEF OthersSame, OtherRingsSame
  <1>2. /\ \A e \in JobWorkers :
             /\ Reading(e, g)' <=> Reading(e, g)
             /\ Holds(e, g)' <=> Holds(e, g)
             /\ Reading(e, g) \/ Holds(e, g) => work'[e] = work[e]
        /\ WorkersAt(g, "execute")' = WorkersAt(g, "execute")
    BY <1>1, WorkingElseSame
  <1>3. Got(g)' = Got(g) /\ Signalling(g)' = Signalling(g) /\ TransferSame(g)
    <2>1. CASE rcv' = rcv /\ wk'.pc = wk.pc
      BY <2>1 DEF Got, Transferring, Signalling, TransferSame
    <2>2. CASE wk.pc \notin InTransfer /\ wk'.pc \notin InTransfer
      BY <2>2 DEF Got, Transferring, Signalling, TransferSame, InTransfer
    <2>3. CASE /\ wk.pc \in InTransfer => rcv.flow = f
               /\ wk'.pc \in InTransfer => rcv'.flow = f
      <3>1. /\ ~Transferring(g) /\ ~Transferring(g)'
            /\ Signalling(g) = 0 /\ Signalling(g)' = 0
        BY <2>3 DEF Transferring, Signalling, InTransfer
      <3> QED
        BY <2>3, <3>1 DEF Got, TransferSame
    <2> QED
      BY <1>1, <2>1, <2>2, <2>3 DEF TransferElse
  <1>4. PointersSame(g) /\ RowsSame(g)
    BY <1>1, <1>3 DEF PointersSame, RowsSame, FlowElse
  <1>5. LockSame(g) /\ HoldersSame(g)
    BY <1>1, <1>2 DEF LockSame, HoldersSame
  <1>6. JobsSame(g)
    <2>1. Held(g)' = Held(g)
      BY <1>1 DEF Held
    <2> QED
      BY <1>1, <1>2, <1>3, <2>1 DEF JobsSame, FlowElse
  <1>7. OrderSame(g)
    BY <1>1, <1>5 DEF OrderSame, FramesSame, FlowElse
  <1> QED
    BY <1>3, <1>4, <1>5, <1>6, <1>7 DEF FlowSame

-----------------------------------------------------------------------------
(* The numbers of a flow. *)

(* Whole frames take more rows the more there are. *)
LEMMA FramesGrow ==
    ASSUME NEW x \in Nat, NEW y \in Nat, x <= y
    PROVE  H * x \in Nat /\ H * y \in Nat /\ H * x <= H * y
           /\ (x < y => H * x + H <= H * y)
  <1>1. H \in Nat /\ H > 0
    BY Sizes
  <1>2. PICK z \in Nat : y = x + z
    OBVIOUS
  <1>3. H * y = H * x + H * z /\ H * z \in Nat /\ H * x \in Nat
    BY <1>1, <1>2
  <1>4. x < y => H * z >= H
    BY <1>1, <1>2
  <1> QED
    BY <1>1, <1>3, <1>4

(* The test for space in terms of the rows. *)
LEMMA FullIs ==
    ASSUME NEW f \in Flows, NEW W \in Nat, NEW q \in Nat, NEW m \in 0 .. H - 1,
           NEW t \in Nat, PointersAre(f, W, q, m, t)
    PROVE  /\ H * q + m \in Nat
           /\ Full(f) <=> W = H * q + m + R - 1
  <1>1. R \in Nat /\ R > 1 /\ H \in Nat /\ H > 0
    BY Sizes
  <1>2. PICK a \in Nat : a = H * q + m
    <2>1. H * q \in Nat
      BY <1>1
    <2> QED
      BY <1>1, <2>1
  <1>3. a <= W /\ W < a + R
    BY <1>1, <1>2 DEF PointersAre
  <1>4. ((W % R) + 1) % R = (W + 1) % R
    <2>1. 1 \in 0 .. R
      BY <1>1
    <2> QED
      BY <2>1, SlotAfter
  <1>5. (W + 1) % R = a % R <=> W + 1 = a + R
    BY <1>3, SlotsApart
  <1>6. Full(f) <=> ((W % R) + 1) % R = a % R
    BY <1>2 DEF Full, PointersAre
  <1> QED
    BY <1>1, <1>2, <1>4, <1>5, <1>6

(* The rows that are asked for fit behind those that are there. *)
LEMMA RoomIs ==
    ASSUME NEW f \in Flows, NEW W \in Nat, NEW q \in Nat, NEW m \in 0 .. H - 1,
           NEW t \in Nat, PointersAre(f, W, q, m, t), W < H * q + m + R - 1
    PROVE  /\ (W % R) + Room(f) <= R
           /\ W + Room(f) <= H * q + m + R - 1
  <1>1. R \in Nat /\ R > 1 /\ H \in Nat /\ H > 0
    BY Sizes
  <1>2. PICK a \in Nat : a = H * q + m
    BY FullIs
  <1>3. PICK k \in 0 .. R - 2 : k = W - a
    BY <1>1, <1>2 DEF PointersAre
  <1>4. k \in 0 .. R /\ a + k = W
    BY <1>1, <1>3
  <1>5. PICK v \in 0 .. R - 1 : v = a % R
    BY <1>4, SlotAfter DEF Rows
  <1>6. W % R = IF v + k < R THEN v + k ELSE v + k - R
    BY <1>4, <1>5, SlotAfter
  <1>7. ring[f].entry_w = W % R /\ ring[f].entry_r = v
    BY <1>2, <1>5 DEF PointersAre
  <1>8. CASE v + k < R
    <2>1. W % R = v + k /\ v + k >= v
      BY <1>1, <1>6, <1>8
    <2>2. Room(f) = R - (v + k) - (IF v = 0 THEN 1 ELSE 0)
      BY <1>7, <2>1 DEF Room
    <2>3. v = 0 => Room(f) = R - (v + k) - 1
      BY <2>2
    <2>4. v # 0 => Room(f) = R - (v + k) /\ v >= 1
      BY <1>1, <2>2
    <2> QED
      BY <1>1, <1>2, <1>3, <2>1, <2>3, <2>4
  <1>9. CASE ~(v + k < R)
    <2>1. W % R = v + k - R /\ ~(v + k - R >= v)
      BY <1>1, <1>6, <1>9
    <2>2. Room(f) = v - (v + k - R) - 1
      BY <1>7, <2>1 DEF Room
    <2> QED
      BY <1>1, <1>2, <1>3, <2>1, <2>2
  <1> QED
    BY <1>8, <1>9

(* A part of a transfer of n rows is in one of them. *)
LEMMA RowOfPart ==
    ASSUME NEW d \in Int, NEW p \in 1 .. P, NEW n \in Nat,
           0 <= d * P + p - 1, d * P + p - 1 < n * P
    PROVE  /\ d \in 0 .. n - 1
           /\ (d * P + p - 1) \div P = d /\ ((d * P + p - 1) % P) + 1 = p
  <1>1. P \in Nat /\ P > 0
    BY Sizes
  <1>2. PICK j \in Nat : j = d * P + p - 1
    BY <1>1
  <1>3. p - 1 \in Nat /\ p - 1 < P /\ j = P * d + (p - 1)
    BY <1>1, <1>2
  <1>4. j % P = p - 1 /\ j \div P = d
    BY <1>1, <1>3, DivModUnique
  <1>5. j \div P \in Nat /\ (j < n * P <=> j \div P < n)
    BY PartOfRow
  <1>6. d \in Nat /\ d < n
    BY <1>2, <1>4, <1>5
  <1> QED
    BY <1>2, <1>3, <1>4, <1>6

(* As long as not all is destroyed, the rows that are decoded were told,   *)
(* but for a frame whose job is there and which is about to be counted.    *)
LEMMA DecodedWereTold ==
    ASSUME OfmapType, NEW f \in Flows, NEW q \in Nat, NEW m \in 0 .. H - 1,
           NEW t \in Nat, LockIs(f, q, m), JobsAre(f, q, t), ctl.pc # "gone"
    PROVE  /\ t + Signalling(f) \in Nat /\ q + Held(f) <= t + Signalling(f)
           /\ H * q + m <= H * (t + Signalling(f))
           /\ m > 0 => H * (q + 1) <= H * (t + Signalling(f))
  <1>1. H \in Nat /\ H > 0
    BY Sizes
  <1>2. PICK s \in 0 .. 1 : s = Signalling(f)
    BY DEF Signalling
  <1>3. PICK h \in 0 .. 1 : h = Held(f) /\ (h = 0 => m = 0)
    BY DEF Held, LockIs
  <1>4. /\ JobsFor(f) \in Nat /\ LostFor(f) \in Nat /\ WorkersAt(f, "execute") \in Nat
    BY CountsTyped
  <1>5. PICK u \in Nat : u = t + s /\ q + h <= u
    BY <1>2, <1>3, <1>4 DEF JobsAre
  <1>6. m > 0 => q < u
    BY <1>3, <1>5
  <1>7. H * q <= H * u /\ (q < u => H * q + H <= H * u) /\ H * q \in Nat /\ H * u \in Nat
    BY <1>3, <1>5, FramesGrow
  <1>8. H * (q + 1) = H * q + H
    BY <1>1
  <1> QED
    BY <1>1, <1>2, <1>3, <1>5, <1>6, <1>7, <1>8

-----------------------------------------------------------------------------
(* The ofmap worker in a flow. *)

(* A step of the ofmap worker leaves the job workers in their frames and   *)
(* the frames where they are.                                              *)
ReceiverOnly(f) ==
    /\ UNCHANGED <<work, queue, delivered, dropped, ctl, lost>>
    /\ KeepsWorking /\ OtherRingsSame(f) /\ ring'[f].guard = ring[f].guard
    /\ \A g \in Flows : g # f => fetched'[g] = fetched[g] /\ JobsFor(g)' = JobsFor(g)
    /\ TransferElse(f)

(* What such a step does not touch. *)
LEMMA ReceiverKeeps ==
    ASSUME OfmapType, NEW f \in Flows, NEW W, NEW q, NEW m, NEW t,
           FlowIs(f, W, q, m, t), ReceiverOnly(f)
    PROVE  /\ LockIs(f, q, m)' /\ FramesAre(f, q)' /\ OrderIs(f, q)'
           /\ Held(f)' = Held(f) /\ LostFor(f)' = LostFor(f)
           /\ WorkersAt(f, "execute")' = WorkersAt(f, "execute")
           /\ OthersSame(f)
  <1>1. \A g : WorkingElse(g)
    BY DEF ReceiverOnly, KeepsWorking, WorkingElse, Away
  <1>2. PICK none : none # f
    <2>1. f + 1 # f
      BY Sizes DEF Flows
    <2> QED
      BY <2>1
  <1>3. /\ \A e \in JobWorkers :
             /\ Reading(e, f)' <=> Reading(e, f)
             /\ Holds(e, f)' <=> Holds(e, f)
             /\ Reading(e, f) \/ Holds(e, f) => work'[e] = work[e]
        /\ WorkersAt(f, "execute")' = WorkersAt(f, "execute")
    BY <1>1, <1>2, WorkingElseSame
  <1>4. LockSame(f) /\ HoldersSame(f)
    BY <1>3 DEF LockSame, HoldersSame, ReceiverOnly
  <1>5. \A g : Decoded(g)' = Decoded(g) /\ LostFor(g)' = LostFor(g)
    BY DEF Decoded, LostFor, ReceiverOnly
  <1>6. FramesSame(f)
    BY <1>4, <1>5 DEF FramesSame
  <1>7. OrderSame(f)
    BY <1>6 DEF OrderSame, ReceiverOnly
  <1>8. LockIs(f, q, m)' /\ FramesAre(f, q)' /\ OrderIs(f, q)'
    BY <1>4, <1>6, <1>7, LockQuiet, FramesQuiet, OrderQuiet DEF FlowIs
  <1>9. Held(f)' = Held(f)
    BY DEF Held, ReceiverOnly
  <1>10. \A g \in Flows : g # f => FlowElse(g)
    BY <1>5 DEF FlowElse, ReceiverOnly
  <1>11. OthersSame(f)
    BY <1>1, <1>10 DEF OthersSame, ReceiverOnly
  <1> QED
    BY <1>3, <1>5, <1>8, <1>9, <1>11

(* The invariant of the flows, flow by flow. *)
KeepsFlow(f) == \E W, q, t \in Nat : \E m \in 0 .. H - 1 : FlowIs(f, W, q, m, t)'

(* A step that keeps the invariant of one flow and leaves the others alone. *)
LEMMA FlowsKeep ==
    ASSUME OfmapType, FlowInv, NEW f, OthersSame(f), f \in Flows => KeepsFlow(f)
    PROVE  FlowInv'
  <1>1. ASSUME NEW g \in Flows PROVE KeepsFlow(g)
    <2>1. CASE g = f
      BY <1>1, <2>1
    <2>2. CASE g # f
      <3>1. PICK W \in Nat, q \in Nat, t \in Nat, m \in 0 .. H - 1 : FlowIs(g, W, q, m, t)
        BY <1>1 DEF FlowInv
      <3>2. FlowSame(g)
        BY <1>1, <2>2, OthersKeep
      <3>3. FlowIs(g, W, q, m, t)'
        BY <1>1, <3>1, <3>2, FlowQuiet
      <3> QED
        BY <3>1, <3>3 DEF KeepsFlow
    <2> QED
      BY <2>1, <2>2
  <1> QED
    BY <1>1 DEF FlowInv, KeepsFlow

(* The ofmap worker between its transfers. *)
LEMMA FlowIdle ==
    ASSUME OfmapType, PlaceInv, FlowInv,
           UNCHANGED <<work, queue, delivered, dropped, ctl, lost, jobs, jw, ring, fetched>>,
           TransferElse(rcv.flow), Got(rcv.flow) = 0,
           wk.pc # "signal", wk'.pc \notin InTransfer
    PROVE  FlowInv'
  <1>1. PICK f : f = rcv.flow
    OBVIOUS
  <1>2. /\ UNCHANGED <<work, queue, delivered, dropped, ctl, lost>>
        /\ KeepsWorking /\ OtherRingsSame(f) /\ ring'[f].guard = ring[f].guard
        /\ \A g \in Flows : g # f => fetched'[g] = fetched[g] /\ JobsFor(g)' = JobsFor(g)
        /\ TransferElse(f)
    BY <1>1 DEF KeepsWorking, OtherRingsSame, JobsFor
  <1>3. OthersSame(f)
    <2>1. WorkingElse(f)
      BY <1>2 DEF WorkingElse
    <2>2. \A g \in Flows : g # f => FlowElse(g)
      BY <1>2 DEF FlowElse, Decoded, JobsFor, LostFor
    <2> QED
      BY <1>2, <2>1, <2>2 DEF OthersSame
  <1>4. ASSUME f \in Flows PROVE KeepsFlow(f)
    <2>1. PICK W \in Nat, q \in Nat, t \in Nat, m \in 0 .. H - 1 : FlowIs(f, W, q, m, t)
      BY <1>4 DEF FlowInv
    <2>2. ReceiverOnly(f)
      BY <1>2 DEF ReceiverOnly
    <2>3. /\ LockIs(f, q, m)' /\ FramesAre(f, q)' /\ OrderIs(f, q)'
          /\ Held(f)' = Held(f) /\ LostFor(f)' = LostFor(f)
          /\ WorkersAt(f, "execute")' = WorkersAt(f, "execute")
      BY <1>4, <2>1, <2>2, ReceiverKeeps
    <2>4. Got(f) = 0 /\ Got(f)' = 0
      BY <1>1 DEF Got, Transferring, InTransfer
    <2>5. PointersAre(f, W, q, m, t)' /\ RowsAre(f, W, q, m)'
      <3>1. PointersSame(f) /\ RowsSame(f)
        BY <2>4 DEF PointersSame, RowsSame
      <3> QED
        BY <1>4, <2>1, <3>1, PointersQuiet, RowsQuiet DEF FlowIs
    <2>6. TransferIs(f, W, q, m, t)'
      BY DEF TransferIs, InTransfer
    <2>7. JobsAre(f, q, t)'
      <3>1. JobsSame(f)
        BY <2>3 DEF JobsSame, JobsFor, Signalling, InTransfer
      <3> QED
        BY <1>4, <2>1, <3>1, JobsQuiet DEF FlowIs
    <2> QED
      BY <2>1, <2>3, <2>5, <2>6, <2>7 DEF KeepsFlow, FlowIs
  <1> QED
    BY <1>3, <1>4, FlowsKeep

(* The ofmap worker on its way to a transfer. *)
LEMMA FlowBegin ==
    ASSUME OfmapType, PlaceInv, BeginRoom, FlowInv,
           WorkerTop \/ ScanFlow \/ TransferBegin \/ ReadNothing \/ GateStep
    PROVE  FlowInv'
  <1>1. /\ UNCHANGED <<work, queue, delivered, dropped, ctl, lost, jobs, jw, ring, fetched>>
        /\ wk.pc # "signal"
    BY DEF WorkerTop, ScanFlow, TransferBegin, ReadNothing, GateStep, WorkerGate, ofmapVars
  <1>2. rcv \in Transfers /\ Got(rcv.flow) \in Nat
    BY Typed DEF Transfers, Got
  <1>3. ASSUME PastFlow(rcv), rcv.flow \in Flows, Got(rcv.flow) = 0 PROVE FlowInv'
    <2>1. wk'.pc \in {"scan", "top"}
      BY <1>2, <1>3, PastFlowMoves
    <2>2. TransferElse(rcv.flow) /\ wk'.pc \notin InTransfer
      BY <2>1 DEF TransferElse, InTransfer
    <2> QED
      BY <1>1, <1>3, <2>2, FlowIdle
  <1>4. CASE WorkerTop
    <2>1. PICK pc \in {"gate", "exit"} : WorkerGoes(pc)
      BY <1>4 DEF WorkerTop
    <2>2. wk'.pc = pc
      BY <2>1, WorkerMoves DEF WorkerPCs
    <2>3. TransferElse(rcv.flow) /\ wk'.pc \notin InTransfer /\ Got(rcv.flow) = 0
      BY <1>4, <2>2 DEF WorkerTop, TransferElse, InTransfer, Got, Transferring
    <2> QED
      BY <1>1, <2>3, FlowIdle
  <1>5. CASE GateStep
    <2>1. wk.pc = "gate" /\ wk'.pc \in {"asleep", "scan"}
      BY <1>5, GateKeeps, Typed DEF GateStep
    <2>2. TransferElse(rcv.flow) /\ wk'.pc \notin InTransfer /\ Got(rcv.flow) = 0
      BY <2>1 DEF TransferElse, InTransfer, Got, Transferring
    <2> QED
      BY <1>1, <2>2, FlowIdle
  <1>6. CASE ReadNothing
    <2>1. PastFlow(rcv) /\ rcv.flow \in Flows /\ Got(rcv.flow) = 0
      BY <1>6 DEF ReadNothing, PlaceInv, AtFlow, Got
    <2> QED
      BY <1>3, <2>1
  <1>7. PICK f : f = rcv.flow
    OBVIOUS
  <1>8. ASSUME f \in Flows, wk.pc \in {"scan", "begin"}, wk'.pc \in {"begin", "read"},
               rcv'.flow = f, wk'.pc = "read" => rcv'.got = 0,
               NEW W \in Nat, NEW q \in Nat, NEW t \in Nat, NEW m \in 0 .. H - 1,
               FlowIs(f, W, q, m, t), TransferIs(f, W, q, m, t)'
        PROVE  FlowInv'
    <2>1. KeepsWorking /\ OtherRingsSame(f) /\ TransferElse(f)
      BY <1>1, <1>7, <1>8 DEF KeepsWorking, OtherRingsSame, TransferElse
    <2>2. ReceiverOnly(f)
      BY <1>1, <2>1 DEF ReceiverOnly, JobsFor
    <2>3. /\ LockIs(f, q, m)' /\ FramesAre(f, q)' /\ OrderIs(f, q)'
          /\ Held(f)' = Held(f) /\ LostFor(f)' = LostFor(f)
          /\ WorkersAt(f, "execute")' = WorkersAt(f, "execute")
          /\ OthersSame(f)
      BY <1>8, <2>2, ReceiverKeeps
    <2>4. Got(f) = 0 /\ Got(f)' = 0
      BY <1>8 DEF Got, Transferring
    <2>5. PointersAre(f, W, q, m, t)' /\ RowsAre(f, W, q, m)'
      <3>1. PointersSame(f) /\ RowsSame(f)
        BY <1>1, <2>4 DEF PointersSame, RowsSame
      <3> QED
        BY <1>8, <3>1, PointersQuiet, RowsQuiet DEF FlowIs
    <2>6. JobsAre(f, q, t)'
      <3>1. JobsSame(f)
        BY <1>1, <1>8, <2>3 DEF JobsSame, JobsFor, Signalling
      <3> QED
        BY <1>8, <3>1, JobsQuiet DEF FlowIs
    <2>7. KeepsFlow(f)
      BY <1>8, <2>3, <2>5, <2>6 DEF KeepsFlow, FlowIs
    <2> QED
      BY <2>3, <2>7, FlowsKeep
  <1>9. CASE ScanFlow
    <2>1. f \in Flows /\ wk.pc = "scan"
      BY <1>7, <1>9 DEF ScanFlow, PlaceInv, AtFlow
    <2>2. CASE Full(f)
      <3>1. PastFlow(rcv) /\ Got(rcv.flow) = 0
        BY <1>7, <1>9, <2>2 DEF ScanFlow, Got, Transferring
      <3> QED
        BY <1>3, <1>7, <2>1, <3>1
    <2>3. CASE ~Full(f)
      <3>1. WorkerGoes("begin") /\ UNCHANGED rcv /\ "begin" \in WorkerPCs
        BY <1>7, <1>9, <2>3 DEF ScanFlow, WorkerPCs
      <3>2. wk'.pc = "begin"
        BY <3>1, WorkerMoves
      <3>3. PICK W \in Nat, q \in Nat, t \in Nat, m \in 0 .. H - 1 : FlowIs(f, W, q, m, t)
        BY <2>1 DEF FlowInv
      <3>4. W < H * q + m + R - 1
        <4>1. PointersAre(f, W, q, m, t)
          BY <3>3 DEF FlowIs
        <4>2. H * q + m \in Nat /\ W # H * q + m + R - 1
          BY <2>1, <2>3, <4>1, FullIs
        <4>3. W <= H * q + m + R - 1 /\ R \in Nat
          BY <4>1, Sizes DEF PointersAre
        <4> QED
          BY <4>2, <4>3
      <3>5. TransferIs(f, W, q, m, t)'
        BY <3>2, <3>4 DEF TransferIs
      <3> QED
        BY <1>7, <1>8, <2>1, <3>1, <3>2, <3>3, <3>5
    <2> QED
      BY <2>2, <2>3
  <1>10. CASE TransferBegin
    <2>1. f \in Flows /\ wk.pc = "begin" /\ ~Full(f)
      BY <1>7, <1>10 DEF TransferBegin, PlaceInv, AtFlow, BeginRoom
    <2>2. PICK r \in 0 .. R - 1 : r = Room(f)
      BY <2>1, RoomBounds
    <2>3. WorkerGoes("read") /\ "read" \in WorkerPCs
          /\ rcv' = [rcv EXCEPT !.n = r, !.got = 0]
      BY <1>7, <1>10, <2>1, <2>2 DEF TransferBegin, WorkerPCs
    <2>4. wk'.pc = "read" /\ rcv'.flow = f /\ rcv'.got = 0 /\ rcv'.n = r
      BY <1>2, <1>7, <2>3, WorkerMoves DEF Transfers
    <2>5. PICK W \in Nat, q \in Nat, t \in Nat, m \in 0 .. H - 1 : FlowIs(f, W, q, m, t)
      BY <2>1 DEF FlowInv
    <2>6. PointersAre(f, W, q, m, t) /\ W < H * q + m + R - 1
      BY <1>7, <2>1, <2>5 DEF FlowIs, TransferIs
    <2>7. (W % R) + r <= R /\ W + r <= H * q + m + R - 1
      BY <2>1, <2>2, <2>6, RoomIs
    <2>8. TransferIs(f, W, q, m, t)'
      BY <2>4, <2>7 DEF TransferIs
    <2> QED
      BY <1>8, <2>1, <2>4, <2>5, <2>8
  <1> QED
    BY <1>4, <1>5, <1>6, <1>9, <1>10

(* So many parts are not more than were asked for. *)
Fits(g) == g <= rcv.n * P

(* What a read stores: the rows that are there stay, and the parts follow  *)
(* those that were stored.                                                 *)
LEMMA StoreKeeps ==
    ASSUME OfmapType, PlaceInv, wk.pc = "read", NEW f \in Flows, f = rcv.flow,
           NEW W \in Nat, NEW q \in Nat, NEW t \in Nat, NEW m \in 0 .. H - 1,
           FlowIs(f, W, q, m, t), NEW k \in Nat, Store(f, k),
           Fits(rcv.got + k)
    PROVE  RowsBe(ring'[f].data, W, q, m, rcv.got + k)
  <1>1. /\ R \in Nat /\ R > 1 /\ H \in Nat /\ H > 0 /\ P \in Nat /\ P > 0
    BY Sizes
  <1>2. PointersAre(f, W, q, m, t) /\ RowsAre(f, W, q, m) /\ TransferIs(f, W, q, m, t)
    BY DEF FlowIs
  <1>3. PICK a \in Nat : a = H * q + m /\ a <= W
    BY <1>2, FullIs DEF PointersAre
  <1>4. PICK w \in 0 .. R - 1 : w = W % R /\ ring[f].entry_w = w
    <2>1. 0 \in 0 .. R
      BY <1>1
    <2>2. W % R \in Rows
      BY <2>1, SlotAfter
    <2> QED
      BY <1>2, <2>2 DEF PointersAre, Rows
  <1>5. PICK g \in Nat, r \in Nat : g = rcv.got /\ r = rcv.n
    BY Typed DEF Transfers
  <1>6. /\ w + r <= R /\ W + r <= a + R - 1
        /\ g + k <= r * P
    BY <1>2, <1>3, <1>4, <1>5 DEF TransferIs, Fits
  <1>7. Got(f) = g /\ fetched[f] = P * W + g
    BY <1>2, <1>5 DEF Got, Transferring, PointersAre
  <1>8. /\ ring'[f].data \in [Rows -> Parts] /\ ring[f].data \in [Rows -> Parts]
        /\ \A i \in Rows : \A p \in 1 .. P : ring'[f].data[i][p] = Stored(f, k, i, p)
    BY PartsStored, Typed DEF Rings
  <1>9. ASSUME NEW n \in a .. W - 1 PROVE ring'[f].data[n % R] = Row(n)
    <2>1. n \in Nat /\ n < W
      BY <1>3
    <2>2. PICK i \in Rows : i = n % R
      <3>1. 0 \in 0 .. R
        BY <1>1
      <3> QED
        BY <2>1, <3>1, SlotAfter
    <2>3. ASSUME NEW p \in 1 .. P PROVE ring'[f].data[i][p] = ring[f].data[i][p]
      <3>1. PICK d \in Int : d = i - w
        <4>1. i \in Int /\ w \in Int
          BY <1>1 DEF Rows
        <4> QED
          BY <4>1
      <3>2. PICK j \in Int : j = d * P + p - 1
        BY <1>1
      <3>3. j \notin g .. g + k - 1
        <4>1. SUFFICES ASSUME j \in g .. g + k - 1 PROVE FALSE
          OBVIOUS
        <4>2. 0 <= d * P + p - 1 /\ d * P + p - 1 < r * P
          <5>1. PICK z \in Nat : z = r * P
            BY <1>1
          <5>2. 0 <= j /\ j < z
            BY <1>5, <1>6, <4>1, <5>1
          <5> QED
            BY <3>2, <5>1, <5>2
        <4>3. d \in 0 .. r - 1
          BY <4>2, RowOfPart
        <4>4. d \in 0 .. R /\ w + d < R /\ w + d = i
          BY <1>1, <1>4, <1>6, <2>2, <3>1, <4>3 DEF Rows
        <4>5. (W + d) % R = i
          BY <1>4, <4>4, SlotAfter
        <4>6. PICK b \in Nat : b = W + d
          BY <4>3
        <4>7. n < b /\ b < n + R
          BY <1>1, <1>3, <1>6, <2>1, <4>3, <4>6
        <4>8. n % R # b % R
          BY <2>1, <4>7, SlotsApart
        <4> QED
          BY <2>2, <4>5, <4>6, <4>8
      <3>4. Stored(f, k, i, p) = ring[f].data[i][p]
        BY <1>4, <1>5, <3>1, <3>2, <3>3 DEF Stored
      <3> QED
        BY <1>8, <3>4
    <2>4. ring'[f].data[i] = ring[f].data[i]
      <3>1. PICK x \in Parts, y \in Parts : x = ring'[f].data[i] /\ y = ring[f].data[i]
        BY <1>8
      <3>2. \A p \in 1 .. P : x[p] = y[p]
        BY <2>3, <3>1
      <3>3. x = [p \in 1 .. P |-> x[p]] /\ y = [p \in 1 .. P |-> y[p]]
        BY DEF Parts
      <3>4. x = y
        BY <3>2, <3>3
      <3> QED
        BY <3>1, <3>4
    <2>5. ring[f].data[n % R] = Row(n)
      BY <1>2, <1>3 DEF RowsAre, RowsBe
    <2> QED
      BY <2>2, <2>4, <2>5
  <1>10. ASSUME NEW j \in 0 .. g + k - 1
         PROVE  ring'[f].data[w + (j \div P)][(j % P) + 1] = P * W + j
    <2>1. j \in Nat
      BY <1>5
    <2>2. PICK d \in Nat, y \in 0 .. P - 1 :
            d = j \div P /\ y = j % P /\ j = P * d + y
      <3>1. /\ j \div P \in Nat /\ j % P \in 0 .. P - 1
            /\ j = P * (j \div P) + (j % P)
        BY <1>1, <2>1, DivMod
      <3> QED
        BY <3>1
    <2>3. d < r
      <3>1. PICK z \in Nat : z = r * P
        BY <1>1
      <3>2. j < z
        BY <1>5, <1>6, <2>1, <3>1
      <3> QED
        BY <2>1, <2>2, <3>1, <3>2, PartOfRow
    <2>4. PICK i \in Rows : i = w + d
      BY <1>1, <1>4, <1>6, <2>2, <2>3 DEF Rows
    <2>5. PICK p \in 1 .. P : p = y + 1
      BY <1>1, <2>2
    <2>6. (i - w) * P + p - 1 = j
      <3>1. i - w = d /\ p - 1 = y
        BY <1>1, <1>4, <2>2, <2>4, <2>5 DEF Rows
      <3>2. (i - w) * P = P * d
        BY <1>1, <2>2, <3>1
      <3>3. PICK z \in Nat : z = P * d /\ (i - w) * P = z
        BY <1>1, <2>2, <3>2
      <3> QED
        BY <1>1, <2>2, <2>5, <3>3
    <2>7. Stored(f, k, i, p) = IF j \in g .. g + k - 1 THEN fetched[f] + j - g
                               ELSE ring[f].data[i][p]
      BY <1>4, <1>5, <2>6 DEF Stored
    <2>8. CASE j \in g .. g + k - 1
      <3>1. PICK z \in Nat : z = P * W
        BY <1>1
      <3>2. Stored(f, k, i, p) = (z + g) + j - g
        BY <1>7, <2>7, <2>8, <3>1
      <3>3. Stored(f, k, i, p) = z + j
        BY <1>5, <2>1, <3>1, <3>2
      <3> QED
        BY <1>8, <2>2, <2>4, <2>5, <3>1, <3>3
    <2>9. CASE j \notin g .. g + k - 1
      <3>1. j \in 0 .. g - 1
        BY <1>5, <2>1, <2>9
      <3>2. ring[f].data[(W % R) + (j \div P)][(j % P) + 1] = P * W + j
        BY <1>2, <1>7, <3>1 DEF RowsAre, RowsBe
      <3>3. ring[f].data[i][p] = P * W + j
        BY <1>4, <2>2, <2>4, <2>5, <3>2
      <3> QED
        BY <1>8, <2>2, <2>4, <2>5, <2>7, <2>9, <3>3
    <2> QED
      BY <2>8, <2>9
  <1>11. PICK d : d = ring'[f].data
    OBVIOUS
  <1>12. (\A n \in a .. W - 1 : d[n % R] = Row(n))
    BY <1>9, <1>11
  <1>13. \A j \in 0 .. g + k - 1 : d[(W % R) + (j \div P)][(j % P) + 1] = P * W + j
    BY <1>4, <1>10, <1>11
  <1> QED
    BY <1>3, <1>5, <1>11, <1>12, <1>13 DEF RowsBe

(* A read, if nodes fit. *)
LEMMA FlowRead ==
    ASSUME NodesFit, OfmapType, PlaceInv, FlowInv, ReadParts, OfmapType', PlaceInv'
    PROVE  FlowInv'
  <1>1. PICK f \in Flows : f = rcv.flow
    BY DEF ReadParts, PlaceInv, AtFlow
  <1>2. PICK k \in 1 .. Asked :
          /\ Store(f, k)
          /\ WorkerGoes(IF Aligned(rcv.got + k) THEN "publish" ELSE "read")
    BY <1>1, FittingRead
  <1>3. wk.pc = "read" /\ UNCHANGED <<jobs, jw, pool, lost, ctl, queue, work, user, calls,
                                      dropped, delivered>>
    BY DEF ReadParts
  <1>4. wk'.pc \in {"read", "publish"}
    <2>1. PICK pc \in {"read", "publish"} : WorkerGoes(pc)
      BY <1>2
    <2> QED
      BY <2>1, WorkerMoves DEF WorkerPCs
  <1>5. P \in Nat /\ P > 0 /\ rcv.got \in Nat /\ rcv.n \in Nat
    BY Typed, Sizes DEF Transfers
  <1>6. k \in Nat
    <2>1. Asked \in Int
      <3>1. rcv.got % P \in 0 .. P - 1
        BY <1>5, PartOfRow
      <3> QED
        BY <1>5, <3>1 DEF Asked
    <2> QED
      BY <2>1
  <1>7. /\ OtherRingsSame(f)
        /\ ring'[f].entry_w = ring[f].entry_w
        /\ ring'[f].entry_r = ring[f].entry_r
        /\ ring'[f].entry_report_r = ring[f].entry_report_r
        /\ ring'[f].guard = ring[f].guard
        /\ fetched'[f] = fetched[f] + k
        /\ \A g \in Flows : g # f => fetched'[g] = fetched[g]
        /\ rcv'.flow = f /\ rcv'.n = rcv.n /\ rcv'.got = rcv.got + k
    BY <1>1, <1>2, <1>6, PartsStored
  <1>8. Fits(rcv.got + k)
    BY <1>7 DEF PlaceInv, Fits
  <1>9. PICK W \in Nat, q \in Nat, t \in Nat, m \in 0 .. H - 1 : FlowIs(f, W, q, m, t)
    BY DEF FlowInv
  <1>10. ReceiverOnly(f)
    <2>1. KeepsWorking /\ TransferElse(f)
      BY <1>1, <1>3, <1>7 DEF KeepsWorking, TransferElse
    <2> QED
      BY <1>3, <1>7, <2>1 DEF ReceiverOnly, JobsFor
  <1>11. /\ LockIs(f, q, m)' /\ FramesAre(f, q)' /\ OrderIs(f, q)'
         /\ Held(f)' = Held(f) /\ LostFor(f)' = LostFor(f)
         /\ WorkersAt(f, "execute")' = WorkersAt(f, "execute")
         /\ OthersSame(f)
    BY <1>9, <1>10, ReceiverKeeps
  <1>12. Got(f) = rcv.got /\ Got(f)' = rcv.got + k
    BY <1>1, <1>3, <1>4, <1>7 DEF Got, Transferring
  <1>13. PointersAre(f, W, q, m, t)'
    <2>1. PointersAre(f, W, q, m, t)
      BY <1>9 DEF FlowIs
    <2>2. fetched[f] = P * W + rcv.got
      BY <1>12, <2>1 DEF PointersAre
    <2>3. fetched[f] + k = P * W + (rcv.got + k)
      <3>1. PICK z \in Nat : z = P * W
        BY <1>5
      <3> QED
        BY <1>5, <1>6, <2>2, <3>1
    <2> QED
      BY <1>7, <1>12, <2>1, <2>3 DEF PointersAre
  <1>14. RowsAre(f, W, q, m)'
    <2>1. Store(f, k)
      BY <1>1, <1>2
    <2>2. RowsBe(ring'[f].data, W, q, m, rcv.got + k)
      BY <1>1, <1>3, <1>6, <1>8, <1>9, <2>1, StoreKeeps
    <2> QED
      BY <1>12, <2>2 DEF RowsAre
  <1>15. TransferIs(f, W, q, m, t)'
    <2>1. TransferIs(f, W, q, m, t)
      BY <1>9 DEF FlowIs
    <2>2. (W % R) + rcv.n <= R /\ W + rcv.n <= H * q + m + R - 1
      BY <1>1, <1>3, <2>1 DEF TransferIs
    <2> QED
      BY <1>4, <1>7, <2>2 DEF TransferIs
  <1>16. JobsAre(f, q, t)'
    <2>1. JobsSame(f)
      BY <1>3, <1>4, <1>11 DEF JobsSame, JobsFor, Signalling
    <2> QED
      BY <1>9, <2>1, JobsQuiet DEF FlowIs
  <1>17. KeepsFlow(f)
    BY <1>9, <1>11, <1>13, <1>14, <1>15, <1>16 DEF KeepsFlow, FlowIs
  <1> QED
    BY <1>11, <1>17, FlowsKeep

(* Whole rows that are stored are rows of the ring once they are published. *)
LEMMA PublishRows ==
    ASSUME NEW x \in [Rows -> Parts], NEW W \in Nat, NEW q \in Nat, NEW m \in 0 .. H - 1,
           NEW d \in Nat, (W % R) + d <= R, RowsBe(x, W, q, m, P * d)
    PROVE  RowsBe(x, W + d, q, m, 0)
  <1>1. /\ R \in Nat /\ R > 1 /\ H \in Nat /\ H > 0 /\ P \in Nat /\ P > 0
    BY Sizes
  <1>2. PICK a \in Nat : a = H * q + m
    BY <1>1
  <1>3. PICK w \in 0 .. R - 1 : w = W % R
    <2>1. 0 \in 0 .. R
      BY <1>1
    <2> QED
      BY <2>1, SlotAfter DEF Rows
  <1>4. ASSUME NEW n \in a .. W + d - 1 PROVE x[n % R] = Row(n)
    <2>1. n \in Nat
      BY <1>2
    <2>2. CASE n < W
      BY <1>2, <2>1, <2>2 DEF RowsBe
    <2>3. CASE n >= W
      <3>1. PICK e \in 0 .. d - 1 : e = n - W /\ n = W + e
        BY <2>1, <2>3, <1>4
      <3>2. w + e \in Rows /\ n % R = w + e
        <4>1. e \in 0 .. R /\ w + e < R
          BY <1>1, <1>3, <3>1
        <4>2. (W + e) % R = w + e
          BY <1>3, <4>1, SlotAfter
        <4>3. w + e \in Rows
          BY <1>1, <1>3, <3>1, <4>1 DEF Rows
        <4> QED
          BY <3>1, <4>2, <4>3
      <3>3. ASSUME NEW p \in 1 .. P PROVE x[w + e][p] = n * P + p - 1
        <4>1. PICK z \in Nat, y \in Nat : z = e * P /\ y = P * d /\ z + P <= y
          <5>1. e + 1 <= d /\ e \in Nat
            BY <3>1
          <5>2. (e + 1) * P <= d * P
            BY <1>1, <5>1
          <5>3. (e + 1) * P = e * P + P /\ d * P = P * d
            BY <1>1, <5>1
          <5> QED
            BY <1>1, <5>1, <5>2, <5>3
        <4>2. PICK j \in 0 .. y - 1 : j = z + p - 1
          BY <1>1, <4>1
        <4>3. j \div P = e /\ (j % P) + 1 = p
          <5>1. PICK v \in Nat : v = d * P /\ v = y
            BY <1>1, <4>1
          <5>2. 0 <= e * P + p - 1 /\ e * P + p - 1 < d * P
            BY <1>1, <4>1, <4>2, <5>1
          <5>3. e \in Int
            BY <3>1
          <5>4. (e * P + p - 1) \div P = e /\ ((e * P + p - 1) % P) + 1 = p
            BY <5>2, <5>3, RowOfPart
          <5> QED
            BY <4>1, <4>2, <5>4
        <4>4. x[w + e][p] = P * W + j
          BY <1>3, <4>1, <4>2, <4>3 DEF RowsBe
        <4>5. P * W + j = n * P + p - 1
          <5>1. PICK u \in Nat : u = P * W /\ n * P = u + z
            <6>1. n * P = W * P + e * P
              BY <1>1, <3>1
            <6> QED
              BY <1>1, <4>1, <6>1
          <5> QED
            BY <4>1, <4>2, <5>1
        <4> QED
          BY <4>4, <4>5
      <3>4. x[w + e] = Row(n)
        <4>1. PICK y \in Parts : y = x[w + e]
          BY <3>2
        <4>2. \A p \in 1 .. P : y[p] = n * P + p - 1
          BY <3>3, <4>1
        <4>3. y = [p \in 1 .. P |-> y[p]]
          BY DEF Parts
        <4> QED
          BY <4>1, <4>2, <4>3 DEF Row
      <3> QED
        BY <3>2, <3>4
    <2> QED
      BY <1>1, <2>1, <2>2, <2>3
  <1>5. \A n \in H * q + m .. (W + d) - 1 : x[n % R] = Row(n)
    BY <1>2, <1>4
  <1> QED
    BY <1>5 DEF RowsBe

(* Publishing. *)
LEMMA FlowPublish ==
    ASSUME OfmapType, PlaceInv, FlowInv, Publish
    PROVE  FlowInv'
  <1>1. PICK f \in Flows : f = rcv.flow
    BY DEF Publish, PlaceInv, AtFlow
  <1>2. /\ R \in Nat /\ R > 1 /\ H \in Nat /\ H > 0 /\ P \in Nat /\ P > 0
    BY Sizes
  <1>3. PICK g \in Nat, r \in Nat : g = rcv.got /\ r = rcv.n /\ g % P = 0 /\ g <= r * P
    <2>1. rcv.got \in Nat /\ rcv.n \in Nat
      BY Typed DEF Transfers
    <2> QED
      BY <2>1 DEF Publish, PlaceInv
  <1>4. PICK d \in Nat : d = g \div P /\ g = P * d /\ d <= r
    <2>1. /\ g \div P \in Nat /\ g = P * (g \div P) + (g % P)
          /\ g \div P <= r
      BY <1>3, PartOfRow
    <2>2. PICK e \in Nat : e = g \div P /\ g = P * e + (g % P) /\ e <= r
      BY <2>1
    <2>3. g = P * e
      BY <1>2, <1>3, <2>2
    <2> QED
      BY <2>2, <2>3
  <1>5. PICK W \in Nat, q \in Nat, t \in Nat, m \in 0 .. H - 1 : FlowIs(f, W, q, m, t)
    BY DEF FlowInv
  <1>6. PointersAre(f, W, q, m, t) /\ RowsAre(f, W, q, m) /\ TransferIs(f, W, q, m, t)
        /\ LockIs(f, q, m) /\ JobsAre(f, q, t)
    BY <1>5 DEF FlowIs
  <1>7. PICK a \in Nat, b \in Nat : a = H * q + m /\ b = H * t /\ a <= W /\ b <= W /\ a <= b
    <2>1. ctl.pc # "gone" /\ Signalling(f) = 0
      BY DEF PlaceInv, Publish, Signalling
    <2>2. t + Signalling(f) = t
      BY <2>1
    <2>3. H * q + m <= H * (t + Signalling(f))
      BY <1>6, <2>1, DecodedWereTold
    <2>4. H * q + m <= H * t
      BY <2>2, <2>3
    <2>5. H * q + m \in Nat /\ H * t \in Nat
      BY <1>2
    <2> QED
      BY <1>6, <2>4, <2>5 DEF PointersAre
  <1>8. /\ (W % R) + d <= R /\ d \in 0 .. R /\ W + d <= a + R - 1
        /\ W % R \in Rows
    <2>1. (W % R) + r <= R /\ W + r <= a + R - 1
      BY <1>1, <1>3, <1>6, <1>7 DEF TransferIs, Publish
    <2>2. 0 \in 0 .. R
      BY <1>2
    <2>3. W % R \in 0 .. R - 1
      BY <2>2, SlotAfter DEF Rows
    <2> QED
      BY <1>2, <1>4, <2>1, <2>3 DEF Rows
  <1>9. PICK w \in Rows : w = (W + d) % R /\ w = (ring[f].entry_w + rcv.got \div P) % R
    <2>1. (W + d) % R \in Rows
      <3>1. W + d \in Nat /\ 0 \in 0 .. R
        BY <1>2, <1>4
      <3> QED
        BY <3>1, SlotAfter
    <2>2. ((W % R) + d) % R = (W + d) % R
      BY <1>8, SlotAfter
    <2> QED
      BY <1>3, <1>4, <1>6, <2>1, <2>2 DEF PointersAre
  <1>10. /\ ring' = [ring EXCEPT ![f].entry_w = w]
         /\ IF NewFrames(f, w) = 0 THEN PastFlow(rcv)
            ELSE /\ rcv' = [rcv EXCEPT !.frames = NewFrames(f, w)]
                 /\ WorkerGoes("report")
         /\ wk.pc = "publish"
         /\ UNCHANGED <<jobs, jw, pool, lost, ctl, queue, work, user, calls, fetched,
                        dropped, delivered>>
    BY <1>1, <1>9 DEF Publish
  <1>11. /\ OtherRingsSame(f)
         /\ ring'[f].entry_w = w
         /\ ring'[f].entry_r = ring[f].entry_r
         /\ ring'[f].entry_report_r = ring[f].entry_report_r
         /\ ring'[f].data = ring[f].data
         /\ ring'[f].guard = ring[f].guard
    BY <1>10, EntryMoved
  <1>12. PICK N \in Nat : N = NewFrames(f, w) /\ b + H * N <= W + d
    <2>1. PICK u \in Nat : u = W + d - b
      BY <1>4, <1>7
    <2>2. RowsFromTo(b % R, (W + d) % R) = u
      <3>1. W + d \in Nat /\ b <= W + d /\ W + d < b + R
        BY <1>2, <1>4, <1>7, <1>8
      <3> QED
        BY <2>1, <3>1, SlotsApart
    <2>3. NewFrames(f, w) = u \div H
      BY <1>6, <1>7, <1>9, <2>2 DEF NewFrames, PointersAre
    <2>4. u % H \in 0 .. H - 1 /\ u \div H \in Nat /\ u = H * (u \div H) + (u % H)
      BY <1>2, <2>1, DivMod
    <2>5. PICK N \in Nat, s \in Nat : N = u \div H /\ s = u % H /\ u = H * N + s
      BY <1>2, <2>4
    <2>6. PICK v \in Nat : v = H * N
      BY <1>2
    <2>7. b + v <= W + d
      BY <1>4, <1>7, <2>1, <2>5, <2>6
    <2> QED
      BY <2>3, <2>5, <2>6, <2>7
  <1>13. \/ wk'.pc \in {"scan", "top"}
         \/ wk'.pc = "report" /\ rcv'.flow = f /\ rcv'.frames = N /\ N >= 1
    <2>1. CASE N = 0
      <3>1. PastFlow(rcv) /\ rcv \in Transfers /\ rcv.flow \in Flows
        BY <1>1, <1>10, <1>12, <2>1, Typed
      <3> QED
        BY <3>1, PastFlowMoves
    <2>2. CASE N # 0
      <3>1. rcv' = [rcv EXCEPT !.frames = N] /\ WorkerGoes("report") /\ "report" \in WorkerPCs
        BY <1>10, <1>12, <2>2 DEF WorkerPCs
      <3>2. wk'.pc = "report" /\ rcv \in Transfers
        BY <3>1, WorkerMoves, Typed
      <3> QED
        BY <1>1, <2>2, <3>1, <3>2 DEF Transfers
    <2> QED
      BY <2>1, <2>2
  <1>14. ReceiverOnly(f)
    <2>1. KeepsWorking /\ TransferElse(f)
      BY <1>1, <1>10, <1>13 DEF KeepsWorking, TransferElse, InTransfer
    <2> QED
      BY <1>10, <1>11, <2>1 DEF ReceiverOnly, JobsFor
  <1>15. /\ LockIs(f, q, m)' /\ FramesAre(f, q)' /\ OrderIs(f, q)'
         /\ Held(f)' = Held(f) /\ LostFor(f)' = LostFor(f)
         /\ WorkersAt(f, "execute")' = WorkersAt(f, "execute")
         /\ OthersSame(f)
    BY <1>5, <1>14, ReceiverKeeps
  <1>16. Got(f) = g /\ Got(f)' = 0
    BY <1>1, <1>3, <1>10, <1>13 DEF Got, Transferring
  <1>17. PICK V \in Nat : V = W + d
    BY <1>4
  <1>18. PointersAre(f, V, q, m, t)'
    <2>1. fetched[f] = P * W + g
      BY <1>6, <1>16 DEF PointersAre
    <2>2. P * W + g = P * V + 0
      <3>1. P * V = P * W + P * d
        BY <1>2, <1>4, <1>17
      <3>2. PICK z \in Nat, y \in Nat : z = P * W /\ y = P * d
        BY <1>2, <1>4
      <3> QED
        BY <1>4, <3>1, <3>2
    <2>3. a <= V /\ V <= a + R - 1 /\ b <= V
      BY <1>2, <1>4, <1>7, <1>8, <1>17
    <2>4. ring'[f].entry_w = V % R
      BY <1>9, <1>11, <1>17
    <2> QED
      BY <1>6, <1>7, <1>10, <1>11, <1>16, <2>1, <2>2, <2>3, <2>4 DEF PointersAre
  <1>19. RowsAre(f, V, q, m)'
    <2>1. PICK x \in [Rows -> Parts] : x = ring[f].data
      BY Typed DEF Rings
    <2>2. RowsBe(x, W, q, m, P * d)
      BY <1>4, <1>6, <1>16, <2>1 DEF RowsAre
    <2>3. RowsBe(x, W + d, q, m, 0)
      BY <1>8, <2>2, PublishRows
    <2> QED
      BY <1>11, <1>16, <1>17, <2>1, <2>3 DEF RowsAre
  <1>20. TransferIs(f, V, q, m, t)'
    <2>1. wk'.pc = "report" => rcv'.frames >= 1 /\ H * (t + rcv'.frames) <= V
      <3>1. SUFFICES ASSUME wk'.pc = "report" PROVE rcv'.frames >= 1 /\ H * (t + rcv'.frames) <= V
        OBVIOUS
      <3>2. rcv'.frames = N /\ N >= 1
        BY <1>13, <3>1
      <3>3. H * (t + N) = b + H * N
        BY <1>2, <1>7
      <3> QED
        BY <1>12, <1>17, <3>2, <3>3
    <2> QED
      BY <1>13, <2>1 DEF TransferIs
  <1>21. JobsAre(f, q, t)'
    <2>1. JobsSame(f)
      BY <1>10, <1>13, <1>15 DEF JobsSame, JobsFor, Signalling
    <2> QED
      BY <1>6, <2>1, JobsQuiet
  <1>22. KeepsFlow(f)
    BY <1>15, <1>18, <1>19, <1>20, <1>21 DEF KeepsFlow, FlowIs
  <1> QED
    BY <1>15, <1>22, FlowsKeep

(* The job of a frame. *)
LEMMA FlowJob ==
    ASSUME OfmapType, PlaceInv, FlowInv, ReportJob
    PROVE  FlowInv'
  <1>1. PICK f \in Flows : f = rcv.flow
    BY DEF ReportJob, PlaceInv, AtFlow
  <1>2. /\ wk.pc = "report" /\ jobs' = Append(jobs, f)
        /\ UNCHANGED <<jw, pool, lost, ctl, ring, queue, work, rcv, user, calls,
                       fetched, dropped, delivered>>
    BY <1>1 DEF ReportJob
  <1>3. wk'.pc = "signal"
    <2>1. WorkerGoes("signal") /\ "signal" \in WorkerPCs
      BY DEF ReportJob, WorkerPCs
    <2> QED
      BY <2>1, WorkerMoves
  <1>4. PICK W \in Nat, q \in Nat, t \in Nat, m \in 0 .. H - 1 : FlowIs(f, W, q, m, t)
    BY DEF FlowInv
  <1>5. JobsFor(f)' = JobsFor(f) + 1 /\ \A g \in Flows : g # f => JobsFor(g)' = JobsFor(g)
    <2>1. jobs \in Seq(Flows)
      BY Typed DEF WorkersType
    <2>2. Times(jobs', f) = Times(jobs, f) + 1
      BY <1>2, <2>1, CountAppended
    <2>3. \A g \in Flows : g # f => Times(jobs', g) = Times(jobs, g)
      BY <1>2, <2>1, CountAppended
    <2> QED
      BY <2>2, <2>3 DEF Times, JobsFor
  <1>6. ReceiverOnly(f)
    <2>1. KeepsWorking /\ TransferElse(f) /\ OtherRingsSame(f)
      BY <1>1, <1>2, <1>3 DEF KeepsWorking, TransferElse, OtherRingsSame
    <2> QED
      BY <1>2, <1>5, <2>1 DEF ReceiverOnly
  <1>7. /\ LockIs(f, q, m)' /\ FramesAre(f, q)' /\ OrderIs(f, q)'
        /\ Held(f)' = Held(f) /\ LostFor(f)' = LostFor(f)
        /\ WorkersAt(f, "execute")' = WorkersAt(f, "execute")
        /\ OthersSame(f)
    BY <1>4, <1>6, ReceiverKeeps
  <1>8. PointersAre(f, W, q, m, t)' /\ RowsAre(f, W, q, m)'
    <2>1. PointersSame(f) /\ RowsSame(f)
      BY <1>2, <1>3 DEF PointersSame, RowsSame, Got, Transferring
    <2> QED
      BY <1>4, <2>1, PointersQuiet, RowsQuiet DEF FlowIs
  <1>9. TransferIs(f, W, q, m, t)'
    BY <1>2, <1>3, <1>4 DEF FlowIs, TransferIs
  <1>10. JobsAre(f, q, t)'
    <2>1. JobsAre(f, q, t) /\ Signalling(f) = 0 /\ Signalling(f)' = 1
      BY <1>1, <1>2, <1>3, <1>4 DEF FlowIs, Signalling
    <2>2. /\ JobsFor(f) \in Nat /\ LostFor(f) \in Nat /\ WorkersAt(f, "execute") \in Nat
          /\ Held(f) \in Nat
      BY CountsTyped DEF Held
    <2>3. ctl.pc # "gone" /\ ctl'.pc = ctl.pc
      BY <1>2 DEF PlaceInv
    <2>4. t + 0 = q + JobsFor(f) + LostFor(f) + WorkersAt(f, "execute") + Held(f)
      BY <2>1, <2>3 DEF JobsAre
    <2>5. t + 1 = q + (JobsFor(f) + 1) + LostFor(f) + WorkersAt(f, "execute") + Held(f)
      BY <2>2, <2>4
    <2> QED
      BY <1>5, <1>7, <2>1, <2>5 DEF JobsAre
  <1>11. KeepsFlow(f)
    BY <1>4, <1>7, <1>8, <1>9, <1>10 DEF KeepsFlow, FlowIs
  <1> QED
    BY <1>7, <1>11, FlowsKeep

(* The count of a frame and its signal. *)
LEMMA FlowReport ==
    ASSUME OfmapType, PlaceInv, FlowInv, Report
    PROVE  FlowInv'
  <1>1. PICK f \in Flows : f = rcv.flow
    BY DEF Report, PlaceInv, AtFlow
  <1>2. PICK r \in Nat, s \in Nat :
          /\ r = ring[f].entry_report_r + H /\ s = IF r = R THEN 0 ELSE r
          /\ wk.pc = "signal" /\ SignalEnqueue
          /\ ring' = [ring EXCEPT ![f].entry_report_r = s]
          /\ IF rcv.frames > 1
               THEN WorkerGoes("report") /\ rcv' = [rcv EXCEPT !.frames = @ - 1]
               ELSE PastFlow(rcv)
          /\ UNCHANGED <<jobs, pool, lost, ctl, queue, work, user, calls, fetched,
                         dropped, delivered>>
    <2>1. PICK r \in Nat : r = ring[f].entry_report_r + H
      BY Typed, Sizes DEF Rings
    <2>2. PICK s \in Nat : s = IF r = R THEN 0 ELSE r
      OBVIOUS
    <2> QED
      BY <1>1, <2>1, <2>2 DEF Report
  <1>3. /\ R \in Nat /\ R > 1 /\ H \in Nat /\ H > 0
    BY Sizes
  <1>4. PICK W \in Nat, q \in Nat, t \in Nat, m \in 0 .. H - 1 : FlowIs(f, W, q, m, t)
    BY DEF FlowInv
  <1>5. PICK N \in Nat : N = rcv.frames /\ N >= 1 /\ H * (t + N) <= W
    <2>1. rcv.frames >= 1 /\ H * (t + rcv.frames) <= W
      BY <1>1, <1>2, <1>4 DEF FlowIs, TransferIs
    <2>2. rcv.frames \in Int
      BY Typed DEF Transfers
    <2> QED
      BY <2>1, <2>2
  <1>6. /\ OtherRingsSame(f)
        /\ ring'[f].entry_w = ring[f].entry_w
        /\ ring'[f].entry_r = ring[f].entry_r
        /\ ring'[f].entry_report_r = s
        /\ ring'[f].data = ring[f].data
        /\ ring'[f].guard = ring[f].guard
    BY <1>2, ReportMoved
  <1>7. \/ wk'.pc \in {"scan", "top"}
        \/ wk'.pc = "report" /\ rcv'.flow = f /\ rcv'.frames = N - 1 /\ N > 1
    <2>1. CASE N > 1
      <3>1. rcv' = [rcv EXCEPT !.frames = @ - 1] /\ WorkerGoes("report") /\ "report" \in WorkerPCs
        BY <1>2, <1>5, <2>1 DEF WorkerPCs
      <3>2. wk'.pc = "report" /\ rcv \in Transfers
        BY <3>1, WorkerMoves, Typed
      <3> QED
        BY <1>1, <1>5, <2>1, <3>1, <3>2 DEF Transfers
    <2>2. CASE ~(N > 1)
      <3>1. PastFlow(rcv) /\ rcv \in Transfers /\ rcv.flow \in Flows
        BY <1>1, <1>2, <1>5, <2>2, Typed
      <3> QED
        BY <3>1, PastFlowMoves
    <2> QED
      BY <2>1, <2>2
  <1>8. ReceiverOnly(f)
    <2>1. TransferElse(f)
      BY <1>1, <1>2, <1>7 DEF TransferElse, InTransfer
    <2>2. KeepsWorking
      BY <1>2, WakeTyped, Typed DEF KeepsWorking, Resting
    <2> QED
      BY <1>2, <1>6, <2>1, <2>2 DEF ReceiverOnly, JobsFor
  <1>9. /\ LockIs(f, q, m)' /\ FramesAre(f, q)' /\ OrderIs(f, q)'
        /\ Held(f)' = Held(f) /\ LostFor(f)' = LostFor(f)
        /\ WorkersAt(f, "execute")' = WorkersAt(f, "execute")
        /\ OthersSame(f)
    BY <1>4, <1>8, ReceiverKeeps
  <1>10. PICK T \in Nat : T = t + 1
    OBVIOUS
  <1>11. Got(f) = 0 /\ Got(f)' = 0
    BY <1>2, <1>7 DEF Got, Transferring
  <1>12. PointersAre(f, W, q, m, T)'
    <2>1. PointersAre(f, W, q, m, t)
      BY <1>4 DEF FlowIs
    <2>2. s = (H * T) % R
      <3>1. (H * (t + 1)) % R = IF ((H * t) % R) + H = R THEN 0 ELSE ((H * t) % R) + H
        BY FrameSlot
      <3>2. ring[f].entry_report_r = (H * t) % R
        BY <2>1 DEF PointersAre
      <3> QED
        BY <1>2, <1>10, <3>1, <3>2
    <2>3. H * T <= W
      <3>1. H * (t + 1) <= H * (t + N) /\ H * (t + 1) \in Nat /\ H * (t + N) \in Nat
        <4>1. t + 1 <= t + N /\ t + 1 \in Nat /\ t + N \in Nat
          BY <1>5
        <4> QED
          BY <4>1, FramesGrow
      <3>2. PICK x \in Nat, y \in Nat : x = H * T /\ y = H * (t + N) /\ x <= y
        BY <1>10, <3>1
      <3> QED
        BY <1>5, <3>2
    <2> QED
      BY <1>2, <1>6, <1>11, <2>1, <2>2, <2>3 DEF PointersAre
  <1>13. RowsAre(f, W, q, m)'
    <2>1. RowsSame(f)
      BY <1>6, <1>11 DEF RowsSame
    <2> QED
      BY <1>4, <2>1, RowsQuiet DEF FlowIs
  <1>14. TransferIs(f, W, q, m, T)'
    <2>1. wk'.pc = "report" => rcv'.frames >= 1 /\ H * (T + rcv'.frames) <= W
      <3>1. SUFFICES ASSUME wk'.pc = "report" PROVE rcv'.frames >= 1 /\ H * (T + rcv'.frames) <= W
        OBVIOUS
      <3>2. rcv'.frames = N - 1 /\ N > 1
        BY <1>7, <3>1
      <3>3. T + (N - 1) = t + N
        BY <1>5, <1>10
      <3>4. N - 1 >= 1
        BY <1>5, <3>2
      <3> QED
        BY <1>5, <3>2, <3>3, <3>4
    <2> QED
      BY <1>7, <2>1 DEF TransferIs
  <1>15. JobsAre(f, q, T)'
    <2>1. JobsAre(f, q, t) /\ Signalling(f) = 1 /\ Signalling(f)' = 0 /\ JobsFor(f)' = JobsFor(f)
      BY <1>1, <1>2, <1>4, <1>7 DEF FlowIs, Signalling, JobsFor
    <2>2. ctl.pc # "gone" /\ ctl'.pc = ctl.pc
      BY <1>2 DEF PlaceInv
    <2>3. t + 1 = q + JobsFor(f) + LostFor(f) + WorkersAt(f, "execute") + Held(f)
      BY <2>1, <2>2 DEF JobsAre
    <2>4. T + 0 = t + 1
      BY <1>10
    <2> QED
      BY <1>9, <2>1, <2>3, <2>4 DEF JobsAre
  <1>16. KeepsFlow(f)
    BY <1>4, <1>9, <1>10, <1>12, <1>13, <1>14, <1>15 DEF KeepsFlow, FlowIs
  <1> QED
    BY <1>9, <1>16, FlowsKeep

-----------------------------------------------------------------------------
(* Control. *)

(* A step of control, or a spurious wake-up, takes no job worker out of a  *)
(* job, and leaves the jobs alone.                                         *)
LEMMA ControlStepKeeps ==
    ASSUME OfmapType, ControlStep
    PROVE  /\ KeepsWorking /\ KeepsMoving /\ UNCHANGED <<jobs, lost>> /\ UNCHANGED ofmapVars
           /\ ctl'.pc = "gone" <=> ctl.pc = "gone"
           /\ ctl.grown => ctl'.grown
  <1>1. WorkersType(Flows) /\ 0 \in Flows /\ UNCHANGED ofmapVars
    BY Sizes DEF OfmapType, ControlStep
  <1>2. CASE SpuriousWakeup
    BY <1>1, <1>2, WakeupKeeps, ControlMarks
  <1>3. CASE Control(TRUE)
    BY <1>1, <1>3, ControlKeeps, ControlMarks
  <1>4. CASE Request
    BY <1>1, <1>4, RequestKeeps, ControlMarks
  <1>5. CASE DestroyDisable
    <2>1. KeepsWorking /\ KeepsMoving
      BY <1>1, <1>5, ControlKeeps
    <2>2. /\ ctl'.pc # "gone" /\ ctl.pc # "gone" /\ ctl'.grown = ctl.grown
          /\ UNCHANGED <<jobs, lost>>
      BY <1>1, <1>5, ControlMarks
    <2> QED
      BY <1>1, <2>1, <2>2
  <1> QED
    BY <1>2, <1>3, <1>4, <1>5 DEF ControlStep

(* The steps of a job worker in a frame. *)
LEMMA DecodersHands ==
    ASSUME OfmapType, EmptyHanded, NEW e \in JobWorkers,
           DecodeLock(e) \/ DecodeRow(e) \/ DecodePoll(e) \/ DecodePush(e)
    PROVE  EmptyHanded'
  <1>1. PICK pc \in JobPCs : JobWorkerGoes(e, pc) /\ (pc = "rest" => work'[e] = <<>>)
                             /\ (pc \in Carrying \cup {"rest"})
    <2>1. {"row", "full", "push", "rest"} \subseteq JobPCs
      BY DEF JobPCs
    <2>2. CASE DecodeLock(e)
      BY <2>1, <2>2 DEF DecodeLock, Carrying
    <2>3. CASE DecodeRow(e)
      BY <2>1, <2>3 DEF DecodeRow, Carrying
    <2>4. CASE DecodePoll(e)
      <3>1. work \in [JobWorkers -> Seq(Parts)]
        BY DEF OfmapType
      <3> QED
        BY <2>1, <2>4, <3>1 DEF DecodePoll, Carrying
    <2>5. CASE DecodePush(e)
      <3>1. work \in [JobWorkers -> Seq(Parts)]
        BY DEF OfmapType
      <3> QED
        BY <2>1, <2>5, <3>1 DEF DecodePush, Carrying
    <2> QED
      BY <2>2, <2>3, <2>4, <2>5
  <1>2. \A d \in JobWorkers : jw'[d].pc = IF d = e THEN pc ELSE jw[d].pc
    BY <1>1, JobWorkerMoves, Typed DEF WorkersType
  <1>3. \A d \in JobWorkers : d # e => work'[d] = work[d]
    <2>1. work \in [JobWorkers -> Seq(Parts)]
      BY DEF OfmapType
    <2>2. CASE DecodeRow(e)
      BY <2>1, <2>2 DEF DecodeRow
    <2>3. CASE DecodeLock(e) \/ DecodePoll(e) \/ DecodePush(e)
      BY <2>1, <2>3 DEF DecodeLock, DecodePoll, DecodePush
    <2> QED
      BY <2>2, <2>3
  <1> QED
    BY <1>1, <1>2, <1>3 DEF EmptyHanded

(* Every step keeps it. *)
LEMMA HandsSteps ==
    ASSUME OfmapType, EmptyHanded, [Next]_vars
    PROVE  EmptyHanded'
  <1>1. ASSUME UNCHANGED work,
               \A e \in JobWorkers : jw'[e].pc = jw[e].pc \/ jw[e].pc \notin Carrying
        PROVE  EmptyHanded'
    BY <1>1 DEF EmptyHanded
  <1>2. ASSUME UNCHANGED work, KeepsWorking PROVE EmptyHanded'
    BY <1>1, <1>2 DEF KeepsWorking, Resting, Carrying
  <1>3. CASE UNCHANGED vars
    BY <1>1, <1>3 DEF vars, sharedVars
  <1>4. ASSUME NEW u \in Readers,
               (\E f \in Flows : ReadCall(u, f)) \/ ReadPoll(u) \/ ReadPop(u)
        PROVE  EmptyHanded'
    BY <1>1, <1>4 DEF ReadCall, ReadPoll, ReadPop, sharedVars
  <1>5. ASSUME NEW e \in JobWorkers, LoopStep(e) PROVE EmptyHanded'
    <2>1. /\ KeepsWorking \/ JobWorkerPop(e)
          /\ \A d \in JobWorkers : d # e => jw'[d] = jw[d]
          /\ UNCHANGED work
      BY <1>5, LoopKeeps, Typed DEF LoopStep, ofmapVars
    <2>2. CASE JobWorkerPop(e)
      BY <1>1, <2>1, <2>2 DEF JobWorkerPop, Carrying
    <2> QED
      BY <1>2, <2>1, <2>2
  <1>6. ASSUME NEW e \in JobWorkers,
               DecodeLock(e) \/ DecodeRow(e) \/ DecodePoll(e) \/ DecodePush(e)
        PROVE  EmptyHanded'
    BY <1>6, DecodersHands
  <1>7. CASE \/ WorkerTop \/ ScanFlow \/ TransferBegin \/ ReadParts \/ ReadNothing
             \/ Publish \/ ReportJob \/ GateStep
    <2>1. UNCHANGED <<jw, work>>
      BY <1>7 DEF WorkerTop, ScanFlow, TransferBegin, ReadParts, ReadNothing, Publish,
                  ReportJob, GateStep, WorkerGate, ofmapVars
    <2> QED
      BY <1>1, <2>1
  <1>8. CASE Report
    <2>1. UNCHANGED work /\ KeepsWorking
      BY <1>8, WakeTyped, Typed DEF KeepsWorking, Resting, Report
    <2> QED
      BY <1>2, <2>1
  <1>9. CASE ControlStep
    BY <1>2, <1>9, ControlStepKeeps DEF ofmapVars
  <1>10. CASE JoinStep
    <2>1. UNCHANGED <<jw, work>>
      BY <1>10 DEF JoinStep, DestroyJoin
    <2> QED
      BY <1>1, <2>1
  <1> QED
    BY <1>3, <1>4, <1>5, <1>6, <1>7, <1>8, <1>9, <1>10, Steps

-----------------------------------------------------------------------------
(* A job worker in a frame. *)

(* A step of a job worker in a frame touches its flow only. *)
DecoderOnly(e, f) ==
    /\ UNCHANGED <<jobs, lost, wk, ctl, rcv, fetched, delivered>>
    /\ OtherRingsSame(f)
    /\ ring'[f].entry_w = ring[f].entry_w
    /\ ring'[f].entry_report_r = ring[f].entry_report_r
    /\ ring'[f].data = ring[f].data
    /\ jw[e].flow = f /\ jw'[e].flow = f
    /\ \A d \in JobWorkers : d # e => jw'[d] = jw[d] /\ work'[d] = work[d]
    /\ \A g \in Flows : g # f => queue'[g] = queue[g] /\ (In(dropped', g) <=> In(dropped, g))

(* What such a step does not touch. *)
LEMMA DecoderKeeps ==
    ASSUME OfmapType, NEW f \in Flows, NEW e \in JobWorkers, DecoderOnly(e, f)
    PROVE  /\ OthersSame(f) /\ TransferSame(f)
           /\ Got(f)' = Got(f) /\ Signalling(f)' = Signalling(f)
           /\ JobsFor(f)' = JobsFor(f) /\ LostFor(f)' = LostFor(f)
           /\ RowsSame(f)
           /\ \A d \in JobWorkers : d # e =>
                /\ Reading(d, f)' <=> Reading(d, f)
                /\ Holds(d, f)' <=> Holds(d, f)
  <1>1. /\ Got(f)' = Got(f) /\ Signalling(f)' = Signalling(f)
        /\ \A g : JobsFor(g)' = JobsFor(g) /\ LostFor(g)' = LostFor(g)
        /\ TransferSame(f)
    BY DEF DecoderOnly, Got, Transferring, Signalling, JobsFor, LostFor, TransferSame
  <1>2. WorkingElse(f)
    BY DEF DecoderOnly, WorkingElse, Away
  <1>3. \A g \in Flows : g # f => FlowElse(g)
    BY <1>1 DEF DecoderOnly, FlowElse, Decoded
  <1>4. TransferElse(f)
    BY DEF DecoderOnly, TransferElse
  <1>5. OthersSame(f)
    BY <1>2, <1>3, <1>4 DEF OthersSame, DecoderOnly
  <1>6. RowsSame(f)
    BY <1>1 DEF DecoderOnly, RowsSame
  <1>7. \A d \in JobWorkers : d # e =>
          /\ Reading(d, f)' <=> Reading(d, f)
          /\ Holds(d, f)' <=> Holds(d, f)
    BY DEF DecoderOnly, Reading, Holds
  <1> QED
    BY <1>1, <1>5, <1>6, <1>7

(* Taking the lock. *)
LEMMA FlowLock ==
    ASSUME OfmapType, FlowInv, EmptyHanded, NEW e \in JobWorkers, DecodeLock(e)
    PROVE  FlowInv'
  <1>1. PICK f \in Flows : f = jw[e].flow
    BY Typed
  <1>2. /\ jw[e].pc = "execute" /\ ring[f].guard = NoWorker
        /\ ring' = [ring EXCEPT ![f].guard = e] /\ JobWorkerGoes(e, "row")
        /\ UNCHANGED <<jobs, pool, lost, wk, ctl, queue, work, rcv, user, calls, fetched,
                       dropped, delivered>>
    BY <1>1 DEF DecodeLock, GuardFree
  <1>3. /\ OtherRingsSame(f)
        /\ ring'[f].entry_w = ring[f].entry_w
        /\ ring'[f].entry_r = ring[f].entry_r
        /\ ring'[f].entry_report_r = ring[f].entry_report_r
        /\ ring'[f].data = ring[f].data
        /\ ring'[f].guard = e
    BY <1>2, GuardTaken
  <1>4. /\ jw'[e].pc = "row" /\ jw'[e].flow = f
        /\ \A d \in JobWorkers : d # e => jw'[d] = jw[d]
    <2>1. "row" \in JobPCs /\ WorkersType(Flows)
      BY Typed DEF JobPCs
    <2> QED
      BY <1>1, <1>2, <2>1, JobWorkerMoves
  <1>5. DecoderOnly(e, f)
    BY <1>1, <1>2, <1>3, <1>4 DEF DecoderOnly
  <1>6. /\ OthersSame(f) /\ TransferSame(f)
        /\ Got(f)' = Got(f) /\ Signalling(f)' = Signalling(f)
        /\ JobsFor(f)' = JobsFor(f) /\ LostFor(f)' = LostFor(f)
        /\ RowsSame(f)
        /\ \A d \in JobWorkers : d # e =>
             /\ Reading(d, f)' <=> Reading(d, f)
             /\ Holds(d, f)' <=> Holds(d, f)
    BY <1>5, DecoderKeeps
  <1>7. PICK W \in Nat, q \in Nat, t \in Nat, m \in 0 .. H - 1 : FlowIs(f, W, q, m, t)
    BY DEF FlowInv
  <1>8. PointersAre(f, W, q, m, t)'
    <2>1. PointersSame(f)
      BY <1>2, <1>3, <1>6 DEF PointersSame
    <2> QED
      BY <1>7, <2>1, PointersQuiet DEF FlowIs
  <1>9. LockIs(f, q, m)'
    <2>1. m = 0 /\ \A d \in JobWorkers : ~Reading(d, f)
      BY <1>2, <1>7, Sizes DEF FlowIs, LockIs
    <2>2. work'[e] = <<>>
      BY <1>2 DEF EmptyHanded, Carrying
    <2>3. Prefix(work'[e], q, m)
      <3>1. Prefix(<<>>, q, 0)
        BY DEF Prefix
      <3> QED
        BY <2>1, <2>2, <3>1
    <2>4. e # NoWorker
      BY Sizes
    <2> QED
      BY <1>3, <1>4, <1>6, <2>1, <2>3, <2>4 DEF LockIs, Reading
  <1>10. FramesSame(f)
    BY <1>2, <1>4, <1>6 DEF FramesSame, HoldersSame, Decoded, Holds
  <1>11. FramesAre(f, q)' /\ OrderIs(f, q)'
    <2>1. OrderSame(f)
      BY <1>2, <1>10 DEF OrderSame
    <2> QED
      BY <1>7, <1>10, <2>1, FramesQuiet, OrderQuiet DEF FlowIs
  <1>12. TransferIs(f, W, q, m, t)' /\ RowsAre(f, W, q, m)'
    BY <1>6, <1>7, TransferQuiet, RowsQuiet DEF FlowIs
  <1>13. JobsAre(f, q, t)'
    <2>1. Held(f) = 0 /\ Held(f)' = 1
      BY <1>2, <1>3, Sizes DEF Held
    <2>2. WorkersAt(f, "execute")' = WorkersAt(f, "execute") - 1
      <3>1. IsAt(e, f, "execute") /\ ~IsAt(e, f, "execute")'
        BY <1>1, <1>2, <1>4 DEF IsAt
      <3>2. \A d \in JobWorkers : d # e => (IsAt(d, f, "execute")' <=> IsAt(d, f, "execute"))
        BY <1>4 DEF IsAt
      <3> QED
        BY <3>1, <3>2, WorkersChange
    <2>3. /\ JobsFor(f) \in Nat /\ LostFor(f) \in Nat /\ WorkersAt(f, "execute") \in Nat
      BY CountsTyped
    <2>4. JobsAre(f, q, t)
      BY <1>7 DEF FlowIs
    <2> QED
      BY <1>2, <1>6, <2>1, <2>2, <2>3, <2>4 DEF JobsAre
  <1>14. KeepsFlow(f)
    BY <1>7, <1>8, <1>9, <1>11, <1>12, <1>13 DEF KeepsFlow, FlowIs
  <1> QED
    BY <1>6, <1>14, FlowsKeep

(* The number of a frame as the device sent it. *)
LEMMA SentNumber ==
    ASSUME NEW n \in Nat
    PROVE  FrameNumber(Sent(n)) = n
  <1>1. H \in Nat /\ H > 0 /\ P \in Nat /\ P > 0
    BY Sizes
  <1>2. PICK h \in Nat : h = H * P /\ h > 0
    <2>1. H * P \in Nat /\ H * P > 0
      BY <1>1
    <2> QED
      BY <2>1
  <1>3. (h * n + 0) \div h = n
    BY <1>2, DivModUnique
  <1>4. Sent(n)[1][1] = (n * H + 1 - 1) * P + 1 - 1
    BY <1>1 DEF Sent
  <1>5. (n * H + 1 - 1) * P + 1 - 1 = h * n + 0
    <2>1. PICK z \in Nat : z = n * H
      BY <1>1
    <2>2. z + 1 - 1 = z
      BY <2>1
    <2>3. z * P = h * n
      <3>1. (n * H) * P = (H * P) * n
        BY <1>1
      <3> QED
        BY <1>2, <2>1, <3>1
    <2>4. PICK y \in Nat : y = z * P
      BY <1>1, <2>1
    <2> QED
      BY <2>1, <2>2, <2>3, <2>4
  <1> QED
    BY <1>2, <1>3, <1>4, <1>5 DEF FrameNumber

(* All rows of a frame that were decoded one after the other. *)
LEMMA PrefixSent ==
    ASSUME NEW s \in Seq(Parts), NEW n \in Nat, Prefix(s, n, H)
    PROVE  s = Sent(n) /\ Good(s, n + 1) /\ FrameNumber(s) = n
  <1>1. H \in Nat /\ H > 0 /\ P \in Nat /\ P > 0
    BY Sizes
  <1>2. ASSUME NEW i \in 1 .. H PROVE s[i] = [p \in 1 .. P |-> (n * H + i - 1) * P + p - 1]
    <2>1. s[i] = Row(H * n + i - 1)
      BY DEF Prefix
    <2>2. H * n = n * H
      BY <1>1
    <2> QED
      BY <2>1, <2>2 DEF Row
  <1>3. s = [i \in 1 .. H |-> s[i]]
    BY DEF Prefix
  <1>4. s = Sent(n)
    BY <1>2, <1>3 DEF Sent
  <1>5. FrameNumber(s) = n
    BY <1>4, SentNumber
  <1> QED
    BY <1>4, <1>5 DEF Good

(* A decoded row was appended. *)
LEMMA PrefixGrows ==
    ASSUME NEW s \in Seq(Parts), NEW q \in Nat, NEW m \in Nat, NEW x \in Parts,
           Prefix(s, q, m), x = Row(H * q + m)
    PROVE  Prefix(Append(s, x), q, m + 1)
  <1>1. Len(s) = m /\ \A i \in 1 .. m : s[i] = Row(H * q + i - 1)
    BY DEF Prefix
  <1>2. /\ Len(Append(s, x)) = m + 1
        /\ \A i \in 1 .. m : Append(s, x)[i] = s[i]
        /\ Append(s, x)[m + 1] = x
    BY <1>1, Appended
  <1>3. H * q + (m + 1) - 1 = H * q + m
    BY Sizes
  <1>4. ASSUME NEW i \in 1 .. m + 1 PROVE Append(s, x)[i] = Row(H * q + i - 1)
    <2>1. CASE i \in 1 .. m
      BY <1>1, <1>2, <2>1
    <2>2. CASE i = m + 1
      BY <1>2, <1>3, <2>2
    <2>3. i \in 1 .. m \/ i = m + 1
      OBVIOUS
    <2> QED
      BY <2>1, <2>2, <2>3
  <1> QED
    BY <1>2, <1>4 DEF Prefix

(* Frames that are good stay so when more are decoded. *)
LEMMA GoodStays ==
    ASSUME NEW x, NEW q \in Nat, Good(x, q)
    PROVE  Good(x, q + 1) /\ FrameNumber(x) # q
  <1>1. FrameNumber(x) \in 0 .. q - 1
    BY DEF Good
  <1>2. FrameNumber(x) \in 0 .. q /\ FrameNumber(x) # q
    BY <1>1
  <1> QED
    BY <1>2 DEF Good

(* The rows of frames that are told were published. *)
LEMMA ToldWerePublished ==
    ASSUME OfmapType, NEW f \in Flows, NEW W \in Nat, NEW q, NEW m, NEW t \in Nat,
           PointersAre(f, W, q, m, t), TransferIs(f, W, q, m, t)
    PROVE  /\ t + Signalling(f) \in Nat /\ H * (t + Signalling(f)) \in Nat
           /\ H * (t + Signalling(f)) <= W
  <1>1. PICK u \in Nat : u = t + Signalling(f)
    BY DEF Signalling
  <1>2. H * u \in Nat
    BY <1>1, Sizes
  <1>3. CASE Signalling(f) = 0
    <2>1. u = t
      BY <1>1, <1>3
    <2> QED
      BY <1>1, <1>2, <2>1 DEF PointersAre
  <1>4. CASE Signalling(f) # 0
    <2>1. wk.pc = "signal" /\ rcv.flow = f /\ Signalling(f) = 1
      BY <1>4 DEF Signalling
    <2>2. PICK N \in Nat : N = rcv.frames /\ N >= 1 /\ H * (t + N) <= W
      <3>1. rcv.frames \in Int
        BY Typed DEF Transfers
      <3>2. rcv.frames >= 1 /\ H * (t + rcv.frames) <= W
        BY <2>1 DEF TransferIs
      <3> QED
        BY <3>1, <3>2
    <2>3. u <= t + N /\ t + N \in Nat
      BY <1>1, <2>1, <2>2
    <2>4. H * (t + N) \in Nat /\ H * u <= H * (t + N)
      BY <2>3, FramesGrow
    <2>5. PICK y \in Nat, z \in Nat : y = H * u /\ z = H * (t + N) /\ y <= z /\ z <= W
      BY <1>2, <2>2, <2>4
    <2> QED
      BY <1>1, <2>5
  <1> QED
    BY <1>3, <1>4

(* Who decodes a row has its ring's lock, and the row is there. *)
LEMMA RowIsThere ==
    ASSUME OfmapType, PoolInv, NEW f \in Flows, NEW e \in JobWorkers, Reading(e, f),
           NEW W \in Nat, NEW q \in Nat, NEW t \in Nat, NEW m \in 0 .. H - 1,
           FlowIs(f, W, q, m, t)
    PROVE  /\ ctl.pc # "gone" /\ ring[f].guard = e /\ Held(f) = 1
           /\ Prefix(work[e], q, m)
           /\ H * q + m < W
           /\ ring[f].data[ring[f].entry_r] = Row(H * q + m)
           /\ NextRow(ring[f].entry_r) = (H * q + m + 1) % R
  <1>1. /\ R \in Nat /\ R > 1 /\ H \in Nat /\ H > 0
    BY Sizes
  <1>2. PointersAre(f, W, q, m, t) /\ RowsAre(f, W, q, m) /\ TransferIs(f, W, q, m, t)
        /\ LockIs(f, q, m) /\ JobsAre(f, q, t)
    BY DEF FlowIs
  <1>3. ctl.pc # "gone"
    <2>1. jw[e].pc # "off"
      BY DEF Reading
    <2> QED
      BY <2>1, AloneUnlessGrown, Typed
  <1>4. ring[f].guard = e /\ Held(f) = 1 /\ Prefix(work[e], q, m)
    BY <1>2, Sizes DEF LockIs, Held
  <1>5. PICK a \in Nat : a = H * q + m /\ a < W
    <2>1. PICK x \in Nat, u \in Nat, y \in Nat :
            x = H * (q + 1) /\ u = t + Signalling(f) /\ y = H * u /\ x <= y
      <3>1. q + Held(f) <= t + Signalling(f) /\ t + Signalling(f) \in Nat
        BY <1>2, <1>3, DecodedWereTold
      <3>2. PICK u \in Nat : u = t + Signalling(f) /\ q + 1 <= u
        BY <1>4, <3>1
      <3>3. H * (q + 1) \in Nat /\ H * u \in Nat /\ H * (q + 1) <= H * u
        BY <3>2, FramesGrow
      <3> QED
        BY <3>2, <3>3
    <2>2. y <= W
      BY <1>2, <2>1, ToldWerePublished
    <2>3. PICK b \in Nat : b = H * q
      BY <1>1
    <2>4. x = b + H
      BY <1>1, <2>1, <2>3
    <2>5. b + m \in Nat /\ b + m < W
      BY <1>1, <2>1, <2>2, <2>3, <2>4
    <2> QED
      BY <2>3, <2>5
  <1>6. ring[f].entry_r = a % R
    BY <1>2, <1>5 DEF PointersAre
  <1>7. ring[f].data[a % R] = Row(a)
    <2>1. a \in H * q + m .. W - 1
      BY <1>5
    <2> QED
      BY <1>2, <2>1 DEF RowsAre, RowsBe
  <1>8. NextRow(a % R) = (a + 1) % R
    <2>1. 1 \in 0 .. R /\ 0 \in 0 .. R
      BY <1>1
    <2>2. (a + 1) % R = IF (a % R) + 1 < R THEN (a % R) + 1 ELSE (a % R) + 1 - R
      BY <2>1, SlotAfter
    <2>3. PICK i \in 0 .. R - 1 : i = a % R
      BY <2>1, SlotAfter DEF Rows
    <2>4. NextRow(i) = IF i + 1 < R THEN i + 1 ELSE i + 1 - R
      BY <1>1, <2>3 DEF NextRow
    <2> QED
      BY <2>2, <2>3, <2>4
  <1> QED
    BY <1>3, <1>4, <1>5, <1>6, <1>7, <1>8

(* Decoding a row does not take room from the ofmap worker. *)
LEMMA RowFreed ==
    ASSUME OfmapType, NEW f \in Flows, NEW W \in Nat, NEW q \in Nat, NEW m \in 0 .. H - 1,
           NEW t \in Nat, FlowIs(f, W, q, m, t), H * q + m < W,
           NEW n \in Nat, NEW k \in 0 .. H - 1, H * n + k = H * q + m + 1,
           fetched'[f] = fetched[f], ring'[f].entry_w = ring[f].entry_w,
           ring'[f].entry_report_r = ring[f].entry_report_r,
           ring'[f].entry_r = (H * q + m + 1) % R,
           RowsSame(f), TransferSame(f)
    PROVE  PointersAre(f, W, n, k, t)' /\ RowsAre(f, W, n, k)' /\ TransferIs(f, W, n, k, t)'
  <1>1. /\ R \in Nat /\ R > 1 /\ H \in Nat /\ H > 0
    BY Sizes
  <1>2. PointersAre(f, W, q, m, t) /\ RowsAre(f, W, q, m) /\ TransferIs(f, W, q, m, t)
    BY DEF FlowIs
  <1>3. PICK a \in Nat : a = H * q + m /\ a + 1 = H * n + k /\ a + 1 <= W
    BY <1>1
  <1>4. Got(f)' = Got(f) /\ ring'[f].data = ring[f].data
    BY DEF RowsSame
  <1>5. PointersAre(f, W, n, k, t)'
    BY <1>1, <1>2, <1>3, <1>4 DEF PointersAre
  <1>6. RowsAre(f, W, n, k)'
    <2>1. PICK x : x = ring[f].data
      OBVIOUS
    <2>2. RowsBe(x, W, q, m, Got(f))
      BY <1>2, <2>1 DEF RowsAre
    <2>3. PICK g : g = Got(f)
      OBVIOUS
    <2>4. \A i \in a + 1 .. W - 1 : x[i % R] = Row(i)
      <3>1. \A i \in a .. W - 1 : x[i % R] = Row(i)
        BY <1>3, <2>2 DEF RowsBe
      <3>2. \A i \in a + 1 .. W - 1 : i \in a .. W - 1
        BY <1>3
      <3> QED
        BY <3>1, <3>2
    <2>5. RowsBe(x, W, n, k, g)
      BY <1>3, <2>2, <2>3, <2>4 DEF RowsBe
    <2> QED
      BY <1>4, <2>1, <2>3, <2>5 DEF RowsAre
  <1>7. TransferIs(f, W, n, k, t)'
    <2>1. SUFFICES ASSUME rcv'.flow = f, wk'.pc \in InTransfer
                   PROVE  TransferIs(f, W, n, k, t)'
      BY DEF TransferIs, InTransfer
    <2>2. wk'.pc = wk.pc /\ rcv' = rcv
      BY <2>1 DEF TransferSame
    <2>3. rcv.n \in Nat
      BY Typed DEF Transfers
    <2>4. wk.pc = "begin" => W < H * n + k + R - 1
      BY <1>1, <1>2, <1>3, <2>1, <2>2 DEF TransferIs
    <2>5. wk.pc \in {"read", "publish"} =>
            (W % R) + rcv.n <= R /\ W + rcv.n <= H * n + k + R - 1
      BY <1>1, <1>2, <1>3, <2>1, <2>2, <2>3 DEF TransferIs
    <2>6. wk.pc \in {"report", "signal"} => rcv.frames >= 1 /\ H * (t + rcv.frames) <= W
      BY <1>2, <2>1, <2>2 DEF TransferIs
    <2> QED
      BY <2>2, <2>4, <2>5, <2>6 DEF TransferIs
  <1> QED
    BY <1>5, <1>6, <1>7

(* A frame that was decoded is a good one, and is not yet in the list. *)
LEMMA FrameDecoded ==
    ASSUME NEW f \in Flows, NEW q \in Nat, NEW e \in JobWorkers, FramesAre(f, q),
           Decoded(f)' = Decoded(f),
           Good(work'[e], q + 1), FrameNumber(work'[e]) = q,
           \A d \in JobWorkers : d # e =>
             (Holds(d, f)' <=> Holds(d, f)) /\ work'[d] = work[d]
    PROVE  FramesAre(f, q + 1)'
  <1>1. PICK s : s = Decoded(f) /\ s = Decoded(f)'
    OBVIOUS
  <1>2. /\ Differ(s) /\ \A k \in 1 .. Len(s) : Good(s[k], q)
        /\ \A d \in JobWorkers : Holds(d, f) =>
             /\ Good(work[d], q) /\ NotIn(s, work[d])
             /\ \A c \in JobWorkers : c # d /\ Holds(c, f) =>
                  FrameNumber(work[c]) # FrameNumber(work[d])
    BY <1>1 DEF FramesAre, AllGood
  <1>3. \A x : Good(x, q) => Good(x, q + 1) /\ FrameNumber(x) # q
    BY GoodStays
  <1>4. AllGood(s, q + 1)
    BY <1>2, <1>3 DEF AllGood
  <1>5. NotIn(s, work'[e])
    BY <1>2, <1>3 DEF NotIn
  <1>6. ASSUME NEW d \in JobWorkers, Holds(d, f)'
        PROVE  /\ Good(work'[d], q + 1) /\ NotIn(s, work'[d])
               /\ \A c \in JobWorkers : c # d /\ Holds(c, f)' =>
                    FrameNumber(work'[c]) # FrameNumber(work'[d])
    <2>1. CASE d = e
      <3>1. ASSUME NEW c \in JobWorkers, c # e, Holds(c, f)'
            PROVE  FrameNumber(work'[c]) # q
        <4>1. Good(work[c], q) /\ work'[c] = work[c]
          BY <1>2, <3>1
        <4> QED
          BY <1>3, <4>1
      <3> QED
        BY <1>5, <2>1, <3>1
    <2>2. CASE d # e
      <3>1. Holds(d, f) /\ work'[d] = work[d] /\ Good(work[d], q) /\ NotIn(s, work[d])
        BY <1>2, <1>6, <2>2
      <3>2. ASSUME NEW c \in JobWorkers, c # d, Holds(c, f)'
            PROVE  FrameNumber(work'[c]) # FrameNumber(work'[d])
        <4>1. CASE c = e
          BY <1>3, <3>1, <4>1
        <4>2. CASE c # e
          BY <1>2, <3>1, <3>2, <4>2
        <4> QED
          BY <4>1, <4>2
      <3> QED
        BY <1>3, <3>1, <3>2
    <2> QED
      BY <2>1, <2>2
  <1> QED
    BY <1>1, <1>2, <1>4, <1>6 DEF FramesAre

(* Decoding a row. *)
LEMMA FlowRow ==
    ASSUME OfmapType, PoolInv, FlowInv, NEW e \in JobWorkers, DecodeRow(e), OfmapType'
    PROVE  FlowInv'
  <1>1. PICK f \in Flows : f = jw[e].flow
    BY Typed
  <1>2. /\ R \in Nat /\ R > 1 /\ H \in Nat /\ H > 0
    BY Sizes
  <1>3. jw[e].pc = "row" /\ Reading(e, f)
        /\ UNCHANGED <<jobs, pool, lost, wk, ctl, queue, rcv, user, calls, fetched,
                       dropped, delivered>>
    BY <1>1 DEF DecodeRow, Reading
  <1>4. PICK W \in Nat, q \in Nat, t \in Nat, m \in 0 .. H - 1 : FlowIs(f, W, q, m, t)
    BY DEF FlowInv
  <1>5. LockIs(f, q, m) /\ FramesAre(f, q) /\ JobsAre(f, q, t) /\ OrderIs(f, q)
    BY <1>4 DEF FlowIs
  <1>6. /\ ctl.pc # "gone" /\ ring[f].guard = e /\ Held(f) = 1
        /\ Prefix(work[e], q, m)
        /\ H * q + m < W
        /\ ring[f].data[ring[f].entry_r] = Row(H * q + m)
        /\ NextRow(ring[f].entry_r) = (H * q + m + 1) % R
    BY <1>3, <1>4, RowIsThere
  <1>7. Len(work[e]) = m /\ work[e] \in Seq(Parts)
    BY <1>6, Typed DEF Prefix
  <1>8. /\ OtherRingsSame(f)
        /\ ring'[f].entry_w = ring[f].entry_w
        /\ ring'[f].entry_r = (H * q + m + 1) % R
        /\ ring'[f].entry_report_r = ring[f].entry_report_r
        /\ ring'[f].data = ring[f].data
        /\ m + 1 = H => ring'[f].guard = NoWorker
        /\ m + 1 # H => ring'[f].guard = ring[f].guard
        /\ Row(H * q + m) \in Parts
        /\ work'[e] = Append(work[e], Row(H * q + m))
        /\ \A d \in JobWorkers : d # e => work'[d] = work[d]
        /\ m + 1 = H => JobWorkerGoes(e, "full")
        /\ m + 1 # H => JobWorkerGoes(e, "row")
    <2>1. /\ OtherRingsSame(f)
          /\ ring'[f].entry_w = ring[f].entry_w
          /\ ring'[f].entry_r = NextRow(ring[f].entry_r)
          /\ ring'[f].entry_report_r = ring[f].entry_report_r
          /\ ring'[f].data = ring[f].data
          /\ Len(work[e]) + 1 = H => ring'[f].guard = NoWorker /\ JobWorkerGoes(e, "full")
          /\ Len(work[e]) + 1 # H =>
               ring'[f].guard = ring[f].guard /\ JobWorkerGoes(e, "row")
          /\ ring[f].data[ring[f].entry_r] \in Parts
          /\ work'[e] = Append(work[e], ring[f].data[ring[f].entry_r])
          /\ \A d \in JobWorkers : d # e => work'[d] = work[d]
      BY <1>1, RowTaken
    <2> QED
      BY <1>6, <1>7, <2>1
  <1>9. /\ jw'[e].flow = f
        /\ \A d \in JobWorkers : d # e => jw'[d] = jw[d]
        /\ m + 1 = H => jw'[e].pc = "full"
        /\ m + 1 # H => jw'[e].pc = "row"
    <2>1. PICK pc \in {"row", "full"} :
            /\ JobWorkerGoes(e, pc)
            /\ m + 1 = H => pc = "full"
            /\ m + 1 # H => pc = "row"
      BY <1>8
    <2>2. pc \in JobPCs /\ WorkersType(Flows)
      BY Typed DEF JobPCs
    <2> QED
      BY <1>1, <2>1, <2>2, JobWorkerMoves
  <1>10. DecoderOnly(e, f)
    BY <1>1, <1>3, <1>8, <1>9 DEF DecoderOnly
  <1>11. /\ OthersSame(f) /\ TransferSame(f)
         /\ Got(f)' = Got(f) /\ Signalling(f)' = Signalling(f)
         /\ JobsFor(f)' = JobsFor(f) /\ LostFor(f)' = LostFor(f)
         /\ RowsSame(f)
         /\ \A d \in JobWorkers : d # e =>
              /\ Reading(d, f)' <=> Reading(d, f)
              /\ Holds(d, f)' <=> Holds(d, f)
    BY <1>10, DecoderKeeps
  <1>12. Prefix(work'[e], q, m + 1)
    <2>1. m \in Nat
      BY <1>2
    <2> QED
      BY <1>6, <1>7, <1>8, <2>1, PrefixGrows
  <1>13. \A d \in JobWorkers : d # e => ~Reading(d, f)'
    BY <1>5, <1>6, <1>11 DEF LockIs
  <1>14. Decoded(f)' = Decoded(f)
    BY <1>3 DEF Decoded
  <1>15. WorkersAt(f, "execute")' = WorkersAt(f, "execute")
    <2>1. \A d \in JobWorkers : IsAt(d, f, "execute")' <=> IsAt(d, f, "execute")
      BY <1>1, <1>3, <1>9 DEF IsAt
    <2> QED
      BY <2>1, WorkersStay
  <1>16. e # NoWorker
    BY Sizes
  <1>17. CASE m + 1 # H
    <2>1. PICK k \in 0 .. H - 1 : k = m + 1
      BY <1>2, <1>17
    <2>2. H * q + k = H * q + m + 1
      <3>1. PICK z \in Nat : z = H * q
        BY <1>2
      <3> QED
        BY <2>1, <3>1
    <2>3. PointersAre(f, W, q, k, t)' /\ RowsAre(f, W, q, k)' /\ TransferIs(f, W, q, k, t)'
      BY <1>3, <1>4, <1>6, <1>8, <1>11, <2>2, RowFreed
    <2>4. LockIs(f, q, k)'
      BY <1>6, <1>8, <1>9, <1>12, <1>13, <1>16, <1>17, <2>1 DEF LockIs, Reading
    <2>5. FramesSame(f)
      BY <1>3, <1>8, <1>9, <1>11, <1>14, <1>17 DEF FramesSame, HoldersSame, Holds
    <2>6. FramesAre(f, q)' /\ OrderIs(f, q)'
      <3>1. OrderSame(f)
        BY <1>3, <2>5 DEF OrderSame
      <3> QED
        BY <1>5, <2>5, <3>1, FramesQuiet, OrderQuiet
    <2>7. JobsAre(f, q, t)'
      <3>1. JobsSame(f)
        BY <1>3, <1>8, <1>11, <1>15, <1>17 DEF JobsSame, Held
      <3> QED
        BY <1>5, <3>1, JobsQuiet
    <2>8. KeepsFlow(f)
      BY <2>3, <2>4, <2>6, <2>7 DEF KeepsFlow, FlowIs
    <2> QED
      BY <1>11, <2>8, FlowsKeep
  <1>18. CASE m + 1 = H
    <2>1. PICK n \in Nat, k \in 0 .. H - 1 : n = q + 1 /\ k = 0
      BY <1>2
    <2>2. H * n + k = H * q + m + 1
      <3>1. PICK z \in Nat : z = H * q
        BY <1>2
      <3>2. H * n = z + H
        BY <1>2, <2>1, <3>1
      <3> QED
        BY <1>2, <1>18, <2>1, <3>1, <3>2
    <2>3. PointersAre(f, W, n, k, t)' /\ RowsAre(f, W, n, k)' /\ TransferIs(f, W, n, k, t)'
      BY <1>3, <1>4, <1>6, <1>8, <1>11, <2>2, RowFreed
    <2>4. LockIs(f, n, k)'
      BY <1>8, <1>9, <1>13, <1>18, <2>1 DEF LockIs, Reading
    <2>5. Good(work'[e], n) /\ FrameNumber(work'[e]) = q
      <3>1. work'[e] \in Seq(Parts)
        BY DEF OfmapType
      <3> QED
        BY <1>12, <1>18, <2>1, <3>1, PrefixSent
    <2>6. FramesAre(f, n)'
      BY <1>5, <1>8, <1>11, <1>14, <2>1, <2>5, FrameDecoded
    <2>7. JobsAre(f, n, t)'
      <3>1. Held(f)' = 0
        BY <1>8, <1>18 DEF Held
      <3>2. JobsFor(f) \in Nat /\ LostFor(f) \in Nat /\ WorkersAt(f, "execute") \in Nat
        BY CountsTyped
      <3> QED
        BY <1>3, <1>5, <1>6, <1>11, <1>15, <2>1, <3>1, <3>2 DEF JobsAre
    <2>8. OrderIs(f, n)'
      <3>1. SUFFICES ASSUME ~ctl.grown PROVE OrderIs(f, n)'
        BY <1>3 DEF OrderIs
      <3>2. \A d \in JobWorkers : d # e => ~Holds(d, f)
        <4>1. \A d \in JobWorkers : d # e => jw[d].pc = "off"
          BY <1>3, <3>1, AloneUnlessGrown, Typed
        <4> QED
          BY <4>1 DEF Holds
      <3>3. ~Holds(e, f) /\ Holds(e, f)'
        BY <1>3, <1>9, <1>18 DEF Holds
      <3>4. \A d \in JobWorkers : ~Holds(d, f) /\ (Holds(d, f)' => d = e)
        BY <1>11, <3>2, <3>3
      <3>5. Rising(Decoded(f)) /\ (~In(dropped, f) =>
              Counted(Decoded(f)) /\ Len(Decoded(f)) = q)
        BY <1>5, <1>6, <3>1, <3>4 DEF OrderIs
      <3>6. q = n - 1
        BY <2>1
      <3> QED
        BY <1>3, <1>14, <2>5, <3>3, <3>4, <3>5, <3>6 DEF OrderIs
    <2>9. KeepsFlow(f)
      BY <2>3, <2>4, <2>6, <2>7, <2>8 DEF KeepsFlow, FlowIs
    <2> QED
      BY <1>11, <2>9, FlowsKeep
  <1> QED
    BY <1>17, <1>18

(* What a poll or a push does not touch: the ring and what is in it. *)
LEMMA FrameMoves ==
    ASSUME OfmapType, NEW f \in Flows, NEW e \in JobWorkers, f = jw[e].flow,
           jw[e].pc \in {"full", "push"}, NEW pc \in {"rest", "push"}, JobWorkerGoes(e, pc),
           UNCHANGED <<jobs, lost, wk, ctl, ring, rcv, fetched, delivered>>,
           \A d \in JobWorkers : d # e => work'[d] = work[d],
           \A g \in Flows : g # f => queue'[g] = queue[g] /\ (In(dropped', g) <=> In(dropped, g)),
           NEW W \in Nat, NEW q \in Nat, NEW t \in Nat, NEW m \in 0 .. H - 1,
           FlowIs(f, W, q, m, t)
    PROVE  /\ OthersSame(f) /\ Holds(e, f) /\ jw'[e].pc = pc /\ jw'[e].flow = f
           /\ \A d \in JobWorkers : d # e => jw'[d] = jw[d] /\ (Holds(d, f)' <=> Holds(d, f))
           /\ PointersAre(f, W, q, m, t)' /\ RowsAre(f, W, q, m)' /\ TransferIs(f, W, q, m, t)'
           /\ LockIs(f, q, m)' /\ JobsAre(f, q, t)'
  <1>1. /\ jw'[e].pc = pc /\ jw'[e].flow = f
        /\ \A d \in JobWorkers : d # e => jw'[d] = jw[d]
    <2>1. pc \in JobPCs /\ WorkersType(Flows)
      BY Typed DEF JobPCs
    <2> QED
      BY <2>1, JobWorkerMoves
  <1>2. DecoderOnly(e, f)
    BY <1>1 DEF DecoderOnly, OtherRingsSame
  <1>3. /\ OthersSame(f) /\ TransferSame(f)
        /\ Got(f)' = Got(f) /\ Signalling(f)' = Signalling(f)
        /\ JobsFor(f)' = JobsFor(f) /\ LostFor(f)' = LostFor(f)
        /\ RowsSame(f)
        /\ \A d \in JobWorkers : d # e =>
             /\ Reading(d, f)' <=> Reading(d, f)
             /\ Holds(d, f)' <=> Holds(d, f)
    BY <1>2, DecoderKeeps
  <1>4. PointersAre(f, W, q, m, t)' /\ RowsAre(f, W, q, m)' /\ TransferIs(f, W, q, m, t)'
    <2>1. PointersSame(f)
      BY <1>3 DEF PointersSame
    <2> QED
      BY <1>3, <2>1, PointersQuiet, RowsQuiet, TransferQuiet DEF FlowIs
  <1>5. LockIs(f, q, m)'
    <2>1. ~Reading(e, f) /\ ~Reading(e, f)'
      BY <1>1 DEF Reading
    <2>2. LockSame(f)
      BY <1>3, <2>1 DEF LockSame, Reading
    <2> QED
      BY <2>2, LockQuiet DEF FlowIs
  <1>6. JobsAre(f, q, t)'
    <2>1. WorkersAt(f, "execute")' = WorkersAt(f, "execute")
      <3>1. \A d \in JobWorkers : IsAt(d, f, "execute")' <=> IsAt(d, f, "execute")
        BY <1>1 DEF IsAt
      <3> QED
        BY <3>1, WorkersStay
    <2>2. JobsSame(f)
      BY <1>3, <2>1 DEF JobsSame, Held
    <2> QED
      BY <2>2, JobsQuiet DEF FlowIs
  <1> QED
    BY <1>1, <1>3, <1>4, <1>5, <1>6 DEF Holds

(* The poll for space in the list. *)
LEMMA FlowPoll ==
    ASSUME OfmapType, FlowInv, NEW e \in JobWorkers, DecodePoll(e)
    PROVE  FlowInv'
  <1>1. PICK f \in Flows : f = jw[e].flow
    BY Typed
  <1>2. /\ jw[e].pc = "full"
        /\ UNCHANGED <<jobs, pool, lost, wk, ctl, ring, queue, rcv, user, calls, fetched,
                       delivered>>
    BY DEF DecodePoll
  <1>3. \/ /\ JobWorkerGoes(e, "rest") /\ work' = [work EXCEPT ![e] = <<>>]
           /\ dropped' = Append(dropped, f)
        \/ JobWorkerGoes(e, "push") /\ UNCHANGED <<work, dropped>>
    BY <1>1 DEF DecodePoll
  <1>4. PICK pc \in {"rest", "push"} :
          /\ JobWorkerGoes(e, pc)
          /\ pc = "push" => UNCHANGED <<work, dropped>>
          /\ pc = "rest" => dropped' = Append(dropped, f)
          /\ work' = work \/ work' = [work EXCEPT ![e] = <<>>]
    BY <1>3
  <1>5. /\ \A d \in JobWorkers : d # e => work'[d] = work[d]
        /\ \A g : In(dropped', g) <=> In(dropped, g) \/ (pc = "rest" /\ g = f)
    <2>1. work \in [JobWorkers -> Seq(Parts)] /\ dropped \in Seq(Flows)
      BY DEF OfmapType
    <2>2. \A d \in JobWorkers : d # e => work'[d] = work[d]
      BY <1>4, <2>1
    <2>3. \A g : In(Append(dropped, f), g) <=> In(dropped, g) \/ g = f
      BY <2>1, InAppended
    <2>4. CASE pc = "rest"
      BY <1>4, <2>2, <2>3, <2>4
    <2>5. CASE pc = "push"
      BY <1>4, <2>2, <2>5
    <2> QED
      BY <2>4, <2>5
  <1>6. PICK W \in Nat, q \in Nat, t \in Nat, m \in 0 .. H - 1 : FlowIs(f, W, q, m, t)
    BY DEF FlowInv
  <1>7. /\ OthersSame(f) /\ Holds(e, f) /\ jw'[e].pc = pc /\ jw'[e].flow = f
        /\ \A d \in JobWorkers : d # e => jw'[d] = jw[d] /\ (Holds(d, f)' <=> Holds(d, f))
        /\ PointersAre(f, W, q, m, t)' /\ RowsAre(f, W, q, m)' /\ TransferIs(f, W, q, m, t)'
        /\ LockIs(f, q, m)' /\ JobsAre(f, q, t)'
    BY <1>1, <1>2, <1>4, <1>5, <1>6, FrameMoves
  <1>8. Decoded(f)' = Decoded(f) /\ FramesAre(f, q) /\ OrderIs(f, q)
    BY <1>2, <1>6 DEF Decoded, FlowIs
  <1>9. FramesAre(f, q)' /\ OrderIs(f, q)'
    <2>1. CASE pc = "push"
      <3>1. FramesSame(f)
        BY <1>4, <1>7, <1>8, <2>1 DEF FramesSame, HoldersSame, Holds
      <3>2. OrderSame(f)
        BY <1>2, <1>4, <2>1, <3>1 DEF OrderSame
      <3> QED
        BY <1>8, <3>1, <3>2, FramesQuiet, OrderQuiet
    <2>2. CASE pc = "rest"
      <3>1. ~Holds(e, f)' /\ In(dropped', f)
        BY <1>5, <1>7, <2>2 DEF Holds
      <3>2. \A d \in JobWorkers : Holds(d, f)' => Holds(d, f) /\ work'[d] = work[d]
        BY <1>5, <1>7, <3>1
      <3>3. FramesAre(f, q)'
        BY <1>8, <3>2 DEF FramesAre
      <3>4. OrderIs(f, q)'
        BY <1>2, <1>8, <3>1, <3>2 DEF OrderIs
      <3> QED
        BY <3>3, <3>4
    <2> QED
      BY <2>1, <2>2
  <1>10. KeepsFlow(f)
    BY <1>6, <1>7, <1>9 DEF KeepsFlow, FlowIs
  <1> QED
    BY <1>7, <1>10, FlowsKeep

(* A frame at the end of a list, which others follow it in. *)
LEMMA FrameAppended ==
    ASSUME NEW s \in Seq(Seq(Parts)), NEW x \in Seq(Parts), NEW q \in Nat,
           Differ(s), AllGood(s, q), Good(x, q), NotIn(s, x)
    PROVE  /\ Differ(Append(s, x)) /\ AllGood(Append(s, x), q)
           /\ \A y : NotIn(s, y) /\ FrameNumber(x) # FrameNumber(y) => NotIn(Append(s, x), y)
           /\ Rising(s) /\ FrameNumber(x) = q - 1 => Rising(Append(s, x))
           /\ Counted(s) /\ FrameNumber(x) = Len(s) => Counted(Append(s, x))
  <1>1. PICK v \in Seq(Seq(Parts)) : v = Append(s, x)
    BY Appended
  <1>2. PICK n \in Nat : n = Len(s)
    OBVIOUS
  <1>3. /\ Len(v) = n + 1 /\ v[n + 1] = x
        /\ \A i \in 1 .. n : v[i] = s[i]
    BY <1>1, <1>2, Appended
  <1>4. \A i \in 1 .. n + 1 : i \in 1 .. n \/ i = n + 1
    OBVIOUS
  <1>5. \A i \in 1 .. n : Good(s[i], q) /\ FrameNumber(s[i]) # FrameNumber(x)
    BY <1>2 DEF AllGood, NotIn
  <1>6. AllGood(v, q)
    BY <1>3, <1>4, <1>5 DEF AllGood
  <1>7. Differ(v)
    BY <1>2, <1>3, <1>4, <1>5 DEF Differ
  <1>8. ASSUME NEW y, NotIn(s, y), FrameNumber(x) # FrameNumber(y) PROVE NotIn(v, y)
    BY <1>2, <1>3, <1>4, <1>8 DEF NotIn
  <1>9. ASSUME Rising(s), FrameNumber(x) = q - 1 PROVE Rising(v)
    <2>1. \A i \in 1 .. n : FrameNumber(s[i]) \in 0 .. q - 1 /\ FrameNumber(s[i]) < q - 1
      <3>1. ASSUME NEW i \in 1 .. n
            PROVE  FrameNumber(s[i]) \in 0 .. q - 1 /\ FrameNumber(s[i]) < q - 1
        <4>1. PICK a \in 0 .. q - 1 : a = FrameNumber(s[i])
          BY <1>5, <3>1 DEF Good
        <4>2. a # q - 1
          BY <1>5, <1>9, <3>1, <4>1
        <4> QED
          BY <4>1, <4>2
      <3> QED
        BY <3>1
    <2>2. ASSUME NEW j \in 1 .. n + 1, NEW k \in 1 .. n + 1, j < k
          PROVE  FrameNumber(v[j]) < FrameNumber(v[k])
      <3>1. j \in 1 .. n
        BY <2>2
      <3>2. CASE k \in 1 .. n
        BY <1>2, <1>3, <1>9, <2>2, <3>1, <3>2 DEF Rising
      <3>3. CASE k = n + 1
        BY <1>3, <1>9, <2>1, <3>1, <3>3
      <3> QED
        BY <1>4, <3>2, <3>3
    <2> QED
      BY <1>3, <2>2 DEF Rising
  <1>10. ASSUME Counted(s), FrameNumber(x) = Len(s) PROVE Counted(v)
    <2>1. ASSUME NEW k \in 1 .. n + 1 PROVE FrameNumber(v[k]) = k - 1
      <3>1. CASE k \in 1 .. n
        BY <1>2, <1>3, <1>10, <3>1 DEF Counted
      <3>2. CASE k = n + 1
        BY <1>2, <1>3, <1>10, <3>2
      <3> QED
        BY <1>4, <3>1, <3>2
    <2> QED
      BY <1>3, <2>1 DEF Counted
  <1> QED
    BY <1>1, <1>6, <1>7, <1>8, <1>9, <1>10

(* Where a sequence that is joined with another is longer. *)
LEMMA JoinedSequences ==
    ASSUME NEW S, NEW s \in Seq(S), NEW t \in Seq(S)
    PROVE  /\ s \o t \in Seq(S)
           /\ \A x \in S : s \o Append(t, x) = Append(s \o t, x)
           /\ t # <<>> => Append(s, Head(t)) \o Tail(t) = s \o t
  <1>1. s \o t \in Seq(S)
    BY ConcatProperties
  <1>2. ASSUME NEW x \in S PROVE s \o Append(t, x) = Append(s \o t, x)
    <2>1. <<x>> \in Seq(S)
      OBVIOUS
    <2>2. Append(t, x) = t \o <<x>> /\ Append(s \o t, x) = (s \o t) \o <<x>>
      BY <1>1, AppendIsConcat
    <2>3. (s \o t) \o <<x>> = s \o (t \o <<x>>)
      BY <2>1, ConcatAssociative
    <2> QED
      BY <2>2, <2>3
  <1>3. ASSUME t # <<>> PROVE Append(s, Head(t)) \o Tail(t) = s \o t
    <2>1. PICK x \in S, u \in Seq(S) :
            /\ x = Head(t) /\ u = Tail(t) /\ t[1] = x /\ Len(u) = Len(t) - 1
            /\ \A i \in 1 .. Len(t) - 1 : u[i] = t[i + 1]
      <3>1. /\ Head(t) \in S /\ Tail(t) \in Seq(S) /\ Head(t) = t[1]
            /\ Len(Tail(t)) = Len(t) - 1
            /\ \A i \in 1 .. Len(t) - 1 : Tail(t)[i] = t[i + 1]
        BY <1>3, SeqSteps
      <3> QED
        BY <3>1
    <2>2. PICK v : v = <<x>> \o u
      OBVIOUS
    <2>3. <<x>> \in Seq(S) /\ Len(<<x>>) = 1 /\ <<x>>[1] = x
      OBVIOUS
    <2>4. /\ v \in Seq(S) /\ Len(v) = 1 + Len(u)
          /\ \A i \in 1 .. 1 + Len(u) : v[i] = IF i <= 1 THEN <<x>>[i] ELSE u[i - 1]
      BY <2>2, <2>3, ConcatProperties
    <2>5. Len(t) \in Nat /\ Len(v) = Len(t)
      BY <2>1, <2>4
    <2>6. ASSUME NEW i \in 1 .. Len(t) PROVE v[i] = t[i]
      <3>1. CASE i = 1
        BY <2>1, <2>3, <2>4, <2>5, <3>1
      <3>2. CASE i # 1
        <4>1. i - 1 \in 1 .. Len(t) - 1 /\ (i - 1) + 1 = i
          BY <2>5, <3>2
        <4>2. v[i] = u[i - 1] /\ u[i - 1] = t[(i - 1) + 1]
          BY <2>1, <2>4, <2>5, <3>2, <4>1
        <4> QED
          BY <4>1, <4>2
      <3> QED
        BY <3>1, <3>2
    <2>7. v = t
      <3>1. v = [i \in 1 .. Len(v) |-> v[i]] /\ t = [i \in 1 .. Len(t) |-> t[i]]
        BY <2>4
      <3> QED
        BY <2>5, <2>6, <3>1
    <2>8. Append(s, x) = s \o <<x>>
      BY AppendIsConcat
    <2>9. (s \o <<x>>) \o u = s \o (<<x>> \o u)
      BY <2>3, ConcatAssociative
    <2> QED
      BY <2>1, <2>2, <2>7, <2>8, <2>9
  <1> QED
    BY <1>1, <1>2, <1>3

(* A frame comes to its flow's list. *)
LEMMA FlowPush ==
    ASSUME OfmapType, PoolInv, FlowInv, NEW e \in JobWorkers, DecodePush(e)
    PROVE  FlowInv'
  <1>1. PICK f \in Flows : f = jw[e].flow
    BY Typed
  <1>2. /\ jw[e].pc = "push"
        /\ queue' = [queue EXCEPT ![f] = Append(@, work[e])]
        /\ work' = [work EXCEPT ![e] = <<>>]
        /\ JobWorkerGoes(e, "rest")
        /\ UNCHANGED <<jobs, pool, lost, wk, ctl, ring, rcv, user, calls, fetched,
                       dropped, delivered>>
    BY <1>1 DEF DecodePush
  <1>3. PICK x \in Seq(Parts), s \in Seq(Seq(Parts)) : x = work[e] /\ s = Decoded(f)
    <2>1. work[e] \in Seq(Parts) /\ delivered[f] \in Seq(Seq(Parts)) /\ queue[f] \in Seq(Seq(Parts))
      BY Typed
    <2> QED
      BY <2>1, ConcatProperties DEF Decoded
  <1>4. /\ \A d \in JobWorkers : d # e => work'[d] = work[d]
        /\ \A g \in Flows : g # f => queue'[g] = queue[g]
        /\ queue'[f] = Append(queue[f], x)
    <2>1. work \in [JobWorkers -> Seq(Parts)] /\ queue \in [Flows -> Seq(Seq(Parts))]
      BY DEF OfmapType
    <2> QED
      BY <1>2, <1>3, <2>1
  <1>5. PICK W \in Nat, q \in Nat, t \in Nat, m \in 0 .. H - 1 : FlowIs(f, W, q, m, t)
    BY DEF FlowInv
  <1>6. /\ OthersSame(f) /\ Holds(e, f) /\ jw'[e].pc = "rest" /\ jw'[e].flow = f
        /\ \A d \in JobWorkers : d # e => jw'[d] = jw[d] /\ (Holds(d, f)' <=> Holds(d, f))
        /\ PointersAre(f, W, q, m, t)' /\ RowsAre(f, W, q, m)' /\ TransferIs(f, W, q, m, t)'
        /\ LockIs(f, q, m)' /\ JobsAre(f, q, t)'
    <2>1. \A g \in Flows : g # f => queue'[g] = queue[g] /\ (In(dropped', g) <=> In(dropped, g))
      BY <1>2, <1>4
    <2>2. PICK pc \in {"rest", "push"} : pc = "rest" /\ JobWorkerGoes(e, pc)
      BY <1>2
    <2>3. jw[e].pc \in {"full", "push"}
          /\ UNCHANGED <<jobs, lost, wk, ctl, ring, rcv, fetched, delivered>>
      BY <1>2
    <2> QED
      BY <1>1, <1>4, <1>5, <2>1, <2>2, <2>3, FrameMoves
  <1>7. FramesAre(f, q) /\ OrderIs(f, q)
    BY <1>5 DEF FlowIs
  <1>8. Decoded(f)' = Append(s, x)
    <2>1. delivered[f] \in Seq(Seq(Parts)) /\ queue[f] \in Seq(Seq(Parts))
      BY Typed
    <2>2. PICK a \in Seq(Seq(Parts)), b \in Seq(Seq(Parts)) : a = delivered[f] /\ b = queue[f]
      BY <2>1
    <2>3. \A y \in Seq(Parts) : a \o Append(b, y) = Append(a \o b, y)
      <3> DEFINE S == Seq(Parts)
      <3>1. a \in Seq(S) /\ b \in Seq(S)
        OBVIOUS
      <3> HIDE DEF S
      <3>2. \A y \in S : a \o Append(b, y) = Append(a \o b, y)
        BY <3>1, JoinedSequences
      <3> QED
        BY <3>2 DEF S
    <2>4. a \o Append(b, x) = Append(a \o b, x)
      BY <2>3
    <2>5. Decoded(f)' = a \o Append(b, x) /\ s = a \o b
      BY <1>2, <1>3, <1>4, <2>2 DEF Decoded
    <2> QED
      BY <2>4, <2>5
  <1>9. /\ Differ(s) /\ AllGood(s, q) /\ Good(x, q) /\ NotIn(s, x)
        /\ \A d \in JobWorkers : d # e /\ Holds(d, f) => FrameNumber(x) # FrameNumber(work[d])
    BY <1>3, <1>6, <1>7 DEF FramesAre
  <1>10. /\ Differ(Append(s, x)) /\ AllGood(Append(s, x), q)
         /\ \A y : NotIn(s, y) /\ FrameNumber(x) # FrameNumber(y) => NotIn(Append(s, x), y)
         /\ Rising(s) /\ FrameNumber(x) = q - 1 => Rising(Append(s, x))
         /\ Counted(s) /\ FrameNumber(x) = Len(s) => Counted(Append(s, x))
    BY <1>9, FrameAppended
  <1>11. ~Holds(e, f)' /\ \A d \in JobWorkers : Holds(d, f)' =>
           d # e /\ Holds(d, f) /\ work'[d] = work[d]
    BY <1>4, <1>6 DEF Holds
  <1>12. FramesAre(f, q)'
    <2>1. ASSUME NEW d \in JobWorkers, Holds(d, f)'
          PROVE  /\ Good(work'[d], q) /\ NotIn(Append(s, x), work'[d])
                 /\ \A c \in JobWorkers : c # d /\ Holds(c, f)' =>
                      FrameNumber(work'[c]) # FrameNumber(work'[d])
      <3>1. d # e /\ Holds(d, f) /\ work'[d] = work[d]
        BY <1>11, <2>1
      <3>2. /\ Good(work[d], q) /\ NotIn(s, work[d])
            /\ \A c \in JobWorkers : c # d /\ Holds(c, f) =>
                 FrameNumber(work[c]) # FrameNumber(work[d])
        BY <1>3, <1>7, <3>1 DEF FramesAre
      <3>3. NotIn(Append(s, x), work[d])
        BY <1>9, <1>10, <3>1, <3>2
      <3> QED
        BY <1>11, <3>1, <3>2, <3>3
    <2> QED
      BY <1>8, <1>10, <2>1 DEF FramesAre
  <1>13. OrderIs(f, q)'
    <2>1. SUFFICES ASSUME ~ctl.grown PROVE OrderIs(f, q)'
      BY <1>2 DEF OrderIs
    <2>2. \A d \in JobWorkers : ~Holds(d, f)'
      <3>1. \A d \in JobWorkers : d # e => jw[d].pc = "off"
        BY <1>2, <2>1, AloneUnlessGrown, Typed
      <3> QED
        BY <1>11, <3>1 DEF Holds
    <2>3. ctl.pc # "gone"
      BY <1>2, AloneUnlessGrown, Typed
    <2>4. /\ Rising(s) /\ FrameNumber(x) = q - 1
          /\ ~In(dropped, f) => Len(s) = q - 1 /\ Counted(s)
      BY <1>3, <1>6, <1>7, <2>1, <2>3 DEF OrderIs
    <2>5. Len(Append(s, x)) = Len(s) + 1 /\ Len(s) \in Nat
      BY Appended
    <2> QED
      BY <1>2, <1>8, <1>10, <2>2, <2>4, <2>5 DEF OrderIs
  <1>14. KeepsFlow(f)
    BY <1>5, <1>6, <1>12, <1>13 DEF KeepsFlow, FlowIs
  <1> QED
    BY <1>6, <1>14, FlowsKeep

-----------------------------------------------------------------------------
(* Readers, the loop of a job worker, and control. *)

(* Steps that do nothing to the flows. *)
LEMMA FlowsStay ==
    ASSUME OfmapType, FlowInv, KeepsWorking, KeepsMoving,
           UNCHANGED <<ring, work, rcv, fetched, dropped, jobs, lost>>,
           \A g \in Flows : Decoded(g)' = Decoded(g),
           ctl.grown => ctl'.grown, ctl'.pc # "gone" => ctl.pc # "gone"
    PROVE  FlowInv'
  <1>1. NF \notin Flows
    BY Sizes DEF Flows
  <1>2. WorkingElse(NF)
    BY DEF WorkingElse, KeepsWorking, Away
  <1>3. TransferElse(NF)
    BY DEF TransferElse, KeepsMoving, InTransfer
  <1>4. \A g \in Flows : FlowElse(g)
    BY DEF FlowElse, JobsFor, LostFor
  <1>5. OthersSame(NF)
    BY <1>2, <1>3, <1>4 DEF OthersSame, OtherRingsSame
  <1> QED
    BY <1>1, <1>5, FlowsKeep

(* The readers. *)
LEMMA FlowReaders ==
    ASSUME OfmapType, FlowInv, NEW u \in Readers,
           (\E f \in Flows : ReadCall(u, f)) \/ ReadPoll(u) \/ ReadPop(u)
    PROVE  FlowInv'
  <1>1. /\ UNCHANGED <<ring, work, rcv, fetched, dropped, jobs, lost, jw, wk, ctl>>
        /\ KeepsWorking /\ KeepsMoving
    <2>1. UNCHANGED sharedVars /\ UNCHANGED <<ring, work, rcv, fetched, dropped>>
      BY DEF ReadCall, ReadPoll, ReadPop
    <2> QED
      BY <2>1 DEF sharedVars, KeepsWorking, KeepsMoving
  <1>2. ASSUME UNCHANGED <<queue, delivered>> PROVE FlowInv'
    <2>1. \A g \in Flows : Decoded(g)' = Decoded(g)
      BY <1>2 DEF Decoded
    <2> QED
      BY <1>1, <2>1, FlowsStay
  <1>3. CASE (\E f \in Flows : ReadCall(u, f)) \/ ReadPoll(u)
    BY <1>2, <1>3 DEF ReadCall, ReadPoll
  <1>4. CASE ReadPop(u)
    <2>1. PICK f \in Flows : f = user[u].flow
      BY Typed
    <2>2. PICK a \in Seq(Seq(Parts)), b \in Seq(Seq(Parts)) : a = delivered[f] /\ b = queue[f]
      BY Typed
    <2>3. CASE b = <<>>
      <3>1. UNCHANGED <<queue, delivered>>
        BY <1>4, <2>1, <2>2, <2>3 DEF ReadPop
      <3> QED
        BY <1>2, <3>1
    <2>4. CASE b # <<>>
      <3>1. /\ delivered' = [delivered EXCEPT ![f] = Append(@, Head(queue[f]))]
            /\ queue' = [queue EXCEPT ![f] = Tail(@)]
        BY <1>4, <2>1, <2>2, <2>4 DEF ReadPop
      <3>2. queue \in [Flows -> Seq(Seq(Parts))] /\ delivered \in [Flows -> Seq(Seq(Parts))]
        BY DEF OfmapType
      <3>3. /\ delivered'[f] = Append(a, Head(b)) /\ queue'[f] = Tail(b)
            /\ \A g \in Flows : g # f => delivered'[g] = delivered[g] /\ queue'[g] = queue[g]
        BY <2>2, <3>1, <3>2
      <3>4. Append(a, Head(b)) \o Tail(b) = a \o b
        BY <2>4, JoinedSequences
      <3>5. \A g \in Flows : Decoded(g)' = Decoded(g)
        BY <2>2, <3>3, <3>4 DEF Decoded
      <3> QED
        BY <1>1, <3>5, FlowsStay
    <2> QED
      BY <2>3, <2>4
  <1> QED
    BY <1>3, <1>4

(* A job is taken: it is executed, or thrown away by a job worker that is  *)
(* stopped.                                                                *)
LEMMA FlowPop ==
    ASSUME OfmapType, FlowInv, NEW e \in JobWorkers, JobWorkerPop(e), jobs # <<>>,
           UNCHANGED ofmapVars
    PROVE  FlowInv'
  <1>1. jobs \in Seq(Flows) /\ lost \in Seq(Flows) /\ WorkersType(Flows)
    BY Typed DEF WorkersType
  <1>2. PICK f \in Flows : f = Head(jobs)
    BY <1>1, SeqSteps
  <1>3. /\ jw[e].pc = "pop" /\ jobs' = Tail(jobs)
        /\ \/ jw' = [jw EXCEPT ![e].pc = "execute", ![e].flow = f] /\ UNCHANGED lost
           \/ JobWorkerGoes(e, "rest") /\ lost' = Append(lost, f)
        /\ UNCHANGED <<pool, wk, ctl>>
        /\ UNCHANGED <<ring, queue, work, rcv, fetched, dropped, delivered>>
    BY <1>2 DEF JobWorkerPop, ofmapVars
  <1>4. /\ Times(jobs, f) \in Nat
        /\ Times(jobs', f) = Times(jobs, f) - 1 /\ Times(jobs, f) >= 1
        /\ \A g : g # f => Times(jobs', g) = Times(jobs, g)
    <2>1. \A g : /\ Head(jobs) = g =>
                      Times(Tail(jobs), g) = Times(jobs, g) - 1 /\ Times(jobs, g) >= 1
                 /\ Head(jobs) # g => Times(Tail(jobs), g) = Times(jobs, g)
                 /\ Times(jobs, g) \in Nat
      BY <1>1, CountTail
    <2> QED
      BY <1>2, <1>3, <2>1
  <1>5. /\ \A d \in JobWorkers : d # e => jw'[d] = jw[d]
        /\ \/ jw'[e].pc = "execute" /\ jw'[e].flow = f /\ lost' = lost
           \/ jw'[e].pc = "rest" /\ lost' = Append(lost, f)
    <2>1. CASE jw' = [jw EXCEPT ![e].pc = "execute", ![e].flow = f] /\ UNCHANGED lost
      <3>1. jw \in [JobWorkers -> JobWorkerStates(Flows)]
        BY Typed
      <3>2. jw[e] \in JobWorkerStates(Flows)
        BY <3>1
      <3> QED
        BY <2>1, <3>1, <3>2 DEF JobWorkerStates
    <2>2. CASE JobWorkerGoes(e, "rest") /\ lost' = Append(lost, f)
      <3>1. "rest" \in JobPCs
        BY DEF JobPCs
      <3> QED
        BY <1>1, <2>2, <3>1, JobWorkerMoves
    <2> QED
      BY <1>3, <2>1, <2>2
  <1>6. \A g : g # f => Times(lost', g) = Times(lost, g)
    <2>1. \A g : g # f => Times(Append(lost, f), g) = Times(lost, g)
      BY <1>1, CountAppended
    <2> QED
      BY <1>5, <2>1
  <1>7. OthersSame(f)
    <2>1. WorkingElse(f)
      BY <1>3, <1>5 DEF WorkingElse, Away, Resting
    <2>2. \A g \in Flows : g # f => FlowElse(g)
      BY <1>3, <1>4, <1>6 DEF FlowElse, Decoded, JobsFor, LostFor, Times
    <2>3. TransferElse(f)
      BY <1>3 DEF TransferElse
    <2> QED
      BY <1>3, <2>1, <2>2, <2>3 DEF OthersSame, OtherRingsSame
  <1>8. PICK W \in Nat, q \in Nat, t \in Nat, m \in 0 .. H - 1 : FlowIs(f, W, q, m, t)
    BY DEF FlowInv
  <1>9. PointersAre(f, W, q, m, t)' /\ RowsAre(f, W, q, m)' /\ TransferIs(f, W, q, m, t)'
    <2>1. PointersSame(f) /\ RowsSame(f) /\ TransferSame(f)
      BY <1>3 DEF PointersSame, RowsSame, TransferSame, Got, Transferring
    <2> QED
      BY <1>8, <2>1, PointersQuiet, RowsQuiet, TransferQuiet DEF FlowIs
  <1>10. /\ LockSame(f) /\ HoldersSame(f)
    BY <1>3, <1>5 DEF LockSame, HoldersSame, Reading, Holds
  <1>11. LockIs(f, q, m)' /\ FramesAre(f, q)' /\ OrderIs(f, q)'
    <2>1. FramesSame(f)
      BY <1>3, <1>10 DEF FramesSame, Decoded
    <2>2. OrderSame(f)
      BY <1>3, <2>1 DEF OrderSame
    <2> QED
      BY <1>8, <1>10, <2>1, <2>2, LockQuiet, FramesQuiet, OrderQuiet DEF FlowIs
  <1>12. JobsAre(f, q, t)'
    <2>1. JobsAre(f, q, t) /\ Signalling(f)' = Signalling(f) /\ Held(f)' = Held(f)
      BY <1>3, <1>8 DEF FlowIs, Signalling, Held
    <2>2. /\ JobsFor(f) \in Nat /\ LostFor(f) \in Nat /\ WorkersAt(f, "execute") \in Nat
          /\ Held(f) \in Nat
      BY CountsTyped DEF Held
    <2>3. JobsFor(f)' = JobsFor(f) - 1
      BY <1>4 DEF JobsFor, Times
    <2>4. \A d \in JobWorkers : d # e => (IsAt(d, f, "execute")' <=> IsAt(d, f, "execute"))
      BY <1>5 DEF IsAt
    <2>5. ~IsAt(e, f, "execute")
      BY <1>3 DEF IsAt
    <2>6. CASE jw'[e].pc = "execute" /\ jw'[e].flow = f /\ lost' = lost
      <3>1. WorkersAt(f, "execute")' = WorkersAt(f, "execute") + 1
        <4>1. IsAt(e, f, "execute")'
          BY <2>6 DEF IsAt
        <4> QED
          BY <2>4, <2>5, <4>1, WorkersChange
      <3>2. LostFor(f)' = LostFor(f)
        BY <2>6 DEF LostFor
      <3> QED
        BY <1>3, <2>1, <2>2, <2>3, <3>1, <3>2 DEF JobsAre
    <2>7. CASE jw'[e].pc = "rest" /\ lost' = Append(lost, f)
      <3>1. WorkersAt(f, "execute")' = WorkersAt(f, "execute")
        <4>1. ~IsAt(e, f, "execute")'
          BY <2>7 DEF IsAt
        <4> QED
          BY <2>4, <2>5, <4>1, WorkersChange
      <3>2. LostFor(f)' = LostFor(f) + 1
        <4>1. Times(Append(lost, f), f) = Times(lost, f) + 1
          BY <1>1, CountAppended
        <4> QED
          BY <2>7, <4>1 DEF LostFor, Times
      <3> QED
        BY <1>3, <2>1, <2>2, <2>3, <3>1, <3>2 DEF JobsAre
    <2> QED
      BY <1>5, <2>6, <2>7
  <1>13. KeepsFlow(f)
    BY <1>8, <1>9, <1>11, <1>12 DEF KeepsFlow, FlowIs
  <1> QED
    BY <1>7, <1>13, FlowsKeep

(* The loop of a job worker, control, and steps of others. *)
LEMMA FlowElsewhere ==
    ASSUME OfmapType, FlowInv,
           UNCHANGED vars \/ (\E e \in JobWorkers : LoopStep(e)) \/ ControlStep
    PROVE  FlowInv'
  <1>1. CASE UNCHANGED vars
    <2>1. /\ UNCHANGED <<ring, work, rcv, fetched, dropped, jobs, lost, queue, delivered, ctl>>
          /\ KeepsWorking /\ KeepsMoving
      BY <1>1 DEF vars, sharedVars, KeepsWorking, KeepsMoving
    <2>2. \A g \in Flows : Decoded(g)' = Decoded(g)
      BY <2>1 DEF Decoded
    <2> QED
      BY <2>1, <2>2, FlowsStay
  <1>2. ASSUME NEW e \in JobWorkers, LoopStep(e) PROVE FlowInv'
    <2>1. CASE JobWorkerPop(e) /\ jobs # <<>>
      BY <1>2, <2>1, FlowPop DEF LoopStep
    <2>2. CASE ~(JobWorkerPop(e) /\ jobs # <<>>)
      <3>1. /\ KeepsWorking /\ UNCHANGED <<wk, ctl>>
            /\ JobWorkerPop(e) \/ UNCHANGED <<jobs, lost>>
        BY <1>2, <2>2, LoopKeeps, Typed DEF LoopStep
      <3>2. UNCHANGED <<jobs, lost>>
        <4>1. ASSUME JobWorkerPop(e), jobs = <<>> PROVE UNCHANGED <<jobs, lost>>
          BY <4>1 DEF JobWorkerPop
        <4> QED
          BY <2>2, <3>1, <4>1
      <3>3. UNCHANGED <<ring, work, rcv, fetched, dropped, queue, delivered>> /\ KeepsMoving
        BY <1>2, <3>1 DEF LoopStep, ofmapVars, KeepsMoving
      <3>4. \A g \in Flows : Decoded(g)' = Decoded(g)
        BY <3>3 DEF Decoded
      <3> QED
        BY <3>1, <3>2, <3>3, <3>4, FlowsStay
    <2> QED
      BY <2>1, <2>2
  <1>3. CASE ControlStep
    <2>1. /\ KeepsWorking /\ KeepsMoving /\ UNCHANGED <<jobs, lost>> /\ UNCHANGED ofmapVars
          /\ ctl'.pc = "gone" <=> ctl.pc = "gone"
          /\ ctl.grown => ctl'.grown
      BY <1>3, ControlStepKeeps
    <2>2. UNCHANGED <<ring, work, rcv, fetched, dropped, queue, delivered>>
      BY <2>1 DEF ofmapVars
    <2>3. \A g \in Flows : Decoded(g)' = Decoded(g)
      BY <2>2 DEF Decoded
    <2> QED
      BY <2>1, <2>2, <2>3, FlowsStay
  <1> QED
    BY <1>1, <1>2, <1>3

(* The end of destroy: the lists are emptied. *)
LEMMA FlowJoin ==
    ASSUME OfmapType, PoolInv, FlowInv, JoinStep
    PROVE  FlowInv'
  <1>1. /\ UNCHANGED <<jw, lost, wk, ring, work, rcv, fetched, dropped, delivered>>
        /\ ctl'.pc = "gone" /\ ctl'.grown = ctl.grown
        /\ \A e \in JobWorkers : jw[e].pc = "off"
        /\ queue' = [f \in Flows |-> <<>>]
    <2>1. DestroyJoin
      BY DEF JoinStep
    <2> QED
      BY <2>1, ControlMarks, Typed DEF JoinStep, DestroyJoin
  <1>2. ASSUME NEW f \in Flows PROVE KeepsFlow(f)
    <2>1. PICK W \in Nat, q \in Nat, t \in Nat, m \in 0 .. H - 1 : FlowIs(f, W, q, m, t)
      BY DEF FlowInv
    <2>2. PICK d \in Seq(Seq(Parts)), s \in Seq(Seq(Parts)), n \in Nat, l \in Nat :
            /\ d = Decoded(f)' /\ s = Decoded(f) /\ n = Len(d) /\ l = Len(s) /\ n <= l
            /\ \A k \in 1 .. n : d[k] = s[k]
      <3>1. PICK a \in Seq(Seq(Parts)), b \in Seq(Seq(Parts)) : a = delivered[f] /\ b = queue[f]
        BY Typed
      <3>2. Decoded(f)' = a \o <<>> /\ Decoded(f) = a \o b
        BY <1>1, <3>1 DEF Decoded
      <3>3. a \o <<>> = a
        BY ConcatEmptySeq
      <3>4. /\ a \o b \in Seq(Seq(Parts)) /\ Len(a \o b) = Len(a) + Len(b)
            /\ \A i \in 1 .. Len(a) + Len(b) : (a \o b)[i] =
                 IF i <= Len(a) THEN a[i] ELSE b[i - Len(a)]
        BY ConcatProperties
      <3>5. PICK s \in Seq(Seq(Parts)) :
              /\ s = a \o b /\ Len(s) = Len(a) + Len(b)
              /\ \A i \in 1 .. Len(a) + Len(b) : s[i] =
                   IF i <= Len(a) THEN a[i] ELSE b[i - Len(a)]
        BY <3>4
      <3>6. PICK n \in Nat, l \in Nat : n = Len(a) /\ l = Len(s) /\ n <= l
        BY <3>5
      <3>7. \A k \in 1 .. n : a[k] = s[k]
        BY <3>5, <3>6
      <3>8. Decoded(f)' = a /\ Decoded(f) = s
        BY <3>2, <3>3, <3>5
      <3> QED
        BY <3>6, <3>7, <3>8
    <2>3. \A k \in 1 .. n : k \in 1 .. l
      BY <2>2
    <2>4. \A e \in JobWorkers : /\ ~Reading(e, f) /\ ~Holds(e, f)
                                /\ ~Reading(e, f)' /\ ~Holds(e, f)'
      BY <1>1 DEF Reading, Holds
    <2>5. PointersAre(f, W, q, m, t)' /\ RowsAre(f, W, q, m)' /\ TransferIs(f, W, q, m, t)'
      <3>1. PointersSame(f) /\ RowsSame(f) /\ TransferSame(f)
        BY <1>1 DEF PointersSame, RowsSame, TransferSame, Got, Transferring
      <3> QED
        BY <2>1, <3>1, PointersQuiet, RowsQuiet, TransferQuiet DEF FlowIs
    <2>6. LockIs(f, q, m)'
      <3>1. LockSame(f)
        BY <1>1, <2>4 DEF LockSame
      <3> QED
        BY <2>1, <3>1, LockQuiet DEF FlowIs
    <2>7. FramesAre(f, q)'
      <3>1. Differ(s) /\ AllGood(s, q)
        BY <2>1, <2>2 DEF FlowIs, FramesAre
      <3>2. Differ(d) /\ AllGood(d, q)
        <4>1. AllGood(d, q)
          BY <2>2, <2>3, <3>1 DEF AllGood
        <4>2. ASSUME NEW j \in 1 .. n, NEW k \in 1 .. n, FrameNumber(d[j]) = FrameNumber(d[k])
              PROVE  j = k
          <5>1. j \in 1 .. l /\ k \in 1 .. l /\ d[j] = s[j] /\ d[k] = s[k]
            BY <2>2, <2>3
          <5>2. FrameNumber(s[j]) = FrameNumber(s[k])
            BY <4>2, <5>1
          <5> QED
            BY <2>2, <3>1, <5>1, <5>2 DEF Differ
        <4>3. Differ(d)
          BY <2>2, <4>2 DEF Differ
        <4> QED
          BY <4>1, <4>3
      <3> QED
        BY <2>2, <2>4, <3>2 DEF FramesAre
    <2>8. JobsAre(f, q, t)'
      BY <1>1 DEF JobsAre
    <2>9. OrderIs(f, q)'
      <3>1. SUFFICES ASSUME ~ctl.grown PROVE OrderIs(f, q)'
        BY <1>1 DEF OrderIs
      <3>2. Rising(s) /\ (~In(dropped, f) => Counted(s))
        BY <2>1, <2>2, <3>1 DEF FlowIs, OrderIs
      <3>3. Rising(d) /\ (~In(dropped, f) => Counted(d))
        BY <2>2, <2>3, <3>2 DEF Rising, Counted
      <3> QED
        BY <1>1, <2>2, <2>4, <3>3 DEF OrderIs
    <2> QED
      BY <2>1, <2>5, <2>6, <2>7, <2>8, <2>9 DEF KeepsFlow, FlowIs
  <1> QED
    BY <1>2 DEF FlowInv, KeepsFlow

(* If nodes fit, every step keeps the invariant of the flows. *)
LEMMA FlowSteps ==
    ASSUME NodesFit, OfmapType, PlaceInv, BeginRoom, PoolInv, EmptyHanded, FlowInv, [Next]_vars,
           OfmapType', PlaceInv'
    PROVE  FlowInv'
  <1>1. ASSUME NEW u \in Readers, (\E f \in Flows : ReadCall(u, f)) \/ ReadPoll(u) \/ ReadPop(u)
        PROVE  FlowInv'
    BY <1>1, FlowReaders
  <1>2. ASSUME NEW e \in JobWorkers,
               DecodeLock(e) \/ DecodeRow(e) \/ DecodePoll(e) \/ DecodePush(e)
        PROVE  FlowInv'
    BY <1>2, FlowLock, FlowRow, FlowPoll, FlowPush
  <1>3. CASE WorkerTop \/ ScanFlow \/ TransferBegin \/ ReadNothing \/ GateStep
    BY <1>3, FlowBegin
  <1>4. CASE ReadParts \/ Publish \/ ReportJob \/ Report
    BY <1>4, FlowRead, FlowPublish, FlowJob, FlowReport
  <1>5. CASE UNCHANGED vars \/ (\E e \in JobWorkers : LoopStep(e)) \/ ControlStep
    BY <1>5, FlowElsewhere
  <1>6. CASE JoinStep
    BY <1>6, FlowJoin
  <1> QED
    BY <1>1, <1>2, <1>3, <1>4, <1>5, <1>6, Steps

(* The ring of the flow the ofmap worker begins with is not full. *)
LEMMA RoomAtBegin ==
    ASSUME OfmapType, PlaceInv, FlowInv
    PROVE  BeginRoom
  <1>1. SUFFICES ASSUME wk.pc = "begin" PROVE ~Full(rcv.flow)
    BY DEF BeginRoom
  <1>2. PICK f \in Flows : f = rcv.flow
    BY <1>1 DEF PlaceInv, AtFlow
  <1>3. PICK W \in Nat, q \in Nat, t \in Nat, m \in 0 .. H - 1 : FlowIs(f, W, q, m, t)
    BY DEF FlowInv
  <1>4. PointersAre(f, W, q, m, t) /\ W < H * q + m + R - 1
    BY <1>1, <1>2, <1>3 DEF FlowIs, TransferIs
  <1>5. H * q + m \in Nat /\ (Full(f) <=> W = H * q + m + R - 1)
    BY <1>4, FullIs
  <1>6. PICK a \in Nat : a = H * q + m
    BY <1>5
  <1>7. W # a + R - 1
    BY <1>4, <1>6, Sizes
  <1> QED
    BY <1>2, <1>5, <1>6, <1>7

-----------------------------------------------------------------------------
(* The length of a list. *)

(* Steps that make no list longer and let no job worker come to a push. *)
LEMMA ListsStay ==
    ASSUME OfmapType, OfmapType', ListsInv,
           \A f \in Flows : Len(queue'[f]) <= Len(queue[f]),
           \A e \in JobWorkers : \A f \in Flows : IsAt(e, f, "push")' <=> IsAt(e, f, "push")
    PROVE  ListsInv'
  <1>1. ASSUME NEW f \in Flows
        PROVE  Len(queue'[f]) + WorkersAt(f, "push")' < QueueSize + Cardinality(JobWorkers)
    <2>1. WorkersAt(f, "push")' = WorkersAt(f, "push")
      BY WorkersStay
    <2>2. Len(queue[f]) + WorkersAt(f, "push") < QueueSize + Cardinality(JobWorkers)
      BY DEF ListsInv
    <2>3. /\ Len(queue[f]) \in Nat /\ WorkersAt(f, "push") \in Nat
          /\ Cardinality(JobWorkers) \in Nat /\ QueueSize \in Nat
      BY Typed, CountsTyped, Sizes
    <2>4. Len(queue'[f]) \in Nat
      <3>1. queue'[f] \in Seq(Seq(Parts))
        BY DEF OfmapType
      <3> QED
        BY <3>1
    <2> QED
      BY <2>1, <2>2, <2>3, <2>4
  <1> QED
    BY <1>1 DEF ListsInv

(* A poll that finds space. *)
LEMMA ListsPoll ==
    ASSUME OfmapType, OfmapType', ListsInv, NEW e \in JobWorkers, DecodePoll(e)
    PROVE  ListsInv'
  <1>1. PICK f \in Flows : f = jw[e].flow
    BY Typed
  <1>2. PICK pc \in {"rest", "push"} :
          JobWorkerGoes(e, pc) /\ (pc = "push" => ~QueueFull(f))
    BY <1>1 DEF DecodePoll
  <1>3. jw[e].pc = "full" /\ queue' = queue
    BY DEF DecodePoll
  <1>4. /\ jw'[e].pc = pc /\ jw'[e].flow = f
        /\ \A d \in JobWorkers : d # e => jw'[d] = jw[d]
    <2>1. pc \in JobPCs /\ WorkersType(Flows)
      BY Typed DEF JobPCs
    <2> QED
      BY <1>1, <1>2, <2>1, JobWorkerMoves
  <1>5. CASE pc = "rest"
    <2>1. \A d \in JobWorkers : \A g \in Flows : IsAt(d, g, "push")' <=> IsAt(d, g, "push")
      BY <1>3, <1>4, <1>5 DEF IsAt
    <2>2. \A g \in Flows : Len(queue'[g]) <= Len(queue[g])
      BY <1>3, Typed
    <2> QED
      BY <2>1, <2>2, ListsStay
  <1>6. CASE pc = "push"
    <2>1. ASSUME NEW g \in Flows
          PROVE  Len(queue'[g]) + WorkersAt(g, "push")' < QueueSize + Cardinality(JobWorkers)
      <3>1. /\ Len(queue[g]) \in Nat /\ Cardinality(JobWorkers) \in Nat /\ QueueSize \in Nat
            /\ WorkersAt(g, "push")' \in Nat
            /\ WorkersAt(g, "push")' <= Cardinality(JobWorkers)
        <4>1. IsFiniteSet(JobWorkers) /\ Cardinality(JobWorkers) \in Nat
          BY WorkersAssumption, FS_CardinalityType
        <4>2. PICK A \in SUBSET JobWorkers :
                A = {d \in JobWorkers : jw'[d].pc = "push" /\ jw'[d].flow = g}
          OBVIOUS
        <4>3. Cardinality(A) <= Cardinality(JobWorkers) /\ Cardinality(A) \in Nat
          BY <4>1, FS_Subset, FS_CardinalityType
        <4>4. WorkersAt(g, "push")' = Cardinality(A)
          BY <4>2 DEF WorkersAt
        <4> QED
          BY <4>1, <4>3, <4>4, Typed, Sizes
      <3>2. CASE g = f
        <4>1. Len(queue[g]) < QueueSize
          BY <1>2, <1>6, <3>1, <3>2 DEF QueueFull
        <4> QED
          BY <1>3, <3>1, <4>1
      <3>3. CASE g # f
        <4>1. \A d \in JobWorkers : IsAt(d, g, "push")' <=> IsAt(d, g, "push")
          BY <1>1, <1>4, <3>3 DEF IsAt
        <4>2. WorkersAt(g, "push")' = WorkersAt(g, "push")
          BY <4>1, WorkersStay
        <4> QED
          BY <1>3, <4>2 DEF ListsInv
      <3> QED
        BY <3>2, <3>3
    <2> QED
      BY <2>1 DEF ListsInv
  <1> QED
    BY <1>5, <1>6

(* A push. *)
LEMMA ListsPush ==
    ASSUME OfmapType, OfmapType', ListsInv, NEW e \in JobWorkers, DecodePush(e)
    PROVE  ListsInv'
  <1>1. PICK f \in Flows : f = jw[e].flow
    BY Typed
  <1>2. jw[e].pc = "push" /\ JobWorkerGoes(e, "rest")
        /\ queue' = [queue EXCEPT ![f] = Append(@, work[e])]
    BY <1>1 DEF DecodePush
  <1>3. /\ jw'[e].pc = "rest"
        /\ \A d \in JobWorkers : d # e => jw'[d] = jw[d]
    <2>1. "rest" \in JobPCs /\ WorkersType(Flows)
      BY Typed DEF JobPCs
    <2> QED
      BY <1>2, <2>1, JobWorkerMoves
  <1>4. /\ Len(queue'[f]) = Len(queue[f]) + 1
        /\ \A g \in Flows : g # f => queue'[g] = queue[g]
    <2>1. queue \in [Flows -> Seq(Seq(Parts))] /\ work[e] \in Seq(Parts)
      BY Typed DEF OfmapType
    <2>2. queue'[f] = Append(queue[f], work[e])
      BY <1>2, <2>1
    <2>3. Len(Append(queue[f], work[e])) = Len(queue[f]) + 1
      BY <2>1, Appended
    <2> QED
      BY <1>2, <2>1, <2>2, <2>3
  <1>5. ASSUME NEW g \in Flows
        PROVE  Len(queue'[g]) + WorkersAt(g, "push")' < QueueSize + Cardinality(JobWorkers)
    <2>1. /\ Len(queue[g]) \in Nat /\ WorkersAt(g, "push") \in Nat
          /\ Cardinality(JobWorkers) \in Nat /\ QueueSize \in Nat
      BY Typed, CountsTyped, Sizes
    <2>2. Len(queue[g]) + WorkersAt(g, "push") < QueueSize + Cardinality(JobWorkers)
      BY DEF ListsInv
    <2>3. CASE g = f
      <3>1. WorkersAt(g, "push")' = WorkersAt(g, "push") - 1
        <4>1. IsAt(e, g, "push") /\ ~IsAt(e, g, "push")'
          BY <1>1, <1>2, <1>3, <2>3 DEF IsAt
        <4>2. \A d \in JobWorkers : d # e => (IsAt(d, g, "push")' <=> IsAt(d, g, "push"))
          BY <1>3 DEF IsAt
        <4> QED
          BY <4>1, <4>2, WorkersChange
      <3> QED
        BY <1>4, <2>1, <2>2, <2>3, <3>1
    <2>4. CASE g # f
      <3>1. \A d \in JobWorkers : IsAt(d, g, "push")' <=> IsAt(d, g, "push")
        BY <1>1, <1>2, <1>3, <2>4 DEF IsAt
      <3>2. WorkersAt(g, "push")' = WorkersAt(g, "push")
        BY <3>1, WorkersStay
      <3> QED
        BY <1>4, <2>2, <2>4, <3>2
    <2> QED
      BY <2>3, <2>4
  <1> QED
    BY <1>5 DEF ListsInv

(* Every step keeps the lists short. *)
LEMMA ListsSteps ==
    ASSUME OfmapType, OfmapType', ListsInv, [Next]_vars
    PROVE  ListsInv'
  <1>1. \A f \in Flows : Len(queue[f]) \in Nat /\ queue[f] \in Seq(Seq(Parts))
    BY Typed
  <1>2. ASSUME \A e \in JobWorkers : \/ jw'[e].pc = jw[e].pc /\ jw'[e].flow = jw[e].flow
                                     \/ jw[e].pc # "push" /\ jw'[e].pc # "push",
               queue' = queue
        PROVE  ListsInv'
    <2>1. \A f \in Flows : Len(queue'[f]) <= Len(queue[f])
      BY <1>1, <1>2
    <2>2. \A e \in JobWorkers : \A f \in Flows : IsAt(e, f, "push")' <=> IsAt(e, f, "push")
      BY <1>2 DEF IsAt
    <2> QED
      BY <2>1, <2>2, ListsStay
  <1>3. ASSUME KeepsWorking, queue' = queue PROVE ListsInv'
    BY <1>2, <1>3 DEF KeepsWorking, Resting
  <1>4. CASE UNCHANGED vars
    BY <1>2, <1>4 DEF vars, sharedVars
  <1>5. ASSUME NEW u \in Readers, (\E f \in Flows : ReadCall(u, f)) \/ ReadPoll(u)
        PROVE  ListsInv'
    BY <1>2, <1>5 DEF ReadCall, ReadPoll, sharedVars
  <1>6. ASSUME NEW u \in Readers, ReadPop(u) PROVE ListsInv'
    <2>1. UNCHANGED jw
      BY <1>6 DEF ReadPop, sharedVars
    <2>2. \A e \in JobWorkers : \A f \in Flows : IsAt(e, f, "push")' <=> IsAt(e, f, "push")
      BY <2>1 DEF IsAt
    <2>3. PICK g \in Flows : g = user[u].flow
      BY Typed
    <2>4. \A f \in Flows : Len(queue'[f]) <= Len(queue[f])
      <3>1. CASE queue[g] = <<>>
        BY <1>1, <1>6, <2>3, <3>1 DEF ReadPop
      <3>2. CASE queue[g] # <<>>
        <4>1. queue' = [queue EXCEPT ![g] = Tail(@)] /\ queue \in [Flows -> Seq(Seq(Parts))]
          BY <1>6, <2>3, <3>2 DEF ReadPop, OfmapType
        <4>2. Len(Tail(queue[g])) = Len(queue[g]) - 1
          BY <1>1, <3>2, SeqSteps
        <4> QED
          BY <1>1, <4>1, <4>2
      <3> QED
        BY <3>1, <3>2
    <2> QED
      BY <2>2, <2>4, ListsStay
  <1>7. ASSUME NEW e \in JobWorkers, DecodeLock(e) \/ DecodeRow(e) PROVE ListsInv'
    <2>1. PICK pc \in {"row", "full"} : JobWorkerGoes(e, pc)
      BY <1>7 DEF DecodeLock, DecodeRow
    <2>2. pc \in JobPCs /\ WorkersType(Flows) /\ jw[e].pc # "push" /\ queue' = queue
      BY <1>7, Typed DEF JobPCs, DecodeLock, DecodeRow
    <2>3. jw'[e].pc = pc /\ \A d \in JobWorkers : d # e => jw'[d] = jw[d]
      BY <2>1, <2>2, JobWorkerMoves
    <2> QED
      BY <1>2, <2>2, <2>3
  <1>8. ASSUME NEW e \in JobWorkers, LoopStep(e) PROVE ListsInv'
    <2>1. /\ KeepsWorking \/ JobWorkerPop(e)
          /\ \A d \in JobWorkers : d # e => jw'[d] = jw[d]
          /\ queue' = queue
      BY <1>8, LoopKeeps, Typed DEF LoopStep, ofmapVars
    <2>2. CASE JobWorkerPop(e)
      <3>1. jw[e].pc = "pop" /\ jw'[e].pc # "push"
        <4>1. jw \in [JobWorkers -> JobWorkerStates(Flows)] /\ jw[e] \in JobWorkerStates(Flows)
          BY Typed
        <4>2. CASE jw' = [jw EXCEPT ![e].pc = "execute", ![e].flow = Head(jobs)]
          BY <2>2, <4>1, <4>2 DEF JobWorkerPop, JobWorkerStates
        <4>3. CASE JobWorkerGoes(e, "rest")
          <5>1. "rest" \in JobPCs
            BY DEF JobPCs
          <5> QED
            BY <2>2, <4>3, <5>1, JobWorkerMoves, Typed DEF JobWorkerPop
        <4> QED
          BY <2>2, <4>2, <4>3 DEF JobWorkerPop
      <3> QED
        BY <1>2, <2>1, <3>1
    <2> QED
      BY <1>3, <2>1, <2>2
  <1>9. CASE \/ WorkerTop \/ ScanFlow \/ TransferBegin \/ ReadParts \/ ReadNothing
             \/ Publish \/ ReportJob \/ GateStep
    <2>1. UNCHANGED <<jw, queue>>
      BY <1>9 DEF WorkerTop, ScanFlow, TransferBegin, ReadParts, ReadNothing, Publish,
                  ReportJob, GateStep, WorkerGate, ofmapVars
    <2> QED
      BY <1>2, <2>1
  <1>10. CASE Report
    <2>1. queue' = queue /\ KeepsWorking
      BY <1>10, WakeTyped, Typed DEF KeepsWorking, Resting, Report
    <2> QED
      BY <1>3, <2>1
  <1>11. CASE ControlStep
    BY <1>3, <1>11, ControlStepKeeps DEF ofmapVars
  <1>12. CASE JoinStep
    <2>1. UNCHANGED jw /\ queue' = [f \in Flows |-> <<>>]
      BY <1>12 DEF JoinStep, DestroyJoin
    <2>2. \A f \in Flows : Len(queue'[f]) = 0
      BY <2>1
    <2>3. \A f \in Flows : Len(queue'[f]) <= Len(queue[f])
      BY <1>1, <2>2
    <2>4. \A e \in JobWorkers : \A f \in Flows : IsAt(e, f, "push")' <=> IsAt(e, f, "push")
      BY <2>1 DEF IsAt
    <2> QED
      BY <2>3, <2>4, ListsStay
  <1> QED
    BY <1>4, <1>5, <1>6, <1>7, <1>8, <1>9, <1>10, <1>11, <1>12, ListsPoll, ListsPush, Steps

-----------------------------------------------------------------------------
(* The start. *)

(* Nothing is counted at the start. *)
LEMMA InitCounts ==
    ASSUME Init, NEW f, NEW pc \in {"execute", "push"}
    PROVE  JobsFor(f) = 0 /\ LostFor(f) = 0 /\ WorkersAt(f, pc) = 0
  <1>1. jobs = <<>> /\ lost = <<>> /\ \A e \in JobWorkers : jw[e].pc \in {"top", "off"}
    BY DEF Init, WorkersInit, NewJobWorker
  <1>2. /\ {i \in DOMAIN jobs : jobs[i] = f} = {} /\ {i \in DOMAIN lost : lost[i] = f} = {}
        /\ {e \in JobWorkers : jw[e].pc = pc /\ jw[e].flow = f} = {}
    BY <1>1
  <1>3. Cardinality({}) = 0
    BY FS_EmptySet
  <1> QED
    BY <1>2, <1>3 DEF JobsFor, LostFor, WorkersAt

(* Flows and lists. *)
LEMMA InitFlows ==
    ASSUME Init
    PROVE  FlowInv /\ ListsInv /\ EmptyHanded /\ JobsSignalled
  <1>1. /\ R \in Nat /\ R > 1 /\ H \in Nat /\ H > 0 /\ P \in Nat /\ P > 0
        /\ 0 \in 0 .. H - 1 /\ 0 \in Nat
    BY Sizes
  <1>2. /\ wk.pc = "top" /\ jobs = <<>> /\ ctl.pc = "idle"
        /\ \A e \in JobWorkers : jw[e].pc \in {"top", "off"} /\ work[e] = <<>>
    BY DEF Init, WorkersInit, NewJobWorker
  <1>3. ASSUME NEW f \in Flows PROVE FlowIs(f, 0, 0, 0, 0)
    <2>1. Got(f) = 0 /\ Signalling(f) = 0 /\ fetched[f] = 0
      BY <1>2 DEF Got, Transferring, Signalling, Init
    <2>2. /\ ring[f].entry_w = 0 /\ ring[f].entry_r = 0 /\ ring[f].entry_report_r = 0
          /\ ring[f].guard = NoWorker
      BY DEF Init
    <2>3. Decoded(f) = <<>>
      <3>1. delivered[f] = <<>> /\ queue[f] = <<>>
        BY DEF Init
      <3>2. <<>> \in Seq({}) /\ <<>> \o <<>> = <<>>
        BY EmptySeq, ConcatEmptySeq
      <3> QED
        BY <3>1, <3>2 DEF Decoded
    <2>4. \A e \in JobWorkers : ~Reading(e, f) /\ ~Holds(e, f)
      BY <1>2 DEF Reading, Holds
    <2>5. PointersAre(f, 0, 0, 0, 0)
      <3>1. P * 0 = 0 /\ H * 0 = 0
        BY <1>1
      <3>2. 0 % R = 0
        BY <1>1, FirstPeriods
      <3> QED
        BY <1>1, <2>1, <2>2, <3>1, <3>2 DEF PointersAre
    <2>6. RowsAre(f, 0, 0, 0)
      <3>1. H * 0 = 0
        BY <1>1
      <3>2. 0 .. 0 - 1 = {} /\ 0 + 0 = 0
        OBVIOUS
      <3> QED
        BY <2>1, <3>1, <3>2 DEF RowsAre, RowsBe
    <2>7. LockIs(f, 0, 0)
      BY <2>2, <2>4 DEF LockIs
    <2>8. FramesAre(f, 0)
      BY <2>3, <2>4 DEF FramesAre, Differ, AllGood
    <2>9. TransferIs(f, 0, 0, 0, 0)
      BY <1>2 DEF TransferIs
    <2>10. JobsAre(f, 0, 0)
      <3>1. Held(f) = 0 /\ JobsFor(f) = 0 /\ LostFor(f) = 0 /\ WorkersAt(f, "execute") = 0
        BY <2>2, InitCounts DEF Held
      <3> QED
        BY <2>1, <3>1 DEF JobsAre
    <2>11. OrderIs(f, 0)
      BY <2>3, <2>4 DEF OrderIs, Rising, Counted
    <2> QED
      BY <2>5, <2>6, <2>7, <2>8, <2>9, <2>10, <2>11 DEF FlowIs
  <1>4. FlowInv
    BY <1>1, <1>3 DEF FlowInv
  <1>5. ListsInv
    <2>1. ASSUME NEW f \in Flows
          PROVE  Len(queue[f]) + WorkersAt(f, "push") < QueueSize + Cardinality(JobWorkers)
      <3>1. Len(queue[f]) = 0
        BY DEF Init
      <3>2. WorkersAt(f, "push") = 0
        BY InitCounts
      <3>3. Cardinality(JobWorkers) \in Nat /\ QueueSize \in Nat /\ QueueSize > 0
        BY Sizes, WorkersAssumption, FS_CardinalityType
      <3> QED
        BY <3>1, <3>2, <3>3
    <2> QED
      BY <2>1 DEF ListsInv
  <1> QED
    BY <1>2, <1>4, <1>5 DEF EmptyHanded, JobsSignalled, AllWait

-----------------------------------------------------------------------------
(* What the invariant implies. *)

(* Types. *)
LEMMA TypeImplied ==
    ASSUME OfmapInv PROVE TypeOK
  <1>1. OfmapType /\ PlaceInv /\ FlowInv /\ ListsInv
    BY DEF OfmapInv
  <1>2. WorkersTypeOK
    BY <1>1, WorkersTypeImplies, Typed
  <1>3. ASSUME NEW f \in Flows PROVE Len(queue[f]) < QueueSize + Cardinality(JobWorkers)
    <2>1. /\ Len(queue[f]) \in Nat /\ WorkersAt(f, "push") \in Nat
          /\ Cardinality(JobWorkers) \in Nat /\ QueueSize \in Nat
      BY <1>1, Typed, CountsTyped, Sizes
    <2>2. Len(queue[f]) + WorkersAt(f, "push") < QueueSize + Cardinality(JobWorkers)
      BY <1>1 DEF ListsInv
    <2> QED
      BY <2>1, <2>2
  <1>4. ASSUME NEW f \in Flows
        PROVE  /\ {ring[f].entry_w, ring[f].entry_r, ring[f].entry_report_r} \subseteq Rows
               /\ ring[f].entry_report_r % H = 0
    <2>1. PICK t \in Nat : ring[f].entry_report_r = (H * t) % R
      BY <1>1 DEF FlowInv, FlowIs, PointersAre
    <2>2. (H * t) % R \in Rows /\ ((H * t) % R) % H = 0
      BY FrameSlot
    <2>3. ring[f] \in Rings
      BY <1>1, Typed
    <2> QED
      BY <2>1, <2>2, <2>3 DEF Rings
  <1>5. rcv.n \in 0 .. R - 1 /\ rcv.got \in Nat
    BY <1>1, Typed DEF Transfers
  <1> QED
    BY <1>2, <1>3, <1>4, <1>5 DEF TypeOK

(* Whole frames, once. *)
LEMMA WholeImplied ==
    ASSUME OfmapInv PROVE WholeFramesOnce
  <1>1. ASSUME NEW f \in Flows
        PROVE  /\ \A k \in DOMAIN Decoded(f) :
                    Decoded(f)[k] = Sent(FrameNumber(Decoded(f)[k]))
               /\ \A j, k \in DOMAIN Decoded(f) : Decoded(f)[j] = Decoded(f)[k] => j = k
    <2>1. PICK s \in Seq(Seq(Parts)) : s = Decoded(f)
      BY Typed, ConcatProperties DEF OfmapInv, Decoded
    <2>2. PICK q \in Nat : AllGood(s, q) /\ Differ(s)
      BY <2>1 DEF OfmapInv, FlowInv, FlowIs, FramesAre
    <2>3. DOMAIN s = 1 .. Len(s)
      BY <2>1
    <2>4. \A k \in DOMAIN s : s[k] = Sent(FrameNumber(s[k]))
      BY <2>2, <2>3 DEF AllGood, Good
    <2>5. \A j, k \in DOMAIN s : s[j] = s[k] => j = k
      BY <2>2, <2>3 DEF Differ
    <2> QED
      BY <2>1, <2>4, <2>5
  <1> QED
    BY <1>1 DEF WholeFramesOnce

(* The order of frames. *)
LEMMA OrderImplied ==
    ASSUME OfmapInv PROVE FramesInOrder
  <1>1. ASSUME ~ctl.grown, NEW f \in Flows
        PROVE  /\ \A j, k \in DOMAIN Decoded(f) :
                    j < k => FrameNumber(Decoded(f)[j]) < FrameNumber(Decoded(f)[k])
               /\ (\A i \in DOMAIN dropped : dropped[i] # f)
                    => \A k \in DOMAIN Decoded(f) : FrameNumber(Decoded(f)[k]) = k - 1
    <2>1. PICK s \in Seq(Seq(Parts)) : s = Decoded(f)
      BY Typed, ConcatProperties DEF OfmapInv, Decoded
    <2>2. Rising(s) /\ (~In(dropped, f) => Counted(s))
      BY <1>1, <2>1 DEF OfmapInv, FlowInv, FlowIs, OrderIs
    <2>3. DOMAIN s = 1 .. Len(s)
      BY <2>1
    <2> QED
      BY <2>1, <2>2, <2>3 DEF Rising, Counted, In
  <1> QED
    BY <1>1 DEF FramesInOrder

(* No decoder sleeps for good. *)
LEMMA StuckImplied ==
    ASSUME OfmapInv PROVE NobodyStuck
  BY DEF OfmapInv, PlaceInv, JobsSignalled, AllWait, NobodyStuck

(* The rows of a frame that is being decoded which are still to come. *)
OpenRows(f) ==
    {p \in JobWorkers \X (1 .. H) :
        /\ jw[p[1]].flow = f /\ jw[p[1]].pc = "row"
        /\ p[2] > Len(work[p[1]])}

(* How many there are. *)
LEMMA OpenRowsAre ==
    ASSUME NEW f, NEW m \in 0 .. H - 1
    PROVE  /\ (\A e \in JobWorkers : ~Reading(e, f)) => Cardinality(OpenRows(f)) = 0
           /\ \A e \in JobWorkers :
                Reading(e, f) /\ Len(work[e]) = m /\ (\A d \in JobWorkers : Reading(d, f) => d = e)
                  => Cardinality(OpenRows(f)) = H - m
  <1>1. H \in Nat /\ H > 0
    BY Sizes
  <1>2. ASSUME \A e \in JobWorkers : ~Reading(e, f) PROVE Cardinality(OpenRows(f)) = 0
    <2>1. OpenRows(f) = {}
      BY <1>2 DEF OpenRows, Reading
    <2> QED
      BY <2>1, FS_EmptySet
  <1>3. ASSUME NEW e \in JobWorkers, Reading(e, f), Len(work[e]) = m,
               \A d \in JobWorkers : Reading(d, f) => d = e
        PROVE  Cardinality(OpenRows(f)) = H - m
    <2>1. PICK S : S = OpenRows(f)
      OBVIOUS
    <2>2. \A i \in m + 1 .. H : <<e, i>> \in S
      <3>1. ASSUME NEW i \in m + 1 .. H PROVE <<e, i>> \in OpenRows(f)
        <4>1. i \in 1 .. H /\ i > m
          BY <1>1
        <4> QED
          BY <1>3, <4>1 DEF OpenRows, Reading
      <3> QED
        BY <2>1, <3>1
    <2>3. \A p \in S : \E i \in m + 1 .. H : p = <<e, i>>
      <3>1. ASSUME NEW p \in OpenRows(f) PROVE \E i \in m + 1 .. H : p = <<e, i>>
        <4>1. PICK d \in JobWorkers, i \in 1 .. H : p = <<d, i>>
          BY DEF OpenRows
        <4>2. Reading(d, f) /\ i > Len(work[d])
          BY <3>1, <4>1 DEF OpenRows, Reading
        <4>3. d = e /\ i > m
          BY <1>3, <4>2
        <4>4. i \in m + 1 .. H
          BY <1>1, <4>3
        <4> QED
          BY <4>1, <4>3, <4>4
      <3> QED
        BY <2>1, <3>1
    <2>4. PICK g : g = [i \in m + 1 .. H |-> <<e, i>>]
      OBVIOUS
    <2>5. g \in Bijection(m + 1 .. H, S)
      BY <2>2, <2>3, <2>4 DEF Bijection, Injection, Surjection, IsInjective
    <2>6. IsFiniteSet(m + 1 .. H) /\ Cardinality(m + 1 .. H) = H - m
      <3>1. m + 1 \in Int /\ H \in Int /\ m + 1 <= H /\ H - (m + 1) + 1 = H - m
        BY <1>1
      <3> QED
        BY <3>1, FS_Interval
    <2>7. Cardinality(S) = Cardinality(m + 1 .. H)
      BY <2>5, <2>6, FS_Bijection DEF ExistsBijection
    <2> QED
      BY <2>1, <2>6, <2>7
  <1> QED
    BY <1>2, <1>3

(* The rows that are told and not decoded. *)
LEMMA ReportImplied ==
    ASSUME OfmapInv PROVE ReportMatchesJobs
  <1>1. OfmapType /\ FlowInv
    BY DEF OfmapInv
  <1>2. /\ R \in Nat /\ R > 1 /\ H \in Nat /\ H > 0 /\ H <= R
    <2>1. R \in Nat /\ R > 1 /\ H \in Nat /\ H > 0
      BY Sizes
    <2>2. H <= H * RingFrames
      <3>1. 1 \in Nat /\ RingFrames \in Nat /\ 1 <= RingFrames
        BY Sizes
      <3>2. H * 1 <= H * RingFrames
        BY <3>1, FramesGrow
      <3>3. H * 1 = H
        BY <2>1
      <3> QED
        BY <3>2, <3>3
    <2> QED
      BY <2>1, <2>2 DEF R
  <1>3. ASSUME ctl.pc # "gone", NEW f \in Flows, LostFor(f) = 0
        PROVE  RowsFromTo(ring[f].entry_r,
                          (ring[f].entry_report_r
                             + (IF wk.pc = "signal" /\ rcv.flow = f THEN H ELSE 0)) % R)
                 = H * (JobsFor(f) + WorkersAt(f, "execute"))
                   + Cardinality(OpenRows(f))
    <2>1. PICK W \in Nat, q \in Nat, t \in Nat, m \in 0 .. H - 1 : FlowIs(f, W, q, m, t)
      BY <1>1 DEF FlowInv
    <2>2. PointersAre(f, W, q, m, t) /\ TransferIs(f, W, q, m, t)
          /\ LockIs(f, q, m) /\ JobsAre(f, q, t)
      BY <2>1 DEF FlowIs
    <2>3. PICK u \in Nat, b \in Nat : u = t + Signalling(f) /\ b = H * u /\ b <= W
      BY <1>1, <2>2, ToldWerePublished
    <2>4. PICK a \in Nat : a = H * q + m /\ a <= b /\ W <= a + R - 1 /\ ring[f].entry_r = a % R
      <3>1. H * q + m \in Nat
        BY <1>2
      <3>2. H * q + m <= b
        BY <1>1, <1>3, <2>2, <2>3, DecodedWereTold
      <3> QED
        BY <2>2, <3>1, <3>2 DEF PointersAre
    <2>5. RowsFromTo(a % R, b % R) = b - a
      <3>1. b < a + R
        BY <1>2, <2>3, <2>4
      <3> QED
        BY <2>4, <3>1, SlotsApart
    <2>6. (ring[f].entry_report_r
             + (IF wk.pc = "signal" /\ rcv.flow = f THEN H ELSE 0)) % R = b % R
      <3>1. PICK c \in Nat : c = H * t /\ ring[f].entry_report_r = c % R
        BY <1>2, <2>2 DEF PointersAre
      <3>2. CASE wk.pc = "signal" /\ rcv.flow = f
        <4>1. u = t + 1
          BY <2>3, <3>2 DEF Signalling
        <4>2. b = c + H
          <5>1. H * (t + 1) = H * t + H
            BY <1>2
          <5> QED
            BY <2>3, <3>1, <4>1, <5>1
        <4>3. ((c % R) + H) % R = (c + H) % R
          <5>1. H \in 0 .. R
            BY <1>2
          <5> QED
            BY <5>1, SlotAfter
        <4> QED
          BY <3>1, <3>2, <4>2, <4>3
      <3>3. CASE ~(wk.pc = "signal" /\ rcv.flow = f)
        <4>1. u = t
          BY <2>3, <3>3 DEF Signalling
        <4>2. b = c /\ b + 0 = c
          BY <2>3, <3>1, <4>1
        <4>3. ((c % R) + 0) % R = (c + 0) % R
          <5>1. 0 \in 0 .. R
            BY <1>2
          <5> QED
            BY <5>1, SlotAfter
        <4> QED
          BY <3>1, <3>3, <4>2, <4>3
      <3> QED
        BY <3>2, <3>3
    <2>7. PICK n \in Nat, h \in 0 .. 1 :
            /\ n = JobsFor(f) + WorkersAt(f, "execute")
            /\ h = Held(f) /\ u = q + n + h
      <3>1. JobsFor(f) \in Nat /\ LostFor(f) = 0 /\ WorkersAt(f, "execute") \in Nat
            /\ Held(f) \in 0 .. 1
        BY <1>1, <1>3, CountsTyped DEF Held
      <3>2. u = q + JobsFor(f) + LostFor(f) + WorkersAt(f, "execute") + Held(f)
        BY <1>3, <2>2, <2>3 DEF JobsAre
      <3> QED
        BY <3>1, <3>2
    <2>8. Cardinality(OpenRows(f)) = H * h - m
      <3>1. CASE ring[f].guard = NoWorker
        <4>1. m = 0 /\ \A e \in JobWorkers : ~Reading(e, f)
          BY <2>2, <3>1, Sizes DEF LockIs
        <4>2. h = 0 /\ H * h - m = 0
          BY <1>2, <2>7, <3>1, <4>1 DEF Held
        <4> QED
          BY <4>1, <4>2, OpenRowsAre
      <3>2. CASE ring[f].guard # NoWorker
        <4>1. PICK e \in JobWorkers : e = ring[f].guard
          BY <1>1, <3>2, Typed DEF Rings
        <4>2. /\ Reading(e, f) /\ Len(work[e]) = m
              /\ \A d \in JobWorkers : Reading(d, f) => d = e
          BY <2>2, <3>2, <4>1 DEF LockIs, Prefix
        <4>3. h = 1 /\ H * h - m = H - m
          BY <1>2, <2>7, <3>2 DEF Held
        <4> QED
          BY <4>2, <4>3, OpenRowsAre
      <3> QED
        BY <3>1, <3>2
    <2>9. b - a = H * n + (H * h - m)
      <3>1. PICK x \in Nat, y \in Nat, z \in Nat : x = H * q /\ y = H * n /\ z = H * h
        <4>1. H * q \in Nat /\ H * n \in Nat /\ H * h \in Nat
          <5>1. h \in Nat
            BY <2>7
          <5> QED
            BY <1>2, <5>1
        <4> QED
          BY <4>1
      <3>2. b = x + y + z
        <4>1. H * (q + n + h) = H * q + H * n + H * h
          BY <1>2, <2>7
        <4> QED
          BY <2>3, <2>7, <3>1, <4>1
      <3> QED
        BY <2>4, <3>1, <3>2
    <2> QED
      BY <2>4, <2>5, <2>6, <2>7, <2>8, <2>9
  <1>4. ~ctl.grown /\ ~Destroying => lost = <<>>
    BY DEF OfmapInv, NoneDiscarded
  <1> QED
    BY <1>3, <1>4 DEF ReportMatchesJobs, OpenRows

-----------------------------------------------------------------------------
(* The theorems. *)

(* If the device's nodes fit in the room that is left, the invariant holds *)
(* at the start and is kept by every step.                                 *)
THEOREM OfmapInvariant == ASSUME NodesFit PROVE Spec => []OfmapInv
  <1>1. Init => OfmapInv
    <2> SUFFICES ASSUME Init PROVE OfmapInv
      OBVIOUS
    <2>1. OfmapType /\ PlaceInv
      BY InitType
    <2>2. PoolInv
      BY PoolInit DEF Init
    <2>3. FlowInv /\ ListsInv /\ EmptyHanded /\ JobsSignalled
      BY InitFlows
    <2>4. NoneDiscarded
      BY DEF Init, WorkersInit, NoneDiscarded
    <2> QED
      BY <2>1, <2>2, <2>3, <2>4 DEF OfmapInv
  <1>2. OfmapInv /\ [Next]_vars => OfmapInv'
    <2> SUFFICES ASSUME OfmapInv, [Next]_vars PROVE OfmapInv'
      OBVIOUS
    <2>1. /\ OfmapType /\ PoolInv /\ PlaceInv /\ EmptyHanded /\ FlowInv /\ ListsInv
          /\ JobsSignalled /\ NoneDiscarded
      BY DEF OfmapInv
    <2>2. BeginRoom
      BY <2>1, RoomAtBegin
    <2>3. OfmapType' /\ PlaceInv'
      BY <2>1, <2>2, TypeSteps
    <2>4. PoolInv' /\ JobsSignalled'
      BY <2>1, PoolSteps
    <2>5. EmptyHanded'
      BY <2>1, HandsSteps
    <2>6. FlowInv'
      BY <2>1, <2>2, <2>3, FlowSteps
    <2>7. ListsInv'
      BY <2>1, <2>3, ListsSteps
    <2>8. NoneDiscarded'
      BY <2>1, DiscardSteps
    <2> QED
      BY <2>3, <2>4, <2>5, <2>6, <2>7, <2>8 DEF OfmapInv
  <1> QED
    BY <1>1, <1>2, PTL DEF Spec

(* If nodes fit, pointers stay in their ranges, and every further decoder  *)
(* makes a list longer by one frame at most.                               *)
THEOREM TypesCorrect == ASSUME NodesFit PROVE Spec => []TypeOK
  <1>1. OfmapInv => TypeOK
    BY TypeImplied
  <1> QED
    BY <1>1, OfmapInvariant, PTL

(* If nodes fit, every frame the application gets is one the device sent,  *)
(* whole, and it gets none twice: no row is overwritten or decoded before  *)
(* it came.                                                                *)
THEOREM WholeFrames == ASSUME NodesFit PROVE Spec => []WholeFramesOnce
  <1>1. OfmapInv => WholeFramesOnce
    BY WholeImplied
  <1> QED
    BY <1>1, OfmapInvariant, PTL

(* If nodes fit, with one decoder frames keep their order, and none is     *)
(* missing but for those that were dropped at a full list.                 *)
THEOREM FramesOrdered == ASSUME NodesFit PROVE Spec => []FramesInOrder
  <1>1. OfmapInv => FramesInOrder
    BY OrderImplied
  <1> QED
    BY <1>1, OfmapInvariant, PTL

(* If nodes fit, the rows that are told and not decoded are those of the   *)
(* frames whose job waits or is executed, in a flow of which no job was    *)
(* discarded; and with one decoder none is before destroy.                 *)
THEOREM ReportExact == ASSUME NodesFit PROVE Spec => []ReportMatchesJobs
  <1>1. OfmapInv => ReportMatchesJobs
    BY ReportImplied
  <1> QED
    BY <1>1, OfmapInvariant, PTL

(* If nodes fit, no decoder sleeps for good, and no transfer returns with  *)
(* its lock taken.                                                         *)
THEOREM NobodySleepsForGood == ASSUME NodesFit PROVE Spec => []NobodyStuck
  <1>1. OfmapInv => NobodyStuck
    BY StuckImplied
  <1> QED
    BY <1>1, OfmapInvariant, PTL
=============================================================================
