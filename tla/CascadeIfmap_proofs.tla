------------------------ MODULE CascadeIfmap_proofs ------------------------
(***************************************************************************)
(* Theorems about CascadeIfmap, for any number of flows, callers, job      *)
(* workers and control calls, any frame height, ring and queue size: the   *)
(* device gets whole frames, once, and in order if the pool never grew, a  *)
(* frame has its job unless jobs of its flow were discarded, a transfer    *)
(* sends only rows of the ring, the counter of rows does not drift, and    *)
(* nobody sleeps for good.                                                 *)
(***************************************************************************)
EXTENDS CascadeIfmap, CascadeWorkers_proofs

-----------------------------------------------------------------------------
(* Types. *)

Contents == Nat \X Nat          \* a row: the number of its frame, its place

Rings == [entry_w : Rows, entry_r : Rows, data : [Rows -> Contents],
          guard : JobWorkers \cup {NoWorker}]

SendStates ==
    [flow : Nat, n : 1 - R .. R - 1, sent : 0 .. R - 1, locked : BOOLEAN]

IfmapType ==
    /\ WorkersType(Flows)
    /\ queue \in [Flows -> Seq(Nat)]
    /\ ring \in [Flows -> Rings]
    /\ ota \in Int
    /\ work \in [JobWorkers -> [frame : Nat, row : 0 .. H - 1]]
    /\ send \in SendStates
    /\ user \in [Users -> [pc : {"idle", "poll", "push", "job", "signal"},
                           flow : Flows]]
    /\ calls \in Nat
    /\ accepted \in [Flows -> Nat]
    /\ wire \in [Flows -> Seq(Contents)]

(* The write pointer of a flow has wrapped and the read pointer has not.   *)
Wrapped(f) == ring[f].entry_w < ring[f].entry_r

(* What is counted of a flow: rows that the ring has and that end before   *)
(* the buffer does, or a number below zero, with nothing sent.             *)
RightCount(f) ==
    \/ /\ send.sent < send.n /\ send.n <= Occupied(f)
       /\ ring[f].entry_r + send.n <= R
    \/ send.n < 0 /\ send.sent = 0 /\ Wrapped(f)

(* The ifmap worker's place in a transfer: it is at a configured flow, has *)
(* found rows there, compares only a pointer that has wrapped, and counts  *)
(* as above; the rows it has sent are on the wire.                         *)
TransferInv ==
    /\ wk.pc \in {"gate", "asleep", "scan", "begin", "subtract", "compare", "send",
                  "move"}
         => send.flow \in Flows
    /\ wk.pc \in {"begin", "subtract", "compare", "send"} => ~Empty(send.flow)
    /\ wk.pc = "compare" => Wrapped(send.flow)
    /\ wk.pc = "send" => /\ RightCount(send.flow)
                         /\ send.sent <= Len(wire[send.flow])
    /\ wk.pc = "move" => /\ 1 <= send.n /\ send.n <= Occupied(send.flow)
                         /\ send.n <= Len(wire[send.flow])
    /\ ~send.locked

-----------------------------------------------------------------------------
(* The rows of a flow: those on the wire, and those in the ring that the   *)
(* current transfer has not sent.                                          *)

Rest(w, a, o, r, d) ==
    [k \in 1 .. Len(w) + o - a |->
       IF k <= Len(w) THEN w[k] ELSE d[(r + (k - 1 - Len(w) + a)) % R]]

(* Rows that are sent and still in the ring. *)
Ahead(f) ==
    IF send.flow # f THEN 0
    ELSE IF wk.pc = "send" THEN send.sent
    ELSE IF wk.pc = "move" THEN send.n ELSE 0

Stream(f) ==
    Rest(wire[f], Ahead(f), Occupied(f), ring[f].entry_r, ring[f].data)

First(k) == k - ((k - 1) % H)

Framed(s) == \A k \in 1 .. Len(s) : s[k] = <<s[First(k)][1], (k - 1) % H>>
Once(s) ==
    \A k \in 1 .. Len(s) : \A j \in 1 .. First(k) - 1 : s[j][1] # s[k][1]
UpTo(s, n) == \A k \in 1 .. Len(s) : s[k][1] <= n
Fresh(s, x) == \A k \in 1 .. Len(s) : s[k][1] # x

(* Frames that job workers took. *)
Popped(f) == accepted[f] - Len(queue[f])

QueueInv ==
    \A f \in Flows :
        /\ Popped(f) \in Nat
        /\ \A i \in 1 .. Len(queue[f]) : queue[f][i] = Popped(f) + i

Whole(s, n) == Framed(s) /\ Once(s) /\ UpTo(s, n)

Holding == {"lock", "row", "full", "count"}     \* a job worker has a frame
Busy(e, f) == jw[e].pc \in Holding /\ jw[e].flow = f

StreamInv(f) ==
    /\ Whole(Stream(f), Popped(f))
    /\ ring[f].guard = NoWorker => Len(Stream(f)) % H = 0
    /\ ring[f].guard # NoWorker =>
        jw[ring[f].guard].pc # "lock" /\ Busy(ring[f].guard, f)

(* Before its first row, the frame x of a job worker at pc and row m is    *)
(* new to the stream s; afterwards s ends with the rows it wrote.          *)
Writes(s, pc, x, m) ==
    /\ pc \in {"row", "full"} => Len(s) % H = m
    /\ pc = "count" => Len(s) > 0 /\ (Len(s) - 1) % H = m
    /\ pc = "lock" \/ (pc # "count" /\ m = 0) => Fresh(s, x)
    /\ pc = "count" \/ (pc # "lock" /\ m > 0) => s[Len(s)][1] = x

EncoderInv(e, f) ==
    /\ work[e].frame <= Popped(f)
    /\ jw[e].pc # "lock" => ring[f].guard = e
    /\ Writes(Stream(f), jw[e].pc, work[e].frame, work[e].row)
    /\ \A d \in JobWorkers : d # e /\ Busy(d, f) => work[d].frame # work[e].frame

EncodersInv == \A f \in Flows : \A e \in JobWorkers : Busy(e, f) => EncoderInv(e, f)

DataInv == QueueInv /\ (\A f \in Flows : StreamInv(f)) /\ EncodersInv

-----------------------------------------------------------------------------
(* With one job worker: the frames that were taken are in the stream, but  *)
(* for what the worker still has to write.                                 *)
HeldRows(e) ==
    IF jw[e].pc = "lock" THEN 0
    ELSE IF jw[e].pc = "count" THEN work[e].row + 1 ELSE work[e].row

InOrder(s) == \A k \in 1 .. Len(s) : s[k][1] = 1 + (k - 1) \div H

Written(f) ==
    /\ \A e \in JobWorkers : Busy(e, f) =>
        /\ work[e].frame = Popped(f)
        /\ Len(Stream(f)) = H * (Popped(f) - 1) + HeldRows(e)
    /\ (\A e \in JobWorkers : ~Busy(e, f)) => Len(Stream(f)) = H * Popped(f)

OrderInv ==
    ~ctl.grown => \A f \in Flows :
        InOrder(Stream(f)) /\ (ctl.pc # "gone" => Written(f))

-----------------------------------------------------------------------------
(* Callers, jobs and the counter. *)

CallersAt(f, pc) ==
    Cardinality({u \in Users : user[u].pc = pc /\ user[u].flow = f})

(* Every frame in a list has a job, that may have been discarded.          *)
Due(f) == JobsFor(f) + LostFor(f) + WorkersAt(f, "execute") + CallersAt(f, "job")

JobsInv == ctl.pc # "gone" => \A f \in Flows : Len(queue[f]) = Due(f)

CallersInv ==
    /\ Destroying => UsersDone
    /\ \A f \in Flows :
        Len(queue[f]) + CallersAt(f, "push") < QueueSize + Cardinality(Users)

JobsSignalled == AllWait => \E u \in Users : user[u].pc = "signal"

WaitInv ==
    /\ wk.pc = "waiting" => ota = 0
    /\ StopSignalled
    /\ JobsSignalled
    /\ \A e \in JobWorkers : jw[e].pc = "full" => Full(jw[e].flow)

IfmapInv ==
    /\ IfmapType /\ PoolInv /\ TransferInv /\ DataInv /\ OrderInv
    /\ CallersInv /\ JobsInv /\ NoneDiscarded /\ CounterMatchesRows /\ WaitInv

-----------------------------------------------------------------------------
(* Arithmetic of the ring. *)

(* The sizes. *)
LEMMA Sizes ==
    /\ R \in Nat /\ R > 1 /\ H \in Nat /\ H > 0 /\ NF \in Nat /\ NF > 0
    /\ QueueSize \in Nat /\ QueueSize > 0 /\ 0 \in Flows /\ 0 \in Rows
    /\ NoWorker \notin JobWorkers
  <1>1. H \in Nat /\ H > 0 /\ NF \in Nat /\ NF > 0 /\ RingFrames \in Nat
        /\ QueueSize \in Nat /\ QueueSize > 0 /\ H * RingFrames > 1
    BY CascadeIfmapAssumption
  <1>2. R \in Nat /\ R > 1
    BY <1>1 DEF R
  <1> QED
    BY <1>1, <1>2, WorkersAssumption DEF Flows, Rows

(* The slot j places after slot r. *)
LEMMA Slots ==
    ASSUME NEW r \in Rows, NEW j \in 0 .. R
    PROVE  (r + j) % R = (IF r + j < R THEN r + j ELSE r + j - R)
           /\ (r + j) % R \in Rows
  <1>1. R \in Nat /\ R > 1 /\ r \in Nat /\ r < R /\ j \in Nat /\ j <= R
    BY Sizes DEF Rows
  <1>2. r + j \in Nat /\ r + j < R + R
    BY <1>1
  <1>3. (r + j) % R = IF r + j < R THEN r + j ELSE r + j - R
    <2> HIDE DEF R
    <2> QED
      BY <1>1, <1>2, FirstPeriods
  <1> QED
    BY <1>1, <1>3 DEF Rows

(* Rows between two pointers. *)
Occ(w, r) == (w + R - r) % R

(* The pointers and the rows between them determine each other. *)
LEMMA Pointers ==
    ASSUME NEW w \in Rows, NEW r \in Rows
    PROVE  /\ (w + 1) % R = NextRow(w) /\ NextRow(w) \in Rows
           /\ Occ(w, r) \in 0 .. R - 1
           /\ Occ(w, r) = IF w >= r THEN w - r ELSE w + R - r
           /\ w = r <=> Occ(w, r) = 0
           /\ NextRow(w) = r <=> Occ(w, r) = R - 1
           /\ (r + Occ(w, r)) % R = w
           /\ NextRow(w) # r => Occ(NextRow(w), r) = Occ(w, r) + 1
           /\ w # r => Occ(w, NextRow(r)) = Occ(w, r) - 1
  <1>1. R \in Nat /\ R > 1 /\ r \in Nat /\ r < R /\ w \in Nat /\ w < R
    BY Sizes DEF Rows
  <1>2. (w + 1) % R = NextRow(w) /\ NextRow(w) \in Rows
    <2>1. 1 \in 0 .. R
      BY <1>1
    <2>2. (w + 1) % R = IF w + 1 < R THEN w + 1 ELSE w + 1 - R
      BY <2>1, Slots
    <2> QED
      BY <1>1, <2>2 DEF NextRow, Rows
  <1>3. ASSUME NEW a \in Rows, NEW b \in Rows
        PROVE  Occ(a, b) = IF a >= b THEN a - b ELSE a + R - b
    <2>1. a \in Nat /\ b \in Nat /\ a < R /\ b < R
      BY <1>1, <1>3 DEF Rows
    <2>2. a + R - b \in Nat /\ a + R - b < R + R
      BY <1>1, <2>1
    <2>3. (a + R - b) % R = IF a + R - b < R THEN a + R - b ELSE a + R - b - R
      <3> HIDE DEF R
      <3> QED
        BY <1>1, <2>2, FirstPeriods
    <2> QED
      BY <1>1, <2>1, <2>3 DEF Occ
  <1> DEFINE o == Occ(w, r)
  <1>4. o = IF w >= r THEN w - r ELSE w + R - r
    BY <1>3
  <1>5. NextRow(w) # r => Occ(NextRow(w), r) = o + 1
    <2>1. Occ(NextRow(w), r)
            = IF NextRow(w) >= r THEN NextRow(w) - r ELSE NextRow(w) + R - r
      BY <1>2, <1>3
    <2> HIDE DEF o
    <2> QED
      BY <1>1, <1>4, <2>1 DEF NextRow
  <1>6. w # r => Occ(w, NextRow(r)) = o - 1
    <2>1. NextRow(r) \in Rows
      BY <1>1 DEF NextRow, Rows
    <2>2. Occ(w, NextRow(r))
            = IF w >= NextRow(r) THEN w - NextRow(r) ELSE w + R - NextRow(r)
      BY <2>1, <1>3
    <2> HIDE DEF o
    <2> QED
      BY <1>1, <1>4, <2>2 DEF NextRow
  <1>7. o \in 0 .. R - 1
    <2> HIDE DEF o
    <2> QED
      BY <1>1, <1>4
  <1>8. (r + o) % R = w
    <2>1. (r + o) % R = IF r + o < R THEN r + o ELSE r + o - R
      <3>1. o \in 0 .. R
        <4> HIDE DEF o
        <4> QED
          BY <1>1, <1>7
      <3> HIDE DEF o
      <3> QED
        BY <3>1, Slots
    <2> HIDE DEF o
    <2> QED
      BY <1>1, <1>4, <2>1
  <1> HIDE DEF o
  <1>9. /\ w = r <=> o = 0
        /\ NextRow(w) = r <=> o = R - 1
    BY <1>1, <1>4 DEF NextRow
  <1> QED
    BY <1>2, <1>4, <1>5, <1>6, <1>7, <1>8, <1>9 DEF o

(* The tests of the code in terms of the rows in the ring. *)
LEMMA Occupancy ==
    ASSUME NEW f \in Flows, ring[f] \in Rings
    PROVE  /\ Occupied(f) = Occ(ring[f].entry_w, ring[f].entry_r)
           /\ Occupied(f) \in 0 .. R - 1
           /\ Empty(f) <=> Occupied(f) = 0
           /\ Full(f) <=> Occupied(f) = R - 1
           /\ Full(f) <=> NextRow(ring[f].entry_w) = ring[f].entry_r
           /\ (ring[f].entry_r + Occupied(f)) % R = ring[f].entry_w
  <1> DEFINE w == ring[f].entry_w
             r == ring[f].entry_r
             o == Occupied(f)
  <1>1. w \in Rows /\ r \in Rows /\ o = Occ(w, r)
    BY DEF Rings, Occupied, Occ
  <1>2. /\ (w + 1) % R = NextRow(w)
        /\ o \in 0 .. R - 1
        /\ w = r <=> o = 0
        /\ NextRow(w) = r <=> o = R - 1
        /\ (r + o) % R = w
    <2> HIDE DEF w, r, o
    <2> QED
      BY <1>1, Pointers
  <1> QED
    BY <1>1, <1>2 DEF Empty, Full

(* What the reads of the write pointer tell, if a ring is not empty.  The  *)
(* difference is the number of its rows, or below zero after a wrap; the   *)
(* rows to the end of the buffer are right after a wrap.                   *)
LEMMA Counts ==
    ASSUME NEW f \in Flows, ring[f] \in Rings, ~Empty(f), NEW w, NEW r,
           w = ring[f].entry_w, r = ring[f].entry_r
    PROVE  /\ ~(w > r) => Wrapped(f)
           /\ ~Wrapped(f) => w - r \in 1 .. Occupied(f) /\ r + (w - r) <= R
           /\ Wrapped(f) => /\ w - r \in 1 - R .. -1
                            /\ R - r \in 1 .. Occupied(f) /\ r + (R - r) <= R
  <1>1. w \in Rows /\ r \in Rows /\ Occupied(f) = Occ(w, r)
    BY DEF Rings, Occupied, Occ
  <1>2. Occupied(f) = IF w >= r THEN w - r ELSE w + R - r
    BY <1>1, Pointers
  <1>3. R \in Nat /\ w \in Nat /\ r \in Nat /\ w < R /\ r < R
    BY <1>1, Sizes DEF Rows
  <1>4. w # r /\ (Wrapped(f) <=> w < r)
    BY DEF Empty, Wrapped
  <1> QED
    BY <1>2, <1>3, <1>4

-----------------------------------------------------------------------------
(* How the stream of a flow changes. *)

IsRest(s, w, a, o, r, d) ==
    /\ s \in Seq(Contents) /\ Len(s) = Len(w) + o - a
    /\ Len(w) \in Nat /\ Len(w) + o - a \in Nat
    /\ \A k \in 1 .. Len(w) + o - a : s[k] =
         IF k <= Len(w) THEN w[k] ELSE d[(r + (k - 1 - Len(w) + a)) % R]
    /\ \A k \in 1 .. Len(w) : s[k] = w[k]

(* The stream is a sequence, the wire its beginning. *)
LEMMA RestTyped ==
    ASSUME NEW w \in Seq(Contents), NEW o \in 0 .. R - 1, NEW a \in 0 .. o,
           NEW r \in Rows, NEW d \in [Rows -> Contents]
    PROVE  IsRest(Rest(w, a, o, r, d), w, a, o, r, d)
  <1> DEFINE n == Len(w) + o - a
             g == [k \in 1 .. n |-> IF k <= Len(w) THEN w[k]
                                    ELSE d[(r + (k - 1 - Len(w) + a)) % R]]
  <1>1. Len(w) \in Nat /\ n \in Nat /\ Len(w) <= n
    BY LenProperties, Sizes
  <1>2. ASSUME NEW k \in 1 .. n
        PROVE  (IF k <= Len(w) THEN w[k] ELSE d[(r + (k - 1 - Len(w) + a)) % R])
                 \in Contents
    <2>1. CASE k <= Len(w)
      <3>1. k \in 1 .. Len(w)
        BY <1>1, <2>1
      <3> QED
        BY <2>1, <3>1, ElementOfSeq
    <2>2. CASE ~(k <= Len(w))
      <3>1. k - 1 - Len(w) + a \in 0 .. R
        BY <1>1, <2>2, Sizes
      <3>2. (r + (k - 1 - Len(w) + a)) % R \in Rows
        BY <3>1, Slots
      <3> QED
        BY <2>2, <3>2
    <2> QED
      BY <2>1, <2>2
  <1>3. g \in Seq(Contents) /\ Len(g) = n
    <2>1. g \in [1 .. n -> Contents]
      BY <1>2
    <2> HIDE DEF g, n
    <2>2. g \in Seq(Contents)
      BY <1>1, <2>1, IsASeq
    <2>3. DOMAIN g = 1 .. n
      BY <2>1
    <2> QED
      BY <1>1, <2>2, <2>3, LenProperties
  <1>4. \A k \in 1 .. n : g[k] = IF k <= Len(w) THEN w[k]
                                 ELSE d[(r + (k - 1 - Len(w) + a)) % R]
    OBVIOUS
  <1>5. Rest(w, a, o, r, d) = g
    BY DEF Rest
  <1> HIDE DEF g
  <1>6. \A k \in 1 .. Len(w) : g[k] = w[k]
    BY <1>1, <1>4
  <1> QED
    BY <1>1, <1>3, <1>4, <1>5, <1>6 DEF IsRest

(* A row that is sent stays where it is in the stream. *)
LEMMA RestSend ==
    ASSUME NEW w \in Seq(Contents), NEW o \in 0 .. R - 1, NEW a \in 0 .. o, a < o,
           NEW r \in Rows, NEW d \in [Rows -> Contents]
    PROVE  /\ d[(r + a) % R] \in Contents
           /\ Rest(Append(w, d[(r + a) % R]), a + 1, o, r, d) = Rest(w, a, o, r, d)
  <1> DEFINE x == d[(r + a) % R]
             v == Append(w, x)
             n == Len(w) + o - a
             s == Rest(w, a, o, r, d)
  <1>1. x \in Contents
    <2>1. a \in 0 .. R
      BY Sizes
    <2> QED
      BY <2>1, Slots
  <1>2. v \in Seq(Contents) /\ Len(v) = Len(w) + 1
        /\ (\A i \in 1 .. Len(w) : v[i] = w[i]) /\ v[Len(w) + 1] = x
    <2> HIDE DEF x
    <2> QED
      BY <1>1, Appended
  <1>3. PICK b \in 0 .. o : b = a + 1
    <2>1. a + 1 \in 0 .. o
      BY Sizes
    <2> QED
      BY <2>1
  <1> DEFINE t == Rest(v, b, o, r, d)
  <1>4. /\ s \in Seq(Contents) /\ Len(s) = n /\ Len(w) \in Nat /\ n \in Nat
        /\ \A k \in 1 .. n : s[k] = IF k <= Len(w) THEN w[k]
                                    ELSE d[(r + (k - 1 - Len(w) + a)) % R]
    <2>1. IsRest(s, w, a, o, r, d)
      BY RestTyped
    <2> HIDE DEF s
    <2> QED
      BY <2>1 DEF IsRest
  <1> HIDE DEF v, s
  <1>5. /\ t \in Seq(Contents) /\ Len(t) = Len(v) + o - b
        /\ \A k \in 1 .. Len(v) + o - b : t[k] =
             IF k <= Len(v) THEN v[k]
             ELSE d[(r + (k - 1 - Len(v) + b)) % R]
    <2>1. IsRest(t, v, b, o, r, d)
      BY <1>2, <1>3, RestTyped
    <2> HIDE DEF t
    <2> QED
      BY <2>1 DEF IsRest
  <1> HIDE DEF t
  <1>6. /\ Len(v) + o - b = n /\ Len(t) = n
        /\ \A k \in 1 .. n : t[k] =
             IF k <= Len(v) THEN v[k]
             ELSE d[(r + (k - 1 - Len(v) + b)) % R]
    <2>1. a \in Int /\ o \in Int
      BY Sizes
    <2>2. Len(v) + o - b = n
      BY <1>2, <1>3, <1>4, <2>1
    <2> QED
      BY <1>5, <2>2
  <1>7. ASSUME NEW k \in 1 .. n PROVE t[k] = s[k]
    <2>1. CASE k <= Len(w)
      <3>1. k \in 1 .. Len(w) /\ k <= Len(v)
        BY <1>2, <1>4, <2>1
      <3> QED
        BY <1>2, <1>4, <1>6, <2>1, <3>1
    <2>2. CASE k = Len(w) + 1
      <3>1. k - 1 - Len(w) + a = a /\ ~(k <= Len(w)) /\ k <= Len(v)
        BY <1>2, <1>4, <2>2
      <3>2. s[k] = x
        BY <1>4, <3>1
      <3>3. t[k] = v[k]
        BY <1>6, <3>1
      <3> QED
        BY <1>2, <2>2, <3>2, <3>3
    <2>3. CASE k > Len(w) + 1
      <3>1. PICK j \in Int : j = k - 1 - Len(v) + b /\ j = k - 1 - Len(w) + a
        <4>1. k - 1 - Len(v) + b = k - 1 - Len(w) + a
          BY <1>2, <1>3, <1>4
        <4>2. k \in Int /\ Len(w) \in Int /\ a \in Int
          BY <1>4, Sizes
        <4>3. k - 1 - Len(w) + a \in Int
          BY <4>2
        <4> QED
          BY <4>1, <4>3
      <3>2. ~(k <= Len(v)) /\ ~(k <= Len(w))
        BY <1>2, <1>4, <2>3
      <3>3. t[k] = d[(r + j) % R]
        BY <1>6, <3>1, <3>2
      <3>4. s[k] = d[(r + j) % R]
        BY <1>4, <3>1, <3>2
      <3> QED
        BY <3>3, <3>4
    <2>4. k \in Int /\ Len(w) \in Int
      BY <1>4
    <2> QED
      BY <2>1, <2>2, <2>3, <2>4
  <1>8. t = s
    BY <1>4, <1>5, <1>6, <1>7, SeqEqual
  <1> QED
    BY <1>1, <1>3, <1>8 DEF s, t, v

(* Moving the read pointer past a row that is sent changes no row. *)
LEMMA RestMove ==
    ASSUME NEW w \in Seq(Contents), NEW o \in 0 .. R - 1, NEW a \in 0 .. o, 1 <= a,
           a <= Len(w), NEW r \in Rows, NEW d \in [Rows -> Contents]
    PROVE  Rest(w, a - 1, o - 1, NextRow(r), d) = Rest(w, a, o, r, d)
  <1> DEFINE n == Len(w) + o - a
             s == Rest(w, a, o, r, d)
  <1>1. PICK p \in 0 .. R - 1, b \in 0 .. o, q \in Rows :
          p = o - 1 /\ b = a - 1 /\ q = NextRow(r) /\ b \in 0 .. p
    <2>1. o - 1 \in 0 .. R - 1 /\ a - 1 \in 0 .. o /\ NextRow(r) \in Rows
          /\ a - 1 \in 0 .. o - 1
      BY Sizes DEF NextRow, Rows
    <2> QED
      BY <2>1
  <1> DEFINE t == Rest(w, b, p, q, d)
  <1>2. /\ s \in Seq(Contents) /\ Len(s) = n /\ Len(w) \in Nat /\ n \in Nat
        /\ \A k \in 1 .. n : s[k] = IF k <= Len(w) THEN w[k]
                                    ELSE d[(r + (k - 1 - Len(w) + a)) % R]
    <2>1. IsRest(s, w, a, o, r, d)
      BY RestTyped
    <2> HIDE DEF s
    <2> QED
      BY <2>1 DEF IsRest
  <1> HIDE DEF s
  <1>3. /\ t \in Seq(Contents) /\ Len(t) = Len(w) + p - b
        /\ \A k \in 1 .. Len(w) + p - b : t[k] =
             IF k <= Len(w) THEN w[k]
             ELSE d[(q + (k - 1 - Len(w) + b)) % R]
    <2>1. IsRest(t, w, b, p, q, d)
      BY <1>1, RestTyped
    <2> HIDE DEF t
    <2> QED
      BY <2>1 DEF IsRest
  <1> HIDE DEF t
  <1>4. /\ Len(t) = n
        /\ \A k \in 1 .. n : t[k] =
             IF k <= Len(w) THEN w[k]
             ELSE d[(q + (k - 1 - Len(w) + b)) % R]
    <2>1. Len(w) + p - b = n
      BY <1>1, <1>2
    <2> QED
      BY <1>3, <2>1
  <1>5. ASSUME NEW k \in 1 .. n, ~(k <= Len(w))
        PROVE  (q + (k - 1 - Len(w) + b)) % R = (r + (k - 1 - Len(w) + a)) % R
    <2> DEFINE j == k - 1 - Len(w) + a
               i == k - 1 - Len(w) + b
    <2>1. j \in 1 .. R - 1 /\ i = j - 1
      BY <1>1, <1>2, <1>5, Sizes
    <2> HIDE DEF i, j
    <2>2. j \in 0 .. R /\ i \in 0 .. R
      BY <2>1, Sizes
    <2>3. (r + j) % R = IF r + j < R THEN r + j ELSE r + j - R
      BY <2>2, Slots
    <2>4. (q + i) % R = IF q + i < R THEN q + i ELSE q + i - R
      BY <1>1, <2>2, Slots
    <2>5. (q + i) % R = (r + j) % R
      BY <1>1, <2>1, <2>3, <2>4, Sizes DEF NextRow, Rows
    <2> QED
      BY <2>5 DEF i, j
  <1>6. ASSUME NEW k \in 1 .. n PROVE t[k] = s[k]
    <2>1. CASE k <= Len(w)
      BY <1>2, <1>4, <2>1
    <2>2. CASE ~(k <= Len(w))
      <3>1. t[k] = d[(q + (k - 1 - Len(w) + b)) % R]
        BY <1>4, <2>2
      <3>2. s[k] = d[(r + (k - 1 - Len(w) + a)) % R]
        BY <1>2, <2>2
      <3> QED
        BY <1>5, <2>2, <3>1, <3>2
    <2> QED
      BY <2>1, <2>2
  <1>7. t = s
    BY <1>2, <1>3, <1>4, <1>6, SeqEqual
  <1> QED
    BY <1>1, <1>7 DEF s, t

(* Writing the slot at the write pointer and moving it appends a row. *)
LEMMA RestPut ==
    ASSUME NEW w \in Seq(Contents), NEW o \in 0 .. R - 2, NEW a \in 0 .. o,
           NEW r \in Rows, NEW d \in [Rows -> Contents], NEW x \in Contents
    PROVE  Rest(w, a, o + 1, r, [d EXCEPT ![(r + o) % R] = x])
             = Append(Rest(w, a, o, r, d), x)
  <1> DEFINE n == Len(w) + o - a
             s == Rest(w, a, o, r, d)
             v == Append(s, x)
             c == [d EXCEPT ![(r + o) % R] = x]
             p == o + 1
             t == Rest(w, a, p, r, c)
  <1>1. o \in 0 .. R - 1 /\ p \in 0 .. R - 1 /\ a \in 0 .. p /\ o \in 0 .. R
    BY Sizes
  <1>2. (r + o) % R \in Rows
    BY <1>1, Slots
  <1>3. c \in [Rows -> Contents]
        /\ \A i \in Rows : c[i] = IF i = (r + o) % R THEN x ELSE d[i]
    BY <1>2
  <1>4. /\ s \in Seq(Contents) /\ Len(s) = n /\ Len(w) \in Nat /\ n \in Nat
        /\ \A k \in 1 .. n : s[k] = IF k <= Len(w) THEN w[k]
                                    ELSE d[(r + (k - 1 - Len(w) + a)) % R]
    <2>1. IsRest(s, w, a, o, r, d)
      BY <1>1, RestTyped
    <2> HIDE DEF s
    <2> QED
      BY <2>1 DEF IsRest
  <1> HIDE DEF c, s, p
  <1>5. /\ t \in Seq(Contents) /\ Len(t) = Len(w) + p - a
        /\ \A k \in 1 .. Len(w) + p - a : t[k] =
             IF k <= Len(w) THEN w[k]
             ELSE c[(r + (k - 1 - Len(w) + a)) % R]
    <2>1. IsRest(t, w, a, p, r, c)
      BY <1>1, <1>3, RestTyped
    <2> HIDE DEF t
    <2> QED
      BY <2>1 DEF IsRest
  <1> HIDE DEF t
  <1>6. /\ Len(t) = n + 1
        /\ \A k \in 1 .. n + 1 : t[k] =
             IF k <= Len(w) THEN w[k]
             ELSE c[(r + (k - 1 - Len(w) + a)) % R]
    <2>1. Len(w) + p - a = n + 1
      BY <1>4 DEF p
    <2> QED
      BY <1>5, <2>1
  <1>7. /\ v \in Seq(Contents) /\ Len(v) = n + 1
        /\ \A k \in 1 .. n : v[k] = s[k]
        /\ v[n + 1] = x
    BY <1>4, Appended
  <1> HIDE DEF v
  <1>8. ASSUME NEW k \in 1 .. n + 1 PROVE t[k] = v[k]
    <2>1. CASE k <= Len(w)
      <3>1. k \in 1 .. n
        BY <1>4, <2>1
      <3> QED
        BY <1>4, <1>6, <1>7, <2>1, <3>1
    <2>2. CASE ~(k <= Len(w))
      <3> DEFINE j == k - 1 - Len(w) + a
      <3>1. j \in 0 .. R /\ j \in 0 .. o /\ (j = o <=> k = n + 1)
        BY <1>1, <1>4, <2>2, Sizes
      <3>2. t[k] = c[(r + j) % R]
        BY <1>6, <2>2
      <3>3. k \in 1 .. n => s[k] = d[(r + j) % R]
        BY <1>4, <2>2
      <3> HIDE DEF j
      <3>4. (r + j) % R \in Rows
            /\ (r + j) % R = IF r + j < R THEN r + j ELSE r + j - R
        BY <3>1, Slots
      <3>5. (r + o) % R = IF r + o < R THEN r + o ELSE r + o - R
        BY <1>1, Slots
      <3>6. (r + j) % R = (r + o) % R <=> j = o
        <4>1. r \in Nat /\ r < R /\ R \in Nat
          BY Sizes DEF Rows
        <4>2. j \in Nat /\ j <= o /\ o \in Nat /\ o < R
          BY <1>1, <3>1, <4>1
        <4>3. PICK y \in Int : y = (r + j) % R
          BY <3>4, <4>1, <4>2
        <4>4. PICK z \in Int : z = (r + o) % R
          BY <3>5, <4>1, <4>2
        <4>5. /\ y = IF r + j < R THEN r + j ELSE r + j - R
              /\ z = IF r + o < R THEN r + o ELSE r + o - R
          BY <3>4, <3>5, <4>3, <4>4
        <4>6. y = z <=> j = o
          BY <4>1, <4>2, <4>5
        <4> QED
          BY <4>3, <4>4, <4>6
      <3>7. CASE k = n + 1
        BY <1>3, <1>7, <3>1, <3>2, <3>4, <3>6, <3>7
      <3>8. CASE k # n + 1
        <4>1. k \in 1 .. n
          BY <1>4, <3>8
        <4> QED
          BY <1>3, <1>7, <3>1, <3>2, <3>3, <3>4, <3>6, <3>8, <4>1
      <3> QED
        BY <3>7, <3>8
    <2> QED
      BY <2>1, <2>2
  <1>9. t = v
    BY <1>4, <1>5, <1>6, <1>7, <1>8, SeqEqual
  <1> QED
    BY <1>9 DEF t, v, s, c, p

-----------------------------------------------------------------------------
(* Whole frames. *)

(* The first row of the frame of a row is not after it. *)
LEMMA FirstBefore ==
    ASSUME NEW k \in Nat, k >= 1
    PROVE  First(k) \in 1 .. k /\ (k - 1) % H \in 0 .. H - 1
  <1>1. PICK a \in Nat : a = k - 1
    OBVIOUS
  <1>2. a % H \in 0 .. H - 1 /\ a \div H \in Nat /\ a = H * (a \div H) + (a % H)
    BY Sizes, DivMod
  <1>3. H * (a \div H) \in Nat
    BY <1>2, Sizes
  <1> DEFINE p == H * (a \div H)
             m == a % H
  <1> HIDE DEF p, m
  <1>4. m \in Nat /\ p \in Nat /\ a = p + m
    BY <1>2, <1>3, Sizes DEF p, m
  <1>5. k - m \in 1 .. k
    BY <1>1, <1>4
  <1>6. First(k) = k - m
    BY <1>1 DEF First, m
  <1> QED
    BY <1>1, <1>2, <1>5, <1>6

(* The next row of a frame, or the first of a frame that is new.           *)
LEMMA FrameGrows ==
    ASSUME NEW s \in Seq(Contents), NEW x \in Nat, NEW m \in 0 .. H - 1,
           Len(s) % H = m, Framed(s), Once(s),
           m = 0 => Fresh(s, x),
           m > 0 => s[Len(s)][1] = x
    PROVE  Framed(Append(s, <<x, m>>)) /\ Once(Append(s, <<x, m>>))
  <1> DEFINE y == <<x, m>>
             t == Append(s, y)
             l == Len(s)
  <1>1. y \in Contents /\ m \in Nat /\ y[1] = x
    BY Sizes DEF Contents
  <1>2. /\ t \in Seq(Contents) /\ Len(t) = l + 1 /\ l \in Nat
        /\ \A i \in 1 .. l : t[i] = s[i]
        /\ t[l + 1] = y
    <2> HIDE DEF y
    <2> QED
      BY <1>1, Appended, LenProperties
  <1> HIDE DEF t, l
  <1>3. First(l + 1) = l + 1 - m /\ (l + 1 - 1) % H = m
    <2>1. l + 1 - 1 = l /\ l % H = m
      BY <1>2 DEF l
    <2>2. PICK n \in Nat : n = l + 1
      BY <1>2
    <2>3. n - 1 = l
      BY <1>2, <2>2
    <2>4. First(n) = n - m
      BY <2>1, <2>3 DEF First
    <2>5. First(l + 1) = l + 1 - m
      BY <1>1, <1>2, <2>2, <2>4
    <2>6. (l + 1 - 1) % H = m
      BY <2>1
    <2> QED
      BY <2>5, <2>6
  <1>4. m > 0 => /\ l >= 1 /\ First(l) = l + 1 - m
    <2> SUFFICES ASSUME m > 0 PROVE l >= 1 /\ First(l) = l + 1 - m
      OBVIOUS
    <2>1. l >= 1
      <3>1. 0 % H = 0
        BY Sizes
      <3> QED
        BY <1>2, <3>1 DEF l
    <2>2. PICK a \in Nat : a = l - 1
      BY <1>2, <2>1
    <2>3. (a + 1) % H = IF (a % H) + 1 = H THEN 0 ELSE (a % H) + 1
      BY Sizes, NextDivMod
    <2>4. a + 1 = l /\ l % H = m
      BY <1>2, <2>2 DEF l
    <2>5. a % H \in 0 .. H - 1
      BY Sizes, DivMod
    <2>6. a % H = m - 1
      BY <2>3, <2>4, <2>5, Sizes
    <2>7. First(l) = l - (a % H)
      BY <2>2 DEF First
    <2>8. m \in Nat
      BY <1>1
    <2> QED
      BY <1>2, <2>1, <2>6, <2>7, <2>8
  <1>5. \A k \in 1 .. l : First(k) \in 1 .. k
    <2> SUFFICES ASSUME NEW k \in 1 .. l PROVE First(k) \in 1 .. k
      OBVIOUS
    <2>1. k \in Nat /\ k >= 1
      BY <1>2
    <2> QED
      BY <2>1, FirstBefore
  <1>6. Framed(t)
    <2>1. ASSUME NEW k \in 1 .. l PROVE t[k] = <<t[First(k)][1], (k - 1) % H>>
      <3>1. s[k] = <<s[First(k)][1], (k - 1) % H>>
        BY <2>1 DEF Framed, l
      <3>2. First(k) \in 1 .. l
        BY <1>2, <1>5
      <3> QED
        BY <1>2, <3>1, <3>2
    <2>2. t[First(l + 1)][1] = x
      <3>1. CASE m = 0
        <4>1. First(l + 1) = l + 1
          BY <1>2, <1>3, <3>1
        <4> QED
          BY <1>1, <1>2, <4>1
      <3>2. CASE m > 0
        <4>1. First(l + 1) = First(l) /\ l \in 1 .. l /\ First(l) \in 1 .. l
          BY <1>2, <1>3, <1>4, <1>5, <3>2
        <4>2. s[l] = <<s[First(l)][1], (l - 1) % H>>
          BY <4>1 DEF Framed, l
        <4>3. s[l][1] = s[First(l)][1]
          BY <4>2
        <4>4. s[l][1] = x
          BY <3>2 DEF l
        <4> QED
          BY <1>2, <4>1, <4>3, <4>4
      <3> QED
        BY <1>1, <3>1, <3>2
    <2>3. ASSUME NEW k \in 1 .. l + 1
          PROVE  t[k] = <<t[First(k)][1], (k - 1) % H>>
      <3>1. CASE k = l + 1
        <4>1. t[k] = <<x, m>> /\ t[First(k)][1] = x /\ (k - 1) % H = m
          BY <1>2, <1>3, <2>2, <3>1
        <4> QED
          BY <4>1
      <3>2. CASE k # l + 1
        <4>1. k \in 1 .. l
          BY <1>2, <3>2
        <4> QED
          BY <2>1, <4>1
      <3> QED
        BY <3>1, <3>2
    <2> QED
      BY <1>2, <2>3 DEF Framed
  <1>7. Once(t)
    <2>1. ASSUME NEW k \in 1 .. l, NEW j \in 1 .. First(k) - 1
          PROVE  t[j][1] # t[k][1]
      <3>1. s[j][1] # s[k][1]
        BY <2>1 DEF Once, l
      <3>2. j \in 1 .. l
        BY <1>2, <1>5
      <3> QED
        BY <1>2, <3>1, <3>2
    <2>2. ASSUME NEW j \in 1 .. First(l + 1) - 1 PROVE t[j][1] # x
      <3>1. CASE m = 0
        <4>1. j \in 1 .. l
          BY <1>2, <1>3, <3>1
        <4>2. s[j][1] # x
          BY <3>1, <4>1 DEF Fresh, l
        <4> QED
          BY <1>2, <4>1, <4>2
      <3>2. CASE m > 0
        <4>1. First(l + 1) = First(l) /\ l \in 1 .. l /\ First(l) \in 1 .. l
          BY <1>2, <1>3, <1>4, <1>5, <3>2
        <4>2. j \in 1 .. First(l) - 1 /\ j \in 1 .. l
          BY <1>2, <4>1
        <4>3. s[j][1] # s[l][1]
          BY <4>1, <4>2 DEF Once, l
        <4>4. s[l][1] = x
          BY <3>2 DEF l
        <4> QED
          BY <1>2, <4>2, <4>3, <4>4
      <3> QED
        BY <1>1, <3>1, <3>2
    <2>3. ASSUME NEW k \in 1 .. l + 1, NEW j \in 1 .. First(k) - 1
          PROVE  t[j][1] # t[k][1]
      <3>1. CASE k = l + 1
        <4>1. t[k][1] = x /\ j \in 1 .. First(l + 1) - 1
          BY <1>1, <1>2, <3>1
        <4> QED
          BY <2>2, <4>1
      <3>2. CASE k # l + 1
        <4>1. k \in 1 .. l
          BY <1>2, <3>2
        <4> QED
          BY <2>1, <4>1
      <3> QED
        BY <3>1, <3>2
    <2> QED
      BY <1>2, <2>3 DEF Once
  <1> QED
    BY <1>6, <1>7 DEF t

(* What an appended row does to the bounds and to new frames. *)
LEMMA RowAppended ==
    ASSUME NEW s \in Seq(Contents), NEW x \in Nat, NEW m \in Nat, NEW n \in Int
    PROVE  /\ Append(s, <<x, m>>) \in Seq(Contents)
           /\ Len(Append(s, <<x, m>>)) = Len(s) + 1 /\ Len(s) \in Nat
           /\ \A k \in 1 .. Len(s) : Append(s, <<x, m>>)[k] = s[k]
           /\ Append(s, <<x, m>>)[Len(s) + 1][1] = x
           /\ UpTo(s, n) /\ x <= n => UpTo(Append(s, <<x, m>>), n)
           /\ \A z : Fresh(s, z) /\ z # x => Fresh(Append(s, <<x, m>>), z)
  <1> DEFINE y == <<x, m>>
             t == Append(s, y)
             l == Len(s)
  <1>1. y \in Contents /\ y[1] = x
    BY DEF Contents
  <1>2. /\ t \in Seq(Contents) /\ Len(t) = l + 1 /\ l \in Nat
        /\ \A i \in 1 .. l : t[i] = s[i]
        /\ t[l + 1] = y
    <2> HIDE DEF y
    <2> QED
      BY <1>1, Appended, LenProperties
  <1> HIDE DEF t, l
  <1>3. \A k \in 1 .. l + 1 : t[k][1] = IF k = l + 1 THEN x ELSE s[k][1]
    BY <1>1, <1>2
  <1>4. UpTo(s, n) /\ x <= n => UpTo(t, n)
    <2> SUFFICES ASSUME UpTo(s, n), x <= n, NEW k \in 1 .. l + 1 PROVE t[k][1] <= n
      BY <1>2 DEF UpTo
    <2>1. CASE k = l + 1
      BY <1>3, <2>1
    <2>2. CASE k # l + 1
      <3>1. k \in 1 .. l
        BY <1>2, <2>2
      <3> QED
        BY <1>3, <2>2, <3>1 DEF UpTo, l
    <2> QED
      BY <2>1, <2>2
  <1>5. ASSUME NEW z, Fresh(s, z), z # x PROVE Fresh(t, z)
    <2> SUFFICES ASSUME NEW k \in 1 .. l + 1 PROVE t[k][1] # z
      BY <1>2 DEF Fresh
    <2>1. CASE k = l + 1
      BY <1>3, <1>5, <2>1
    <2>2. CASE k # l + 1
      <3>1. k \in 1 .. l
        BY <1>2, <2>2
      <3> QED
        BY <1>3, <1>5, <2>2, <3>1 DEF Fresh, l
    <2> QED
      BY <2>1, <2>2
  <1> QED
    BY <1>1, <1>2, <1>4, <1>5 DEF t, l

-----------------------------------------------------------------------------
(* What single steps do to rings and job workers. *)

(* The rows a job worker is at are of a configured flow. *)
LEMMA Typed ==
    ASSUME IfmapType
    PROVE  /\ WorkersType(Flows)
           /\ \A e \in JobWorkers :
                /\ jw[e].flow \in Flows /\ work[e].row \in 0 .. H - 1
                /\ work[e].frame \in Nat
           /\ \A f \in Flows :
                /\ ring[f] \in Rings /\ queue[f] \in Seq(Nat)
                /\ wire[f] \in Seq(Contents) /\ accepted[f] \in Nat
                /\ Len(queue[f]) \in Nat
  <1>1. \A e \in JobWorkers : jw[e].flow \in Flows
    BY DEF IfmapType, WorkersType, JobWorkerStates
  <1>2. \A f \in Flows : Len(queue[f]) \in Nat
    BY LenProperties DEF IfmapType
  <1> QED
    BY <1>1, <1>2 DEF IfmapType

(* A job worker takes or frees the lock of a ring. *)
LEMMA GuardChanges ==
    ASSUME ring \in [Flows -> Rings], NEW f \in Flows,
           NEW g \in JobWorkers \cup {NoWorker}, ring' = [ring EXCEPT ![f].guard = g]
    PROVE  /\ ring' \in [Flows -> Rings]
           /\ \A h \in Flows :
                /\ ring'[h].guard = IF h = f THEN g ELSE ring[h].guard
                /\ ring'[h].entry_w = ring[h].entry_w
                /\ ring'[h].entry_r = ring[h].entry_r
                /\ ring'[h].data = ring[h].data
  BY DEF Rings

(* The rings of the other flows do not change. *)
OtherRingsSame(f) == \A g \in Flows : g # f => ring'[g] = ring[g]

(* A job worker writes a row. *)
LEMMA RowWritten ==
    ASSUME IfmapType, NEW e \in JobWorkers, EncodeRow(e), NEW f, f = jw[e].flow
    PROVE  /\ ring' \in [Flows -> Rings]
           /\ ring'[f].entry_w = NextRow(ring[f].entry_w)
           /\ ring'[f].entry_r = ring[f].entry_r
           /\ ring'[f].guard = ring[f].guard
           /\ ring'[f].data = [ring[f].data EXCEPT ![ring[f].entry_w] =
                                 <<work[e].frame, work[e].row>>]
           /\ OtherRingsSame(f)
           /\ <<work[e].frame, work[e].row>> \in Contents
  <1> DEFINE w == ring[f].entry_w
             x == <<work[e].frame, work[e].row>>
             c == [ring[f].data EXCEPT ![w] = x]
             b == [ring[f] EXCEPT !.data = c, !.entry_w = NextRow(w)]
  <1>1. f \in Flows /\ ring[f] \in Rings /\ ring \in [Flows -> Rings]
    BY Typed DEF IfmapType
  <1>2. x \in Contents /\ w \in Rows /\ NextRow(w) \in Rows
    <2>1. work[e].frame \in Nat /\ work[e].row \in Nat
      BY Typed, Sizes
    <2>2. w \in Rows
      BY <1>1 DEF Rings
    <2> HIDE DEF w
    <2> QED
      BY <2>1, <2>2, Sizes DEF Contents, NextRow, Rows
  <1>3. c \in [Rows -> Contents]
    <2>1. ring[f].data \in [Rows -> Contents]
      BY <1>1 DEF Rings
    <2> HIDE DEF w, x
    <2> QED
      BY <1>2, <2>1
  <1>4. ring' = [ring EXCEPT ![f] = b]
    BY <1>1 DEF EncodeRow, Rings
  <1> HIDE DEF c, w, x
  <1>5. /\ b \in Rings /\ b.entry_w = NextRow(w) /\ b.data = c
        /\ b.entry_r = ring[f].entry_r /\ b.guard = ring[f].guard
    BY <1>1, <1>2, <1>3 DEF Rings
  <1> HIDE DEF b
  <1>6. ring' \in [Flows -> Rings] /\ ring'[f] = b
        /\ \A g \in Flows : g # f => ring'[g] = ring[g]
    BY <1>1, <1>4, <1>5
  <1> QED
    BY <1>2, <1>5, <1>6 DEF c, w, x, OtherRingsSame

(* The ifmap worker moves the read pointer. *)
LEMMA EntryMoved ==
    ASSUME IfmapType, TransferInv, MoveEntry, NEW f, f = send.flow
    PROVE  /\ ring' \in [Flows -> Rings] /\ f \in Flows
           /\ ring'[f].entry_r = NextRow(ring[f].entry_r)
           /\ ring'[f].entry_w = ring[f].entry_w
           /\ ring'[f].guard = ring[f].guard
           /\ ring'[f].data = ring[f].data
           /\ \A g \in Flows : g # f => ring'[g] = ring[g]
           /\ jw' \in [JobWorkers -> JobWorkerStates(Flows)]
           /\ \A e \in JobWorkers :
                /\ jw'[e].pc = IF jw[e].pc = "full" /\ jw[e].flow = f THEN "row"
                               ELSE jw[e].pc
                /\ jw'[e].flow = jw[e].flow
                /\ jw'[e].enable = jw[e].enable /\ jw'[e].next = jw[e].next
  <1>1. f \in Flows /\ ring[f] \in Rings /\ ring \in [Flows -> Rings]
    BY Typed DEF MoveEntry, TransferInv, IfmapType
  <1>2. NextRow(ring[f].entry_r) \in Rows
    <2>1. ring[f].entry_r \in Rows
      BY <1>1 DEF Rings
    <2> QED
      BY <2>1, Sizes DEF NextRow, Rows
  <1>3. ring' = [ring EXCEPT ![f].entry_r = NextRow(ring[f].entry_r)]
    BY <1>1 DEF MoveEntry
  <1>4. /\ ring' \in [Flows -> Rings]
        /\ ring'[f].entry_r = NextRow(ring[f].entry_r)
        /\ ring'[f].entry_w = ring[f].entry_w
        /\ ring'[f].guard = ring[f].guard
        /\ ring'[f].data = ring[f].data
        /\ \A g \in Flows : g # f => ring'[g] = ring[g]
    BY <1>1, <1>2, <1>3 DEF Rings
  <1>5. \A e \in JobWorkers : jw'[e] = IF jw[e].pc = "full" /\ jw[e].flow = f
                 THEN [jw[e] EXCEPT !.pc = "row"] ELSE jw[e]
    BY DEF MoveEntry
  <1>6. \A e \in JobWorkers : jw[e] \in JobWorkerStates(Flows)
    BY DEF IfmapType, WorkersType
  <1>7. \A e \in JobWorkers :
          /\ jw'[e] \in JobWorkerStates(Flows)
          /\ jw'[e].pc = IF jw[e].pc = "full" /\ jw[e].flow = f THEN "row"
                         ELSE jw[e].pc
          /\ jw'[e].flow = jw[e].flow
          /\ jw'[e].enable = jw[e].enable /\ jw'[e].next = jw[e].next
    <2> SUFFICES ASSUME NEW e \in JobWorkers
                 PROVE  /\ jw'[e] \in JobWorkerStates(Flows)
                        /\ jw'[e].pc = IF jw[e].pc = "full" /\ jw[e].flow = f
                                       THEN "row" ELSE jw[e].pc
                        /\ jw'[e].flow = jw[e].flow
                        /\ jw'[e].enable = jw[e].enable /\ jw'[e].next = jw[e].next
      OBVIOUS
    <2>1. jw[e] \in JobWorkerStates(Flows)
      BY <1>6
    <2>2. CASE jw[e].pc = "full" /\ jw[e].flow = f
      <3>1. jw'[e] = [jw[e] EXCEPT !.pc = "row"]
        BY <1>5, <2>2
      <3>2. "row" \in JobPCs
        BY DEF JobPCs
      <3> QED
        BY <2>1, <2>2, <3>1, <3>2 DEF JobWorkerStates
    <2>3. CASE ~(jw[e].pc = "full" /\ jw[e].flow = f)
      <3>1. jw'[e] = jw[e]
        BY <1>5, <2>3
      <3> QED
        BY <2>1, <2>3, <3>1
    <2> QED
      BY <2>2, <2>3
  <1>8. jw' \in [JobWorkers -> JobWorkerStates(Flows)]
    BY <1>7 DEF MoveEntry
  <1> QED
    BY <1>1, <1>4, <1>7, <1>8

-----------------------------------------------------------------------------
(* The steps of the system, one by one. *)

ifmapVars == <<queue, ring, ota, work, send, user, calls, accepted, wire>>

LoopStep(e) == JobWorkerLoop(e) /\ UNCHANGED ifmapVars
GateStep == WorkerGate /\ UNCHANGED ifmapVars
ControlStep ==
    /\ \/ SpuriousWakeup \/ Control(FALSE) \/ Request
       \/ DestroyDisable /\ UsersDone
    /\ UNCHANGED ifmapVars
JoinStep ==
    /\ DestroyJoin
    /\ queue' = [f \in Flows |-> <<>>]
    /\ UNCHANGED <<ring, ota, work, send, user, calls, accepted, wire>>

(* The reads of a transfer. *)
TransferReads == TransferBegin \/ TransferSubtract \/ TransferCompare

(* They change nothing but the ifmap worker's place and its count. *)
LEMMA ReadsChange ==
    ASSUME TransferReads
    PROVE  /\ wk.pc \in {"begin", "subtract", "compare"}
           /\ UNCHANGED <<jobs, jw, pool, lost, ctl, queue, ring, ota, work, user, calls,
                          accepted, wire>>
  BY DEF TransferReads, TransferBegin, TransferSubtract, TransferCompare

(* Every step is one of these. *)
LEMMA Steps ==
    ASSUME [Next]_vars
    PROVE  \/ UNCHANGED vars
           \/ \E u \in Users : \E f \in Flows : StreamCall(u, f)
           \/ \E u \in Users :
                StreamPoll(u) \/ StreamPush(u) \/ StreamJob(u) \/ StreamSignal(u)
           \/ \E e \in JobWorkers :
                \/ EncodePop(e) \/ EncodeLock(e) \/ EncodeWait(e) \/ EncodeRow(e)
                \/ EncodeCount(e) \/ LoopStep(e)
           \/ WorkerTop \/ ScanFlow \/ TransferReads \/ SendRow \/ MoveEntry
           \/ WorkerRest \/ GateStep \/ ControlStep \/ JoinStep
  BY DEF Next, User, Encode, Worker, TransferReads, LoopStep, GateStep, ControlStep,
         JoinStep, ifmapVars

-----------------------------------------------------------------------------
(* Type correctness. *)

UserStates ==
    [pc : {"idle", "poll", "push", "job", "signal"}, flow : Flows]

(* A caller moves on. *)
LEMMA UserMoves ==
    ASSUME IfmapType, NEW u \in Users,
           NEW pc \in {"idle", "poll", "push", "job", "signal"}, UserGoes(u, pc)
    PROVE  /\ user' \in [Users -> UserStates]
           /\ user'[u].pc = pc /\ user'[u].flow = user[u].flow
           /\ \A v \in Users : v # u => user'[v] = user[v]
  BY DEF IfmapType, UserGoes, UserStates

(* The steps of the callers. *)
LEMMA UsersKeepType ==
    ASSUME IfmapType, NEW u \in Users,
           \/ \E f \in Flows : StreamCall(u, f)
           \/ StreamPoll(u) \/ StreamPush(u) \/ StreamJob(u) \/ StreamSignal(u)
    PROVE  IfmapType'
  <1>1. WorkersType(Flows) /\ user \in [Users -> UserStates]
    BY DEF IfmapType, UserStates
  <1>2. user[u].flow \in Flows
    BY <1>1 DEF UserStates
  <1>3. CASE \E f \in Flows : StreamCall(u, f)
    <2>1. PICK f \in Flows : StreamCall(u, f)
      BY <1>3
    <2>2. user' \in [Users -> UserStates]
      BY <1>1, <2>1 DEF StreamCall, UserStates
    <2>3. calls' \in Nat
      BY <2>1 DEF StreamCall, IfmapType
    <2>4. UNCHANGED <<jobs, jw, pool, lost, wk, ctl, queue, ring, ota, work, send,
                      accepted, wire>>
      BY <2>1 DEF StreamCall, sharedVars
    <2> QED
      BY <1>1, <2>2, <2>3, <2>4 DEF IfmapType, UserStates, WorkersType
  <1>4. CASE StreamPoll(u)
    <2>1. PICK pc \in {"idle", "push"} : UserGoes(u, pc)
      BY <1>4 DEF StreamPoll
    <2>2. user' \in [Users -> UserStates]
      BY <2>1, UserMoves
    <2> QED
      BY <1>4, <2>2 DEF StreamPoll, IfmapType, UserStates, sharedVars, WorkersType
  <1>5. CASE StreamPush(u)
    <2>1. UserGoes(u, "job")
      BY <1>5 DEF StreamPush
    <2>2. user' \in [Users -> UserStates]
      BY <2>1, UserMoves
    <2> DEFINE f == user[u].flow
    <2>3. queue' = [queue EXCEPT ![f] = Append(queue[f], accepted[f] + 1)]
          /\ accepted' = [accepted EXCEPT ![f] = accepted[f] + 1]
      BY <1>2, <1>5 DEF StreamPush, IfmapType
    <2>4. queue[f] \in Seq(Nat) /\ accepted[f] + 1 \in Nat /\ f \in Flows
      BY <1>2, Typed
    <2> HIDE DEF f
    <2>5. Append(queue[f], accepted[f] + 1) \in Seq(Nat)
      BY <2>4, AppendProperties
    <2>6. queue' \in [Flows -> Seq(Nat)] /\ accepted' \in [Flows -> Nat]
      BY <2>3, <2>4, <2>5 DEF IfmapType
    <2> QED
      BY <1>5, <2>2, <2>6 DEF StreamPush, IfmapType, UserStates, sharedVars, WorkersType
  <1>6. CASE StreamJob(u)
    <2>1. UserGoes(u, "signal")
      BY <1>6 DEF StreamJob
    <2>2. user' \in [Users -> UserStates]
      BY <2>1, UserMoves
    <2>3. jobs' \in Seq(Flows)
      BY <1>1, <1>2, <1>6, AppendProperties DEF StreamJob, WorkersType
    <2> QED
      BY <1>6, <2>2, <2>3 DEF StreamJob, IfmapType, UserStates, WorkersType
  <1>7. CASE StreamSignal(u)
    <2>1. UserGoes(u, "idle") /\ SignalEnqueue
      BY <1>7 DEF StreamSignal
    <2>2. user' \in [Users -> UserStates]
      BY <2>1, UserMoves
    <2>3. jw' \in [JobWorkers -> JobWorkerStates(Flows)]
      BY <1>1, <2>1, WakeTyped
    <2> QED
      BY <1>7, <2>2, <2>3 DEF StreamSignal, IfmapType, UserStates, WorkersType
  <1> QED
    BY <1>3, <1>4, <1>5, <1>6, <1>7

(* Signals to the ifmap worker keep its type. *)
LEMMA WorkerMoves ==
    ASSUME IfmapType,
           (\E pc \in WorkerPCs : WorkerGoes(pc)) \/ SignalNewRows
    PROVE  /\ wk' \in [pc : WorkerPCs, enable : {0, 1},
                       state : {"pending", "running"}, next : {"pending", "running"}]
           /\ wk'.enable = wk.enable /\ wk'.next = wk.next
           /\ \A pc \in WorkerPCs : WorkerGoes(pc) => wk'.pc = pc
           /\ SignalNewRows => wk'.pc = IF wk.pc = "waiting" THEN "idle" ELSE wk.pc
  <1>1. wk \in [pc : WorkerPCs, enable : {0, 1},
                state : {"pending", "running"}, next : {"pending", "running"}]
    BY DEF IfmapType, WorkersType
  <1> QED
    BY <1>1 DEF WorkerGoes, SignalNewRows, WorkerPCs

(* The steps of a job worker in a frame. *)
LEMMA EncodersKeepType ==
    ASSUME IfmapType, NEW e \in JobWorkers,
           EncodePop(e) \/ EncodeLock(e) \/ EncodeWait(e) \/ EncodeRow(e) \/ EncodeCount(e)
    PROVE  IfmapType'
  <1> DEFINE f == jw[e].flow
  <1>1. WorkersType(Flows) /\ f \in Flows /\ work \in [JobWorkers -> [frame : Nat, row : 0 .. H - 1]]
        /\ queue[f] \in Seq(Nat) /\ ring \in [Flows -> Rings]
        /\ \A e1 \in JobWorkers : work[e1].row \in 0 .. H - 1
    BY Typed DEF IfmapType
  <1>2. \A pc \in JobPCs : JobWorkerGoes(e, pc) =>
          jw' \in [JobWorkers -> JobWorkerStates(Flows)]
    <2> SUFFICES ASSUME NEW pc \in JobPCs, JobWorkerGoes(e, pc)
                 PROVE  jw' \in [JobWorkers -> JobWorkerStates(Flows)]
      OBVIOUS
    <2> QED
      BY <1>1, JobWorkerMoves
  <1>3. {"rest", "lock", "row", "full", "count"} \subseteq JobPCs
    BY DEF JobPCs
  <1>4. CASE EncodePop(e)
    <2>1. jw' \in [JobWorkers -> JobWorkerStates(Flows)]
      BY <1>2, <1>3, <1>4 DEF EncodePop
    <2>2. queue' \in [Flows -> Seq(Nat)] /\ work' \in [JobWorkers -> [frame : Nat, row : 0 .. H - 1]]
      <3>1. CASE queue[f] = <<>>
        BY <1>4, <3>1 DEF EncodePop, IfmapType
      <3>2. CASE queue[f] # <<>>
        <4>1. Head(queue[f]) \in Nat /\ Tail(queue[f]) \in Seq(Nat)
          BY <1>1, <3>2, HeadTailProperties
        <4>2. work' = [work EXCEPT ![e].frame = Head(queue[f])]
              /\ queue' = [queue EXCEPT ![f] = Tail(queue[f])]
          BY <1>1, <1>4, <3>2 DEF EncodePop, IfmapType
        <4> HIDE DEF f
        <4>3. queue' \in [Flows -> Seq(Nat)]
          BY <1>1, <4>1, <4>2 DEF IfmapType
        <4>4. work' \in [JobWorkers -> [frame : Nat, row : 0 .. H - 1]]
          BY <1>1, <4>1, <4>2
        <4> QED
          BY <4>3, <4>4
      <3> QED
        BY <3>1, <3>2
    <2> QED
      BY <1>1, <1>4, <2>1, <2>2 DEF EncodePop, IfmapType, WorkersType
  <1>5. CASE EncodeLock(e)
    <2>1. jw' \in [JobWorkers -> JobWorkerStates(Flows)]
      BY <1>2, <1>3, <1>5 DEF EncodeLock
    <2>2. ring' \in [Flows -> Rings]
      BY <1>1, <1>5, GuardChanges DEF EncodeLock
    <2>3. work' \in [JobWorkers -> [frame : Nat, row : 0 .. H - 1]]
      <3>1. 0 \in 0 .. H - 1 /\ work' = [work EXCEPT ![e].row = 0]
        BY <1>5, Sizes DEF EncodeLock
      <3> QED
        BY <1>1, <3>1
    <2> QED
      BY <1>1, <1>5, <2>1, <2>2, <2>3 DEF EncodeLock, IfmapType, WorkersType
  <1>6. CASE EncodeWait(e)
    <2>1. jw' \in [JobWorkers -> JobWorkerStates(Flows)]
      BY <1>2, <1>3, <1>6 DEF EncodeWait
    <2> QED
      BY <1>1, <1>6, <2>1 DEF EncodeWait, IfmapType, WorkersType
  <1>7. CASE EncodeRow(e)
    <2>1. jw' \in [JobWorkers -> JobWorkerStates(Flows)]
      BY <1>2, <1>3, <1>7 DEF EncodeRow
    <2>2. ring' \in [Flows -> Rings]
      BY <1>7, RowWritten
    <2> QED
      BY <1>1, <1>7, <2>1, <2>2 DEF EncodeRow, IfmapType, WorkersType
  <1>8. CASE EncodeCount(e)
    <2>1. jw' \in [JobWorkers -> JobWorkerStates(Flows)]
      BY <1>2, <1>3, <1>8 DEF EncodeCount
    <2>2. wk' \in [pc : WorkerPCs, enable : {0, 1},
                   state : {"pending", "running"}, next : {"pending", "running"}]
      BY <1>8, WorkerMoves DEF EncodeCount
    <2>3. ota' \in Int
      BY <1>8 DEF EncodeCount, IfmapType
    <2>4. ring' \in [Flows -> Rings]
      <3>1. CASE work[e].row + 1 < H
        BY <1>1, <1>8, <3>1 DEF EncodeCount
      <3>2. CASE ~(work[e].row + 1 < H)
        BY <1>1, <1>8, <3>2, GuardChanges DEF EncodeCount
      <3> QED
        BY <3>1, <3>2
    <2>5. work' \in [JobWorkers -> [frame : Nat, row : 0 .. H - 1]]
      <3>1. CASE work[e].row + 1 < H
        <4>1. work' = [work EXCEPT ![e].row = work[e].row + 1]
          BY <1>1, <1>8, <3>1 DEF EncodeCount
        <4>2. work[e].row + 1 \in 0 .. H - 1
          BY <1>1, <3>1, Sizes
        <4> QED
          BY <1>1, <4>1, <4>2
      <3>2. CASE ~(work[e].row + 1 < H)
        BY <1>1, <1>8, <3>2 DEF EncodeCount
      <3> QED
        BY <3>1, <3>2
    <2> QED
      BY <1>1, <1>8, <2>1, <2>2, <2>3, <2>4, <2>5 DEF EncodeCount, IfmapType, WorkersType
  <1> QED
    BY <1>4, <1>5, <1>6, <1>7, <1>8

(* Going to the next flow. *)
LEMMA PastFlowMoves ==
    ASSUME IfmapType, send.flow \in Flows, NEW s, PastFlow(s),
           s \in SendStates, s.flow = send.flow
    PROVE  /\ wk' \in [pc : WorkerPCs, enable : {0, 1},
                       state : {"pending", "running"}, next : {"pending", "running"}]
           /\ wk'.pc \in {"scan", "scanned"}
           /\ wk'.enable = wk.enable /\ wk'.next = wk.next
           /\ send' \in SendStates
           /\ wk'.pc = "scan" => send'.flow \in Flows
           /\ send'.locked = s.locked
  <1>1. PICK pc \in {"scan", "scanned"} :
          WorkerGoes(pc) /\ (pc = "scan" => s.flow + 1 < NF)
    BY DEF PastFlow
  <1>2. pc \in WorkerPCs
    BY <1>1 DEF WorkerPCs
  <1>3. wk' \in [pc : WorkerPCs, enable : {0, 1},
                 state : {"pending", "running"}, next : {"pending", "running"}]
        /\ wk'.enable = wk.enable /\ wk'.next = wk.next /\ wk'.pc = pc
    BY <1>1, <1>2, WorkerMoves
  <1>4. send' = [s EXCEPT !.flow = s.flow + 1]
    BY DEF PastFlow
  <1>5. /\ send' \in SendStates
        /\ send'.flow = s.flow + 1 /\ send'.locked = s.locked
    BY <1>4 DEF SendStates
  <1>6. pc = "scan" => s.flow + 1 \in Flows
    BY <1>1, Sizes DEF Flows
  <1> QED
    BY <1>1, <1>3, <1>5, <1>6

(* The steps of the ifmap worker. *)
LEMMA WorkerKeepsType ==
    ASSUME IfmapType, TransferInv,
           \/ WorkerTop \/ ScanFlow \/ TransferReads \/ SendRow \/ MoveEntry
           \/ WorkerRest \/ GateStep
    PROVE  IfmapType' /\ TransferInv'
  <1> DEFINE f == send.flow
             WorkerStates == [pc : WorkerPCs, enable : {0, 1},
                              state : {"pending", "running"},
                              next : {"pending", "running"}]
  <1>1. WorkersType(Flows) /\ send \in SendStates /\ wk \in WorkerStates
        /\ \A g \in Flows : ring[g] \in Rings /\ wire[g] \in Seq(Contents)
    BY Typed DEF IfmapType, WorkersType
  <1>2. \A g \in Flows :
          /\ Occupied(g) \in 0 .. R - 1
          /\ Empty(g) <=> Occupied(g) = 0
    BY <1>1, Occupancy
  <1>3. UNCHANGED ring => \A g : Occupied(g)' = Occupied(g) /\ (Empty(g)' <=> Empty(g))
    BY DEF Occupied, Empty
  <1>4. CASE WorkerTop
    <2>1. wk' \in WorkerStates /\ wk'.pc = "gate"
      <3>1. "gate" \in WorkerPCs
        BY DEF WorkerPCs
      <3> QED
        BY <1>4, <3>1, WorkerMoves DEF WorkerTop
    <2>2. send' \in SendStates /\ send'.flow = 0 /\ send'.locked = send.locked
      BY <1>1, <1>4 DEF WorkerTop, SendStates
    <2>3. IfmapType'
      BY <1>4, <2>1, <2>2 DEF WorkerTop, IfmapType, WorkersType
    <2>4. TransferInv'
      BY <2>1, <2>2, Sizes DEF TransferInv
    <2> QED
      BY <2>3, <2>4
  <1>5. CASE ScanFlow
    <2>1. f \in Flows /\ UNCHANGED ring
      BY <1>5 DEF ScanFlow, TransferInv
    <2>2. CASE Empty(f)
      <3>1. PastFlow(send)
        BY <1>5, <2>2 DEF ScanFlow
      <3>2. /\ wk' \in WorkerStates /\ wk'.pc \in {"scan", "scanned"}
            /\ send' \in SendStates
            /\ wk'.pc = "scan" => send'.flow \in Flows
            /\ send'.locked = send.locked
        BY <1>1, <2>1, <3>1, PastFlowMoves
      <3>3. IfmapType'
        BY <1>5, <3>2 DEF ScanFlow, IfmapType, WorkersType
      <3> QED
        BY <3>2, <3>3 DEF TransferInv
    <2>3. CASE ~Empty(f)
      <3>1. WorkerGoes("begin") /\ UNCHANGED send /\ "begin" \in WorkerPCs
        BY <1>5, <2>3 DEF ScanFlow, WorkerPCs
      <3>2. wk' \in WorkerStates /\ wk'.pc = "begin"
        BY <3>1, WorkerMoves
      <3>3. IfmapType'
        BY <1>5, <3>1, <3>2 DEF ScanFlow, IfmapType, WorkersType
      <3>4. Empty(send.flow)' <=> Empty(send.flow)
        BY <2>1, <3>1 DEF Empty
      <3> QED
        BY <2>1, <2>3, <3>1, <3>2, <3>3, <3>4 DEF TransferInv
    <2> QED
      BY <2>2, <2>3
  <1>6. CASE TransferReads
    <2>1. f \in Flows /\ UNCHANGED <<ring, wire>> /\ ~Empty(f) /\ ~send.locked
          /\ wk.pc \in {"begin", "subtract", "compare"}
          /\ (wk.pc = "compare" => Wrapped(f))
      BY <1>6 DEF TransferReads, TransferBegin, TransferSubtract, TransferCompare,
                  TransferInv
    <2>2. PICK w \in Rows, r \in Rows : w = ring[f].entry_w /\ r = ring[f].entry_r
      BY <1>1, <2>1 DEF Rings
    <2>3. /\ ~(w > r) => Wrapped(f)
          /\ ~Wrapped(f) => w - r \in 1 .. Occupied(f) /\ r + (w - r) <= R
          /\ Wrapped(f) => /\ w - r \in 1 - R .. -1
                           /\ R - r \in 1 .. Occupied(f) /\ r + (R - r) <= R
      BY <1>1, <2>1, <2>2, Counts
    <2>4. {"subtract", "compare", "send"} \subseteq WorkerPCs
      BY DEF WorkerPCs
    <2>5. CASE TransferBegin
      <3>1. /\ UNCHANGED send
            /\ \/ WorkerGoes("subtract")
               \/ WorkerGoes("compare") /\ ~(w > r)
        BY <2>1, <2>2, <2>5 DEF TransferBegin
      <3>2. /\ wk' \in WorkerStates
            /\ wk'.pc \in {"subtract", "compare"}
            /\ wk'.pc = "compare" => ~(w > r)
        <4>1. CASE WorkerGoes("subtract")
          BY <2>4, <4>1, WorkerMoves
        <4>2. CASE WorkerGoes("compare") /\ ~(w > r)
          BY <2>4, <4>2, WorkerMoves
        <4> QED
          BY <3>1, <4>1, <4>2
      <3>3. IfmapType'
        BY <2>5, <3>1, <3>2 DEF TransferBegin, IfmapType, WorkersType
      <3>4. (Empty(send.flow)' <=> Empty(f)) /\ (Wrapped(send.flow)' <=> Wrapped(f))
        BY <2>1, <3>1 DEF Empty, Wrapped
      <3>5. TransferInv'
        BY <2>1, <2>3, <3>1, <3>2, <3>4 DEF TransferInv
      <3> QED
        BY <3>3, <3>5
    <2>6. ASSUME NEW n, Counted(n), UNCHANGED <<jobs, jw, pool, lost, ctl, queue, ota,
                                                work, user, calls, accepted>>,
                 \/ n \in 1 .. Occupied(f) /\ r + n <= R
                 \/ n \in 1 - R .. -1 /\ Wrapped(f)
          PROVE  IfmapType' /\ TransferInv'
      <3>1. wk' \in WorkerStates /\ wk'.pc = "send"
        BY <2>4, <2>6, WorkerMoves DEF Counted
      <3>2. n \in 1 - R .. R - 1 /\ 0 \in 0 .. R - 1 /\ n \in Int
            /\ \/ 0 < n /\ n <= Occupied(f) /\ r + n <= R
               \/ n < 0 /\ Wrapped(f)
        <4>1. Occupied(f) \in 0 .. R - 1
          BY <1>2, <2>1
        <4> QED
          BY <2>6, <4>1, Sizes
      <3>3. send' = [send EXCEPT !.n = n, !.sent = 0]
        BY <2>6 DEF Counted
      <3>4. /\ send' \in SendStates /\ send'.flow = f /\ send'.n = n
            /\ send'.sent = 0 /\ send'.locked = send.locked
        BY <1>1, <3>2, <3>3 DEF SendStates
      <3>5. IfmapType'
        BY <2>1, <2>6, <3>1, <3>4 DEF IfmapType, WorkersType
      <3>6. /\ Occupied(send.flow)' = Occupied(f) /\ (Empty(send.flow)' <=> Empty(f))
            /\ (Wrapped(send.flow)' <=> Wrapped(f))
            /\ ring'[send'.flow].entry_r = r
        BY <2>1, <2>2, <3>4 DEF Occupied, Empty, Wrapped
      <3>7. RightCount(send.flow)'
        BY <3>2, <3>4, <3>6 DEF RightCount
      <3>8. 0 <= Len(wire'[f])
        BY <2>1, <3>5, LenProperties DEF IfmapType
      <3>9. TransferInv'
        BY <2>1, <3>1, <3>4, <3>6, <3>7, <3>8 DEF TransferInv
      <3> QED
        BY <3>5, <3>9
    <2>7. CASE TransferSubtract
      <3>1. Counted(w - r) /\ UNCHANGED <<jobs, jw, pool, lost, ctl, queue, ota,
                                          work, user, calls, accepted>>
        BY <2>2, <2>7 DEF TransferSubtract
      <3> QED
        BY <2>3, <2>6, <3>1
    <2>8. CASE TransferCompare
      <3>1. Wrapped(f)
        BY <2>1, <2>8 DEF TransferCompare
      <3>2. Counted(R - r) /\ UNCHANGED <<jobs, jw, pool, lost, ctl, queue, ota,
                                          work, user, calls, accepted>>
        BY <2>2, <2>8, <3>1 DEF TransferCompare, Wrapped
      <3> QED
        BY <2>3, <2>6, <3>1, <3>2
    <2> QED
      BY <1>6, <2>5, <2>7, <2>8 DEF TransferReads
  <1>7. CASE SendRow
    <2>1. /\ f \in Flows /\ UNCHANGED ring /\ send.sent < send.n
          /\ send.n <= Occupied(f) /\ ~Empty(f) /\ ring[f].entry_r + send.n <= R
      <3>1. send.n \in Int /\ send.n > 0
        BY <1>1, <1>7, Sizes DEF SendRow, SendStates
      <3>2. f \in Flows /\ UNCHANGED ring /\ ~Empty(f) /\ RightCount(f)
        BY <1>7 DEF SendRow, TransferInv
      <3> QED
        BY <3>1, <3>2 DEF RightCount
    <2>2. send.sent + 1 \in 0 .. R - 1 /\ send.n \in Nat /\ send.sent \in Nat
      BY <1>1, <2>1, Sizes DEF SendStates
    <2>3. PICK pc \in {"send", "move"} :
            WorkerGoes(pc) /\ (pc = "move" <=> send.sent + 1 = send.n)
      BY <1>7 DEF SendRow
    <2>4. pc \in WorkerPCs
      BY DEF WorkerPCs
    <2>5. wk' \in WorkerStates /\ wk'.pc = pc
      BY <2>3, <2>4, WorkerMoves
    <2>6. send' = [send EXCEPT !.sent = send.sent + 1]
      BY <1>7 DEF SendRow
    <2>7. /\ send' \in SendStates /\ send'.flow = f /\ send'.n = send.n
          /\ send'.sent = send.sent + 1 /\ send'.locked = send.locked
      BY <1>1, <2>2, <2>6 DEF SendStates
    <2>8. wire' \in [Flows -> Seq(Contents)] /\ Len(wire'[f]) = Len(wire[f]) + 1
      <3> DEFINE x == ring[f].data[(ring[f].entry_r + send.sent) % R]
      <3>1. x \in Contents
        <4>1. ring[f].entry_r \in Rows /\ ring[f].data \in [Rows -> Contents]
          BY <1>1, <2>1 DEF Rings
        <4>2. send.sent \in 0 .. R
          BY <1>1, Sizes DEF SendStates
        <4>3. (ring[f].entry_r + send.sent) % R \in Rows
          BY <4>1, <4>2, Slots
        <4> QED
          BY <4>1, <4>3
      <3>2. wire' = [wire EXCEPT ![f] = Append(wire[f], x)]
        BY <1>7, <2>1 DEF SendRow, IfmapType
      <3> HIDE DEF x
      <3>3. Append(wire[f], x) \in Seq(Contents)
            /\ Len(Append(wire[f], x)) = Len(wire[f]) + 1
        BY <1>1, <2>1, <3>1, AppendProperties
      <3> QED
        BY <2>1, <3>2, <3>3 DEF IfmapType
    <2>9. IfmapType'
      BY <1>7, <2>5, <2>7, <2>8 DEF SendRow, IfmapType, WorkersType
    <2>10. /\ Occupied(send.flow)' = Occupied(f) /\ (Empty(send.flow)' <=> Empty(f))
           /\ ring'[send'.flow].entry_r = ring[f].entry_r
      BY <2>1, <2>7 DEF Occupied, Empty
    <2>11. TransferInv'
      <3>1. pc = "send" => send.sent + 1 < send.n
        BY <2>1, <2>2, <2>3
      <3>2. pc = "move" => 1 <= send.n
        BY <2>1, <2>2
      <3>3. send.sent <= Len(wire[f]) /\ Len(wire[f]) \in Nat
        BY <1>1, <1>7, <2>1, LenProperties DEF SendRow, TransferInv
      <3>4. /\ send.sent + 1 <= Len(wire'[f])
            /\ pc = "move" => send.n <= Len(wire'[f])
        BY <2>2, <2>3, <2>8, <3>3
      <3> QED
        BY <2>1, <2>3, <2>5, <2>7, <2>10, <3>1, <3>2, <3>4 DEF TransferInv, RightCount
    <2> QED
      BY <2>9, <2>11
  <1>8. CASE MoveEntry
    <2>1. /\ ring' \in [Flows -> Rings] /\ f \in Flows
          /\ ring'[f].entry_r = NextRow(ring[f].entry_r)
          /\ ring'[f].entry_w = ring[f].entry_w
          /\ jw' \in [JobWorkers -> JobWorkerStates(Flows)]
      BY <1>8, EntryMoved
    <2>2. 1 <= send.n /\ send.n <= Occupied(f) /\ send.n \in Nat
          /\ Occupied(f) \in Nat /\ ~send.locked
      <3>1. send.n \in Int
        BY <1>1, Sizes DEF SendStates
      <3> QED
        BY <1>2, <1>8, <2>1, <3>1, Sizes DEF MoveEntry, TransferInv
    <2>3. ota' \in Int
      BY <1>8 DEF MoveEntry, CountDown, IfmapType
    <2>4. CASE send.n > 1
      <3>1. send' = [send EXCEPT !.n = send.n - 1] /\ UNCHANGED wk
        BY <1>8, <2>4 DEF MoveEntry
      <3>2. /\ send' \in SendStates /\ send'.flow = f /\ send'.n = send.n - 1
            /\ send'.locked = send.locked
        <4>1. send.n - 1 \in 1 - R .. R - 1
          BY <1>1, <2>4, Sizes DEF SendStates
        <4> QED
          BY <1>1, <3>1, <4>1 DEF SendStates
      <3>3. IfmapType'
        BY <1>8, <2>1, <2>3, <3>1, <3>2 DEF MoveEntry, IfmapType, WorkersType
      <3>4. Occupied(send.flow)' = Occupied(f) - 1
        <4>1. ring[f].entry_w \in Rows /\ ring[f].entry_r \in Rows /\ ring'[f] \in Rings
          BY <1>1, <2>1 DEF Rings
        <4>2. Occupied(f) = Occ(ring[f].entry_w, ring[f].entry_r)
          BY DEF Occupied, Occ
        <4>3. Occupied(send.flow)' = Occ(ring'[f].entry_w, ring'[f].entry_r)
          BY <3>2 DEF Occupied, Occ
        <4>4. ring[f].entry_w # ring[f].entry_r
          BY <1>2, <2>1, <2>2 DEF Empty
        <4> QED
          BY <2>1, <4>1, <4>2, <4>3, <4>4, Pointers
      <3>5. wk'.pc = "move"
        BY <1>8, <3>1 DEF MoveEntry
      <3>6. 1 <= send.n - 1 /\ send.n - 1 <= Occupied(f) - 1
            /\ send.n - 1 <= Len(wire'[f])
        <4>1. UNCHANGED wire /\ Len(wire[f]) \in Nat /\ send.n <= Len(wire[f])
          BY <1>1, <1>8, <2>1, LenProperties DEF MoveEntry, TransferInv
        <4> QED
          BY <2>2, <2>4, <4>1
      <3>7. TransferInv'
        BY <2>1, <2>2, <3>2, <3>4, <3>5, <3>6 DEF TransferInv
      <3> QED
        BY <3>3, <3>7
    <2>5. CASE ~(send.n > 1)
      <3> DEFINE s == [send EXCEPT !.n = 0, !.sent = 0]
      <3>1. PastFlow(s)
        BY <1>8, <2>5 DEF MoveEntry
      <3>2. s \in SendStates /\ s.flow = send.flow /\ s.locked = send.locked
        <4>1. 0 \in 0 .. R - 1 /\ 0 \in 1 - R .. R - 1
          BY Sizes
        <4> QED
          BY <1>1, <4>1 DEF SendStates
      <3> HIDE DEF s
      <3>3. /\ wk' \in WorkerStates /\ wk'.pc \in {"scan", "scanned"}
            /\ send' \in SendStates
            /\ wk'.pc = "scan" => send'.flow \in Flows
            /\ send'.locked = send.locked
        BY <2>1, <3>1, <3>2, PastFlowMoves
      <3>4. IfmapType'
        BY <1>8, <2>1, <2>3, <3>3 DEF MoveEntry, IfmapType, WorkersType
      <3>5. TransferInv'
        BY <2>2, <3>3 DEF TransferInv
      <3> QED
        BY <3>4, <3>5
    <2> QED
      BY <2>4, <2>5
  <1>9. CASE WorkerRest
    <2>1. PICK pc \in {"exit", "idle", "waiting", "top"} : WorkerGoes(pc)
      BY <1>9 DEF WorkerRest
    <2>2. pc \in WorkerPCs
      BY DEF WorkerPCs
    <2>3. wk' \in WorkerStates /\ wk'.pc = pc
      BY <2>1, <2>2, WorkerMoves
    <2>4. IfmapType'
      BY <1>9, <2>3 DEF WorkerRest, IfmapType, WorkersType
    <2>5. TransferInv'
      BY <1>9, <2>3 DEF WorkerRest, TransferInv
    <2> QED
      BY <2>4, <2>5
  <1>10. CASE GateStep
    <2>1. WorkersType(Flows)' /\ wk.pc = "gate" /\ wk'.pc \in {"asleep", "scan"}
          /\ UNCHANGED ifmapVars
      BY <1>1, <1>10, GateKeeps DEF GateStep
    <2>2. IfmapType'
      BY <2>1 DEF IfmapType, ifmapVars
    <2>3. TransferInv'
      BY <2>1 DEF TransferInv, ifmapVars
    <2> QED
      BY <2>2, <2>3
  <1> QED
    BY <1>4, <1>5, <1>6, <1>7, <1>8, <1>9, <1>10

(* The loop of a job worker, control and the end of destroy. *)
LEMMA ElsewhereKeepsType ==
    ASSUME IfmapType,
           UNCHANGED vars \/ (\E e \in JobWorkers : LoopStep(e)) \/ ControlStep \/ JoinStep
    PROVE  IfmapType'
  <1>1. WorkersType(Flows) /\ 0 \in Flows
    BY Sizes DEF IfmapType
  <1>2. CASE UNCHANGED vars
    BY <1>2 DEF vars, sharedVars, IfmapType, WorkersType
  <1>3. ASSUME NEW e \in JobWorkers, LoopStep(e) PROVE IfmapType'
    <2>1. WorkersType(Flows)'
      BY <1>1, <1>3, LoopKeeps DEF LoopStep
    <2> QED
      BY <1>3, <2>1 DEF LoopStep, ifmapVars, IfmapType
  <1>4. CASE ControlStep
    <2>1. WorkersType(Flows)'
      <3>1. CASE SpuriousWakeup
        BY <1>1, <3>1, WakeupKeeps
      <3>2. CASE Control(FALSE) \/ DestroyDisable
        BY <1>1, <3>2, ControlKeeps
      <3>3. CASE Request
        BY <1>1, <3>3, RequestKeeps
      <3> QED
        BY <1>4, <3>1, <3>2, <3>3 DEF ControlStep
    <2> QED
      BY <1>4, <2>1 DEF ControlStep, ifmapVars, IfmapType
  <1>5. CASE JoinStep
    <2>1. WorkersType(Flows)'
      BY <1>1, <1>5, JoinKeeps DEF JoinStep
    <2>2. queue' \in [Flows -> Seq(Nat)]
      BY <1>5 DEF JoinStep
    <2> QED
      BY <1>5, <2>1, <2>2 DEF JoinStep, IfmapType
  <1> QED
    BY <1>2, <1>3, <1>4, <1>5

(* A ring has no fewer rows, and a pointer that has wrapped stays ahead.   *)
FillsOnly(f) ==
    /\ Occupied(f)' \in Nat /\ Occupied(f)' >= Occupied(f)
    /\ Empty(f)' => Empty(f)
    /\ Wrapped(f) => Wrapped(f)'
    /\ ring'[f].entry_r = ring[f].entry_r

(* A step that leaves the transfer alone and takes no row from a ring. *)
LEMMA TransferQuiet ==
    ASSUME IfmapType, TransferInv, UNCHANGED <<send, wire>>, KeepsMoving,
           \A f \in Flows : FillsOnly(f)
    PROVE  TransferInv'
  <1>1. \A f \in Flows : Occupied(f) \in 0 .. R - 1
    BY Typed, Occupancy
  <1>2. ASSUME NEW f \in Flows, f = send.flow
        PROVE  /\ Empty(send.flow)' => Empty(f)
               /\ Wrapped(f) => Wrapped(send.flow)'
               /\ RightCount(f) => RightCount(send.flow)'
               /\ send.n <= Occupied(f) => send.n <= Occupied(send.flow)'
    <2>1. send'.flow = f
      BY <1>2
    <2>2. /\ Occupied(send.flow)' = Occupied(f)' /\ (Empty(send.flow)' <=> Empty(f)')
          /\ (Wrapped(send.flow)' <=> Wrapped(f)')
      BY <2>1 DEF Occupied, Empty, Wrapped
    <2>3. send.n \in Int /\ Occupied(f) \in Nat
      BY <1>1, <1>2, Sizes DEF IfmapType, SendStates
    <2>4. FillsOnly(f)
      BY <1>2
    <2>5. send.n <= Occupied(f) => send.n <= Occupied(send.flow)'
      BY <2>2, <2>3, <2>4 DEF FillsOnly
    <2>6. ring'[send'.flow].entry_r = ring[f].entry_r
      BY <2>1, <2>4 DEF FillsOnly
    <2>7. Wrapped(f) => Wrapped(send.flow)'
      BY <2>2, <2>4 DEF FillsOnly
    <2>8. RightCount(f) => RightCount(send.flow)'
      BY <2>5, <2>6, <2>7 DEF RightCount
    <2> QED
      BY <2>2, <2>4, <2>5, <2>7, <2>8 DEF FillsOnly
  <1>3. wk'.pc \in {"gate", "idle"} \/ wk'.pc = wk.pc
    BY DEF KeepsMoving
  <1>4. wk'.pc \in {"gate", "asleep", "scan", "begin", "subtract", "compare", "send",
                   "move"}
          => send.flow \in Flows
    BY DEF KeepsMoving, TransferInv
  <1> QED
    BY <1>2, <1>3, <1>4 DEF TransferInv

(* The initial state. *)
LEMMA InitType ==
    ASSUME Init PROVE IfmapType /\ TransferInv
  <1>1. 0 \in 0 .. H - 1 /\ 0 \in 0 .. R - 1 /\ 0 \in 1 - R .. R - 1
    BY Sizes
  <1>2. WorkersType(Flows)
    BY Sizes, WorkersTypeInit DEF Init
  <1>3. ring \in [Flows -> Rings]
    <2>1. [i \in Rows |-> <<0, 0>>] \in [Rows -> Contents]
      BY DEF Contents
    <2> QED
      BY <2>1, Sizes DEF Init, Rings
  <1>4. user \in [Users -> [pc : {"idle", "poll", "push", "job", "signal"},
                           flow : Flows]]
    BY Sizes DEF Init
  <1>5. IfmapType
    <2>1. /\ queue \in [Flows -> Seq(Nat)] /\ wire \in [Flows -> Seq(Contents)]
          /\ accepted \in [Flows -> Nat] /\ calls \in Nat /\ ota \in Int
      BY DEF Init
    <2>2. /\ work \in [JobWorkers -> [frame : Nat, row : 0 .. H - 1]]
          /\ send \in SendStates
      BY <1>1 DEF Init, SendStates
    <2> QED
      BY <1>2, <1>3, <1>4, <2>1, <2>2 DEF IfmapType
  <1>6. wk.pc = "top" /\ ~send.locked
    BY DEF Init, WorkersInit
  <1>7. TransferInv
    BY <1>6 DEF TransferInv
  <1> QED
    BY <1>5, <1>7

(* Steps that change no pointer. *)
LEMMA SamePointers ==
    ASSUME \A f \in Flows : /\ ring'[f].entry_w = ring[f].entry_w
                            /\ ring'[f].entry_r = ring[f].entry_r
    PROVE  \A f \in Flows : /\ Occupied(f)' = Occupied(f)
                            /\ (Empty(f)' <=> Empty(f))
                            /\ (Full(f)' <=> Full(f))
  BY DEF Occupied, Empty, Full

(* The other flows have as many rows in their rings as before. *)
OthersOccupied(f) ==
    \A g \in Flows : g # f => /\ Occupied(g)' = Occupied(g)
                              /\ (Empty(g)' <=> Empty(g))
                              /\ (Full(g)' <=> Full(g))
                              /\ (Wrapped(g)' <=> Wrapped(g))

(* A row more in a ring. *)
LEMMA MoreOccupied ==
    ASSUME IfmapType, NEW e \in JobWorkers, EncodeRow(e), NEW f, f = jw[e].flow
    PROVE  /\ f \in Flows /\ Occupied(f) \in 0 .. R - 2
           /\ Occupied(f)' = Occupied(f) + 1 /\ ~Empty(f)'
           /\ ring[f].entry_w = (ring[f].entry_r + Occupied(f)) % R
           /\ Wrapped(f) => Wrapped(f)'
           /\ \A g \in Flows : ring'[g].entry_r = ring[g].entry_r
           /\ OthersOccupied(f)
  <1>1. /\ f \in Flows /\ ring[f] \in Rings
        /\ ring[f].entry_w \in Rows /\ ring[f].entry_r \in Rows
    BY Typed DEF Rings
  <1>2. /\ ring'[f].entry_w = NextRow(ring[f].entry_w)
        /\ ring'[f].entry_r = ring[f].entry_r
        /\ \A g \in Flows : g # f => ring'[g] = ring[g]
    <2>1. ring'[f].entry_w = NextRow(ring[f].entry_w)
      BY RowWritten
    <2>2. ring'[f].entry_r = ring[f].entry_r
      BY RowWritten
    <2>3. OtherRingsSame(f)
      BY RowWritten
    <2> QED
      BY <2>1, <2>2, <2>3 DEF OtherRingsSame
  <1>3. ~Full(f)
    BY DEF EncodeRow
  <1>4. /\ Occupied(f) = Occ(ring[f].entry_w, ring[f].entry_r)
        /\ Occupied(f) \in 0 .. R - 1
        /\ Full(f) <=> Occupied(f) = R - 1
        /\ Full(f) <=> NextRow(ring[f].entry_w) = ring[f].entry_r
        /\ (ring[f].entry_r + Occupied(f)) % R = ring[f].entry_w
    BY <1>1, Occupancy
  <1>5. Occupied(f) \in 0 .. R - 2
    BY <1>3, <1>4, Sizes
  <1>6. Occupied(f)' = Occupied(f) + 1
    <2>1. Occupied(f)' = Occ(ring'[f].entry_w, ring'[f].entry_r)
      BY DEF Occupied, Occ
    <2>2. Occ(NextRow(ring[f].entry_w), ring[f].entry_r)
            = Occ(ring[f].entry_w, ring[f].entry_r) + 1
      BY <1>1, <1>3, <1>4, Pointers
    <2> QED
      BY <1>2, <1>4, <2>1, <2>2
  <1>7. ~Empty(f)'
    BY <1>2, <1>3, <1>4 DEF Empty
  <1>8. OthersOccupied(f)
    BY <1>2 DEF Occupied, Empty, Full, Wrapped, OthersOccupied
  <1>9. Wrapped(f) => Wrapped(f)'
    <2>1. NextRow(ring[f].entry_w) # ring[f].entry_r
      BY <1>3, <1>4
    <2> QED
      BY <1>1, <1>2, <2>1, Sizes DEF Wrapped, NextRow, Rows
  <1>10. \A g \in Flows : ring'[g].entry_r = ring[g].entry_r
    BY <1>2
  <1> QED
    BY <1>1, <1>4, <1>5, <1>6, <1>7, <1>8, <1>9, <1>10

(* A row fewer in a ring. *)
LEMMA FewerOccupied ==
    ASSUME IfmapType, TransferInv, MoveEntry, NEW f, f = send.flow
    PROVE  /\ f \in Flows /\ Occupied(f) \in 1 .. R - 1
           /\ Occupied(f)' = Occupied(f) - 1
           /\ OthersOccupied(f)
  <1>1. /\ f \in Flows /\ send.n >= 1 /\ send.n <= Occupied(f) /\ send.n \in Int
    BY Sizes DEF MoveEntry, TransferInv, IfmapType, SendStates
  <1>2. ring[f] \in Rings /\ ring[f].entry_w \in Rows /\ ring[f].entry_r \in Rows
    BY <1>1, Typed DEF Rings
  <1>3. /\ Occupied(f) = Occ(ring[f].entry_w, ring[f].entry_r)
        /\ Occupied(f) \in 0 .. R - 1
        /\ Empty(f) <=> Occupied(f) = 0
    BY <1>1, <1>2, Occupancy
  <1>4. Occupied(f) \in 1 .. R - 1
    BY <1>1, <1>3, Sizes
  <1>5. /\ ring'[f].entry_r = NextRow(ring[f].entry_r)
        /\ ring'[f].entry_w = ring[f].entry_w
        /\ \A g \in Flows : g # f => ring'[g] = ring[g]
    BY EntryMoved
  <1>6. Occupied(f)' = Occupied(f) - 1
    <2>1. Occupied(f)' = Occ(ring'[f].entry_w, ring'[f].entry_r)
      BY DEF Occupied, Occ
    <2>2. ring[f].entry_w # ring[f].entry_r
      BY <1>3, <1>4 DEF Empty
    <2>3. Occ(ring[f].entry_w, NextRow(ring[f].entry_r))
            = Occ(ring[f].entry_w, ring[f].entry_r) - 1
      BY <1>2, <2>2, Pointers
    <2> QED
      BY <1>3, <1>5, <2>1, <2>3
  <1>7. OthersOccupied(f)
    BY <1>5 DEF Occupied, Empty, Full, Wrapped, OthersOccupied
  <1> QED
    BY <1>1, <1>4, <1>6, <1>7

-----------------------------------------------------------------------------
(* The pool of job workers. *)

(* Callers but for their signal, job workers in a frame and the ifmap      *)
(* worker stop no job worker and let none wait for jobs.                   *)
LEMMA DataStepsGo ==
    ASSUME IfmapType, TransferInv,
           \/ UNCHANGED vars
           \/ \E u \in Users : \E f \in Flows : StreamCall(u, f)
           \/ \E u \in Users : StreamPoll(u) \/ StreamPush(u) \/ StreamJob(u)
           \/ \E e \in JobWorkers :
                \/ EncodePop(e) \/ EncodeLock(e) \/ EncodeWait(e) \/ EncodeRow(e)
                \/ EncodeCount(e)
           \/ WorkerTop \/ ScanFlow \/ TransferReads \/ SendRow \/ MoveEntry
           \/ WorkerRest \/ GateStep
    PROVE  /\ JobsKeepGoing
           /\ (\E u \in Users : StreamJob(u)) \/ UNCHANGED jobs
           /\ \A u \in Users : user[u].pc = "signal" => user'[u].pc = "signal"
  <1>1. WorkersType(Flows)
    BY DEF IfmapType
  <1>2. ASSUME NEW e \in JobWorkers,
               \/ EncodePop(e) \/ EncodeLock(e) \/ EncodeWait(e) \/ EncodeRow(e)
               \/ EncodeCount(e)
        PROVE  JobsKeepGoing /\ UNCHANGED <<jobs, user>>
    <2>1. PICK pc \in {"rest", "lock", "row", "full", "count"} : JobWorkerGoes(e, pc)
      <3>1. CASE EncodePop(e)
        BY <3>1 DEF EncodePop
      <3>2. CASE EncodeLock(e) \/ EncodeWait(e) \/ EncodeRow(e)
        BY <3>2 DEF EncodeLock, EncodeWait, EncodeRow
      <3>3. CASE EncodeCount(e)
        BY <3>3 DEF EncodeCount
      <3> QED
        BY <1>2, <3>1, <3>2, <3>3
    <2>2. pc \in JobPCs /\ pc \notin {"off", "waiting"}
      BY DEF JobPCs
    <2>3. jw[e].pc # "off" /\ UNCHANGED <<jobs, user, pool, ctl>>
      BY <1>2 DEF EncodePop, EncodeLock, EncodeWait, EncodeRow, EncodeCount
    <2>4. \A d \in JobWorkers :
            /\ jw'[d].pc = IF d = e THEN pc ELSE jw[d].pc
            /\ jw'[d].enable = jw[d].enable /\ jw'[d].next = jw[d].next
      BY <1>1, <2>1, <2>2, JobWorkerMoves
    <2> QED
      BY <2>2, <2>3, <2>4 DEF JobsKeepGoing
  <1>3. ASSUME UNCHANGED <<jw, pool, ctl>> PROVE JobsKeepGoing
    BY <1>3 DEF JobsKeepGoing
  <1>4. CASE UNCHANGED vars
    BY <1>3, <1>4 DEF vars, sharedVars
  <1>5. ASSUME NEW u \in Users, NEW f \in Flows, StreamCall(u, f)
        PROVE  /\ UNCHANGED <<jw, pool, ctl, jobs>>
               /\ \A v \in Users : user[v].pc = "signal" => user'[v].pc = "signal"
    <2>1. \A v \in Users : v # u => user'[v] = user[v]
      BY <1>5 DEF StreamCall, IfmapType
    <2> QED
      BY <1>5, <2>1 DEF StreamCall, sharedVars
  <1>6. ASSUME NEW u \in Users, StreamPoll(u) \/ StreamPush(u) \/ StreamJob(u)
        PROVE  /\ UNCHANGED <<jw, pool, ctl>>
               /\ StreamJob(u) \/ UNCHANGED jobs
               /\ \A v \in Users : user[v].pc = "signal" => user'[v].pc = "signal"
    <2>1. PICK pc \in {"idle", "poll", "push", "job", "signal"} : UserGoes(u, pc)
      BY <1>6 DEF StreamPoll, StreamPush, StreamJob
    <2>2. \A v \in Users : v # u => user'[v] = user[v]
      BY <2>1, UserMoves
    <2>3. user[u].pc # "signal"
      BY <1>6 DEF StreamPoll, StreamPush, StreamJob
    <2> QED
      BY <1>6, <2>2, <2>3 DEF StreamPoll, StreamPush, StreamJob, sharedVars
  <1>7. CASE WorkerTop \/ ScanFlow \/ TransferReads \/ SendRow \/ WorkerRest
    BY <1>3, <1>7, ReadsChange DEF WorkerTop, ScanFlow, SendRow, WorkerRest
  <1>8. CASE GateStep
    BY <1>3, <1>8 DEF GateStep, WorkerGate, ifmapVars
  <1>9. CASE MoveEntry
    <2>1. UNCHANGED <<pool, ctl, jobs, user>>
      BY <1>9 DEF MoveEntry
    <2>2. \A e \in JobWorkers :
            /\ jw'[e].pc = IF jw[e].pc = "full" /\ jw[e].flow = send.flow THEN "row"
                           ELSE jw[e].pc
            /\ jw'[e].enable = jw[e].enable /\ jw'[e].next = jw[e].next
      BY <1>9, EntryMoved
    <2> QED
      BY <2>1, <2>2 DEF JobsKeepGoing
  <1> QED
    BY <1>2, <1>3, <1>4, <1>5, <1>6, <1>7, <1>8, <1>9

(* Every step keeps the pool; when all its workers wait although there is  *)
(* a job, a caller is about to signal.                                     *)
LEMMA PoolSteps ==
    ASSUME IfmapType, TransferInv, PoolInv, [Next]_vars
    PROVE  PoolInv' /\ (JobsSignalled => JobsSignalled')
  <1>1. WorkersType(Flows) /\ 0 \in Flows
    BY Sizes DEF IfmapType
  <1>2. ASSUME \/ UNCHANGED vars
               \/ \E u \in Users : \E f \in Flows : StreamCall(u, f)
               \/ \E u \in Users : StreamPoll(u) \/ StreamPush(u) \/ StreamJob(u)
               \/ \E e \in JobWorkers :
                    \/ EncodePop(e) \/ EncodeLock(e) \/ EncodeWait(e) \/ EncodeRow(e)
                    \/ EncodeCount(e)
               \/ WorkerTop \/ ScanFlow \/ TransferReads \/ SendRow \/ MoveEntry
               \/ WorkerRest \/ GateStep
        PROVE  PoolInv' /\ (JobsSignalled => JobsSignalled')
    <2>1. /\ JobsKeepGoing
          /\ (\E u \in Users : StreamJob(u)) \/ UNCHANGED jobs
          /\ \A u \in Users : user[u].pc = "signal" => user'[u].pc = "signal"
      BY <1>2, DataStepsGo
    <2>2. PoolInv' /\ (UNCHANGED jobs => (AllWait' => AllWait))
      BY <1>1, <2>1, GoingKeeps
    <2>3. ASSUME NEW u \in Users, StreamJob(u) PROVE user'[u].pc = "signal"
      <3>1. UserGoes(u, "signal")
        BY <2>3 DEF StreamJob
      <3> QED
        BY <3>1, UserMoves
    <2> QED
      BY <2>1, <2>2, <2>3 DEF JobsSignalled
  <1>3. ASSUME NEW u \in Users, StreamSignal(u)
        PROVE  PoolInv' /\ JobsSignalled'
    <2>1. SignalEnqueue /\ UNCHANGED <<pool, ctl, jobs>>
      BY <1>3 DEF StreamSignal
    <2>2. JobsKeepGoing /\ ~AllWait'
      BY <1>1, <2>1, SignalKeeps
    <2>3. PoolInv'
      BY <1>1, <2>2, GoingKeeps
    <2> QED
      BY <2>2, <2>3 DEF JobsSignalled
  <1>4. ASSUME UNCHANGED user, PoolInv' /\ (AllWait' => AllWait)
        PROVE  PoolInv' /\ (JobsSignalled => JobsSignalled')
    BY <1>4 DEF JobsSignalled
  <1>5. ASSUME NEW e \in JobWorkers, LoopStep(e)
        PROVE  PoolInv' /\ (JobsSignalled => JobsSignalled')
    <2>1. PoolInv' /\ (AllWait' => AllWait)
      BY <1>1, <1>5, LoopPool DEF LoopStep
    <2> QED
      BY <1>4, <1>5, <2>1 DEF LoopStep, ifmapVars
  <1>6. CASE ControlStep
    <2>1. PoolInv' /\ (AllWait' => AllWait)
      <3>1. CASE SpuriousWakeup
        BY <1>1, <3>1, WakeupPool
      <3>2. CASE Control(FALSE) \/ DestroyDisable
        BY <1>1, <3>2, ControlPool
      <3>3. CASE Request
        BY <1>1, <3>3, RequestPool
      <3> QED
        BY <1>6, <3>1, <3>2, <3>3 DEF ControlStep
    <2> QED
      BY <1>4, <1>6, <2>1 DEF ControlStep, ifmapVars
  <1>7. CASE JoinStep
    <2>1. PoolInv' /\ ~AllWait'
      BY <1>1, <1>7, JoinPool DEF JoinStep
    <2> QED
      BY <2>1 DEF JobsSignalled
  <1>8. CASE \E u \in Users : StreamSignal(u)
    BY <1>3, <1>8
  <1>9. CASE \E e \in JobWorkers : LoopStep(e)
    BY <1>5, <1>9
  <1> QED
    BY <1>2, <1>6, <1>7, <1>8, <1>9, Steps

-----------------------------------------------------------------------------
(* Types and the transfer, every step. *)

(* A step that moves no pointer and leaves the transfer alone. *)
LEMMA TransferAlone ==
    ASSUME IfmapType, TransferInv, UNCHANGED <<send, wire>>, KeepsMoving,
           \A f \in Flows : /\ ring'[f].entry_w = ring[f].entry_w
                            /\ ring'[f].entry_r = ring[f].entry_r
    PROVE  TransferInv'
  <1>1. \A f \in Flows : Occupied(f)' = Occupied(f) /\ (Empty(f)' <=> Empty(f))
    BY SamePointers
  <1>2. \A f \in Flows : Occupied(f) \in 0 .. R - 1
    BY Typed, Occupancy
  <1>3. \A f \in Flows : Occupied(f)' \in Nat /\ Occupied(f)' >= Occupied(f)
    BY <1>1, <1>2, Sizes
  <1>4. \A f \in Flows : FillsOnly(f)
    BY <1>1, <1>3 DEF FillsOnly, Wrapped
  <1> QED
    BY <1>4, TransferQuiet

(* What the steps of a job worker in a frame do to the pointers. *)
LEMMA EncodersTransfer ==
    ASSUME IfmapType, TransferInv, NEW e \in JobWorkers,
           EncodePop(e) \/ EncodeLock(e) \/ EncodeWait(e) \/ EncodeRow(e) \/ EncodeCount(e)
    PROVE  TransferInv'
  <1>1. CASE EncodePop(e) \/ EncodeWait(e)
    <2>1. UNCHANGED <<ring, wk, send, wire>>
      BY <1>1 DEF EncodePop, EncodeWait
    <2> QED
      BY <2>1, TransferAlone DEF KeepsMoving
  <1>2. jw[e].flow \in Flows /\ ring \in [Flows -> Rings]
    BY Typed DEF IfmapType
  <1>3. CASE EncodeLock(e)
    <2>1. \A f \in Flows : /\ ring'[f].entry_w = ring[f].entry_w
                           /\ ring'[f].entry_r = ring[f].entry_r
      BY <1>2, <1>3, GuardChanges DEF EncodeLock
    <2>2. UNCHANGED <<wk, send, wire>>
      BY <1>3 DEF EncodeLock
    <2> QED
      BY <2>1, <2>2, TransferAlone DEF KeepsMoving
  <1>4. CASE EncodeCount(e)
    <2>1. \A f \in Flows : /\ ring'[f].entry_w = ring[f].entry_w
                           /\ ring'[f].entry_r = ring[f].entry_r
      <3>1. CASE UNCHANGED ring
        BY <3>1
      <3>2. CASE ring' = [ring EXCEPT ![jw[e].flow].guard = NoWorker]
        BY <1>2, <3>2, GuardChanges
      <3> QED
        BY <1>4, <3>1, <3>2 DEF EncodeCount
    <2>2. SignalNewRows /\ UNCHANGED <<send, wire>>
      BY <1>4 DEF EncodeCount
    <2>3. KeepsMoving
      <3>1. wk'.pc = IF wk.pc = "waiting" THEN "idle" ELSE wk.pc
        BY <2>2, WorkerMoves
      <3> QED
        BY <3>1 DEF KeepsMoving
    <2> QED
      BY <2>1, <2>2, <2>3, TransferAlone
  <1>5. CASE EncodeRow(e)
    <2>0. PICK f \in Flows : f = jw[e].flow
      BY <1>2
    <2>1. /\ Occupied(f) \in 0 .. R - 2
          /\ Occupied(f)' = Occupied(f) + 1 /\ ~Empty(f)'
          /\ Wrapped(f) => Wrapped(f)'
          /\ \A g \in Flows : ring'[g].entry_r = ring[g].entry_r
          /\ OthersOccupied(f)
      BY <1>5, <2>0, MoreOccupied
    <2>2. \A g \in Flows : Occupied(g) \in 0 .. R - 1
      BY Typed, Occupancy
    <2>3. Occupied(f)' \in Nat /\ Occupied(f)' >= Occupied(f)
      BY <2>1, Sizes
    <2>4. FillsOnly(f)
      BY <2>1, <2>3 DEF FillsOnly
    <2>5. ASSUME NEW g \in Flows PROVE FillsOnly(g)
      <3>1. CASE g = f
        BY <2>4, <3>1
      <3>2. CASE g # f
        <4>1. Occupied(g)' = Occupied(g) /\ (Empty(g)' <=> Empty(g))
              /\ (Wrapped(g)' <=> Wrapped(g))
          BY <2>1, <3>2 DEF OthersOccupied
        <4>2. Occupied(g)' \in Nat /\ Occupied(g)' >= Occupied(g)
          BY <2>2, <4>1, Sizes
        <4> QED
          BY <2>1, <4>1, <4>2 DEF FillsOnly
      <3> QED
        BY <3>1, <3>2
    <2>6. UNCHANGED <<wk, send, wire>>
      BY <1>5 DEF EncodeRow
    <2> QED
      BY <2>5, <2>6, TransferQuiet DEF KeepsMoving
  <1> QED
    BY <1>1, <1>3, <1>4, <1>5

(* Callers, the loop of a job worker and control leave the transfer alone. *)
LEMMA ElsewhereTransfer ==
    ASSUME IfmapType, TransferInv,
           \/ UNCHANGED vars
           \/ \E u \in Users :
                \/ \E f \in Flows : StreamCall(u, f)
                \/ StreamPoll(u) \/ StreamPush(u) \/ StreamJob(u) \/ StreamSignal(u)
           \/ \E e \in JobWorkers : LoopStep(e)
           \/ ControlStep \/ JoinStep
    PROVE  TransferInv'
  <1>1. WorkersType(Flows) /\ 0 \in Flows
    BY Sizes DEF IfmapType
  <1>2. UNCHANGED <<ring, send, wire>> /\ KeepsMoving
    <2>1. CASE UNCHANGED vars
      BY <2>1 DEF vars, sharedVars, KeepsMoving
    <2>2. ASSUME NEW u \in Users,
                 \/ \E f \in Flows : StreamCall(u, f)
                 \/ StreamPoll(u) \/ StreamPush(u) \/ StreamJob(u) \/ StreamSignal(u)
          PROVE  UNCHANGED <<ring, send, wire>> /\ KeepsMoving
      BY <2>2 DEF StreamCall, StreamPoll, StreamPush, StreamJob, StreamSignal,
                  sharedVars, KeepsMoving
    <2>3. ASSUME NEW e \in JobWorkers, LoopStep(e)
          PROVE  UNCHANGED <<ring, send, wire>> /\ KeepsMoving
      <3>1. UNCHANGED wk
        BY <1>1, <2>3, LoopKeeps DEF LoopStep
      <3> QED
        BY <2>3, <3>1 DEF LoopStep, ifmapVars, KeepsMoving
    <2>4. CASE ControlStep
      <3>1. CASE SpuriousWakeup
        BY <1>1, <2>4, <3>1, WakeupKeeps DEF ControlStep, ifmapVars
      <3>2. CASE Control(FALSE) \/ DestroyDisable
        BY <1>1, <2>4, <3>2, ControlKeeps DEF ControlStep, ifmapVars
      <3>3. CASE Request
        BY <1>1, <2>4, <3>3, RequestKeeps DEF ControlStep, ifmapVars
      <3> QED
        BY <2>4, <3>1, <3>2, <3>3 DEF ControlStep
    <2>5. CASE JoinStep
      BY <1>1, <2>5, JoinKeeps DEF JoinStep
    <2> QED
      BY <2>1, <2>2, <2>3, <2>4, <2>5
  <1> QED
    BY <1>2, TransferAlone

(* Every step keeps types and the transfer. *)
LEMMA TypeSteps ==
    ASSUME IfmapType, TransferInv, [Next]_vars
    PROVE  IfmapType' /\ TransferInv'
  <1>1. ASSUME \/ UNCHANGED vars \/ (\E e \in JobWorkers : LoopStep(e))
               \/ ControlStep \/ JoinStep
        PROVE  IfmapType' /\ TransferInv'
    BY <1>1, ElsewhereKeepsType, ElsewhereTransfer
  <1>2. ASSUME NEW u \in Users,
               \/ \E f \in Flows : StreamCall(u, f)
               \/ StreamPoll(u) \/ StreamPush(u) \/ StreamJob(u) \/ StreamSignal(u)
        PROVE  IfmapType' /\ TransferInv'
    BY <1>2, UsersKeepType, ElsewhereTransfer
  <1>3. ASSUME NEW e \in JobWorkers,
               \/ EncodePop(e) \/ EncodeLock(e) \/ EncodeWait(e) \/ EncodeRow(e)
               \/ EncodeCount(e)
        PROVE  IfmapType' /\ TransferInv'
    BY <1>3, EncodersKeepType, EncodersTransfer
  <1>4. ASSUME \/ WorkerTop \/ ScanFlow \/ TransferReads \/ SendRow \/ MoveEntry
               \/ WorkerRest \/ GateStep
        PROVE  IfmapType' /\ TransferInv'
    BY <1>4, WorkerKeepsType
  <1> QED
    BY <1>1, <1>2, <1>3, <1>4, Steps

-----------------------------------------------------------------------------
(* The stream of a flow: only a job worker that writes a row changes it.   *)

(* The rows that are sent and still in the ring. *)
LEMMA AheadTyped ==
    ASSUME IfmapType, TransferInv, NEW f \in Flows
    PROVE  /\ Ahead(f) \in 0 .. Occupied(f) /\ Ahead(f) <= Len(wire[f])
           /\ Occupied(f) \in 0 .. R - 1 /\ ring[f] \in Rings
           /\ wire[f] \in Seq(Contents) /\ Len(wire[f]) \in Nat
           /\ ring[f].entry_r \in Rows /\ ring[f].data \in [Rows -> Contents]
           /\ ring[f].entry_w \in Rows
  <1>1. ring[f] \in Rings /\ wire[f] \in Seq(Contents)
    BY Typed
  <1>2. Occupied(f) \in 0 .. R - 1 /\ Len(wire[f]) \in Nat
    BY <1>1, Occupancy, LenProperties
  <1>3. send.n \in Int /\ send.sent \in Nat
    BY Sizes DEF IfmapType, SendStates
  <1>4. Ahead(f) \in 0 .. Occupied(f) /\ Ahead(f) <= Len(wire[f])
    <2>1. CASE send.flow = f /\ wk.pc = "send"
      <3>1. send.sent <= Len(wire[f])
            /\ \/ send.sent < send.n /\ send.n <= Occupied(f)
               \/ send.sent = 0
        BY <2>1 DEF TransferInv, RightCount
      <3> QED
        BY <1>2, <1>3, <2>1, <3>1, Sizes DEF Ahead
    <2>2. CASE send.flow = f /\ wk.pc = "move"
      <3>1. 1 <= send.n /\ send.n <= Occupied(f) /\ send.n <= Len(wire[f])
        BY <2>2 DEF TransferInv
      <3> QED
        BY <1>2, <1>3, <2>2, <3>1, Sizes DEF Ahead
    <2>3. CASE ~(send.flow = f /\ wk.pc \in {"send", "move"})
      BY <1>2, <2>3, Sizes DEF Ahead
    <2> QED
      BY <2>1, <2>2, <2>3
  <1> QED
    BY <1>1, <1>2, <1>4 DEF Rings

(* The stream is the wire, then what is in the ring and not sent. *)
LEMMA StreamTyped ==
    ASSUME IfmapType, TransferInv, NEW f \in Flows
    PROVE  /\ IsRest(Stream(f), wire[f], Ahead(f), Occupied(f), ring[f].entry_r,
                     ring[f].data)
           /\ Stream(f) \in Seq(Contents) /\ Len(Stream(f)) \in Nat
           /\ Len(wire[f]) <= Len(Stream(f)) /\ Len(wire[f]) \in Nat
           /\ \A k \in 1 .. Len(wire[f]) : wire[f][k] = Stream(f)[k]
  <1>1. /\ Ahead(f) \in 0 .. Occupied(f) /\ Occupied(f) \in 0 .. R - 1
        /\ wire[f] \in Seq(Contents) /\ Len(wire[f]) \in Nat
        /\ ring[f].entry_r \in Rows /\ ring[f].data \in [Rows -> Contents]
    BY AheadTyped
  <1>2. IsRest(Stream(f), wire[f], Ahead(f), Occupied(f), ring[f].entry_r, ring[f].data)
    BY <1>1, RestTyped DEF Stream
  <1>3. /\ Stream(f) \in Seq(Contents) /\ Len(Stream(f)) = Len(wire[f]) + Occupied(f) - Ahead(f)
        /\ \A k \in 1 .. Len(wire[f]) : Stream(f)[k] = wire[f][k]
    BY <1>2 DEF IsRest
  <1>4. Len(Stream(f)) \in Nat /\ Len(wire[f]) <= Len(Stream(f))
    BY <1>1, <1>3, Sizes
  <1> QED
    BY <1>1, <1>2, <1>3, <1>4

StreamsSame == \A f \in Flows : Stream(f)' = Stream(f)

(* A step that sends nothing and moves no pointer. *)
LEMMA StreamQuiet ==
    ASSUME UNCHANGED wire,
           \A f \in Flows : /\ ring'[f].entry_w = ring[f].entry_w
                            /\ ring'[f].entry_r = ring[f].entry_r
                            /\ ring'[f].data = ring[f].data,
           \/ UNCHANGED send /\ KeepsMoving
           \/ /\ wk.pc \notin {"send", "move"}
              /\ wk'.pc = "move" => FALSE
              /\ wk'.pc = "send" => send'.sent = 0
    PROVE  StreamsSame
  <1> SUFFICES ASSUME NEW f \in Flows PROVE Stream(f)' = Stream(f)
    BY DEF StreamsSame
  <1>1. Ahead(f)' = Ahead(f)
    BY DEF Ahead, KeepsMoving
  <1>2. Occupied(f)' = Occupied(f)
    BY DEF Occupied
  <1> QED
    BY <1>1, <1>2 DEF Stream

(* The ifmap worker sends a row. *)
LEMMA StreamSend ==
    ASSUME IfmapType, TransferInv, SendRow PROVE StreamsSame
  <1>0. PICK g \in Flows : g = send.flow
    BY DEF SendRow, TransferInv
  <1>1. UNCHANGED <<ring, ota, jw>> /\ send'.flow = send.flow
        /\ send'.n = send.n /\ send'.sent = send.sent + 1
    BY DEF SendRow, IfmapType, SendStates
  <1>2. ASSUME NEW f \in Flows, f # g PROVE Stream(f)' = Stream(f)
    <2>1. wire'[f] = wire[f]
      BY <1>0, <1>2 DEF SendRow, IfmapType
    <2>2. Ahead(f)' = 0 /\ Ahead(f) = 0
      BY <1>0, <1>1, <1>2 DEF Ahead
    <2>3. Occupied(f)' = Occupied(f)
      BY <1>1 DEF Occupied
    <2> QED
      BY <1>1, <2>1, <2>2, <2>3 DEF Stream
  <1>3. Stream(g)' = Stream(g)
    <2>1. PICK a : a = send.sent
      OBVIOUS
    <2>2. PICK o : o = Occupied(g)
      OBVIOUS
    <2>3. Ahead(g) = a /\ Occupied(g)' = o
      BY <1>0, <1>1, <2>1, <2>2 DEF SendRow, Ahead, Occupied
    <2>4. /\ a \in 0 .. o /\ o \in 0 .. R - 1
          /\ wire[g] \in Seq(Contents)
          /\ ring[g].entry_r \in Rows /\ ring[g].data \in [Rows -> Contents]
      BY <2>2, <2>3, AheadTyped
    <2>5. a < o
      <3>1. send.n \in Int /\ send.n > 0 /\ send.sent \in Nat
        BY Sizes DEF SendRow, IfmapType, SendStates
      <3>2. RightCount(g)
        BY <1>0 DEF SendRow, TransferInv
      <3>3. send.sent < send.n /\ send.n <= Occupied(g)
        BY <3>1, <3>2 DEF RightCount
      <3> QED
        BY <2>1, <2>2, <2>4, <3>1, <3>3, Sizes
    <2>6. wire'[g] = Append(wire[g], ring[g].data[(ring[g].entry_r + a) % R])
      BY <1>0, <2>1 DEF SendRow, IfmapType
    <2>7. Ahead(g)' = a + 1
      <3>1. wk'.pc = IF send.sent + 1 = send.n THEN "move" ELSE "send"
        BY DEF SendRow, WorkerGoes, IfmapType, WorkersType
      <3>2. send'.flow = g
        BY <1>0, <1>1
      <3> QED
        BY <1>1, <2>1, <3>1, <3>2 DEF Ahead
    <2>8. Rest(Append(wire[g], ring[g].data[(ring[g].entry_r + a) % R]), a + 1, o,
               ring[g].entry_r, ring[g].data)
            = Rest(wire[g], a, o, ring[g].entry_r, ring[g].data)
      BY <2>4, <2>5, RestSend
    <2> QED
      BY <1>1, <2>2, <2>3, <2>6, <2>7, <2>8 DEF Stream
  <1> QED
    BY <1>2, <1>3 DEF StreamsSame

(* The ifmap worker moves the read pointer past a row it has sent. *)
LEMMA StreamMove ==
    ASSUME IfmapType, TransferInv, MoveEntry PROVE StreamsSame
  <1>0. PICK g \in Flows : g = send.flow
    BY DEF MoveEntry, TransferInv
  <1>1. /\ ring'[g].entry_r = NextRow(ring[g].entry_r)
        /\ ring'[g].data = ring[g].data
        /\ \A f \in Flows : f # g => ring'[f] = ring[f]
        /\ UNCHANGED wire
    <2>1. UNCHANGED wire
      BY DEF MoveEntry
    <2> QED
      BY <1>0, <2>1, EntryMoved
  <1>2. PICK n : n = send.n
    OBVIOUS
  <1>3. n \in Nat /\ n >= 1
    BY <1>2, Sizes DEF MoveEntry, TransferInv, IfmapType, SendStates
  <1>4. \A f \in Flows : /\ f # g => Ahead(f)' = 0 /\ Ahead(f) = 0
                         /\ Ahead(g) = n /\ Ahead(g)' = n - 1
    <2>1. CASE n > 1
      <3>1. send' = [send EXCEPT !.n = send.n - 1] /\ UNCHANGED wk
        BY <1>2, <2>1 DEF MoveEntry
      <3>2. send'.flow = send.flow /\ send'.n = n - 1 /\ wk'.pc = "move" /\ wk.pc = "move"
        BY <1>2, <3>1 DEF IfmapType, MoveEntry
      <3> QED
        BY <1>0, <1>2, <3>2 DEF Ahead
    <2>2. CASE ~(n > 1)
      <3>1. PastFlow([send EXCEPT !.n = 0, !.sent = 0])
        BY <1>2, <2>2 DEF MoveEntry
      <3>2. wk'.pc \in {"scan", "scanned"} /\ wk.pc = "move"
        BY <3>1 DEF PastFlow, WorkerGoes, MoveEntry, IfmapType, WorkersType
      <3>3. n - 1 = 0
        BY <1>3, <2>2
      <3> QED
        BY <1>0, <1>2, <3>2, <3>3 DEF Ahead
    <2> QED
      BY <2>1, <2>2
  <1>5. ASSUME NEW f \in Flows, f # g PROVE Stream(f)' = Stream(f)
    <2>1. Ahead(f)' = Ahead(f) /\ ring'[f] = ring[f]
      BY <1>1, <1>4, <1>5
    <2>2. Occupied(f)' = Occupied(f)
      BY <2>1 DEF Occupied
    <2> QED
      BY <1>1, <2>1, <2>2 DEF Stream
  <1>6. Stream(g)' = Stream(g)
    <2>1. PICK o : o = Occupied(g)
      OBVIOUS
    <2>2. /\ n \in 0 .. o /\ o \in 0 .. R - 1 /\ n <= Len(wire[g])
          /\ wire[g] \in Seq(Contents)
          /\ ring[g].entry_r \in Rows /\ ring[g].data \in [Rows -> Contents]
      BY <1>4, <2>1, AheadTyped
    <2>3. Occupied(g)' = o - 1
      BY <1>0, <2>1, FewerOccupied
    <2>4. Rest(wire[g], n - 1, o - 1, NextRow(ring[g].entry_r), ring[g].data)
            = Rest(wire[g], n, o, ring[g].entry_r, ring[g].data)
      BY <1>3, <2>2, RestMove
    <2> QED
      BY <1>1, <1>4, <2>1, <2>3, <2>4 DEF Stream
  <1> QED
    BY <1>5, <1>6 DEF StreamsSame

OtherStreamsSame(f) == \A g \in Flows : g # f => Stream(g)' = Stream(g)

(* A job worker writes a row: the stream of its flow ends with it. *)
LEMMA StreamPut ==
    ASSUME IfmapType, TransferInv, NEW e \in JobWorkers, EncodeRow(e), NEW f,
           f = jw[e].flow
    PROVE  /\ f \in Flows
           /\ Stream(f)' = Append(Stream(f), <<work[e].frame, work[e].row>>)
           /\ OtherStreamsSame(f)
  <1>1. f \in Flows /\ UNCHANGED <<wire, send, wk>>
    BY Typed DEF EncodeRow
  <1>2. \A g : Ahead(g)' = Ahead(g)
    BY <1>1 DEF Ahead
  <1>3. OtherStreamsSame(f)
    <2>1. OtherRingsSame(f)
      BY RowWritten
    <2>2. \A g \in Flows : ring'[g] = ring[g] => Occupied(g)' = Occupied(g)
      BY DEF Occupied
    <2> QED
      BY <1>1, <1>2, <2>1, <2>2 DEF OtherRingsSame, OtherStreamsSame, Stream
  <1>4. Stream(f)' = Append(Stream(f), <<work[e].frame, work[e].row>>)
    <2>1. PICK x \in Contents : x = <<work[e].frame, work[e].row>>
      BY RowWritten
    <2>2. PICK o \in 0 .. R - 2 : o = Occupied(f)
      BY MoreOccupied
    <2>3. PICK a : a = Ahead(f)
      OBVIOUS
    <2>4. /\ a \in 0 .. o /\ wire[f] \in Seq(Contents)
          /\ ring[f].entry_r \in Rows /\ ring[f].data \in [Rows -> Contents]
      BY <1>1, <2>2, <2>3, AheadTyped
    <2>5. ring[f].entry_w = (ring[f].entry_r + o) % R /\ Occupied(f)' = o + 1
      BY <2>2, MoreOccupied
    <2>6. ring'[f].entry_r = ring[f].entry_r
          /\ ring'[f].data = [ring[f].data EXCEPT ![ring[f].entry_w] = x]
      BY <2>1, RowWritten
    <2>7. Rest(wire[f], a, o + 1, ring[f].entry_r,
               [ring[f].data EXCEPT ![(ring[f].entry_r + o) % R] = x])
            = Append(Rest(wire[f], a, o, ring[f].entry_r, ring[f].data), x)
      BY <2>4, RestPut
    <2>8. Stream(f)' = Rest(wire[f], a, o + 1, ring[f].entry_r,
               [ring[f].data EXCEPT ![(ring[f].entry_r + o) % R] = x])
      BY <1>1, <1>2, <2>3, <2>5, <2>6 DEF Stream
    <2> QED
      BY <2>1, <2>2, <2>3, <2>7, <2>8 DEF Stream
  <1> QED
    BY <1>1, <1>3, <1>4

(* Every other step leaves the streams as they are. *)
LEMMA StreamSteps ==
    ASSUME IfmapType, TransferInv, [Next]_vars
    PROVE  StreamsSame \/ \E e \in JobWorkers : EncodeRow(e)
  <1>1. WorkersType(Flows) /\ 0 \in Flows
    BY Sizes DEF IfmapType
  <1>2. ASSUME UNCHANGED <<ring, send, wire>>, KeepsMoving PROVE StreamsSame
    BY <1>2, StreamQuiet
  <1>3. CASE UNCHANGED vars
    BY <1>2, <1>3 DEF vars, sharedVars, KeepsMoving
  <1>4. ASSUME NEW u \in Users,
               \/ \E f \in Flows : StreamCall(u, f)
               \/ StreamPoll(u) \/ StreamPush(u) \/ StreamJob(u) \/ StreamSignal(u)
        PROVE  StreamsSame
    <2>1. UNCHANGED <<ring, send, wire, wk>>
      BY <1>4 DEF StreamCall, StreamPoll, StreamPush, StreamJob, StreamSignal, sharedVars
    <2> QED
      BY <1>2, <2>1 DEF KeepsMoving
  <1>5. ASSUME NEW e \in JobWorkers,
               EncodePop(e) \/ EncodeLock(e) \/ EncodeWait(e) \/ EncodeCount(e)
        PROVE  StreamsSame
    <2>1. jw[e].flow \in Flows /\ ring \in [Flows -> Rings]
          /\ NoWorker \in JobWorkers \cup {NoWorker}
      BY Typed DEF IfmapType
    <2>2. \A f \in Flows : /\ ring'[f].entry_w = ring[f].entry_w
                           /\ ring'[f].entry_r = ring[f].entry_r
                           /\ ring'[f].data = ring[f].data
      <3>1. CASE UNCHANGED ring
        BY <3>1
      <3>2. CASE \E g \in JobWorkers \cup {NoWorker} :
                    ring' = [ring EXCEPT ![jw[e].flow].guard = g]
        BY <2>1, <3>2, GuardChanges
      <3> QED
        BY <1>5, <2>1, <3>1, <3>2 DEF EncodePop, EncodeLock, EncodeWait, EncodeCount
    <2>3. UNCHANGED <<send, wire>> /\ (UNCHANGED wk \/ SignalNewRows)
      BY <1>5 DEF EncodePop, EncodeLock, EncodeWait, EncodeCount
    <2>4. KeepsMoving
      <3>1. SignalNewRows => wk'.pc = IF wk.pc = "waiting" THEN "idle" ELSE wk.pc
        BY WorkerMoves
      <3> QED
        BY <2>3, <3>1 DEF KeepsMoving
    <2> QED
      BY <2>2, <2>3, <2>4, StreamQuiet
  <1>6. ASSUME NEW e \in JobWorkers, LoopStep(e) PROVE StreamsSame
    <2>1. UNCHANGED wk
      BY <1>1, <1>6, LoopKeeps DEF LoopStep
    <2> QED
      BY <1>2, <1>6, <2>1 DEF LoopStep, ifmapVars, KeepsMoving
  <1>7. CASE WorkerTop \/ ScanFlow \/ TransferReads \/ WorkerRest \/ GateStep
    <2>1. UNCHANGED <<ring, wire>> /\ wk.pc \notin {"send", "move"}
      BY <1>7, ReadsChange DEF WorkerTop, ScanFlow, WorkerRest, GateStep,
                  WorkerGate, ifmapVars
    <2>2. wk'.pc # "move" /\ (wk'.pc = "send" => send'.sent = 0)
      <3>1. CASE WorkerTop \/ WorkerRest
        BY <1>1, <3>1 DEF WorkerTop, WorkerRest, WorkerGoes, WorkersType
      <3>2. CASE ScanFlow
        BY <1>1, <3>2 DEF ScanFlow, PastFlow, WorkerGoes, WorkersType
      <3>3. CASE TransferReads
        BY <1>1, <3>3 DEF TransferReads, TransferBegin, TransferSubtract, TransferCompare,
                          Counted, PastFlow, WorkerGoes, WorkersType, IfmapType, SendStates
      <3>4. CASE GateStep
        BY <1>1, <3>4, GateKeeps DEF GateStep
      <3> QED
        BY <1>7, <3>1, <3>2, <3>3, <3>4
    <2> QED
      BY <2>1, <2>2, StreamQuiet
  <1>8. CASE SendRow \/ MoveEntry
    BY <1>8, StreamSend, StreamMove
  <1>9. CASE ControlStep
    <2>1. KeepsMoving
      BY <1>1, <1>9, WakeupKeeps, ControlKeeps, RequestKeeps DEF ControlStep
    <2> QED
      BY <1>2, <1>9, <2>1 DEF ControlStep, ifmapVars
  <1>10. CASE JoinStep
    BY <1>1, <1>2, <1>10, JoinKeeps DEF JoinStep
  <1> QED
    BY <1>3, <1>4, <1>5, <1>6, <1>7, <1>8, <1>9, <1>10, Steps

-----------------------------------------------------------------------------
(* The lists of frames. *)

PoppedSame == \A f \in Flows : Popped(f)' = Popped(f)
OtherPoppedSame(f) == \A g \in Flows : g # f => Popped(g)' = Popped(g)

(* A job worker takes the oldest frame of a list. *)
LEMMA FramePopped ==
    ASSUME IfmapType, QueueInv, NEW e \in JobWorkers, EncodePop(e), NEW f,
           f = jw[e].flow, queue[f] # <<>>
    PROVE  /\ QueueInv' /\ f \in Flows
           /\ Popped(f) \in Nat /\ Popped(f)' = Popped(f) + 1
           /\ work'[e].frame = Popped(f) + 1
           /\ \A d \in JobWorkers : d # e => work'[d] = work[d]
           /\ OtherPoppedSame(f)
           /\ JobWorkerGoes(e, "lock")
           /\ queue' = [queue EXCEPT ![f] = Tail(queue[f])]
           /\ Len(queue'[f]) = Len(queue[f]) - 1 /\ Len(queue[f]) \in Nat
  <1>1. f \in Flows /\ queue[f] \in Seq(Nat) /\ accepted[f] \in Nat
    BY Typed
  <1>2. /\ work' = [work EXCEPT ![e].frame = Head(queue[f])]
        /\ queue' = [queue EXCEPT ![f] = Tail(queue[f])]
        /\ UNCHANGED accepted /\ JobWorkerGoes(e, "lock")
    BY <1>1 DEF EncodePop, IfmapType
  <1>3. /\ Head(queue[f]) = queue[f][1] /\ Tail(queue[f]) \in Seq(Nat)
        /\ Len(Tail(queue[f])) = Len(queue[f]) - 1
        /\ \A i \in 1 .. Len(queue[f]) - 1 : Tail(queue[f])[i] = queue[f][i + 1]
        /\ Len(queue[f]) \in Nat /\ Len(queue[f]) >= 1
    BY <1>1, SeqSteps
  <1>4. queue'[f] = Tail(queue[f]) /\ \A g \in Flows : g # f => queue'[g] = queue[g]
    BY <1>1, <1>2 DEF IfmapType
  <1>5. /\ Popped(f) \in Nat
        /\ \A i \in 1 .. Len(queue[f]) : queue[f][i] = Popped(f) + i
    BY <1>1 DEF QueueInv
  <1>6. Popped(f)' = Popped(f) + 1
    <2>1. Popped(f) = accepted[f] - Len(queue[f])
      BY DEF Popped
    <2>2. Popped(f)' = accepted[f] - Len(queue'[f])
      BY <1>2 DEF Popped
    <2>3. Len(queue'[f]) = Len(queue[f]) - 1
      BY <1>3, <1>4
    <2>4. PICK a \in Nat : a = accepted[f]
      BY <1>1
    <2>5. PICK n \in Nat : n = Len(queue[f])
      BY <1>3
    <2>6. Popped(f) = a - n /\ Popped(f)' = a - (n - 1)
      BY <2>1, <2>2, <2>3, <2>4, <2>5
    <2> QED
      BY <2>6
  <1>7. work'[e].frame = Popped(f) + 1
        /\ \A d \in JobWorkers : d # e => work'[d] = work[d]
    <2>1. work'[e].frame = Head(queue[f])
          /\ \A d \in JobWorkers : d # e => work'[d] = work[d]
      BY <1>2 DEF IfmapType
    <2>2. queue[f][1] = Popped(f) + 1
      BY <1>3, <1>5
    <2> QED
      BY <1>3, <2>1, <2>2
  <1>8. OtherPoppedSame(f)
    BY <1>2, <1>4 DEF OtherPoppedSame, Popped
  <1>9. QueueInv'
    <2>1. ASSUME NEW i \in 1 .. Len(queue[f]) - 1
          PROVE  queue'[f][i] = Popped(f)' + i
      <3>1. i + 1 \in 1 .. Len(queue[f]) /\ i \in Nat
        BY <1>3
      <3>2. queue[f][i + 1] = Popped(f) + (i + 1)
        BY <1>5, <3>1
      <3> QED
        BY <1>3, <1>4, <1>5, <1>6, <3>1, <3>2
    <2>2. Popped(f)' \in Nat
      BY <1>5, <1>6
    <2>3. Len(queue'[f]) = Len(queue[f]) - 1
      BY <1>3, <1>4
    <2>4. ASSUME NEW g \in Flows, g # f
          PROVE  /\ Popped(g)' \in Nat
                 /\ \A i \in 1 .. Len(queue'[g]) : queue'[g][i] = Popped(g)' + i
      BY <1>4, <1>8, <2>4 DEF QueueInv, OtherPoppedSame
    <2> QED
      BY <2>1, <2>2, <2>3, <2>4 DEF QueueInv
  <1> QED
    BY <1>1, <1>2, <1>3, <1>4, <1>5, <1>6, <1>7, <1>8, <1>9

(* A caller puts the next frame at the end of a list. *)
LEMMA FramePushed ==
    ASSUME IfmapType, QueueInv, NEW u \in Users, StreamPush(u), NEW f,
           f = user[u].flow
    PROVE  /\ QueueInv' /\ PoppedSame /\ f \in Flows
           /\ queue'[f] = Append(queue[f], accepted[f] + 1)
           /\ Len(queue'[f]) = Len(queue[f]) + 1
           /\ \A g \in Flows : g # f => queue'[g] = queue[g]
  <1>1. f \in Flows /\ \A g \in Flows : queue[g] \in Seq(Nat) /\ accepted[g] \in Nat
    BY Typed DEF IfmapType
  <1>2. /\ queue' = [queue EXCEPT ![f] = Append(queue[f], accepted[f] + 1)]
        /\ accepted' = [accepted EXCEPT ![f] = accepted[f] + 1]
    BY <1>1 DEF StreamPush, IfmapType
  <1>3. /\ queue'[f] = Append(queue[f], accepted[f] + 1)
        /\ accepted'[f] = accepted[f] + 1
        /\ \A g \in Flows : g # f => queue'[g] = queue[g] /\ accepted'[g] = accepted[g]
    BY <1>1, <1>2 DEF IfmapType
  <1>4. /\ Len(queue'[f]) = Len(queue[f]) + 1 /\ Len(queue[f]) \in Nat
        /\ \A i \in 1 .. Len(queue[f]) : queue'[f][i] = queue[f][i]
        /\ queue'[f][Len(queue[f]) + 1] = accepted[f] + 1
    <2>1. accepted[f] + 1 \in Nat
      BY <1>1
    <2> QED
      BY <1>1, <1>3, <2>1, Appended, LenProperties
  <1>5. Popped(f)' = Popped(f) /\ Popped(f) = accepted[f] - Len(queue[f])
    <2>1. Popped(f) = accepted[f] - Len(queue[f])
      BY DEF Popped
    <2>2. Popped(f)' = accepted'[f] - Len(queue'[f])
      BY DEF Popped
    <2>3. PICK a \in Nat : a = accepted[f]
      BY <1>1
    <2>4. PICK n \in Nat : n = Len(queue[f])
      BY <1>4
    <2>5. Popped(f) = a - n /\ Popped(f)' = (a + 1) - (n + 1)
      BY <1>3, <1>4, <2>1, <2>2, <2>3, <2>4
    <2> QED
      BY <2>1, <2>5
  <1>6. PoppedSame
    <2>1. \A g \in Flows : g # f => Popped(g)' = Popped(g)
      BY <1>3 DEF Popped
    <2>2. \A g \in Flows : g = f => Popped(g)' = Popped(g)
      <3>1. ASSUME NEW g \in Flows, g = f PROVE Popped(g)' = Popped(g)
        BY <1>5, <3>1
      <3> QED
        BY <3>1
    <2> QED
      BY <2>1, <2>2 DEF PoppedSame
  <1>7. QueueInv'
    <2>1. /\ Popped(f) \in Nat
          /\ \A i \in 1 .. Len(queue[f]) : queue[f][i] = Popped(f) + i
      BY <1>1 DEF QueueInv
    <2>2. ASSUME NEW i \in 1 .. Len(queue[f]) + 1
          PROVE  queue'[f][i] = Popped(f) + i
      <3>1. CASE i = Len(queue[f]) + 1
        <4>1. accepted[f] \in Nat /\ Len(queue[f]) \in Nat
          BY <1>1, <1>4
        <4>2. Popped(f) = accepted[f] - Len(queue[f])
          BY <1>5
        <4>3. Popped(f) + i = accepted[f] + 1
          BY <3>1, <4>1, <4>2
        <4> QED
          BY <1>4, <3>1, <4>3
      <3>2. CASE i # Len(queue[f]) + 1
        <4>1. i \in 1 .. Len(queue[f])
          BY <1>4, <3>2
        <4> QED
          BY <1>4, <2>1, <4>1
      <3> QED
        BY <3>1, <3>2
    <2>3. ASSUME NEW g \in Flows, g # f
          PROVE  /\ Popped(g)' \in Nat
                 /\ \A i \in 1 .. Len(queue'[g]) : queue'[g][i] = Popped(g)' + i
      BY <1>3, <1>6, <2>3 DEF QueueInv, PoppedSame
    <2>4. /\ Popped(f)' \in Nat
          /\ \A i \in 1 .. Len(queue'[f]) : queue'[f][i] = Popped(f)' + i
      BY <1>4, <1>5, <2>1, <2>2
    <2> QED
      BY <2>3, <2>4 DEF QueueInv
  <1> QED
    BY <1>1, <1>3, <1>4, <1>6, <1>7

(* All other steps but the end of destroy leave the lists as they are. *)
LEMMA QueueSteps ==
    ASSUME IfmapType, QueueInv, [Next]_vars
    PROVE  /\ QueueInv' /\ \A f \in Flows : Popped(f)' >= Popped(f)
           /\ \/ PoppedSame /\ (UNCHANGED queue \/ \E u \in Users : StreamPush(u))
              \/ JoinStep
              \/ \E e \in JobWorkers : EncodePop(e) /\ queue[jw[e].flow] # <<>>
  <1>1. \A f \in Flows : Popped(f) \in Nat
    BY DEF QueueInv
  <1>2. ASSUME UNCHANGED <<queue, accepted>>
        PROVE  QueueInv' /\ PoppedSame /\ \A f \in Flows : Popped(f)' >= Popped(f)
    <2>1. PoppedSame
      BY <1>2 DEF PoppedSame, Popped
    <2>2. \A f \in Flows : Popped(f)' >= Popped(f)
      BY <1>1, <2>1 DEF PoppedSame
    <2>3. QueueInv'
      BY <1>2, <2>1 DEF QueueInv, PoppedSame
    <2> QED
      BY <2>1, <2>2, <2>3
  <1>3. ASSUME PoppedSame PROVE \A f \in Flows : Popped(f)' >= Popped(f)
    BY <1>1, <1>3 DEF PoppedSame
  <1>4. ASSUME NEW u \in Users, StreamPush(u)
        PROVE  QueueInv' /\ PoppedSame /\ \A f \in Flows : Popped(f)' >= Popped(f)
    BY <1>3, <1>4, FramePushed
  <1>5. ASSUME NEW e \in JobWorkers, EncodePop(e), queue[jw[e].flow] # <<>>
        PROVE  QueueInv' /\ \A f \in Flows : Popped(f)' >= Popped(f)
    <2>1. PICK f \in Flows : f = jw[e].flow
      BY Typed
    <2>2. QueueInv' /\ Popped(f)' = Popped(f) + 1 /\ OtherPoppedSame(f)
      BY <1>5, <2>1, FramePopped
    <2>3. Popped(f)' >= Popped(f)
      BY <1>1, <2>2
    <2>4. \A g \in Flows : g # f => Popped(g)' >= Popped(g)
      BY <1>1, <2>2 DEF OtherPoppedSame
    <2>5. \A g \in Flows : Popped(g)' >= Popped(g)
      BY <2>3, <2>4
    <2> QED
      BY <2>2, <2>5
  <1>6. CASE JoinStep
    <2>1. \A f \in Flows : queue'[f] = <<>> /\ Len(queue'[f]) = 0
          /\ accepted'[f] = accepted[f] /\ accepted[f] \in Nat /\ Len(queue[f]) \in Nat
      BY <1>6, Typed DEF JoinStep
    <2>2. \A f \in Flows : Popped(f)' = accepted[f]
      BY <2>1 DEF Popped
    <2>3. \A f \in Flows : Popped(f)' >= Popped(f)
      BY <2>1, <2>2 DEF Popped
    <2>4. QueueInv'
      BY <2>1, <2>2 DEF QueueInv
    <2> QED
      BY <1>6, <2>3, <2>4
  <1>7. ASSUME ~JoinStep,
               ~\E u \in Users : StreamPush(u),
               ~\E e \in JobWorkers : EncodePop(e) /\ queue[jw[e].flow] # <<>>
        PROVE  UNCHANGED <<queue, accepted>>
    <2>1. ASSUME NEW e \in JobWorkers,
                 \/ EncodePop(e) \/ EncodeLock(e) \/ EncodeWait(e) \/ EncodeRow(e)
                 \/ EncodeCount(e) \/ LoopStep(e)
          PROVE  UNCHANGED <<queue, accepted>>
      <3>1. CASE EncodePop(e)
        BY <1>7, <3>1 DEF EncodePop
      <3> QED
        BY <2>1, <3>1 DEF EncodeLock, EncodeWait, EncodeRow, EncodeCount, LoopStep,
                          ifmapVars
    <2>2. ASSUME NEW u \in Users,
                 \/ \E f \in Flows : StreamCall(u, f)
                 \/ StreamPoll(u) \/ StreamJob(u) \/ StreamSignal(u)
          PROVE  UNCHANGED <<queue, accepted>>
      BY <2>2 DEF StreamCall, StreamPoll, StreamJob, StreamSignal
    <2>3. CASE \/ UNCHANGED vars \/ WorkerTop \/ ScanFlow \/ TransferReads \/ SendRow
               \/ MoveEntry \/ WorkerRest \/ GateStep \/ ControlStep
      BY <2>3, ReadsChange DEF vars, WorkerTop, ScanFlow, SendRow, MoveEntry,
                  WorkerRest, GateStep, ControlStep, ifmapVars
    <2> QED
      BY <1>7, <2>1, <2>2, <2>3, Steps
  <1> QED
    BY <1>2, <1>4, <1>5, <1>6, <1>7

-----------------------------------------------------------------------------
(* Job workers and streams. *)

(* What a job worker writes, step by step: it takes the lock, waits for    *)
(* space, writes a row, counts it.                                         *)
LEMMA WritesSteps ==
    ASSUME NEW s \in Seq(Contents), NEW x \in Nat, NEW m \in 0 .. H - 1
    PROVE  /\ Writes(s, "lock", x, m) /\ Len(s) % H = 0 => Writes(s, "row", x, 0)
           /\ Writes(s, "row", x, m) <=> Writes(s, "full", x, m)
           /\ Writes(s, "row", x, m)
                => Writes(Append(s, <<x, m>>), "count", x, m)
           /\ Writes(s, "count", x, m) /\ m + 1 < H => Writes(s, "row", x, m + 1)
           /\ Writes(s, "count", x, m) /\ ~(m + 1 < H) => Len(s) % H = 0
  <1>1. H \in Nat /\ H > 0 /\ m \in Nat /\ m < H
    BY Sizes
  <1>2. PICK n \in Nat : n = Len(s)
    BY LenProperties
  <1>3. Writes(s, "lock", x, m) /\ Len(s) % H = 0 => Writes(s, "row", x, 0)
    BY DEF Writes
  <1>4. Writes(s, "row", x, m) <=> Writes(s, "full", x, m)
    BY DEF Writes
  <1>5. ASSUME Writes(s, "row", x, m)
        PROVE  Writes(Append(s, <<x, m>>), "count", x, m)
    <2>1. /\ Len(Append(s, <<x, m>>)) = n + 1
          /\ Append(s, <<x, m>>)[n + 1][1] = x
      BY <1>1, <1>2, RowAppended
    <2>2. n + 1 > 0 /\ n + 1 - 1 = n
      OBVIOUS
    <2>3. n % H = m
      BY <1>2, <1>5 DEF Writes
    <2> QED
      BY <2>1, <2>2, <2>3 DEF Writes
  <1>6. ASSUME Writes(s, "count", x, m)
        PROVE  /\ m + 1 < H => Writes(s, "row", x, m + 1)
               /\ ~(m + 1 < H) => Len(s) % H = 0
    <2>1. n > 0 /\ (n - 1) % H = m /\ s[Len(s)][1] = x
      BY <1>2, <1>6 DEF Writes
    <2>2. PICK a \in Nat : a = n - 1
      BY <2>1
    <2>3. a % H = m /\ a + 1 = n
      BY <2>1, <2>2
    <2>4. (a + 1) % H = IF (a % H) + 1 = H THEN 0 ELSE (a % H) + 1
      BY <1>1, NextDivMod
    <2>5. n % H = IF m + 1 = H THEN 0 ELSE m + 1
      BY <2>3, <2>4
    <2>6. ASSUME m + 1 < H PROVE Writes(s, "row", x, m + 1)
      <3>1. n % H = m + 1 /\ m + 1 > 0 /\ m + 1 # 0
        BY <1>1, <2>5, <2>6
      <3> QED
        BY <1>2, <2>1, <3>1 DEF Writes
    <2>7. ASSUME ~(m + 1 < H) PROVE Len(s) % H = 0
      <3>1. m + 1 = H
        BY <1>1, <2>7
      <3> QED
        BY <1>2, <2>5, <3>1
    <2> QED
      BY <2>6, <2>7
  <1> QED
    BY <1>3, <1>4, <1>5, <1>6

(* A row appended to the stream of a flow leaves new frames new, keeps the *)
(* frames whole and their numbers bounded.                                 *)
LEMMA WholeGrows ==
    ASSUME NEW s \in Seq(Contents), NEW x \in Nat, NEW m \in 0 .. H - 1,
           NEW n \in Nat, Whole(s, n), x <= n, Writes(s, "row", x, m)
    PROVE  /\ Whole(Append(s, <<x, m>>), n)
           /\ \A y, k : y # x /\ Writes(s, "lock", y, k)
                => Writes(Append(s, <<x, m>>), "lock", y, k)
  <1>1. m \in Nat /\ n \in Int
    BY Sizes
  <1>2. Framed(Append(s, <<x, m>>)) /\ Once(Append(s, <<x, m>>))
    <2>1. Len(s) % H = m /\ (m = 0 => Fresh(s, x)) /\ (m > 0 => s[Len(s)][1] = x)
      BY DEF Writes
    <2> QED
      BY <2>1, FrameGrows DEF Whole
  <1>3. UpTo(Append(s, <<x, m>>), n)
    BY <1>1, RowAppended DEF Whole
  <1>4. \A y : Fresh(s, y) /\ y # x => Fresh(Append(s, <<x, m>>), y)
    BY <1>1, RowAppended
  <1> QED
    BY <1>2, <1>3, <1>4 DEF Whole, Writes

(* A greater bound is a bound. *)
LEMMA WholeUpTo ==
    ASSUME NEW s \in Seq(Contents), NEW n \in Nat, NEW m \in Nat, m >= n, Whole(s, n)
    PROVE  Whole(s, m) /\ \A x : x = n + 1 => Fresh(s, x)
  <1>1. ASSUME NEW k \in 1 .. Len(s) PROVE s[k][1] <= m /\ s[k][1] # n + 1
    <2>1. s[k] \in Contents
      BY ElementOfSeq
    <2>2. s[k][1] \in Nat /\ s[k][1] <= n
      BY <2>1 DEF Contents, Whole, UpTo
    <2> QED
      BY <2>2
  <1> QED
    BY <1>1 DEF Whole, UpTo, Fresh

(* Where job workers are. *)
HoldersSame ==
    \A e \in JobWorkers :
        /\ jw'[e].pc \in Holding <=> jw[e].pc \in Holding
        /\ jw[e].pc \in Holding =>
            /\ jw'[e].flow = jw[e].flow /\ work'[e] = work[e]
            /\ \/ jw'[e].pc = jw[e].pc
               \/ jw[e].pc \in {"row", "full"} /\ jw'[e].pc \in {"row", "full"}

GuardsSame == \A f \in Flows : ring'[f].guard = ring[f].guard

(* A step that writes no row, takes no frame and no lock. *)
LEMMA DataQuiet ==
    ASSUME IfmapType, TransferInv, DataInv, QueueInv',
           \A f \in Flows : Popped(f)' >= Popped(f),
           StreamsSame, HoldersSame, GuardsSame
    PROVE  DataInv'
  <1>1. \A f \in Flows : /\ Popped(f) \in Nat /\ Popped(f)' \in Nat
                         /\ Stream(f) \in Seq(Contents) /\ Stream(f)' = Stream(f)
                         /\ ring'[f].guard = ring[f].guard
                         /\ StreamInv(f)
    BY StreamTyped DEF DataInv, QueueInv, StreamsSame, GuardsSame
  <1>2. ASSUME NEW f \in Flows PROVE StreamInv(f)'
    <2>1. Whole(Stream(f), Popped(f)')
      BY <1>1, WholeUpTo DEF StreamInv
    <2>2. ring[f].guard # NoWorker =>
            jw[ring[f].guard].pc # "lock" /\ Busy(ring[f].guard, f)
      BY <1>1 DEF StreamInv
    <2>3. ring[f].guard \in JobWorkers \cup {NoWorker}
      BY Typed DEF Rings
    <2>4. ring[f].guard # NoWorker =>
            /\ jw'[ring[f].guard].pc # "lock" /\ jw'[ring[f].guard].pc \in Holding
            /\ jw'[ring[f].guard].flow = f
      BY <2>2, <2>3 DEF HoldersSame, Busy
    <2>5. ring[f].guard = NoWorker => Len(Stream(f)) % H = 0
      BY <1>1 DEF StreamInv
    <2> QED
      BY <1>1, <2>1, <2>4, <2>5 DEF StreamInv, Busy
  <1>3. \A f \in Flows : \A e \in JobWorkers : Busy(e, f)' <=> Busy(e, f)
    BY DEF HoldersSame, Busy
  <1>4. ASSUME NEW f \in Flows, NEW e \in JobWorkers, Busy(e, f) PROVE EncoderInv(e, f)'
    <2>1. EncoderInv(e, f)
      BY <1>4 DEF DataInv, EncodersInv
    <2>2. /\ work'[e] = work[e] /\ jw'[e].flow = f
          /\ jw'[e].pc = "lock" <=> jw[e].pc = "lock"
          /\ \/ jw'[e].pc = jw[e].pc
             \/ jw[e].pc \in {"row", "full"} /\ jw'[e].pc \in {"row", "full"}
      <3>1. HoldersSame /\ jw[e].pc \in Holding /\ jw[e].flow = f
        BY <1>4 DEF Busy
      <3> QED
        BY <3>1 DEF HoldersSame
    <2>3. work[e].frame \in Nat /\ work[e].row \in 0 .. H - 1
      BY Typed
    <2>4. Writes(Stream(f), jw'[e].pc, work[e].frame, work[e].row)
      <3>1. Writes(Stream(f), jw[e].pc, work[e].frame, work[e].row)
        BY <2>1 DEF EncoderInv
      <3> QED
        BY <1>1, <2>2, <2>3, <3>1, WritesSteps
    <2>5. work[e].frame <= Popped(f)'
      <3>1. work[e].frame <= Popped(f) /\ Popped(f)' >= Popped(f)
        BY <2>1 DEF EncoderInv
      <3> QED
        BY <1>1, <2>3, <3>1
    <2>6. \A d \in JobWorkers : Busy(d, f) => work'[d] = work[d]
      BY DEF HoldersSame, Busy
    <2>7. \A d \in JobWorkers : d # e /\ Busy(d, f)' => work'[d].frame # work'[e].frame
      BY <1>3, <2>1, <2>2, <2>6 DEF EncoderInv
    <2> QED
      BY <1>1, <2>1, <2>2, <2>4, <2>5, <2>7 DEF EncoderInv
  <1> QED
    BY <1>2, <1>3, <1>4 DEF DataInv, EncodersInv

(* Other job workers do not move, and keep what they hold. *)
OthersHold(e) ==
    \A d \in JobWorkers : d # e => jw'[d] = jw[d] /\ work'[d] = work[d]

(* What another job worker knows of its stream, when the stream may grow   *)
(* by a row of a frame that is not its own.                                *)
LEMMA OthersKeep ==
    ASSUME DataInv, NEW e \in JobWorkers, OthersHold(e),
           NEW f \in Flows, NEW d \in JobWorkers, d # e, Busy(d, f),
           Busy(e, f)' => work'[e].frame # work[d].frame,
           Popped(f) \in Nat, Popped(f)' \in Nat, Popped(f)' >= Popped(f),
           work[d].frame \in Nat,
           ring'[f].guard = ring[f].guard \/ jw[d].pc = "lock",
           Writes(Stream(f), jw[d].pc, work[d].frame, work[d].row)
             => Writes(Stream(f)', jw[d].pc, work[d].frame, work[d].row)
    PROVE  EncoderInv(d, f)'
  <1>1. EncoderInv(d, f)
    BY DEF DataInv, EncodersInv
  <1>2. jw'[d] = jw[d] /\ work'[d] = work[d]
    BY DEF OthersHold
  <1>3. work[d].frame <= Popped(f)'
    <2>1. work[d].frame <= Popped(f)
      BY <1>1 DEF EncoderInv
    <2> QED
      BY <2>1
  <1>4. ASSUME NEW c \in JobWorkers, c # d, Busy(c, f)'
        PROVE  work'[c].frame # work[d].frame
    <2>1. CASE c = e
      BY <1>4, <2>1
    <2>2. CASE c # e
      <3>1. jw'[c] = jw[c] /\ work'[c] = work[c]
        BY <2>2 DEF OthersHold
      <3>2. Busy(c, f)
        BY <1>4, <3>1 DEF Busy
      <3> QED
        BY <1>1, <1>4, <3>1, <3>2 DEF EncoderInv
    <2> QED
      BY <2>1, <2>2
  <1> QED
    BY <1>1, <1>2, <1>3, <1>4 DEF EncoderInv

(* A job worker takes a frame: it is a new one. *)
LEMMA DataPop ==
    ASSUME IfmapType, TransferInv, DataInv, NEW e \in JobWorkers, EncodePop(e),
           queue[jw[e].flow] # <<>>, StreamsSame
    PROVE  DataInv'
  <1>1. PICK f \in Flows : f = jw[e].flow
    BY Typed
  <1>2. /\ QueueInv' /\ Popped(f) \in Nat /\ Popped(f)' = Popped(f) + 1
        /\ work'[e].frame = Popped(f) + 1
        /\ \A d \in JobWorkers : d # e => work'[d] = work[d]
        /\ OtherPoppedSame(f) /\ JobWorkerGoes(e, "lock")
    BY <1>1, FramePopped DEF DataInv
  <1>3. /\ UNCHANGED ring
        /\ jw'[e].pc = "lock" /\ jw'[e].flow = f /\ jw[e].pc = "execute"
        /\ \A d \in JobWorkers : d # e => jw'[d] = jw[d]
    BY <1>1, <1>2 DEF EncodePop, JobWorkerGoes, IfmapType, WorkersType, JobWorkerStates
  <1>4. OthersHold(e)
    BY <1>2, <1>3 DEF OthersHold
  <1>5. \A g \in Flows : /\ Popped(g) \in Nat /\ Popped(g)' \in Nat
                         /\ Popped(g)' >= Popped(g)
                         /\ Stream(g) \in Seq(Contents) /\ Stream(g)' = Stream(g)
                         /\ StreamInv(g) /\ Whole(Stream(g), Popped(g))
    <2>1. \A g \in Flows : /\ Popped(g) \in Nat
                           /\ Stream(g) \in Seq(Contents) /\ Stream(g)' = Stream(g)
                           /\ StreamInv(g)
      BY StreamTyped DEF DataInv, QueueInv, StreamsSame
    <2>2. \A g \in Flows : Popped(g)' \in Nat /\ Popped(g)' >= Popped(g)
      <3>1. \A g \in Flows : g # f => Popped(g)' = Popped(g)
        BY <1>2 DEF OtherPoppedSame
      <3>2. Popped(f)' \in Nat /\ Popped(f)' >= Popped(f)
        BY <1>2
      <3>3. \A g \in Flows : g # f => Popped(g)' \in Nat /\ Popped(g)' >= Popped(g)
        BY <2>1, <3>1
      <3> QED
        BY <3>2, <3>3
    <2> QED
      BY <2>1, <2>2 DEF StreamInv
  <1>6. \A g \in Flows : /\ Whole(Stream(g), Popped(g)')
                         /\ \A x : x = Popped(g) + 1 => Fresh(Stream(g), x)
    BY <1>5, WholeUpTo
  <1>7. ASSUME NEW g \in Flows PROVE StreamInv(g)'
    <2>1. ring[g].guard \in JobWorkers \cup {NoWorker}
      BY Typed DEF Rings
    <2>2. ring[g].guard # NoWorker =>
            jw[ring[g].guard].pc # "lock" /\ Busy(ring[g].guard, g)
      BY <1>5 DEF StreamInv
    <2>3. ring[g].guard # NoWorker => ring[g].guard # e
      BY <1>3, <2>2 DEF Busy, Holding
    <2>4. ring[g].guard # NoWorker => jw'[ring[g].guard] = jw[ring[g].guard]
      BY <1>3, <2>1, <2>3
    <2> QED
      BY <1>3, <1>5, <1>6, <2>2, <2>4 DEF StreamInv, Busy
  <1>8. ASSUME NEW g \in Flows, NEW d \in JobWorkers, Busy(d, g)
        PROVE  work[d].frame <= Popped(g) /\ work[d].frame \in Nat
    BY <1>8, Typed DEF DataInv, EncodersInv, EncoderInv
  <1>9. ASSUME NEW g \in Flows, NEW d \in JobWorkers, Busy(d, g)'
        PROVE  EncoderInv(d, g)'
    <2>1. CASE d = e
      <3>1. g = f
        BY <1>3, <1>9, <2>1 DEF Busy
      <3>2. Writes(Stream(f), "lock", Popped(f) + 1, work'[e].row)
        BY <1>6 DEF Writes
      <3>3. ASSUME NEW c \in JobWorkers, c # e, Busy(c, f)'
            PROVE  work'[c].frame # Popped(f) + 1
        <4>1. Busy(c, f) /\ work'[c] = work[c]
          BY <1>2, <1>3, <3>3 DEF Busy
        <4>2. work[c].frame <= Popped(f) /\ work[c].frame \in Nat
          BY <1>8, <4>1
        <4> QED
          BY <1>2, <4>1, <4>2
      <3>4. Popped(f) + 1 <= Popped(f)'
        BY <1>2
      <3>5. EncoderInv(e, f)'
        BY <1>2, <1>3, <1>5, <3>2, <3>3, <3>4 DEF EncoderInv
      <3> QED
        BY <2>1, <3>1, <3>5
    <2>2. CASE d # e
      <3>1. Busy(d, g)
        BY <1>3, <1>9, <2>2 DEF Busy
      <3>2. work[d].frame <= Popped(g) /\ work[d].frame \in Nat
        BY <1>8, <3>1
      <3>3. Busy(e, g)' => work'[e].frame # work[d].frame
        <4>1. Busy(e, g)' => g = f
          BY <1>3 DEF Busy
        <4> QED
          BY <1>2, <3>2, <4>1
      <3>4. ring'[g].guard = ring[g].guard
        BY <1>3
      <3> QED
        BY <1>4, <1>5, <2>2, <3>1, <3>2, <3>3, <3>4, OthersKeep
    <2> QED
      BY <2>1, <2>2
  <1> QED
    BY <1>2, <1>7, <1>9 DEF DataInv, EncodersInv

(* A job worker takes the lock of a ring: the ring ends with a whole frame. *)
LEMMA DataLock ==
    ASSUME IfmapType, TransferInv, DataInv, QueueInv', PoppedSame,
           NEW e \in JobWorkers, EncodeLock(e), StreamsSame
    PROVE  DataInv'
  <1>1. PICK f \in Flows : f = jw[e].flow
    BY Typed
  <1>2. /\ JobWorkerGoes(e, "row") /\ ring[f].guard = NoWorker /\ jw[e].pc = "lock"
        /\ ring' = [ring EXCEPT ![f].guard = e] /\ work' = [work EXCEPT ![e].row = 0]
    BY <1>1 DEF EncodeLock, GuardFree
  <1>3. /\ jw'[e].pc = "row" /\ jw'[e].flow = f
        /\ \A d \in JobWorkers : d # e => jw'[d] = jw[d]
    BY <1>1, <1>2 DEF JobWorkerGoes, IfmapType, WorkersType, JobWorkerStates
  <1>4. /\ work'[e].frame = work[e].frame /\ work'[e].row = 0
        /\ \A d \in JobWorkers : d # e => work'[d] = work[d]
    BY <1>2 DEF IfmapType
  <1>5. OthersHold(e)
    BY <1>3, <1>4 DEF OthersHold
  <1>6. /\ ring'[f].guard = e
        /\ \A g \in Flows : g # f => ring'[g].guard = ring[g].guard
    BY <1>2, GuardChanges DEF IfmapType
  <1>7. \A g \in Flows : /\ Popped(g) \in Nat /\ Popped(g)' = Popped(g)
                         /\ Stream(g) \in Seq(Contents) /\ Stream(g)' = Stream(g)
                         /\ StreamInv(g)
    BY StreamTyped DEF DataInv, QueueInv, StreamsSame, PoppedSame
  <1>8. Busy(e, f) /\ EncoderInv(e, f) /\ e # NoWorker
    BY <1>1, <1>2, Sizes DEF DataInv, EncodersInv, Busy, Holding
  <1>9. ASSUME NEW g \in Flows PROVE StreamInv(g)'
    <2>1. CASE g = f
      <3>1. StreamInv(f)'
        BY <1>3, <1>6, <1>7, <1>8 DEF StreamInv, Busy, Holding
      <3> QED
        BY <2>1, <3>1
    <2>2. CASE g # f
      <3>1. ring[g].guard \in JobWorkers \cup {NoWorker}
        BY Typed DEF Rings
      <3>2. ring[g].guard # NoWorker =>
              jw[ring[g].guard].pc # "lock" /\ Busy(ring[g].guard, g)
        BY <1>7 DEF StreamInv
      <3>3. ring[g].guard # NoWorker => jw'[ring[g].guard] = jw[ring[g].guard]
        BY <1>1, <1>3, <2>2, <3>1, <3>2 DEF Busy
      <3> QED
        BY <1>6, <1>7, <2>2, <3>2, <3>3 DEF StreamInv, Busy
    <2> QED
      BY <2>1, <2>2
  <1>10. Busy(e, f)' /\ \A g \in Flows : Busy(e, g)' => g = f
    BY <1>3 DEF Busy, Holding
  <1>11. EncoderInv(e, f)'
    <2>1. Len(Stream(f)) % H = 0
      BY <1>2, <1>7 DEF StreamInv
    <2>2. Writes(Stream(f), "row", work[e].frame, 0)
      <3>1. Writes(Stream(f), "lock", work[e].frame, work[e].row)
        BY <1>2, <1>8 DEF EncoderInv
      <3> QED
        BY <1>7, <2>1, <3>1, WritesSteps, Typed
    <2>3. ASSUME NEW c \in JobWorkers, c # e, Busy(c, f)'
          PROVE  work'[c].frame # work[e].frame
      <3>1. Busy(c, f) /\ work'[c] = work[c]
        BY <1>3, <1>4, <2>3 DEF Busy
      <3> QED
        BY <1>8, <2>3, <3>1 DEF EncoderInv
    <2>4. work[e].frame <= Popped(f)'
      BY <1>7, <1>8 DEF EncoderInv
    <2> QED
      BY <1>3, <1>4, <1>6, <1>7, <2>2, <2>3, <2>4 DEF EncoderInv
  <1>12. ASSUME NEW g \in Flows, NEW d \in JobWorkers, Busy(d, g)', d # e
         PROVE  EncoderInv(d, g)'
    <2>1. Busy(d, g)
      BY <1>3, <1>12 DEF Busy
    <2>2. EncoderInv(d, g) /\ work[d].frame \in Nat
      BY <2>1, Typed DEF DataInv, EncodersInv
    <2>3. ring'[g].guard = ring[g].guard \/ jw[d].pc = "lock"
      <3>1. g = f => jw[d].pc = "lock"
        BY <1>2, <2>2, Sizes DEF EncoderInv
      <3> QED
        BY <1>6, <3>1
    <2>4. Busy(e, g)' => work'[e].frame # work[d].frame
      <3>1. Busy(e, g)' => Busy(e, g)
        BY <1>8, <1>10
      <3> QED
        BY <1>4, <1>12, <2>2, <3>1 DEF EncoderInv
    <2>5. Popped(g)' \in Nat /\ Popped(g)' >= Popped(g)
      BY <1>7
    <2> QED
      BY <1>5, <1>7, <1>12, <2>1, <2>2, <2>3, <2>4, <2>5, OthersKeep
  <1>13. ASSUME NEW g \in Flows, NEW d \in JobWorkers, Busy(d, g)'
         PROVE  EncoderInv(d, g)'
    BY <1>10, <1>11, <1>12, <1>13
  <1> QED
    BY <1>9, <1>13 DEF DataInv, EncodersInv

(* A job worker writes a row of its frame. *)
LEMMA DataRow ==
    ASSUME IfmapType, TransferInv, DataInv, QueueInv', PoppedSame,
           NEW e \in JobWorkers, EncodeRow(e)
    PROVE  DataInv'
  <1>1. PICK f \in Flows : f = jw[e].flow
    BY Typed
  <1>2. PICK x \in Nat : x = work[e].frame
    BY Typed
  <1>3. PICK m \in 0 .. H - 1 : m = work[e].row
    BY Typed
  <1>4. PICK s \in Seq(Contents) : s = Stream(f)
    BY StreamTyped
  <1>5. Stream(f)' = Append(s, <<x, m>>) /\ OtherStreamsSame(f)
    BY <1>1, <1>2, <1>3, <1>4, StreamPut
  <1>6. /\ jw'[e].pc = "count" /\ jw'[e].flow = f /\ jw[e].pc = "row"
        /\ \A d \in JobWorkers : d # e => jw'[d] = jw[d]
        /\ UNCHANGED work
    BY <1>1 DEF EncodeRow, JobWorkerGoes, IfmapType, WorkersType, JobWorkerStates
  <1>7. OthersHold(e)
    BY <1>6 DEF OthersHold
  <1>8. \A g \in Flows : ring'[g].guard = ring[g].guard
    <2>1. ring'[f].guard = ring[f].guard /\ OtherRingsSame(f)
      BY <1>1, RowWritten
    <2> QED
      BY <2>1 DEF OtherRingsSame
  <1>9. \A g \in Flows : /\ Popped(g) \in Nat /\ Popped(g)' = Popped(g)
                         /\ Stream(g) \in Seq(Contents)
                         /\ StreamInv(g) /\ Whole(Stream(g), Popped(g))
    BY StreamTyped DEF DataInv, QueueInv, StreamInv, PoppedSame
  <1>10. Busy(e, f) /\ EncoderInv(e, f)
    BY <1>1, <1>6 DEF DataInv, EncodersInv, Busy, Holding
  <1>11. /\ ring[f].guard = e /\ x <= Popped(f) /\ Writes(s, "row", x, m)
         /\ e # NoWorker
    BY <1>2, <1>3, <1>4, <1>6, <1>10, Sizes DEF EncoderInv
  <1>12. /\ Whole(Append(s, <<x, m>>), Popped(f))
         /\ \A y, k : y # x /\ Writes(s, "lock", y, k)
                => Writes(Append(s, <<x, m>>), "lock", y, k)
         /\ Writes(Append(s, <<x, m>>), "count", x, m)
    <2>1. PICK n \in Nat : n = Popped(f)
      BY <1>9
    <2>2. Whole(s, n) /\ x <= n
      BY <1>4, <1>9, <1>11, <2>1
    <2> QED
      BY <1>11, <2>1, <2>2, WholeGrows, WritesSteps
  <1>13. ASSUME NEW g \in Flows PROVE StreamInv(g)'
    <2>1. CASE g = f
      <3>1. StreamInv(f)'
        BY <1>5, <1>6, <1>8, <1>9, <1>11, <1>12 DEF StreamInv, Busy, Holding
      <3> QED
        BY <2>1, <3>1
    <2>2. CASE g # f
      <3>1. Stream(g)' = Stream(g)
        BY <1>5, <2>2 DEF OtherStreamsSame
      <3>2. ring[g].guard \in JobWorkers \cup {NoWorker}
        BY Typed DEF Rings
      <3>3. ring[g].guard # NoWorker =>
              jw[ring[g].guard].pc # "lock" /\ Busy(ring[g].guard, g)
        BY <1>9 DEF StreamInv
      <3>4. ring[g].guard # NoWorker => jw'[ring[g].guard] = jw[ring[g].guard]
        BY <1>1, <1>6, <2>2, <3>2, <3>3 DEF Busy
      <3> QED
        BY <1>8, <1>9, <3>1, <3>3, <3>4 DEF StreamInv, Busy
    <2> QED
      BY <2>1, <2>2
  <1>14. Busy(e, f)' /\ \A g \in Flows : Busy(e, g)' => g = f
    BY <1>6 DEF Busy, Holding
  <1>15. \A d \in JobWorkers, g \in Flows : d # e => (Busy(d, g)' <=> Busy(d, g))
    BY <1>6 DEF Busy
  <1>16. EncoderInv(e, f)'
    <2>1. ASSUME NEW c \in JobWorkers, c # e, Busy(c, f)'
          PROVE  work'[c].frame # x
      BY <1>2, <1>6, <1>10, <1>15, <2>1 DEF EncoderInv
    <2>2. x <= Popped(f)'
      BY <1>9, <1>11
    <2>3. Writes(Stream(f)', jw'[e].pc, work'[e].frame, work'[e].row)
      BY <1>2, <1>3, <1>5, <1>6, <1>12
    <2>4. ring'[f].guard = e
      BY <1>8, <1>11
    <2> QED
      BY <1>2, <1>6, <2>1, <2>2, <2>3, <2>4 DEF EncoderInv
  <1>17. ASSUME NEW g \in Flows, NEW d \in JobWorkers, Busy(d, g)', d # e
         PROVE  EncoderInv(d, g)'
    <2>1. Busy(d, g)
      BY <1>15, <1>17
    <2>2. EncoderInv(d, g) /\ work[d].frame \in Nat
      BY <2>1, Typed DEF DataInv, EncodersInv
    <2>3. Busy(e, g)' => work'[e].frame # work[d].frame
      <3>1. Busy(e, g)' => Busy(e, g)
        BY <1>10, <1>14
      <3> QED
        BY <1>6, <1>17, <2>2, <3>1 DEF EncoderInv
    <2>4. Popped(g)' \in Nat /\ Popped(g)' >= Popped(g)
      BY <1>9
    <2>5. Writes(Stream(g), jw[d].pc, work[d].frame, work[d].row)
            => Writes(Stream(g)', jw[d].pc, work[d].frame, work[d].row)
      <3>1. CASE g = f
        <4>1. jw[d].pc = "lock"
          BY <1>11, <1>17, <2>2, <3>1 DEF EncoderInv
        <4>2. work[d].frame # x
          BY <1>2, <1>10, <1>17, <2>1, <3>1 DEF EncoderInv
        <4>3. Writes(s, "lock", work[d].frame, work[d].row)
                => Writes(Stream(f)', "lock", work[d].frame, work[d].row)
          BY <1>5, <1>12, <4>2
        <4>4. Writes(Stream(f), jw[d].pc, work[d].frame, work[d].row)
                => Writes(Stream(f)', jw[d].pc, work[d].frame, work[d].row)
          BY <1>4, <4>1, <4>3
        <4> QED
          BY <3>1, <4>4
      <3>2. CASE g # f
        BY <1>5, <3>2 DEF OtherStreamsSame
      <3> QED
        BY <3>1, <3>2
    <2> QED
      BY <1>7, <1>8, <1>9, <1>17, <2>1, <2>2, <2>3, <2>4, <2>5, OthersKeep
  <1>18. ASSUME NEW g \in Flows, NEW d \in JobWorkers, Busy(d, g)'
         PROVE  EncoderInv(d, g)'
    BY <1>14, <1>16, <1>17, <1>18
  <1> QED
    BY <1>13, <1>18 DEF DataInv, EncodersInv

(* A job worker counts a row; after the last one it frees the lock. *)
LEMMA DataCount ==
    ASSUME IfmapType, TransferInv, DataInv, QueueInv', PoppedSame,
           NEW e \in JobWorkers, EncodeCount(e), StreamsSame
    PROVE  DataInv'
  <1>1. PICK f \in Flows : f = jw[e].flow
    BY Typed
  <1>2. PICK x \in Nat : x = work[e].frame
    BY Typed
  <1>3. PICK m \in 0 .. H - 1 : m = work[e].row
    BY Typed
  <1>4. jw[e].pc = "count" /\ Busy(e, f)
    BY <1>1 DEF EncodeCount, Busy, Holding
  <1>5. EncoderInv(e, f)
    BY <1>4 DEF DataInv, EncodersInv
  <1>6. ring[f].guard = e /\ Writes(Stream(f), "count", x, m) /\ x <= Popped(f)
    BY <1>2, <1>3, <1>4, <1>5 DEF EncoderInv
  <1>7. \A g \in Flows : /\ Popped(g) \in Nat /\ Popped(g)' = Popped(g)
                         /\ Stream(g) \in Seq(Contents) /\ Stream(g)' = Stream(g)
                         /\ StreamInv(g)
    BY StreamTyped DEF DataInv, QueueInv, StreamsSame, PoppedSame
  <1>8. /\ \A d \in JobWorkers : d # e => jw'[d] = jw[d]
        /\ jw'[e].flow = f
        /\ jw'[e].pc = IF m + 1 < H THEN "row" ELSE "rest"
    <2>1. PICK pc \in JobPCs : /\ JobWorkerGoes(e, pc)
                               /\ pc = IF m + 1 < H THEN "row" ELSE "rest"
      BY <1>3 DEF EncodeCount, JobPCs
    <2>2. WorkersType(Flows)
      BY DEF IfmapType
    <2>3. /\ \A d \in JobWorkers : d # e => jw'[d] = jw[d]
          /\ jw'[e].flow = jw[e].flow /\ jw'[e].pc = pc
      BY <2>1, <2>2, JobWorkerMoves
    <2> QED
      BY <1>1, <2>1, <2>3
  <1>9. /\ \A d \in JobWorkers : d # e => work'[d] = work[d]
        /\ work'[e].frame = x
        /\ m + 1 < H => work'[e].row = m + 1
    BY <1>2, <1>3 DEF EncodeCount, IfmapType
  <1>10. OthersHold(e)
    BY <1>8, <1>9 DEF OthersHold
  <1>11. /\ \A g \in Flows : g # f => ring'[g].guard = ring[g].guard
         /\ ring'[f].guard = IF m + 1 < H THEN e ELSE NoWorker
    <2>1. CASE m + 1 < H
      <3>1. UNCHANGED ring
        BY <1>3, <2>1 DEF EncodeCount
      <3> QED
        BY <1>6, <2>1, <3>1
    <2>2. CASE ~(m + 1 < H)
      <3>1. ring' = [ring EXCEPT ![f].guard = NoWorker]
        BY <1>1, <1>3, <2>2 DEF EncodeCount
      <3> QED
        BY <2>2, <3>1, GuardChanges DEF IfmapType
    <2> QED
      BY <2>1, <2>2
  <1>12. ASSUME NEW g \in Flows PROVE StreamInv(g)'
    <2>1. CASE g = f
      <3>1. m + 1 < H => StreamInv(f)'
        BY <1>6, <1>7, <1>8, <1>11 DEF StreamInv, Busy, Holding
      <3>2. ~(m + 1 < H) => StreamInv(f)'
        <4>1. ~(m + 1 < H) => Len(Stream(f)) % H = 0
          BY <1>6, <1>7, WritesSteps
        <4> QED
          BY <1>7, <1>11, <4>1 DEF StreamInv
      <3> QED
        BY <2>1, <3>1, <3>2
    <2>2. CASE g # f
      <3>1. ring[g].guard \in JobWorkers \cup {NoWorker}
        BY Typed DEF Rings
      <3>2. ring[g].guard # NoWorker =>
              jw[ring[g].guard].pc # "lock" /\ Busy(ring[g].guard, g)
        BY <1>7 DEF StreamInv
      <3>3. ring[g].guard # NoWorker => jw'[ring[g].guard] = jw[ring[g].guard]
        BY <1>1, <1>8, <2>2, <3>1, <3>2 DEF Busy
      <3> QED
        BY <1>7, <1>11, <2>2, <3>2, <3>3 DEF StreamInv, Busy
    <2> QED
      BY <2>1, <2>2
  <1>13. \A g \in Flows : Busy(e, g)' => g = f /\ m + 1 < H
    BY <1>8 DEF Busy, Holding
  <1>14. \A d \in JobWorkers, g \in Flows : d # e => (Busy(d, g)' <=> Busy(d, g))
    BY <1>8 DEF Busy
  <1>15. ASSUME m + 1 < H PROVE EncoderInv(e, f)'
    <2>1. Writes(Stream(f), "row", x, m + 1)
      BY <1>6, <1>7, <1>15, WritesSteps
    <2>2. ASSUME NEW c \in JobWorkers, c # e, Busy(c, f)'
          PROVE  work'[c].frame # x
      BY <1>2, <1>5, <1>9, <1>14, <2>2 DEF EncoderInv
    <2>3. jw'[e].pc = "row" /\ work'[e].frame = x /\ work'[e].row = m + 1
          /\ ring'[f].guard = e
      BY <1>8, <1>9, <1>11, <1>15
    <2> QED
      BY <1>6, <1>7, <2>1, <2>2, <2>3 DEF EncoderInv
  <1>16. ASSUME NEW g \in Flows, NEW d \in JobWorkers, Busy(d, g)', d # e
         PROVE  EncoderInv(d, g)'
    <2>1. Busy(d, g)
      BY <1>14, <1>16
    <2>2. EncoderInv(d, g) /\ work[d].frame \in Nat
      BY <2>1, Typed DEF DataInv, EncodersInv
    <2>3. Busy(e, g)' => work'[e].frame # work[d].frame
      <3>1. Busy(e, g)' => Busy(e, g)
        BY <1>4, <1>13
      <3> QED
        BY <1>2, <1>9, <1>16, <2>2, <3>1 DEF EncoderInv
    <2>4. ring'[g].guard = ring[g].guard \/ jw[d].pc = "lock"
      <3>1. g = f => jw[d].pc = "lock"
        BY <1>6, <1>16, <2>2 DEF EncoderInv
      <3> QED
        BY <1>11, <3>1
    <2>5. Popped(g)' \in Nat /\ Popped(g)' >= Popped(g)
      BY <1>7
    <2> QED
      BY <1>7, <1>10, <1>16, <2>1, <2>2, <2>3, <2>4, <2>5, OthersKeep
  <1>17. ASSUME NEW g \in Flows, NEW d \in JobWorkers, Busy(d, g)'
         PROVE  EncoderInv(d, g)'
    BY <1>13, <1>15, <1>16, <1>17
  <1> QED
    BY <1>12, <1>17 DEF DataInv, EncodersInv

(* All other steps leave the frames that job workers hold alone. *)
LEMMA HoldersQuiet ==
    ASSUME IfmapType, TransferInv, [Next]_vars
    PROVE  \/ HoldersSame /\ GuardsSame
           \/ \E e \in JobWorkers :
                \/ EncodePop(e) /\ queue[jw[e].flow] # <<>>
                \/ EncodeLock(e) \/ EncodeRow(e) \/ EncodeCount(e)
  <1>1. WorkersType(Flows) /\ 0 \in Flows
    BY Sizes DEF IfmapType
  <1>2. ASSUME UNCHANGED <<jw, work, ring>> PROVE HoldersSame /\ GuardsSame
    BY <1>2 DEF HoldersSame, GuardsSame
  <1>3. ASSUME UNCHANGED <<work, ring>>, KeepsWorking PROVE HoldersSame /\ GuardsSame
    BY <1>3 DEF HoldersSame, GuardsSame, KeepsWorking, Resting, Holding
  <1>4. CASE UNCHANGED vars
    BY <1>2, <1>4 DEF vars, sharedVars
  <1>5. ASSUME NEW u \in Users,
               \/ \E f \in Flows : StreamCall(u, f)
               \/ StreamPoll(u) \/ StreamPush(u) \/ StreamJob(u)
        PROVE  HoldersSame /\ GuardsSame
    BY <1>2, <1>5 DEF StreamCall, StreamPoll, StreamPush, StreamJob, sharedVars
  <1>6. ASSUME NEW u \in Users, StreamSignal(u) PROVE HoldersSame /\ GuardsSame
    <2>1. KeepsWorking
      <3>1. \A d \in JobWorkers :
                /\ \/ jw'[d].pc = jw[d].pc
                   \/ jw[d].pc = "waiting" /\ jw'[d].pc = "rest"
                /\ jw'[d].flow = jw[d].flow
        BY <1>1, <1>6, WakeTyped DEF StreamSignal
      <3> QED
        BY <3>1 DEF KeepsWorking, Resting
    <2> QED
      BY <1>3, <1>6, <2>1 DEF StreamSignal
  <1>7. ASSUME NEW e \in JobWorkers, EncodePop(e), queue[jw[e].flow] = <<>>
        PROVE  HoldersSame /\ GuardsSame
    <2>1. JobWorkerGoes(e, "rest") /\ UNCHANGED <<work, ring>> /\ jw[e].pc = "execute"
      BY <1>7 DEF EncodePop
    <2>2. "rest" \in JobPCs
      BY DEF JobPCs
    <2>3. /\ jw'[e].pc = "rest"
          /\ \A d \in JobWorkers : d # e => jw'[d] = jw[d]
      BY <1>1, <2>1, <2>2, JobWorkerMoves
    <2> QED
      BY <2>1, <2>3 DEF HoldersSame, GuardsSame, Holding
  <1>8. ASSUME NEW e \in JobWorkers, EncodeWait(e) PROVE HoldersSame /\ GuardsSame
    <2>1. JobWorkerGoes(e, "full") /\ UNCHANGED <<work, ring>> /\ jw[e].pc = "row"
      BY <1>8 DEF EncodeWait
    <2>2. "full" \in JobPCs
      BY DEF JobPCs
    <2>3. /\ jw'[e].pc = "full" /\ jw'[e].flow = jw[e].flow
          /\ \A d \in JobWorkers : d # e => jw'[d] = jw[d]
      BY <1>1, <2>1, <2>2, JobWorkerMoves
    <2> QED
      BY <2>1, <2>3 DEF HoldersSame, GuardsSame, Holding
  <1>9. ASSUME NEW e \in JobWorkers, LoopStep(e) PROVE HoldersSame /\ GuardsSame
    <2>1. UNCHANGED <<work, ring>>
      BY <1>9 DEF LoopStep, ifmapVars
    <2>2. CASE KeepsWorking
      BY <1>3, <2>1, <2>2
    <2>3. CASE JobWorkerPop(e) /\ jobs # <<>> /\ jw[e].enable = 1
      <3>1. /\ jw[e].pc = "pop"
            /\ jw' = [jw EXCEPT ![e].pc = "execute", ![e].flow = Head(jobs)]
        BY <2>3 DEF JobWorkerPop
      <3>2. /\ jw'[e].pc = "execute"
            /\ \A d \in JobWorkers : d # e => jw'[d] = jw[d]
        BY <1>1, <3>1 DEF WorkersType, JobWorkerStates
      <3> QED
        BY <2>1, <3>1, <3>2 DEF HoldersSame, GuardsSame, Holding
    <2> QED
      BY <1>1, <1>9, <2>2, <2>3, LoopKeeps DEF LoopStep
  <1>10. CASE WorkerTop \/ ScanFlow \/ TransferReads \/ SendRow \/ WorkerRest \/ GateStep
    BY <1>2, <1>10, ReadsChange DEF WorkerTop, ScanFlow, SendRow, WorkerRest,
                       GateStep, WorkerGate, ifmapVars
  <1>11. CASE MoveEntry
    <2>1. UNCHANGED work
      BY <1>11 DEF MoveEntry
    <2>2. PICK f \in Flows : f = send.flow
      BY <1>11, EntryMoved
    <2>3. \A e \in JobWorkers :
            /\ jw'[e].pc = IF jw[e].pc = "full" /\ jw[e].flow = f THEN "row"
                           ELSE jw[e].pc
            /\ jw'[e].flow = jw[e].flow
      BY <1>11, <2>2, EntryMoved
    <2>4. HoldersSame
      BY <2>1, <2>3 DEF HoldersSame, Holding
    <2>5. ring'[f].guard = ring[f].guard /\ \A g \in Flows : g # f => ring'[g] = ring[g]
      BY <1>11, <2>2, EntryMoved
    <2> QED
      BY <2>4, <2>5 DEF GuardsSame
  <1>12. CASE ControlStep
    <2>1. KeepsWorking
      BY <1>1, <1>12, WakeupKeeps, ControlKeeps, RequestKeeps DEF ControlStep
    <2> QED
      BY <1>3, <1>12, <2>1 DEF ControlStep, ifmapVars
  <1>13. CASE JoinStep
    BY <1>1, <1>3, <1>13, JoinKeeps DEF JoinStep
  <1> QED
    BY <1>4, <1>5, <1>6, <1>7, <1>8, <1>9, <1>10, <1>11, <1>12, <1>13, Steps

(* Every step keeps what is known of the data. *)
LEMMA DataSteps ==
    ASSUME IfmapType, TransferInv, DataInv, [Next]_vars
    PROVE  DataInv'
  <1>1. /\ QueueInv' /\ \A f \in Flows : Popped(f)' >= Popped(f)
        /\ \/ PoppedSame
           \/ JoinStep
           \/ \E e \in JobWorkers : EncodePop(e) /\ queue[jw[e].flow] # <<>>
    BY QueueSteps DEF DataInv
  <1>2. ASSUME NEW e \in JobWorkers,
               EncodeLock(e) \/ EncodeRow(e) \/ EncodeCount(e)
        PROVE  PoppedSame
    <2>1. UNCHANGED <<queue, accepted>>
      BY <1>2 DEF EncodeLock, EncodeRow, EncodeCount
    <2> QED
      BY <2>1 DEF PoppedSame, Popped
  <1>3. StreamsSame \/ \E e \in JobWorkers : EncodeRow(e)
    BY StreamSteps
  <1>4. ASSUME NEW e \in JobWorkers, EncodeRow(e) PROVE DataInv'
    BY <1>1, <1>2, <1>4, DataRow
  <1>5. CASE ~\E e \in JobWorkers : EncodeRow(e)
    <2>1. StreamsSame
      BY <1>3, <1>5
    <2>2. ASSUME NEW e \in JobWorkers, EncodePop(e), queue[jw[e].flow] # <<>>
          PROVE  DataInv'
      BY <2>1, <2>2, DataPop
    <2>3. ASSUME NEW e \in JobWorkers, EncodeLock(e) PROVE DataInv'
      BY <1>1, <1>2, <2>1, <2>3, DataLock
    <2>4. ASSUME NEW e \in JobWorkers, EncodeCount(e) PROVE DataInv'
      BY <1>1, <1>2, <2>1, <2>4, DataCount
    <2>5. CASE HoldersSame /\ GuardsSame
      BY <1>1, <2>1, <2>5, DataQuiet
    <2> QED
      BY <1>5, <2>2, <2>3, <2>4, <2>5, HoldersQuiet
  <1> QED
    BY <1>4, <1>5

(* At the start nothing is in the lists, on the wire or in the rings. *)
LEMMA DataInit ==
    ASSUME Init PROVE DataInv
  <1>1. IfmapType /\ TransferInv
    BY InitType
  <1>2. \A f \in Flows : Popped(f) = 0 /\ queue[f] = <<>>
    BY DEF Init, Popped
  <1>3. ASSUME NEW f \in Flows PROVE Len(Stream(f)) = 0 /\ Stream(f) \in Seq(Contents)
    <2>1. /\ Ahead(f) \in 0 .. Occupied(f) /\ Len(wire[f]) = 0
          /\ Occupied(f) = Occ(ring[f].entry_w, ring[f].entry_r)
          /\ ring[f].entry_w = 0 /\ ring[f].entry_r = 0
      <3>1. Ahead(f) \in 0 .. Occupied(f)
        BY <1>1, AheadTyped
      <3>2. ring[f].entry_w = 0 /\ ring[f].entry_r = 0 /\ wire[f] = <<>>
        BY DEF Init
      <3>3. Occupied(f) = Occ(ring[f].entry_w, ring[f].entry_r)
        BY DEF Occupied, Occ
      <3> QED
        BY <3>1, <3>2, <3>3
    <2>2. Occupied(f) = 0
      BY <2>1, Pointers, Sizes
    <2>3. Ahead(f) = 0
      BY <2>1, <2>2
    <2>4. Len(Stream(f)) = Len(wire[f]) + Occupied(f) - Ahead(f)
          /\ Stream(f) \in Seq(Contents)
      BY <1>1, StreamTyped DEF IsRest
    <2> QED
      BY <2>1, <2>2, <2>3, <2>4
  <1>4. 0 % H = 0
    <2>1. 0 \in Nat /\ 0 < H + H
      BY Sizes
    <2> QED
      BY <2>1, FirstPeriods, Sizes
  <1>5. \A f \in Flows : StreamInv(f)
    <2>1. \A f \in Flows : Whole(Stream(f), 0)
      BY <1>3 DEF Whole, Framed, Once, UpTo
    <2>2. \A f \in Flows : ring[f].guard = NoWorker
      BY DEF Init
    <2> QED
      BY <1>2, <1>3, <1>4, <2>1, <2>2 DEF StreamInv
  <1>6. \A e \in JobWorkers : jw[e].pc \notin Holding
    <2>1. \A e \in JobWorkers : jw[e].pc \in {"off", "top"}
      BY DEF Init, WorkersInit, NewJobWorker
    <2> QED
      BY <2>1 DEF Holding
  <1>7. QueueInv
    BY <1>2 DEF QueueInv
  <1> QED
    BY <1>5, <1>6, <1>7 DEF DataInv, EncodersInv, Busy

-----------------------------------------------------------------------------
(* Order. *)

(* What control does not take back. *)
LEMMA Marks ==
    ASSUME IfmapType, [Next]_vars
    PROVE  /\ ctl.grown => ctl'.grown
           /\ ctl.pc = "gone" => ctl'.pc = "gone"
           /\ JoinStep => ctl'.pc = "gone"
           /\ \/ UNCHANGED ctl \/ ControlStep \/ JoinStep
           /\ Destroying' => Destroying \/ UsersDone
  <1>1. WorkersType(Flows)
    BY DEF IfmapType
  <1>2. CASE ControlStep
    <2>1. ASSUME SpuriousWakeup \/ Control(FALSE) \/ Request
          PROVE  /\ Destroying' <=> Destroying
                 /\ ctl'.pc = "gone" <=> ctl.pc = "gone"
                 /\ ctl.grown => ctl'.grown
      BY <1>1, <2>1, ControlMarks
    <2>2. ASSUME DestroyDisable
          PROVE  ctl.pc # "gone" /\ ctl'.grown = ctl.grown
      BY <1>1, <2>2, ControlMarks
    <2>3. JoinStep => ctl'.pc = "gone"
      BY <1>1, ControlMarks DEF JoinStep
    <2> QED
      BY <1>2, <2>1, <2>2, <2>3 DEF ControlStep
  <1>3. CASE JoinStep
    BY <1>1, <1>3, ControlMarks DEF JoinStep
  <1>4. CASE UNCHANGED ctl
    <2>1. ~JoinStep
      BY <1>4 DEF JoinStep, DestroyJoin, IfmapType, WorkersType, ControlStates
    <2> QED
      BY <1>4, <2>1 DEF Destroying
  <1>5. UNCHANGED ctl \/ ControlStep \/ JoinStep
    <2>1. CASE UNCHANGED vars
      BY <2>1 DEF vars, sharedVars
    <2>2. ASSUME NEW u \in Users,
                 \/ \E f \in Flows : StreamCall(u, f)
                 \/ StreamPoll(u) \/ StreamPush(u) \/ StreamJob(u) \/ StreamSignal(u)
          PROVE  UNCHANGED ctl
      BY <2>2 DEF StreamCall, StreamPoll, StreamPush, StreamJob, StreamSignal, sharedVars
    <2>3. ASSUME NEW e \in JobWorkers,
                 \/ EncodePop(e) \/ EncodeLock(e) \/ EncodeWait(e) \/ EncodeRow(e)
                 \/ EncodeCount(e) \/ LoopStep(e)
          PROVE  UNCHANGED ctl
      <3>1. LoopStep(e) => UNCHANGED ctl
        BY <1>1, LoopKeeps DEF LoopStep
      <3> QED
        BY <2>3, <3>1 DEF EncodePop, EncodeLock, EncodeWait, EncodeRow, EncodeCount
    <2>4. CASE WorkerTop \/ ScanFlow \/ TransferReads \/ SendRow \/ MoveEntry \/ WorkerRest
      BY <2>4, ReadsChange DEF WorkerTop, ScanFlow, SendRow, MoveEntry, WorkerRest
    <2>5. CASE GateStep
      BY <1>1, <2>5, GateKeeps DEF GateStep
    <2> QED
      BY <2>1, <2>2, <2>3, <2>4, <2>5, Steps
  <1> QED
    BY <1>2, <1>3, <1>4, <1>5

(* With one job worker at work, no other has a frame. *)
LEMMA AloneBusy ==
    ASSUME IfmapType, PoolInv, ~ctl.grown, NEW e \in JobWorkers, jw[e].pc # "off"
    PROVE  /\ ctl.pc # "gone"
           /\ \A d \in JobWorkers : d # e => jw[d].pc = "off" /\ jw[d].pc \notin Holding
  <1>1. WorkersType(Flows)
    BY DEF IfmapType
  <1>2. /\ \A d, c \in JobWorkers : jw[d].pc # "off" /\ jw[c].pc # "off" => d = c
        /\ ctl.pc # "gone"
    BY <1>1, AloneUnlessGrown
  <1> QED
    BY <1>2 DEF Holding

(* A step that writes no row, takes no frame and no lock. *)
LEMMA OrderQuiet ==
    ASSUME IfmapType, OrderInv, StreamsSame, HoldersSame, PoppedSame \/ ctl'.pc = "gone",
           ctl.grown => ctl'.grown, ctl.pc = "gone" => ctl'.pc = "gone"
    PROVE  OrderInv'
  <1> SUFFICES ASSUME ~ctl'.grown, NEW f \in Flows
               PROVE  InOrder(Stream(f)') /\ (ctl'.pc # "gone" => Written(f)')
    BY DEF OrderInv
  <1>1. InOrder(Stream(f)) /\ (ctl.pc # "gone" => Written(f)) /\ Stream(f)' = Stream(f)
    BY DEF OrderInv, StreamsSame
  <1>2. ASSUME ctl'.pc # "gone" PROVE Written(f)'
    <2>1. Written(f) /\ Popped(f)' = Popped(f)
      BY <1>1, <1>2 DEF PoppedSame
    <2>2. \A e \in JobWorkers : Busy(e, f)' <=> Busy(e, f)
      BY DEF HoldersSame, Busy
    <2>3. \A e \in JobWorkers : Busy(e, f) =>
            HeldRows(e)' = HeldRows(e) /\ work'[e] = work[e]
      BY DEF HoldersSame, Busy, HeldRows
    <2> QED
      BY <1>1, <2>1, <2>2, <2>3 DEF Written
  <1> QED
    BY <1>1, <1>2

(* A job worker takes a frame: all before it are written. *)
LEMMA OrderPop ==
    ASSUME IfmapType, PoolInv, DataInv, OrderInv, StreamsSame, UNCHANGED ctl,
           NEW e \in JobWorkers, EncodePop(e), queue[jw[e].flow] # <<>>
    PROVE  OrderInv'
  <1> SUFFICES ASSUME ~ctl.grown, NEW g \in Flows
               PROVE  InOrder(Stream(g)') /\ Written(g)'
    BY DEF OrderInv
  <1>1. PICK f \in Flows : f = jw[e].flow
    BY Typed
  <1>2. /\ Popped(f) \in Nat /\ Popped(f)' = Popped(f) + 1
        /\ work'[e].frame = Popped(f) + 1 /\ OtherPoppedSame(f)
        /\ JobWorkerGoes(e, "lock") /\ jw[e].pc = "execute"
    BY <1>1, FramePopped DEF DataInv, EncodePop
  <1>3. /\ jw'[e].pc = "lock" /\ jw'[e].flow = f
        /\ \A d \in JobWorkers : d # e => jw'[d] = jw[d]
    BY <1>1, <1>2 DEF JobWorkerGoes, IfmapType, WorkersType, JobWorkerStates
  <1>4. ctl.pc # "gone" /\ \A d \in JobWorkers : jw[d].pc \notin Holding
    BY <1>2, AloneBusy DEF Holding
  <1>5. InOrder(Stream(g)) /\ Written(g) /\ Stream(g)' = Stream(g)
    BY <1>4 DEF OrderInv, StreamsSame
  <1>6. Len(Stream(g)) = H * Popped(g)
    BY <1>4, <1>5 DEF Written, Busy
  <1>7. CASE g = f
    <2>1. Len(Stream(f)) = H * (Popped(f)' - 1) + 0
      <3>1. Popped(f)' - 1 = Popped(f)
        BY <1>2
      <3>2. H * Popped(f) = H * Popped(f) + 0
        <4>1. H * Popped(f) \in Int
          BY <1>2, Sizes
        <4> QED
          BY <4>1
      <3> QED
        BY <1>6, <1>7, <3>1, <3>2
    <2>2. HeldRows(e)' = 0 /\ Busy(e, f)'
      BY <1>3 DEF HeldRows, Busy, Holding
    <2>3. \A d \in JobWorkers : Busy(d, f)' => d = e
      BY <1>3, <1>4 DEF Busy
    <2>4. Stream(f)' = Stream(f)
      BY <1>5, <1>7
    <2>5. Written(f)'
      BY <1>2, <2>1, <2>2, <2>3, <2>4 DEF Written
    <2> QED
      BY <1>5, <1>7, <2>5
  <1>8. CASE g # f
    <2>1. \A d \in JobWorkers : ~Busy(d, g)'
      BY <1>3, <1>4, <1>8 DEF Busy
    <2>2. Popped(g)' = Popped(g)
      BY <1>2, <1>8 DEF OtherPoppedSame
    <2> QED
      BY <1>5, <1>6, <2>1, <2>2 DEF Written
  <1> QED
    BY <1>7, <1>8

(* A row of the frame that was taken last keeps the order. *)
LEMMA OrderGrows ==
    ASSUME NEW s \in Seq(Contents), NEW n \in Nat, NEW m \in 0 .. H - 1,
           InOrder(s), Len(s) = H * (n - 1) + m, NEW x \in Nat, x = n
    PROVE  /\ InOrder(Append(s, <<x, m>>))
           /\ Len(Append(s, <<x, m>>)) = H * (n - 1) + (m + 1)
  <1>1. H \in Nat /\ H > 0 /\ m \in Nat /\ m < H
    BY Sizes
  <1>2. PICK q \in Int : q = n - 1
    OBVIOUS
  <1>3. PICK l \in Nat : l = Len(s)
    BY LenProperties
  <1> DEFINE t == Append(s, <<x, m>>)
  <1>4. /\ Len(t) = l + 1 /\ \A k \in 1 .. l : t[k] = s[k]
        /\ t[l + 1][1] = x
    BY <1>1, <1>3, RowAppended
  <1> HIDE DEF t
  <1>5. l = H * q + m
    BY <1>2, <1>3
  <1>6. (H * q + m) \div H = q
    BY <1>1, DivModUnique
  <1>7. ASSUME NEW k \in 1 .. l + 1 PROVE t[k][1] = 1 + (k - 1) \div H
    <2>1. CASE k = l + 1
      <3>1. k - 1 = l
        BY <2>1
      <3>2. (k - 1) \div H = q
        BY <1>5, <1>6, <3>1
      <3>3. 1 + q = n
        BY <1>2
      <3> QED
        BY <1>4, <2>1, <3>2, <3>3
    <2>2. CASE k # l + 1
      <3>1. k \in 1 .. l
        BY <2>2
      <3> QED
        BY <1>3, <1>4, <3>1 DEF InOrder
    <2> QED
      BY <2>1, <2>2
  <1>8. H * q \in Int /\ l + 1 = H * q + (m + 1)
    BY <1>1, <1>5
  <1> QED
    BY <1>2, <1>4, <1>7, <1>8 DEF InOrder, t

(* A job worker writes a row of its frame. *)
LEMMA OrderRow ==
    ASSUME IfmapType, TransferInv, PoolInv, DataInv, OrderInv, PoppedSame, UNCHANGED ctl,
           NEW e \in JobWorkers, EncodeRow(e)
    PROVE  OrderInv'
  <1> SUFFICES ASSUME ~ctl.grown, NEW g \in Flows
               PROVE  InOrder(Stream(g)') /\ Written(g)'
    BY DEF OrderInv
  <1>1. PICK f \in Flows : f = jw[e].flow
    BY Typed
  <1>2. PICK x \in Nat : x = work[e].frame
    BY Typed
  <1>3. PICK m \in 0 .. H - 1 : m = work[e].row
    BY Typed
  <1>4. PICK s \in Seq(Contents) : s = Stream(f)
    BY <1>1, StreamTyped
  <1>5. PICK n \in Nat : n = Popped(f)
    BY DEF DataInv, QueueInv
  <1>6. Stream(f)' = Append(s, <<x, m>>) /\ OtherStreamsSame(f)
    BY <1>1, <1>2, <1>3, <1>4, StreamPut
  <1>7. /\ jw'[e].pc = "count" /\ jw'[e].flow = f /\ jw[e].pc = "row"
        /\ \A d \in JobWorkers : d # e => jw'[d] = jw[d]
        /\ UNCHANGED work
    BY <1>1 DEF EncodeRow, JobWorkerGoes, IfmapType, WorkersType, JobWorkerStates
  <1>8. ctl.pc # "gone" /\ \A d \in JobWorkers : d # e => jw[d].pc \notin Holding
    BY <1>7, AloneBusy
  <1>9. \A h \in Flows : InOrder(Stream(h)) /\ Written(h) /\ Popped(h)' = Popped(h)
    BY <1>8 DEF OrderInv, PoppedSame
  <1>10. Busy(e, f) /\ HeldRows(e) = m
    BY <1>1, <1>3, <1>7 DEF Busy, Holding, HeldRows
  <1>11. x = n /\ Len(s) = H * (n - 1) + m /\ InOrder(s)
    BY <1>2, <1>4, <1>5, <1>9, <1>10 DEF Written
  <1>12. /\ InOrder(Append(s, <<x, m>>))
         /\ Len(Append(s, <<x, m>>)) = H * (n - 1) + (m + 1)
    BY <1>11, OrderGrows
  <1>13. \A d \in JobWorkers, h \in Flows : Busy(d, h)' => d = e /\ h = f
    BY <1>7, <1>8 DEF Busy
  <1>14. CASE g = f
    <2>1. HeldRows(e)' = m + 1 /\ Busy(e, f)'
      BY <1>3, <1>7 DEF HeldRows, Busy, Holding
    <2>2. Written(f)'
      BY <1>2, <1>5, <1>6, <1>7, <1>9, <1>11, <1>12, <1>13, <2>1 DEF Written
    <2> QED
      BY <1>6, <1>12, <1>14, <2>2
  <1>15. CASE g # f
    <2>1. Stream(g)' = Stream(g)
      BY <1>6, <1>15 DEF OtherStreamsSame
    <2>2. \A d \in JobWorkers : ~Busy(d, g) /\ ~Busy(d, g)'
      BY <1>1, <1>8, <1>13, <1>15 DEF Busy
    <2> QED
      BY <1>9, <2>1, <2>2 DEF Written
  <1> QED
    BY <1>14, <1>15

(* A job worker takes the lock, or counts a row and goes on or rests.      *)
LEMMA HolderMoves ==
    ASSUME IfmapType, NEW e \in JobWorkers, EncodeLock(e) \/ EncodeCount(e),
           NEW f \in Flows, f = jw[e].flow, NEW m \in 0 .. H - 1, m = work[e].row
    PROVE  /\ jw[e].pc \in {"lock", "count"} /\ jw'[e].flow = f
           /\ \A d \in JobWorkers : d # e => jw'[d] = jw[d]
           /\ \A d \in JobWorkers : d # e => work'[d] = work[d]
           /\ work'[e].frame = work[e].frame
           /\ EncodeLock(e) =>
                jw[e].pc = "lock" /\ jw'[e].pc = "row" /\ work'[e].row = 0
           /\ EncodeCount(e) => jw[e].pc = "count"
           /\ EncodeCount(e) /\ m + 1 < H =>
                jw'[e].pc = "row" /\ work'[e].row = m + 1
           /\ EncodeCount(e) /\ ~(m + 1 < H) => jw'[e].pc = "rest"
  <1>1. CASE EncodeLock(e)
    <2>1. jw[e].pc = "lock" /\ ~EncodeCount(e) /\ JobWorkerGoes(e, "row")
          /\ work' = [work EXCEPT ![e].row = 0]
      BY <1>1 DEF EncodeLock, EncodeCount
    <2>2. /\ jw'[e].pc = "row" /\ jw'[e].flow = f
          /\ \A d \in JobWorkers : d # e => jw'[d] = jw[d]
      BY <2>1 DEF JobWorkerGoes, IfmapType, WorkersType, JobWorkerStates
    <2>3. /\ work'[e].frame = work[e].frame /\ work'[e].row = 0
          /\ \A d \in JobWorkers : d # e => work'[d] = work[d]
      BY <2>1 DEF IfmapType
    <2> QED
      BY <2>1, <2>2, <2>3
  <1>2. CASE EncodeCount(e)
    <2>1. jw[e].pc = "count" /\ ~EncodeLock(e)
      BY <1>2 DEF EncodeLock, EncodeCount
    <2>2. JobWorkerGoes(e, IF m + 1 < H THEN "row" ELSE "rest")
      BY <1>2 DEF EncodeCount, JobWorkerGoes
    <2>3. /\ jw'[e].pc = (IF m + 1 < H THEN "row" ELSE "rest") /\ jw'[e].flow = f
          /\ \A d \in JobWorkers : d # e => jw'[d] = jw[d]
      BY <2>2 DEF JobWorkerGoes, IfmapType, WorkersType, JobWorkerStates
    <2>4. /\ \A d \in JobWorkers : d # e => work'[d] = work[d]
          /\ work'[e].frame = work[e].frame
          /\ m + 1 < H => work'[e].row = m + 1
      <3>1. CASE m + 1 < H
        <4>1. work' = [work EXCEPT ![e].row = work[e].row + 1]
          BY <1>2, <3>1 DEF EncodeCount
        <4> QED
          BY <4>1 DEF IfmapType
      <3>2. CASE ~(m + 1 < H)
        <4>1. UNCHANGED work
          BY <1>2, <3>2 DEF EncodeCount
        <4> QED
          BY <3>2, <4>1
      <3> QED
        BY <3>1, <3>2
    <2> QED
      BY <2>1, <2>3, <2>4
  <1> QED
    BY <1>1, <1>2

(* A job worker takes the lock, or counts a row: what it wrote stays. *)
LEMMA OrderStays ==
    ASSUME IfmapType, TransferInv, PoolInv, DataInv, OrderInv, PoppedSame, UNCHANGED ctl,
           NEW e \in JobWorkers, EncodeLock(e) \/ EncodeCount(e), StreamsSame
    PROVE  OrderInv'
  <1> SUFFICES ASSUME ~ctl.grown, NEW g \in Flows
               PROVE  InOrder(Stream(g)') /\ Written(g)'
    BY DEF OrderInv
  <1>1. PICK f \in Flows : f = jw[e].flow
    BY Typed
  <1>2. PICK m \in 0 .. H - 1 : m = work[e].row
    BY Typed
  <1>3. PICK n \in Nat : n = Popped(f)
    BY DEF DataInv, QueueInv
  <1>4. /\ jw[e].pc \in {"lock", "count"} /\ jw'[e].flow = f
        /\ \A d \in JobWorkers : d # e => jw'[d] = jw[d]
        /\ work'[e].frame = work[e].frame
    BY <1>1, <1>2, HolderMoves
  <1>5. ctl.pc # "gone" /\ \A d \in JobWorkers : d # e => jw[d].pc \notin Holding
    BY <1>4, AloneBusy
  <1>6. \A h \in Flows : InOrder(Stream(h)) /\ Written(h) /\ Popped(h)' = Popped(h)
                         /\ Stream(h)' = Stream(h)
    BY <1>5 DEF OrderInv, PoppedSame, StreamsSame
  <1>7. Busy(e, f)
    BY <1>1, <1>4 DEF Busy, Holding
  <1>8. work[e].frame = n /\ Len(Stream(f)) = H * (n - 1) + HeldRows(e)
    BY <1>3, <1>6, <1>7 DEF Written
  <1>9. \A d \in JobWorkers, h \in Flows : Busy(d, h)' => d = e /\ h = f
    BY <1>4, <1>5 DEF Busy
  <1>10. CASE g = f
    <2>1. ASSUME Busy(e, f)', HeldRows(e)' = HeldRows(e) PROVE Written(f)'
      BY <1>3, <1>4, <1>6, <1>8, <1>9, <2>1 DEF Written
    <2>2. CASE EncodeLock(e)
      <3>1. /\ jw[e].pc = "lock" /\ jw'[e].pc = "row" /\ work'[e].row = 0
        BY <1>1, <1>2, <2>2, HolderMoves
      <3>2. Busy(e, f)' /\ HeldRows(e)' = HeldRows(e)
        BY <1>4, <3>1 DEF Busy, Holding, HeldRows
      <3> QED
        BY <1>6, <1>10, <2>1, <3>2
    <2>3. CASE EncodeCount(e) /\ m + 1 < H
      <3>1. /\ jw[e].pc = "count" /\ jw'[e].pc = "row" /\ work'[e].row = m + 1
        BY <1>1, <1>2, <2>3, HolderMoves
      <3>2. Busy(e, f)' /\ HeldRows(e)' = HeldRows(e)
        BY <1>2, <1>4, <3>1 DEF Busy, Holding, HeldRows
      <3> QED
        BY <1>6, <1>10, <2>1, <3>2
    <2>4. CASE EncodeCount(e) /\ ~(m + 1 < H)
      <3>1. jw[e].pc = "count" /\ jw'[e].pc = "rest"
        BY <1>1, <1>2, <2>4, HolderMoves
      <3>2. ~Busy(e, f)' /\ HeldRows(e) = m + 1
        BY <1>2, <3>1 DEF Busy, Holding, HeldRows
      <3>3. m + 1 = H
        BY <2>4, Sizes
      <3>4. H * (n - 1) + H = H * n
        BY Sizes
      <3>5. Len(Stream(f)) = H * n
        BY <1>8, <3>2, <3>3, <3>4
      <3>6. \A d \in JobWorkers : ~Busy(d, f)'
        BY <1>9, <3>2
      <3>7. Written(f)'
        BY <1>3, <1>6, <3>5, <3>6 DEF Written
      <3> QED
        BY <1>6, <1>10, <3>7
    <2> QED
      BY <2>2, <2>3, <2>4
  <1>11. CASE g # f
    <2>1. \A d \in JobWorkers : ~Busy(d, g) /\ ~Busy(d, g)'
      BY <1>1, <1>5, <1>9, <1>11 DEF Busy
    <2> QED
      BY <1>6, <2>1 DEF Written
  <1> QED
    BY <1>10, <1>11

(* Every step keeps the order. *)
LEMMA OrderSteps ==
    ASSUME IfmapType, TransferInv, PoolInv, DataInv, OrderInv, [Next]_vars
    PROVE  OrderInv'
  <1>1. /\ \/ PoppedSame
           \/ JoinStep
           \/ \E e \in JobWorkers : EncodePop(e) /\ queue[jw[e].flow] # <<>>
    BY QueueSteps DEF DataInv
  <1>2. ASSUME NEW e \in JobWorkers,
               EncodeLock(e) \/ EncodeRow(e) \/ EncodeCount(e) \/ EncodePop(e)
        PROVE  UNCHANGED ctl /\ (EncodePop(e) \/ PoppedSame)
    <2>1. CASE EncodePop(e)
      BY <2>1 DEF EncodePop
    <2>2. CASE EncodeLock(e) \/ EncodeRow(e) \/ EncodeCount(e)
      <3>1. UNCHANGED <<queue, accepted, ctl>>
        BY <2>2 DEF EncodeLock, EncodeRow, EncodeCount
      <3> QED
        BY <3>1 DEF PoppedSame, Popped
    <2> QED
      BY <1>2, <2>1, <2>2
  <1>3. StreamsSame \/ \E e \in JobWorkers : EncodeRow(e)
    BY StreamSteps
  <1>4. ASSUME NEW e \in JobWorkers, EncodeRow(e) PROVE OrderInv'
    <2>1. UNCHANGED ctl /\ PoppedSame
      <3>1. ~EncodePop(e)
        BY <1>4 DEF EncodeRow, EncodePop
      <3> QED
        BY <1>2, <1>4, <3>1
    <2> QED
      BY <1>4, <2>1, OrderRow
  <1>5. CASE ~\E e \in JobWorkers : EncodeRow(e)
    <2>1. StreamsSame
      BY <1>3, <1>5
    <2>2. ASSUME NEW e \in JobWorkers, EncodePop(e), queue[jw[e].flow] # <<>>
          PROVE  OrderInv'
      BY <1>2, <2>1, <2>2, OrderPop
    <2>3. ASSUME NEW e \in JobWorkers, EncodeLock(e) \/ EncodeCount(e) PROVE OrderInv'
      <3>1. ~EncodePop(e)
        BY <2>3 DEF EncodeLock, EncodeCount, EncodePop
      <3>2. UNCHANGED ctl /\ PoppedSame
        BY <1>2, <2>3, <3>1
      <3> QED
        BY <2>1, <2>3, <3>2, OrderStays
    <2>4. CASE HoldersSame /\ (PoppedSame \/ JoinStep)
      <3>1. PoppedSame \/ ctl'.pc = "gone"
        BY <2>4, Marks
      <3> QED
        BY <2>1, <2>4, <3>1, Marks, OrderQuiet
    <2> QED
      BY <1>1, <1>5, <2>2, <2>3, <2>4, HoldersQuiet
  <1> QED
    BY <1>4, <1>5

(* At the start nothing was taken. *)
LEMMA OrderInit ==
    ASSUME Init PROVE OrderInv
  <1>1. IfmapType /\ TransferInv /\ DataInv
    BY InitType, DataInit
  <1>2. ASSUME NEW f \in Flows PROVE Stream(f) \in Seq(Contents) /\ Len(Stream(f)) = 0
    <2>1. StreamInv(f) /\ Popped(f) = 0 /\ Stream(f) \in Seq(Contents)
      BY <1>1, StreamTyped DEF DataInv, Init, Popped
    <2>2. /\ Ahead(f) \in 0 .. Occupied(f) /\ Len(wire[f]) = 0
          /\ Occupied(f) = Occ(0, 0)
      BY <1>1, AheadTyped DEF Init, Occupied, Occ
    <2>3. Occ(0, 0) = 0
      BY Pointers, Sizes
    <2>4. Len(Stream(f)) = Len(wire[f]) + Occupied(f) - Ahead(f)
      BY <1>1, StreamTyped DEF IsRest
    <2>5. Ahead(f) = 0
      BY <2>2, <2>3
    <2> QED
      BY <2>1, <2>2, <2>3, <2>4, <2>5
  <1>3. \A e \in JobWorkers : jw[e].pc \notin Holding
    <2>1. \A e \in JobWorkers : jw[e].pc \in {"off", "top"}
      BY DEF Init, WorkersInit, NewJobWorker
    <2> QED
      BY <2>1 DEF Holding
  <1>4. \A f \in Flows : Popped(f) = 0 /\ H * Popped(f) = 0
    <2>1. \A f \in Flows : Popped(f) = 0
      BY DEF Init, Popped
    <2> QED
      BY <2>1, Sizes
  <1> QED
    BY <1>2, <1>3, <1>4 DEF OrderInv, InOrder, Written, Busy

-----------------------------------------------------------------------------
(* Callers. *)

At(u, f, pc) == user[u].pc = pc /\ user[u].flow = f

(* One caller moves: those at a place change by it at most. *)
LEMMA CallersCount ==
    ASSUME NEW f, NEW pc
    PROVE  /\ Cardinality(Users) \in Nat
           /\ CallersAt(f, pc) \in Nat /\ CallersAt(f, pc)' \in Nat
           /\ CallersAt(f, pc) <= Cardinality(Users)
           /\ UNCHANGED user => CallersAt(f, pc)' = CallersAt(f, pc)
  <1> DEFINE A == {u \in Users : user[u].pc = pc /\ user[u].flow = f}
             B == {u \in Users : user'[u].pc = pc /\ user'[u].flow = f}
  <1>1. CallersAt(f, pc) = Cardinality(A) /\ CallersAt(f, pc)' = Cardinality(B)
    BY DEF CallersAt
  <1>2. IsFiniteSet(Users)
    BY CascadeIfmapAssumption
  <1>3. A \in SUBSET Users /\ B \in SUBSET Users
    OBVIOUS
  <1>4. UNCHANGED user => A = B
    OBVIOUS
  <1> HIDE DEF A, B
  <1> QED
    BY <1>1, <1>2, <1>3, <1>4, FS_Subset, FS_CardinalityType

(* One caller moves: those at a place change by it at most. *)
LEMMA CallersChange ==
    ASSUME NEW f, NEW pc, NEW u \in Users,
           \A v \in Users : v # u => user'[v] = user[v]
    PROVE  /\ (At(u, f, pc)' <=> At(u, f, pc)) => CallersAt(f, pc)' = CallersAt(f, pc)
           /\ ~At(u, f, pc) /\ At(u, f, pc)' =>
                CallersAt(f, pc)' = CallersAt(f, pc) + 1
           /\ At(u, f, pc) /\ ~At(u, f, pc)' =>
                CallersAt(f, pc)' = CallersAt(f, pc) - 1 /\ CallersAt(f, pc) >= 1
  <1> DEFINE A == {v \in Users : user[v].pc = pc /\ user[v].flow = f}
             B == {v \in Users : user'[v].pc = pc /\ user'[v].flow = f}
  <1>1. CallersAt(f, pc) = Cardinality(A) /\ CallersAt(f, pc)' = Cardinality(B)
    BY DEF CallersAt
  <1>2. IsFiniteSet(Users) /\ A \in SUBSET Users /\ B \in SUBSET Users
    BY CascadeIfmapAssumption
  <1>3. \A v \in Users : v # u => (v \in A <=> v \in B)
    OBVIOUS
  <1>4. (u \in A <=> At(u, f, pc)) /\ (u \in B <=> At(u, f, pc)')
    BY DEF At
  <1> HIDE DEF A, B
  <1>5. /\ u \in A /\ u \in B => Cardinality(B) = Cardinality(A)
        /\ u \notin A /\ u \notin B => Cardinality(B) = Cardinality(A)
        /\ u \notin A /\ u \in B => Cardinality(B) = Cardinality(A) + 1
        /\ u \in A /\ u \notin B =>
             Cardinality(B) = Cardinality(A) - 1 /\ Cardinality(A) >= 1
    BY <1>2, <1>3, CountChanges
  <1> QED
    BY <1>1, <1>4, <1>5

(* What the steps of callers do to their places.                           *)
LEMMA UserSteps ==
    ASSUME IfmapType, [Next]_vars
    PROVE  \/ UNCHANGED user /\ ~\E u \in Users : StreamPush(u) \/ StreamJob(u)
           \/ \E u \in Users :
                /\ UNCHANGED ctl
                /\ \A v \in Users : v # u => user'[v] = user[v]
                /\ \/ (\E f \in Flows : StreamCall(u, f)) /\ ~Destroying
                        /\ user[u].pc = "idle" /\ user'[u].pc = "poll"
                   \/ StreamPoll(u) /\ user[u].pc = "poll"
                        /\ user'[u].flow = user[u].flow
                        /\ \/ user'[u].pc = "idle"
                           \/ user'[u].pc = "push" /\ ~QueueFull(user[u].flow)
                   \/ StreamPush(u) /\ user[u].pc = "push" /\ user'[u].pc = "job"
                        /\ user'[u].flow = user[u].flow
                   \/ StreamJob(u) /\ user[u].pc = "job" /\ user'[u].pc = "signal"
                        /\ user'[u].flow = user[u].flow
                   \/ StreamSignal(u) /\ user[u].pc = "signal" /\ user'[u].pc = "idle"
                        /\ user'[u].flow = user[u].flow
  <1>1. CASE UNCHANGED user /\ ~\E u \in Users : StreamPush(u) \/ StreamJob(u)
    BY <1>1
  <1>2. ASSUME NEW u \in Users, NEW f \in Flows, StreamCall(u, f)
        PROVE  /\ UNCHANGED ctl /\ ~Destroying
               /\ \A v \in Users : v # u => user'[v] = user[v]
               /\ user[u].pc = "idle" /\ user'[u].pc = "poll"
    <2>1. /\ user' = [user EXCEPT ![u] = [pc |-> "poll", flow |-> f]]
          /\ UNCHANGED ctl /\ ~Destroying /\ user[u].pc = "idle"
      BY <1>2 DEF StreamCall, sharedVars
    <2> QED
      BY <2>1 DEF IfmapType
  <1>3. ASSUME NEW u \in Users, StreamPoll(u)
        PROVE  /\ UNCHANGED ctl /\ user[u].pc = "poll"
               /\ \A v \in Users : v # u => user'[v] = user[v]
               /\ user'[u].flow = user[u].flow
               /\ \/ user'[u].pc = "idle"
                  \/ user'[u].pc = "push" /\ ~QueueFull(user[u].flow)
    <2>1. PICK pc \in {"idle", "push"} :
            UserGoes(u, pc) /\ (pc = "push" => ~QueueFull(user[u].flow))
      BY <1>3 DEF StreamPoll
    <2>2. pc \in {"idle", "poll", "push", "job", "signal"}
      OBVIOUS
    <2> QED
      BY <1>3, <2>1, <2>2, UserMoves DEF StreamPoll, sharedVars
  <1>4. ASSUME NEW u \in Users, StreamPush(u) \/ StreamJob(u) \/ StreamSignal(u)
        PROVE  /\ UNCHANGED ctl /\ user'[u].flow = user[u].flow
               /\ \A v \in Users : v # u => user'[v] = user[v]
               /\ \/ StreamPush(u) /\ user[u].pc = "push" /\ user'[u].pc = "job"
                  \/ StreamJob(u) /\ user[u].pc = "job" /\ user'[u].pc = "signal"
                  \/ StreamSignal(u) /\ user[u].pc = "signal" /\ user'[u].pc = "idle"
    <2>1. UNCHANGED ctl
      BY <1>4 DEF StreamPush, StreamJob, StreamSignal, sharedVars
    <2>2. CASE StreamPush(u)
      <3>1. user[u].pc = "push" /\ UserGoes(u, "job")
        BY <2>2 DEF StreamPush
      <3> QED
        BY <2>1, <2>2, <3>1, UserMoves
    <2>3. CASE StreamJob(u)
      <3>1. user[u].pc = "job" /\ UserGoes(u, "signal")
        BY <2>3 DEF StreamJob
      <3> QED
        BY <2>1, <2>3, <3>1, UserMoves
    <2>4. CASE StreamSignal(u)
      <3>1. user[u].pc = "signal" /\ UserGoes(u, "idle")
        BY <2>4 DEF StreamSignal
      <3> QED
        BY <2>1, <2>4, <3>1, UserMoves
    <2> QED
      BY <1>4, <2>2, <2>3, <2>4
  <1>5. UNCHANGED user \/ \E u \in Users :
           \/ \E f \in Flows : StreamCall(u, f)
           \/ StreamPoll(u) \/ StreamPush(u) \/ StreamJob(u) \/ StreamSignal(u)
    <2>1. ASSUME NEW e \in JobWorkers,
                 \/ EncodePop(e) \/ EncodeLock(e) \/ EncodeWait(e) \/ EncodeRow(e)
                 \/ EncodeCount(e) \/ LoopStep(e)
          PROVE  UNCHANGED user
      BY <2>1 DEF EncodePop, EncodeLock, EncodeWait, EncodeRow, EncodeCount, LoopStep,
                  ifmapVars
    <2>2. CASE WorkerTop \/ ScanFlow \/ TransferReads \/ SendRow \/ MoveEntry \/ WorkerRest
      BY <2>2, ReadsChange DEF WorkerTop, ScanFlow, SendRow, MoveEntry, WorkerRest
    <2>3. CASE GateStep \/ ControlStep \/ JoinStep \/ UNCHANGED vars
      BY <2>3 DEF GateStep, ControlStep, JoinStep, ifmapVars, vars
    <2> QED
      BY <2>1, <2>2, <2>3, Steps
  <1>6. CASE \E u \in Users : \E f \in Flows : StreamCall(u, f)
    BY <1>2, <1>6
  <1>7. CASE \E u \in Users : StreamPoll(u)
    BY <1>3, <1>7
  <1>8. CASE \E u \in Users : StreamPush(u) \/ StreamJob(u) \/ StreamSignal(u)
    BY <1>4, <1>8
  <1> QED
    BY <1>1, <1>5, <1>6, <1>7, <1>8

(* Only a push makes a list longer. *)
LEMMA QueueLengths ==
    ASSUME IfmapType, QueueInv, [Next]_vars, NEW g \in Flows
    PROVE  \/ \E u \in Users : StreamPush(u)
           \/ /\ Len(queue'[g]) \in Nat /\ Len(queue[g]) \in Nat
              /\ Len(queue'[g]) <= Len(queue[g])
  <1>1. Len(queue[g]) \in Nat
    BY Typed
  <1>2. CASE UNCHANGED queue
    BY <1>1, <1>2
  <1>3. CASE JoinStep
    <2>1. queue'[g] = <<>>
      BY <1>3 DEF JoinStep
    <2> QED
      BY <1>1, <2>1
  <1>4. ASSUME NEW e \in JobWorkers, EncodePop(e), queue[jw[e].flow] # <<>>
        PROVE  Len(queue'[g]) \in Nat /\ Len(queue'[g]) <= Len(queue[g])
    <2>1. PICK f \in Flows : f = jw[e].flow
      BY Typed
    <2>2. /\ queue' = [queue EXCEPT ![f] = Tail(queue[f])]
          /\ Len(queue'[f]) = Len(queue[f]) - 1
      BY <1>4, <2>1, FramePopped
    <2>3. queue[f] \in Seq(Nat) /\ queue[f] # <<>>
      BY <1>4, <2>1, Typed
    <2>4. Len(queue[f]) \in Nat /\ Len(queue[f]) >= 1
      BY <2>3, SeqSteps
    <2>5. g # f => queue'[g] = queue[g]
      BY <2>2 DEF IfmapType
    <2> QED
      BY <1>1, <2>2, <2>4, <2>5
  <1> QED
    BY <1>1, <1>2, <1>3, <1>4, QueueSteps

(* Every step keeps the bound on the lists. *)
LEMMA CallersSteps ==
    ASSUME IfmapType, DataInv, CallersInv, [Next]_vars
    PROVE  CallersInv'
  <1>1. Destroying' => UsersDone'
    <2>1. CASE UNCHANGED user
      <3>1. UsersDone' <=> UsersDone
        BY <2>1 DEF UsersDone
      <3> QED
        BY <3>1, Marks DEF CallersInv
    <2>2. CASE ~UNCHANGED user
      <3>1. PICK u \in Users : UNCHANGED ctl /\ (~Destroying \/ user[u].pc # "idle")
        BY <2>2, UserSteps
      <3>2. ~Destroying
        BY <3>1 DEF CallersInv, UsersDone
      <3> QED
        BY <3>1, <3>2 DEF Destroying
    <2> QED
      BY <2>1, <2>2
  <1> SUFFICES ASSUME NEW f \in Flows
               PROVE  Len(queue'[f]) + CallersAt(f, "push")'
                        < QueueSize + Cardinality(Users)
    BY <1>1 DEF CallersInv
  <1>2. PICK n \in Nat : n = Cardinality(Users)
    BY CallersCount
  <1>3. PICK p \in Nat : p = CallersAt(f, "push")
    BY CallersCount
  <1>4. PICK q \in Nat : q = CallersAt(f, "push")' /\ q <= n
    <2>1. CallersAt(f, "push")' \in Nat
      BY CallersCount
    <2>2. CallersAt(f, "push")' <= Cardinality(Users)
      <3> DEFINE B == {u \in Users : user'[u].pc = "push" /\ user'[u].flow = f}
      <3>1. CallersAt(f, "push")' = Cardinality(B) /\ B \in SUBSET Users
        BY DEF CallersAt
      <3> HIDE DEF B
      <3> QED
        BY <3>1, FS_Subset, CascadeIfmapAssumption
    <2> QED
      BY <1>2, <2>1, <2>2
  <1>5. PICK l \in Nat : l = Len(queue[f])
    BY Typed
  <1>6. QueueInv' /\ l + p < QueueSize + n /\ QueueSize \in Nat
    BY <1>2, <1>3, <1>5, QueueSteps, Sizes DEF DataInv, CallersInv
  <1>7. CASE \E u \in Users : StreamPush(u)
    <2>1. PICK u \in Users : StreamPush(u)
      BY <1>7
    <2>2. PICK g \in Flows : g = user[u].flow
      BY DEF IfmapType
    <2>3. user[u].pc = "push" /\ UserGoes(u, "job")
      BY <2>1 DEF StreamPush
    <2>4. /\ user'[u].pc = "job" /\ user'[u].flow = g
          /\ \A v \in Users : v # u => user'[v] = user[v]
      BY <2>2, <2>3, UserMoves
    <2>5. /\ Len(queue'[g]) = Len(queue[g]) + 1
          /\ \A h \in Flows : h # g => queue'[h] = queue[h]
      BY <2>1, <2>2, FramePushed DEF DataInv
    <2>6. CASE f = g
      <3>1. At(u, f, "push") /\ ~At(u, f, "push")'
        BY <2>2, <2>3, <2>4, <2>6 DEF At
      <3>2. q = p - 1
        BY <1>3, <1>4, <2>4, <3>1, CallersChange
      <3>3. Len(queue'[f]) = l + 1
        BY <1>5, <2>5, <2>6
      <3> QED
        BY <1>2, <1>4, <1>6, <3>2, <3>3
    <2>7. CASE f # g
      <3>1. At(u, f, "push")' <=> At(u, f, "push")
        BY <2>2, <2>4, <2>7 DEF At
      <3>2. q = p
        BY <1>3, <1>4, <2>4, <3>1, CallersChange
      <3> QED
        BY <1>2, <1>4, <1>5, <1>6, <2>5, <2>7, <3>2
    <2> QED
      BY <2>6, <2>7
  <1>8. CASE ~\E u \in Users : StreamPush(u)
    <2>1. PICK m \in Nat : m = Len(queue'[f]) /\ m <= l
      BY <1>5, <1>8, QueueLengths DEF DataInv
    <2>2. q <= p \/ (l < QueueSize)
      <3>1. CASE UNCHANGED user
        BY <1>3, <1>4, <3>1, CallersCount
      <3>2. CASE ~UNCHANGED user
        <4>1. PICK u \in Users :
                /\ \A v \in Users : v # u => user'[v] = user[v]
                /\ user[u].pc # "push"
                /\ \/ user'[u].pc # "push"
                   \/ ~QueueFull(user[u].flow) /\ user'[u].flow = user[u].flow
          BY <1>8, <3>2, UserSteps
        <4>2. CASE At(u, f, "push")'
          <5>1. ~QueueFull(f)
            BY <4>1, <4>2 DEF At
          <5> QED
            BY <1>5, <1>6, <5>1 DEF QueueFull
        <4>3. CASE ~At(u, f, "push")'
          <5>1. At(u, f, "push")' <=> At(u, f, "push")
            BY <4>1, <4>3 DEF At
          <5>2. CallersAt(f, "push")' = CallersAt(f, "push")
            BY <4>1, <5>1, CallersChange
          <5> QED
            BY <1>3, <1>4, <5>2
        <4> QED
          BY <4>2, <4>3
      <3> QED
        BY <3>1, <3>2
    <2> QED
      BY <1>2, <1>4, <1>6, <2>1, <2>2
  <1> QED
    BY <1>7, <1>8

(* At the start nobody called. *)
LEMMA CallersInit ==
    ASSUME Init PROVE CallersInv
  <1>1. ~Destroying
    BY DEF Init, WorkersInit, Destroying
  <1> SUFFICES ASSUME NEW f \in Flows
               PROVE  Len(queue[f]) + CallersAt(f, "push")
                        < QueueSize + Cardinality(Users)
    BY <1>1 DEF CallersInv
  <1>2. queue[f] = <<>> /\ Len(<<>>) = 0
    BY DEF Init
  <1>3. CallersAt(f, "push") \in Nat /\ CallersAt(f, "push") <= Cardinality(Users)
    BY CallersCount
  <1>4. Cardinality(Users) \in Nat
    BY CallersCount
  <1> QED
    BY <1>2, <1>3, <1>4, Sizes

-----------------------------------------------------------------------------
(* The counter of rows. *)

RowsCounted == {p \in Flows \X Rows : p[2] < Occupied(p[1])}
Counting == {e \in JobWorkers : jw[e].pc = "count"}

(* Rows and job workers can be counted. *)
LEMMA Countable ==
    /\ IsFiniteSet(Flows \X Rows) /\ Cardinality(Flows \X Rows) = NF * R
    /\ IsFiniteSet(JobWorkers)
    /\ Cardinality(RowsCounted) \in Nat /\ Cardinality(Counting) \in Nat
    /\ Cardinality(RowsCounted) <= NF * R
    /\ IsFiniteSet(RowsCounted) /\ IsFiniteSet(Counting)
  <1>1. IsFiniteSet(Flows) /\ Cardinality(Flows) = NF
    BY Sizes, FS_Interval DEF Flows
  <1>2. IsFiniteSet(Rows) /\ Cardinality(Rows) = R
    BY Sizes, FS_Interval DEF Rows
  <1>3. IsFiniteSet(Flows \X Rows) /\ Cardinality(Flows \X Rows) = NF * R
    BY <1>1, <1>2, FS_Product
  <1>4. IsFiniteSet(JobWorkers)
    BY WorkersAssumption
  <1>5. RowsCounted \in SUBSET (Flows \X Rows) /\ Counting \in SUBSET JobWorkers
    BY DEF RowsCounted, Counting
  <1>6. IsFiniteSet(RowsCounted) /\ IsFiniteSet(Counting)
        /\ Cardinality(RowsCounted) <= Cardinality(Flows \X Rows)
    BY <1>3, <1>4, <1>5, FS_Subset
  <1> QED
    BY <1>3, <1>4, <1>6, FS_CardinalityType

(* A row that comes to a ring or leaves it is one row.                     *)
LEMMA RowsChange ==
    ASSUME NEW f \in Flows, NEW o \in Rows, OthersOccupied(f)
    PROVE  /\ Occupied(f) = o /\ Occupied(f)' = o + 1 =>
                Cardinality(RowsCounted)' = Cardinality(RowsCounted) + 1
           /\ Occupied(f) = o + 1 /\ Occupied(f)' = o =>
                Cardinality(RowsCounted)' = Cardinality(RowsCounted) - 1
  <1> DEFINE A == RowsCounted
             B == {p \in Flows \X Rows : p[2] < Occupied(p[1])'}
             x == <<f, o>>
  <1>1. RowsCounted' = B
    BY DEF RowsCounted
  <1>2. A \in SUBSET (Flows \X Rows) /\ B \in SUBSET (Flows \X Rows)
        /\ x \in Flows \X Rows
    BY DEF RowsCounted
  <1>3. ASSUME \/ Occupied(f) = o /\ Occupied(f)' = o + 1
               \/ Occupied(f) = o + 1 /\ Occupied(f)' = o,
               NEW y \in Flows \X Rows, y # x
        PROVE  y \in A <=> y \in B
    <2>1. PICK g \in Flows, i \in Rows : y = <<g, i>>
      OBVIOUS
    <2>2. y \in A <=> i < Occupied(g)
      BY <2>1 DEF RowsCounted
    <2>3. y \in B <=> i < Occupied(g)'
      BY <2>1
    <2>4. CASE g = f
      <3>1. i # o /\ i \in Int /\ o \in Int
        BY <1>3, <2>1, <2>4 DEF Rows
      <3>2. i < o <=> i < o + 1
        BY <3>1
      <3>3. i < Occupied(f) <=> i < Occupied(f)'
        BY <1>3, <3>2
      <3> QED
        BY <2>2, <2>3, <2>4, <3>3
    <2>5. CASE g # f
      BY <2>2, <2>3, <2>5 DEF OthersOccupied
    <2> QED
      BY <2>4, <2>5
  <1>4. x \in A <=> o < Occupied(f)
    BY <1>2 DEF RowsCounted
  <1>5. x \in B <=> o < Occupied(f)'
    BY <1>2
  <1>6. o < o + 1 /\ ~(o < o)
    BY DEF Rows
  <1> HIDE DEF A, B, x
  <1>7. CASE Occupied(f) = o /\ Occupied(f)' = o + 1
    <2>1. x \notin A /\ x \in B /\ o # o + 1
      BY <1>4, <1>5, <1>6, <1>7
    <2>2. Cardinality(B) = Cardinality(A) + 1
      BY <1>2, <1>3, <1>7, <2>1, Countable, CountChanges
    <2> QED
      BY <1>1, <1>7, <2>1, <2>2 DEF A
  <1>8. CASE Occupied(f) = o + 1 /\ Occupied(f)' = o
    <2>1. x \in A /\ x \notin B /\ o # o + 1
      BY <1>4, <1>5, <1>6, <1>8
    <2>2. Cardinality(B) = Cardinality(A) - 1
      BY <1>2, <1>3, <1>8, <2>1, Countable, CountChanges
    <2> QED
      BY <1>1, <1>8, <2>1, <2>2 DEF A
  <1> QED
    BY <1>7, <1>8

(* A job worker that starts or ends counting is one.                       *)
LEMMA CountingChange ==
    ASSUME NEW e \in JobWorkers,
           \A d \in JobWorkers : d # e => (jw'[d].pc = "count" <=> jw[d].pc = "count")
    PROVE  /\ (jw'[e].pc = "count" <=> jw[e].pc = "count") => UNCHANGED Counting
           /\ jw[e].pc # "count" /\ jw'[e].pc = "count" =>
                Cardinality(Counting)' = Cardinality(Counting) + 1
           /\ jw[e].pc = "count" /\ jw'[e].pc # "count" =>
                Cardinality(Counting)' = Cardinality(Counting) - 1
  <1> DEFINE A == Counting
             B == {d \in JobWorkers : jw'[d].pc = "count"}
  <1>1. Counting' = B
    BY DEF Counting
  <1>2. A \in SUBSET JobWorkers /\ B \in SUBSET JobWorkers
    BY DEF Counting
  <1>3. \A d \in JobWorkers : d # e => (d \in A <=> d \in B)
    BY DEF Counting
  <1>4. (e \in A <=> jw[e].pc = "count") /\ (e \in B <=> jw'[e].pc = "count")
    BY DEF Counting
  <1>5. (e \in A <=> e \in B) => A = B
    BY <1>2, <1>3
  <1> HIDE DEF A, B
  <1>6. /\ e \notin A /\ e \in B => Cardinality(B) = Cardinality(A) + 1
        /\ e \in A /\ e \notin B => Cardinality(B) = Cardinality(A) - 1
    BY <1>2, <1>3, Countable, CountChanges
  <1> QED
    BY <1>1, <1>4, <1>5, <1>6 DEF A

(* The counter and the rows in the rings. *)
RowsSame ==
    /\ UNCHANGED ota
    /\ \A f \in Flows : Occupied(f)' = Occupied(f)
    /\ \A e \in JobWorkers : jw'[e].pc = "count" <=> jw[e].pc = "count"

(* A step that leaves them alone. *)
LEMMA RowsQuiet ==
    ASSUME CounterMatchesRows, RowsSame PROVE CounterMatchesRows'
  <1>1. RowsCounted' = RowsCounted
    <2>1. RowsCounted' = {p \in Flows \X Rows : p[2] < Occupied(p[1])'}
      BY DEF RowsCounted
    <2>2. ASSUME NEW p \in Flows \X Rows PROVE Occupied(p[1])' = Occupied(p[1])
      <3>1. p[1] \in Flows
        OBVIOUS
      <3> QED
        BY <3>1 DEF RowsSame
    <2> QED
      BY <2>1, <2>2 DEF RowsCounted
  <1>2. Counting' = Counting
    BY DEF Counting, RowsSame
  <1> QED
    BY <1>1, <1>2 DEF CounterMatchesRows, RowsCounted, Counting, RowsSame

(* A job worker is taken out of a frame by its own steps only.             *)
KeepsWriting ==
    \A e \in JobWorkers :
        \/ jw'[e].pc = jw[e].pc /\ jw'[e].flow = jw[e].flow
        \/ jw[e].pc \in Resting /\ jw'[e].pc \in Resting \cup {"execute"}

(* Callers, the loop of a job worker and control move no pointer, and only *)
(* a job worker that gets a job begins to execute one.                     *)
LEMMA ElsewhereWorks ==
    ASSUME IfmapType,
           \/ UNCHANGED vars
           \/ \E u \in Users :
                \/ \E f \in Flows : StreamCall(u, f)
                \/ StreamPoll(u) \/ StreamPush(u) \/ StreamJob(u) \/ StreamSignal(u)
           \/ \E e \in JobWorkers : LoopStep(e)
           \/ ControlStep \/ JoinStep
    PROVE  /\ UNCHANGED <<ring, ota>> /\ KeepsWriting
           /\ \/ KeepsWorking
              \/ \E e \in JobWorkers :
                    LoopStep(e) /\ JobWorkerPop(e) /\ jobs # <<>> /\ jw[e].enable = 1
  <1>1. WorkersType(Flows) /\ 0 \in Flows
    BY Sizes DEF IfmapType
  <1>2. ASSUME KeepsWorking PROVE KeepsWriting
    BY <1>2 DEF KeepsWorking, KeepsWriting
  <1>3. ASSUME UNCHANGED jw PROVE KeepsWorking
    BY <1>3, SameKeepsWorking
  <1>4. CASE UNCHANGED vars
    BY <1>2, <1>3, <1>4 DEF vars, sharedVars
  <1>5. ASSUME NEW u \in Users,
               \/ \E f \in Flows : StreamCall(u, f)
               \/ StreamPoll(u) \/ StreamPush(u) \/ StreamJob(u)
        PROVE  UNCHANGED <<ring, ota>> /\ KeepsWorking
    BY <1>3, <1>5 DEF StreamCall, StreamPoll, StreamPush, StreamJob, sharedVars
  <1>6. ASSUME NEW u \in Users, StreamSignal(u)
        PROVE  UNCHANGED <<ring, ota>> /\ KeepsWorking
    <2>1. UNCHANGED <<ring, ota>> /\ SignalEnqueue
      BY <1>6 DEF StreamSignal
    <2>2. \A d \in JobWorkers :
            /\ \/ jw'[d].pc = jw[d].pc
               \/ jw[d].pc = "waiting" /\ jw'[d].pc = "rest"
            /\ jw'[d].flow = jw[d].flow
      BY <1>1, <2>1, WakeTyped
    <2> QED
      BY <2>1, <2>2 DEF KeepsWorking, Resting
  <1>7. CASE ControlStep \/ JoinStep
    <2>1. UNCHANGED <<ring, ota>>
      BY <1>7 DEF ControlStep, JoinStep, ifmapVars
    <2>2. \/ SpuriousWakeup \/ Request \/ DestroyJoin
          \/ Control(FALSE) \/ DestroyDisable
      BY <1>7 DEF ControlStep, JoinStep
    <2>3. KeepsWorking
      BY <1>1, <2>2, WakeupKeeps, RequestKeeps, JoinKeeps, ControlKeeps
    <2> QED
      BY <1>2, <2>1, <2>3
  <1>8. ASSUME NEW e \in JobWorkers, LoopStep(e)
        PROVE  /\ UNCHANGED <<ring, ota>> /\ KeepsWriting
               /\ \/ KeepsWorking
                  \/ JobWorkerPop(e) /\ jobs # <<>> /\ jw[e].enable = 1
    <2>1. JobWorkerLoop(e) /\ UNCHANGED <<ring, ota>>
      BY <1>8 DEF LoopStep, ifmapVars
    <2>2. \/ KeepsWorking
          \/ JobWorkerPop(e) /\ jobs # <<>> /\ jw[e].enable = 1
      BY <1>1, <2>1, LoopKeeps
    <2>3. ASSUME JobWorkerPop(e), jobs # <<>>, jw[e].enable = 1 PROVE KeepsWriting
      <3>1. jw[e].pc = "pop" /\ jw' = [jw EXCEPT ![e].pc = "execute",
                                                 ![e].flow = Head(jobs)]
        BY <2>3 DEF JobWorkerPop
      <3>2. jw'[e].pc = "execute" /\ \A d \in JobWorkers : d # e => jw'[d] = jw[d]
        BY <1>1, <3>1 DEF WorkersType, JobWorkerStates
      <3> QED
        BY <3>1, <3>2 DEF KeepsWriting, Resting
    <2> QED
      BY <1>2, <2>1, <2>2, <2>3
  <1>9. CASE \E u \in Users :
                \/ \E f \in Flows : StreamCall(u, f)
                \/ StreamPoll(u) \/ StreamPush(u) \/ StreamJob(u) \/ StreamSignal(u)
    BY <1>2, <1>5, <1>6, <1>9
  <1>10. CASE \E e \in JobWorkers : LoopStep(e)
    BY <1>8, <1>10
  <1> QED
    BY <1>2, <1>4, <1>7, <1>9, <1>10

(* What the steps that change the counter or a ring do to them. *)
LEMMA RowsSteps ==
    ASSUME IfmapType, [Next]_vars
    PROVE  \/ RowsSame
           \/ \E e \in JobWorkers : EncodeRow(e) \/ EncodeCount(e)
           \/ MoveEntry
  <1> DEFINE Elsewhere ==
           \/ UNCHANGED vars
           \/ \E u \in Users :
                \/ \E f \in Flows : StreamCall(u, f)
                \/ StreamPoll(u) \/ StreamPush(u) \/ StreamJob(u) \/ StreamSignal(u)
           \/ \E e \in JobWorkers : LoopStep(e)
           \/ ControlStep \/ JoinStep
  <1>1. ASSUME UNCHANGED <<ring, ota>>, KeepsWriting PROVE RowsSame
    <2>1. \A f \in Flows : /\ ring'[f].entry_w = ring[f].entry_w
                           /\ ring'[f].entry_r = ring[f].entry_r
      BY <1>1
    <2>2. \A f \in Flows : Occupied(f)' = Occupied(f)
      BY <2>1, SamePointers
    <2> QED
      BY <1>1, <2>2 DEF RowsSame, KeepsWriting, Resting
  <1>2. ASSUME NEW e \in JobWorkers, EncodePop(e) \/ EncodeWait(e) \/ EncodeLock(e)
        PROVE  RowsSame
    <2>1. PICK pc \in {"rest", "lock", "row", "full"} :
            JobWorkerGoes(e, pc) /\ jw[e].pc # "count" /\ UNCHANGED ota
      BY <1>2 DEF EncodePop, EncodeWait, EncodeLock
    <2>2. /\ jw'[e].pc = pc /\ \A d \in JobWorkers : d # e => jw'[d] = jw[d]
      BY <2>1 DEF JobWorkerGoes, IfmapType, WorkersType, JobWorkerStates
    <2>3. \A f \in Flows : /\ ring'[f].entry_w = ring[f].entry_w
                           /\ ring'[f].entry_r = ring[f].entry_r
      <3>1. CASE EncodePop(e) \/ EncodeWait(e)
        BY <3>1 DEF EncodePop, EncodeWait
      <3>2. CASE EncodeLock(e)
        <4>1. PICK f \in Flows : f = jw[e].flow
          BY Typed
        <4>2. ring' = [ring EXCEPT ![f].guard = e]
          BY <3>2, <4>1 DEF EncodeLock
        <4> QED
          BY <4>2, GuardChanges DEF IfmapType
      <3> QED
        BY <1>2, <3>1, <3>2
    <2>4. \A f \in Flows : Occupied(f)' = Occupied(f)
      BY <2>3, SamePointers
    <2> QED
      BY <2>1, <2>2, <2>4 DEF RowsSame
  <1>3. CASE Elsewhere
    BY <1>1, <1>3, ElsewhereWorks
  <1>4. CASE WorkerTop \/ ScanFlow \/ TransferReads \/ SendRow \/ WorkerRest \/ GateStep
    <2>1. UNCHANGED <<ring, ota, jw>>
      BY <1>4, ReadsChange DEF WorkerTop, ScanFlow, SendRow, WorkerRest, GateStep,
                  WorkerGate, ifmapVars
    <2> QED
      BY <1>1, <2>1 DEF KeepsWriting
  <1> QED
    BY <1>2, <1>3, <1>4, Steps DEF RowsSame

(* Every step keeps the counter at the number of rows. *)
LEMMA CounterSteps ==
    ASSUME IfmapType, TransferInv, CounterMatchesRows, [Next]_vars
    PROVE  CounterMatchesRows'
  <1>1. PICK p \in Nat : p = Cardinality(RowsCounted)
    BY Countable
  <1>2. PICK c \in Nat : c = Cardinality(Counting)
    BY Countable
  <1>3. ota = p - c
    BY <1>1, <1>2 DEF CounterMatchesRows, RowsCounted, Counting
  <1>4. ASSUME NEW q \in Int, NEW d \in Int, q = Cardinality(RowsCounted)',
               d = Cardinality(Counting)', ota' = q - d
        PROVE  CounterMatchesRows'
    BY <1>4 DEF CounterMatchesRows, RowsCounted, Counting
  <1>5. ASSUME NEW e \in JobWorkers, EncodeRow(e) PROVE CounterMatchesRows'
    <2>1. PICK f \in Flows : f = jw[e].flow
      BY Typed
    <2>2. /\ Occupied(f) \in 0 .. R - 2 /\ Occupied(f)' = Occupied(f) + 1
          /\ OthersOccupied(f)
      BY <1>5, <2>1, MoreOccupied
    <2>3. PICK o \in Rows : o = Occupied(f)
      BY <2>2, Sizes DEF Rows
    <2>4. Cardinality(RowsCounted)' = p + 1
      BY <1>1, <2>2, <2>3, RowsChange
    <2>5. jw[e].pc = "row" /\ JobWorkerGoes(e, "count") /\ UNCHANGED ota
      BY <1>5 DEF EncodeRow
    <2>6. jw'[e].pc = "count" /\ \A d \in JobWorkers : d # e => jw'[d] = jw[d]
      BY <2>5 DEF JobWorkerGoes, IfmapType, WorkersType, JobWorkerStates
    <2>7. Cardinality(Counting)' = c + 1
      BY <1>2, <2>5, <2>6, CountingChange
    <2>8. ota' = (p + 1) - (c + 1) /\ p + 1 \in Int /\ c + 1 \in Int
      BY <1>3, <2>5
    <2> QED
      BY <1>4, <2>4, <2>7, <2>8
  <1>6. ASSUME NEW e \in JobWorkers, EncodeCount(e) PROVE CounterMatchesRows'
    <2>1. PICK f \in Flows : f = jw[e].flow
      BY Typed
    <2>2. PICK m \in 0 .. H - 1 : m = work[e].row
      BY Typed
    <2>3. /\ jw[e].pc = "count" /\ jw'[e].pc # "count"
          /\ \A d \in JobWorkers : d # e => jw'[d] = jw[d]
      BY <1>6, <2>1, <2>2, HolderMoves
    <2>4. Cardinality(Counting)' = c - 1
      BY <1>2, <2>3, CountingChange
    <2>5. ota' = ota + 1
      BY <1>6 DEF EncodeCount
    <2>6. \A g \in Flows : /\ ring'[g].entry_w = ring[g].entry_w
                           /\ ring'[g].entry_r = ring[g].entry_r
      <3>1. CASE m + 1 < H
        <4>1. UNCHANGED ring
          BY <1>6, <2>2, <3>1 DEF EncodeCount
        <4> QED
          BY <4>1
      <3>2. CASE ~(m + 1 < H)
        <4>1. ring' = [ring EXCEPT ![f].guard = NoWorker]
          BY <1>6, <2>1, <2>2, <3>2 DEF EncodeCount
        <4> QED
          BY <4>1, GuardChanges DEF IfmapType
      <3> QED
        BY <3>1, <3>2
    <2>7. \A g \in Flows : Occupied(g)' = Occupied(g)
      BY <2>6, SamePointers
    <2>8. RowsCounted' = RowsCounted
      <3>1. RowsCounted' = {x \in Flows \X Rows : x[2] < Occupied(x[1])'}
        BY DEF RowsCounted
      <3>2. \A x \in Flows \X Rows : Occupied(x[1])' = Occupied(x[1])
        BY <2>7
      <3> QED
        BY <3>1, <3>2 DEF RowsCounted
    <2>9. ota' = p - (c - 1) /\ c - 1 \in Int /\ p \in Int
      BY <1>3, <2>5
    <2> QED
      BY <1>1, <1>4, <2>4, <2>8, <2>9
  <1>7. CASE MoveEntry
    <2>1. PICK f \in Flows : f = send.flow
      BY <1>7, FewerOccupied
    <2>2. /\ Occupied(f) \in 1 .. R - 1 /\ Occupied(f)' = Occupied(f) - 1
          /\ OthersOccupied(f)
      BY <1>7, <2>1, FewerOccupied
    <2>3. PICK o \in Rows : Occupied(f) = o + 1 /\ Occupied(f)' = o
      <3>1. Occupied(f) - 1 \in Rows /\ Occupied(f) = Occupied(f) - 1 + 1
        BY <2>2, Sizes DEF Rows
      <3> QED
        BY <2>2, <3>1
    <2>4. Cardinality(RowsCounted)' = p - 1
      BY <1>1, <2>2, <2>3, RowsChange
    <2>5. \A e \in JobWorkers : jw'[e].pc = "count" <=> jw[e].pc = "count"
      <3>1. \A e \in JobWorkers :
              jw'[e].pc = IF jw[e].pc = "full" /\ jw[e].flow = f THEN "row"
                          ELSE jw[e].pc
        BY <1>7, <2>1, EntryMoved
      <3> QED
        BY <3>1
    <2>6. Counting' = Counting
      BY <2>5 DEF Counting
    <2>7. ota' = ota - 1
      BY <1>7 DEF MoveEntry, CountDown
    <2>8. ota' = (p - 1) - c /\ p - 1 \in Int /\ c \in Int
      BY <1>3, <2>7
    <2> QED
      BY <1>2, <1>4, <2>4, <2>6, <2>8
  <1> QED
    BY <1>5, <1>6, <1>7, RowsQuiet, RowsSteps

(* At the start there are no rows. *)
LEMMA CounterInit ==
    ASSUME Init PROVE CounterMatchesRows
  <1>1. IfmapType
    BY InitType
  <1>2. ASSUME NEW f \in Flows PROVE Occupied(f) = 0
    <2>1. Empty(f) /\ ring[f] \in Rings
      BY <1>1, Typed DEF Init, Empty
    <2> QED
      BY <2>1, Occupancy
  <1>3. RowsCounted = {}
    <2>1. ASSUME NEW x \in RowsCounted PROVE FALSE
      <3>1. x[1] \in Flows /\ x[2] \in Rows /\ x[2] < Occupied(x[1])
        BY <2>1 DEF RowsCounted
      <3>2. Occupied(x[1]) = 0
        BY <1>2, <3>1
      <3> QED
        BY <3>1, <3>2 DEF Rows
    <2> QED
      BY <2>1
  <1>4. Counting = {}
    <2>1. \A e \in JobWorkers : jw[e].pc # "count"
      BY DEF Init, WorkersInit, NewJobWorker
    <2> QED
      BY <2>1 DEF Counting
  <1>5. ota = 0
    BY DEF Init
  <1>6. Cardinality(RowsCounted) = 0 /\ Cardinality(Counting) = 0
    BY <1>3, <1>4, FS_EmptySet
  <1>7. ota = Cardinality(RowsCounted) - Cardinality(Counting)
    BY <1>5, <1>6
  <1> QED
    BY <1>7 DEF CounterMatchesRows, RowsCounted, Counting

-----------------------------------------------------------------------------
(* Jobs and frames. *)

(* What is counted can be counted. *)
LEMMA JobsTyped ==
    ASSUME IfmapType, NEW f
    PROVE  /\ JobsFor(f) \in Nat /\ LostFor(f) \in Nat
           /\ WorkersAt(f, "execute") \in Nat /\ CallersAt(f, "job") \in Nat
           /\ {u \in Users : user[u] = [pc |-> "job", flow |-> f]}
                = {u \in Users : user[u].pc = "job" /\ user[u].flow = f}
           /\ \A e \in JobWorkers : jw[e].pc = "execute" /\ jw[e].flow = f
                => WorkersAt(f, "execute") >= 1
  <1>1. ASSUME NEW s \in Seq(Flows)
        PROVE  Cardinality({i \in DOMAIN s : s[i] = f}) \in Nat
    <2> DEFINE A == {i \in DOMAIN s : s[i] = f}
    <2>1. DOMAIN s = 1 .. Len(s) /\ Len(s) \in Nat
      BY SeqSteps
    <2>2. IsFiniteSet(1 .. Len(s)) /\ A \in SUBSET (1 .. Len(s))
      BY <2>1, FS_Interval
    <2> HIDE DEF A
    <2>3. Cardinality(A) \in Nat
      BY <2>2, FS_Subset, FS_CardinalityType
    <2> QED
      BY <2>3 DEF A
  <1>2. JobsFor(f) \in Nat /\ LostFor(f) \in Nat
    BY <1>1 DEF IfmapType, WorkersType, JobsFor, LostFor
  <1> DEFINE X == {e \in JobWorkers : jw[e].pc = "execute" /\ jw[e].flow = f}
  <1>3. WorkersAt(f, "execute") = Cardinality(X) /\ X \in SUBSET JobWorkers
    BY DEF WorkersAt
  <1>4. ASSUME NEW e \in JobWorkers, jw[e].pc = "execute" /\ jw[e].flow = f PROVE X # {}
    BY <1>4
  <1> HIDE DEF X
  <1>5. IsFiniteSet(X) /\ Cardinality(X) \in Nat
    BY <1>3, FS_Subset, FS_CardinalityType, WorkersAssumption
  <1>6. X # {} => Cardinality(X) >= 1
    <2>1. Cardinality(X) = 0 <=> X = {}
      BY <1>5, FS_EmptySet
    <2> QED
      BY <1>5, <2>1
  <1>7. CallersAt(f, "job") \in Nat
    BY CallersCount
  <1>8. \A u \in Users : user[u] = [pc |-> "job", flow |-> f]
                         <=> user[u].pc = "job" /\ user[u].flow = f
    BY DEF IfmapType
  <1> QED
    BY <1>2, <1>3, <1>4, <1>5, <1>6, <1>7, <1>8

(* One job worker begins or ends to execute. *)
LEMMA ExecutingChange ==
    ASSUME NEW e \in JobWorkers, NEW f,
           \A d \in JobWorkers : d # e =>
             (jw'[d].pc = "execute" /\ jw'[d].flow = f
                <=> jw[d].pc = "execute" /\ jw[d].flow = f)
    PROVE  /\ (jw'[e].pc = "execute" /\ jw'[e].flow = f
                 <=> jw[e].pc = "execute" /\ jw[e].flow = f)
                => WorkersAt(f, "execute")' = WorkersAt(f, "execute")
           /\ ~(jw[e].pc = "execute" /\ jw[e].flow = f)
              /\ jw'[e].pc = "execute" /\ jw'[e].flow = f
                => WorkersAt(f, "execute")' = WorkersAt(f, "execute") + 1
           /\ jw[e].pc = "execute" /\ jw[e].flow = f
              /\ ~(jw'[e].pc = "execute" /\ jw'[e].flow = f)
                => WorkersAt(f, "execute")' = WorkersAt(f, "execute") - 1
  <1> DEFINE A == {d \in JobWorkers : jw[d].pc = "execute" /\ jw[d].flow = f}
             B == {d \in JobWorkers : jw'[d].pc = "execute" /\ jw'[d].flow = f}
  <1>1. /\ WorkersAt(f, "execute") = Cardinality(A)
        /\ WorkersAt(f, "execute")' = Cardinality(B)
    BY DEF WorkersAt
  <1>2. A \in SUBSET JobWorkers /\ B \in SUBSET JobWorkers /\ IsFiniteSet(JobWorkers)
    BY WorkersAssumption
  <1>3. \A d \in JobWorkers : d # e => (d \in A <=> d \in B)
    OBVIOUS
  <1>4. /\ e \in A <=> jw[e].pc = "execute" /\ jw[e].flow = f
        /\ e \in B <=> jw'[e].pc = "execute" /\ jw'[e].flow = f
    OBVIOUS
  <1>5. (e \in A <=> e \in B) => A = B
    BY <1>2, <1>3
  <1> HIDE DEF A, B
  <1>6. /\ e \notin A /\ e \in B => Cardinality(B) = Cardinality(A) + 1
        /\ e \in A /\ e \notin B => Cardinality(B) = Cardinality(A) - 1
    BY <1>2, <1>3, CountChanges
  <1> QED
    BY <1>1, <1>4, <1>5, <1>6

(* A step that begins and ends no execution. *)
LEMMA ExecutingQuiet ==
    ASSUME KeepsWorking, NEW f PROVE WorkersAt(f, "execute")' = WorkersAt(f, "execute")
  <1>1. \A d \in JobWorkers :
             (jw'[d].pc = "execute" /\ jw'[d].flow = f
                <=> jw[d].pc = "execute" /\ jw[d].flow = f)
    BY DEF KeepsWorking, Resting
  <1> QED
    BY <1>1 DEF WorkersAt

(* The parts of what is due that a step leaves alone. *)
ExecutingSame ==
    \A f \in Flows : WorkersAt(f, "execute")' = WorkersAt(f, "execute")
AskingSame == \A f \in Flows : CallersAt(f, "job")' = CallersAt(f, "job")

(* A step that changes neither jobs nor frames. *)
LEMMA DueQuiet ==
    ASSUME IfmapType, UNCHANGED <<queue, jobs, lost>>, ExecutingSame, AskingSame,
           NEW f \in Flows, Len(queue[f]) = Due(f)
    PROVE  Len(queue'[f]) = Due(f)'
  <1>1. JobsFor(f)' = JobsFor(f) /\ LostFor(f)' = LostFor(f)
    BY DEF JobsFor, LostFor
  <1> QED
    BY <1>1 DEF Due, ExecutingSame, AskingSame

(* A caller puts a frame in a list: it is about to add the job. *)
LEMMA DuePush ==
    ASSUME IfmapType, QueueInv, NEW u \in Users, StreamPush(u),
           NEW f \in Flows, Len(queue[f]) = Due(f)
    PROVE  Len(queue'[f]) = Due(f)'
  <1>1. PICK g \in Flows : g = user[u].flow
    BY DEF IfmapType
  <1>2. user[u].pc = "push" /\ UserGoes(u, "job") /\ UNCHANGED <<jobs, lost, jw>>
    BY DEF StreamPush, sharedVars
  <1>3. /\ user'[u].pc = "job" /\ user'[u].flow = g
        /\ \A v \in Users : v # u => user'[v] = user[v]
    BY <1>1, <1>2, UserMoves
  <1>4. /\ Len(queue'[g]) = Len(queue[g]) + 1
        /\ \A h \in Flows : h # g => queue'[h] = queue[h]
    BY <1>1, FramePushed
  <1>5. /\ JobsFor(f)' = JobsFor(f) /\ LostFor(f)' = LostFor(f)
        /\ WorkersAt(f, "execute")' = WorkersAt(f, "execute")
    BY <1>2 DEF JobsFor, LostFor, WorkersAt
  <1>6. PICK a, b, c, d \in Nat : /\ a = JobsFor(f) /\ b = LostFor(f)
                                  /\ c = WorkersAt(f, "execute")
                                  /\ d = CallersAt(f, "job")
    BY JobsTyped
  <1>7. Len(queue[f]) = a + b + c + d
    BY <1>6 DEF Due
  <1>8. CASE f = g
    <2>1. ~At(u, f, "job") /\ At(u, f, "job")'
      BY <1>2, <1>3, <1>8 DEF At
    <2>2. CallersAt(f, "job")' = d + 1
      BY <1>3, <1>6, <2>1, CallersChange
    <2>3. Due(f)' = a + b + c + (d + 1)
      BY <1>5, <1>6, <2>2 DEF Due
    <2>4. Len(queue'[f]) = a + b + c + d + 1
      BY <1>4, <1>7, <1>8
    <2> QED
      BY <2>3, <2>4
  <1>9. CASE f # g
    <2>1. At(u, f, "job")' <=> At(u, f, "job")
      BY <1>1, <1>3, <1>9 DEF At
    <2>2. CallersAt(f, "job")' = d
      BY <1>3, <1>6, <2>1, CallersChange
    <2> QED
      BY <1>4, <1>5, <1>6, <1>7, <1>9, <2>2 DEF Due
  <1> QED
    BY <1>8, <1>9

(* The caller adds the job. *)
LEMMA DueJob ==
    ASSUME IfmapType, NEW u \in Users, StreamJob(u),
           NEW f \in Flows, Len(queue[f]) = Due(f)
    PROVE  Len(queue'[f]) = Due(f)'
  <1>1. PICK g \in Flows : g = user[u].flow
    BY DEF IfmapType
  <1>2. /\ user[u].pc = "job" /\ UserGoes(u, "signal") /\ UNCHANGED <<lost, jw, queue>>
        /\ jobs' = Append(jobs, g) /\ jobs \in Seq(Flows)
    BY <1>1 DEF StreamJob, IfmapType, WorkersType
  <1>3. /\ user'[u].pc = "signal"
        /\ \A v \in Users : v # u => user'[v] = user[v]
    BY <1>1, <1>2, UserMoves
  <1>4. /\ LostFor(f)' = LostFor(f)
        /\ WorkersAt(f, "execute")' = WorkersAt(f, "execute")
    BY <1>2 DEF LostFor, WorkersAt
  <1>5. PICK a, b, c, d \in Nat : /\ a = JobsFor(f) /\ b = LostFor(f)
                                  /\ c = WorkersAt(f, "execute")
                                  /\ d = CallersAt(f, "job")
    BY JobsTyped
  <1>6. Len(queue[f]) = a + b + c + d
    BY <1>5 DEF Due
  <1>7. (g = f => JobsFor(f)' = a + 1) /\ (g # f => JobsFor(f)' = a)
    <2>1. jobs \in Seq(Flows) /\ JobsFor(f) = Times(jobs, f)
      BY <1>2 DEF JobsFor, Times
    <2>2. JobsFor(f)' = Times(Append(jobs, g), f)
      BY <1>2 DEF JobsFor, Times
    <2> QED
      BY <1>5, <2>1, <2>2, CountAppended
  <1>8. CASE f = g
    <2>1. At(u, f, "job") /\ ~At(u, f, "job")'
      BY <1>1, <1>2, <1>3, <1>8 DEF At
    <2>2. CallersAt(f, "job")' = d - 1
      BY <1>3, <1>5, <2>1, CallersChange
    <2>3. JobsFor(f)' = a + 1
      BY <1>7, <1>8
    <2>4. Due(f)' = (a + 1) + b + c + (d - 1)
      BY <1>4, <1>5, <2>2, <2>3 DEF Due
    <2>5. (a + 1) + b + c + (d - 1) = a + b + c + d
      OBVIOUS
    <2> QED
      BY <1>2, <1>6, <2>4, <2>5
  <1>9. CASE f # g
    <2>1. At(u, f, "job")' <=> At(u, f, "job")
      BY <1>1, <1>3, <1>9 DEF At
    <2>2. CallersAt(f, "job")' = d
      BY <1>3, <1>5, <2>1, CallersChange
    <2>3. JobsFor(f)' = a
      BY <1>7, <1>9
    <2> QED
      BY <1>2, <1>4, <1>5, <1>6, <2>2, <2>3 DEF Due
  <1> QED
    BY <1>8, <1>9

(* A job worker takes a job: it executes it, or the job is lost.           *)
LEMMA DueTake ==
    ASSUME IfmapType, NEW e \in JobWorkers, LoopStep(e), JobWorkerPop(e), jobs # <<>>,
           NEW f \in Flows, Len(queue[f]) = Due(f)
    PROVE  Len(queue'[f]) = Due(f)'
  <1>1. /\ jobs \in Seq(Flows) /\ lost \in Seq(Flows)
        /\ JobsFor(f) = Times(jobs, f) /\ LostFor(f) = Times(lost, f)
    BY DEF IfmapType, WorkersType, JobsFor, LostFor, Times
  <1>2. PICK g \in Flows : g = Head(jobs)
    BY <1>1, SeqSteps
  <1>3. jobs' = Tail(jobs) /\ UNCHANGED <<queue, user>> /\ jw[e].pc = "pop"
    BY DEF LoopStep, JobWorkerPop, ifmapVars
  <1>4. CallersAt(f, "job")' = CallersAt(f, "job")
    BY <1>3, CallersCount
  <1>5. PICK a, b, c, d \in Nat : /\ a = JobsFor(f) /\ b = LostFor(f)
                                  /\ c = WorkersAt(f, "execute")
                                  /\ d = CallersAt(f, "job")
    BY JobsTyped
  <1>6. Len(queue[f]) = a + b + c + d
    BY <1>5 DEF Due
  <1>7. (g = f => JobsFor(f)' = a - 1) /\ (g # f => JobsFor(f)' = a)
    <2>1. JobsFor(f)' = Times(Tail(jobs), f)
      BY <1>3 DEF JobsFor, Times
    <2> QED
      BY <1>1, <1>2, <1>5, <2>1, CountTail
  <1>8. CASE jw[e].enable = 1
    <2>1. jw' = [jw EXCEPT ![e].pc = "execute", ![e].flow = g] /\ UNCHANGED lost
      BY <1>2, <1>8 DEF JobWorkerPop
    <2>2. /\ jw'[e].pc = "execute" /\ jw'[e].flow = g
          /\ \A i \in JobWorkers : i # e => jw'[i] = jw[i]
      BY <2>1 DEF IfmapType, WorkersType, JobWorkerStates
    <2>3. LostFor(f)' = b
      BY <1>5, <2>1 DEF LostFor
    <2>4. CASE g = f
      <3>1. WorkersAt(f, "execute")' = c + 1
        BY <1>3, <1>5, <2>2, <2>4, ExecutingChange
      <3>2. Due(f)' = (a - 1) + b + (c + 1) + d
        BY <1>4, <1>5, <1>7, <2>3, <2>4, <3>1 DEF Due
      <3>3. (a - 1) + b + (c + 1) + d = a + b + c + d
        OBVIOUS
      <3> QED
        BY <1>3, <1>6, <3>2, <3>3
    <2>5. CASE g # f
      <3>1. WorkersAt(f, "execute")' = c
        BY <1>3, <1>5, <2>2, <2>5, ExecutingChange
      <3> QED
        BY <1>3, <1>4, <1>5, <1>6, <1>7, <2>3, <2>5, <3>1 DEF Due
    <2> QED
      BY <2>4, <2>5
  <1>9. CASE jw[e].enable # 1
    <2>1. JobWorkerGoes(e, "rest") /\ lost' = Append(lost, g)
      BY <1>2, <1>9 DEF JobWorkerPop
    <2>2. /\ jw'[e].pc = "rest"
          /\ \A i \in JobWorkers : i # e => jw'[i] = jw[i]
      <3>1. WorkersType(Flows) /\ "rest" \in JobPCs
        BY DEF IfmapType, JobPCs
      <3>2. /\ \A i \in JobWorkers : jw'[i].pc = IF i = e THEN "rest" ELSE jw[i].pc
            /\ \A i \in JobWorkers : i # e => jw'[i] = jw[i]
        BY <2>1, <3>1, JobWorkerMoves
      <3> QED
        BY <3>2
    <2>3. WorkersAt(f, "execute")' = c
      BY <1>3, <1>5, <2>2, ExecutingChange
    <2>4. LostFor(f)' = Times(Append(lost, g), f)
      BY <2>1 DEF LostFor, Times
    <2>5. (g = f => LostFor(f)' = b + 1) /\ (g # f => LostFor(f)' = b)
      <3>1. /\ g = f => Times(Append(lost, g), f) = Times(lost, f) + 1
            /\ g # f => Times(Append(lost, g), f) = Times(lost, f)
        BY <1>1, CountAppended
      <3>2. b = Times(lost, f)
        BY <1>1, <1>5
      <3> QED
        BY <2>4, <3>1, <3>2
    <2>6. CASE g = f
      <3>1. Due(f)' = (a - 1) + (b + 1) + c + d
        BY <1>4, <1>5, <1>7, <2>3, <2>5, <2>6 DEF Due
      <3>2. (a - 1) + (b + 1) + c + d = a + b + c + d
        OBVIOUS
      <3> QED
        BY <1>3, <1>6, <3>1, <3>2
    <2>7. CASE g # f
      BY <1>3, <1>4, <1>5, <1>6, <1>7, <2>3, <2>5, <2>7 DEF Due
    <2> QED
      BY <2>6, <2>7
  <1> QED
    BY <1>8, <1>9

(* A job worker takes the frame of its job: there is one. *)
LEMMA DueEncode ==
    ASSUME IfmapType, QueueInv, NEW e \in JobWorkers, EncodePop(e),
           \A g \in Flows : Len(queue[g]) = Due(g), NEW f \in Flows
    PROVE  Len(queue'[f]) = Due(f)'
  <1>1. PICK g \in Flows : g = jw[e].flow
    BY Typed
  <1>2. jw[e].pc = "execute" /\ UNCHANGED <<jobs, lost, user>>
    BY DEF EncodePop
  <1>3. queue[g] # <<>>
    <2>1. WorkersAt(g, "execute") >= 1
      BY <1>1, <1>2, JobsTyped
    <2>2. PICK a, b, c, d \in Nat : /\ a = JobsFor(g) /\ b = LostFor(g)
                                    /\ c = WorkersAt(g, "execute")
                                    /\ d = CallersAt(g, "job")
      BY JobsTyped
    <2>3. Len(queue[g]) = a + b + c + d
      BY <2>2 DEF Due
    <2>4. Len(queue[g]) # 0
      BY <2>1, <2>2, <2>3
    <2>5. Len(<<>>) = 0
      OBVIOUS
    <2> QED
      BY <2>4, <2>5
  <1>4. /\ queue' = [queue EXCEPT ![g] = Tail(queue[g])]
        /\ Len(queue'[g]) = Len(queue[g]) - 1 /\ JobWorkerGoes(e, "lock")
    BY <1>1, <1>3, FramePopped
  <1>5. /\ jw'[e].pc = "lock" /\ \A d \in JobWorkers : d # e => jw'[d] = jw[d]
    BY <1>4 DEF JobWorkerGoes, IfmapType, WorkersType, JobWorkerStates
  <1>6. /\ JobsFor(f)' = JobsFor(f) /\ LostFor(f)' = LostFor(f)
        /\ CallersAt(f, "job")' = CallersAt(f, "job")
    BY <1>2, CallersCount DEF JobsFor, LostFor
  <1>7. PICK a, b, c, d \in Nat : /\ a = JobsFor(f) /\ b = LostFor(f)
                                  /\ c = WorkersAt(f, "execute")
                                  /\ d = CallersAt(f, "job")
    BY JobsTyped
  <1>8. Len(queue[f]) = a + b + c + d
    BY <1>7 DEF Due
  <1>9. CASE f = g
    <2>1. WorkersAt(f, "execute")' = c - 1
      BY <1>1, <1>2, <1>5, <1>7, <1>9, ExecutingChange
    <2>2. Due(f)' = a + b + (c - 1) + d
      BY <1>6, <1>7, <2>1 DEF Due
    <2>3. Len(queue'[f]) = a + b + c + d - 1
      BY <1>4, <1>8, <1>9
    <2> QED
      BY <2>2, <2>3
  <1>10. CASE f # g
    <2>1. WorkersAt(f, "execute")' = c
      BY <1>1, <1>2, <1>5, <1>7, <1>10, ExecutingChange
    <2>2. queue'[f] = queue[f]
      BY <1>4, <1>10 DEF IfmapType
    <2> QED
      BY <1>6, <1>7, <1>8, <2>1, <2>2 DEF Due
  <1> QED
    BY <1>9, <1>10

(* All other steps but the end of destroy. *)
LEMMA JobsElsewhere ==
    ASSUME IfmapType, TransferInv, QueueInv, [Next]_vars
    PROVE  \/ UNCHANGED <<queue, jobs, lost>> /\ ExecutingSame /\ AskingSame
           \/ \E u \in Users : StreamPush(u) \/ StreamJob(u)
           \/ \E e \in JobWorkers :
                \/ EncodePop(e)
                \/ LoopStep(e) /\ JobWorkerPop(e) /\ jobs # <<>>
           \/ JoinStep
  <1> DEFINE Same == UNCHANGED <<queue, jobs, lost>> /\ ExecutingSame /\ AskingSame
  <1>1. ASSUME KeepsWorking PROVE ExecutingSame
    BY <1>1, ExecutingQuiet DEF ExecutingSame
  <1>2. ASSUME UNCHANGED jw PROVE ExecutingSame
    BY <1>1, <1>2, SameKeepsWorking
  <1>3. ASSUME UNCHANGED user PROVE AskingSame
    BY <1>3, CallersCount DEF AskingSame
  <1>4. ASSUME NEW u \in Users, \A v \in Users : v # u => user'[v] = user[v],
               user[u].pc # "job", user'[u].pc # "job"
        PROVE  AskingSame
    <2>1. \A f \in Flows : At(u, f, "job")' <=> At(u, f, "job")
      BY <1>4 DEF At
    <2> QED
      BY <1>4, <2>1, CallersChange DEF AskingSame
  <1>5. CASE UNCHANGED vars
    BY <1>2, <1>3, <1>5 DEF vars, sharedVars
  <1>6. ASSUME NEW u \in Users, NEW g \in Flows, StreamCall(u, g) PROVE Same
    <2>1. /\ user' = [user EXCEPT ![u] = [pc |-> "poll", flow |-> g]]
          /\ user[u].pc = "idle" /\ UNCHANGED <<queue, jobs, lost, jw>>
      BY <1>6 DEF StreamCall, sharedVars
    <2>2. user'[u].pc = "poll" /\ \A v \in Users : v # u => user'[v] = user[v]
      BY <2>1 DEF IfmapType
    <2> QED
      BY <1>2, <1>4, <2>1, <2>2
  <1>7. ASSUME NEW u \in Users, StreamPoll(u) PROVE Same
    <2>1. PICK pc \in {"idle", "push"} : UserGoes(u, pc)
      BY <1>7 DEF StreamPoll
    <2>2. user[u].pc = "poll" /\ UNCHANGED <<queue, jobs, lost, jw>>
      BY <1>7 DEF StreamPoll, sharedVars
    <2>3. pc \in {"idle", "poll", "push", "job", "signal"}
      OBVIOUS
    <2>4. user'[u].pc = pc /\ \A v \in Users : v # u => user'[v] = user[v]
      BY <2>1, <2>3, UserMoves
    <2> QED
      BY <1>2, <1>4, <2>2, <2>4
  <1>8. ASSUME NEW u \in Users, StreamSignal(u) PROVE Same
    <2>1. UserGoes(u, "idle") /\ user[u].pc = "signal" /\ UNCHANGED <<queue, jobs, lost>>
      BY <1>8 DEF StreamSignal
    <2>2. user'[u].pc = "idle" /\ \A v \in Users : v # u => user'[v] = user[v]
      BY <2>1, UserMoves
    <2>3. KeepsWorking
      <3>1. ~\E e \in JobWorkers : LoopStep(e)
        BY <2>1, <2>2 DEF LoopStep, ifmapVars
      <3> QED
        BY <1>8, <3>1, ElsewhereWorks
    <2> QED
      BY <1>1, <1>4, <2>1, <2>2, <2>3
  <1>9. ASSUME NEW e \in JobWorkers,
               EncodeLock(e) \/ EncodeWait(e) \/ EncodeRow(e) \/ EncodeCount(e)
        PROVE  Same
    <2>1. PICK pc \in {"row", "full", "count", "rest"} : JobWorkerGoes(e, pc)
      <3>1. CASE EncodeLock(e) \/ EncodeWait(e) \/ EncodeRow(e)
        BY <3>1 DEF EncodeLock, EncodeWait, EncodeRow
      <3>2. CASE EncodeCount(e)
        BY <3>2 DEF EncodeCount
      <3> QED
        BY <1>9, <3>1, <3>2
    <2>2. jw[e].pc # "execute" /\ UNCHANGED <<queue, jobs, lost, user>>
      BY <1>9 DEF EncodeLock, EncodeWait, EncodeRow, EncodeCount
    <2>3. jw'[e].pc = pc /\ \A d \in JobWorkers : d # e => jw'[d] = jw[d]
      BY <2>1 DEF JobWorkerGoes, IfmapType, WorkersType, JobWorkerStates
    <2>4. ExecutingSame
      BY <2>2, <2>3, ExecutingChange DEF ExecutingSame
    <2> QED
      BY <1>3, <2>2, <2>4
  <1>10. ASSUME NEW e \in JobWorkers, LoopStep(e),
                ~(JobWorkerPop(e) /\ jobs # <<>>)
         PROVE  Same
    <2>1. JobWorkerLoop(e) /\ UNCHANGED <<queue, user>> /\ WorkersType(Flows)
      BY <1>10 DEF LoopStep, ifmapVars, IfmapType
    <2>2. KeepsWorking /\ (JobWorkerPop(e) \/ UNCHANGED <<jobs, lost>>)
      BY <1>10, <2>1, LoopKeeps
    <2>3. UNCHANGED <<jobs, lost>>
      BY <1>10, <2>2 DEF JobWorkerPop
    <2> QED
      BY <1>1, <1>3, <2>1, <2>2, <2>3
  <1>11. CASE WorkerTop \/ ScanFlow \/ TransferReads \/ SendRow \/ WorkerRest \/ GateStep
    <2>1. UNCHANGED <<queue, jobs, lost, user, jw>>
      BY <1>11, ReadsChange DEF WorkerTop, ScanFlow, SendRow, WorkerRest, GateStep,
                   WorkerGate, ifmapVars
    <2> QED
      BY <1>2, <1>3, <2>1
  <1>12. CASE MoveEntry
    <2>1. UNCHANGED <<queue, jobs, lost, user>>
      BY <1>12 DEF MoveEntry
    <2>2. \A e \in JobWorkers :
            /\ jw'[e].pc = "execute" <=> jw[e].pc = "execute"
            /\ jw'[e].flow = jw[e].flow
      BY <1>12, EntryMoved
    <2>3. ExecutingSame
      BY <2>2 DEF ExecutingSame, WorkersAt
    <2> QED
      BY <1>3, <2>1, <2>3
  <1>13. CASE ControlStep
    <2>1. WorkersType(Flows) /\ 0 \in Flows
      BY Sizes DEF IfmapType
    <2>2. \/ SpuriousWakeup \/ Request \/ Control(FALSE) \/ DestroyDisable
      BY <1>13 DEF ControlStep
    <2>3. KeepsWorking
      BY <2>1, <2>2, WakeupKeeps, RequestKeeps, ControlKeeps
    <2>4. UNCHANGED <<jobs, lost>>
      BY <2>1, <2>2, ControlMarks
    <2>5. UNCHANGED <<queue, user>>
      BY <1>13 DEF ControlStep, ifmapVars
    <2> QED
      BY <1>1, <1>3, <2>3, <2>4, <2>5
  <1> QED
    BY <1>5, <1>6, <1>7, <1>8, <1>9, <1>10, <1>11, <1>12, <1>13, Steps

(* Every step keeps frames and jobs together. *)
LEMMA JobsSteps ==
    ASSUME IfmapType, TransferInv, QueueInv, JobsInv, [Next]_vars, IfmapType'
    PROVE  JobsInv'
  <1> SUFFICES ASSUME ctl'.pc # "gone", NEW f \in Flows
               PROVE  Len(queue'[f]) = Due(f)'
    BY DEF JobsInv
  <1>1. ctl.pc # "gone" /\ ~JoinStep
    BY Marks
  <1>2. \A g \in Flows : Len(queue[g]) = Due(g)
    BY <1>1 DEF JobsInv
  <1> QED
    BY <1>1, <1>2, JobsElsewhere, DueQuiet, DuePush, DueJob, DueTake, DueEncode

(* One encoder discards no job before destroy. *)
LEMMA DiscardSteps ==
    ASSUME IfmapType, PoolInv, NoneDiscarded, [Next]_vars
    PROVE  NoneDiscarded'
  <1>1. WorkersType(Flows)
    BY DEF IfmapType
  <1>2. ASSUME UNCHANGED <<lost, ctl>> PROVE NoneDiscarded'
    BY <1>2 DEF NoneDiscarded, Destroying
  <1>3. CASE \/ UNCHANGED vars
             \/ \E u \in Users : \E f \in Flows : StreamCall(u, f)
             \/ \E u \in Users :
                  StreamPoll(u) \/ StreamPush(u) \/ StreamJob(u) \/ StreamSignal(u)
    BY <1>2, <1>3 DEF vars, sharedVars, StreamCall, StreamPoll, StreamPush, StreamJob,
                      StreamSignal
  <1>4. CASE \E e \in JobWorkers :
               \/ EncodePop(e) \/ EncodeLock(e) \/ EncodeWait(e) \/ EncodeRow(e)
               \/ EncodeCount(e)
    BY <1>2, <1>4 DEF EncodePop, EncodeLock, EncodeWait, EncodeRow, EncodeCount
  <1>5. CASE \/ WorkerTop \/ ScanFlow \/ TransferReads \/ SendRow \/ MoveEntry
             \/ WorkerRest \/ GateStep
    BY <1>2, <1>5, ReadsChange DEF WorkerTop, ScanFlow, SendRow, MoveEntry, WorkerRest,
                                   GateStep, WorkerGate
  <1>6. CASE (\E e \in JobWorkers : LoopStep(e)) \/ ControlStep \/ JoinStep
    <2>1. \/ \E e \in JobWorkers : JobWorkerLoop(e)
          \/ SpuriousWakeup \/ Control(FALSE) \/ Request
          \/ DestroyDisable \/ DestroyJoin
      BY <1>6 DEF LoopStep, ControlStep, JoinStep
    <2> QED
      BY <1>1, <2>1, NoneDiscardedStays
  <1> QED
    BY <1>3, <1>4, <1>5, <1>6, Steps

(* At the start there are neither. *)
LEMMA JobsInit ==
    ASSUME Init PROVE JobsInv /\ NoneDiscarded
  <1>1. IfmapType
    BY InitType
  <1>2. ASSUME NEW f \in Flows PROVE Len(queue[f]) = Due(f)
    <2>1. queue[f] = <<>> /\ jobs = <<>> /\ lost = <<>>
      BY DEF Init, WorkersInit
    <2>2. JobsFor(f) = 0 /\ LostFor(f) = 0
      <3>1. {i \in DOMAIN <<>> : <<>>[i] = f} = {}
        OBVIOUS
      <3>2. JobsFor(f) = Cardinality({}) /\ LostFor(f) = Cardinality({})
        BY <2>1, <3>1 DEF JobsFor, LostFor
      <3> QED
        BY <3>2, FS_EmptySet
    <2>3. WorkersAt(f, "execute") = 0
      <3>1. \A e \in JobWorkers : jw[e].pc # "execute"
        BY DEF Init, WorkersInit, NewJobWorker
      <3>2. {e \in JobWorkers : jw[e].pc = "execute" /\ jw[e].flow = f} = {}
        BY <3>1
      <3> QED
        BY <3>2, FS_EmptySet DEF WorkersAt
    <2>4. CallersAt(f, "job") = 0
      <3>1. \A u \in Users : user[u].pc # "job"
        BY DEF Init
      <3>2. {u \in Users : user[u].pc = "job" /\ user[u].flow = f} = {}
        BY <3>1
      <3> QED
        BY <3>2, FS_EmptySet DEF CallersAt
    <2> QED
      BY <2>1, <2>2, <2>3, <2>4 DEF Due
  <1>3. NoneDiscarded
    BY DEF Init, WorkersInit, NoneDiscarded
  <1> QED
    BY <1>2, <1>3 DEF JobsInv

-----------------------------------------------------------------------------
(* Who waits, and why. *)

(* The ifmap worker goes to wait for rows only if there are none counted   *)
(* and its stream runs.                                                    *)
LEMMA WorkerWaits ==
    ASSUME IfmapType, TransferInv, [Next]_vars, wk'.pc = "waiting"
    PROVE  \/ ControlStep /\ wk.pc = "waiting" /\ UNCHANGED ota
           \/ UNCHANGED <<wk, ctl, ota>>
           \/ UNCHANGED <<ctl, ota>> /\ ota = 0 /\ Running'
  <1>1. WorkersType(Flows) /\ 0 \in Flows
    BY Sizes DEF IfmapType
  <1>2. CASE UNCHANGED vars
    BY <1>2 DEF vars, sharedVars
  <1>3. ASSUME NEW u \in Users,
               \/ \E f \in Flows : StreamCall(u, f)
               \/ StreamPoll(u) \/ StreamPush(u) \/ StreamJob(u) \/ StreamSignal(u)
        PROVE  UNCHANGED <<wk, ctl, ota>>
    BY <1>3 DEF StreamCall, StreamPoll, StreamPush, StreamJob, StreamSignal, sharedVars
  <1>4. ASSUME NEW e \in JobWorkers,
               EncodePop(e) \/ EncodeLock(e) \/ EncodeWait(e) \/ EncodeRow(e)
        PROVE  UNCHANGED <<wk, ctl, ota>>
    BY <1>4 DEF EncodePop, EncodeLock, EncodeWait, EncodeRow
  <1>5. ASSUME NEW e \in JobWorkers, EncodeCount(e) PROVE FALSE
    <2>1. SignalNewRows
      BY <1>5 DEF EncodeCount
    <2>2. wk'.pc = IF wk.pc = "waiting" THEN "idle" ELSE wk.pc
      BY <2>1, WorkerMoves
    <2> QED
      BY <2>2
  <1>6. ASSUME NEW e \in JobWorkers, LoopStep(e) PROVE UNCHANGED <<wk, ctl, ota>>
    <2>1. JobWorkerLoop(e) /\ UNCHANGED ota
      BY <1>6 DEF LoopStep, ifmapVars
    <2>2. UNCHANGED <<pool, wk, ctl>>
      BY <1>1, <2>1, LoopKeeps
    <2> QED
      BY <2>1, <2>2
  <1>7. ASSUME NEW pc \in WorkerPCs, WorkerGoes(pc) PROVE pc = "waiting"
    BY <1>7, WorkerMoves
  <1>8. ~WorkerTop
    <2>1. "gate" \in WorkerPCs
      BY DEF WorkerPCs
    <2> QED
      BY <1>7, <2>1 DEF WorkerTop
  <1>9. ~SendRow
    <2>1. SUFFICES ASSUME SendRow PROVE FALSE
      OBVIOUS
    <2>2. PICK pc \in {"move", "send"} : WorkerGoes(pc)
      BY <2>1 DEF SendRow
    <2>3. pc \in WorkerPCs
      BY DEF WorkerPCs
    <2> QED
      BY <1>7, <2>2, <2>3
  <1>10. ASSUME NEW s, PastFlow(s) PROVE FALSE
    <2>1. PICK pc \in {"scan", "scanned"} : WorkerGoes(pc)
      BY <1>10 DEF PastFlow
    <2>2. pc \in WorkerPCs
      BY DEF WorkerPCs
    <2> QED
      BY <1>7, <2>1, <2>2
  <1>11. {"begin", "subtract", "compare", "send"} \subseteq WorkerPCs
    BY DEF WorkerPCs
  <1>12. ~ScanFlow
    BY <1>7, <1>10, <1>11 DEF ScanFlow
  <1>13. ~TransferReads
    <2>1. ~TransferBegin
      <3>1. SUFFICES ASSUME TransferBegin PROVE FALSE
        OBVIOUS
      <3>2. PICK pc \in {"subtract", "compare"} : WorkerGoes(pc)
        BY <3>1 DEF TransferBegin
      <3> QED
        BY <1>7, <1>11, <3>2
    <2>2. ~TransferSubtract
      BY <1>7, <1>11 DEF TransferSubtract, Counted
    <2>3. ~TransferCompare
      BY <1>7, <1>10, <1>11 DEF TransferCompare, Counted
    <2> QED
      BY <2>1, <2>2, <2>3 DEF TransferReads
  <1>14. ~MoveEntry
    <2>1. SUFFICES ASSUME MoveEntry PROVE FALSE
      OBVIOUS
    <2>2. wk.pc = "move" /\ (UNCHANGED wk \/ \E s : PastFlow(s))
      BY <2>1 DEF MoveEntry
    <2> QED
      BY <1>10, <2>2
  <1>15. CASE WorkerRest
    <2>1. PICK pc \in {"exit", "idle", "waiting", "top"} :
            /\ WorkerGoes(pc) /\ UNCHANGED <<ctl, ota>>
            /\ pc = "waiting" => wk.enable = 1 /\ wk.next = "running" /\ ota = 0
      BY <1>15 DEF WorkerRest
    <2>2. pc \in WorkerPCs
      BY DEF WorkerPCs
    <2>3. pc = "waiting" /\ wk'.enable = wk.enable /\ wk'.next = wk.next
      BY <1>7, <2>1, <2>2, WorkerMoves
    <2> QED
      BY <2>1, <2>3 DEF Running
  <1>16. ~GateStep
    <2>1. GateStep => wk'.pc \in {"asleep", "scan"}
      BY <1>1, GateKeeps DEF GateStep
    <2> QED
      BY <2>1
  <1>17. CASE ControlStep
    <2>1. SpuriousWakeup \/ Request \/ Control(FALSE) \/ DestroyDisable
      BY <1>17 DEF ControlStep
    <2>2. KeepsMoving
      BY <1>1, <2>1, WakeupKeeps, RequestKeeps, ControlKeeps
    <2> QED
      BY <1>17, <2>2 DEF KeepsMoving, ControlStep, ifmapVars
  <1>18. ~JoinStep
    BY DEF JoinStep, DestroyJoin
  <1> QED
    BY <1>2, <1>3, <1>4, <1>5, <1>6, <1>8, <1>9, <1>12, <1>13, <1>14, <1>15, <1>16,
       <1>17, <1>18, Steps

(* The read and write pointers of a ring move by one step each. *)
LEMMA PointerSteps ==
    ASSUME IfmapType, TransferInv, [Next]_vars
    PROVE  \/ \A f \in Flows : /\ ring'[f].entry_w = ring[f].entry_w
                               /\ ring'[f].entry_r = ring[f].entry_r
           \/ MoveEntry \/ \E e \in JobWorkers : EncodeRow(e)
  <1> DEFINE Same == \A f \in Flows : /\ ring'[f].entry_w = ring[f].entry_w
                                      /\ ring'[f].entry_r = ring[f].entry_r
  <1>1. ASSUME UNCHANGED ring PROVE Same
    BY <1>1
  <1>2. ASSUME NEW f \in Flows, NEW g \in JobWorkers \cup {NoWorker},
               ring' = [ring EXCEPT ![f].guard = g]
        PROVE  Same
    BY <1>2, GuardChanges DEF IfmapType
  <1>3. ASSUME NEW e \in JobWorkers,
               EncodePop(e) \/ EncodeWait(e) \/ EncodeLock(e) \/ EncodeCount(e)
        PROVE  Same
    <2>1. PICK f \in Flows : f = jw[e].flow
      BY Typed
    <2>2. \/ UNCHANGED ring
          \/ \E g \in JobWorkers \cup {NoWorker} : ring' = [ring EXCEPT ![f].guard = g]
      <3>1. CASE EncodePop(e) \/ EncodeWait(e)
        BY <3>1 DEF EncodePop, EncodeWait
      <3>2. CASE EncodeLock(e)
        BY <2>1, <3>2 DEF EncodeLock
      <3>3. CASE EncodeCount(e)
        BY <2>1, <3>3 DEF EncodeCount
      <3> QED
        BY <1>3, <3>1, <3>2, <3>3
    <2> QED
      BY <1>1, <1>2, <2>2
  <1>4. CASE \/ UNCHANGED vars
             \/ \E u \in Users :
                \/ \E f \in Flows : StreamCall(u, f)
                \/ StreamPoll(u) \/ StreamPush(u) \/ StreamJob(u) \/ StreamSignal(u)
             \/ \E e \in JobWorkers : LoopStep(e)
             \/ ControlStep \/ JoinStep
    BY <1>1, <1>4, ElsewhereWorks
  <1>5. CASE WorkerTop \/ ScanFlow \/ TransferReads \/ SendRow \/ WorkerRest \/ GateStep
    <2>1. UNCHANGED ring
      BY <1>5, ReadsChange DEF WorkerTop, ScanFlow, SendRow, WorkerRest, GateStep,
                  ifmapVars
    <2> QED
      BY <1>1, <2>1
  <1> QED
    BY <1>3, <1>4, <1>5, Steps

(* A job worker that waits for space finds none. *)
LEMMA FullWaits ==
    ASSUME IfmapType, [Next]_vars, TransferInv,
           NEW d \in JobWorkers, jw'[d].pc = "full"
    PROVE  /\ jw'[d].flow = jw[d].flow
           /\ jw[d].pc = "full" \/ Full(jw[d].flow)
           /\ MoveEntry => jw[d].flow # send.flow
  <1>1. ASSUME NEW e \in JobWorkers, NEW pc \in {"rest", "lock", "row", "full", "count"},
               JobWorkerGoes(e, pc)
        PROVE  jw'[d].flow = jw[d].flow /\ jw'[d].pc = IF d = e THEN pc ELSE jw[d].pc
    <2>1. pc \in JobPCs /\ WorkersType(Flows)
      BY DEF JobPCs, IfmapType
    <2> QED
      BY <1>1, <2>1, JobWorkerMoves
  <1>2. ASSUME NEW e \in JobWorkers,
               \/ EncodePop(e) \/ EncodeLock(e) \/ EncodeWait(e) \/ EncodeRow(e)
               \/ EncodeCount(e)
        PROVE  /\ jw'[d].flow = jw[d].flow
               /\ jw[d].pc = "full" \/ Full(jw[d].flow)
               /\ ~MoveEntry
    <2>1. PICK pc \in {"rest", "lock", "row", "full", "count"} :
            JobWorkerGoes(e, pc) /\ (pc = "full" => Full(jw[e].flow))
      <3>1. CASE EncodePop(e) \/ EncodeLock(e) \/ EncodeRow(e)
        BY <3>1 DEF EncodePop, EncodeLock, EncodeRow
      <3>2. CASE EncodeWait(e)
        BY <3>2 DEF EncodeWait
      <3>3. CASE EncodeCount(e)
        BY <3>3 DEF EncodeCount
      <3> QED
        BY <1>2, <3>1, <3>2, <3>3
    <2>2. jw'[d].flow = jw[d].flow /\ jw'[d].pc = IF d = e THEN pc ELSE jw[d].pc
      BY <1>1, <2>1
    <2>3. jw[d].pc = "full" \/ Full(jw[d].flow)
      BY <2>1, <2>2
    <2>4. ~MoveEntry
      <3>1. SUFFICES ASSUME MoveEntry PROVE FALSE
        OBVIOUS
      <3>2. wk.pc = "move" /\ UNCHANGED accepted /\ ota' = ota - 1
        BY <3>1 DEF MoveEntry, CountDown
      <3>3. ota' = ota \/ ota' = ota + 1
        BY <1>2 DEF EncodePop, EncodeLock, EncodeWait, EncodeRow, EncodeCount
      <3>4. ota \in Int
        BY DEF IfmapType
      <3> QED
        BY <3>2, <3>3, <3>4
    <2> QED
      BY <2>2, <2>3, <2>4
  <1>3. CASE MoveEntry
    <2>1. PICK f : f = send.flow
      OBVIOUS
    <2>2. /\ jw'[d].pc = IF jw[d].pc = "full" /\ jw[d].flow = f THEN "row"
                         ELSE jw[d].pc
          /\ jw'[d].flow = jw[d].flow
      BY <1>3, <2>1, EntryMoved
    <2> QED
      BY <2>1, <2>2
  <1>4. ASSUME KeepsWriting PROVE jw'[d].flow = jw[d].flow /\ jw[d].pc = "full"
    BY <1>4 DEF KeepsWriting, Resting
  <1>5. CASE \/ UNCHANGED vars
             \/ \E u \in Users :
                \/ \E f \in Flows : StreamCall(u, f)
                \/ StreamPoll(u) \/ StreamPush(u) \/ StreamJob(u) \/ StreamSignal(u)
             \/ \E e \in JobWorkers : LoopStep(e)
             \/ ControlStep \/ JoinStep
    <2>1. KeepsWriting /\ UNCHANGED ota
      BY <1>5, ElsewhereWorks
    <2>2. ~MoveEntry
      <3>1. MoveEntry => ota' = ota - 1
        BY DEF MoveEntry, CountDown
      <3>2. ota \in Int
        BY DEF IfmapType
      <3> QED
        BY <2>1, <3>1, <3>2
    <2> QED
      BY <1>4, <2>1, <2>2
  <1>6. CASE WorkerTop \/ ScanFlow \/ TransferReads \/ SendRow \/ WorkerRest \/ GateStep
    <2>1. UNCHANGED jw
      BY <1>6, ReadsChange DEF WorkerTop, ScanFlow, SendRow, WorkerRest, GateStep,
                  WorkerGate
    <2>2. UNCHANGED ota
      BY <1>6, ReadsChange DEF WorkerTop, ScanFlow, SendRow, WorkerRest, GateStep,
                  ifmapVars
    <2>3. ~MoveEntry
      <3>1. MoveEntry => ota' = ota - 1
        BY DEF MoveEntry, CountDown
      <3>2. ota \in Int
        BY DEF IfmapType
      <3> QED
        BY <2>2, <3>1, <3>2
    <2> QED
      BY <2>1, <2>3
  <1> QED
    BY <1>2, <1>3, <1>5, <1>6, Steps

(* Every step keeps the reasons to wait. *)
LEMMA WaitSteps ==
    ASSUME IfmapType, TransferInv, PoolInv, WaitInv, [Next]_vars
    PROVE  WaitInv'
  <1>1. wk'.pc = "waiting" => ota' = 0
    BY WorkerWaits DEF WaitInv
  <1>2. StopSignalled'
    <2>1. CASE ControlStep
      <3>1. WorkersType(Flows) /\ FALSE \in BOOLEAN
        BY DEF IfmapType
      <3>2. SpuriousWakeup \/ Control(FALSE) \/ Request \/ DestroyDisable
        BY <2>1 DEF ControlStep
      <3> QED
        BY <3>1, <3>2, ControlStopSignalled DEF WaitInv
    <2>2. CASE ~ControlStep
      BY <2>2, WorkerWaits DEF StopSignalled, WaitInv, Running
    <2> QED
      BY <2>1, <2>2
  <1>3. JobsSignalled'
    BY PoolSteps DEF WaitInv
  <1>4. ASSUME NEW d \in JobWorkers, jw'[d].pc = "full" PROVE Full(jw[d].flow)'
    <2>1. PICK f \in Flows : f = jw[d].flow
      BY Typed
    <2>2. jw'[d].flow = f /\ Full(f) /\ (MoveEntry => f # send.flow)
      BY <1>4, <2>1, FullWaits DEF WaitInv
    <2>3. Full(f)'
      <3>1. CASE \A h \in Flows : /\ ring'[h].entry_w = ring[h].entry_w
                                  /\ ring'[h].entry_r = ring[h].entry_r
        BY <2>2, <3>1, SamePointers
      <3>2. CASE MoveEntry
        <4>1. PICK g \in Flows : g = send.flow
          BY <3>2, FewerOccupied
        <4>2. OthersOccupied(g)
          BY <3>2, <4>1, FewerOccupied
        <4> QED
          BY <2>2, <3>2, <4>1, <4>2 DEF OthersOccupied
      <3>3. ASSUME NEW e \in JobWorkers, EncodeRow(e) PROVE Full(f)'
        <4>1. PICK g \in Flows : g = jw[e].flow
          BY Typed
        <4>2. OthersOccupied(g) /\ ~Full(g)
          BY <3>3, <4>1, MoreOccupied DEF EncodeRow
        <4>3. f # g
          BY <2>2, <4>2
        <4> QED
          BY <2>2, <4>2, <4>3 DEF OthersOccupied
      <3> QED
        BY <3>1, <3>2, <3>3, PointerSteps
    <2> QED
      BY <2>2, <2>3 DEF Full
  <1> QED
    BY <1>1, <1>2, <1>3, <1>4 DEF WaitInv, Full

(* At the start nobody waits. *)
LEMMA WaitInit ==
    ASSUME Init PROVE WaitInv
  <1>1. wk.pc = "top" /\ jobs = <<>>
    BY DEF Init, WorkersInit
  <1>2. \A e \in JobWorkers : jw[e].pc # "full"
    BY DEF Init, WorkersInit, NewJobWorker
  <1> QED
    BY <1>1, <1>2 DEF WaitInv, StopSignalled, JobsSignalled, AllWait

-----------------------------------------------------------------------------
(* What the invariant implies. *)

(* At most one job worker per flow has a row to count: it has the lock.    *)
LEMMA CountingBound ==
    ASSUME IfmapType, DataInv PROVE Cardinality(Counting) <= NF
  <1> DEFINE g == [e \in Counting |-> jw[e].flow]
  <1>1. \A e \in Counting : e \in JobWorkers /\ jw[e].pc = "count" /\ jw[e].flow \in Flows
    BY Typed DEF Counting
  <1>2. \A e \in Counting : ring[jw[e].flow].guard = e
    <2> SUFFICES ASSUME NEW e \in Counting PROVE ring[jw[e].flow].guard = e
      OBVIOUS
    <2>1. PICK f \in Flows : f = jw[e].flow
      BY <1>1
    <2>2. Busy(e, f) /\ jw[e].pc # "lock"
      BY <1>1, <2>1 DEF Busy, Holding
    <2>3. EncoderInv(e, f)
      BY <1>1, <2>2 DEF DataInv, EncodersInv
    <2> QED
      BY <2>1, <2>2, <2>3 DEF EncoderInv
  <1>3. g \in [Counting -> Flows]
    BY <1>1
  <1>4. \A d, e \in Counting : g[d] = g[e] => d = e
    BY <1>2
  <1> HIDE DEF g
  <1>5. g \in Injection(Counting, Flows)
    BY <1>3, <1>4 DEF Injection, IsInjective
  <1>6. IsFiniteSet(Flows) /\ Cardinality(Flows) = NF
    BY Sizes, FS_Interval DEF Flows
  <1> QED
    BY <1>5, <1>6, FS_Injection

(* Types. *)
LEMMA TypeImplied ==
    ASSUME IfmapInv PROVE TypeOK
  <1>1. WorkersTypeOK
    BY WorkersTypeImplies DEF IfmapInv, IfmapType
  <1>2. ASSUME NEW f \in Flows PROVE Len(queue[f]) < QueueSize + Cardinality(Users)
    <2>1. PICK n \in Nat : n = Cardinality(Users)
      BY CallersCount
    <2>2. PICK p \in Nat : p = CallersAt(f, "push")
      BY CallersCount
    <2>3. Len(queue[f]) \in Nat
      BY Typed DEF IfmapInv
    <2>4. Len(queue[f]) + p < QueueSize + n
      BY <2>1, <2>2 DEF IfmapInv, CallersInv
    <2> QED
      BY <2>1, <2>3, <2>4, Sizes
  <1>3. \A f \in Flows : ring[f].entry_w \in Rows /\ ring[f].entry_r \in Rows
    BY Typed DEF IfmapInv, Rings
  <1>4. ota \in -R * NF .. R * NF
    <2>1. PICK p \in Nat : p = Cardinality(RowsCounted)
      BY Countable
    <2>2. PICK c \in Nat : c = Cardinality(Counting)
      BY Countable
    <2>3. ota = p - c
      BY <2>1, <2>2 DEF IfmapInv, CounterMatchesRows, RowsCounted, Counting
    <2>4. p <= NF * R /\ c <= NF
      BY <2>1, <2>2, Countable, CountingBound DEF IfmapInv
    <2>5. NF * R = R * NF /\ NF <= R * NF /\ R * NF \in Nat /\ -R * NF = -(R * NF)
      BY Sizes
    <2> HIDE DEF R
    <2>6. PICK x \in Nat : x = R * NF
      BY <2>5
    <2>7. p <= x /\ c <= x
      BY <2>4, <2>5, <2>6, Sizes
    <2>8. p - c \in -x .. x
      BY <2>7
    <2> QED
      BY <2>3, <2>5, <2>6, <2>8
  <1>5. \A e \in JobWorkers : work[e].row \in 0 .. H - 1
    BY Typed DEF IfmapInv
  <1>6. send.n \in 1 - R .. R - 1 /\ send.sent \in 0 .. R - 1
    BY DEF IfmapInv, IfmapType, SendStates
  <1> QED
    BY <1>1, <1>2, <1>3, <1>4, <1>5, <1>6 DEF TypeOK

(* Whole frames. *)
LEMMA WholeImplied ==
    ASSUME IfmapInv PROVE WholeFramesOnce
  <1> SUFFICES ASSUME NEW f \in Flows, NEW k \in 1 .. Len(wire[f])
               PROVE  /\ wire[f][k] = <<FrameAt(f, First(k)), (k - 1) % H>>
                      /\ \A j \in 1 .. First(k) - 1 : FrameAt(f, j) # FrameAt(f, k)
    BY DEF WholeFramesOnce, First
  <1>1. /\ Len(wire[f]) <= Len(Stream(f)) /\ Len(wire[f]) \in Nat
        /\ Len(Stream(f)) \in Nat
        /\ \A j \in 1 .. Len(wire[f]) : wire[f][j] = Stream(f)[j]
    BY StreamTyped DEF IfmapInv
  <1>2. Framed(Stream(f)) /\ Once(Stream(f))
    BY DEF IfmapInv, DataInv, StreamInv, Whole
  <1>3. First(k) \in 1 .. k
    BY <1>1, FirstBefore
  <1>4. k \in 1 .. Len(Stream(f)) /\ First(k) \in 1 .. Len(wire[f])
    BY <1>1, <1>3
  <1>5. wire[f][k] = <<wire[f][First(k)][1], (k - 1) % H>>
    BY <1>1, <1>2, <1>4 DEF Framed
  <1>6. ASSUME NEW j \in 1 .. First(k) - 1 PROVE wire[f][j][1] # wire[f][k][1]
    <2>1. j \in 1 .. Len(wire[f])
      BY <1>1, <1>4
    <2>2. Stream(f)[j][1] # Stream(f)[k][1]
      BY <1>2, <1>4 DEF Once
    <2> QED
      BY <1>1, <2>1, <2>2
  <1> QED
    BY <1>5, <1>6 DEF FrameAt

(* Order. *)
LEMMA OrderImplied ==
    ASSUME IfmapInv PROVE FramesInOrder
  <1> SUFFICES ASSUME ~ctl.grown, NEW f \in Flows, NEW k \in 1 .. Len(wire[f])
               PROVE  wire[f][k][1] = 1 + (k - 1) \div H
    BY DEF FramesInOrder, FrameAt
  <1>1. /\ Len(wire[f]) <= Len(Stream(f)) /\ Len(wire[f]) \in Nat
        /\ Len(Stream(f)) \in Nat
        /\ \A j \in 1 .. Len(wire[f]) : wire[f][j] = Stream(f)[j]
    BY StreamTyped DEF IfmapInv
  <1>2. InOrder(Stream(f))
    BY DEF IfmapInv, OrderInv
  <1> QED
    BY <1>1, <1>2 DEF InOrder

(* Jobs and frames: none is discarded where the property says so, and what *)
(* is due of a flow without discarded jobs is at hand.                     *)
LEMMA JobsImplied ==
    ASSUME IfmapInv PROVE JobsMatchFrames
  <1>1. ~ctl.grown /\ ~Destroying => lost = <<>>
    BY DEF IfmapInv, NoneDiscarded
  <1>2. ASSUME ctl.pc # "gone", NEW f \in Flows, LostFor(f) = 0 PROVE FrameHasJob(f)
    <2>1. Len(queue[f]) = Due(f)
      BY <1>2 DEF IfmapInv, JobsInv
    <2>2. CallersAt(f, "job")
            = Cardinality({u \in Users : user[u] = [pc |-> "job", flow |-> f]})
      BY JobsTyped DEF IfmapInv, CallersAt
    <2>3. /\ JobsFor(f) \in Nat /\ WorkersAt(f, "execute") \in Nat
          /\ CallersAt(f, "job") \in Nat
      BY JobsTyped DEF IfmapInv
    <2> QED
      BY <1>2, <2>1, <2>2, <2>3 DEF Due, FrameHasJob
  <1> QED
    BY <1>1, <1>2 DEF JobsMatchFrames

(* Rows that are sent are in the ring. *)
LEMMA RowsImplied ==
    ASSUME IfmapInv PROVE TransferWithinRows
  <1> SUFFICES ASSUME wk.pc = "send", NEW f, f = send.flow
               PROVE  \/ send.n \in 1 .. Occupied(f) /\ ring[f].entry_r + send.n <= R
                      \/ send.n < 0 /\ ring[f].entry_w < ring[f].entry_r
    BY DEF TransferWithinRows
  <1>1. f \in Flows /\ RightCount(f)
    BY DEF IfmapInv, TransferInv
  <1>2. send.n \in Int /\ send.sent \in Nat
    BY Sizes DEF IfmapInv, IfmapType, SendStates
  <1>3. ring[f] \in Rings
    BY <1>1, Typed DEF IfmapInv
  <1>4. Occupied(f) \in Nat
    BY <1>1, <1>3, Occupancy, Sizes
  <1> QED
    BY <1>1, <1>2, <1>4 DEF RightCount, Wrapped

(* Nobody is stuck. *)
LEMMA StuckImplied ==
    ASSUME IfmapInv PROVE NobodyStuck
  <1>1. ASSUME wk.pc = "waiting", NEW f \in Flows, ~Empty(f)
        PROVE  \E e \in JobWorkers : jw[e].pc = "count"
    <2>1. ota = 0
      BY <1>1 DEF IfmapInv, WaitInv
    <2>2. ring[f] \in Rings
      BY Typed DEF IfmapInv
    <2>3. Occupied(f) \in 0 .. R - 1 /\ Occupied(f) # 0
      BY <1>1, <2>2, Occupancy
    <2>4. <<f, 0>> \in RowsCounted
      BY <2>3, Sizes DEF RowsCounted
    <2>5. Cardinality(RowsCounted) # 0
      BY <2>4, Countable, FS_EmptySet
    <2>6. Cardinality(Counting) # 0
      <3>1. PICK p \in Nat : p = Cardinality(RowsCounted)
        BY Countable
      <3>2. PICK c \in Nat : c = Cardinality(Counting)
        BY Countable
      <3>3. 0 = p - c
        BY <2>1, <3>1, <3>2 DEF IfmapInv, CounterMatchesRows, RowsCounted, Counting
      <3> QED
        BY <2>5, <3>1, <3>2, <3>3
    <2>7. Counting # {}
      BY <2>6, FS_EmptySet
    <2> QED
      BY <2>7 DEF Counting
  <1>2. wk.pc = "waiting" /\ ~Running
         => ctl.pc \in {"disable_signal", "stop", "unblock"}
    BY DEF IfmapInv, WaitInv, StopSignalled
  <1>3. jobs # <<>> /\ (\A i \in DOMAIN pool : jw[pool[i]].pc = "waiting")
         => \/ ctl.pc \in {"remove_tell", "gone"}
            \/ \E u \in Users : user[u].pc = "signal"
    BY DEF IfmapInv, WaitInv, JobsSignalled, AllWait
  <1>4. \A e \in JobWorkers : jw[e].pc = "full" => Full(jw[e].flow)
    BY DEF IfmapInv, WaitInv
  <1>5. ~send.locked
    BY DEF IfmapInv, TransferInv
  <1> QED
    BY <1>1, <1>2, <1>3, <1>4, <1>5 DEF NobodyStuck

-----------------------------------------------------------------------------
(* The theorems. *)

(* The invariant holds of every reachable state. *)
THEOREM IfmapInvariant == Spec => []IfmapInv
  <1>1. Init => IfmapInv
    <2> SUFFICES ASSUME Init PROVE IfmapInv
      OBVIOUS
    <2>1. IfmapType /\ TransferInv /\ DataInv
      BY InitType, DataInit
    <2>2. PoolInv
      BY PoolInit DEF Init
    <2>3. OrderInv /\ CallersInv
      BY OrderInit, CallersInit
    <2>4. JobsInv /\ NoneDiscarded /\ CounterMatchesRows /\ WaitInv
      BY JobsInit, CounterInit, WaitInit
    <2> QED
      BY <2>1, <2>2, <2>3, <2>4 DEF IfmapInv
  <1>2. IfmapInv /\ [Next]_vars => IfmapInv'
    <2> SUFFICES ASSUME IfmapInv, [Next]_vars PROVE IfmapInv'
      OBVIOUS
    <2>1. /\ IfmapType /\ PoolInv /\ TransferInv /\ DataInv /\ OrderInv /\ QueueInv
          /\ CallersInv /\ JobsInv /\ NoneDiscarded /\ CounterMatchesRows /\ WaitInv
      BY DEF IfmapInv, DataInv
    <2>2. IfmapType' /\ TransferInv'
      BY <2>1, TypeSteps
    <2>3. PoolInv'
      BY <2>1, PoolSteps
    <2>4. DataInv' /\ OrderInv'
      BY <2>1, DataSteps, OrderSteps
    <2>5. CallersInv'
      BY <2>1, CallersSteps
    <2>6. JobsInv' /\ NoneDiscarded'
      BY <2>1, <2>2, JobsSteps, DiscardSteps
    <2>7. CounterMatchesRows' /\ WaitInv'
      BY <2>1, CounterSteps, WaitSteps
    <2> QED
      BY <2>2, <2>3, <2>4, <2>5, <2>6, <2>7 DEF IfmapInv
  <1> QED
    BY <1>1, <1>2, PTL DEF Spec

(* Pointers, lists, counter and workers stay in their ranges.  A list is   *)
(* at most as much longer than its size as there are callers, and a count  *)
(* of rows to send may be below zero.                                      *)
THEOREM TypesCorrect == Spec => []TypeOK
  <1>1. IfmapInv => TypeOK
    BY TypeImplied
  <1> QED
    BY <1>1, IfmapInvariant, PTL

(* The device gets whole frames, none twice: no row of another frame       *)
(* between two rows of one.                                                *)
THEOREM WholeFrames == Spec => []WholeFramesOnce
  <1>1. IfmapInv => WholeFramesOnce
    BY WholeImplied
  <1> QED
    BY <1>1, IfmapInvariant, PTL

(* With one encoder, frames arrive in the order of acceptance. *)
THEOREM FramesOrdered == Spec => []FramesInOrder
  <1>1. IfmapInv => FramesInOrder
    BY OrderImplied
  <1> QED
    BY <1>1, IfmapInvariant, PTL

(* Every frame in a list has its job as long as none of its flow was       *)
(* discarded, and with one encoder none is before destroy.                 *)
THEOREM FramesHaveJobs == Spec => []JobsMatchFrames
  <1>1. IfmapInv => JobsMatchFrames
    BY JobsImplied
  <1> QED
    BY <1>1, IfmapInvariant, PTL

(* Whatever encoders do between the reads of entry_w, rows that are sent   *)
(* are in the ring and before the end of the buffer, and a wrong count is  *)
(* below zero.                                                             *)
THEOREM TransferStaysInRing == Spec => []TransferWithinRows
  <1>1. IfmapInv => TransferWithinRows
    BY RowsImplied
  <1> QED
    BY <1>1, IfmapInvariant, PTL

(* The counter of rows does not drift. *)
THEOREM CounterExact == Spec => []CounterMatchesRows
  <1>1. IfmapInv => CounterMatchesRows
    BY DEF IfmapInv
  <1> QED
    BY <1>1, IfmapInvariant, PTL

(* Nobody sleeps without a signal to come, and the transfer never returns  *)
(* with its lock taken, whatever encoders do between its reads of entry_w: *)
(* the pointer it compares has wrapped.  That a transfer ends is not       *)
(* said.                                                                   *)
THEOREM NobodySleepsForGood == Spec => []NobodyStuck
  <1>1. IfmapInv => NobodyStuck
    BY StuckImplied
  <1> QED
    BY <1>1, IfmapInvariant, PTL
=============================================================================
