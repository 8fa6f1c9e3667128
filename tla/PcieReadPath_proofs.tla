------------------------ MODULE PcieReadPath_proofs ------------------------
(***************************************************************************)
(* Theorems about PcieReadPath, for any number of chips, flows and         *)
(* sessions, any limit of the lists and any batches whose header can       *)
(* describe them: the header's bits lead the crawler through exactly the   *)
(* frames of a batch, no notification is lost or doubled, and the          *)
(* application gets consecutive frames.                                    *)
(***************************************************************************)
EXTENDS PcieReadPath, TLAPS, FiniteSetTheorems, SequenceTheorems

-----------------------------------------------------------------------------
(* What the state is made of. *)
CrawlerPCs == {"check", "read", "wait", "pop", "copy", "full", "ack", "gone"}
AppPCs == {"closed", "open", "abort", "clear", "join", "dummy_read",
           "dummy_ack", "free"}
Nodes == [flow : Flows, n : Nat]
Crawlers == [pc : CrawlerPCs, chip : Chips, frames : Seq(Nodes),
             triggered : SUBSET Flows, twice : SUBSET Flows,
             read_abort : BOOLEAN]
Items == [session : Nat, n : Nat]

DeviceType ==
    /\ ready \in [Chips -> BOOLEAN]
    /\ buffer \in [Chips -> Seq(Nodes)]
    /\ sent \in [Chips -> [Flows -> Nat]]
    /\ irq \in [Chips -> BOOLEAN]
    /\ fifo \in Seq(Chips)

HostType ==
    /\ rx_ctrl \in [is_abort : {0, 1}, is_read_abort : {0, 1}]
    /\ pcie \in [is_ready_exit : {0, 1}, is_read_abort : {0, 1}]
    /\ cr \in Crawlers
    /\ app \in [pc : AppPCs, chip : Chips, session : 0 .. MaxSessions]
    /\ cleared \in BOOLEAN

ListType ==
    /\ list \in [Chips -> [Flows -> Seq(Nat)]]
    /\ received \in [Chips -> [Flows -> Seq(Items)]]

StateType == DeviceType /\ HostType /\ ListType

(* Sequences that grow at the end and are taken from the front keep their  *)
(* elements' type.                                                         *)
LEMMA SeqSteps ==
    ASSUME NEW S, NEW s \in Seq(S)
    PROVE  /\ \A x \in S : Append(s, x) \in Seq(S)
           /\ s # <<>> => Head(s) \in S /\ Tail(s) \in Seq(S) /\ Head(s) = s[1]
                          /\ Len(Tail(s)) = Len(s) - 1
                          /\ \A i \in 1 .. Len(s) - 1 : Tail(s)[i] = s[i + 1]
           /\ Len(s) \in Nat /\ DOMAIN s = 1 .. Len(s)
           /\ s # <<>> <=> Len(s) >= 1
           /\ \A i \in 1 .. Len(s) : s[i] \in S
  <1>1. \A x \in S : Append(s, x) \in Seq(S)
    BY AppendProperties
  <1>2. ASSUME s # <<>>
        PROVE  /\ Head(s) \in S /\ Tail(s) \in Seq(S) /\ Head(s) = s[1]
               /\ Len(Tail(s)) = Len(s) - 1
               /\ \A i \in 1 .. Len(s) - 1 : Tail(s)[i] = s[i + 1]
    <2>1. /\ Head(s) \in S /\ Tail(s) \in Seq(S) /\ Len(Tail(s)) = Len(s) - 1
          /\ \A i \in 1 .. Len(Tail(s)) : Tail(s)[i] = s[i + 1]
      BY <1>2, HeadTailProperties
    <2> QED
      BY <2>1
  <1>3. Len(s) \in Nat /\ DOMAIN s = 1 .. Len(s)
    BY LenProperties
  <1>4. s # <<>> <=> Len(s) >= 1
    BY <1>3, EmptySeq
  <1>5. \A i \in 1 .. Len(s) : s[i] \in S
    BY ElementOfSeq
  <1> QED
    BY <1>1, <1>2, <1>3, <1>4, <1>5

(* The numbers that a batch gives its frames are natural ones. *)
LEMMA BatchCounts ==
    ASSUME NEW b \in Batches, NEW f
    PROVE  /\ b \in Seq(Flows) /\ b # <<>> /\ InBatch(b, f) \in Nat
           /\ \A i \in DOMAIN b : InBatch(SubSeq(b, 1, i), f) \in Nat
  <1>1. b \in Seq(Flows) /\ b # <<>>
    BY PcieAssumption DEF Flows
  <1>2. ASSUME NEW s \in Seq(Flows) PROVE InBatch(s, f) \in Nat
    <2> DEFINE T == {i \in DOMAIN s : s[i] = f}
    <2>1. IsFiniteSet(DOMAIN s)
      <3>1. Len(s) \in Nat /\ DOMAIN s = 1 .. Len(s)
        BY LenProperties
      <3>2. 1 \in Int /\ Len(s) \in Int
        BY <3>1
      <3> QED
        BY <3>1, <3>2, FS_Interval
    <2>2. T \in SUBSET DOMAIN s
      OBVIOUS
    <2>3. IsFiniteSet(T)
      BY <2>1, <2>2, FS_Subset
    <2> QED
      BY <2>3, FS_CardinalityType DEF InBatch
  <1>3. ASSUME NEW i \in DOMAIN b PROVE SubSeq(b, 1, i) \in Seq(Flows)
    <2>1. Len(b) \in Nat /\ DOMAIN b = 1 .. Len(b) /\ \A j \in 1 .. Len(b) : b[j] \in Flows
      BY <1>1, SeqSteps
    <2>2. i \in Int /\ 1 \in Int /\ \A j \in 1 .. i : b[j] \in Flows
      BY <1>3, <2>1
    <2> QED
      BY <2>2, SubSeqProperties
  <1> QED
    BY <1>1, <1>2, <1>3

(* The crawler that memx_pcie_create starts. *)
LEMMA NewCrawlerType == NewCrawler \in Crawlers
  <1>1. 0 \in Chips /\ <<>> \in Seq(Nodes) /\ {} \in SUBSET Flows
    BY PcieAssumption DEF Chips
  <1> QED
    BY <1>1 DEF NewCrawler, Crawlers, CrawlerPCs

(* The initial states. *)
LEMMA StateTypeInit == Init => StateType
  <1> SUFFICES ASSUME Init PROVE StateType
    OBVIOUS
  <1>1. 0 \in Chips /\ 0 \in 0 .. MaxSessions
    BY PcieAssumption DEF Chips
  <1>2. DeviceType
    BY DEF Init, DeviceType
  <1>3. ListType
    BY DEF Init, ListType, NoLists
  <1>4. cr \in Crawlers
    <2>1. cr = [NewCrawler EXCEPT !.pc = "gone"]
      BY DEF Init
    <2> QED
      BY <2>1, NewCrawlerType DEF Crawlers, CrawlerPCs
  <1>5. HostType
    BY <1>1, <1>4 DEF Init, HostType, NoFlags, NewPcie, AppPCs
  <1> QED
    BY <1>2, <1>3, <1>5 DEF StateType

(* A step of the crawler that only changes its place. *)
LEMMA CrawlerMoves ==
    ASSUME cr \in Crawlers, NEW pc \in CrawlerPCs, CrawlerGoes(pc)
    PROVE  /\ cr' \in Crawlers /\ cr'.pc = pc
           /\ cr'.chip = cr.chip /\ cr'.frames = cr.frames
           /\ cr'.triggered = cr.triggered /\ cr'.twice = cr.twice
           /\ cr'.read_abort = cr.read_abort
  BY DEF Crawlers, CrawlerGoes

(* A step of the application that only changes its place. *)
LEMMA AppMoves ==
    ASSUME app \in [pc : AppPCs, chip : Chips, session : 0 .. MaxSessions],
           NEW pc \in AppPCs, AppGoes(pc)
    PROVE  /\ app' \in [pc : AppPCs, chip : Chips, session : 0 .. MaxSessions]
           /\ app'.pc = pc /\ app'.chip = app.chip /\ app'.session = app.session
  BY DEF AppGoes

(* The crawler takes the notification of the oldest batch in the fifo. *)
LEMMA CrawlerTakes ==
    ASSUME StateType, fifo # <<>>, CrawlerTake, NEW c, c = Head(fifo)
    PROVE  /\ c \in Chips /\ fifo' = Tail(fifo) /\ fifo' \in Seq(Chips)
           /\ cr' \in Crawlers
           /\ cr'.pc = "copy" /\ cr'.chip = c /\ cr'.frames = buffer[c]
           /\ cr'.triggered = {buffer[c][i].flow : i \in DOMAIN buffer[c]}
           /\ cr'.twice = {buffer[c][i].flow : i \in {j \in DOMAIN buffer[c] :
                 \E k \in 1 .. j - 1 : buffer[c][k].flow = buffer[c][j].flow}}
           /\ cr'.read_abort = cr.read_abort
  <1>1. c \in Chips /\ Tail(fifo) \in Seq(Chips) /\ fifo' = Tail(fifo)
    BY SeqSteps DEF StateType, DeviceType, CrawlerTake
  <1> DEFINE t == {buffer[c][i].flow : i \in DOMAIN buffer[c]}
             w == {buffer[c][i].flow : i \in {j \in DOMAIN buffer[c] :
                 \E k \in 1 .. j - 1 : buffer[c][k].flow = buffer[c][j].flow}}
  <1>2. buffer[c] \in Seq(Nodes)
    BY <1>1 DEF StateType, DeviceType
  <1>3. t \in SUBSET Flows /\ w \in SUBSET Flows
    <2>1. \A i \in DOMAIN buffer[c] : buffer[c][i].flow \in Flows
      <3>1. \A i \in DOMAIN buffer[c] : buffer[c][i] \in Nodes
        BY <1>2, SeqSteps
      <3> QED
        BY <3>1 DEF Nodes
    <2> QED
      BY <2>1
  <1>4. cr' = [cr EXCEPT !.pc = "copy", !.chip = c, !.frames = buffer[c],
                         !.triggered = t, !.twice = w]
    BY DEF CrawlerTake
  <1> HIDE DEF t, w
  <1>5. /\ cr' \in Crawlers
        /\ cr'.pc = "copy" /\ cr'.chip = c /\ cr'.frames = buffer[c]
        /\ cr'.triggered = t /\ cr'.twice = w /\ cr'.read_abort = cr.read_abort
    BY <1>1, <1>2, <1>3, <1>4 DEF StateType, HostType, Crawlers, CrawlerPCs
  <1> QED
    BY <1>1, <1>5 DEF t, w

(* What is left of a batch, and of its header's bits, after a frame. *)
LEMMA CrawlerPasses ==
    ASSUME cr \in Crawlers, cr.frames # <<>>, NEW dropped \in BOOLEAN, PastNode(dropped)
    PROVE  LET left == IF Node.flow \in cr.twice THEN cr.triggered
                       ELSE {f \in cr.triggered : \E g \in cr.triggered : g < f}
           IN  /\ Node \in Nodes /\ Node = cr.frames[1]
               /\ cr' \in Crawlers /\ cr'.chip = cr.chip
               /\ cr'.frames = Tail(cr.frames)
               /\ cr'.twice = cr.twice \ {Node.flow}
               /\ cr'.triggered = left
               /\ cr'.read_abort = (cr.read_abort \/ dropped)
               /\ cr'.pc = IF left = {} THEN "ack" ELSE "copy"
  <1> DEFINE left == IF Node.flow \in cr.twice THEN cr.triggered
                     ELSE {f \in cr.triggered : \E g \in cr.triggered : g < f}
  <1>1. /\ cr.frames \in Seq(Nodes) /\ cr.triggered \in SUBSET Flows
        /\ cr.twice \in SUBSET Flows /\ cr.chip \in Chips /\ cr.read_abort \in BOOLEAN
    BY DEF Crawlers
  <1>2. Node \in Nodes /\ Node = cr.frames[1] /\ Tail(cr.frames) \in Seq(Nodes)
    BY <1>1, SeqSteps DEF Node
  <1>3. left \in SUBSET Flows /\ cr.twice \ {Node.flow} \in SUBSET Flows
    BY <1>1
  <1>4. (IF left = {} THEN "ack" ELSE "copy") \in CrawlerPCs
    BY DEF CrawlerPCs
  <1>5. (cr.read_abort \/ dropped) \in BOOLEAN
    OBVIOUS
  <1>6. cr' = [cr EXCEPT !.frames = Tail(cr.frames),
                         !.twice = cr.twice \ {Node.flow},
                         !.triggered = left,
                         !.read_abort = (cr.read_abort \/ dropped),
                         !.pc = IF left = {} THEN "ack" ELSE "copy"]
    BY DEF PastNode
  <1> DEFINE tw == cr.twice \ {Node.flow}
             ra == (cr.read_abort \/ dropped)
             to == IF left = {} THEN "ack" ELSE "copy"
             ta == Tail(cr.frames)
  <1>7. /\ left \in SUBSET Flows /\ tw \in SUBSET Flows /\ to \in CrawlerPCs
        /\ ra \in BOOLEAN /\ ta \in Seq(Nodes)
        /\ cr' = [cr EXCEPT !.frames = ta, !.twice = tw, !.triggered = left,
                            !.read_abort = ra, !.pc = to]
    BY <1>2, <1>3, <1>4, <1>5, <1>6
  <1> HIDE DEF left, tw, ra, to, ta
  <1>8. /\ cr' \in Crawlers /\ cr'.chip = cr.chip /\ cr'.frames = ta
        /\ cr'.twice = tw /\ cr'.triggered = left /\ cr'.read_abort = ra
        /\ cr'.pc = to
    BY <1>7 DEF Crawlers
  <1> QED
    BY <1>2, <1>8 DEF left, tw, ra, to, ta

(* The frames a chip writes: the next numbers of their flows. *)
LEMMA Filled ==
    ASSUME StateType, NEW c \in Chips, NEW b \in Batches, DeviceFill(c, b)
    PROVE  /\ DeviceType'
           /\ ready[c] /\ ~ready'[c] /\ irq'[c]
           /\ \A e \in Chips : e # c =>
                 /\ ready'[e] = ready[e] /\ buffer'[e] = buffer[e]
                 /\ sent'[e] = sent[e] /\ irq'[e] = irq[e]
           /\ DOMAIN buffer'[c] = DOMAIN b /\ buffer'[c] # <<>>
           /\ \A i \in DOMAIN b :
                 /\ buffer'[c][i].flow = b[i]
                 /\ buffer'[c][i].n = sent[c][b[i]] + InBatch(SubSeq(b, 1, i), b[i])
           /\ \A f \in Flows : sent'[c][f] = sent[c][f] + InBatch(b, f)
  <1> DEFINE q == [i \in DOMAIN b |->
                     [flow |-> b[i],
                      n |-> sent[c][b[i]] + InBatch(SubSeq(b, 1, i), b[i])]]
             t == [f \in Flows |-> sent[c][f] + InBatch(b, f)]
  <1>1. /\ ready[c] /\ ready' = [ready EXCEPT ![c] = FALSE]
        /\ buffer' = [buffer EXCEPT ![c] = q]
        /\ sent' = [sent EXCEPT ![c] = t]
        /\ irq' = [irq EXCEPT ![c] = TRUE]
        /\ fifo' = fifo
    BY DEF DeviceFill
  <1>2. b \in Seq(Flows) /\ b # <<>>
    BY BatchCounts
  <1>3. /\ Len(b) \in Nat /\ DOMAIN b = 1 .. Len(b) /\ Len(b) >= 1
        /\ \A i \in 1 .. Len(b) : b[i] \in Flows
    BY <1>2, SeqSteps
  <1>4. \A f \in Flows : sent[c][f] \in Nat
    BY DEF StateType, DeviceType
  <1>5. t \in [Flows -> Nat]
    <2>1. \A f \in Flows : sent[c][f] + InBatch(b, f) \in Nat
      BY <1>4, BatchCounts
    <2> QED
      BY <2>1
  <1>6. q \in Seq(Nodes) /\ DOMAIN q = DOMAIN b /\ q # <<>>
    <2>1. ASSUME NEW i \in 1 .. Len(b)
          PROVE  [flow |-> b[i], n |-> sent[c][b[i]] + InBatch(SubSeq(b, 1, i), b[i])] \in Nodes
      <3>1. b[i] \in Flows /\ sent[c][b[i]] \in Nat /\ i \in DOMAIN b
        BY <1>3, <1>4
      <3>2. InBatch(SubSeq(b, 1, i), b[i]) \in Nat
        BY <3>1, BatchCounts
      <3>3. sent[c][b[i]] + InBatch(SubSeq(b, 1, i), b[i]) \in Nat
        BY <3>1, <3>2
      <3> QED
        BY <3>1, <3>3 DEF Nodes
    <2>2. q \in [1 .. Len(b) -> Nodes]
      BY <1>3, <2>1
    <2> HIDE DEF q
    <2>3. q \in Seq(Nodes) /\ DOMAIN q = 1 .. Len(b)
      BY <1>3, <2>2, SeqDef
    <2>4. q # <<>>
      BY <1>3, <2>3
    <2> QED
      BY <1>3, <2>3, <2>4
  <1>7. \A i \in DOMAIN b : /\ q[i].flow = b[i]
                            /\ q[i].n = sent[c][b[i]] + InBatch(SubSeq(b, 1, i), b[i])
    OBVIOUS
  <1>8. \A f \in Flows : t[f] = sent[c][f] + InBatch(b, f)
    OBVIOUS
  <1> HIDE DEF q, t
  <1>9. /\ DeviceType' /\ buffer'[c] = q /\ sent'[c] = t /\ ~ready'[c] /\ irq'[c]
        /\ \A e \in Chips : e # c =>
              /\ ready'[e] = ready[e] /\ buffer'[e] = buffer[e]
              /\ sent'[e] = sent[e] /\ irq'[e] = irq[e]
    BY <1>1, <1>5, <1>6 DEF StateType, DeviceType
  <1> QED
    BY <1>1, <1>6, <1>7, <1>8, <1>9

-----------------------------------------------------------------------------
(* The four places of a notification of chip c. *)
In(s, x) == \E i \in DOMAIN s : s[i] = x
NoRepeats(s) == \A i, j \in DOMAIN s : s[i] = s[j] => i = j

InFifo(c) == In(fifo, c)
Busy(c) == cr.chip = c /\ cr.pc \in {"copy", "full", "ack"}
Dummy(c) == app.chip = c /\ app.pc = "dummy_ack"

NoneTwice(c) ==
    /\ irq[c] => ~InFifo(c) /\ ~Busy(c) /\ ~Dummy(c)
    /\ InFifo(c) => ~Busy(c) /\ ~Dummy(c)
    /\ Busy(c) => ~Dummy(c)

Announced(c) == irq[c] \/ InFifo(c) \/ Busy(c) \/ Dummy(c)

AnnounceInv ==
    /\ NoRepeats(fifo)
    /\ app.pc \in {"dummy_read", "dummy_ack", "free", "closed"} => cr.pc = "gone"
    /\ \A c \in Chips :
          /\ NoneTwice(c)
          /\ ready[c] => ~Announced(c)
          /\ ~ready[c] /\ ~cleared => Announced(c)

-----------------------------------------------------------------------------
(* A batch, or what is left of one: the frames of a flow are its newest,   *)
(* and no flow has three.                                                  *)
Later(p, i) == \E j \in DOMAIN p : j > i /\ p[j].flow = p[i].flow

(* s[f]: the number of the newest frame of flow f. *)
Numbered(s, p) ==
    \A i \in DOMAIN p :
        p[i].n = IF Later(p, i) THEN s[p[i].flow] - 1 ELSE s[p[i].flow]

AtMostTwo(p) ==
    \A i, j, k \in DOMAIN p :
        p[i].flow = p[j].flow /\ p[j].flow = p[k].flow => i = j \/ j = k \/ i = k

FlowsOf(p) == {p[i].flow : i \in DOMAIN p}
TwiceIn(p) == {p[i].flow : i \in {j \in DOMAIN p : Later(p, j)}}

BufferInv ==
    \A c \in Chips : ~ready[c] =>
        buffer[c] # <<>> /\ Numbered(sent[c], buffer[c]) /\ AtMostTwo(buffer[c])

Copying == cr.pc \in {"copy", "full"}

(* The bits of the header match the frames that are left. *)
CrawlerInv ==
    /\ Copying <=> cr.frames # <<>>
    /\ Copying =>
          /\ Numbered(sent[cr.chip], cr.frames) /\ AtMostTwo(cr.frames)
          /\ cr.twice = TwiceIn(cr.frames)
          /\ Cardinality(cr.triggered) = Cardinality(FlowsOf(cr.frames))

-----------------------------------------------------------------------------
(* The frames of chip c that the crawler has not passed. *)
Ahead(c) ==
    IF cr.chip = c /\ Copying THEN cr.frames
    ELSE IF ready[c] \/ Busy(c) \/ Dummy(c) THEN <<>> ELSE buffer[c]

(* How many of them are of flow f, and how many frames it has passed.      *)
Remaining(p, f) == IF f \in TwiceIn(p) THEN 2 ELSE IF f \in FlowsOf(p) THEN 1 ELSE 0
Passed(c, f) == sent[c][f] - Remaining(Ahead(c), f)

(* d: frames of a flow, read or to be read; top: how many the crawler has  *)
(* passed.  The application has nothing newer than that, and as long as    *)
(* the crawler of this session runs and dropped nothing, nothing older     *)
(* than that is its newest frame.                                          *)
Consecutive(d) ==
    \A k \in 1 .. Len(d) - 1 :
        /\ d[k].n < d[k + 1].n
        /\ d[k].session = d[k + 1].session => d[k + 1].n = d[k].n + 1

Ordered(d, top, session, complete) ==
    /\ \A k \in 1 .. Len(d) : d[k].n <= top /\ d[k].session <= session
    /\ Consecutive(d)
    /\ complete /\ Len(d) > 0 /\ d[Len(d)].session = session => d[Len(d)].n = top

Complete == cr.pc # "gone" /\ ~cr.read_abort

OrderInv(c, f) == Ordered(Frames(c, f), Passed(c, f), app.session, Complete)

ListInv ==
    /\ app.pc = "closed" => list = NoLists
    /\ \A c \in Chips, f \in Flows : Len(list[c][f]) <= L
    /\ \A c \in Chips, f \in Flows : OrderInv(c, f)

-----------------------------------------------------------------------------
(* Types. *)

(* One entry of a table of chips and flows is replaced. *)
LEMMA EntryReplaced ==
    ASSUME NEW S, NEW X \in [Chips -> [Flows -> S]], NEW c \in Chips, NEW f \in Flows,
           NEW s \in S, NEW Y, Y = [X EXCEPT ![c][f] = s]
    PROVE  /\ Y \in [Chips -> [Flows -> S]] /\ Y[c][f] = s
           /\ \A e \in Chips, g \in Flows : e # c \/ g # f => Y[e][g] = X[e][g]
  <1> DEFINE row == [X[c] EXCEPT ![f] = s]
  <1>1. row \in [Flows -> S] /\ row[f] = s /\ \A g \in Flows : g # f => row[g] = X[c][g]
    OBVIOUS
  <1>2. Y = [X EXCEPT ![c] = row]
    OBVIOUS
  <1> HIDE DEF row
  <1>3. /\ Y \in [Chips -> [Flows -> S]] /\ Y[c] = row
        /\ \A e \in Chips : e # c => Y[e] = X[e]
    BY <1>1, <1>2
  <1> QED
    BY <1>1, <1>3

(* A frame that is pushed goes to the end of its list. *)
LEMMA Pushed ==
    ASSUME StateType, Copying => cr.frames # <<>>, CrawlerPush
    PROVE  /\ cr.chip \in Chips /\ Node.flow \in Flows /\ Node.n \in Nat
           /\ cr.frames # <<>>
           /\ list' \in [Chips -> [Flows -> Seq(Nat)]]
           /\ cr.read_abort => list' = list
           /\ ~cr.read_abort =>
                 list'[cr.chip][Node.flow] = Append(list[cr.chip][Node.flow], Node.n)
           /\ \A e \in Chips, g \in Flows :
                 e # cr.chip \/ g # Node.flow => list'[e][g] = list[e][g]
           /\ Len(list[cr.chip][Node.flow]) < L
           /\ cr' \in Crawlers
  <1>1. cr \in Crawlers /\ cr.frames # <<>> /\ PastNode(FALSE)
    BY DEF CrawlerPush, Copying, StateType, HostType
  <1>2. cr' \in Crawlers /\ Node \in Nodes
    BY <1>1, CrawlerPasses
  <1>3. cr.chip \in Chips /\ Node.flow \in Flows /\ Node.n \in Nat
    BY <1>1, <1>2 DEF Crawlers, Nodes
  <1> DEFINE c == cr.chip
             f == Node.flow
             s == Append(list[c][f], Node.n)
  <1>4. list \in [Chips -> [Flows -> Seq(Nat)]] /\ list[c][f] \in Seq(Nat)
    BY <1>3 DEF StateType, ListType
  <1>5. s \in Seq(Nat)
    BY <1>3, <1>4, SeqSteps
  <1>6. /\ cr.read_abort => list' = list
        /\ ~cr.read_abort => list' = [list EXCEPT ![c][f] = s]
    BY DEF CrawlerPush
  <1>7. ASSUME ~cr.read_abort
        PROVE  /\ list' \in [Chips -> [Flows -> Seq(Nat)]]
               /\ list'[c][f] = s
               /\ \A e \in Chips, g \in Flows :
                     e # c \/ g # f => list'[e][g] = list[e][g]
    <2>1. c \in Chips /\ f \in Flows /\ list' = [list EXCEPT ![c][f] = s]
      BY <1>3, <1>6, <1>7
    <2> HIDE DEF s, c, f
    <2> QED
      BY <1>4, <1>5, <2>1, EntryReplaced
  <1> HIDE DEF s
  <1>8. Len(list[c][f]) < L
    <2>1. Len(list[c][f]) \in Nat /\ ~(Len(list[c][f]) >= L)
      BY <1>4, SeqSteps DEF CrawlerPush, Full
    <2> QED
      BY <2>1, PcieAssumption
  <1> QED
    BY <1>1, <1>2, <1>3, <1>4, <1>6, <1>7, <1>8 DEF s

(* stream_read takes the oldest frame of a list. *)
LEMMA WasRead ==
    ASSUME StateType, NEW c \in Chips, NEW f \in Flows, StreamRead(c, f)
    PROVE  /\ ListType'
           /\ list[c][f] # <<>> /\ list'[c][f] = Tail(list[c][f])
           /\ received'[c][f] =
                 Append(received[c][f], [session |-> app.session, n |-> Head(list[c][f])])
           /\ \A e \in Chips, g \in Flows : e # c \/ g # f =>
                 list'[e][g] = list[e][g] /\ received'[e][g] = received[e][g]
  <1> DEFINE x == [session |-> app.session, n |-> Head(list[c][f])]
             s == Append(received[c][f], x)
             t == Tail(list[c][f])
  <1>1. /\ list[c][f] # <<>> /\ list' = [list EXCEPT ![c][f] = t]
        /\ received' = [received EXCEPT ![c][f] = s]
    BY DEF StreamRead
  <1>2. /\ list \in [Chips -> [Flows -> Seq(Nat)]] /\ list[c][f] \in Seq(Nat)
        /\ received \in [Chips -> [Flows -> Seq(Items)]] /\ received[c][f] \in Seq(Items)
    BY DEF StateType, ListType
  <1>3. t \in Seq(Nat) /\ Head(list[c][f]) \in Nat
    BY <1>1, <1>2, SeqSteps
  <1>4. x \in Items
    <2>1. app.session \in Nat
      BY PcieAssumption DEF StateType, HostType
    <2> QED
      BY <1>3, <2>1 DEF Items
  <1> HIDE DEF x
  <1>5. s \in Seq(Items)
    BY <1>2, <1>4, SeqSteps
  <1> HIDE DEF s, t
  <1>6. /\ list' \in [Chips -> [Flows -> Seq(Nat)]] /\ list'[c][f] = t
        /\ \A e \in Chips, g \in Flows : e # c \/ g # f => list'[e][g] = list[e][g]
    BY <1>1, <1>2, <1>3, EntryReplaced
  <1>7. /\ received' \in [Chips -> [Flows -> Seq(Items)]] /\ received'[c][f] = s
        /\ \A e \in Chips, g \in Flows : e # c \/ g # f => received'[e][g] = received[e][g]
    BY <1>1, <1>2, <1>5, EntryReplaced
  <1> QED
    BY <1>1, <1>6, <1>7 DEF ListType, s, t, x

(* Every step keeps the types. *)
LEMMA StateTypeNext ==
    ASSUME StateType, Copying => cr.frames # <<>>, [Next]_vars
    PROVE  StateType'
  <1> USE DEF StateType, deviceVars
  <1>1. CASE UNCHANGED vars
    BY <1>1 DEF vars, DeviceType, HostType, ListType
  <1>2. ASSUME NEW c \in Chips, Isr(c) PROVE StateType'
    <2>1. \A x \in Chips : Append(fifo, x) \in Seq(Chips)
      BY SeqSteps DEF DeviceType
    <2>2. DeviceType'
      BY <1>2, <2>1 DEF Isr, DeviceType
    <2>3. HostType' /\ ListType'
      BY <1>2 DEF Isr, HostType, ListType
    <2> QED
      BY <2>2, <2>3
  <1>3. ASSUME NEW c \in Chips, NEW b \in Batches, DeviceFill(c, b) PROVE StateType'
    <2>1. HostType' /\ ListType'
      BY <1>3 DEF DeviceFill, HostType, ListType
    <2> QED
      BY <1>3, <2>1, Filled
  <1>4. CASE CrawlerCheck \/ CrawlerWake \/ CrawlerFull
    <2>1. \E pc \in CrawlerPCs : CrawlerGoes(pc)
      BY <1>4 DEF CrawlerCheck, CrawlerWake, CrawlerFull, CrawlerPCs
    <2>2. cr' \in Crawlers
      BY <2>1, CrawlerMoves DEF HostType
    <2> QED
      BY <1>4, <2>2 DEF CrawlerCheck, CrawlerWake, CrawlerFull, DeviceType, HostType, ListType
  <1>5. CASE CrawlerRead \/ CrawlerPop
    <2>1. CASE fifo # <<>>
      <3>1. CrawlerTake
        BY <1>5, <2>1 DEF CrawlerRead, CrawlerPop
      <3>2. cr' \in Crawlers /\ fifo' \in Seq(Chips)
        BY <2>1, <3>1, CrawlerTakes
      <3> QED
        BY <1>5, <3>2 DEF CrawlerRead, CrawlerPop, DeviceType, HostType, ListType
    <2>2. CASE fifo = <<>>
      <3>1. \E pc \in CrawlerPCs : CrawlerGoes(pc)
        BY <1>5, <2>2 DEF CrawlerRead, CrawlerPop, CrawlerPCs
      <3>2. cr' \in Crawlers /\ fifo' = fifo
        BY <1>5, <2>2, <3>1, CrawlerMoves DEF HostType, CrawlerRead, CrawlerPop
      <3> QED
        BY <1>5, <3>2 DEF CrawlerRead, CrawlerPop, DeviceType, HostType, ListType
    <2> QED
      BY <2>1, <2>2
  <1>6. CASE CrawlerAborted
    <2>1. cr' \in Crawlers
      BY <1>6, CrawlerMoves DEF CrawlerAborted, CrawlerPCs, HostType
    <2> QED
      BY <1>6, <2>1 DEF CrawlerAborted, DeviceType, HostType, ListType
  <1>7. CASE CrawlerPush
    <2>1. cr' \in Crawlers /\ list' \in [Chips -> [Flows -> Seq(Nat)]]
      BY <1>7, Pushed
    <2> QED
      BY <1>7, <2>1 DEF CrawlerPush, DeviceType, HostType, ListType
  <1>8. CASE CrawlerSlept
    <2>1. CASE MayDrop
      <3>1. cr' \in Crawlers
        BY <1>8, <2>1, CrawlerPasses DEF CrawlerSlept, Drop, Copying, HostType
      <3> QED
        BY <1>8, <3>1 DEF CrawlerSlept, DeviceType, HostType, ListType
    <2>2. CASE ~MayDrop
      <3>1. cr' \in Crawlers
        BY <1>8, <2>2, CrawlerMoves DEF CrawlerSlept, CrawlerPCs, HostType
      <3> QED
        BY <1>8, <3>1 DEF CrawlerSlept, DeviceType, HostType, ListType
    <2> QED
      BY <2>1, <2>2
  <1>9. CASE CrawlerAck
    <2>1. cr' \in Crawlers
      BY <1>9, CrawlerMoves DEF CrawlerAck, CrawlerPCs, HostType
    <2> QED
      BY <1>9, <2>1 DEF CrawlerAck, DeviceType, HostType, ListType
  <1>10. ASSUME NEW c \in Chips, NEW f \in Flows, StreamRead(c, f) PROVE StateType'
    <2>1. DeviceType' /\ HostType'
      BY <1>10 DEF StreamRead, DeviceType, HostType
    <2> QED
      BY <1>10, <2>1, WasRead
  <1>11. CASE Open
    <2>1. app' \in [pc : AppPCs, chip : Chips, session : 0 .. MaxSessions]
      <3>1. app.session + 1 \in 0 .. MaxSessions /\ "open" \in AppPCs
        BY <1>11, PcieAssumption DEF Open, HostType, AppPCs
      <3> QED
        BY <1>11, <3>1 DEF Open, HostType
    <2>2. cr' \in Crawlers
      BY <1>11, NewCrawlerType DEF Open
    <2> QED
      BY <1>11, <2>1, <2>2 DEF Open, NoFlags, NewPcie, DeviceType, HostType, ListType
  <1>12. CASE SetReadAbort
    BY <1>12 DEF SetReadAbort, DeviceType, HostType, ListType
  <1>13. CASE CloseExit \/ CloseAbort \/ CloseClear \/ CloseJoin \/ CloseFree
    <2>1. \E pc \in AppPCs : AppGoes(pc)
      BY <1>13 DEF CloseExit, CloseAbort, CloseClear, CloseJoin, CloseFree, AppPCs
    <2>2. app' \in [pc : AppPCs, chip : Chips, session : 0 .. MaxSessions]
      BY <2>1, AppMoves DEF HostType
    <2>3. CASE CloseExit \/ CloseAbort
      BY <2>2, <2>3 DEF CloseExit, CloseAbort, DeviceType, HostType, ListType
    <2>4. CASE CloseClear
      <3>1. fifo \in Seq(Chips) /\ <<>> \in Seq(Chips) /\ cleared \in BOOLEAN
        BY DEF DeviceType, HostType
      <3>2. CASE KeepNotifications
        BY <2>2, <2>4, <3>1, <3>2 DEF CloseClear, DeviceType, HostType, ListType
      <3>3. CASE ~KeepNotifications
        <4>1. (cleared \/ rx_ctrl.is_read_abort = 0) \in BOOLEAN
          OBVIOUS
        <4>2. fifo' = <<>> /\ cleared' \in BOOLEAN
          <5>1. /\ fifo' = <<>>
                /\ cleared' = (cleared \/ rx_ctrl.is_read_abort = 0)
            BY <2>4, <3>3 DEF CloseClear
          <5> QED
            BY <4>1, <5>1
        <4> QED
          BY <2>2, <2>4, <3>1, <4>2 DEF CloseClear, DeviceType, HostType, ListType
      <3> QED
        BY <3>2, <3>3
    <2>5. CASE CloseJoin
      BY <2>2, <2>5 DEF CloseJoin, DeviceType, HostType, ListType
    <2>6. CASE CloseFree
      <3>1. NoLists \in [Chips -> [Flows -> Seq(Nat)]]
        BY DEF NoLists
      <3> QED
        BY <2>2, <2>6, <3>1 DEF CloseFree, DeviceType, HostType, ListType
    <2> QED
      BY <1>13, <2>3, <2>4, <2>5, <2>6
  <1>14. CASE CloseDummyRead
    <2>1. /\ fifo' \in Seq(Chips)
          /\ app' \in [pc : AppPCs, chip : Chips, session : 0 .. MaxSessions]
      <3>1. CASE fifo = <<>>
        BY <1>14, <3>1, AppMoves DEF CloseDummyRead, AppPCs, DeviceType, HostType
      <3>2. CASE fifo # <<>>
        <4>1. Head(fifo) \in Chips /\ Tail(fifo) \in Seq(Chips) /\ "dummy_ack" \in AppPCs
          BY <3>2, SeqSteps DEF DeviceType, AppPCs
        <4> QED
          BY <1>14, <3>2, <4>1 DEF CloseDummyRead, DeviceType, HostType
      <3> QED
        BY <3>1, <3>2
    <2> QED
      BY <1>14, <2>1 DEF CloseDummyRead, DeviceType, HostType, ListType
  <1>15. CASE CloseDummyAck
    <2>1. app' \in [pc : AppPCs, chip : Chips, session : 0 .. MaxSessions]
      BY <1>15, AppMoves DEF CloseDummyAck, AppPCs, HostType
    <2> QED
      BY <1>15, <2>1 DEF CloseDummyAck, DeviceType, HostType, ListType
  <1> QED
    BY <1>1, <1>2, <1>3, <1>4, <1>5, <1>6, <1>7, <1>8, <1>9, <1>10, <1>11,
       <1>12, <1>13, <1>14, <1>15 DEF Next, Crawler, Close

-----------------------------------------------------------------------------
(* Notifications. *)

(* What is in a sequence to which an element was appended. *)
LEMMA InAppended ==
    ASSUME NEW S, NEW s \in Seq(S), NEW x \in S
    PROVE  /\ \A y : In(Append(s, x), y) <=> In(s, y) \/ y = x
           /\ NoRepeats(s) /\ ~In(s, x) => NoRepeats(Append(s, x))
  <1> DEFINE t == Append(s, x)
  <1>1. /\ Len(s) \in Nat /\ DOMAIN s = 1 .. Len(s)
        /\ t \in Seq(S) /\ Len(t) = Len(s) + 1
        /\ \A i \in 1 .. Len(s) : t[i] = s[i]
        /\ t[Len(s) + 1] = x
    BY SeqSteps, AppendProperties
  <1>2. DOMAIN t = 1 .. Len(s) + 1
    BY <1>1, LenProperties
  <1> HIDE DEF t
  <1>3. DOMAIN t = DOMAIN s \cup {Len(s) + 1} /\ Len(s) + 1 \notin DOMAIN s
    BY <1>1, <1>2
  <1>4. \A y : In(t, y) <=> In(s, y) \/ y = x
    BY <1>1, <1>3 DEF In
  <1>5. NoRepeats(s) /\ ~In(s, x) => NoRepeats(t)
    BY <1>1, <1>3 DEF In, NoRepeats
  <1> QED
    BY <1>4, <1>5 DEF t

(* What is in a sequence whose first element was taken. *)
LEMMA InTail ==
    ASSUME NEW S, NEW s \in Seq(S), s # <<>>
    PROVE  /\ \A y : In(s, y) <=> In(Tail(s), y) \/ y = Head(s)
           /\ NoRepeats(s) => NoRepeats(Tail(s)) /\ ~In(Tail(s), Head(s))
  <1> DEFINE t == Tail(s)
             x == Head(s)
  <1>1. /\ Len(s) \in Nat /\ DOMAIN s = 1 .. Len(s) /\ Len(s) >= 1
        /\ t \in Seq(S) /\ Len(t) = Len(s) - 1 /\ x = s[1]
        /\ \A i \in 1 .. Len(s) - 1 : t[i] = s[i + 1]
    BY SeqSteps
  <1>2. DOMAIN t = 1 .. Len(s) - 1
    BY <1>1, LenProperties
  <1> HIDE DEF t, x
  <1>3. ASSUME NEW y PROVE In(s, y) <=> In(t, y) \/ y = x
    <2>1. ASSUME In(s, y) PROVE In(t, y) \/ y = x
      <3>1. PICK i \in 1 .. Len(s) : s[i] = y
        BY <1>1, <2>1 DEF In
      <3>2. CASE i = 1
        BY <1>1, <3>1, <3>2
      <3>3. CASE i # 1
        <4>1. i - 1 \in 1 .. Len(s) - 1 /\ i - 1 + 1 = i
          BY <1>1, <3>3
        <4> QED
          BY <1>1, <1>2, <3>1, <4>1 DEF In
      <3> QED
        BY <3>2, <3>3
    <2>2. ASSUME In(t, y) PROVE In(s, y)
      <3>1. PICK i \in 1 .. Len(s) - 1 : t[i] = y
        BY <1>2, <2>2 DEF In
      <3>2. i + 1 \in 1 .. Len(s) /\ s[i + 1] = y
        BY <1>1, <3>1
      <3> QED
        BY <1>1, <3>2 DEF In
    <2>3. In(s, x)
      <3>1. 1 \in DOMAIN s
        BY <1>1
      <3> QED
        BY <1>1, <3>1 DEF In
    <2> QED
      BY <2>1, <2>2, <2>3
  <1>4. ASSUME NoRepeats(s) PROVE NoRepeats(t) /\ ~In(t, x)
    <2>1. ASSUME NEW i \in 1 .. Len(s) - 1, NEW j \in 1 .. Len(s) - 1, t[i] = t[j]
          PROVE  i = j
      <3>1. i + 1 \in DOMAIN s /\ j + 1 \in DOMAIN s /\ s[i + 1] = s[j + 1]
        BY <1>1, <2>1
      <3>2. i + 1 = j + 1
        BY <1>4, <3>1 DEF NoRepeats
      <3> QED
        BY <1>1, <3>2
    <2>2. ASSUME NEW i \in 1 .. Len(s) - 1, t[i] = x PROVE FALSE
      <3>1. i + 1 \in DOMAIN s /\ 1 \in DOMAIN s /\ s[i + 1] = s[1]
        BY <1>1, <2>2
      <3>2. i + 1 = 1
        BY <1>4, <3>1 DEF NoRepeats
      <3> QED
        BY <1>1, <3>2
    <2> QED
      BY <1>2, <2>1, <2>2 DEF NoRepeats, In
  <1> QED
    BY <1>3, <1>4 DEF t, x

(* Notifications in the fifo and others of further chips are at most NC. *)
LEMMA RoomFor ==
    ASSUME NEW s \in Seq(Chips), NoRepeats(s), NEW T \in SUBSET Chips,
           \A c \in T : ~In(s, c)
    PROVE  IsFiniteSet(T) /\ Len(s) + Cardinality(T) <= NC
  <1>1. IsFiniteSet(Chips) /\ Cardinality(Chips) = NC
    <2>1. 0 \in Int /\ NC - 1 \in Int /\ NC \in Nat /\ NC >= 1
      BY PcieAssumption
    <2>2. /\ IsFiniteSet(0 .. NC - 1)
          /\ Cardinality(0 .. NC - 1) = IF 0 > NC - 1 THEN 0 ELSE NC - 1 - 0 + 1
      BY <2>1, FS_Interval
    <2> QED
      BY <2>1, <2>2 DEF Chips
  <1>2. IsFiniteSet(T) /\ Cardinality(T) \in Nat
    BY <1>1, FS_Subset, FS_CardinalityType
  <1> DEFINE D == 1 .. Len(s)
             E == Chips \ T
  <1>3. /\ Len(s) \in Nat /\ s \in [D -> Chips] /\ DOMAIN s = D
        /\ IsFiniteSet(D) /\ Cardinality(D) = Len(s)
    <2>1. Len(s) \in Nat /\ s \in [D -> Chips] /\ DOMAIN s = D
      BY LenProperties
    <2>2. 1 \in Int /\ Len(s) \in Int
      BY <2>1
    <2>3. /\ IsFiniteSet(1 .. Len(s))
          /\ Cardinality(1 .. Len(s)) = IF 1 > Len(s) THEN 0 ELSE Len(s) - 1 + 1
      BY <2>2, FS_Interval
    <2> QED
      BY <2>1, <2>3
  <1>4. IsFiniteSet(E) /\ E \in SUBSET Chips /\ Cardinality(E) \in Nat
    BY <1>1, FS_Subset, FS_CardinalityType
  <1>5. s \in Injection(D, E)
    <2>1. \A i \in D : s[i] \in E
      BY <1>3 DEF In
    <2>2. \A i, j \in D : s[i] = s[j] => i = j
      BY <1>3 DEF NoRepeats
    <2>3. s \in [D -> E]
      BY <1>3, <2>1
    <2> HIDE DEF D, E
    <2> QED
      BY <2>2, <2>3 DEF Injection, IsInjective
  <1>6. Cardinality(D) <= Cardinality(E)
    BY <1>4, <1>5, FS_Injection
  <1>7. Cardinality(E) = NC - Cardinality(T)
    <2>1. T \cup E = Chips /\ T \cap E = {}
      OBVIOUS
    <2>2. Cardinality(T \cup E) = Cardinality(T) + Cardinality(E) - Cardinality(T \cap E)
      BY <1>2, <1>4, FS_Union
    <2>3. Cardinality(T \cap E) = 0
      BY <2>1, FS_EmptySet
    <2>4. NC = Cardinality(T) + Cardinality(E) - 0
      BY <1>1, <2>1, <2>2, <2>3
    <2> HIDE DEF E
    <2> QED
      BY <1>2, <1>4, <2>4, PcieAssumption
  <1> HIDE DEF D, E
  <1> QED
    BY <1>2, <1>3, <1>4, <1>6, <1>7, PcieAssumption

(* Steps that leave every notification where it is. *)
LEMMA AnnounceStays ==
    ASSUME AnnounceInv, ready' = ready, irq' = irq, fifo' = fifo, cleared' = cleared,
           \A c \in Chips : (Busy(c)' <=> Busy(c)) /\ (Dummy(c)' <=> Dummy(c)),
           app'.pc \in {"dummy_read", "dummy_ack", "free", "closed"} => cr'.pc = "gone"
    PROVE  AnnounceInv'
  <1>1. NoRepeats(fifo')
    BY DEF AnnounceInv
  <1>2. ASSUME NEW c \in Chips
        PROVE  /\ NoneTwice(c)'
               /\ ready'[c] => ~Announced(c)'
               /\ ~ready'[c] /\ ~cleared' => Announced(c)'
    <2>1. /\ NoneTwice(c) /\ (ready[c] => ~Announced(c))
          /\ ~ready[c] /\ ~cleared => Announced(c)
      BY DEF AnnounceInv
    <2>2. /\ InFifo(c)' <=> InFifo(c)
          /\ irq'[c] = irq[c] /\ ready'[c] = ready[c] /\ cleared' = cleared
          /\ Busy(c)' <=> Busy(c)
          /\ Dummy(c)' <=> Dummy(c)
      BY DEF InFifo
    <2> QED
      BY <2>1, <2>2 DEF NoneTwice, Announced
  <1> QED
    BY <1>1, <1>2 DEF AnnounceInv

(* Every step keeps a chip's notification in one place. *)
LEMMA AnnounceNext ==
    ASSUME StateType, AnnounceInv, Copying <=> cr.frames # <<>>, [Next]_vars
    PROVE  AnnounceInv'
  <1> USE DEF deviceVars
  <1>a. /\ ready \in [Chips -> BOOLEAN] /\ irq \in [Chips -> BOOLEAN]
        /\ fifo \in Seq(Chips) /\ cr \in Crawlers /\ cleared \in BOOLEAN
        /\ app \in [pc : AppPCs, chip : Chips, session : 0 .. MaxSessions]
    BY DEF StateType, DeviceType, HostType
  <1>b. /\ NoRepeats(fifo)
        /\ app.pc \in {"dummy_read", "dummy_ack", "free", "closed"} => cr.pc = "gone"
        /\ \A c \in Chips : /\ NoneTwice(c) /\ (ready[c] => ~Announced(c))
                            /\ ~ready[c] /\ ~cleared => Announced(c)
    BY DEF AnnounceInv
  <1>1. CASE UNCHANGED vars
    BY <1>1, AnnounceStays DEF vars, AnnounceInv, Busy, Dummy
  <1>2. ASSUME NEW c \in Chips, Isr(c) PROVE AnnounceInv'
    <2>1. /\ irq[c] /\ irq' = [irq EXCEPT ![c] = FALSE] /\ ready' = ready
          /\ cr' = cr /\ app' = app /\ cleared' = cleared
      BY <1>2 DEF Isr
    <2>2. ~In(fifo, c) /\ ~Busy(c) /\ ~Dummy(c)
      BY <1>b, <2>1 DEF NoneTwice, InFifo
    <2>3. Len(fifo) < NC
      <3>1. {c} \in SUBSET Chips /\ \A e \in {c} : ~In(fifo, e)
        BY <2>2
      <3>2. Len(fifo) + Cardinality({c}) <= NC
        BY <1>a, <1>b, <3>1, RoomFor
      <3>3. Cardinality({c}) = 1 /\ Len(fifo) \in Nat /\ NC \in Nat
        BY <1>a, FS_Singleton, SeqSteps, PcieAssumption
      <3> QED
        BY <3>2, <3>3
    <2>4. fifo' = Append(fifo, c)
      BY <1>2, <2>3 DEF Isr
    <2>5. /\ \A y : In(fifo', y) <=> In(fifo, y) \/ y = c
          /\ NoRepeats(fifo')
      BY <1>a, <1>b, <2>2, <2>4, InAppended
    <2>6. ASSUME NEW e \in Chips
          PROVE  /\ NoneTwice(e)'
                 /\ ready'[e] => ~Announced(e)'
                 /\ ~ready'[e] /\ ~cleared' => Announced(e)'
      <3>1. /\ InFifo(e)' <=> InFifo(e) \/ e = c
            /\ Busy(e)' <=> Busy(e)
            /\ Dummy(e)' <=> Dummy(e)
            /\ ready'[e] = ready[e] /\ cleared' = cleared
            /\ e # c => irq'[e] = irq[e]
            /\ ~irq'[c]
        BY <1>a, <2>1, <2>5 DEF InFifo, Busy, Dummy
      <3>2. /\ NoneTwice(e) /\ (ready[e] => ~Announced(e))
            /\ ~ready[e] /\ ~cleared => Announced(e)
        BY <1>b
      <3> QED
        BY <2>1, <2>2, <3>1, <3>2 DEF NoneTwice, Announced, InFifo
    <2> QED
      BY <1>b, <2>1, <2>5, <2>6 DEF AnnounceInv
  <1>3. ASSUME NEW c \in Chips, NEW b \in Batches, DeviceFill(c, b) PROVE AnnounceInv'
    <2>1. /\ ready[c] /\ ~ready'[c] /\ irq'[c] /\ fifo' = fifo
          /\ \A e \in Chips : e # c => ready'[e] = ready[e] /\ irq'[e] = irq[e]
          /\ cr' = cr /\ app' = app /\ cleared' = cleared
      <3>1. /\ ready[c] /\ ~ready'[c] /\ irq'[c]
            /\ \A e \in Chips : e # c => ready'[e] = ready[e] /\ irq'[e] = irq[e]
        BY <1>3, Filled
      <3>2. fifo' = fifo /\ cr' = cr /\ app' = app /\ cleared' = cleared
        BY <1>3 DEF DeviceFill
      <3> QED
        BY <3>1, <3>2
    <2>2. ASSUME NEW e \in Chips
          PROVE  /\ NoneTwice(e)'
                 /\ ready'[e] => ~Announced(e)'
                 /\ ~ready'[e] /\ ~cleared' => Announced(e)'
      <3>1. /\ InFifo(e)' <=> InFifo(e)
            /\ Busy(e)' <=> Busy(e)
            /\ Dummy(e)' <=> Dummy(e)
            /\ e # c => irq'[e] = irq[e] /\ ready'[e] = ready[e]
            /\ cleared' = cleared
        BY <2>1 DEF InFifo, Busy, Dummy
      <3>2. /\ NoneTwice(e) /\ (ready[e] => ~Announced(e))
            /\ ~ready[e] /\ ~cleared => Announced(e)
        BY <1>b
      <3> QED
        BY <2>1, <3>1, <3>2 DEF NoneTwice, Announced
    <2> QED
      BY <1>b, <2>1, <2>2 DEF AnnounceInv
  <1>4. CASE CrawlerCheck \/ CrawlerAborted \/ CrawlerWake \/ CrawlerFull
    <2>1. \E pc \in CrawlerPCs : /\ CrawlerGoes(pc)
                                 /\ pc \in {"copy", "full", "ack"} <=>
                                       cr.pc \in {"copy", "full", "ack"}
      BY <1>4 DEF CrawlerCheck, CrawlerAborted, CrawlerWake, CrawlerFull, CrawlerPCs
    <2>2. \A c \in Chips : Busy(c)' <=> Busy(c)
      BY <1>a, <2>1, CrawlerMoves DEF Busy
    <2>3. /\ ready' = ready /\ irq' = irq /\ fifo' = fifo /\ cleared' = cleared
          /\ app' = app /\ cr.pc # "gone"
      BY <1>4 DEF CrawlerCheck, CrawlerAborted, CrawlerWake, CrawlerFull
    <2> QED
      BY <1>b, <2>2, <2>3, AnnounceStays DEF Dummy
  <1>5. CASE CrawlerRead \/ CrawlerPop
    <2>1. /\ ready' = ready /\ irq' = irq /\ cleared' = cleared /\ app' = app
          /\ cr.pc \in {"read", "pop"}
      BY <1>5 DEF CrawlerRead, CrawlerPop
    <2>2. CASE fifo = <<>>
      <3>1. fifo' = fifo /\ \E pc \in {"wait", "gone"} : CrawlerGoes(pc)
        BY <1>5, <2>2 DEF CrawlerRead, CrawlerPop
      <3>2. \A c \in Chips : Busy(c)' <=> Busy(c)
        <4>1. PICK pc \in {"wait", "gone"} : CrawlerGoes(pc)
          BY <3>1
        <4>2. pc \in CrawlerPCs
          BY DEF CrawlerPCs
        <4>3. cr'.pc = pc
          BY <1>a, <4>1, <4>2, CrawlerMoves
        <4> QED
          BY <2>1, <4>3 DEF Busy
      <3> QED
        BY <1>b, <2>1, <3>1, <3>2, AnnounceStays DEF Dummy
    <2>3. CASE fifo # <<>>
      <3>1. CrawlerTake
        BY <1>5, <2>3 DEF CrawlerRead, CrawlerPop
      <3>2. PICK c : c = Head(fifo)
        OBVIOUS
      <3>3. /\ c \in Chips /\ fifo' = Tail(fifo) /\ cr'.pc = "copy" /\ cr'.chip = c
        BY <2>3, <3>1, <3>2, CrawlerTakes
      <3>4. /\ \A y : In(fifo, y) <=> In(fifo', y) \/ y = c
            /\ NoRepeats(fifo') /\ ~In(fifo', c)
        BY <1>a, <1>b, <2>3, <3>2, <3>3, InTail
      <3>5. ASSUME NEW e \in Chips
            PROVE  /\ NoneTwice(e)'
                   /\ ready'[e] => ~Announced(e)'
                   /\ ~ready'[e] /\ ~cleared' => Announced(e)'
        <4>1. /\ InFifo(e) <=> InFifo(e)' \/ e = c
              /\ e = c => ~InFifo(e)'
              /\ Busy(e)' <=> e = c
              /\ ~Busy(e)
              /\ Dummy(e)' <=> Dummy(e)
              /\ irq'[e] = irq[e] /\ ready'[e] = ready[e] /\ cleared' = cleared
          BY <2>1, <3>3, <3>4 DEF InFifo, Busy, Dummy
        <4>2. /\ NoneTwice(e) /\ (ready[e] => ~Announced(e))
              /\ ~ready[e] /\ ~cleared => Announced(e)
          BY <1>b
        <4> QED
          BY <4>1, <4>2 DEF NoneTwice, Announced
      <3> QED
        BY <1>b, <2>1, <3>4, <3>5 DEF AnnounceInv
    <2> QED
      BY <2>2, <2>3
  <1>6. CASE CrawlerPush \/ CrawlerSlept
    <2>1. /\ ready' = ready /\ irq' = irq /\ fifo' = fifo /\ cleared' = cleared
          /\ app' = app /\ cr.pc \in {"copy", "full"} /\ cr.frames # <<>>
      BY <1>6 DEF CrawlerPush, CrawlerSlept, Copying
    <2>2. cr'.chip = cr.chip /\ cr'.pc \in {"copy", "full", "ack"}
      <3>1. CASE CrawlerGoes("copy")
        BY <1>a, <3>1, CrawlerMoves DEF CrawlerPCs
      <3>2. CASE \E dropped \in BOOLEAN : PastNode(dropped)
        <4>1. cr'.chip = cr.chip /\ (cr'.pc = "ack" \/ cr'.pc = "copy")
          BY <1>a, <2>1, <3>2, CrawlerPasses
        <4> QED
          BY <4>1
      <3> QED
        BY <1>6, <3>1, <3>2 DEF CrawlerPush, CrawlerSlept, Drop
    <2>3. \A c \in Chips : Busy(c)' <=> Busy(c)
      BY <2>1, <2>2 DEF Busy
    <2> QED
      BY <1>b, <2>1, <2>3, AnnounceStays DEF Dummy
  <1>7. CASE CrawlerAck
    <2>1. PICK c \in Chips : c = cr.chip
      BY <1>a DEF Crawlers
    <2>2. /\ ready' = [ready EXCEPT ![c] = TRUE] /\ irq' = irq /\ fifo' = fifo
          /\ cleared' = cleared /\ app' = app /\ cr.pc = "ack" /\ CrawlerGoes("check")
      BY <1>7, <2>1 DEF CrawlerAck
    <2>3. cr'.pc = "check"
      BY <1>a, <2>2, CrawlerMoves DEF CrawlerPCs
    <2>4. ASSUME NEW e \in Chips
          PROVE  /\ NoneTwice(e)'
                 /\ ready'[e] => ~Announced(e)'
                 /\ ~ready'[e] /\ ~cleared' => Announced(e)'
      <3>1. /\ InFifo(e)' <=> InFifo(e)
            /\ Busy(e) <=> e = c
            /\ ~Busy(e)'
            /\ Dummy(e)' <=> Dummy(e)
            /\ irq'[e] = irq[e] /\ cleared' = cleared
            /\ e # c => ready'[e] = ready[e]
        BY <1>a, <2>1, <2>2, <2>3 DEF InFifo, Busy, Dummy
      <3>2. /\ NoneTwice(e) /\ (ready[e] => ~Announced(e))
            /\ ~ready[e] /\ ~cleared => Announced(e)
        BY <1>b
      <3>3. e = c => ready'[e]
        BY <1>a, <2>2
      <3> QED
        BY <3>1, <3>2, <3>3 DEF NoneTwice, Announced
    <2> QED
      BY <1>b, <2>2, <2>3, <2>4 DEF AnnounceInv
  <1>8. CASE Open
    <2>1. /\ ready' = ready /\ irq' = irq /\ fifo' = fifo /\ cleared' = cleared
          /\ cr.pc = "gone" /\ cr' = NewCrawler
          /\ app.pc = "closed" /\ app'.pc = "open"
      BY <1>8, <1>a, <1>b DEF Open
    <2>2. cr'.pc = "check"
      BY <2>1 DEF NewCrawler
    <2> QED
      BY <2>1, <2>2, AnnounceStays DEF Busy, Dummy
  <1>9. CASE SetReadAbort \/ \E c \in Chips : \E f \in Flows : StreamRead(c, f)
    <2>1. /\ ready' = ready /\ irq' = irq /\ fifo' = fifo /\ cleared' = cleared
          /\ cr' = cr /\ app' = app
      BY <1>9 DEF SetReadAbort, StreamRead
    <2> QED
      BY <1>b, <2>1, AnnounceStays DEF Busy, Dummy
  <1>10. CASE CloseExit \/ CloseAbort \/ CloseJoin \/ CloseFree
    <2>1. /\ ready' = ready /\ irq' = irq /\ fifo' = fifo /\ cleared' = cleared
          /\ cr' = cr /\ app.pc # "dummy_ack"
      BY <1>10 DEF CloseExit, CloseAbort, CloseJoin, CloseFree
    <2>2. \E pc \in {"abort", "clear", "dummy_read", "free", "closed"} :
             /\ AppGoes(pc)
             /\ pc \in {"dummy_read", "free", "closed"} => cr.pc = "gone"
      BY <1>10, <1>b DEF CloseExit, CloseAbort, CloseJoin, CloseFree
    <2>3. /\ app'.pc \in {"dummy_read", "dummy_ack", "free", "closed"} => cr'.pc = "gone"
          /\ app'.pc # "dummy_ack"
      <3>1. PICK pc \in {"abort", "clear", "dummy_read", "free", "closed"} :
               /\ AppGoes(pc)
               /\ pc \in {"dummy_read", "free", "closed"} => cr.pc = "gone"
        BY <2>2
      <3>2. pc \in AppPCs
        BY DEF AppPCs
      <3>3. app'.pc = pc
        BY <1>a, <3>1, <3>2, AppMoves
      <3> QED
        BY <2>1, <3>1, <3>3
    <2> QED
      BY <2>1, <2>3, AnnounceStays DEF Busy, Dummy
  <1>11. CASE CloseClear
    <2>1. /\ ready' = ready /\ irq' = irq /\ cr' = cr /\ app.pc = "clear"
          /\ AppGoes("join")
      BY <1>11 DEF CloseClear
    <2>2. app'.pc = "join"
      BY <1>a, <2>1, AppMoves DEF AppPCs
    <2>3. CASE KeepNotifications
      <3>1. fifo' = fifo /\ cleared' = cleared
        BY <1>11, <2>3 DEF CloseClear
      <3> QED
        BY <2>1, <2>2, <3>1, AnnounceStays DEF Busy, Dummy
    <2>4. CASE ~KeepNotifications
      <3>1. fifo' = <<>> /\ cleared'
        <4>1. rx_ctrl.is_read_abort = 0
          BY <2>4 DEF KeepNotifications, StateType, HostType
        <4>2. fifo' = <<>> /\ cleared' = (cleared \/ rx_ctrl.is_read_abort = 0)
          BY <1>11, <2>4 DEF CloseClear
        <4> QED
          BY <4>1, <4>2
      <3>2. NoRepeats(fifo') /\ \A y : ~In(fifo', y)
        <4>1. DOMAIN fifo' = {}
          BY <3>1
        <4> QED
          BY <4>1 DEF NoRepeats, In
      <3>3. ASSUME NEW e \in Chips
            PROVE  /\ NoneTwice(e)'
                   /\ ready'[e] => ~Announced(e)'
                   /\ ~ready'[e] /\ ~cleared' => Announced(e)'
        <4>1. /\ ~InFifo(e)'
              /\ Busy(e)' <=> Busy(e)
              /\ ~Dummy(e)'
              /\ irq'[e] = irq[e] /\ ready'[e] = ready[e] /\ cleared'
          BY <2>1, <2>2, <3>1, <3>2 DEF InFifo, Busy, Dummy
        <4>2. NoneTwice(e) /\ (ready[e] => ~Announced(e))
          BY <1>b
        <4> QED
          BY <4>1, <4>2 DEF NoneTwice, Announced
      <3> QED
        BY <1>b, <2>1, <2>2, <3>2, <3>3 DEF AnnounceInv
    <2> QED
      BY <2>3, <2>4
  <1>12. CASE CloseDummyRead
    <2>1. /\ ready' = ready /\ irq' = irq /\ cr' = cr /\ cleared' = cleared
          /\ app.pc = "dummy_read" /\ cr.pc = "gone"
      BY <1>12, <1>b DEF CloseDummyRead
    <2>2. CASE fifo = <<>>
      <3>1. fifo' = fifo /\ AppGoes("free")
        BY <1>12, <2>2 DEF CloseDummyRead
      <3>2. app'.pc = "free"
        BY <1>a, <3>1, AppMoves DEF AppPCs
      <3> QED
        BY <2>1, <3>1, <3>2, AnnounceStays DEF Busy, Dummy
    <2>3. CASE fifo # <<>>
      <3>1. PICK c : c = Head(fifo)
        OBVIOUS
      <3>2. /\ c \in Chips /\ fifo' = Tail(fifo)
            /\ app' = [app EXCEPT !.pc = "dummy_ack", !.chip = c]
        BY <1>a, <1>12, <2>3, <3>1, SeqSteps DEF CloseDummyRead
      <3>3. app'.pc = "dummy_ack" /\ app'.chip = c
        BY <1>a, <3>2
      <3>4. /\ \A y : In(fifo, y) <=> In(fifo', y) \/ y = c
            /\ NoRepeats(fifo') /\ ~In(fifo', c)
        BY <1>a, <1>b, <2>3, <3>1, <3>2, InTail
      <3>5. ASSUME NEW e \in Chips
            PROVE  /\ NoneTwice(e)'
                   /\ ready'[e] => ~Announced(e)'
                   /\ ~ready'[e] /\ ~cleared' => Announced(e)'
        <4>1. /\ InFifo(e) <=> InFifo(e)' \/ e = c
              /\ e = c => ~InFifo(e)'
              /\ Dummy(e)' <=> e = c
              /\ ~Busy(e) /\ ~Busy(e)' /\ ~Dummy(e)
              /\ irq'[e] = irq[e] /\ ready'[e] = ready[e] /\ cleared' = cleared
          BY <2>1, <3>3, <3>4 DEF InFifo, Busy, Dummy
        <4>2. /\ NoneTwice(e) /\ (ready[e] => ~Announced(e))
              /\ ~ready[e] /\ ~cleared => Announced(e)
          BY <1>b
        <4> QED
          BY <4>1, <4>2 DEF NoneTwice, Announced
      <3> QED
        BY <1>b, <2>1, <3>4, <3>5 DEF AnnounceInv
    <2> QED
      BY <2>2, <2>3
  <1>13. CASE CloseDummyAck
    <2>1. PICK c \in Chips : c = app.chip
      BY <1>a
    <2>2. /\ ready' = [ready EXCEPT ![c] = TRUE] /\ irq' = irq /\ fifo' = fifo
          /\ cleared' = cleared /\ cr' = cr /\ app.pc = "dummy_ack" /\ AppGoes("dummy_read")
      BY <1>13, <2>1 DEF CloseDummyAck
    <2>3. app'.pc = "dummy_read" /\ cr.pc = "gone"
      BY <1>a, <1>b, <2>2, AppMoves DEF AppPCs
    <2>4. ASSUME NEW e \in Chips
          PROVE  /\ NoneTwice(e)'
                 /\ ready'[e] => ~Announced(e)'
                 /\ ~ready'[e] /\ ~cleared' => Announced(e)'
      <3>1. /\ InFifo(e)' <=> InFifo(e)
            /\ Dummy(e) <=> e = c
            /\ ~Busy(e)' /\ ~Busy(e) /\ ~Dummy(e)'
            /\ irq'[e] = irq[e] /\ cleared' = cleared
            /\ e # c => ready'[e] = ready[e]
        BY <1>a, <2>1, <2>2, <2>3 DEF InFifo, Busy, Dummy
      <3>2. /\ NoneTwice(e) /\ (ready[e] => ~Announced(e))
            /\ ~ready[e] /\ ~cleared => Announced(e)
        BY <1>b
      <3>3. e = c => ready'[e]
        BY <1>a, <2>2
      <3> QED
        BY <3>1, <3>2, <3>3 DEF NoneTwice, Announced
    <2> QED
      BY <1>b, <2>2, <2>3, <2>4 DEF AnnounceInv
  <1> QED
    BY <1>1, <1>2, <1>3, <1>4, <1>5, <1>6, <1>7, <1>8, <1>9, <1>10, <1>11,
       <1>12, <1>13 DEF Next, Crawler, Close

-----------------------------------------------------------------------------
(* Batches. *)

(* Dropping the first frame of a batch removes its flow from the flows     *)
(* with two frames if it was there, else from the flows.                   *)
LEMMA PastHead ==
    ASSUME NEW p \in Seq(Nodes), p # <<>>, AtMostTwo(p), NEW s, Numbered(s, p),
           NEW f, f = Head(p).flow, NEW q, q = Tail(p)
    PROVE  /\ q \in Seq(Nodes) /\ Numbered(s, q) /\ AtMostTwo(q)
           /\ TwiceIn(q) = TwiceIn(p) \ {f}
           /\ FlowsOf(q) = IF f \in TwiceIn(p) THEN FlowsOf(p) ELSE FlowsOf(p) \ {f}
           /\ f \in FlowsOf(p)
           /\ f \in TwiceIn(p) <=> f \in FlowsOf(q)
           /\ Head(p).n = IF f \in TwiceIn(p) THEN s[f] - 1 ELSE s[f]
  <1>1. /\ Len(p) \in Nat /\ DOMAIN p = 1 .. Len(p) /\ Len(p) >= 1
        /\ q \in Seq(Nodes) /\ Len(q) = Len(p) - 1 /\ Head(p) = p[1]
        /\ \A i \in 1 .. Len(p) - 1 : q[i] = p[i + 1]
    BY SeqSteps
  <1>2. DOMAIN q = 1 .. Len(p) - 1 /\ 1 \in DOMAIN p /\ p[1].flow = f
    BY <1>1, LenProperties
  <1>3. \A i \in DOMAIN q : i + 1 \in DOMAIN p /\ i + 1 > 1 /\ q[i] = p[i + 1]
    BY <1>1, <1>2
  <1>4. \A j \in DOMAIN p : j > 1 => j - 1 \in DOMAIN q /\ q[j - 1] = p[j]
    <2>1. ASSUME NEW j \in DOMAIN p, j > 1 PROVE j - 1 \in DOMAIN q /\ q[j - 1] = p[j]
      <3>1. j - 1 \in 1 .. Len(p) - 1 /\ j - 1 + 1 = j
        BY <1>1, <2>1
      <3> QED
        BY <1>1, <1>2, <3>1
    <2> QED
      BY <2>1
  <1>a. DOMAIN p \subseteq Int /\ DOMAIN q \subseteq Int
    BY <1>1, <1>2
  <1>5. ASSUME NEW i \in DOMAIN q PROVE Later(q, i) <=> Later(p, i + 1)
    <2>1. ASSUME NEW j \in DOMAIN q, j > i, q[j].flow = q[i].flow
          PROVE  j + 1 \in DOMAIN p /\ j + 1 > i + 1 /\ p[j + 1].flow = p[i + 1].flow
      BY <1>3, <1>a, <2>1
    <2>2. ASSUME NEW j \in DOMAIN p, j > i + 1, p[j].flow = p[i + 1].flow
          PROVE  j - 1 \in DOMAIN q /\ j - 1 > i /\ q[j - 1].flow = q[i].flow
      <3>1. j > 1 /\ j - 1 > i
        BY <1>1, <1>2, <2>2
      <3> QED
        BY <1>3, <1>4, <2>2, <3>1
    <2> QED
      BY <2>1, <2>2 DEF Later
  <1>6. Numbered(s, q)
    BY <1>3, <1>5 DEF Numbered
  <1>7. ASSUME NEW i \in DOMAIN q, NEW j \in DOMAIN q, NEW k \in DOMAIN q,
               q[i].flow = q[j].flow, q[j].flow = q[k].flow
        PROVE  i = j \/ j = k \/ i = k
    <2>1. i + 1 = j + 1 \/ j + 1 = k + 1 \/ i + 1 = k + 1
      BY <1>3, <1>7 DEF AtMostTwo
    <2> QED
      BY <1>a, <2>1
  <1>8. f \in FlowsOf(q) <=> Later(p, 1)
    <2>1. ASSUME NEW i \in DOMAIN q, q[i].flow = f PROVE Later(p, 1)
      BY <1>2, <1>3, <2>1 DEF Later
    <2>2. ASSUME Later(p, 1) PROVE f \in FlowsOf(q)
      BY <1>2, <1>4, <2>2 DEF Later, FlowsOf
    <2> QED
      BY <2>1, <2>2 DEF FlowsOf
  <1>9. FlowsOf(p) = FlowsOf(q) \cup {f}
    <2>1. ASSUME NEW i \in DOMAIN p PROVE p[i].flow \in FlowsOf(q) \cup {f}
      <3>1. CASE i = 1
        BY <1>2, <3>1
      <3>2. CASE i # 1
        <4>1. i > 1
          BY <1>1, <3>2
        <4> QED
          BY <1>4, <4>1 DEF FlowsOf
      <3> QED
        BY <3>1, <3>2
    <2>2. \A i \in DOMAIN q : q[i].flow \in FlowsOf(p)
      BY <1>3 DEF FlowsOf
    <2>3. f \in FlowsOf(p)
      BY <1>2 DEF FlowsOf
    <2> QED
      BY <2>1, <2>2, <2>3 DEF FlowsOf
  <1>10. f \notin TwiceIn(q)
    <2> SUFFICES ASSUME NEW i \in DOMAIN q, Later(q, i), q[i].flow = f PROVE FALSE
      BY DEF TwiceIn
    <2>1. PICK j \in DOMAIN q : j > i /\ q[j].flow = q[i].flow
      BY DEF Later
    <2>2. /\ i + 1 \in DOMAIN p /\ j + 1 \in DOMAIN p
          /\ p[1].flow = p[i + 1].flow /\ p[i + 1].flow = p[j + 1].flow
          /\ i + 1 > 1 /\ j + 1 > i + 1 /\ j + 1 > 1
      BY <1>2, <1>3, <1>a, <2>1
    <2>3. 1 = i + 1 \/ i + 1 = j + 1 \/ 1 = j + 1
      BY <1>2, <2>2 DEF AtMostTwo
    <2> QED
      BY <1>a, <2>2, <2>3
  <1>11. TwiceIn(p) = IF Later(p, 1) THEN TwiceIn(q) \cup {f} ELSE TwiceIn(q)
    <2>1. ASSUME NEW i \in DOMAIN p, Later(p, i)
          PROVE  i = 1 \/ p[i].flow \in TwiceIn(q)
      <3>1. CASE i # 1
        <4>1. i > 1
          BY <1>1, <3>1
        <4>2. i - 1 \in DOMAIN q /\ q[i - 1] = p[i]
          BY <1>4, <4>1
        <4>3. i - 1 + 1 = i
          BY <1>a
        <4>4. Later(q, i - 1)
          BY <1>5, <2>1, <4>2, <4>3
        <4> QED
          BY <4>2, <4>4 DEF TwiceIn
      <3> QED
        BY <3>1
    <2>2. ASSUME NEW i \in DOMAIN q, Later(q, i) PROVE q[i].flow \in TwiceIn(p)
      BY <1>3, <1>5, <2>2 DEF TwiceIn
    <2>3. Later(p, 1) => f \in TwiceIn(p)
      BY <1>2 DEF TwiceIn
    <2>4. TwiceIn(q) \subseteq TwiceIn(p)
      BY <2>2 DEF TwiceIn
    <2>5. ASSUME NEW g \in TwiceIn(p) PROVE g \in TwiceIn(q) \/ (g = f /\ Later(p, 1))
      <3>1. PICK i \in DOMAIN p : Later(p, i) /\ g = p[i].flow
        BY <2>5 DEF TwiceIn
      <3> QED
        BY <1>2, <2>1, <3>1
    <2> QED
      BY <2>3, <2>4, <2>5
  <1>12. f \in TwiceIn(p) <=> Later(p, 1)
    BY <1>10, <1>11
  <1>13. TwiceIn(q) = TwiceIn(p) \ {f}
    BY <1>10, <1>11
  <1>14. FlowsOf(q) = IF f \in TwiceIn(p) THEN FlowsOf(p) ELSE FlowsOf(p) \ {f}
    BY <1>8, <1>9, <1>12
  <1>15. Head(p).n = IF f \in TwiceIn(p) THEN s[f] - 1 ELSE s[f]
    BY <1>1, <1>2, <1>12 DEF Numbered
  <1> QED
    BY <1>1, <1>6, <1>7, <1>8, <1>9, <1>12, <1>13, <1>14, <1>15 DEF AtMostTwo

(* How many frames of a flow a batch has. *)
LEMMA CountIs ==
    ASSUME NEW S, NEW b \in Seq(S), NEW f,
           \A i, j, k \in DOMAIN b : b[i] = b[j] /\ b[j] = b[k] => i = j \/ j = k \/ i = k
    PROVE  InBatch(b, f) =
              IF \E i, j \in DOMAIN b : i < j /\ b[i] = f /\ b[j] = f THEN 2
              ELSE IF \E i \in DOMAIN b : b[i] = f THEN 1 ELSE 0
  <1> DEFINE T == {i \in DOMAIN b : b[i] = f}
  <1>1. DOMAIN b \subseteq Int
    BY LenProperties
  <1>2. InBatch(b, f) = Cardinality(T)
    BY DEF InBatch
  <1>3. CASE \E i, j \in DOMAIN b : i < j /\ b[i] = f /\ b[j] = f
    <2>1. PICK i, j \in DOMAIN b : i < j /\ b[i] = f /\ b[j] = f
      BY <1>3
    <2>2. T = {i} \cup {j} /\ i # j
      <3>1. ASSUME NEW k \in T PROVE k = i \/ k = j
        <4>1. k \in DOMAIN b /\ b[k] = b[i] /\ b[i] = b[j]
          BY <2>1
        <4>2. k = i \/ i = j \/ k = j
          BY <4>1
        <4> QED
          BY <1>1, <2>1, <4>2
      <3>2. i \in T /\ j \in T
        BY <2>1
      <3>3. i # j
        BY <1>1, <2>1
      <3> QED
        BY <3>1, <3>2, <3>3
    <2>3. IsFiniteSet({i}) /\ Cardinality({i}) = 1 /\ j \notin {i}
      BY <2>2, FS_Singleton
    <2>4. Cardinality({i} \cup {j}) = 1 + 1
      BY <2>3, FS_AddElement
    <2> HIDE DEF T
    <2>5. Cardinality(T) = 1 + 1
      <3>1. T = {i} \cup {j}
        BY <2>2
      <3> QED
        BY <2>4, <3>1, Zenon
    <2>6. InBatch(b, f) = 2
      BY <1>2, <2>5
    <2> QED
      BY <1>3, <2>6
  <1>4. CASE /\ ~\E i, j \in DOMAIN b : i < j /\ b[i] = f /\ b[j] = f
             /\ \E i \in DOMAIN b : b[i] = f
    <2>1. PICK i \in DOMAIN b : b[i] = f
      BY <1>4
    <2>2. T = {i}
      <3>1. ASSUME NEW k \in T PROVE k = i
        <4>1. ~(k < i) /\ ~(i < k)
          BY <1>4, <2>1
        <4> QED
          BY <1>1, <4>1
      <3> QED
        BY <2>1, <3>1
    <2>3. Cardinality({i}) = 1
      BY FS_Singleton
    <2> QED
      BY <1>2, <1>4, <2>2, <2>3
  <1>5. CASE ~\E i \in DOMAIN b : b[i] = f
    <2>1. T = {}
      BY <1>5
    <2> QED
      BY <1>2, <1>5, <2>1, FS_EmptySet
  <1> QED
    BY <1>3, <1>4, <1>5

(* The flows that are left after the lowest are one less. *)
LEMMA DropLowest ==
    ASSUME NEW T \in SUBSET Flows, T # {},
           NEW U, U = {f \in T : \E g \in T : g < f}
    PROVE  /\ U \in SUBSET Flows /\ IsFiniteSet(U) /\ IsFiniteSet(T)
           /\ Cardinality(U) = Cardinality(T) - 1
  <1>1. Flows \subseteq Nat /\ IsFiniteSet(Flows)
    <2>1. 0 \in Int /\ NF - 1 \in Int
      BY PcieAssumption
    <2> QED
      BY <2>1, FS_Interval DEF Flows
  <1>2. IsFiniteSet(T)
    BY <1>1, FS_Subset
  <1>3. PICK m \in T : \A g \in T : ~(<<g, m>> \in OpToRel(<, Nat))
    BY <1>1, WFMin, NatLessThanWellFounded
  <1>4. \A g \in T : ~(g < m)
    BY <1>1, <1>3 DEF OpToRel
  <1>5. U = T \ {m}
    <2>1. ASSUME NEW g \in T, g # m PROVE m < g
      <3>1. g \in Nat /\ m \in Nat /\ ~(g < m)
        BY <1>1, <1>4
      <3> QED
        BY <2>1, <3>1
    <2> QED
      BY <1>4, <2>1
  <1>6. IsFiniteSet(U) /\ Cardinality(U) = Cardinality(T) - 1
    BY <1>2, <1>5, FS_RemoveElement
  <1> QED
    BY <1>2, <1>6

(* The batch that a chip writes has the next numbers of its flows. *)
LEMMA FilledBatch ==
    ASSUME NEW b \in Batches, NEW s \in [Flows -> Nat], NEW t \in [Flows -> Nat],
           NEW p \in Seq(Nodes), DOMAIN p = DOMAIN b,
           \A i \in DOMAIN b :
              p[i].flow = b[i] /\ p[i].n = s[b[i]] + InBatch(SubSeq(b, 1, i), b[i]),
           \A f \in Flows : t[f] = s[f] + InBatch(b, f)
    PROVE  /\ Numbered(t, p) /\ AtMostTwo(p)
           /\ \A f \in Flows : InBatch(b, f) = Remaining(p, f)
  <1>1. /\ b \in Seq(Flows)
        /\ \A i, j, k \in DOMAIN b : b[i] = b[j] /\ b[j] = b[k] => i = j \/ j = k \/ i = k
    BY PcieAssumption DEF Flows
  <1>2. /\ Len(b) \in Nat /\ DOMAIN b = 1 .. Len(b)
        /\ \A i \in 1 .. Len(b) : b[i] \in Flows
    BY <1>1, SeqSteps
  <1>a. DOMAIN b \subseteq Int
    BY <1>2
  <1>3. AtMostTwo(p)
    BY <1>1 DEF AtMostTwo
  <1>4. ASSUME NEW f
        PROVE  InBatch(b, f) =
                  IF \E i, j \in DOMAIN b : i < j /\ b[i] = f /\ b[j] = f THEN 2
                  ELSE IF \E i \in DOMAIN b : b[i] = f THEN 1 ELSE 0
    BY <1>1, CountIs
  <1>5. ASSUME NEW i \in DOMAIN b
        PROVE  InBatch(SubSeq(b, 1, i), b[i]) =
                  IF \E k \in DOMAIN b : k < i /\ b[k] = b[i] THEN 2 ELSE 1
    <2> DEFINE u == SubSeq(b, 1, i)
               f == b[i]
    <2>1. i \in Int /\ 1 \in Int /\ i >= 1 /\ \A j \in 1 .. i : b[j] \in Flows
      BY <1>2
    <2>2. /\ u \in Seq(Flows) /\ Len(u) = IF 1 <= i THEN i - 1 + 1 ELSE 0
          /\ \A j \in 1 .. i - 1 + 1 : u[j] = b[1 + j - 1]
      BY <2>1, SubSeqProperties
    <2>3. Len(u) = i /\ DOMAIN u = 1 .. Len(u)
      BY <2>1, <2>2, LenProperties
    <2>4. DOMAIN u = 1 .. i /\ \A j \in 1 .. i : u[j] = b[j] /\ j \in DOMAIN b
      <3>1. \A j \in 1 .. i : 1 + j - 1 = j /\ j \in 1 .. i - 1 + 1 /\ j \in 1 .. Len(b)
        BY <1>2
      <3> QED
        BY <1>2, <2>2, <2>3, <3>1
    <2> HIDE DEF u
    <2>5. \A j, k, l \in DOMAIN u : u[j] = u[k] /\ u[k] = u[l] => j = k \/ k = l \/ j = l
      BY <1>1, <2>4
    <2>6. InBatch(u, f) =
             IF \E j, k \in DOMAIN u : j < k /\ u[j] = f /\ u[k] = f THEN 2
             ELSE IF \E j \in DOMAIN u : u[j] = f THEN 1 ELSE 0
      <3>1. \A j, k, l \in DOMAIN u : u[j] = u[k] /\ u[k] = u[l] => j = k \/ k = l \/ j = l
        BY <2>5
      <3>2. u \in Seq(Flows)
        BY <2>2
      <3> HIDE DEF f
      <3> QED
        BY <3>1, <3>2, CountIs
    <2>7. i \in DOMAIN u /\ u[i] = f
      BY <2>1, <2>4
    <2>8. (\E j, k \in DOMAIN u : j < k /\ u[j] = f /\ u[k] = f)
             <=> \E k \in DOMAIN b : k < i /\ b[k] = f
      <3>1. ASSUME NEW j \in DOMAIN u, NEW k \in DOMAIN u, j < k, u[j] = f, u[k] = f
            PROVE  j \in DOMAIN b /\ j < i /\ b[j] = f
        BY <2>1, <2>4, <3>1
      <3>2. ASSUME NEW k \in DOMAIN b, k < i, b[k] = f
            PROVE  k \in DOMAIN u /\ k < i /\ u[k] = f
        <4>1. k \in 1 .. i
          BY <1>2, <3>2
        <4> QED
          BY <2>4, <3>2, <4>1
      <3> QED
        BY <2>7, <3>1, <3>2
    <2>9. InBatch(u, f) = IF \E k \in DOMAIN b : k < i /\ b[k] = f THEN 2 ELSE 1
      <3> HIDE DEF f
      <3> QED
        BY <2>6, <2>7, <2>8
    <2> QED
      BY <2>9 DEF u
  <1>6. ASSUME NEW i \in DOMAIN p
        PROVE  p[i].n = IF Later(p, i) THEN t[p[i].flow] - 1 ELSE t[p[i].flow]
    <2>1. PICK f \in Flows : f = b[i]
      BY <1>2
    <2>2. i \in DOMAIN b /\ p[i].flow = f /\ s[f] \in Nat
      BY <2>1
    <2>3. p[i].n = s[f] + InBatch(SubSeq(b, 1, i), f) /\ t[f] = s[f] + InBatch(b, f)
      BY <2>1, <2>2
    <2>4. InBatch(SubSeq(b, 1, i), f) = IF \E k \in DOMAIN b : k < i /\ b[k] = f THEN 2 ELSE 1
      BY <1>5, <2>1, <2>2
    <2>5. InBatch(b, f) =
             IF \E k, j \in DOMAIN b : k < j /\ b[k] = f /\ b[j] = f THEN 2
             ELSE IF \E k \in DOMAIN b : b[k] = f THEN 1 ELSE 0
      BY <1>4
    <2>6. CASE Later(p, i)
      <3>1. PICK j \in DOMAIN b : j > i /\ b[j] = f
        BY <2>2, <2>6 DEF Later
      <3>2. i < j /\ b[i] = f
        BY <1>a, <2>1, <2>2, <3>1
      <3>3. InBatch(b, f) = 2
        BY <2>2, <2>5, <3>1, <3>2
      <3>4. ~\E k \in DOMAIN b : k < i /\ b[k] = f
        <4> SUFFICES ASSUME NEW k \in DOMAIN b, k < i, b[k] = f PROVE FALSE
          OBVIOUS
        <4>1. b[k] = b[i] /\ b[i] = b[j] /\ k < j
          BY <1>a, <2>2, <3>1, <3>2
        <4>2. k = i \/ i = j \/ k = j
          BY <1>1, <2>2, <4>1
        <4> QED
          BY <1>a, <2>2, <3>2, <4>1, <4>2
      <3>5. InBatch(SubSeq(b, 1, i), f) = 1
        BY <2>4, <3>4
      <3> QED
        BY <2>2, <2>3, <2>6, <3>3, <3>5
    <2>7. CASE ~Later(p, i)
      <3>1. \A j \in DOMAIN b : b[j] = f => ~(i < j)
        <4>1. \A j \in DOMAIN b : b[j] = f => ~(j > i)
          BY <2>2, <2>7 DEF Later
        <4> QED
          BY <1>a, <2>2, <4>1
      <3>2. (\E k, j \in DOMAIN b : k < j /\ b[k] = f /\ b[j] = f)
               <=> \E k \in DOMAIN b : k < i /\ b[k] = f
        <4>1. ASSUME NEW k \in DOMAIN b, NEW j \in DOMAIN b, k < j, b[k] = f, b[j] = f
              PROVE  k < i
          <5>1. ~(i < j) /\ i \in Int /\ j \in Int /\ k \in Int
            BY <1>a, <2>2, <3>1, <4>1
          <5> QED
            BY <4>1, <5>1
        <4> QED
          BY <2>1, <2>2, <4>1
      <3>3. \E k \in DOMAIN b : b[k] = f
        BY <2>1, <2>2
      <3>4. InBatch(b, f) = InBatch(SubSeq(b, 1, i), f)
        BY <2>4, <2>5, <3>2, <3>3
      <3> QED
        BY <2>2, <2>3, <2>7, <3>4
    <2> QED
      BY <2>6, <2>7
  <1>7. ASSUME NEW f \in Flows PROVE InBatch(b, f) = Remaining(p, f)
    <2>1. f \in FlowsOf(p) <=> \E k \in DOMAIN b : b[k] = f
      BY DEF FlowsOf
    <2>2. f \in TwiceIn(p) <=> \E k, j \in DOMAIN b : k < j /\ b[k] = f /\ b[j] = f
      <3>1. f \in TwiceIn(p) <=> \E k \in DOMAIN b : Later(p, k) /\ b[k] = f
        <4>1. \A k : k \in DOMAIN p <=> k \in DOMAIN b
          OBVIOUS
        <4>2. \A k \in DOMAIN b : p[k].flow = b[k]
          OBVIOUS
        <4>3. f \in TwiceIn(p) <=> \E k \in DOMAIN p : Later(p, k) /\ p[k].flow = f
          BY DEF TwiceIn
        <4> QED
          BY <4>1, <4>2, <4>3
      <3>2. \A k \in DOMAIN b : Later(p, k) <=> \E j \in DOMAIN b : k < j /\ b[j] = b[k]
        BY <1>a DEF Later
      <3> QED
        BY <3>1, <3>2
    <2> QED
      BY <1>4, <2>1, <2>2 DEF Remaining
  <1> QED
    BY <1>3, <1>6, <1>7 DEF Numbered

-----------------------------------------------------------------------------
(* The crawler's copy of a batch. *)

(* Every step keeps the buffers of announced chips as their chips left     *)
(* them.                                                                   *)
LEMMA BufferNext ==
    ASSUME StateType, BufferInv, [Next]_vars
    PROVE  BufferInv'
  <1> USE DEF deviceVars
  <1>1. ASSUME NEW c \in Chips, NEW b \in Batches, DeviceFill(c, b) PROVE BufferInv'
    <2>1. /\ \A e \in Chips : e # c =>
                ready'[e] = ready[e] /\ buffer'[e] = buffer[e] /\ sent'[e] = sent[e]
          /\ DOMAIN buffer'[c] = DOMAIN b /\ buffer'[c] # <<>>
          /\ \A i \in DOMAIN b :
                /\ buffer'[c][i].flow = b[i]
                /\ buffer'[c][i].n = sent[c][b[i]] + InBatch(SubSeq(b, 1, i), b[i])
          /\ \A f \in Flows : sent'[c][f] = sent[c][f] + InBatch(b, f)
          /\ DeviceType'
      BY <1>1, Filled
    <2>2. /\ sent[c] \in [Flows -> Nat] /\ sent'[c] \in [Flows -> Nat]
          /\ buffer'[c] \in Seq(Nodes)
      BY <2>1 DEF StateType, DeviceType
    <2>3. PICK p \in Seq(Nodes) : p = buffer'[c]
      BY <2>2
    <2>4. PICK t \in [Flows -> Nat] : t = sent'[c]
      BY <2>2
    <2>5. PICK s \in [Flows -> Nat] : s = sent[c]
      BY <2>2
    <2>6. Numbered(t, p) /\ AtMostTwo(p)
      <3>1. /\ DOMAIN p = DOMAIN b
            /\ \A i \in DOMAIN b :
                  p[i].flow = b[i] /\ p[i].n = s[b[i]] + InBatch(SubSeq(b, 1, i), b[i])
            /\ \A f \in Flows : t[f] = s[f] + InBatch(b, f)
        BY <2>1, <2>3, <2>4, <2>5
      <3> QED
        BY <3>1, FilledBatch
    <2> QED
      BY <2>1, <2>3, <2>4, <2>6 DEF BufferInv
  <1>2. CASE CrawlerAck \/ CloseDummyAck
    <2>1. /\ buffer' = buffer /\ sent' = sent
          /\ \E c : ready' = [ready EXCEPT ![c] = TRUE]
      BY <1>2 DEF CrawlerAck, CloseDummyAck
    <2>2. \A e \in Chips : ~ready'[e] => ~ready[e]
      BY <2>1 DEF StateType, DeviceType
    <2> QED
      BY <2>1, <2>2 DEF BufferInv
  <1>3. CASE UNCHANGED <<ready, buffer, sent>>
    BY <1>3 DEF BufferInv
  <1>4. CASE Next
    <2>1. CASE \E c \in Chips : Isr(c) \/ \E f \in Flows : StreamRead(c, f)
      BY <1>3, <2>1 DEF Isr, StreamRead
    <2>2. CASE CrawlerCheck \/ CrawlerRead \/ CrawlerAborted \/ CrawlerWake \/ CrawlerPop
      BY <1>3, <2>2 DEF CrawlerCheck, CrawlerRead, CrawlerAborted, CrawlerWake, CrawlerPop
    <2>3. CASE CrawlerPush \/ CrawlerFull \/ CrawlerSlept
      BY <1>3, <2>3 DEF CrawlerPush, CrawlerFull, CrawlerSlept
    <2>4. CASE Open \/ SetReadAbort \/ CloseExit \/ CloseAbort \/ CloseClear
      BY <1>3, <2>4 DEF Open, SetReadAbort, CloseExit, CloseAbort, CloseClear
    <2>5. CASE CloseJoin \/ CloseDummyRead \/ CloseFree
      BY <1>3, <2>5 DEF CloseJoin, CloseDummyRead, CloseFree
    <2> QED
      BY <1>1, <1>2, <1>4, <2>1, <2>2, <2>3, <2>4, <2>5 DEF Next, Crawler, Close
  <1> QED
    BY <1>3, <1>4 DEF vars

(* The header's bits for second frames, read as the code sets them.        *)
LEMMA HeaderOf ==
    ASSUME NEW p \in Seq(Nodes)
    PROVE  TwiceIn(p) = {p[i].flow : i \in {j \in DOMAIN p :
                            \E k \in 1 .. j - 1 : p[k].flow = p[j].flow}}
  <1> DEFINE H == {p[i].flow : i \in {j \in DOMAIN p :
                      \E k \in 1 .. j - 1 : p[k].flow = p[j].flow}}
  <1>1. Len(p) \in Nat /\ DOMAIN p = 1 .. Len(p)
    BY LenProperties
  <1>2. ASSUME NEW i \in DOMAIN p, Later(p, i) PROVE p[i].flow \in H
    <2>1. PICK j \in DOMAIN p : j > i /\ p[j].flow = p[i].flow
      BY <1>2 DEF Later
    <2>2. i \in 1 .. j - 1
      BY <1>1, <2>1
    <2> QED
      BY <2>1, <2>2
  <1>3. ASSUME NEW j \in DOMAIN p, NEW k \in 1 .. j - 1, p[k].flow = p[j].flow
        PROVE  p[j].flow \in TwiceIn(p)
    <2>1. k \in DOMAIN p /\ j > k
      BY <1>1
    <2>2. Later(p, k)
      BY <1>3, <2>1 DEF Later
    <2> QED
      BY <1>3, <2>1, <2>2 DEF TwiceIn
  <1> QED
    BY <1>2, <1>3 DEF TwiceIn

(* The crawler takes the batch of a chip that waits for it.                *)
LEMMA TakenBatch ==
    ASSUME StateType, AnnounceInv, BufferInv, fifo # <<>>, CrawlerTake,
           NEW c, c = Head(fifo)
    PROVE  /\ c \in Chips /\ ~ready[c] /\ ~Busy(c) /\ ~Dummy(c)
           /\ cr'.pc = "copy" /\ cr'.chip = c /\ cr'.frames = buffer[c]
           /\ cr'.read_abort = cr.read_abort
           /\ buffer[c] \in Seq(Nodes) /\ buffer[c] # <<>>
           /\ Numbered(sent[c], buffer[c]) /\ AtMostTwo(buffer[c])
           /\ cr'.triggered = FlowsOf(buffer[c]) /\ cr'.twice = TwiceIn(buffer[c])
  <1>1. /\ c \in Chips /\ cr'.pc = "copy" /\ cr'.chip = c /\ cr'.frames = buffer[c]
        /\ cr'.triggered = {buffer[c][i].flow : i \in DOMAIN buffer[c]}
        /\ cr'.twice = {buffer[c][i].flow : i \in {j \in DOMAIN buffer[c] :
              \E k \in 1 .. j - 1 : buffer[c][k].flow = buffer[c][j].flow}}
        /\ cr'.read_abort = cr.read_abort
    BY CrawlerTakes
  <1>2. InFifo(c)
    <2>1. fifo \in Seq(Chips)
      BY DEF StateType, DeviceType
    <2> QED
      BY <2>1, InTail DEF InFifo
  <1>3. ~ready[c] /\ ~Busy(c) /\ ~Dummy(c)
    BY <1>1, <1>2 DEF AnnounceInv, Announced, NoneTwice
  <1>4. /\ buffer[c] # <<>> /\ Numbered(sent[c], buffer[c]) /\ AtMostTwo(buffer[c])
    BY <1>1, <1>3 DEF BufferInv
  <1>5. PICK p \in Seq(Nodes) : p = buffer[c]
    BY <1>1 DEF StateType, DeviceType
  <1>6. cr'.triggered = FlowsOf(p)
    BY <1>1, <1>5 DEF FlowsOf
  <1>7. cr'.twice = TwiceIn(p)
    BY <1>1, <1>5, HeaderOf
  <1> QED
    BY <1>1, <1>3, <1>4, <1>5, <1>6, <1>7

(* The flows of a batch are finitely many, and some unless it is empty. *)
LEMMA FlowsOfFinite ==
    ASSUME NEW p \in Seq(Nodes)
    PROVE  /\ FlowsOf(p) \in SUBSET Flows /\ IsFiniteSet(FlowsOf(p))
           /\ Cardinality(FlowsOf(p)) \in Nat
           /\ Cardinality(FlowsOf(p)) = 0 <=> p = <<>>
  <1>1. \A i \in DOMAIN p : p[i].flow \in Flows
    <2>1. \A i \in DOMAIN p : p[i] \in Nodes
      BY SeqSteps
    <2> QED
      BY <2>1 DEF Nodes
  <1>2. FlowsOf(p) \in SUBSET Flows
    BY <1>1 DEF FlowsOf
  <1>3. IsFiniteSet(Flows)
    <2>1. 0 \in Int /\ NF - 1 \in Int
      BY PcieAssumption
    <2> QED
      BY <2>1, FS_Interval DEF Flows
  <1>4. IsFiniteSet(FlowsOf(p))
    BY <1>2, <1>3, FS_Subset
  <1>5. FlowsOf(p) = {} <=> p = <<>>
    <2>1. p = <<>> <=> DOMAIN p = {}
      <3>1. Len(p) \in Nat /\ DOMAIN p = 1 .. Len(p) /\ (p # <<>> <=> Len(p) >= 1)
        BY SeqSteps
      <3>2. 1 .. Len(p) = {} <=> ~(Len(p) >= 1)
        BY <3>1
      <3> QED
        BY <3>1, <3>2
    <2> QED
      BY <2>1 DEF FlowsOf
  <1> QED
    BY <1>2, <1>4, <1>5, FS_CardinalityType, FS_EmptySet

(* Passing a frame keeps the header's bits and the frames together.        *)
LEMMA PassedNode ==
    ASSUME StateType, CrawlerInv, Copying, NEW dropped \in BOOLEAN, PastNode(dropped),
           sent' = sent
    PROVE  CrawlerInv' /\ cr'.pc \in {"copy", "ack"}
  <1>1. /\ cr \in Crawlers /\ cr.frames # <<>>
        /\ Numbered(sent[cr.chip], cr.frames) /\ AtMostTwo(cr.frames)
        /\ cr.twice = TwiceIn(cr.frames)
        /\ Cardinality(cr.triggered) = Cardinality(FlowsOf(cr.frames))
    BY DEF StateType, HostType, CrawlerInv
  <1>2. PICK p \in Seq(Nodes) : p = cr.frames
    BY <1>1 DEF Crawlers
  <1>3. PICK q : q = Tail(p)
    OBVIOUS
  <1>4. PICK f : f = Head(p).flow
    OBVIOUS
  <1>5. PICK T \in SUBSET Flows : T = cr.triggered
    BY <1>1 DEF Crawlers
  <1>6. PICK U : U = {g \in T : \E h \in T : h < g}
    OBVIOUS
  <1>7. Node.flow = f
    BY <1>2, <1>4 DEF Node
  <1>8. PICK V : V = IF f \in TwiceIn(p) THEN T ELSE U
    OBVIOUS
  <1>9. /\ cr'.chip = cr.chip /\ cr'.frames = q /\ cr'.twice = TwiceIn(p) \ {f}
        /\ cr'.triggered = V
        /\ cr'.pc = IF V = {} THEN "ack" ELSE "copy"
    <2>1. LET left == IF Node.flow \in cr.twice THEN cr.triggered
                      ELSE {g \in cr.triggered : \E h \in cr.triggered : h < g}
          IN  /\ cr'.chip = cr.chip /\ cr'.frames = Tail(cr.frames)
              /\ cr'.twice = cr.twice \ {Node.flow} /\ cr'.triggered = left
              /\ cr'.pc = IF left = {} THEN "ack" ELSE "copy"
      BY <1>1, CrawlerPasses
    <2> QED
      BY <1>1, <1>2, <1>3, <1>5, <1>6, <1>7, <1>8, <2>1
  <1>10. PICK s : s = sent[cr.chip]
    OBVIOUS
  <1>11. /\ q \in Seq(Nodes) /\ Numbered(s, q) /\ AtMostTwo(q)
         /\ TwiceIn(q) = TwiceIn(p) \ {f}
         /\ FlowsOf(q) = IF f \in TwiceIn(p) THEN FlowsOf(p) ELSE FlowsOf(p) \ {f}
         /\ f \in FlowsOf(p)
    <2>1. p # <<>> /\ AtMostTwo(p) /\ Numbered(s, p)
      BY <1>1, <1>2, <1>10
    <2> QED
      BY <1>3, <1>4, <2>1, PastHead
  <1>12. /\ IsFiniteSet(FlowsOf(p)) /\ Cardinality(FlowsOf(p)) \in Nat
         /\ Cardinality(FlowsOf(q)) \in Nat /\ IsFiniteSet(FlowsOf(q))
         /\ Cardinality(FlowsOf(q)) = 0 <=> q = <<>>
    BY <1>11, FlowsOfFinite
  <1>13. T # {} /\ IsFiniteSet(T)
    <2>1. Cardinality(T) = Cardinality(FlowsOf(p)) /\ FlowsOf(p) # {}
      BY <1>1, <1>2, <1>5, <1>11
    <2>2. T # {}
      BY <1>12, <2>1, FS_EmptySet
    <2> QED
      BY <2>2, DropLowest
  <1>14. IsFiniteSet(V) /\ Cardinality(V) = Cardinality(FlowsOf(q))
    <2>1. CASE f \in TwiceIn(p)
      BY <1>1, <1>2, <1>5, <1>8, <1>11, <1>13, <2>1
    <2>2. CASE f \notin TwiceIn(p)
      <3>1. IsFiniteSet(U) /\ Cardinality(U) = Cardinality(T) - 1
        BY <1>6, <1>13, DropLowest
      <3>2. Cardinality(FlowsOf(p) \ {f}) = Cardinality(FlowsOf(p)) - 1
        BY <1>11, <1>12, FS_RemoveElement
      <3> QED
        BY <1>1, <1>2, <1>5, <1>8, <1>11, <2>2, <3>1, <3>2
    <2> QED
      BY <2>1, <2>2
  <1>15. V = {} <=> q = <<>>
    BY <1>12, <1>14, FS_EmptySet
  <1>16. CASE q = <<>>
    BY <1>9, <1>15, <1>16 DEF CrawlerInv, Copying
  <1>17. CASE q # <<>>
    <2>1. cr'.pc = "copy" /\ Copying'
      BY <1>9, <1>15, <1>17 DEF Copying
    <2>2. Numbered(sent'[cr'.chip], cr'.frames) /\ AtMostTwo(cr'.frames)
      BY <1>9, <1>10, <1>11
    <2>3. cr'.twice = TwiceIn(cr'.frames)
      BY <1>9, <1>11
    <2>4. Cardinality(cr'.triggered) = Cardinality(FlowsOf(cr'.frames))
      BY <1>9, <1>14
    <2>5. cr'.frames # <<>>
      BY <1>9, <1>17
    <2> QED
      BY <2>1, <2>2, <2>3, <2>4, <2>5 DEF CrawlerInv
  <1> QED
    BY <1>16, <1>17

(* Every step keeps the header's bits and the frames of a batch together.  *)
LEMMA CrawlerNext ==
    ASSUME StateType, AnnounceInv, BufferInv, CrawlerInv, [Next]_vars
    PROVE  CrawlerInv'
  <1> USE DEF deviceVars
  <1>a. cr \in Crawlers
    BY DEF StateType, HostType
  <1>1. CASE UNCHANGED <<sent, cr>>
    BY <1>1 DEF CrawlerInv, Copying
  <1>2. ASSUME NEW c \in Chips, NEW b \in Batches, DeviceFill(c, b) PROVE CrawlerInv'
    <2>1. /\ ready[c] /\ cr' = cr /\ \A e \in Chips : e # c => sent'[e] = sent[e]
      BY <1>2, Filled DEF DeviceFill
    <2>2. CASE Copying
      <3>1. cr.chip \in Chips /\ cr.chip # c
        <4>1. cr.chip \in Chips
          BY <1>a DEF Crawlers
        <4>2. ~Busy(c)
          BY <2>1 DEF AnnounceInv, Announced
        <4> QED
          BY <2>2, <4>1, <4>2 DEF Busy, Copying
      <3> QED
        BY <2>1, <3>1 DEF CrawlerInv, Copying
    <2>3. CASE ~Copying
      BY <2>1, <2>3 DEF CrawlerInv, Copying
    <2> QED
      BY <2>2, <2>3
  <1>3. ASSUME sent' = sent,
               NEW pc \in CrawlerPCs, CrawlerGoes(pc),
               pc \in {"copy", "full"} <=> Copying
        PROVE  CrawlerInv'
    <2>1. /\ cr'.pc = pc /\ cr'.chip = cr.chip /\ cr'.frames = cr.frames
          /\ cr'.triggered = cr.triggered /\ cr'.twice = cr.twice
      BY <1>3, <1>a, CrawlerMoves
    <2>2. Copying' <=> Copying
      BY <1>3, <2>1 DEF Copying
    <2> QED
      BY <1>3, <2>1, <2>2 DEF CrawlerInv
  <1>4. CASE CrawlerCheck \/ CrawlerAborted \/ CrawlerWake \/ CrawlerFull \/ CrawlerAck
    <2>1. sent' = sent
      BY <1>4 DEF CrawlerCheck, CrawlerAborted, CrawlerWake, CrawlerFull, CrawlerAck
    <2>2. \E pc \in CrawlerPCs : CrawlerGoes(pc) /\ (pc \in {"copy", "full"} <=> Copying)
      BY <1>4 DEF CrawlerCheck, CrawlerAborted, CrawlerWake, CrawlerFull, CrawlerAck,
                  CrawlerPCs, Copying
    <2> QED
      BY <1>3, <2>1, <2>2
  <1>5. CASE CrawlerRead \/ CrawlerPop
    <2>1. sent' = sent
      BY <1>5 DEF CrawlerRead, CrawlerPop
    <2>2. CASE fifo = <<>>
      <3>1. \E pc \in CrawlerPCs : CrawlerGoes(pc) /\ (pc \in {"copy", "full"} <=> Copying)
        BY <1>5, <2>2 DEF CrawlerRead, CrawlerPop, CrawlerPCs, Copying
      <3> QED
        BY <1>3, <2>1, <3>1
    <2>3. CASE fifo # <<>>
      <3>1. CrawlerTake
        BY <1>5, <2>3 DEF CrawlerRead, CrawlerPop
      <3>2. PICK c : c = Head(fifo)
        OBVIOUS
      <3>3. /\ cr'.pc = "copy" /\ cr'.chip = c /\ cr'.frames = buffer[c]
            /\ buffer[c] # <<>>
            /\ Numbered(sent[c], buffer[c]) /\ AtMostTwo(buffer[c])
            /\ cr'.triggered = FlowsOf(buffer[c]) /\ cr'.twice = TwiceIn(buffer[c])
        BY <2>3, <3>1, <3>2, TakenBatch
      <3>4. Copying' /\ cr'.frames # <<>>
        BY <3>3 DEF Copying
      <3>5. Numbered(sent'[cr'.chip], cr'.frames) /\ AtMostTwo(cr'.frames)
        BY <2>1, <3>3
      <3> QED
        BY <3>3, <3>4, <3>5 DEF CrawlerInv
    <2> QED
      BY <2>2, <2>3
  <1>6. CASE CrawlerPush \/ CrawlerSlept
    <2>1. sent' = sent /\ Copying
      BY <1>6 DEF CrawlerPush, CrawlerSlept, Copying
    <2>2. CASE \E dropped \in BOOLEAN : PastNode(dropped)
      BY <2>1, <2>2, PassedNode
    <2>3. CASE CrawlerGoes("copy")
      BY <1>3, <2>1, <2>3 DEF CrawlerPCs
    <2> QED
      BY <1>6, <2>2, <2>3 DEF CrawlerPush, CrawlerSlept, Drop
  <1>7. CASE Open
    <2>1. cr' = NewCrawler
      BY <1>7 DEF Open
    <2>2. cr'.pc = "check" /\ cr'.frames = <<>>
      BY <2>1 DEF NewCrawler
    <2> QED
      BY <2>2 DEF CrawlerInv, Copying
  <1>8. CASE Next
    <2>1. CASE \E c \in Chips : Isr(c) \/ \E f \in Flows : StreamRead(c, f)
      BY <1>1, <2>1 DEF Isr, StreamRead
    <2>2. CASE SetReadAbort \/ CloseExit \/ CloseAbort \/ CloseClear
      BY <1>1, <2>2 DEF SetReadAbort, CloseExit, CloseAbort, CloseClear
    <2>3. CASE CloseJoin \/ CloseDummyRead \/ CloseDummyAck \/ CloseFree
      BY <1>1, <2>3 DEF CloseJoin, CloseDummyRead, CloseDummyAck, CloseFree
    <2> QED
      BY <1>2, <1>4, <1>5, <1>6, <1>7, <1>8, <2>1, <2>2, <2>3 DEF Next, Crawler, Close
  <1> QED
    BY <1>1, <1>8 DEF vars

-----------------------------------------------------------------------------
(* What is true of notifications, buffers and the crawler. *)
BatchInv == StateType /\ AnnounceInv /\ BufferInv /\ CrawlerInv

(* At first every chip may write and nothing was announced. *)
LEMMA BatchInit == Init => BatchInv
  <1> SUFFICES ASSUME Init PROVE BatchInv
    OBVIOUS
  <1>1. /\ ready = [c \in Chips |-> TRUE] /\ irq = [c \in Chips |-> FALSE]
        /\ fifo = <<>> /\ cr = [NewCrawler EXCEPT !.pc = "gone"]
        /\ app = [pc |-> "closed", chip |-> 0, session |-> 0]
    BY DEF Init
  <1>2. cr.pc = "gone" /\ cr.frames = <<>> /\ app.pc = "closed" /\ DOMAIN fifo = {}
    BY <1>1 DEF NewCrawler
  <1>3. NoRepeats(fifo) /\ \A c : ~InFifo(c)
    BY <1>2 DEF NoRepeats, InFifo, In
  <1>4. \A c \in Chips : ~Busy(c) /\ ~Dummy(c) /\ ~irq[c] /\ ready[c]
    BY <1>1, <1>2 DEF Busy, Dummy
  <1>5. AnnounceInv
    BY <1>2, <1>3, <1>4 DEF AnnounceInv, NoneTwice, Announced
  <1>6. BufferInv /\ CrawlerInv
    BY <1>2, <1>4 DEF BufferInv, CrawlerInv, Copying
  <1> QED
    BY <1>5, <1>6, StateTypeInit DEF BatchInv

(* Every step keeps it. *)
LEMMA BatchNext == BatchInv /\ [Next]_vars => BatchInv'
  BY StateTypeNext, AnnounceNext, BufferNext, CrawlerNext DEF BatchInv, CrawlerInv

(* It is true in every state. *)
LEMMA BatchHolds == Spec => []BatchInv
  BY BatchInit, BatchNext, PTL DEF Spec

(* The entries of the fifo that name chip c are one or none. *)
LEMMA EntriesOf ==
    ASSUME StateType, AnnounceInv, NEW c
    PROVE  Cardinality({i \in DOMAIN fifo : fifo[i] = c}) = IF InFifo(c) THEN 1 ELSE 0
  <1> DEFINE T == {i \in DOMAIN fifo : fifo[i] = c}
  <1>1. CASE InFifo(c)
    <2>1. PICK i \in DOMAIN fifo : fifo[i] = c
      BY <1>1 DEF InFifo, In
    <2>2. T = {i}
      BY <2>1 DEF AnnounceInv, NoRepeats
    <2> HIDE DEF T
    <2>3. Cardinality(T) = 1
      BY <2>2, FS_Singleton
    <2> QED
      BY <1>1, <2>3 DEF T
  <1>2. CASE ~InFifo(c)
    <2>1. T = {}
      BY <1>2 DEF InFifo, In
    <2> HIDE DEF T
    <2>2. Cardinality(T) = 0
      BY <2>1, FS_EmptySet
    <2> QED
      BY <1>2, <2>2 DEF T
  <1> QED
    BY <1>1, <1>2

(* A chip that waits for its acknowledgement has exactly one notification  *)
(* on its way through the handler's fifo, the crawler or the reads of a    *)
(* close, and a chip that may write has none: the fifo never overflows, no *)
(* abort of a wake-up loses an entry, and nobody acknowledges twice.       *)
THEOREM ChipAnnouncedOnceHolds == Spec => []ChipAnnouncedOnce
  <1>1. BatchInv => ChipAnnouncedOnce
    <2> SUFFICES ASSUME BatchInv, NEW c \in Chips
                 PROVE  IF ready[c] THEN Notifications(c) = 0
                        ELSE IF cleared THEN Notifications(c) <= 1
                                        ELSE Notifications(c) = 1
      BY DEF ChipAnnouncedOnce
    <2>1. Cardinality({i \in DOMAIN fifo : fifo[i] = c}) = IF InFifo(c) THEN 1 ELSE 0
      BY EntriesOf DEF BatchInv
    <2>2. Notifications(c) =
             (IF irq[c] THEN 1 ELSE 0) + (IF InFifo(c) THEN 1 ELSE 0)
             + (IF Busy(c) THEN 1 ELSE 0) + (IF Dummy(c) THEN 1 ELSE 0)
      BY <2>1 DEF Notifications, Busy, Dummy
    <2>3. /\ NoneTwice(c) /\ (ready[c] => ~Announced(c))
          /\ ~ready[c] /\ ~cleared => Announced(c)
      BY DEF BatchInv, AnnounceInv
    <2>4. CASE ~Announced(c)
      <3>1. Notifications(c) = 0
        BY <2>2, <2>4 DEF Announced
      <3> QED
        BY <2>3, <2>4, <3>1
    <2>5. CASE Announced(c)
      <3>1. Notifications(c) = 1
        BY <2>2, <2>3, <2>5 DEF Announced, NoneTwice
      <3> QED
        BY <2>3, <2>5, <3>1
    <2> QED
      BY <2>4, <2>5
  <1> QED
    BY <1>1, BatchHolds, PTL

-----------------------------------------------------------------------------
(* The frames of a flow. *)
Item(session, number) == [session |-> session, n |-> number]
Joined(r, l, s) == r \o [i \in DOMAIN l |-> Item(s, l[i])]

(* A frame as the application reads it. *)
LEMMA ItemIs ==
    ASSUME NEW s \in Nat, NEW n \in Nat
    PROVE  Item(s, n) \in Items /\ Item(s, n).session = s /\ Item(s, n).n = n
  BY DEF Item, Items

(* Frames that were read, and those in the list as they would be read now. *)
LEMMA JoinedIs ==
    ASSUME NEW r \in Seq(Items), NEW l \in Seq(Nat), NEW s \in Nat
    PROVE  /\ Joined(r, l, s) \in Seq(Items)
           /\ Len(r) \in Nat /\ Len(l) \in Nat
           /\ Len(Joined(r, l, s)) = Len(r) + Len(l)
           /\ \A k \in 1 .. Len(r) : Joined(r, l, s)[k] = r[k]
           /\ \A k \in 1 .. Len(l) :
                 Joined(r, l, s)[Len(r) + k] = Item(s, l[k])
  <1> DEFINE m == [i \in DOMAIN l |-> Item(s, l[i])]
  <1>1. /\ Len(l) \in Nat /\ DOMAIN l = 1 .. Len(l) /\ Len(r) \in Nat
        /\ \A i \in 1 .. Len(l) : l[i] \in Nat
    BY SeqSteps
  <1>2. m \in [1 .. Len(l) -> Items]
    <2>1. \A i \in 1 .. Len(l) : Item(s, l[i]) \in Items
      BY <1>1, ItemIs
    <2> QED
      BY <1>1, <2>1
  <1>3. \A k \in 1 .. Len(l) : m[k] = Item(s, l[k])
    BY <1>1
  <1> HIDE DEF m
  <1>4. m \in Seq(Items)
    <2>1. \E k \in Nat : m \in [1 .. k -> Items]
      BY <1>1, <1>2
    <2> QED
      BY <2>1, SeqDef
  <1>5. Len(m) = Len(l)
    BY <1>1, <1>2, <1>4, LenProperties
  <1>6. /\ r \o m \in Seq(Items) /\ Len(r \o m) = Len(r) + Len(m)
        /\ \A i \in 1 .. Len(r) + Len(m) :
              (r \o m)[i] = IF i <= Len(r) THEN r[i] ELSE m[i - Len(r)]
    BY <1>4, ConcatProperties
  <1>7. \A k \in 1 .. Len(r) : (r \o m)[k] = r[k]
    BY <1>1, <1>5, <1>6
  <1>8. \A k \in 1 .. Len(l) : (r \o m)[Len(r) + k] = m[k]
    <2>1. ASSUME NEW k \in 1 .. Len(l) PROVE (r \o m)[Len(r) + k] = m[k]
      <3>1. /\ Len(r) + k \in 1 .. Len(r) + Len(m) /\ ~(Len(r) + k <= Len(r))
            /\ Len(r) + k - Len(r) = k
        BY <1>1, <1>5
      <3> QED
        BY <1>6, <3>1
    <2> QED
      BY <2>1
  <1> QED
    BY <1>1, <1>3, <1>5, <1>6, <1>7, <1>8 DEF Joined, m

(* Reading the oldest frame of a list changes nothing. *)
LEMMA JoinedRead ==
    ASSUME NEW r \in Seq(Items), NEW l \in Seq(Nat), NEW s \in Nat, l # <<>>
    PROVE  Joined(Append(r, Item(s, Head(l))), Tail(l), s) = Joined(r, l, s)
  <1> DEFINE x == Item(s, Head(l))
             a == Append(r, x)
             t == Tail(l)
             old == Joined(r, l, s)
             new == Joined(a, t, s)
  <1>1. /\ Len(l) \in Nat /\ Len(l) >= 1 /\ Head(l) \in Nat /\ Head(l) = l[1]
        /\ t \in Seq(Nat) /\ Len(t) = Len(l) - 1
        /\ \A i \in 1 .. Len(l) - 1 : t[i] = l[i + 1]
    BY SeqSteps
  <1>2. x \in Items
    BY <1>1, ItemIs
  <1>x. x = Item(s, l[1])
    BY <1>1
  <1> HIDE DEF x
  <1>3. /\ a \in Seq(Items) /\ Len(r) \in Nat /\ Len(a) = Len(r) + 1
        /\ \A i \in 1 .. Len(r) : a[i] = r[i]
        /\ a[Len(r) + 1] = x
    BY <1>2, AppendProperties, LenProperties
  <1> HIDE DEF a, t
  <1>4. /\ old \in Seq(Items) /\ Len(old) = Len(r) + Len(l)
        /\ \A k \in 1 .. Len(r) : old[k] = r[k]
        /\ \A k \in 1 .. Len(l) : old[Len(r) + k] = Item(s, l[k])
    BY JoinedIs
  <1>5. /\ new \in Seq(Items) /\ Len(new) = Len(a) + Len(t)
        /\ \A k \in 1 .. Len(a) : new[k] = a[k]
        /\ \A k \in 1 .. Len(t) : new[Len(a) + k] = Item(s, t[k])
    <2>1. a \in Seq(Items) /\ t \in Seq(Nat)
      BY <1>1, <1>3
    <2>2. ASSUME NEW v \in Seq(Items), NEW w \in Seq(Nat)
          PROVE  /\ Joined(v, w, s) \in Seq(Items)
                 /\ Len(Joined(v, w, s)) = Len(v) + Len(w)
                 /\ \A k \in 1 .. Len(v) : Joined(v, w, s)[k] = v[k]
                 /\ \A k \in 1 .. Len(w) : Joined(v, w, s)[Len(v) + k] = Item(s, w[k])
      BY JoinedIs
    <2> QED
      BY <2>1, <2>2
  <1> HIDE DEF old, new
  <1>6. Len(new) = Len(old)
    BY <1>1, <1>3, <1>4, <1>5
  <1>7. ASSUME NEW i \in 1 .. Len(new) PROVE new[i] = old[i]
    <2>1. i \in Int /\ i >= 1 /\ i <= Len(r) + Len(l)
      BY <1>1, <1>3, <1>4, <1>6
    <2>2. CASE i <= Len(r)
      <3>1. i \in 1 .. Len(r) /\ i \in 1 .. Len(a)
        BY <1>3, <2>1, <2>2
      <3> QED
        BY <1>3, <1>4, <1>5, <3>1
    <2>3. CASE i = Len(r) + 1
      <3>1. i \in 1 .. Len(a) /\ 1 \in 1 .. Len(l)
        BY <1>1, <1>3, <2>1, <2>3
      <3>2. new[i] = x
        BY <1>3, <1>5, <2>3, <3>1
      <3>3. old[i] = Item(s, l[1])
        BY <1>4, <2>3, <3>1
      <3> QED
        BY <1>x, <3>2, <3>3
    <2>4. CASE i > Len(r) + 1
      <3>1. PICK k \in 1 .. Len(t) : i = Len(a) + k
        <4>1. /\ i - Len(a) \in 1 .. Len(t) /\ i = Len(a) + (i - Len(a))
          BY <1>1, <1>3, <2>1, <2>4
        <4> QED
          BY <4>1
      <3>2. k + 1 \in 1 .. Len(l) /\ i = Len(r) + (k + 1) /\ k \in 1 .. Len(l) - 1
        BY <1>1, <1>3, <3>1
      <3>3. new[i] = Item(s, t[k])
        BY <1>5, <3>1
      <3>4. old[i] = Item(s, l[k + 1])
        BY <1>4, <3>2
      <3> QED
        BY <1>1, <3>2, <3>3, <3>4
    <2> QED
      BY <1>3, <2>1, <2>2, <2>3, <2>4
  <1>8. new = old
    BY <1>4, <1>5, <1>6, <1>7, SeqEqual
  <1> QED
    BY <1>8 DEF new, old, a, t, x

(* A frame that is pushed to a list is the last. *)
LEMMA JoinedPushed ==
    ASSUME NEW r \in Seq(Items), NEW l \in Seq(Nat), NEW s \in Nat, NEW n \in Nat
    PROVE  Joined(r, Append(l, n), s) = Append(Joined(r, l, s), Item(s, n))
  <1> DEFINE x == Item(s, n)
             a == Append(l, n)
             d == Joined(r, l, s)
             old == Append(d, x)
             new == Joined(r, a, s)
  <1>1. /\ a \in Seq(Nat) /\ Len(l) \in Nat /\ Len(a) = Len(l) + 1
        /\ \A i \in 1 .. Len(l) : a[i] = l[i]
        /\ a[Len(l) + 1] = n
    BY AppendProperties, LenProperties
  <1>2. x \in Items
    BY ItemIs
  <1>x. x = Item(s, n)
    OBVIOUS
  <1> HIDE DEF x, a
  <1>3. /\ d \in Seq(Items) /\ Len(r) \in Nat /\ Len(d) = Len(r) + Len(l)
        /\ \A k \in 1 .. Len(r) : d[k] = r[k]
        /\ \A k \in 1 .. Len(l) : d[Len(r) + k] = Item(s, l[k])
    BY JoinedIs
  <1>4. /\ new \in Seq(Items) /\ Len(new) = Len(r) + Len(a)
        /\ \A k \in 1 .. Len(r) : new[k] = r[k]
        /\ \A k \in 1 .. Len(a) : new[Len(r) + k] = Item(s, a[k])
    BY <1>1, JoinedIs
  <1> HIDE DEF d, new
  <1>5. /\ old \in Seq(Items) /\ Len(old) = Len(d) + 1
        /\ \A i \in 1 .. Len(d) : old[i] = d[i]
        /\ old[Len(d) + 1] = x
    BY <1>2, <1>3, AppendProperties
  <1> HIDE DEF old
  <1>6. Len(new) = Len(old)
    BY <1>1, <1>3, <1>4, <1>5
  <1>7. ASSUME NEW i \in 1 .. Len(new) PROVE new[i] = old[i]
    <2>1. i \in Int /\ i >= 1 /\ i <= Len(r) + Len(l) + 1
      BY <1>1, <1>3, <1>4
    <2>2. CASE i <= Len(r)
      <3>1. i \in 1 .. Len(r) /\ i \in 1 .. Len(d)
        BY <1>1, <1>3, <2>1, <2>2
      <3> QED
        BY <1>3, <1>4, <1>5, <3>1
    <2>3. CASE i > Len(r) /\ i <= Len(r) + Len(l)
      <3>1. PICK k \in 1 .. Len(l) : i = Len(r) + k
        <4>1. i - Len(r) \in 1 .. Len(l) /\ i = Len(r) + (i - Len(r))
          BY <1>1, <1>3, <2>1, <2>3
        <4> QED
          BY <4>1
      <3>2. k \in 1 .. Len(a) /\ i \in 1 .. Len(d)
        BY <1>1, <1>3, <2>1, <2>3, <3>1
      <3>3. new[i] = Item(s, a[k]) /\ a[k] = l[k]
        BY <1>1, <1>4, <3>1, <3>2
      <3>4. old[i] = Item(s, l[k])
        BY <1>3, <1>5, <3>1, <3>2
      <3> QED
        BY <3>3, <3>4
    <2>4. CASE i = Len(r) + Len(l) + 1
      <3>1. Len(l) + 1 \in 1 .. Len(a) /\ i = Len(r) + (Len(l) + 1) /\ i = Len(d) + 1
        BY <1>1, <1>3, <2>4
      <3>2. new[i] = Item(s, a[Len(l) + 1])
        BY <1>4, <3>1
      <3> QED
        BY <1>1, <1>5, <1>x, <3>1, <3>2
    <2> QED
      BY <1>1, <1>3, <2>1, <2>2, <2>3, <2>4
  <1>8. new = old
    BY <1>4, <1>5, <1>6, <1>7, SeqEqual
  <1> QED
    BY <1>8 DEF new, old, d, a, x

(* With an empty list there is what was read. *)
LEMMA JoinedEmpty ==
    ASSUME NEW r \in Seq(Items), NEW s \in Nat
    PROVE  Joined(r, <<>>, s) = r
  <1> DEFINE d == Joined(r, <<>>, s)
  <1>1. <<>> \in Seq(Nat) /\ Len(<<>>) = 0
    BY EmptySeq
  <1>2. /\ d \in Seq(Items) /\ Len(r) \in Nat /\ Len(d) = Len(r) + 0
        /\ \A k \in 1 .. Len(r) : d[k] = r[k]
    BY <1>1, JoinedIs
  <1> HIDE DEF d
  <1>3. Len(d) = Len(r) /\ \A k \in 1 .. Len(d) : d[k] = r[k]
    BY <1>2
  <1>4. d = r
    BY <1>2, <1>3, SeqEqual
  <1> QED
    BY <1>4 DEF d

-----------------------------------------------------------------------------
(* The order of a flow's frames. *)

(* It stays when the crawler goes on without delivering. *)
LEMMA OrderedStays ==
    ASSUME NEW d \in Seq(Items), NEW t \in Int, NEW s \in Nat, NEW a, Ordered(d, t, s, a),
           NEW u \in Int, t <= u, NEW b, b => a /\ u = t
    PROVE  Ordered(d, u, s, b)
  <1>1. \A k \in 1 .. Len(d) : d[k].n \in Nat
    <2>1. \A k \in 1 .. Len(d) : d[k] \in Items
      BY SeqSteps
    <2> QED
      BY <2>1 DEF Items
  <1>2. /\ \A k \in 1 .. Len(d) : d[k].n <= t /\ d[k].session <= s
        /\ Consecutive(d)
        /\ a /\ Len(d) > 0 /\ d[Len(d)].session = s => d[Len(d)].n = t
    BY DEF Ordered
  <1>3. \A k \in 1 .. Len(d) : d[k].n <= u /\ d[k].session <= s
    BY <1>1, <1>2
  <1>4. b /\ Len(d) > 0 /\ d[Len(d)].session = s => d[Len(d)].n = u
    BY <1>2
  <1> QED
    BY <1>2, <1>3, <1>4 DEF Ordered

(* It stays when the next frame is delivered. *)
LEMMA OrderedPushed ==
    ASSUME NEW d \in Seq(Items), NEW t \in Int, NEW s \in Nat, NEW a, a,
           Ordered(d, t, s, a), NEW u \in Nat, u = t + 1, NEW b
    PROVE  Ordered(Append(d, Item(s, u)), u, s, b)
  <1> DEFINE x == Item(s, u)
             e == Append(d, x)
  <1>1. x \in Items /\ x.session = s /\ x.n = u
    BY ItemIs
  <1> HIDE DEF x
  <1>2. /\ Len(d) \in Nat /\ e \in Seq(Items) /\ Len(e) = Len(d) + 1
        /\ \A k \in 1 .. Len(d) : e[k] = d[k]
        /\ e[Len(d) + 1] = x
    BY <1>1, AppendProperties, LenProperties
  <1> HIDE DEF e
  <1>3. /\ \A k \in 1 .. Len(d) : d[k].n <= t /\ d[k].session <= s
        /\ Consecutive(d)
        /\ Len(d) > 0 /\ d[Len(d)].session = s => d[Len(d)].n = t
    BY DEF Ordered
  <1>4. \A k \in 1 .. Len(d) : d[k].n \in Nat /\ d[k].session \in Nat
    <2>1. \A k \in 1 .. Len(d) : d[k] \in Items
      BY SeqSteps
    <2> QED
      BY <2>1 DEF Items
  <1>5. ASSUME NEW k \in 1 .. Len(e) PROVE e[k].n <= u /\ e[k].session <= s
    <2>1. CASE k \in 1 .. Len(d)
      BY <1>2, <1>3, <1>4, <2>1
    <2>2. CASE k = Len(d) + 1
      BY <1>1, <1>2, <2>2
    <2> QED
      BY <1>2, <2>1, <2>2
  <1>6. ASSUME NEW k \in 1 .. Len(e) - 1
        PROVE  /\ e[k].n < e[k + 1].n
               /\ e[k].session = e[k + 1].session => e[k + 1].n = e[k].n + 1
    <2>1. k \in 1 .. Len(d) /\ e[k] = d[k]
      BY <1>2
    <2>2. CASE k < Len(d)
      <3>1. k \in 1 .. Len(d) - 1 /\ k + 1 \in 1 .. Len(d)
        BY <1>2, <2>1, <2>2
      <3>2. e[k + 1] = d[k + 1]
        BY <1>2, <3>1
      <3> QED
        BY <1>3, <2>1, <3>1, <3>2 DEF Consecutive
    <2>3. CASE k = Len(d)
      <3>1. e[k + 1] = x /\ d[k].n \in Nat /\ d[k].n <= t
        BY <1>2, <1>3, <1>4, <2>1, <2>3
      <3>2. d[k].session = s => d[k].n = t
        BY <1>2, <1>3, <2>1, <2>3
      <3>3. e[k].n < u
        BY <2>1, <3>1
      <3>4. e[k].session = s => u = e[k].n + 1
        BY <2>1, <3>1, <3>2
      <3> QED
        BY <1>1, <3>1, <3>3, <3>4
    <2> QED
      BY <1>2, <2>1, <2>2, <2>3
  <1>7. e[Len(e)].n = u
    BY <1>1, <1>2
  <1>8. Ordered(e, u, s, b)
    BY <1>5, <1>6, <1>7 DEF Ordered, Consecutive
  <1> QED
    BY <1>8 DEF e, x

(* It stays when the lists are freed after the crawler ended. *)
LEMMA OrderedFreed ==
    ASSUME NEW r \in Seq(Items), NEW l \in Seq(Nat), NEW s \in Nat, NEW t, NEW a,
           Ordered(Joined(r, l, s), t, s, a), NEW b, ~b
    PROVE  Ordered(r, t, s, b)
  <1> DEFINE d == Joined(r, l, s)
  <1>1. /\ d \in Seq(Items) /\ Len(r) \in Nat /\ Len(l) \in Nat
        /\ Len(d) = Len(r) + Len(l)
        /\ \A k \in 1 .. Len(r) : d[k] = r[k]
    BY JoinedIs
  <1>2. Ordered(d, t, s, a)
    OBVIOUS
  <1> HIDE DEF d
  <1>3. /\ \A k \in 1 .. Len(d) : d[k].n <= t /\ d[k].session <= s
        /\ \A k \in 1 .. Len(d) - 1 :
              /\ d[k].n < d[k + 1].n
              /\ d[k].session = d[k + 1].session => d[k + 1].n = d[k].n + 1
    BY <1>2 DEF Ordered, Consecutive
  <1>4. ASSUME NEW k \in 1 .. Len(r) PROVE r[k].n <= t /\ r[k].session <= s
    <2>1. k \in 1 .. Len(d) /\ d[k] = r[k]
      BY <1>1
    <2> QED
      BY <1>3, <2>1
  <1>5. ASSUME NEW k \in 1 .. Len(r) - 1
        PROVE  /\ r[k].n < r[k + 1].n
               /\ r[k].session = r[k + 1].session => r[k + 1].n = r[k].n + 1
    <2>1. k \in 1 .. Len(d) - 1 /\ k \in 1 .. Len(r) /\ k + 1 \in 1 .. Len(r)
      BY <1>1
    <2>2. d[k] = r[k] /\ d[k + 1] = r[k + 1]
      BY <1>1, <2>1
    <2> QED
      BY <1>3, <2>1, <2>2
  <1> QED
    BY <1>4, <1>5 DEF Ordered, Consecutive

(* It stays when the device is opened again. *)
LEMMA OrderedOpened ==
    ASSUME NEW d \in Seq(Items), NEW t, NEW s \in Nat, NEW a, Ordered(d, t, s, a), NEW b
    PROVE  Ordered(d, t, s + 1, b)
  <1>1. \A k \in 1 .. Len(d) : d[k].session \in Nat
    <2>1. \A k \in 1 .. Len(d) : d[k] \in Items
      BY SeqSteps
    <2> QED
      BY <2>1 DEF Items
  <1>2. Consecutive(d) /\ \A k \in 1 .. Len(d) : d[k].n <= t /\ d[k].session <= s
    BY DEF Ordered
  <1>3. \A k \in 1 .. Len(d) : d[k].session <= s + 1 /\ d[k].session # s + 1
    BY <1>1, <1>2
  <1>4. Len(d) \in Nat /\ (Len(d) > 0 => Len(d) \in 1 .. Len(d))
    BY SeqSteps
  <1> QED
    BY <1>2, <1>3, <1>4 DEF Ordered

-----------------------------------------------------------------------------
(* What the crawler has passed. *)

(* Frames are the read ones and those in the list. *)
LEMMA FramesAre ==
    ASSUME StateType, NEW c \in Chips, NEW f \in Flows
    PROVE  /\ received[c][f] \in Seq(Items) /\ list[c][f] \in Seq(Nat)
           /\ app.session \in Nat
           /\ Frames(c, f) = Joined(received[c][f], list[c][f], app.session)
           /\ Frames(c, f) \in Seq(Items)
  <1>1. /\ received[c][f] \in Seq(Items) /\ list[c][f] \in Seq(Nat)
        /\ app.session \in Nat
    BY PcieAssumption DEF StateType, ListType, HostType
  <1>2. Frames(c, f) = Joined(received[c][f], list[c][f], app.session)
    BY DEF Frames, Joined, Item
  <1> QED
    BY <1>1, <1>2, JoinedIs

(* Nothing is left of an empty batch. *)
LEMMA RemainingIs ==
    ASSUME NEW p, NEW f
    PROVE  Remaining(p, f) \in 0 .. 2 /\ Remaining(<<>>, f) = 0
  BY DEF Remaining, TwiceIn, FlowsOf

(* The place of a chip's batch says what is ahead. *)
LEMMA PassedSame ==
    ASSUME NEW c \in Chips, NEW f \in Flows,
           ready'[c] = ready[c], buffer'[c] = buffer[c], sent'[c] = sent[c],
           (cr'.chip = c /\ Copying') <=> (cr.chip = c /\ Copying),
           cr.chip = c /\ Copying => cr'.frames = cr.frames,
           Busy(c)' <=> Busy(c), Dummy(c)' <=> Dummy(c)
    PROVE  Passed(c, f)' = Passed(c, f)
  <1>1. Ahead(c)' = Ahead(c)
    <2>1. CASE cr.chip = c /\ Copying
      BY <2>1 DEF Ahead
    <2>2. CASE ~(cr.chip = c /\ Copying)
      BY <2>2 DEF Ahead
    <2> QED
      BY <2>1, <2>2
  <1> QED
    BY <1>1 DEF Passed

(* How many frames were passed is a number. *)
LEMMA PassedType ==
    ASSUME StateType, NEW c \in Chips, NEW f \in Flows
    PROVE  Passed(c, f) \in Int
  <1>1. sent[c][f] \in Nat
    BY DEF StateType, DeviceType
  <1>2. Remaining(Ahead(c), f) \in 0 .. 2
    BY RemainingIs
  <1> QED
    BY <1>1, <1>2 DEF Passed

(* The crawler goes past the next frame of its batch. *)
Passing == Copying /\ \E dropped \in BOOLEAN : PastNode(dropped)

(* It has then passed one more, the frame it was at. *)
LEMMA PassedPassing ==
    ASSUME BatchInv, Passing, UNCHANGED <<ready, buffer, sent, app>>,
           NEW c \in Chips, NEW f \in Flows
    PROVE  /\ c = cr.chip /\ f = Node.flow =>
                 Passed(c, f)' = Passed(c, f) + 1 /\ Node.n = Passed(c, f)'
           /\ c # cr.chip \/ f # Node.flow => Passed(c, f)' = Passed(c, f)
  <1>1. PICK dropped \in BOOLEAN : PastNode(dropped)
    BY DEF Passing
  <1>2. /\ cr \in Crawlers /\ cr.frames # <<>> /\ AtMostTwo(cr.frames)
        /\ Numbered(sent[cr.chip], cr.frames) /\ Copying
    BY DEF Passing, BatchInv, CrawlerInv, StateType, HostType
  <1>3. cr'.chip = cr.chip /\ cr'.frames = Tail(cr.frames) /\ Node \in Nodes
    BY <1>1, <1>2, CrawlerPasses
  <1>4. CrawlerInv' /\ cr'.pc \in {"copy", "ack"}
    BY <1>1, <1>2, PassedNode DEF BatchInv
  <1>5. PICK p \in Seq(Nodes) : p = cr.frames
    BY <1>2 DEF Crawlers
  <1>6. PICK q : q = Tail(p)
    OBVIOUS
  <1>7. CASE c = cr.chip
    <2>1. PICK s \in [Flows -> Nat] : s = sent[c]
      BY DEF BatchInv, StateType, DeviceType
    <2>2. PICK g \in Flows : g = Node.flow /\ g = Head(p).flow
      BY <1>3, <1>5 DEF Nodes, Node
    <2>3. p # <<>> /\ AtMostTwo(p) /\ Numbered(s, p)
      BY <1>2, <1>5, <1>7, <2>1
    <2>4. /\ Remaining(p, g) = Remaining(q, g) + 1
          /\ f # g => Remaining(p, f) = Remaining(q, f)
          /\ Head(p).n = s[g] - Remaining(q, g)
      <3>1. g = Head(p).flow
        BY <2>2
      <3>2. /\ TwiceIn(q) = TwiceIn(p) \ {g}
            /\ FlowsOf(q) = IF g \in TwiceIn(p) THEN FlowsOf(p) ELSE FlowsOf(p) \ {g}
            /\ g \in FlowsOf(p)
            /\ g \in TwiceIn(p) <=> g \in FlowsOf(q)
            /\ Head(p).n = IF g \in TwiceIn(p) THEN s[g] - 1 ELSE s[g]
        BY <1>6, <2>3, <3>1, PastHead
      <3>3. Remaining(q, g) = IF g \in TwiceIn(p) THEN 1 ELSE 0
        BY <3>2 DEF Remaining
      <3>4. Remaining(p, g) = IF g \in TwiceIn(p) THEN 2 ELSE 1
        BY <3>2 DEF Remaining
      <3>5. f # g => Remaining(p, f) = Remaining(q, f)
        <4>1. f # g => /\ f \in TwiceIn(q) <=> f \in TwiceIn(p)
                       /\ f \in FlowsOf(q) <=> f \in FlowsOf(p)
          BY <3>2
        <4> QED
          BY <4>1 DEF Remaining
      <3>6. s[g] \in Nat
        OBVIOUS
      <3> QED
        BY <3>2, <3>3, <3>4, <3>5, <3>6
    <2>5. Ahead(c) = p
      BY <1>2, <1>5, <1>7 DEF Ahead
    <2>6. Ahead(c)' = q
      <3>1. CASE cr'.pc = "copy"
        BY <1>3, <1>5, <1>6, <1>7, <3>1 DEF Ahead, Copying
      <3>2. CASE cr'.pc = "ack"
        <4>1. cr'.frames = <<>> /\ ~Copying'
          BY <1>4, <3>2 DEF CrawlerInv, Copying
        <4>2. Busy(c)'
          BY <1>3, <1>7, <3>2 DEF Busy
        <4> QED
          BY <1>3, <1>5, <1>6, <4>1, <4>2 DEF Ahead
      <3> QED
        BY <1>4, <3>1, <3>2
    <2>7. Passed(c, f) = s[f] - Remaining(p, f) /\ Passed(c, f)' = s[f] - Remaining(q, f)
      BY <2>1, <2>5, <2>6 DEF Passed
    <2>8. Remaining(p, f) \in 0 .. 2 /\ Remaining(q, f) \in 0 .. 2 /\ s[f] \in Nat
      BY RemainingIs
    <2>9. CASE f = g
      <3>1. Passed(c, f)' = Passed(c, f) + 1
        BY <2>4, <2>7, <2>8, <2>9
      <3>2. Node.n = s[g] - Remaining(q, g)
        BY <1>5, <2>4 DEF Node
      <3> QED
        BY <1>7, <2>2, <2>7, <2>9, <3>1, <3>2
    <2>10. CASE f # g
      BY <1>7, <2>2, <2>4, <2>7, <2>10
    <2> QED
      BY <2>9, <2>10
  <1>8. CASE c # cr.chip
    <2>1. /\ ~Busy(c) /\ ~Busy(c)' /\ cr'.chip # c
          /\ Dummy(c)' <=> Dummy(c)
      BY <1>3, <1>8 DEF Busy, Dummy
    <2> QED
      BY <1>8, <2>1, PassedSame
  <1> QED
    BY <1>7, <1>8

(* What a chip writes is ahead. *)
LEMMA PassedFill ==
    ASSUME BatchInv, NEW e \in Chips, NEW b \in Batches, DeviceFill(e, b),
           NEW c \in Chips, NEW f \in Flows
    PROVE  Passed(c, f)' = Passed(c, f)
  <1>1. /\ DeviceType' /\ ready[e] /\ ~ready'[e]
        /\ \A g \in Chips : g # e =>
              ready'[g] = ready[g] /\ buffer'[g] = buffer[g] /\ sent'[g] = sent[g]
        /\ DOMAIN buffer'[e] = DOMAIN b
        /\ \A i \in DOMAIN b :
              /\ buffer'[e][i].flow = b[i]
              /\ buffer'[e][i].n = sent[e][b[i]] + InBatch(SubSeq(b, 1, i), b[i])
        /\ \A g \in Flows : sent'[e][g] = sent[e][g] + InBatch(b, g)
    BY Filled DEF BatchInv
  <1>2. cr' = cr /\ app' = app
    BY DEF DeviceFill
  <1>3. /\ Busy(c)' <=> Busy(c)
        /\ Dummy(c)' <=> Dummy(c)
        /\ Copying' <=> Copying
    BY <1>2 DEF Busy, Dummy, Copying
  <1>4. CASE c # e
    BY <1>1, <1>2, <1>3, <1>4, PassedSame
  <1>5. CASE c = e
    <2>1. ~Busy(c) /\ ~Dummy(c)
      BY <1>1, <1>5 DEF BatchInv, AnnounceInv, Announced
    <2>2. ~(cr.chip = c /\ Copying)
      BY <2>1 DEF Busy, Copying
    <2>3. Ahead(c) = <<>> /\ Ahead(c)' = buffer'[c]
      BY <1>1, <1>2, <1>3, <1>5, <2>1, <2>2 DEF Ahead
    <2>4. PICK p \in Seq(Nodes) : p = buffer'[c]
      BY <1>1 DEF DeviceType
    <2>5. PICK s \in [Flows -> Nat] : s = sent[c]
      BY DEF BatchInv, StateType, DeviceType
    <2>6. PICK t \in [Flows -> Nat] : t = sent'[c]
      BY <1>1 DEF DeviceType
    <2>7. InBatch(b, f) = Remaining(p, f) /\ t[f] = s[f] + InBatch(b, f)
      <3>1. /\ DOMAIN p = DOMAIN b
            /\ \A i \in DOMAIN b :
                  p[i].flow = b[i] /\ p[i].n = s[b[i]] + InBatch(SubSeq(b, 1, i), b[i])
            /\ \A g \in Flows : t[g] = s[g] + InBatch(b, g)
        BY <1>1, <1>5, <2>4, <2>5, <2>6
      <3> QED
        BY <3>1, FilledBatch
    <2>8. Passed(c, f) = s[f] - 0 /\ Passed(c, f)' = t[f] - Remaining(p, f)
      BY <2>3, <2>4, <2>5, <2>6, RemainingIs DEF Passed
    <2>9. Remaining(p, f) \in 0 .. 2 /\ s[f] \in Nat
      BY RemainingIs
    <2> QED
      BY <2>7, <2>8, <2>9
  <1> QED
    BY <1>4, <1>5

(* Taking a batch and acknowledging it pass nothing.                       *)
LEMMA PassedAcknowledge ==
    ASSUME BatchInv,
           \/ fifo # <<>> /\ CrawlerTake /\ cr.pc \in {"read", "pop"}
                 /\ UNCHANGED <<ready, buffer, sent, app>>
           \/ CrawlerAck
           \/ CloseDummyAck,
           NEW c \in Chips, NEW f \in Flows
    PROVE  Passed(c, f)' = Passed(c, f)
  <1>a. /\ ready \in [Chips -> BOOLEAN] /\ cr \in Crawlers
        /\ app \in [pc : AppPCs, chip : Chips, session : 0 .. MaxSessions]
    BY DEF BatchInv, StateType, DeviceType, HostType
  <1>1. CASE fifo # <<>> /\ CrawlerTake /\ cr.pc \in {"read", "pop"}
                 /\ UNCHANGED <<ready, buffer, sent, app>>
    <2>1. PICK e : e = Head(fifo)
      OBVIOUS
    <2>2. /\ ~ready[e] /\ ~Dummy(e) /\ cr'.pc = "copy" /\ cr'.chip = e
          /\ cr'.frames = buffer[e]
      BY <1>1, <2>1, TakenBatch DEF BatchInv
    <2>3. ~Copying /\ Copying' /\ ~Busy(c) /\ (Dummy(c)' <=> Dummy(c))
      BY <1>1, <2>2 DEF Copying, Busy, Dummy
    <2>4. CASE c = e
      <3>1. Ahead(c)' = buffer[c] /\ Ahead(c) = buffer[c]
        BY <2>2, <2>3, <2>4 DEF Ahead
      <3> QED
        BY <1>1, <3>1 DEF Passed
    <2>5. CASE c # e
      <3>1. ~Busy(c)' /\ cr'.chip # c
        BY <2>2, <2>5 DEF Busy
      <3> QED
        BY <1>1, <2>3, <3>1, PassedSame
    <2> QED
      BY <2>4, <2>5
  <1>2. CASE CrawlerAck
    <2>1. /\ ready' = [ready EXCEPT ![cr.chip] = TRUE] /\ buffer' = buffer
          /\ sent' = sent /\ app' = app /\ cr.pc = "ack" /\ CrawlerGoes("check")
      BY <1>2 DEF CrawlerAck
    <2>2. cr'.pc = "check"
      BY <1>a, <2>1, CrawlerMoves DEF CrawlerPCs
    <2>3. ~Copying /\ ~Copying' /\ ~Busy(c)' /\ (Dummy(c)' <=> Dummy(c))
      BY <2>1, <2>2 DEF Copying, Busy, Dummy
    <2>4. CASE c = cr.chip
      <3>1. Busy(c) /\ ready'[c]
        BY <1>a, <2>1, <2>4 DEF Busy
      <3>2. Ahead(c) = <<>> /\ Ahead(c)' = <<>>
        BY <2>3, <3>1 DEF Ahead
      <3> QED
        BY <2>1, <3>2 DEF Passed
    <2>5. CASE c # cr.chip
      <3>1. ~Busy(c) /\ ready'[c] = ready[c]
        BY <1>a, <2>1, <2>5 DEF Busy
      <3> QED
        BY <2>1, <2>3, <3>1, PassedSame
    <2> QED
      BY <2>4, <2>5
  <1>3. CASE CloseDummyAck
    <2>1. /\ ready' = [ready EXCEPT ![app.chip] = TRUE] /\ buffer' = buffer
          /\ sent' = sent /\ cr' = cr /\ app.pc = "dummy_ack" /\ AppGoes("dummy_read")
      BY <1>3 DEF CloseDummyAck
    <2>2. app'.pc = "dummy_read" /\ cr.pc = "gone"
      BY <1>a, <2>1, AppMoves DEF AppPCs, BatchInv, AnnounceInv
    <2>3. ~Copying /\ ~Copying' /\ ~Busy(c)' /\ ~Busy(c) /\ ~Dummy(c)'
      BY <2>1, <2>2 DEF Copying, Busy, Dummy
    <2>4. CASE c = app.chip
      <3>1. Dummy(c) /\ ready'[c]
        BY <1>a, <2>1, <2>4 DEF Dummy
      <3>2. Ahead(c) = <<>> /\ Ahead(c)' = <<>>
        BY <2>3, <3>1 DEF Ahead
      <3> QED
        BY <2>1, <3>2 DEF Passed
    <2>5. CASE c # app.chip
      <3>1. ~Dummy(c) /\ ready'[c] = ready[c]
        BY <1>a, <2>1, <2>5 DEF Dummy
      <3> QED
        BY <2>1, <2>3, <3>1, PassedSame
    <2> QED
      BY <2>4, <2>5
  <1> QED
    BY <1>1, <1>2, <1>3

-----------------------------------------------------------------------------
(* Lists. *)

(* The order of a flow stays when nothing is delivered, read or freed. *)
LEMMA OrderQuiet ==
    ASSUME StateType, NEW c \in Chips, NEW f \in Flows, OrderInv(c, f),
           Frames(c, f)' = Frames(c, f), app'.session = app.session,
           Passed(c, f)' \in Int, Passed(c, f) <= Passed(c, f)',
           Complete' => Complete /\ Passed(c, f)' = Passed(c, f)
    PROVE  OrderInv(c, f)'
  <1>1. PICK d \in Seq(Items) : d = Frames(c, f)
    BY FramesAre
  <1>2. PICK t \in Int : t = Passed(c, f)
    BY PassedType
  <1>3. PICK u \in Int : u = Passed(c, f)'
    OBVIOUS
  <1>4. PICK s \in Nat : s = app.session
    BY FramesAre
  <1>5. Ordered(d, t, s, Complete)
    BY <1>1, <1>2, <1>4 DEF OrderInv
  <1>6. t <= u /\ (Complete' => Complete /\ u = t)
    BY <1>2, <1>3
  <1>7. Ordered(d, u, s, Complete')
    BY <1>5, <1>6, OrderedStays
  <1> QED
    BY <1>1, <1>3, <1>4, <1>7 DEF OrderInv

(* The lists stay in order when they do not change and nothing is passed.  *)
LEMMA ListQuiet ==
    ASSUME StateType, ListInv, list' = list, received' = received,
           app'.session = app.session, app'.pc # "closed",
           \A c \in Chips, f \in Flows : /\ Passed(c, f)' \in Int
                                         /\ Passed(c, f) <= Passed(c, f)',
           Complete' => /\ Complete
                        /\ \A c \in Chips, f \in Flows : Passed(c, f)' = Passed(c, f)
    PROVE  ListInv'
  <1>1. ASSUME NEW c \in Chips, NEW f \in Flows PROVE OrderInv(c, f)'
    <2>1. Frames(c, f)' = Frames(c, f)
      BY DEF Frames
    <2>2. OrderInv(c, f)
      BY DEF ListInv
    <2> QED
      BY <2>1, <2>2, OrderQuiet
  <1> QED
    BY <1>1 DEF ListInv

(* The same when no chip's batch goes another way.                         *)
LEMMA ListStays ==
    ASSUME StateType, ListInv, list' = list, received' = received,
           app'.session = app.session, app'.pc = "closed" => app.pc = "closed",
           \A c \in Chips, f \in Flows : Passed(c, f)' = Passed(c, f),
           Complete' => Complete
    PROVE  ListInv'
  <1>1. ASSUME NEW c \in Chips, NEW f \in Flows PROVE OrderInv(c, f)'
    <2>1. Frames(c, f)' = Frames(c, f)
      BY DEF Frames
    <2>2. OrderInv(c, f) /\ Passed(c, f) \in Int /\ Passed(c, f)' = Passed(c, f)
      BY PassedType DEF ListInv
    <2>3. Passed(c, f) <= Passed(c, f)'
      BY <2>2
    <2> QED
      BY <2>1, <2>2, <2>3, OrderQuiet
  <1> QED
    BY <1>1 DEF ListInv

(* A chip writes a batch, its handler runs, or the crawler or the          *)
(* application goes on without touching a list.                            *)
LEMMA ListOthers ==
    ASSUME BatchInv, ListInv,
           \/ \E c \in Chips : Isr(c) \/ \E b \in Batches : DeviceFill(c, b)
           \/ CrawlerCheck \/ CrawlerRead \/ CrawlerAborted \/ CrawlerWake \/ CrawlerPop
           \/ CrawlerFull \/ (CrawlerSlept /\ ~MayDrop) \/ CrawlerAck
           \/ SetReadAbort \/ CloseExit \/ CloseAbort \/ CloseClear \/ CloseJoin
           \/ CloseDummyAck
    PROVE  ListInv'
  <1> USE DEF deviceVars
  <1>a. /\ StateType /\ cr \in Crawlers /\ CrawlerInv
        /\ app \in [pc : AppPCs, chip : Chips, session : 0 .. MaxSessions]
    BY DEF BatchInv, StateType, HostType
  <1>1. CASE \E c \in Chips : Isr(c)
    <2>1. /\ UNCHANGED <<ready, buffer, sent, cr, app, list, received>>
      BY <1>1 DEF Isr
    <2>2. \A c \in Chips, f \in Flows : Passed(c, f)' = Passed(c, f)
      BY <2>1, PassedSame DEF Busy, Dummy, Copying
    <2> QED
      BY <1>a, <2>1, <2>2, ListStays DEF Complete
  <1>2. CASE \E c \in Chips : \E b \in Batches : DeviceFill(c, b)
    <2>1. UNCHANGED <<cr, app, list, received>>
      BY <1>2 DEF DeviceFill
    <2>2. \A c \in Chips, f \in Flows : Passed(c, f)' = Passed(c, f)
      BY <1>2, PassedFill
    <2> QED
      BY <1>a, <2>1, <2>2, ListStays DEF Complete
  <1>3. ASSUME UNCHANGED <<ready, buffer, sent, app, list, received>>,
               NEW pc \in CrawlerPCs, CrawlerGoes(pc), cr.pc # "gone",
               cr.pc \in {"copy", "full"} <=> pc \in {"copy", "full"},
               cr.pc = "ack" <=> pc = "ack"
        PROVE  ListInv'
    <2>1. /\ cr'.pc = pc /\ cr'.chip = cr.chip /\ cr'.frames = cr.frames
          /\ cr'.read_abort = cr.read_abort
      BY <1>a, <1>3, CrawlerMoves
    <2>2. \A c \in Chips : /\ Busy(c)' <=> Busy(c)
                           /\ Dummy(c)' <=> Dummy(c)
                           /\ Copying' <=> Copying
      BY <1>3, <2>1 DEF Busy, Dummy, Copying
    <2>3. \A c \in Chips, f \in Flows : Passed(c, f)' = Passed(c, f)
      BY <1>3, <2>1, <2>2, PassedSame
    <2>4. Complete' => Complete
      BY <1>3, <2>1 DEF Complete
    <2> QED
      BY <1>a, <1>3, <2>3, <2>4, ListStays
  <1>4. CASE \/ CrawlerCheck \/ CrawlerAborted \/ CrawlerWake \/ CrawlerFull
             \/ (CrawlerSlept /\ ~MayDrop)
    <2>1. UNCHANGED <<ready, buffer, sent, app, list, received>>
      BY <1>4 DEF CrawlerCheck, CrawlerAborted, CrawlerWake, CrawlerFull, CrawlerSlept
    <2>2. \E pc \in CrawlerPCs :
             /\ CrawlerGoes(pc) /\ cr.pc # "gone"
             /\ cr.pc \in {"copy", "full"} <=> pc \in {"copy", "full"}
             /\ cr.pc = "ack" <=> pc = "ack"
      BY <1>4 DEF CrawlerCheck, CrawlerAborted, CrawlerWake, CrawlerFull, CrawlerSlept,
                  CrawlerPCs
    <2> QED
      BY <1>3, <2>1, <2>2
  <1>5. CASE CrawlerRead \/ CrawlerPop
    <2>1. UNCHANGED <<ready, buffer, sent, app, list, received>> /\ cr.pc \in {"read", "pop"}
      BY <1>5 DEF CrawlerRead, CrawlerPop
    <2>2. CASE fifo = <<>>
      <3>1. \E pc \in CrawlerPCs :
               /\ CrawlerGoes(pc) /\ cr.pc # "gone"
               /\ cr.pc \in {"copy", "full"} <=> pc \in {"copy", "full"}
               /\ cr.pc = "ack" <=> pc = "ack"
        BY <1>5, <2>2 DEF CrawlerRead, CrawlerPop, CrawlerPCs
      <3> QED
        BY <1>3, <2>1, <3>1
    <2>3. CASE fifo # <<>>
      <3>1. CrawlerTake
        BY <1>5, <2>3 DEF CrawlerRead, CrawlerPop
      <3>2. \A c \in Chips, f \in Flows : Passed(c, f)' = Passed(c, f)
        BY <2>1, <2>3, <3>1, PassedAcknowledge
      <3>3. cr'.read_abort = cr.read_abort /\ cr'.pc = "copy"
        BY <1>a, <2>3, <3>1, CrawlerTakes
      <3>4. Complete' => Complete
        BY <2>1, <3>3 DEF Complete
      <3> QED
        BY <1>a, <2>1, <3>2, <3>4, ListStays
    <2> QED
      BY <2>2, <2>3
  <1>6. CASE CrawlerAck
    <2>1. UNCHANGED <<app, list, received>> /\ CrawlerGoes("check") /\ cr.pc = "ack"
      BY <1>6 DEF CrawlerAck
    <2>2. \A c \in Chips, f \in Flows : Passed(c, f)' = Passed(c, f)
      BY <1>6, PassedAcknowledge
    <2>3. cr'.read_abort = cr.read_abort
      BY <1>a, <2>1, CrawlerMoves DEF CrawlerPCs
    <2>4. Complete' => Complete
      BY <2>1, <2>3 DEF Complete
    <2> QED
      BY <1>a, <2>1, <2>2, <2>4, ListStays
  <1>7. ASSUME UNCHANGED <<ready, buffer, sent, cr, list, received>>,
               app'.session = app.session, app'.pc # "closed",
               app.pc # "dummy_ack", app'.pc # "dummy_ack"
        PROVE  ListInv'
    <2>1. \A c \in Chips, f \in Flows : Passed(c, f)' = Passed(c, f)
      BY <1>7, PassedSame DEF Busy, Dummy, Copying
    <2> QED
      BY <1>a, <1>7, <2>1, ListStays DEF Complete
  <1>8. CASE SetReadAbort
    <2>1. UNCHANGED <<ready, buffer, sent, cr, list, received, app>> /\ app.pc = "open"
      BY <1>8 DEF SetReadAbort
    <2> QED
      BY <1>7, <2>1
  <1>9. CASE CloseExit \/ CloseAbort \/ CloseClear \/ CloseJoin
    <2>1. /\ UNCHANGED <<ready, buffer, sent, cr, list, received>>
          /\ app.pc # "dummy_ack"
      BY <1>9 DEF CloseExit, CloseAbort, CloseClear, CloseJoin
    <2>2. PICK pc \in {"abort", "clear", "join", "dummy_read", "free"} : AppGoes(pc)
      BY <1>9 DEF CloseExit, CloseAbort, CloseClear, CloseJoin
    <2>3. pc \in AppPCs
      BY DEF AppPCs
    <2>4. app'.pc = pc /\ app'.session = app.session
      BY <1>a, <2>2, <2>3, AppMoves
    <2> QED
      BY <1>7, <2>1, <2>4
  <1>10. CASE CloseDummyAck
    <2>1. UNCHANGED <<cr, list, received>> /\ AppGoes("dummy_read")
      BY <1>10 DEF CloseDummyAck
    <2>2. \A c \in Chips, f \in Flows : Passed(c, f)' = Passed(c, f)
      BY <1>10, PassedAcknowledge
    <2>3. app'.pc = "dummy_read" /\ app'.session = app.session
      BY <1>a, <2>1, AppMoves DEF AppPCs
    <2> QED
      BY <1>a, <2>1, <2>2, <2>3, ListStays DEF Complete
  <1> QED
    BY <1>1, <1>2, <1>4, <1>5, <1>6, <1>8, <1>9, <1>10

(* A frame is passed that is not delivered, since one was dropped. *)
LEMMA ListDropped ==
    ASSUME BatchInv, ListInv, Passing, ~Complete', app' = app, app.pc # "closed",
           UNCHANGED <<ready, buffer, sent, list, received>>
    PROVE  ListInv'
  <1>1. ASSUME NEW c \in Chips, NEW f \in Flows
        PROVE  Passed(c, f)' \in Int /\ Passed(c, f) <= Passed(c, f)'
    <2>1. Passed(c, f) \in Int
      BY PassedType DEF BatchInv
    <2>2. Passed(c, f)' = Passed(c, f) \/ Passed(c, f)' = Passed(c, f) + 1
      BY PassedPassing
    <2> QED
      BY <2>1, <2>2
  <1> QED
    BY <1>1, ListQuiet DEF BatchInv

(* A frame is pushed to its list. *)
LEMMA ListPushed ==
    ASSUME BatchInv, ListInv, CrawlerPush
    PROVE  ListInv'
  <1> USE DEF deviceVars
  <1>1. /\ Copying /\ PastNode(FALSE) /\ app' = app /\ received' = received
        /\ UNCHANGED <<ready, buffer, sent>> /\ cr.pc = "copy"
    BY DEF CrawlerPush, Copying
  <1>2. Passing
    BY <1>1 DEF Passing
  <1>3. StateType /\ cr \in Crawlers /\ cr.frames # <<>>
    BY <1>1 DEF BatchInv, CrawlerInv, StateType, HostType
  <1>4. app.pc # "closed"
    BY <1>1 DEF BatchInv, AnnounceInv
  <1>5. cr'.read_abort = (cr.read_abort \/ FALSE)
    BY <1>1, <1>3, CrawlerPasses
  <1>6. /\ cr.chip \in Chips /\ Node.flow \in Flows /\ Node.n \in Nat
        /\ list' \in [Chips -> [Flows -> Seq(Nat)]]
        /\ cr.read_abort => list' = list
        /\ ~cr.read_abort =>
              list'[cr.chip][Node.flow] = Append(list[cr.chip][Node.flow], Node.n)
        /\ \A e \in Chips, g \in Flows :
              e # cr.chip \/ g # Node.flow => list'[e][g] = list[e][g]
        /\ Len(list[cr.chip][Node.flow]) < L
    BY <1>1, <1>3, Pushed
  <1>7. CASE cr.read_abort
    <2>1. ~Complete'
      BY <1>5, <1>7 DEF Complete
    <2> QED
      BY <1>1, <1>2, <1>4, <1>6, <1>7, <2>1, ListDropped
  <1>8. CASE ~cr.read_abort
    <2>1. Complete
      BY <1>1, <1>8 DEF Complete
    <2>2. ASSUME NEW c \in Chips, NEW f \in Flows
          PROVE  OrderInv(c, f)' /\ Len(list'[c][f]) <= L
      <3>1. OrderInv(c, f) /\ Len(list[c][f]) <= L
        BY DEF ListInv
      <3>2. PICK r \in Seq(Items) : r = received[c][f]
        BY <1>3, FramesAre
      <3>3. PICK l \in Seq(Nat) : l = list[c][f]
        BY <1>3, FramesAre
      <3>4. PICK s \in Nat : s = app.session
        BY <1>3, FramesAre
      <3>5. PICK t \in Int : t = Passed(c, f)
        BY <1>3, PassedType
      <3>6. Frames(c, f) = Joined(r, l, s)
        BY <1>3, <3>2, <3>3, <3>4, FramesAre
      <3>7. CASE c = cr.chip /\ f = Node.flow
        <4>1. Passed(c, f)' = t + 1 /\ Node.n = Passed(c, f)'
          BY <1>1, <1>2, <3>5, <3>7, PassedPassing
        <4>2. PICK u \in Nat : u = Node.n
          BY <1>6
        <4>3. list'[c][f] = Append(l, u) /\ u = t + 1 /\ Passed(c, f)' = u
          BY <1>6, <1>8, <3>3, <3>7, <4>1, <4>2
        <4>4. Frames(c, f)' = Joined(r, Append(l, u), s)
          BY <1>1, <3>2, <3>4, <4>3 DEF Frames, Joined, Item
        <4>5. Joined(r, Append(l, u), s) = Append(Joined(r, l, s), Item(s, u))
          BY JoinedPushed
        <4>6. PICK d \in Seq(Items) : d = Joined(r, l, s)
          BY JoinedIs
        <4>7. Ordered(d, t, s, Complete)
          BY <3>1, <3>4, <3>5, <3>6, <4>6 DEF OrderInv
        <4>8. Ordered(Append(d, Item(s, u)), u, s, Complete')
          BY <2>1, <4>3, <4>7, OrderedPushed
        <4>9. Frames(c, f)' = Append(d, Item(s, u)) /\ app'.session = s
          BY <1>1, <3>4, <4>4, <4>5, <4>6
        <4>10. OrderInv(c, f)'
          BY <4>3, <4>8, <4>9 DEF OrderInv
        <4>11. Len(list'[c][f]) <= L
          <5>1. Len(Append(l, u)) = Len(l) + 1 /\ Len(l) \in Nat
            BY AppendProperties, LenProperties
          <5>2. Len(l) < L
            BY <1>6, <3>3, <3>7
          <5> QED
            BY <4>3, <5>1, <5>2, PcieAssumption
        <4> QED
          BY <4>10, <4>11
      <3>8. CASE c # cr.chip \/ f # Node.flow
        <4>1. Passed(c, f)' = Passed(c, f)
          BY <1>1, <1>2, <3>8, PassedPassing
        <4>2. list'[c][f] = l
          BY <1>6, <3>3, <3>8
        <4>3. Frames(c, f)' = Frames(c, f)
          BY <1>1, <3>2, <3>4, <3>6, <4>2 DEF Frames, Joined, Item
        <4>4. Passed(c, f)' \in Int /\ Passed(c, f) <= Passed(c, f)'
          BY <3>5, <4>1
        <4>5. OrderInv(c, f)'
          BY <1>1, <1>3, <2>1, <3>1, <4>1, <4>3, <4>4, OrderQuiet
        <4> QED
          BY <3>1, <3>3, <4>2, <4>5
      <3> QED
        BY <3>7, <3>8
    <2> QED
      BY <1>1, <1>4, <2>2 DEF ListInv
  <1> QED
    BY <1>7, <1>8

(* The application reads the oldest frame of a list. *)
LEMMA ListRead ==
    ASSUME BatchInv, ListInv, NEW e \in Chips, NEW g \in Flows, StreamRead(e, g)
    PROVE  ListInv'
  <1> USE DEF deviceVars
  <1>1. /\ UNCHANGED <<ready, buffer, sent, cr, app>> /\ app.pc = "open"
        /\ list[e][g] # <<>>
    BY DEF StreamRead
  <1>2. StateType
    BY DEF BatchInv
  <1>3. /\ list'[e][g] = Tail(list[e][g])
        /\ received'[e][g] =
              Append(received[e][g], [session |-> app.session, n |-> Head(list[e][g])])
        /\ \A c \in Chips, f \in Flows : c # e \/ f # g =>
              list'[c][f] = list[c][f] /\ received'[c][f] = received[c][f]
    BY <1>2, WasRead
  <1>4. ASSUME NEW c \in Chips, NEW f \in Flows
        PROVE  OrderInv(c, f)' /\ Len(list'[c][f]) <= L
    <2>1. OrderInv(c, f) /\ Len(list[c][f]) <= L
      BY DEF ListInv
    <2>2. PICK r \in Seq(Items) : r = received[c][f]
      BY <1>2, FramesAre
    <2>3. PICK l \in Seq(Nat) : l = list[c][f]
      BY <1>2, FramesAre
    <2>4. PICK s \in Nat : s = app.session
      BY <1>2, FramesAre
    <2>5. Frames(c, f) = Joined(r, l, s)
      BY <1>2, <2>2, <2>3, <2>4, FramesAre
    <2>6. Frames(c, f)' = Frames(c, f) /\ Len(list'[c][f]) <= L
      <3>1. CASE c = e /\ f = g
        <4>1. list'[c][f] = Tail(l) /\ received'[c][f] = Append(r, Item(s, Head(l)))
          BY <1>3, <2>2, <2>3, <2>4, <3>1 DEF Item
        <4>2. Frames(c, f)' = Joined(Append(r, Item(s, Head(l))), Tail(l), s)
          BY <1>1, <2>4, <4>1 DEF Frames, Joined, Item
        <4>3. l # <<>>
          BY <1>1, <2>3, <3>1
        <4>4. Len(Tail(l)) = Len(l) - 1 /\ Len(l) \in Nat
          BY <4>3, SeqSteps
        <4>5. Frames(c, f)' = Frames(c, f)
          BY <2>5, <4>2, <4>3, JoinedRead
        <4> QED
          BY <2>1, <2>3, <4>1, <4>4, <4>5, PcieAssumption
      <3>2. CASE c # e \/ f # g
        <4>1. list'[c][f] = list[c][f] /\ received'[c][f] = received[c][f]
          BY <1>3, <3>2
        <4> QED
          BY <1>1, <2>1, <4>1 DEF Frames
      <3> QED
        BY <3>1, <3>2
    <2>7. Passed(c, f)' = Passed(c, f) /\ Passed(c, f) \in Int
      <3>1. Passed(c, f)' = Passed(c, f)
        BY <1>1, PassedSame DEF Busy, Dummy, Copying
      <3> QED
        BY <1>2, <3>1, PassedType
    <2>8. Passed(c, f)' \in Int /\ Passed(c, f) <= Passed(c, f)'
      BY <2>7
    <2>9. Complete' => Complete
      BY <1>1 DEF Complete
    <2>10. app'.session = app.session
      BY <1>1
    <2>11. OrderInv(c, f)'
      BY <1>2, <2>1, <2>6, <2>7, <2>8, <2>9, <2>10, OrderQuiet
    <2> QED
      BY <2>6, <2>11
  <1> QED
    BY <1>1, <1>4 DEF ListInv

(* A close reads and acknowledges a batch without taking its frames. *)
LEMMA ListDummyRead ==
    ASSUME BatchInv, ListInv, CloseDummyRead
    PROVE  ListInv'
  <1> USE DEF deviceVars
  <1>1. /\ UNCHANGED <<ready, buffer, sent, cr, list, received>> /\ app.pc = "dummy_read"
    BY DEF CloseDummyRead
  <1>2. /\ StateType /\ cr.pc = "gone" /\ fifo \in Seq(Chips)
        /\ app \in [pc : AppPCs, chip : Chips, session : 0 .. MaxSessions]
    BY <1>1 DEF BatchInv, AnnounceInv, StateType, HostType, DeviceType
  <1>3. ~Copying /\ ~Copying' /\ ~Complete' /\ \A c : ~Busy(c) /\ ~Busy(c)' /\ ~Dummy(c)
    BY <1>1, <1>2 DEF Copying, Complete, Busy, Dummy
  <1>4. CASE fifo = <<>>
    <2>1. AppGoes("free")
      BY <1>4 DEF CloseDummyRead
    <2>2. app'.pc = "free" /\ app'.session = app.session
      BY <1>2, <2>1, AppMoves DEF AppPCs
    <2>3. \A c \in Chips : ~Dummy(c)'
      BY <2>2 DEF Dummy
    <2>4. \A c \in Chips, f \in Flows : Passed(c, f)' = Passed(c, f)
      BY <1>1, <1>3, <2>3, PassedSame
    <2> QED
      BY <1>1, <1>2, <1>3, <2>2, <2>4, ListStays
  <1>5. CASE fifo # <<>>
    <2>1. PICK e \in Chips : e = Head(fifo)
      BY <1>2, <1>5, SeqSteps
    <2>2. app' = [app EXCEPT !.pc = "dummy_ack", !.chip = e]
      BY <1>5, <2>1 DEF CloseDummyRead
    <2>3. app'.pc = "dummy_ack" /\ app'.chip = e /\ app'.session = app.session
      BY <1>2, <2>2
    <2>4. ASSUME NEW c \in Chips, NEW f \in Flows
          PROVE  Passed(c, f)' \in Int /\ Passed(c, f) <= Passed(c, f)'
      <3>1. Passed(c, f) \in Int
        BY <1>2, PassedType
      <3>2. CASE c # e
        <4>1. ~Dummy(c)'
          BY <2>3, <3>2 DEF Dummy
        <4>2. Passed(c, f)' = Passed(c, f)
          BY <1>1, <1>3, <4>1, PassedSame
        <4> QED
          BY <3>1, <4>2
      <3>3. CASE c = e
        <4>1. Dummy(c)'
          BY <2>3, <3>3 DEF Dummy
        <4>2. Ahead(c)' = <<>>
          BY <1>3, <4>1 DEF Ahead
        <4>3. Passed(c, f)' = sent[c][f] - 0
          BY <1>1, <4>2, RemainingIs DEF Passed
        <4>4. Passed(c, f) = sent[c][f] - Remaining(Ahead(c), f)
          BY DEF Passed
        <4>5. Remaining(Ahead(c), f) \in 0 .. 2 /\ sent[c][f] \in Nat
          BY <1>2, RemainingIs DEF StateType, DeviceType
        <4> QED
          BY <4>3, <4>4, <4>5
      <3> QED
        BY <3>2, <3>3
    <2>5. app'.pc # "closed"
      BY <2>3
    <2> QED
      BY <1>1, <1>2, <1>3, <2>3, <2>4, <2>5, ListQuiet
  <1> QED
    BY <1>4, <1>5

(* The application opens the device: all it read belongs to sessions       *)
(* before.                                                                 *)
LEMMA ListOpened ==
    ASSUME BatchInv, ListInv, Open
    PROVE  ListInv'
  <1> USE DEF deviceVars
  <1>1. /\ UNCHANGED <<ready, buffer, sent, list, received>> /\ app.pc = "closed"
        /\ app' = [app EXCEPT !.pc = "open", !.session = @ + 1] /\ cr' = NewCrawler
    BY DEF Open
  <1>2. /\ StateType /\ cr.pc = "gone" /\ list = NoLists
        /\ app \in [pc : AppPCs, chip : Chips, session : 0 .. MaxSessions]
    BY <1>1 DEF BatchInv, AnnounceInv, StateType, HostType, ListInv
  <1>3. app'.pc = "open" /\ app'.session = app.session + 1 /\ cr'.pc = "check"
    BY <1>1, <1>2 DEF NewCrawler
  <1>4. ~Copying /\ ~Copying' /\ \A c : ~Busy(c) /\ ~Busy(c)' /\ ~Dummy(c) /\ ~Dummy(c)'
    BY <1>1, <1>2, <1>3 DEF Copying, Busy, Dummy
  <1>5. ASSUME NEW c \in Chips, NEW f \in Flows PROVE OrderInv(c, f)'
    <2>1. PICK r \in Seq(Items) : r = received[c][f]
      BY <1>2, FramesAre
    <2>2. PICK s \in Nat : s = app.session
      BY <1>2, FramesAre
    <2>3. list[c][f] = <<>>
      BY <1>2 DEF NoLists
    <2>4. Frames(c, f) = r
      BY <1>2, <2>1, <2>2, <2>3, FramesAre, JoinedEmpty
    <2>5. Frames(c, f)' = r
      <3>1. Frames(c, f)' = Joined(r, <<>>, s + 1)
        BY <1>1, <1>3, <2>1, <2>2, <2>3 DEF Frames, Joined, Item
      <3>2. s + 1 \in Nat
        OBVIOUS
      <3> QED
        BY <3>1, <3>2, JoinedEmpty
    <2>6. PICK t : t = Passed(c, f)
      OBVIOUS
    <2>7. Passed(c, f)' = t
      BY <1>1, <1>4, <2>6, PassedSame
    <2>8. Ordered(r, t, s, Complete)
      BY <2>2, <2>4, <2>6 DEF ListInv, OrderInv
    <2>9. Ordered(r, t, s + 1, Complete')
      BY <2>8, OrderedOpened
    <2> QED
      BY <1>3, <2>2, <2>5, <2>7, <2>9 DEF OrderInv
  <1> QED
    BY <1>1, <1>3, <1>5 DEF ListInv

(* The lists are freed at the end of a close. *)
LEMMA ListFreed ==
    ASSUME BatchInv, ListInv, CloseFree
    PROVE  ListInv'
  <1> USE DEF deviceVars
  <1>1. /\ UNCHANGED <<ready, buffer, sent, cr, received>> /\ app.pc = "free"
        /\ AppGoes("closed") /\ list' = NoLists
    BY DEF CloseFree
  <1>2. /\ StateType /\ cr.pc = "gone"
        /\ app \in [pc : AppPCs, chip : Chips, session : 0 .. MaxSessions]
    BY <1>1 DEF BatchInv, AnnounceInv, StateType, HostType
  <1>3. app'.pc = "closed" /\ app'.session = app.session
    BY <1>1, <1>2, AppMoves DEF AppPCs
  <1>4. ASSUME NEW c \in Chips, NEW f \in Flows
        PROVE  OrderInv(c, f)' /\ Len(list'[c][f]) <= L
    <2>1. PICK r \in Seq(Items) : r = received[c][f]
      BY <1>2, FramesAre
    <2>2. PICK l \in Seq(Nat) : l = list[c][f]
      BY <1>2, FramesAre
    <2>3. PICK s \in Nat : s = app.session
      BY <1>2, FramesAre
    <2>4. list'[c][f] = <<>>
      BY <1>1 DEF NoLists
    <2>5. Frames(c, f) = Joined(r, l, s)
      BY <1>2, <2>1, <2>2, <2>3, FramesAre
    <2>6. Frames(c, f)' = r
      <3>1. Frames(c, f)' = Joined(r, <<>>, s)
        BY <1>1, <1>3, <2>1, <2>3, <2>4 DEF Frames, Joined, Item
      <3> QED
        BY <3>1, JoinedEmpty
    <2>7. PICK t : t = Passed(c, f)
      OBVIOUS
    <2>8. Passed(c, f)' = t
      BY <1>1, <1>3, <2>7, PassedSame DEF Busy, Dummy, Copying
    <2>9. Ordered(Joined(r, l, s), t, s, Complete)
      BY <2>3, <2>5, <2>7 DEF ListInv, OrderInv
    <2>10. ~Complete'
      BY <1>1, <1>2 DEF Complete
    <2>11. Ordered(r, t, s, Complete')
      BY <2>9, <2>10, OrderedFreed
    <2>12. OrderInv(c, f)'
      BY <1>3, <2>3, <2>6, <2>8, <2>11 DEF OrderInv
    <2>13. Len(list'[c][f]) <= L
      <3>1. Len(list'[c][f]) = 0
        BY <2>4, EmptySeq
      <3> QED
        BY <3>1, PcieAssumption
    <2> QED
      BY <2>12, <2>13
  <1> QED
    BY <1>1, <1>4 DEF ListInv

(* At first every list is empty and nothing was read. *)
LEMMA ListInit == Init => ListInv
  <1> SUFFICES ASSUME Init PROVE ListInv
    OBVIOUS
  <1>1. /\ list = NoLists /\ received = NoLists
        /\ cr = [NewCrawler EXCEPT !.pc = "gone"]
        /\ app = [pc |-> "closed", chip |-> 0, session |-> 0]
    BY DEF Init
  <1>2. ASSUME NEW c \in Chips, NEW f \in Flows
        PROVE  Len(list[c][f]) <= L /\ OrderInv(c, f)
    <2>1. list[c][f] = <<>> /\ received[c][f] = <<>>
      BY <1>1 DEF NoLists
    <2>2. Len(list[c][f]) <= L
      <3>1. Len(list[c][f]) = 0
        BY <2>1, EmptySeq
      <3> QED
        BY <3>1, PcieAssumption
    <2>3. Frames(c, f) = <<>>
      BY <2>1, StateTypeInit, FramesAre, JoinedEmpty, EmptySeq
    <2>4. Len(Frames(c, f)) = 0
      BY <2>3, EmptySeq
    <2>5. OrderInv(c, f)
      BY <2>4 DEF OrderInv, Ordered, Consecutive
    <2> QED
      BY <2>2, <2>5
  <1> QED
    BY <1>1, <1>2 DEF ListInv

(* Every step keeps the lists in order. *)
LEMMA ListNext ==
    ASSUME BatchInv, ListInv, [Next]_vars
    PROVE  ListInv'
  <1>1. CASE UNCHANGED vars
    <2>1. UNCHANGED <<ready, buffer, sent, cr, app, list, received>>
      BY <1>1 DEF vars
    <2>2. \A c \in Chips, f \in Flows : Passed(c, f)' = Passed(c, f)
      BY <2>1, PassedSame DEF Busy, Dummy, Copying
    <2> QED
      BY <2>1, <2>2, ListStays DEF BatchInv, Complete
  <1>2. CASE CrawlerSlept /\ MayDrop
    <2>1. /\ Copying /\ PastNode(TRUE) /\ app' = app /\ cr.pc = "full"
          /\ UNCHANGED <<ready, buffer, sent, list, received>>
      BY <1>2 DEF CrawlerSlept, Drop, Copying, deviceVars
    <2>2. cr \in Crawlers /\ cr.frames # <<>>
      BY <2>1 DEF BatchInv, CrawlerInv, StateType, HostType
    <2>3. cr'.read_abort = (cr.read_abort \/ TRUE)
      BY <2>1, <2>2, CrawlerPasses
    <2>4. ~Complete' /\ Passing /\ app.pc # "closed"
      BY <2>1, <2>3 DEF Complete, Passing, BatchInv, AnnounceInv
    <2> QED
      BY <2>1, <2>4, ListDropped
  <1>3. CASE CrawlerPush
    BY <1>3, ListPushed
  <1>4. CASE \E c \in Chips : \E f \in Flows : StreamRead(c, f)
    BY <1>4, ListRead
  <1>5. CASE Open \/ CloseFree \/ CloseDummyRead
    BY <1>5, ListOpened, ListFreed, ListDummyRead
  <1> QED
    BY <1>1, <1>2, <1>3, <1>4, <1>5, ListOthers DEF Next, Crawler, Close

(* All invariants are true in every state. *)
LEMMA InvariantsHold == Spec => [](BatchInv /\ ListInv)
  <1>1. Init => ListInv
    BY ListInit
  <1>2. (BatchInv /\ ListInv) /\ [Next]_vars => (BatchInv /\ ListInv)'
    BY BatchNext, ListNext
  <1> QED
    BY <1>1, <1>2, BatchInit, PTL DEF Spec

(* While the device stays open the application gets the frames of a flow   *)
(* one after the other, none left out and none twice, and a later session  *)
(* gets newer ones: whatever lists were full, whatever the crawler dropped *)
(* after memx_set_read_abort, and wherever a close interrupted it.         *)
THEOREM FramesConsecutiveHolds == Spec => []FramesConsecutive
  <1>1. ListInv => FramesConsecutive
    BY DEF ListInv, OrderInv, Ordered, Consecutive, FramesConsecutive
  <1> QED
    BY <1>1, InvariantsHold, PTL

(* No list grows past its limit, no notification finds the fifo full, and  *)
(* the header's bits end the crawler's loop with the last frame of the     *)
(* batch, for any number of chips, flows and sessions.                     *)
THEOREM TypeCorrect == Spec => []TypeOK
  <1>1. BatchInv /\ ListInv => TypeOK
    <2> SUFFICES ASSUME BatchInv, ListInv PROVE TypeOK
      OBVIOUS
    <2>1. /\ rx_ctrl \in [is_abort : {0, 1}, is_read_abort : {0, 1}]
          /\ pcie \in [is_ready_exit : {0, 1}, is_read_abort : {0, 1}]
          /\ cr.chip \in Chips /\ cr.triggered \subseteq Flows
          /\ app.session \in 0 .. MaxSessions
      BY DEF BatchInv, StateType, HostType, Crawlers
    <2>2. cr.pc \in {"copy", "full"} <=> cr.frames # <<>>
      BY DEF BatchInv, CrawlerInv, Copying
    <2>3. \A c \in Chips : \A f \in Flows : Len(list[c][f]) <= L
      BY DEF ListInv
    <2>4. Len(fifo) + Cardinality({c \in Chips : irq[c]}) <= NC
      <3>1. \A c \in {e \in Chips : irq[e]} : ~In(fifo, c)
        BY DEF BatchInv, AnnounceInv, NoneTwice, InFifo
      <3>2. fifo \in Seq(Chips) /\ NoRepeats(fifo)
        BY DEF BatchInv, AnnounceInv, StateType, DeviceType
      <3> QED
        BY <3>1, <3>2, RoomFor
    <2> QED
      BY <2>1, <2>2, <2>3, <2>4 DEF TypeOK
  <1> QED
    BY <1>1, InvariantsHold, PTL
=============================================================================
