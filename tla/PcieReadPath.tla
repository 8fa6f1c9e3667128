---------------------------- MODULE PcieReadPath ----------------------------
(***************************************************************************)
(* The way of output frames over PCIe: a chip writes a batch of frames to  *)
(* its part of a buffer it shares with the host and raises an interrupt;   *)
(* the driver's handler puts the chip's number in rx_msix_fifo; the        *)
(* library's crawler thread reads the number, copies the frames into one   *)
(* list per chip and flow, and acknowledges, after which the chip may      *)
(* write again.  The application opens the device, reads the lists, and    *)
(* closes it, with or without memx_set_read_abort before.                  *)
(*                                                                         *)
(* One process has the device open at a time, and its threads are not      *)
(* interrupted by signals.  Frames of a flow are numbered by the chip.     *)
(***************************************************************************)
EXTENDS Integers, Sequences, FiniteSets

CONSTANTS
    NC,             \* chips with output are 0..NC-1
    NF,             \* their flows are 0..NF-1
    Batches,        \* what a chip writes at once, the flow of each frame
    L,              \* MEMX_MPUIO_MAX_PENDDING_LIST_SIZE
    MaxFrames,      \* MaxFrames[c]: bound on the frames c sends on a flow
    MaxSessions     \* bound on the calls that open the device

ASSUME PcieAssumption ==
    /\ {NC, NF, L} \subseteq Nat \ {0}
    /\ MaxFrames \in [0 .. NC - 1 -> Nat] /\ MaxSessions \in Nat
    /\ \A b \in Batches : b \in Seq(0 .. NF - 1) /\ b # <<>>
    \* output_buf_cnt has one bit for the second frame of a flow
    /\ \A b \in Batches : \A i, j, k \in DOMAIN b :
          b[i] = b[j] /\ b[j] = b[k] => i = j \/ j = k \/ i = k

Chips == 0 .. NC - 1
Flows == 0 .. NF - 1

VARIABLES
    ready,      \* ready[c]: chip c may write its buffer
    buffer,     \* buffer[c]: rx_dma_buffer of c, frames [flow, n]
    sent,       \* sent[c][f]: frames c has written on f
    irq,        \* irq[c]: an interrupt of c is pending
    fifo,       \* rx_msix_fifo
    rx_ctrl,    \* the kernel's is_abort and is_read_abort
    pcie,       \* the library's is_ready_exit and is_read_abort
    cr,         \* the crawler: place, chip, frames of the batch that are left,
                \* flow bits of the header, and its local read_abort
    list,       \* flow_ringbuffer[c][f]
    app,        \* the application's thread: place, chip to acknowledge, session
    received,   \* history: frames read on c and f, with their session
    cleared     \* history: a close threw pending notifications away

vars == <<ready, buffer, sent, irq, fifo, rx_ctrl, pcie, cr, list, app, received,
          cleared>>

deviceVars == <<ready, buffer, sent, irq>>

-----------------------------------------------------------------------------
NoFlags == [is_abort |-> 0, is_read_abort |-> 0]
NewPcie == [is_ready_exit |-> 0, is_read_abort |-> 0]
NewCrawler == [pc |-> "check", chip |-> 0, frames |-> <<>>, triggered |-> {},
               twice |-> {}, read_abort |-> FALSE]
NoLists == [c \in Chips |-> [f \in Flows |-> <<>>]]

Init ==
    /\ ready = [c \in Chips |-> TRUE]
    /\ buffer = [c \in Chips |-> <<>>]
    /\ sent = [c \in Chips |-> [f \in Flows |-> 0]]
    /\ irq = [c \in Chips |-> FALSE]
    /\ fifo = <<>>
    /\ rx_ctrl = NoFlags
    /\ pcie = NewPcie
    /\ cr = [NewCrawler EXCEPT !.pc = "gone"]
    /\ list = NoLists
    /\ app = [pc |-> "closed", chip |-> 0, session |-> 0]
    /\ received = NoLists
    /\ cleared = FALSE

-----------------------------------------------------------------------------
(* The chip and the interrupt handler. *)

InBatch(b, f) == Cardinality({i \in DOMAIN b : b[i] = f})

DeviceFill(c, b) ==
    /\ ready[c]
    /\ \A f \in Flows : sent[c][f] + InBatch(b, f) <= MaxFrames[c]
    /\ ready' = [ready EXCEPT ![c] = FALSE]
    /\ buffer' = [buffer EXCEPT ![c] = [i \in DOMAIN b |->
                    [flow |-> b[i],
                     n |-> sent[c][b[i]] + InBatch(SubSeq(b, 1, i), b[i])]]]
    /\ sent' = [sent EXCEPT ![c] = [f \in Flows |-> @[f] + InBatch(b, f)]]
    /\ irq' = [irq EXCEPT ![c] = TRUE]
    /\ UNCHANGED <<fifo, rx_ctrl, pcie, cr, list, app, received, cleared>>

(* memx_egress_dcore_isr: a full fifo loses the notification. *)
Isr(c) ==
    /\ irq[c]
    /\ irq' = [irq EXCEPT ![c] = FALSE]
    /\ fifo' = IF Len(fifo) < NC THEN Append(fifo, c) ELSE fifo
    /\ UNCHANGED <<ready, buffer, sent, rx_ctrl, pcie, cr, list, app, received,
                   cleared>>

-----------------------------------------------------------------------------
(* The crawler. *)

CrawlerGoes(pc) == cr' = [cr EXCEPT !.pc = pc]

GuardFree == app.pc \notin {"abort", "clear"}       \* context_guard

CrawlerCheck ==
    /\ cr.pc = "check"
    /\ GuardFree
    /\ CrawlerGoes(IF pcie.is_ready_exit = 1 THEN "gone" ELSE "read")
    /\ UNCHANGED <<deviceVars, fifo, rx_ctrl, pcie, list, app, received, cleared>>

(* The indicator of a chip and its header: a bit for every flow with a     *)
(* frame in the batch, and one for every flow with a second frame.         *)
CrawlerTake ==
    LET c == Head(fifo)
        flow(i) == buffer[c][i].flow
    IN  /\ fifo' = Tail(fifo)
        /\ cr' = [cr EXCEPT
                    !.pc = "copy", !.chip = c, !.frames = buffer[c],
                    !.triggered = {flow(i) : i \in DOMAIN buffer[c]},
                    !.twice = {flow(i) : i \in {j \in DOMAIN buffer[c] :
                                \E k \in 1 .. j - 1 : flow(k) = flow(j)}}]

(* memx_fops_read: a pending notification goes before an abort. *)
CrawlerRead ==
    /\ cr.pc = "read"
    /\ IF fifo # <<>> THEN CrawlerTake ELSE CrawlerGoes("wait") /\ UNCHANGED fifo
    /\ UNCHANGED <<deviceVars, rx_ctrl, pcie, list, app, received, cleared>>

CrawlerAborted ==
    /\ cr.pc = "wait"
    /\ rx_ctrl.is_abort = 1
    /\ rx_ctrl' = [rx_ctrl EXCEPT !.is_abort = 0]
    /\ CrawlerGoes("gone")
    /\ UNCHANGED <<deviceVars, fifo, pcie, list, app, received, cleared>>

CrawlerWake ==
    /\ cr.pc = "wait"
    /\ rx_ctrl.is_abort = 0
    /\ fifo # <<>>
    /\ CrawlerGoes("pop")
    /\ UNCHANGED <<deviceVars, fifo, rx_ctrl, pcie, list, app, received, cleared>>

(* An abort may have emptied the fifo meanwhile: -EFAULT ends the crawler. *)
CrawlerPop ==
    /\ cr.pc = "pop"
    /\ IF fifo # <<>> THEN CrawlerTake ELSE CrawlerGoes("gone") /\ UNCHANGED fifo
    /\ UNCHANGED <<deviceVars, rx_ctrl, pcie, list, app, received, cleared>>

Node == Head(cr.frames)

FullLate(c, f) == Len(list[c][f]) > L               \* mutant: off by one
Full(c, f) == Len(list[c][f]) >= L

(* After a frame, clear the bit that says its flow has a second frame, or  *)
(* the lowest bit of the flows that are left, whichever flow the frame was. *)
PastNode(dropped) ==
    LET second == Node.flow \in cr.twice
        left == IF second THEN cr.triggered
                ELSE {f \in cr.triggered : \E g \in cr.triggered : g < f}
    IN  cr' = [cr EXCEPT
                 !.frames = Tail(@),
                 !.twice = @ \ {Node.flow},
                 !.triggered = left,
                 !.read_abort = @ \/ dropped,
                 !.pc = IF left = {} THEN "ack" ELSE "copy"]

(* A frame that fits is pushed, unless one was dropped before. *)
CrawlerPush ==
    /\ cr.pc = "copy"
    /\ ~Full(cr.chip, Node.flow)
    /\ IF cr.read_abort THEN UNCHANGED list
       ELSE list' = [list EXCEPT ![cr.chip][Node.flow] = Append(@, Node.n)]
    /\ PastNode(FALSE)
    /\ UNCHANGED <<deviceVars, fifo, rx_ctrl, pcie, app, received, cleared>>

CrawlerFull ==
    /\ cr.pc = "copy"
    /\ Full(cr.chip, Node.flow)
    /\ CrawlerGoes("full")
    /\ UNCHANGED <<deviceVars, fifo, rx_ctrl, pcie, list, app, received, cleared>>

MayDropIfDropped == cr.read_abort           \* mutant: the flag is not polled
MayDrop == cr.read_abort \/ pcie.is_read_abort = 1

DropUnnoted == PastNode(FALSE)              \* mutant: no note of the drop
Drop == PastNode(TRUE)

(* After 100 us: drop the frame if nobody wants to read, or look again. *)
CrawlerSlept ==
    /\ cr.pc = "full"
    /\ IF MayDrop THEN Drop ELSE CrawlerGoes("copy")
    /\ UNCHANGED <<deviceVars, fifo, rx_ctrl, pcie, list, app, received, cleared>>

CrawlerAck ==
    /\ cr.pc = "ack"
    /\ ready' = [ready EXCEPT ![cr.chip] = TRUE]
    /\ CrawlerGoes("check")
    /\ UNCHANGED <<buffer, sent, irq, fifo, rx_ctrl, pcie, list, app, received,
                   cleared>>

Crawler ==
    \/ CrawlerCheck \/ CrawlerRead \/ CrawlerAborted \/ CrawlerWake \/ CrawlerPop
    \/ CrawlerPush \/ CrawlerFull \/ CrawlerSlept \/ CrawlerAck

-----------------------------------------------------------------------------
(* The application. *)

AppGoes(pc) == app' = [app EXCEPT !.pc = pc]

(* memx_fops_open of the only opener, and memx_pcie_create. *)
Open ==
    /\ app.pc = "closed"
    /\ app.session < MaxSessions
    /\ app' = [app EXCEPT !.pc = "open", !.session = @ + 1]
    /\ rx_ctrl' = NoFlags
    /\ pcie' = NewPcie
    /\ cr' = NewCrawler
    /\ UNCHANGED <<deviceVars, fifo, list, received, cleared>>

(* memx_pcie_stream_read when there is a frame. *)
StreamRead(c, f) ==
    /\ app.pc = "open"
    /\ list[c][f] # <<>>
    /\ received' = [received EXCEPT ![c][f] =
                      Append(@, [session |-> app.session, n |-> Head(list[c][f])])]
    /\ list' = [list EXCEPT ![c][f] = Tail(@)]
    /\ UNCHANGED <<deviceVars, fifo, rx_ctrl, pcie, cr, app, cleared>>

SetReadAbort ==
    /\ app.pc = "open"
    /\ pcie' = [pcie EXCEPT !.is_read_abort = 1]
    /\ rx_ctrl' = [rx_ctrl EXCEPT !.is_read_abort = 1]
    /\ UNCHANGED <<deviceVars, fifo, cr, list, app, received, cleared>>

(* memx_pcie_destroy *)
CloseExit ==
    /\ app.pc = "open"
    /\ pcie' = [pcie EXCEPT !.is_ready_exit = 1]
    /\ AppGoes("abort")
    /\ UNCHANGED <<deviceVars, fifo, rx_ctrl, cr, list, received, cleared>>

CloseAbort ==
    /\ app.pc = "abort"
    /\ rx_ctrl' = [rx_ctrl EXCEPT !.is_abort = 1]
    /\ AppGoes("clear")
    /\ UNCHANGED <<deviceVars, fifo, pcie, cr, list, received, cleared>>

NeverKeep == FALSE                          \* mutant: always cleared
KeepNotifications == rx_ctrl.is_read_abort = 1

CloseClear ==
    /\ app.pc = "clear"
    /\ IF KeepNotifications THEN UNCHANGED <<fifo, cleared>>
       ELSE /\ fifo' = <<>>
            /\ cleared' = (cleared \/ rx_ctrl.is_read_abort = 0)
    /\ AppGoes("join")
    /\ UNCHANGED <<deviceVars, rx_ctrl, pcie, cr, list, received>>

CloseJoin ==
    /\ app.pc = "join"
    /\ cr.pc = "gone"
    /\ AppGoes(IF pcie.is_read_abort = 1 THEN "dummy_read" ELSE "free")
    /\ UNCHANGED <<deviceVars, fifo, rx_ctrl, pcie, cr, list, received, cleared>>

(* memx_pcie_clear_dummy_read: acknowledge until the fifo has been empty   *)
(* for 100 ms.                                                             *)
CloseDummyRead ==
    /\ app.pc = "dummy_read"
    /\ IF fifo = <<>> THEN AppGoes("free") /\ UNCHANGED fifo
       ELSE /\ app' = [app EXCEPT !.pc = "dummy_ack", !.chip = Head(fifo)]
            /\ fifo' = Tail(fifo)
    /\ UNCHANGED <<deviceVars, rx_ctrl, pcie, cr, list, received, cleared>>

CloseDummyAck ==
    /\ app.pc = "dummy_ack"
    /\ ready' = [ready EXCEPT ![app.chip] = TRUE]
    /\ AppGoes("dummy_read")
    /\ UNCHANGED <<buffer, sent, irq, fifo, rx_ctrl, pcie, cr, list, received,
                   cleared>>

CloseFree ==
    /\ app.pc = "free"
    /\ list' = NoLists
    /\ AppGoes("closed")
    /\ UNCHANGED <<deviceVars, fifo, rx_ctrl, pcie, cr, received, cleared>>

Close == \/ CloseAbort \/ CloseClear \/ CloseJoin \/ CloseDummyRead
         \/ CloseDummyAck \/ CloseFree

-----------------------------------------------------------------------------
Next ==
    \/ \E c \in Chips : Isr(c) \/ \E b \in Batches : DeviceFill(c, b)
    \/ Crawler
    \/ \E c \in Chips : \E f \in Flows : StreamRead(c, f)
    \/ Open \/ SetReadAbort \/ CloseExit \/ Close

Spec == Init /\ [][Next]_vars

(* The handler, the crawler and a thread in memx_pcie_destroy keep going.  *)
(* Nobody has to read, to open or to close, and a chip sends nothing it    *)
(* does not want to.                                                       *)
Fairness ==
    /\ \A c \in Chips : WF_vars(Isr(c))
    /\ WF_vars(Crawler)
    /\ WF_vars(Close)

FairSpec == Spec /\ Fairness

-----------------------------------------------------------------------------
(* No list grows past its limit, no notification finds the fifo full, and  *)
(* the header's bits end the crawler's loop with the last frame.           *)
TypeOK ==
    /\ Len(fifo) + Cardinality({c \in Chips : irq[c]}) <= NC
    /\ \A c \in Chips : \A f \in Flows : Len(list[c][f]) <= L
    /\ rx_ctrl \in [is_abort : {0, 1}, is_read_abort : {0, 1}]
    /\ pcie \in [is_ready_exit : {0, 1}, is_read_abort : {0, 1}]
    /\ cr.chip \in Chips /\ cr.triggered \subseteq Flows
    /\ cr.pc \in {"copy", "full"} <=> cr.frames # <<>>
    /\ app.session \in 0 .. MaxSessions

(* Frames read, and to be read, on a flow. *)
Frames(c, f) ==
    received[c][f] \o [i \in DOMAIN list[c][f] |->
                         [session |-> app.session, n |-> list[c][f][i]]]

(* While the device stays open the application gets the frames of a flow   *)
(* one after the other, none left out, none twice: a frame the crawler     *)
(* dropped is the last it takes.  Frames of a later session are newer.     *)
FramesConsecutive ==
    \A c \in Chips : \A f \in Flows : LET d == Frames(c, f) IN
        \A k \in 1 .. Len(d) - 1 :
            /\ d[k].n < d[k + 1].n
            /\ d[k].session = d[k + 1].session => d[k + 1].n = d[k].n + 1

(* Where a notification of chip c, or what was made of it, is. *)
Notifications(c) ==
    (IF irq[c] THEN 1 ELSE 0)
    + Cardinality({i \in DOMAIN fifo : fifo[i] = c})
    + (IF cr.chip = c /\ cr.pc \in {"copy", "full", "ack"} THEN 1 ELSE 0)
    + (IF app.chip = c /\ app.pc = "dummy_ack" THEN 1 ELSE 0)

(* A chip that waits for its acknowledgement has exactly one notification  *)
(* on its way, in whatever session, so it is neither forgotten nor told to *)
(* write a buffer that is being read: as long as every close that left     *)
(* notifications came after memx_set_read_abort.                           *)
ChipAnnouncedOnce ==
    \A c \in Chips :
        IF ready[c] THEN Notifications(c) = 0
                    ELSE IF cleared THEN Notifications(c) <= 1
                                    ELSE Notifications(c) = 1

(* After memx_set_read_abort a close returns, whatever lists are full and  *)
(* wherever the crawler was.                                               *)
CloseReturns ==
    (app.pc = "join" /\ pcie.is_read_abort = 1) ~> app.pc = "closed"
=============================================================================
