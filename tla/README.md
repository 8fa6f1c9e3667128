# A verification of the MemryX system driver in TLA+

The repository is the host software of an inference accelerator: a user-space
driver (`src/udriver`), kernel drivers for PCIe and USB (`src/kdriver`), and
bindings. An application opens a model on a device group, downloads it, enables
streaming, and exchanges *frames* (feature maps) with the device on numbered
*flows*, each an input or output port of the model. This directory holds TLA+
modules translated from that code, configurations for TLC, and proofs for TLAPS.

## 1. The system

### Components, their state and operations

| Component | Source | State | Operations | Talks to |
|---|---|---|---|---|
| Public API, model table | `udriver/memx.c` | table of models, reference counts, last downloaded model | `memx_open`, `memx_close`, `memx_download_model`, one wrapper per stream call | MPU layer, device manager |
| MPU layer | `udriver/mpu/memx_mpu.c` | model id, attached group, `input_mode_flag` | dispatch to a chip generation, parts of a download | the two cascade implementations, interface layer |
| Cascade-plus (second generation) | `udriver/mpu/memx_cascadeplus.c` | a ring of frames per flow and direction, two workers with state, locks per ring | `stream_ifmap`, `stream_ofmap`, zero-copy buffers, enable, disable, sizes, create, destroy | interface layer; callers' threads |
| Cascade (first generation) | `udriver/mpu/memx_cascade.c` | lists, row rings and job queues, six kinds of worker | the same calls, with an encoder and a decoder stage | interface layer |
| Device manager | `udriver/mpu/memx_device_manager.c` | device groups, reference counts, process-shared locks | create, look up, lock, destroy a group | interface layer |
| Interface layer | `udriver/mpuio/memx_mpuio.c` | function table, idle groups | `stream_write`, `stream_read`, attach, detach | PCIe or USB driver |
| PCIe and USB drivers | `udriver/mpuio/memx_pcie.c`, `memx_usb.c` | a list of received parts per flow, abort flags | a crawler thread that reads from the device, chunked writes | kernel driver |
| Utilities | `udriver/util` | byte ring, locked list | put, get, drop; push, pop, remove | every layer |
| Model files | `udriver/dfp`, `udriver/gbf` | none kept | parse a model file, pack numbers | MPU layer |
| Kernel drivers | `kdriver/linux/{pcie,usb}`, `kdriver/windows` | device state, firmware command buffer, wait queues | file operations, ioctl, interrupts | firmware |
| C++ API, bindings, tools | `udriver20`, `pymodule`, `jnilib`, `tools` | bounded queue of the C++ API | wrap the public API | public API |

### What is hard in it

* **Threads without a common lock.** Each ring has a lock for its writers and one
  for its readers; the two sides meet only in the ring pointers, which are read
  without any lock. The workers are controlled through `enable`, `state`,
  `state_next` and `blocking`, of which some are read and written without `guard`.
* **Waiting.** Sleeping on a condition, polling with `usleep`, and polling with a
  lock held all occur, so lost wake-ups and circular waits are possible.
* **Control against data.** Enable, disable, destroy, a new size and a new model
  come while workers are in the middle of a frame.
* **Back pressure.** Full rings stop callers or the device; one flow may hold up
  another, which the row balance of multi-input models must prevent.
* **Failure.** Writes that fail half way, commands that time out and are answered
  late, error branches that return with a lock held.

`PROJECT.json` lists these as hazards, each at its line, with the properties that
cover it or the planned module.

### What makes each component correct

Input and output paths: every frame reaches the other end whole, once, in order;
no slot is used before it is free; nobody sleeps while there is work; calls with
a time-out return, calls without return when they can be served; nothing moves
while the stream is disabled; destroy ends. Load balance: no input runs ahead of
the others and none starves. Device manager and model table: a group lives as
long as it is referenced and no longer, and locks are released on every path.
Interface drivers: each part is queued for the flow it belongs to, a full flow
does not stop the rest for ever, a retried write repeats nothing. Kernel: an
answer belongs to the command that waits for it; an abort reaches every waiter.
Utilities: a byte queue, a list.

## 2. The modules

```
FrameChannel                   what a data path promises: a bounded queue per flow
  ^ implemented by               ^ implemented by
CascadePlusIfmapChannel        CascadePlusOfmapChannel
  | EXTENDS                      | EXTENDS
CascadePlusIfmap               CascadePlusOfmap       CascadePlusLoadBalance

CascadeWorkers                 job workers, transfer worker and control thread
  ^ EXTENDS                      ^ EXTENDS
CascadeIfmap                   CascadeOfmap           first generation, by direction

PcieReadPath                   chip, interrupt, crawler, lists, application
ModelTable                     models, devices, MPU groups, downloads

..._proofs: theorems about a module, which EXTENDS it and TLAPS;
            CascadeWorkers_proofs has the lemmas that both directions cite
MC...: an instance of each for TLC
```

### CascadePlusIfmap: the input path

Threads in `memx_cascade_plus_stream_ifmap` put frames in rings; the ifmap worker
(`_memx_cascade_plus_ifmap_worker_dowork` and `_transfer`) writes them to the
interface driver; a control thread calls `set_stream_enable`,
`set_stream_disable` and `destroy`. Variables carry the names of the code's
fields: `entry_w`, `entry_r`, `data`, the two guards of each ring, and `enable`,
`state`, `state_next`, `blocking` of `ifmap_worker_info`. `wpc`, `upc` and `cpc`
say where each thread is.

One action is what a thread does between two points at which another thread can
see or disturb it:

| Code | Actions |
|---|---|
| sleep and wake-up at the top of the worker's loop | `WorkerSleep`, `WorkerGo`, `SpuriousWakeup` |
| test of `enable` after the guard is released | `WorkerBegin` |
| poll of a flow, without lock | `ScanFlow`, `ScanDone` |
| the transfer: `read_guard`, one write per frame, `entry_r` slot by slot | `TransferBegin`, `SendFrame`, `MoveEntry`, `TransferEnd` |
| second look at the ring | `Recheck` |
| `stream_ifmap`: checks, `write_guard`, poll, time-out, copy, `entry_w`, signal | `StreamCall`, `StreamLock`, `StreamTimeout`, `StreamCopy`, `StreamPublish`, `StreamSignal` |
| `set_stream_enable`, `set_stream_disable`, the poll of `state` | `SetStreamEnable`, `SetStreamDisable`, `StateEntered` |
| `destroy`: `enable`, `blocking`, signal, join | `DestroyDisable`, `DestroyUnblock`, `DestroySignal`, `DestroyJoin` |

A section under `ifmap_worker_info.guard` is one action: it calls nothing that
blocks but the wait, and every access that matters to another thread's section is
inside. Reads the code makes without that guard (`enable`, the ring pointers,
`state` in the poll) are actions of their own. The device may stop for good
(`DeviceStop`); a write of several frames that fails after some of them, which
would repeat them, is not modelled (hazard at `memx_pcie.c:719`).

`CascadePlusIfmapChannel` reads the frames not yet sent out of the slots and shows
that they behave as the queue of `FrameChannel`.

### CascadePlusOfmap: the output path

The ofmap worker takes parts of frames from the interface driver
(`memx_mpuio_stream_read` hands out one node of a list, or nothing), assembles them in
the ring and, under `write_guard`, counts the frame in `remain_buf_cnt` and moves
`entry_w`: two steps, since readers poll either without that lock. `stream_ofmap`
(`ReadCall` to `StreamRelease`) copies a frame; `dequeue_ofmap_buf` (`ReadCall` to
`DequeueTake`) lends the slot and `enqueue_ofmap_buf` (`EnqueueCall`, `EnqueueRelease`)
gives one back. `held` is what the application has. `reads` says which of the two calls
the application takes the frames of a flow with: a flow read by both is left out, since
nothing says what that should mean. The crawler that fills the list is the action
`Arrive`. A slot's contents are the frame number of each part, so that a frame mixed
from two would show.

### CascadePlusLoadBalance: multi-input models

For flows of a multi-input model the ifmap worker writes one row at a time and
two masks decide whose turn it is. The module keeps the masks, the threshold and
the rows, and abstracts the rings to numbers of frames; `SwitchModel` is a
download of another model under the same worker, whose masks are local variables.

### CascadeWorkers, CascadeIfmap, CascadeOfmap: the first generation

Each direction has two stages with a ring of rows between them: `stream_ifmap`
puts a frame in its flow's list and a job in a list for all flows; an *encoder*
takes a job, then the oldest frame of the flow, and writes it row by row into the
ring; the ifmap worker sends rows. On the way back the ofmap worker reads as many
bytes as the ring has room for, completes the last row, and puts a job for each
complete frame; a *decoder* takes the frame out of the ring into a list, where
`stream_ofmap` finds it.

`CascadeWorkers` has what the directions share: the loop of a job worker (`top`,
`gate`, `committed`, `asleep`, `pop`, `execute`, `rest`, `waiting` are its
places), the start of the transfer worker, and the control thread with
`set_stream_enable`, `set_stream_disable`, `set_worker_number` and `destroy`. The
directions add their rings, lists and callers.

| Code | Actions |
|---|---|
| job worker: `enable`, go to sleep, take a job, wait for `enqueue` | `JobWorkerTop`, `JobWorkerGate`, `JobWorkerSleep`, `JobWorkerPop`, `JobWorkerRest` |
| `set_worker_number`: one more; one fewer in six steps | `AddJobWorker`; `RemoveJobWorker`, `RemoveTell`, `RemoveStop`, `RemoveJoin` |
| `destroy` | `DestroyDisable`, `DestroyWorker`, `DestroyJobWorker`, `DestroySignal`, `DestroyJoin` |
| `stream_ifmap`: poll for space, push, job, signal | `StreamPoll`, `StreamPush`, `StreamJob`, `StreamSignal` |
| encoder: pop, lock the ring, row by row with a wait for space and the counter | `EncodePop`, `EncodeLock`, `EncodeWait`, `EncodeRow`, `EncodeCount` |
| ifmap worker: poll | `ScanFlow` |
| its transfer: one read of `entry_w` per action (`memx_cascade.c:472`, `474`, `475`), then rows, pointers and counter | `TransferBegin`, `TransferSubtract`, `TransferCompare`, `SendRow`, `MoveEntry`, `WorkerRest` |
| ofmap worker: poll, reads, write pointer, jobs | `ScanFlow`, `TransferBegin`, `ReadParts`, `ReadNothing`, `Publish`, `ReportJob`, `Report` |
| decoder: lock, rows, poll for space or drop, push | `DecodeLock`, `DecodeRow`, `DecodePoll`, `DecodePush` |
| `stream_ofmap`: poll, pop | `ReadPoll`, `ReadPop` |

A frame's contents are its number and row, or the places of its parts in the
flow's stream. The formats an encoder converts are left out: a row is moved whole.
A time-out of a poll is a poll that gives up, at any moment. Four details matter.

* The test for space and the push are separate, so lists may pass their limit.
* An encoder that `set_worker_number` or `destroy` wakes with `enable` 0 takes a job
  and drops it (`lost`). The run `cascade_workers` shows it as a violation.
* The input transfer reads `entry_w` anew for each test, while an encoder, who holds
  the other lock, may wrap it. If it was above `entry_r` at the test and wraps before
  the subtraction, the count of rows is below zero, `SendRow` is not enabled, and the
  worker stays in `send` for ever: the driver refuses the length, and the loop
  (`memx_cascade.c:489-501`) offers it again without looking at anything else.
* A read of the output returns one node of the USB driver's list, copied whole
  whatever length was asked for (`memx_usb.c:895-900`). `NodeSizes` says which sizes
  there can be. The constant `NodesFit` is the assumption that a device never makes a
  node larger than the room asked for; nothing in the driver enforces it.

### PcieReadPath: output frames over PCIe

A chip writes a batch of frames in its part of a shared buffer and raises an
interrupt; the handler (`memx_egress_dcore_isr`) puts its number in `rx_msix_fifo`;
the library's crawler thread reads numbers (`memx_fops_read`), copies frames into a
list per chip and flow, and acknowledges the chip, which may then write again;
`memx_pcie_stream_read` takes from the lists. The header's two bit masks drive the
crawler's loop (`PastNode`). `memx_set_read_abort` lets the crawler drop frames of a
full list, and the first drop ends the session's data. `memx_pcie_destroy` is one
action for each step another thread can come between: exit flag, abort in the
kernel, clearing of the fifo, join, dummy reads with acknowledgements, free. The
device stays powered, so chips and the kernel's fifo live across sessions. One
process has the device open; interrupts are not lost.

### ModelTable: models, devices and downloads

The state is that of the tables: `model` (`g_mpu_models`), `dev`
(`g_mpu_device_groups` with `mpu_group_status`), `hw` (`hw_info`), `g_last_model_id`,
and `chips`, what the chips hold. One action per API call, with everything below it:
`OpenNew`, `OpenAgain`, `Close`, `DownloadModel` and its variants (`DownloadSkipped`
is the early return, `DownloadBadFile` the file that cannot be read, a download may
stop after its first part), `Disable`, `ConfigMpuGroup`, `PowerDown`, `Exit`. The
code takes no lock across such a call; one thread that calls is assumed. Memory and
threads do not run out, so `memx_mpu_create` succeeds once the device is open; its error
path (`memx.c:237-240`), which releases group 0 instead of the group opened, is left out.

## 3. The runs

| Run | Question | Result |
|---|---|---|
| `ifmap_safety` | Two callers, two flows, three slots, any control: frames in order and unharmed, no lost wake-up, no lock kept, quiet when disabled, implements `FrameChannel` | holds |
| `ifmap_live` | Two callers of one flow, a device that may stop: frames reach a device that accepts; callers, disable with wait and destroy return | holds |
| `ofmap` | Two readers, frames in two parts, a ring that is full and wraps, read by `stream_ofmap` or by `dequeue_ofmap_buf`, with lent buffers: whole, in order, lent buffers kept, count and pointers agree, quiet when disabled, implements `FrameChannel`; a reader returns when its flow is served | holds |
| `ofmap_giveback` | `enqueue_ofmap_buf` returns | violated |
| `balance` | No input ahead of another, rows in step, a change of model included; with the first model equal numbers of frames on every input drain | holds |
| `balance_switch` | They drain after another model was downloaded, too | violated |
| `cascade_ifmap` | Two callers, up to two encoders that come and go, a write pointer that moves between the reads of a transfer: frames reach the device whole and once, in order with one encoder; a transfer stays in the ring, jobs match frames, the counter matches rows, nobody sleeps on work | holds |
| `cascade_workers` | A change of the number of encoders discards nothing | violated |
| `cascade_ofmap` | Two readers, up to two decoders, nodes of any size up to what is asked for (`NodesFit`): frames are handed out whole and once, in order with one decoder; reported rows match jobs, nobody sleeps on work | holds |
| `pcie_read` | Two chips, two flows, two sessions: no hole in what is read, every chip announced once, close after a read abort returns | holds |
| `models` | Two models on a device, calls that fail: open models have an open device, an MPU group has one model | holds |
| `models_download` | A download that returns OK has delivered | violated |

The violated runs are disagreements between the code and what the repository says
of it; `PROJECT.json` quotes both sides.

1. **Giving a buffer back.** `dequeue_ofmap_buf` polls with `read_guard` held, the
   lock `enqueue_ofmap_buf` needs. With all buffers lent both wait for ever.
2. **Masks of the previous model.** They survive a download and can hold back all
   inputs of the new model.
3. **Download in two calls.** `memx.h` shows the weights and then the configuration
   downloaded by two calls of `memx_download_model`. The first notes the model, the
   second sees the note and returns OK without loading anything. The same happens
   after a download that failed. `memx_download_model_from_cahce` is not concerned.
4. **Jobs dropped with their encoder.** `set_worker_number` puts an encoder to sleep
   "to make sure not discard any on-going data" (`memx_cascade.c:1488`), clears its
   `enable` and wakes it. If a job was queued meanwhile, the encoder pops it (390),
   does not execute it because `enable` is 0 (391), and leaves. The frame stays in its
   list, and from then on each job of the flow encodes the frame before its own.
   Decoders share the loop and lose jobs the same way (430, 1507).

What a property does *not* say is as much part of the result. In the models, and so in
the code: `set_stream_enable` with wait may poll for ever when no frame comes (the
worker is in state `running` only for an instant); destroy of either generation does not
return when the device takes nothing; buffers given back in another order than they were
lent (`InOrder` FALSE) can be overwritten; after an encoder or a decoder dropped a job
of a flow, jobs and frames of that flow no longer match (`JobsMatchFrames` and
`ReportMatchesJobs` are about the other flows); two encoders or decoders reorder frames
(`FramesInOrder` is about one); a close of a PCIe device without `memx_set_read_abort`
does not return when the crawler waits for a full list, and loses notifications
(`cleared`); after two opens and two closes of a model its device stays open. Each is a
hazard in `PROJECT.json`, unless nothing in the repository promises otherwise.

Two limits of the first generation's properties are worth a paragraph each.

A transfer of the input may never end: with a count below zero (above) the worker
spins, the flow and all others are dead, and destroy waits for the worker. That is a
defect of the code, which copies `entry_w` into a local variable in the second
generation only (`memx_cascadeplus.c:70`). `TransferWithinRows` and `NobodyStuck` say
what is still true then: nothing outside the ring is sent, no pointer is moved, and the
branch that returns with `write_guard` locked (478-481) is not reached by any
interleaving of the three reads. That the transfer ends is not claimed.

The output is right only with a device whose nodes fit. With `NodesFit` FALSE, and all
else as in `cascade_ofmap.cfg`, TLC finds `WholeFramesOnce` violated in 24 states,
`FramesInOrder` in 33, `ReportMatchesJobs` in 19 and `NobodyStuck` in 30: a node larger
than the room is written over rows that are not decoded, and `entry_w` passes `entry_r`.
No document says what sizes a device sends, so this is a hazard
(`memx_usb.c:896`) and not a finding, and every theorem on this path has `NodesFit`
among its hypotheses.

### Bounds, and why they are enough

Cascade-plus: `NF` 2 for the worker's order between flows and a flow that is full or
empty while another is not. `N` 3 (two usable slots): transfers of one and of two
frames, wrap, full and empty. Two callers or readers: competition for the guard, one
waiting behind another; a third would only wait too. `MaxCalls` 3 for the input: enough
frames to wrap a ring of three, and a frame that arrives while another is sent.
`MaxControl` 2: disable, enable; any call followed by destroy. `Parts` 2: a frame that
is incomplete between two rounds. `MaxFrames` bounds what the device sends. `SIZE_MAX`
15 stands for the largest `size_t`: the counter never comes near it, but a decrement at
zero would show. `ifmap_live` is smaller: one flow and `N` 2, where a ring is full after
one frame. `ofmap` checks safety and liveness in one run: one flow, `N` 3, `MaxFrames`
4, so that the worker wraps and meets a full ring, and two calls, so that two readers
compete and a reader comes after another has taken or been lent a frame. The read
pointer does not wrap in it and flows do not meet; all six safety properties of it are
theorems for any number of flows, slots, readers and calls (section 4), and only
`ReadReturns` rests on the run. `Heights` 1, 2 and 4 cover inputs of equal and of
different heights, high enough for a flow to be three rows ahead; `NF` 3 there makes a
mask that is neither empty, full nor one flow.

First generation: one flow, `H` 2 rows a frame, so that frames can mix. The input
ring has four rows (`RingFrames` 2): it is full with a frame and a half, and three
frames wrap it. The output ring has six (`RingFrames` 3), because two decoders are
busy at once only if the ring holds two complete frames and one row more, and
`MaxRows` 7 lets the writer pass its starting point. `P` 2: a read can end inside
a row. Two job workers, `MaxControl` 2: add and remove one, or disable and enable.
`QueueSize` 1: lists are full after one frame, and pass their limit. With one flow,
confusion between flows is not looked for: the flow is an index everywhere and the
job list is the only thing flows share.

PCIe: two chips share the fifo and the crawler; two flows and a batch out of flow
order; a batch with two frames of a flow; lists of one frame (`L`, 300 in the code)
are full at once; chip 0 sends three frames on a flow, the least for a hole after a
drop; two sessions. Tables: two models on one device with up to two MPU groups, so
with three entries for `memx_mpuio_attach_idle_mpu_group`, and three references,
enough for leaks to add up. Devices share only `g_last_model_id`, so there is one.

Threads and models are symmetric, and symmetry is used in safety runs only. Deadlock
is not checked where threads are modelled: after destroy, or when the bounds on
calls are used up, everything may rightly stop; that nobody waits for ever is what
the liveness properties, `NoLostWakeup` and `NobodyStuck` say.

Memory is sequentially consistent in the modules. The code polls `entry_w`, `entry_r`,
`remain_buf_cnt` and `state` without atomics; each poll loop calls a function the
compiler cannot see into, so the variable is read anew, and x86 keeps the order of the
stores. On a weaker machine the worker could see `entry_w` before the frame.

### Fairness

`WF(Worker)`, `WF(Control)` and `WF(User(u))` or `WF(Reader(u))`: a thread that is
not blocked goes on, which the operating system's scheduler gives. Mutexes are not
assumed fair (weak fairness of a whole thread promises nothing to one that finds
the lock free only now and then), condition variables need not wake by themselves
(`SpuriousWakeup` has no fairness), nobody must call the API or return a buffer,
and the device must do nothing but, while it accepts, complete the write it is
given. In `CascadePlusLoadBalance` the device takes a row that is
offered again and again (`SF` of `TransferRow` per flow), since it may refuse at
any single time. In `PcieReadPath` the interrupt handler, the crawler and a thread in
`memx_pcie_destroy` go on; nobody must read, open or close, and a chip need not
send. The first generation and the tables are checked for safety only.

## 4. The proofs

### The input path

`CascadePlusIfmap_proofs` proves, for any number of flows, slots, callers and
calls allowed by `IfmapAssumption`:

| Theorem | States |
|---|---|
| `TypeCorrect` | `Spec => []TypeOK` |
| `FifoDeliveryHolds` | the device has a prefix of the accepted frames |
| `UnsentFramesIntactHolds` | frames not on the wire lie untouched in their slots |
| `SlotFreedAfterWriteHolds` | no slot is given back before its frame is written |
| `ReadGuardReleasedHolds` | the branch that keeps `read_guard` locked is never taken |
| `QuietWhenDisabledHolds` | nothing is written after a disable with wait has returned |
| `NoLostWakeupHolds` | the worker does not sleep on a frame nobody signals |

Of these only `TypeOK` is nearly inductive. The data properties rest on
`TypeInv /\ DeliveryInv`. `TypeInv` is `TypeOK` with two facts that tie variables to
a thread's place: a caller that has passed the checks of the call has a frame to
store (`CallersHaveFrames`), and a worker in a transfer is at a configured flow, with
no more frames written, moved and left than fit between the read pointer and the end
of the ring (`TransferInRing`). `DeliveryInv` counts: the frames accepted on a flow
are those on the wire, plus those in the ring, less those written in the transfer
under way (`CountsMatch`); the slots between the pointers hold the newest accepted
frames in order (`SlotsHold`); the frames the worker still has to move were in the
ring when the transfer began (`TransferCovered`), so that callers, who can only
add, never take the worker's slots; a caller past the lock holds `write_guard` of
its flow, so that only one thread moves `entry_w`, and one about to publish has
copied its frame into the free slot there (`CallersOwnRing`); the worker alone has
`read_guard`, and only in a transfer (`ReadGuardReleased`). The proof goes action by
action, with lemmas on the arithmetic of ring pointers (`Occupied`, `SlotAfter`,
`NextEntry`) stated once.

`QuietWhenDisabled` rests on `QuietInv`: `state` reads `pending`, which is what the
disabling thread polls for without the lock, only while the worker is between its
test of `state_next` and its next round, and it cannot start a round then
(`WorkerHeld`), because nothing but `set_stream_enable` sets `state_next` back.
`NoLostWakeup` rests on `WakeInv`: a ring that is not empty is seen. Either `blocking`
is clear, or a caller is on its way to clear it and signal, or the worker's round
still comes to this flow or has already found that it must not sleep (`WillSee`).
The unlocked poll is safe because a caller moves the pointer first and clears
`blocking` after, and the worker sets `blocking` before its round begins.

`CascadePlusIfmap_proofs` also proves `ImplementsChannelHolds`, the refinement of
`FrameChannel`: `QueueInv` says that the frames in the slots that are not yet sent
are the backlog, the accepted frames without those on the wire. With that,
`StreamPublish` is a put, `SendFrame` a take, and every other step a stutter; in
particular a `MoveEntry` changes the pointer and not the queue.

### The output path

`CascadePlusOfmap_proofs` proves, for any number of flows, slots, parts of a frame
and readers allowed by `OfmapAssumption` (finitely many readers, and rings that are
arrays in memory, so `N <= SIZE_MAX`):

| Theorem | States |
|---|---|
| `TypeCorrect` | `Spec => []TypeOK` |
| `WholeFramesInOrderHolds` | readers get whole frames in the device's order |
| `CountMatchesPointersHolds` | counter and pointers agree but for the frame in hand |
| `LentBuffersIntactHolds` | a buffer that is lent is not written over |
| `QuietWhenDisabledHolds` | nothing is fetched after a disable with wait has returned |
| `ImplementsChannelHolds` | the refinement of `FrameChannel` |

The invariant is `TypeInv /\ OutputInv`. Fresh frames are complete and untaken, lent
ones taken and not given back. `RingInv`: fresh and lent frames lie one behind the
other between the two pointers and never overrun each other, which is what a full
ring promises although the pointers are read without lock. `PartsInv`: every part
fetched is in a frame delivered, fresh, about to be added, or incomplete at `entry_w`.
`FreshSlots` and `GrowingSlot` say what the slots hold, part by part. `CountInv` ties
`remain_buf_cnt` to the pointers: the two steps of the worker under `write_guard` and
the two of a reader under `read_guard` each leave them apart by one. `LentInv` counts
the slots that are lent: those held and those on their way back. `ReaderInv`: a reader
past the lock is alone on its flow and still finds the frame it saw. `SpaceFound`:
the room the worker saw is not taken away. Every reader takes its flow's frames with
one of the two calls; two readers of one flow are separated by `read_guard`.

`LentBuffersIntactHolds` assumes `InOrder`: buffers come back in the order they were
lent. Its invariant `LentSlotsInv` says where each held buffer is in the ring and needs
that assumption; the other theorems do without it, so whatever an application returns,
new frames are still delivered whole and in order. The code ignores which buffer is
returned (`memx_cascadeplus.c:1476`), so the assumption is one on the application.

### The PCIe read path

`PcieReadPath_proofs` proves, for any number of chips, flows and sessions and any
limit of the lists allowed by `PcieAssumption` (batches are not empty and have at most
two frames of a flow, since the header has one bit for a second one,
`memx_pcie.c:127`):

| Theorem | States |
|---|---|
| `TypeCorrect` | `Spec => []TypeOK`: the fifo has room for every chip, lists keep their limit |
| `FramesConsecutiveHolds` | no hole and no repetition in what is read in a session |
| `ChipAnnouncedOnceHolds` | a chip that waits has one notification on its way |

`AnnounceInv` says of each chip that its notification is in one of four places
(interrupt, fifo, crawler, dummy read) and in no two; the dummy reads of
`memx_pcie_destroy` begin only when the crawler is gone, or both could hold it. That
bounds the fifo by the number of chips. `BufferInv` says how a batch is numbered: the
last frame of a flow in it is the flow's newest. `CrawlerInv` says that the bits left
in the header describe exactly the frames left in the batch; the loop ends when they
are used up and not before. `ListInv` is about frames *passed*: those the chip has
sent less those of its batch the crawler has still before it (`Passed`). Nothing in a
list or in the application's hands is newer than that, and as long as the crawler of
this session runs and has dropped nothing, the newest frame of a flow is the last one
passed; so the next frame stored follows it without a hole. A crawler that dropped a
frame has set `read_abort` and stores nothing more in the session, which is why a
drop at a full list ends the data instead of leaving a gap.

### Load balance

`CascadePlusLoadBalance_proofs` proves, for any number of inputs, heights of
frames and downloads allowed by `LoadBalanceAssumption`:

| Theorem | States |
|---|---|
| `TypeCorrect` | `Spec => []TypeOK`, with fewer rows written of a frame than it has |
| `NoFlowAheadHolds` | no input in the middle of a frame is ahead of another |
| `RowsInStepHolds` | at most two rows between inputs while none has finished its frame |

`NoFlowAhead` follows from `BalanceInv`: `FramesAccounted` (every frame streamed is
in the ring or written, a frame begun is in the ring) and `MaskIsLead` (the frame
mask is a proper subset of the model's inputs, holds exactly those that are one
frame ahead, and these are at the start of a frame). A download finds the frame
mask empty because all inputs are then at the same frame. `RowsInStep` needs
`RoundsAlike` as well: rows written less the bit in the row mask differ by at most
one between inputs. A step never changes that difference, and at the start of a
frame it is the row mask that was left over; so the bound is two and not one, and
the proof shows that it rests on the mask alone, not on `load_balance_threshold`.

### The tables

`ModelTable_proofs` proves, for any finite set of models, any devices, MPU groups
and failures allowed by `ModelTableAssumption`:

| Theorem | States |
|---|---|
| `TypeCorrect` | `Spec => []TypeOK` |
| `OpenModelsBackedHolds` | the device of an open model is open, and the noted model is open |
| `AttachedExclusivelyHolds` | an MPU group is attached to one open model at most, and is busy then |

That open models are backed is not inductive: a close that destroys a model takes one
reference of its device, and nothing in the property says that another model's
reference is still there. The invariant is `Backed`: a device has at least as many
references as any one model on it, plus one for each other open model on it
(`OthersOn`). It is an inequality because a model opened several times takes a
reference each time and gives back one. The arithmetic of it is three lemmas about
tables (`BackedNew`, `BackedAgain`, `BackedClose`), with the cardinality of
`OthersOn` changing by one model. Exclusive attachment is in the invariant as it
stands and leans on `Backed`: a device forgets which MPU groups are busy when its
last reference goes, and `Backed` says that no other model, so no attached one, is
left on it then; `OpenOrClosed` says that a model that is not open is attached to
nothing. `LeastExists` shows that the search for an idle MPU group finds one of
the idle ones. `DownloadDelivers` is not proved: the run `models_download` refutes
it.

### The first generation

`CascadeIfmap_proofs` and `CascadeOfmap_proofs` prove every property their passing runs
check, for any number of flows, callers and job workers and any frame height, ring and
list size allowed by `WorkersAssumption`, `CascadeIfmapAssumption` and
`CascadeOfmapAssumption` (finitely many threads, at least one job worker, a ring of
more than one row; a ring of one row is full and empty at once and moves nothing). The
output's theorems have the form `ASSUME NodesFit PROVE Spec => []P`: they hold of a
device whose nodes fit.

| Theorem | Input | Output |
|---|---|---|
| `TypesCorrect` | `TypeOK`: a list passes its limit by less than the callers there are; a count of rows may be below zero | `TypeOK`: a list passes its limit by less than the decoders there are |
| `TransferStaysInRing` | rows sent are in the ring, a wrong count is below zero | |
| `WholeFrames` | the device gets whole frames, none twice | so does the application |
| `FramesOrdered` | in order if there never were two encoders | likewise, none missing but those dropped at a full list |
| `FramesHaveJobs` | every frame in a list has a job, unless one of the flow was discarded | |
| `CounterExact` | `ota` counts the rows in the rings | |
| `ReportExact` | | rows told and not decoded are those of frames with a job, unless one was discarded |
| `NobodySleepsForGood` | no wake-up is lost, no lock kept | the same |

`CascadeWorkers_proofs` has what both rest on. `PoolInv`: the pool lists each job
worker once; one outside it is off or is the one being removed, and the removed one
has been told to stop. `JobsSignalled`: if all workers of the pool wait while there
are jobs (`AllWait`), somebody is about to signal. Removal is the hard step: the
worker on its way out can take the signal that was meant for another, and does no
harm only because `RemoveTell` wakes everybody next, after which it never waits again.

`IfmapInv` adds the input's part, stated about the *stream* of a flow: the rows on the
wire and those in the ring the transfer under way has not sent (`Stream`). Moving the
read pointer leaves the stream alone, sending a row does too, and only an encoder
lengthens it; so the properties of the wire follow from those of the stream, of which it
is a prefix. `Whole` says that the stream is cut into frames of `H` rows with one number
each, no number twice. It is not inductive: an encoder that writes its second row must
be the one that wrote the first. `EncoderInv` says so: it holds the flow's lock, the
stream ends with the rows it wrote, and the frame it took is nobody else's and, before
its first row, new to the stream. `StreamInv` says that a stream whose lock is free ends
with a whole frame. `TransferInv` ties each place of the transfer to what `entry_w` can
have become: at the subtraction it is above `entry_r`, or has wrapped and is below, and
then the count is below zero; at the comparison it is below, and stays so, since an
encoder that wraps was not (`TransferReads`, `ReadsChange`). It is the step where the
separate reads matter; only a positive count sends, and that count was of rows in the
ring. `Written` counts, with one encoder, the frames taken and the rows of the one in
hand; it is what order follows from. `JobsMatchFrames` follows from `JobsInv`, the same
sum with the jobs that were discarded, and from `NoneDiscarded`: one encoder drops no
job before destroy, because `set_worker_number` never removes the last one. `JobsInv`
and `CounterMatchesRows` are sums over threads that are inductive once `CallersInv` says
that destroy waits for callers; each is proved with lemmas on how one thread's step
changes a cardinality.

`OfmapInv` is about the same ring read the other way, where pointers are not enough:
`entry_w`, `entry_r` and `entry_report_r` are remainders, and that the third never
overtakes the first, nor falls a whole ring behind, cannot be said of them. `FlowInv`
therefore says that there are absolute numbers behind them: `W` rows published, `q`
frames and `m` rows of the next decoded, `t` frames told (`PointersAre`), and states
everything of these: what each row of the ring is (`RowsAre`), that a decoder with the
lock has exactly the first `m` rows of frame `q` (`LockIs`), that the frames given out,
in lists or in the hands of a decoder are distinct frames below `q` (`FramesAre`), that
the worker reads no more than fits (`TransferIs`, where `NodesFit` is used), and that
frames told are frames decoded plus jobs, discarded ones included (`JobsAre`). Every
step moves one or none of the four numbers, and the proof of a step names them.
`JobsAre` is the heart: a decoder never asks whether a frame is complete, it trusts its
job, so that it reads no row before it came is a fact about counts in three places.
`EmptyHanded` (a decoder outside a frame has no rows) makes a frame begin with its first
row, and `ListsInv` bounds the lists.

### Only model-checked

Liveness (frames reach the device, callers, disable, destroy and close return,
balanced inputs drain), because reasoning under fairness is beyond the proof system.
The four properties whose runs find a violation are false of the code and not proved.
Every other property of a run is the property of a theorem.

## 5. Plan

Theorems first: the first generation with one job worker in each direction as an
implementation of `FrameChannel`, with frames in a list and rows in the ring as one
backlog; quiet after a disable with wait, which its runs do not check yet.

Modules after that:

1. `CascadePlusZeroCopy`: `dequeue_ifmap_buf` and `enqueue_ifmap_buf`, which write to
   the device without the worker.
2. `CascadePlusReconfig`: new sizes under running workers; rings of one frame.
3. `PcieWritePath`: chunked writes and what a failure leaves; `PcieFops`: write and
   abort under the kernel's mutex, several openers; `FwCommand`: the firmware command
   handshake and late answers.
4. `GroupLock`: the lock of a device between threads and processes, and its error
   paths; creation of a device by two threads.
5. `MemxList` and `RingBuffer` (a byte ring refined to a byte queue).

### Not modelled

The Windows drivers (callbacks of a framework that is not here), the bindings and
tools (no state of their own), the C++ API, USB (its crawler mirrors the PCIe one on
bulk transfers), parsing of model files and text formats, conversion of number
formats, firmware commands and downloads below the level of their parts, device reset
(`memx_pcie_operation`), and memory that runs out. Most of the repository's lines are
third-party headers and bundled libraries for the Android demo; none of that is the
driver's own logic.
