---------------------- MODULE CascadePlusIfmapChannel ----------------------
(***************************************************************************)
(* The input path implements FrameChannel: what the rings hold beyond the  *)
(* frames of the current transfer that are already written is the queue,   *)
(* and one slot of each ring is never used.                                *)
(***************************************************************************)
EXTENDS CascadePlusIfmap

(* The frames of flow f that the device has not received, oldest first,    *)
(* read from the slots themselves.                                         *)
UnsentFrames(f) ==
    [k \in 1 .. Count(f) - InFlight(f) |->
        data[f][Slot(f, InFlight(f) + k - 1)]]

Channel == INSTANCE FrameChannel WITH
    Capacity <- N - 1,
    queue <- [f \in Flows |-> UnsentFrames(f)],
    delivered <- wire

(* A caller sees a bounded first-in first-out queue per flow: moving       *)
(* entry_w is the put, each frame taken by memx_mpuio_stream_write the     *)
(* delivery, and no other step of callers, worker or control changes what  *)
(* the queue holds.                                                        *)
ImplementsChannel == Channel!Spec
=============================================================================
