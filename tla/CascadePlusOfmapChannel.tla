---------------------- MODULE CascadePlusOfmapChannel ----------------------
(***************************************************************************)
(* The output path implements FrameChannel: what lies between the slot the *)
(* next reader takes and the slot the worker fills is the queue.           *)
(***************************************************************************)
EXTENDS CascadePlusOfmap

(* The complete frames nobody has taken, oldest first, from their slots. *)
UntakenFrames(f) ==
    [k \in 1 .. Occupied(entry_w[f], FirstUntaken(f)) |->
        data[f][(FirstUntaken(f) + k - 1) % N]]

Channel == INSTANCE FrameChannel WITH
    Frames <- {Whole(n) : n \in 1 .. MaxFrames},
    Capacity <- N - 1,
    queue <- [f \in Flows |-> UntakenFrames(f)]

(* The application sees a bounded first-in first-out queue of whole frames *)
(* per flow: the worker's step of entry_w is the put, the end of           *)
(* stream_ofmap or dequeue_ofmap_buf the delivery; lending and returning   *)
(* buffers, time-outs and control change nothing of it.                    *)
ImplementsChannel == Channel!Spec
=============================================================================
