---------------------------- MODULE FrameChannel ----------------------------
(***************************************************************************)
(* What a data path of a model promises at its two ends, without rings,    *)
(* locks or threads: one bounded first-in first-out queue of frames for    *)
(* each flow.  On the input side a frame whose call succeeded is in the    *)
(* queue and the device takes it; on the output side the device fills the  *)
(* queue and the application takes.  Each frame is taken once.             *)
(***************************************************************************)
EXTENDS Naturals, Sequences

CONSTANTS
    Flows,      \* input or output ports of the model
    Frames,     \* what can be put in the queue
    Capacity    \* frames the driver keeps for one flow

VARIABLES
    queue,      \* queue[f]: put and not yet taken
    delivered   \* delivered[f]: what was taken, in order

channelVars == <<queue, delivered>>

Init ==
    /\ queue = [f \in Flows |-> <<>>]
    /\ delivered = [f \in Flows |-> <<>>]

(* A frame is complete in the driver. *)
Put(f, x) ==
    /\ Len(queue[f]) < Capacity
    /\ queue' = [queue EXCEPT ![f] = Append(@, x)]
    /\ UNCHANGED delivered

(* The other end takes the oldest frame of a flow. *)
Deliver(f) ==
    /\ queue[f] # <<>>
    /\ delivered' = [delivered EXCEPT ![f] = Append(@, Head(queue[f]))]
    /\ queue' = [queue EXCEPT ![f] = Tail(@)]

Next ==
    \E f \in Flows : Deliver(f) \/ \E x \in Frames : Put(f, x)

Spec == Init /\ [][Next]_channelVars
=============================================================================
