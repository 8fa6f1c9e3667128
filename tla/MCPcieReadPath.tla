--------------------------- MODULE MCPcieReadPath ---------------------------
(* Instance of PcieReadPath: a batch out of flow order, and one with two   *)
(* frames of a flow; chip 0 sends enough for a frame after a dropped one.  *)
EXTENDS PcieReadPath

TwoFlows == {<<1, 0>>, <<0, 0, 1>>}
FramesOf == [c \in Chips |-> IF c = 0 THEN 3 ELSE 1]
=============================================================================
