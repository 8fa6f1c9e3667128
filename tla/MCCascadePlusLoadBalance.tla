---------------------- MODULE MCCascadePlusLoadBalance ----------------------
(***************************************************************************)
(* Instances of CascadePlusLoadBalance with two and three inputs.          *)
(***************************************************************************)
EXTENDS CascadePlusLoadBalance
=============================================================================
