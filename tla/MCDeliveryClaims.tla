---------------------------- MODULE MCDeliveryClaims ----------------------------
(***************************************************************************)
(* An instance of DeliveryClaims.  Liveness is checked, so there is no     *)
(* symmetry.                                                               *)
(***************************************************************************)
EXTENDS DeliveryClaims
=============================================================================
