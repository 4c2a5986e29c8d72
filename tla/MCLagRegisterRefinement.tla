----------------------- MODULE MCLagRegisterRefinement -----------------------
(* The instance of MCLagRegister, checked against LagAnchors.              *)
EXTENDS LagRegisterRefinement, MCLagRegister
=============================================================================
