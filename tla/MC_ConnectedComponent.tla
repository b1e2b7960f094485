----------------------- MODULE MC_ConnectedComponent -----------------------
(* Every residual formula of the bounds, one call after another.           *)
EXTENDS ConnectedComponent
============================================================================
