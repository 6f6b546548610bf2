-------------------------- MODULE MCPipelineLease --------------------------
(* Two owners, leases of one or two clock units, three generations: enough  *)
(* for an expiry, a takeover and a takeover from the new owner.             *)
EXTENDS PipelineLease


=============================================================================
