--------------------------- MODULE MCMutationGate ---------------------------
(* Three requests, of which one is late, and a finalizer that outlives its *)
(* request.                                                                *)
EXTENDS MutationGate
=============================================================================
