----------------------------- MODULE MCPublisher -----------------------------
(***************************************************************************)
(* A small instance of Publisher: three releases of one pattern, so that   *)
(* an upload can race the restoration of the first release over the        *)
(* second.  No symmetry: it is unsound for liveness.                       *)
(***************************************************************************)
EXTENDS Publisher
=============================================================================
