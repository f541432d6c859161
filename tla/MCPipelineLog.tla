--------------------------- MODULE MCPipelineLog ---------------------------
(* Values for checking PipelineLog on small instances.                     *)
EXTENDS PipelineLog, TLC

(* "once" duplicates the release it was accepted into. *)
MCVerdict(c, s, n) == IF n = 0 THEN "accept" ELSE "reject"
=============================================================================
