----------------------------- MODULE MCPipeline -----------------------------
(* An instance of Pipeline for TLC. *)
EXTENDS Pipeline

CONSTANTS c1, w1

OneConn   == {c1}
OneWorker == {w1}

\* The event without payload meets a buffer that lacks one event.
Mixed == [f \in Frame |-> <<"trade", "none", "log">>[f[2]]]
=============================================================================
