----------------------------- MODULE MCLoadTest -----------------------------
(* An instance of LoadTest for TLC. *)
EXTENDS LoadTest

CONSTANTS c1, c2

TwoConns == {c1, c2}
OldCounts == {0, 2}
=============================================================================
