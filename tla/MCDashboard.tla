---------------------------- MODULE MCDashboard ----------------------------
(* An instance of Dashboard for TLC. *)
EXTENDS Dashboard

\* The second query has no data at first: a quantile before any event.
NoQuantileYet == {<<2, 1>>}

\* What the operator's CRD registers.
OperatorGroup == {"stream.aegis.io"}
=============================================================================
