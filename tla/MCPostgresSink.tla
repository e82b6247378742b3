--------------------------- MODULE MCPostgresSink ---------------------------
(* Instances of PostgresSink for TLC. *)
EXTENDS PostgresSink, TLC

CONSTANTS w1, w2, t1, t2, l1, l2, n1

TwoWriters == {w1, w2}
FiveEvents == {t1, t2, l1, l2, n1}

TypeOf == [e \in Events |-> CASE e \in {t1, t2} -> "trade"
                              [] e \in {l1, l2} -> "log"
                              [] e = n1         -> "none"]
=============================================================================
