---------------------------- MODULE MCNatsStream ----------------------------
(* Instances of NatsStream for TLC. *)
EXTENDS NatsStream

CONSTANTS p1, p2, k1, k2, t1, t2, l1, n1, b1

TwoPublishers == {p1, p2}
TwoConsumers  == {k1, k2}
OneOfEach     == {t1, n1, b1}
TwoTrades     == {t1, t2}

TypeOf == [e \in Events |-> CASE e \in {t1, t2} -> "trade"
                              [] e = l1 -> "log"
                              [] e = n1 -> "none"
                              [] e = b1 -> "bad"]

\* The processes watch the trades with two thresholds, or one of them the logs.
Trades == [k \in Consumers |-> "aegis.trades"]
TradesAndLogs == [k \in Consumers |-> IF k = k1 THEN "aegis.trades" ELSE "aegis.logs"]
TwoLevels == [k \in Consumers |-> IF k = k1 THEN {t1, t2} \cap Events ELSE {t1}]
=============================================================================
