----------------------------- MODULE MCOperator -----------------------------
(* An instance of Operator for TLC. *)
EXTENDS Operator

Small == [replicas |-> 1, image |-> "v1", workers |-> 50, queueDepth |-> 100000,
          port |-> 9000, metricsPort |-> 2112,
          sinkType |-> "stdout", postgresURL |-> "", natsURL |-> ""]

Large == [Small EXCEPT !.replicas = 2, !.image = "v2", !.port = 9001, !.workers = 1,
                       !.sinkType = "postgres", !.postgresURL = "postgres://db"]

\* The CRD accepts it, Load does not.
NoURL == [Small EXCEPT !.replicas = 2, !.port = 9001, !.sinkType = "nats"]

\* The CRD accepts it, the API server refuses the children.
NoPort == [Small EXCEPT !.port = 0]

FourSpecs == {Small, Large, NoURL, NoPort}
=============================================================================
