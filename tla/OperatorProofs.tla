--------------------------- MODULE OperatorProofs ---------------------------
(***************************************************************************)
(* Proofs about Operator and Config, for any set of specs that the CRD     *)
(* admits and any number of edits and failures.                            *)
(***************************************************************************)
EXTENDS Operator, TLAPS

-----------------------------------------------------------------------------
(* What the server makes of the environment the operator writes *)

\* The variables that are always written, and the three that may be missing.
LEMMA EnvFacts ==
    ASSUME NEW s \in Specs
    PROVE  LET env == buildEnvVars(s)
           IN  /\ {"Port", "MetricsPort", "Workers", "QueueDepth", "SinkType"} \subseteq DOMAIN env
               /\ "MaxConns" \notin DOMAIN env /\ "ReadTimeout" \notin DOMAIN env
               /\ env["Port"] = Address(s.port) /\ env["MetricsPort"] = Address(s.metricsPort)
               /\ env["Workers"] = Decimal(s.workers)
               /\ env["QueueDepth"] = Decimal(s.queueDepth)
               /\ env["SinkType"] = Word(s.sinkType)
               /\ "PostgresURL" \in DOMAIN env <=> Word(s.postgresURL) # Unset
               /\ "PostgresURL" \in DOMAIN env => env["PostgresURL"] = Word(s.postgresURL)
               /\ "NATSURL" \in DOMAIN env <=> Word(s.natsURL) # Unset
               /\ "NATSURL" \in DOMAIN env => env["NATSURL"] = Word(s.natsURL)
<1> DEFINE always == [Port |-> Address(s.port), MetricsPort |-> Address(s.metricsPort),
                      Workers |-> Decimal(s.workers), QueueDepth |-> Decimal(s.queueDepth)]
           optional == [SinkType |-> Word(s.sinkType), PostgresURL |-> Word(s.postgresURL),
                        NATSURL |-> Word(s.natsURL)]
           given == {f \in DOMAIN optional : optional[f] # Unset}
           env == [f \in DOMAIN always \cup given |->
                      IF f \in given THEN optional[f] ELSE always[f]]
<1>1. buildEnvVars(s) = env
  BY DEF buildEnvVars
<1>2. /\ DOMAIN always = {"Port", "MetricsPort", "Workers", "QueueDepth"}
      /\ DOMAIN optional = {"SinkType", "PostgresURL", "NATSURL"}
  OBVIOUS
<1>3. Word(s.sinkType) # Unset
  BY OperatorAssumption DEF Word, Unset
<1>4. /\ "SinkType" \in given
      /\ "PostgresURL" \in given <=> Word(s.postgresURL) # Unset
      /\ "NATSURL" \in given <=> Word(s.natsURL) # Unset
      /\ given \subseteq {"SinkType", "PostgresURL", "NATSURL"}
  BY <1>2, <1>3
<1>5. DOMAIN env = {"Port", "MetricsPort", "Workers", "QueueDepth"} \cup given
  BY <1>2
<1>6. /\ \A f \in given : env[f] = optional[f]
      /\ \A f \in DOMAIN always : env[f] = always[f]
  BY <1>2, <1>4
<1>7. /\ always["Port"] = Address(s.port) /\ always["MetricsPort"] = Address(s.metricsPort)
      /\ always["Workers"] = Decimal(s.workers)
      /\ always["QueueDepth"] = Decimal(s.queueDepth)
      /\ optional["SinkType"] = Word(s.sinkType)
      /\ optional["PostgresURL"] = Word(s.postgresURL)
      /\ optional["NATSURL"] = Word(s.natsURL)
  OBVIOUS
<1> HIDE DEF always, optional, given, env
<1> QED
  BY <1>1, <1>2, <1>4, <1>5, <1>6, <1>7

\* A spec whose pods get past Load is honoured.
LEMMA StartingIsHonoured == Starting \subseteq Honoured
<1> SUFFICES ASSUME NEW s \in Specs, Loads(<<>>, buildEnvVars(s)) PROVE s \in Honoured
  BY DEF Starting
<1> DEFINE env == buildEnvVars(s)
           c == Effective(<<>>, env)
<1>1. /\ {"Port", "MetricsPort", "Workers", "QueueDepth", "SinkType"} \subseteq DOMAIN env
      /\ env["Port"] = Address(s.port) /\ env["MetricsPort"] = Address(s.metricsPort)
      /\ env["Workers"] = Decimal(s.workers) /\ env["QueueDepth"] = Decimal(s.queueDepth)
      /\ env["SinkType"] = Word(s.sinkType)
      /\ "PostgresURL" \in DOMAIN env <=> Word(s.postgresURL) # Unset
      /\ "PostgresURL" \in DOMAIN env => env["PostgresURL"] = Word(s.postgresURL)
      /\ "NATSURL" \in DOMAIN env <=> Word(s.natsURL) # Unset
      /\ "NATSURL" \in DOMAIN env => env["NATSURL"] = Word(s.natsURL)
  BY EnvFacts
<1>2. \A f \in Fields : c[f] = IF f \in DOMAIN env THEN Parsed(f, env[f]) ELSE Defaults[f]
  BY DEF Effective
<1> HIDE DEF env, c
<1>3. /\ \A f \in {"Workers", "QueueDepth"} : f \in Fields /\ f \notin TextFields
      /\ TextFields \subseteq Fields
  BY DEF Fields, IntFields, TextFields
<1>4. c["Workers"] = s.workers /\ c["QueueDepth"] = s.queueDepth
  BY <1>1, <1>2, <1>3 DEF Parsed, Decimal
<1>5. /\ c["Port"] = Address(s.port) /\ c["MetricsPort"] = Address(s.metricsPort)
      /\ c["SinkType"] = Word(s.sinkType)
      /\ "PostgresURL" \in DOMAIN env => c["PostgresURL"] = Word(s.postgresURL)
      /\ "NATSURL" \in DOMAIN env => c["NATSURL"] = Word(s.natsURL)
  BY <1>1, <1>2, <1>3 DEF Parsed, TextFields
<1>6. /\ "PostgresURL" \notin DOMAIN env => c["PostgresURL"] = Unset
      /\ "NATSURL" \notin DOMAIN env => c["NATSURL"] = Unset
  BY <1>2, <1>3 DEF Defaults, TextFields
<1>7. /\ Word("postgres") # Word("nats") /\ Word("postgres") # Word("stdout")
      /\ Word("nats") # Word("stdout") /\ Word("") = Unset
  BY DEF Word, Unset
<1>8. validate(c)
  BY DEF Loads, c, env
<1>9. /\ s.sinkType = "postgres" => c["PostgresURL"] # Unset
      /\ s.sinkType = "nats" => c["NATSURL"] # Unset
  BY <1>5, <1>7, <1>8 DEF validate
<1>10. /\ s.sinkType = "postgres" => c["PostgresURL"] = Word(s.postgresURL) /\ s.postgresURL # ""
       /\ s.sinkType = "nats" => c["NATSURL"] = Word(s.natsURL) /\ s.natsURL # ""
  BY <1>1, <1>5, <1>6, <1>7, <1>9
<1> QED
  BY <1>4, <1>5, <1>10 DEF Honoured, c, env

-----------------------------------------------------------------------------
(* The inductive invariant *)

\* Reconcile has a copy of the pipeline while it runs, and one of the
\* Deployment when it comes to the status.
Working ==
    /\ rpc # "idle" => pipeline # None
    /\ rpc = "status" => deploy # None

\* A copy in the hands of Reconcile that is not marked is the object.
Fresh == rpc # "idle" /\ ~moved => pipeline = cr

\* A cached copy that is not marked is the object.
Copies ==
    /\ "cr" \notin stale => cache.cr = cr
    /\ "dep" \notin stale => cache.dep = dep
    /\ "svc" \notin stale => cache.svc = svc

\* Ready pods got past Load and have their two ports.
RunsStarting == dep # None /\ dep.runs # None => dep.runs \in Starting

Inv == TypeOK /\ Working /\ Fresh /\ Copies /\ RunsStarting

LEMMA SpecFacts ==
    ASSUME NEW s \in Specs
    PROVE  s.replicas \in Nat /\ s.port \in {t.port : t \in Specs}
BY OperatorAssumption

\* What an object looks like whose field was changed.
LEMMA WithSpec ==
    /\ \A p \in Pipelines, s \in Specs : [p EXCEPT !.spec = s] \in Pipelines
    /\ \A d \in Deployments, s \in Specs :
          /\ [d EXCEPT !.spec = s] \in Deployments
          /\ [d EXCEPT !.spec = s].runs = d.runs
    /\ \A d \in Deployments, n \in Nat :
          /\ [d EXCEPT !.ready = n] \in Deployments
          /\ [d EXCEPT !.ready = n].runs = d.runs
BY DEF Pipelines, Deployments

\* Init establishes the invariant.
LEMMA InitInv == Init => Inv
<1> SUFFICES ASSUME Init PROVE Inv
  OBVIOUS
<1>0. /\ 0 \in 0..MaxEdits /\ 0 \in 0..MaxFailures
      /\ cache \in [cr : Pipelines \cup {None}, dep : Deployments \cup {None},
                    svc : Services \cup {None}]
  BY OperatorAssumption DEF Init
<1>1. TypeOK
  BY <1>0 DEF Init, TypeOK
<1>2. Working /\ Fresh /\ RunsStarting
  BY DEF Init, Working, Fresh, RunsStarting
<1>3. Copies
  BY DEF Init, Copies
<1> QED BY <1>1, <1>2, <1>3 DEF Inv

\* What SetDep leaves alone, given that only a good Deployment is written.
LEMMA SetDepInv ==
    ASSUME Inv, NEW v \in Deployments \cup {None}, SetDep(v),
           v # None /\ v.runs # None => v.runs \in Starting,
           UNCHANGED <<cr, svc, cache>>
    PROVE  /\ dep' \in Deployments \cup {None} /\ stale' \in SUBSET {"cr", "dep", "svc"}
           /\ Copies' /\ RunsStarting'
<1>1. dep' \in Deployments \cup {None} /\ stale' \in SUBSET {"cr", "dep", "svc"}
  BY DEF SetDep, Inv, TypeOK
<1>2. Copies'
  BY DEF SetDep, Inv, Copies
<1>3. RunsStarting'
  BY DEF SetDep, Inv, RunsStarting, Starting
<1> QED BY <1>1, <1>2, <1>3

LEMMA SetSvcInv ==
    ASSUME Inv, NEW v \in Services \cup {None}, SetSvc(v), UNCHANGED <<cr, dep, cache>>
    PROVE  /\ svc' \in Services \cup {None} /\ stale' \in SUBSET {"cr", "dep", "svc"}
           /\ Copies' /\ RunsStarting'
<1>1. svc' \in Services \cup {None} /\ stale' \in SUBSET {"cr", "dep", "svc"}
  BY DEF SetSvc, Inv, TypeOK
<1>2. Copies'
  BY DEF SetSvc, Inv, Copies
<1>3. RunsStarting'
  BY DEF Inv, RunsStarting, Starting
<1> QED BY <1>1, <1>2, <1>3

LEMMA SetCRInv ==
    ASSUME Inv, NEW v \in Pipelines \cup {None}, SetCR(v), UNCHANGED <<dep, svc, cache>>
    PROVE  /\ cr' \in Pipelines \cup {None} /\ stale' \in SUBSET {"cr", "dep", "svc"}
           /\ Copies' /\ RunsStarting'
<1>1. cr' \in Pipelines \cup {None} /\ stale' \in SUBSET {"cr", "dep", "svc"}
  BY DEF SetCR, Inv, TypeOK
<1>2. Copies'
  BY DEF SetCR, Inv, Copies
<1>3. RunsStarting'
  BY DEF Inv, RunsStarting, Starting
<1> QED BY <1>1, <1>2, <1>3

\* A user's change of the pipeline marks the copy in Reconcile's hands.
LEMMA UserSetsCRInv ==
    ASSUME Inv, NEW v \in Pipelines \cup {None}, UserSetsCR(v), Edit
    PROVE  Inv'
<1>1. /\ cr' \in Pipelines \cup {None} /\ stale' \in SUBSET {"cr", "dep", "svc"}
      /\ Copies' /\ RunsStarting'
  BY SetCRInv DEF UserSetsCR
<1>2. TypeOK'
  BY <1>1, OperatorAssumption DEF UserSetsCR, Edit, Inv, TypeOK
<1>3. Working' /\ Fresh'
  BY DEF UserSetsCR, SetCR, Inv, Working, Fresh
<1> QED BY <1>1, <1>2, <1>3 DEF Inv

\* A change of a child by somebody else leaves Reconcile alone.
LEMMA OthersInv ==
    ASSUME Inv, UNCHANGED <<cr, cache, queued, local>>,
           /\ dep' \in Deployments \cup {None} /\ svc' \in Services \cup {None}
           /\ stale' \in SUBSET {"cr", "dep", "svc"} /\ Copies' /\ RunsStarting',
           edits' \in 0..MaxEdits, failures' \in 0..MaxFailures
    PROVE  Inv'
<1>1. TypeOK'
  BY DEF local, Inv, TypeOK
<1>2. Working' /\ Fresh'
  BY DEF local, Inv, Working, Fresh
<1> QED BY <1>1, <1>2 DEF Inv

\* Reconcile returns, with or without an error, and writes nothing.
LEMMA ReturnInv ==
    ASSUME Inv, Return, queued' \in BOOLEAN, UNCHANGED <<objects, cache, stale, edits>>,
           failures' \in 0..MaxFailures
    PROVE  Inv'
<1>1. TypeOK'
  BY DEF Return, objects, Inv, TypeOK
<1>2. Working' /\ Fresh'
  BY DEF Return, Working, Fresh
<1>3. Copies' /\ RunsStarting'
  BY DEF objects, Inv, Copies, RunsStarting, Starting
<1> QED BY <1>1, <1>2, <1>3 DEF Inv

\* Every step keeps the invariant.
LEMMA NextInv == Inv /\ [Next]_vars => Inv'
<1> SUFFICES ASSUME Inv, [Next]_vars PROVE Inv'
  OBVIOUS
<1>b. edits \in 0..MaxEdits /\ failures \in 0..MaxFailures /\ queued \in BOOLEAN
  BY DEF Inv, TypeOK
<1>d. /\ dep # None => dep \in Deployments
      /\ dep # None /\ dep.runs # None => dep.runs \in Starting
      /\ dep \in Deployments \cup {None} /\ svc \in Services \cup {None}
  BY DEF Inv, TypeOK, RunsStarting
<1>e. Edit => edits' \in 0..MaxEdits
  BY <1>b, OperatorAssumption DEF Edit
<1>s. Starting \subseteq Specs
  BY DEF Starting
<1>1. ASSUME NEW s \in Specs, ApplyCR(s) PROVE Inv'
  <2>1. [uid |-> edits, spec |-> s, status |-> [readyReplicas |-> 0, phase |-> ""]] \in Pipelines
    BY <1>b, OperatorAssumption DEF Pipelines, Statuses
  <2>2. cr # None => [cr EXCEPT !.spec = s] \in Pipelines
    BY WithSpec DEF Inv, TypeOK
  <2> QED BY <1>1, <2>1, <2>2, UserSetsCRInv DEF ApplyCR
<1>2. ASSUME NEW s \in Specs, DriftDeployment(s) PROVE Inv'
  <2>1. /\ [dep EXCEPT !.spec = s] \in Deployments
        /\ [dep EXCEPT !.spec = s].runs = dep.runs
    BY <1>2, <1>d, WithSpec DEF DriftDeployment
  <2>2. /\ dep' \in Deployments \cup {None} /\ stale' \in SUBSET {"cr", "dep", "svc"}
        /\ Copies' /\ RunsStarting'
    BY <1>2, <1>d, <2>1, SetDepInv DEF DriftDeployment
  <2> QED BY <1>2, <1>b, <1>d, <1>e, <2>2, OthersInv DEF DriftDeployment
<1>2s. ASSUME NEW s \in Specs, DriftService(s) PROVE Inv'
  <2>1. [svc EXCEPT !.port = s.port] \in Services
    BY <1>2s, <1>d, SpecFacts DEF DriftService, Services
  <2>2. /\ svc' \in Services \cup {None} /\ stale' \in SUBSET {"cr", "dep", "svc"}
        /\ Copies' /\ RunsStarting'
    BY <1>2s, <2>1, SetSvcInv DEF DriftService
  <2> QED BY <1>2s, <1>b, <1>d, <1>e, <2>2, OthersInv DEF DriftService
<1>3. CASE DeleteCR
  BY <1>3, UserSetsCRInv DEF DeleteCR
<1>4. ASSUME UNCHANGED <<cr, cache, queued, local>>,
             edits' \in 0..MaxEdits, failures' \in 0..MaxFailures,
             \/ SetDep(None) /\ UNCHANGED svc
             \/ SetSvc(None) /\ UNCHANGED dep
      PROVE  Inv'
  <2>1. CASE SetDep(None) /\ UNCHANGED svc
    <3>1. /\ dep' \in Deployments \cup {None} /\ stale' \in SUBSET {"cr", "dep", "svc"}
          /\ Copies' /\ RunsStarting'
      BY <1>4, <2>1, SetDepInv
    <3> QED BY <1>4, <1>d, <2>1, <3>1, OthersInv
  <2>2. CASE SetSvc(None) /\ UNCHANGED dep
    <3>1. /\ svc' \in Services \cup {None} /\ stale' \in SUBSET {"cr", "dep", "svc"}
          /\ Copies' /\ RunsStarting'
      BY <1>4, <2>2, SetSvcInv
    <3> QED BY <1>4, <1>d, <2>2, <3>1, OthersInv
  <2> QED BY <1>4, <2>1, <2>2
<1>5. CASE DeleteChild
  BY <1>5, <1>4, <1>b, <1>e DEF DeleteChild
<1>6. CASE CollectGarbage
  BY <1>6, <1>4, <1>b DEF CollectGarbage
<1>7. CASE RollOut
  <2> DEFINE v == [dep EXCEPT !.ready = dep.spec.replicas, !.runs = dep.spec]
  <2>1. dep.spec \in Specs /\ dep.spec.replicas \in Nat /\ dep.spec \in Starting
    BY <1>7, <1>s, SpecFacts DEF RollOut
  <2>2. v \in Deployments /\ v.runs = dep.spec
    BY <1>7, <1>d, <2>1 DEF RollOut, Deployments
  <2>3. SetDep(v) /\ UNCHANGED <<cr, svc, cache, queued, local, edits, failures>>
    BY <1>7 DEF RollOut
  <2> HIDE DEF v
  <2>4. /\ dep' \in Deployments \cup {None} /\ stale' \in SUBSET {"cr", "dep", "svc"}
        /\ Copies' /\ RunsStarting'
    BY <2>1, <2>2, <2>3, SetDepInv
  <2> QED BY <1>b, <1>d, <2>3, <2>4, OthersInv
<1>8. CASE KeepOldPods
  <2> DEFINE v == [dep EXCEPT !.ready = dep.spec.replicas]
  <2>1. dep.spec \in Specs /\ dep.spec.replicas \in Nat
    BY <1>8, <1>d, SpecFacts DEF KeepOldPods, Deployments
  <2>2. v \in Deployments /\ v.runs = dep.runs
    BY <1>8, <1>d, <2>1, WithSpec DEF KeepOldPods
  <2>3. dep # None /\ SetDep(v) /\ UNCHANGED <<cr, svc, cache, queued, local, edits, failures>>
    BY <1>8 DEF KeepOldPods
  <2> HIDE DEF v
  <2>4. /\ dep' \in Deployments \cup {None} /\ stale' \in SUBSET {"cr", "dep", "svc"}
        /\ Copies' /\ RunsStarting'
    BY <1>d, <2>2, <2>3, SetDepInv
  <2> QED BY <1>b, <1>d, <2>3, <2>4, OthersInv
<1>9. CASE PodFails
  <2> DEFINE v == [dep EXCEPT !.ready = @ - 1]
  <2>1. dep \in Deployments /\ dep.ready \in Nat /\ dep.ready - 1 \in Nat
    BY <1>9, <1>d DEF PodFails, Deployments
  <2>2. v \in Deployments /\ v.runs = dep.runs
    BY <2>1, WithSpec
  <2>3. /\ dep # None /\ SetDep(v) /\ UNCHANGED <<cr, svc, cache, queued, local, edits>>
        /\ failures' \in 0..MaxFailures
    BY <1>9, <1>b, OperatorAssumption DEF PodFails
  <2> HIDE DEF v
  <2>4. /\ dep' \in Deployments \cup {None} /\ stale' \in SUBSET {"cr", "dep", "svc"}
        /\ Copies' /\ RunsStarting'
    BY <1>d, <2>2, <2>3, SetDepInv
  <2> QED BY <1>b, <1>d, <2>3, <2>4, OthersInv
<1>10. CASE ObservePipeline \/ ObserveDeployment \/ ObserveService
  <2>1. TypeOK'
    BY <1>10 DEF ObservePipeline, ObserveDeployment, ObserveService, objects, local, Inv, TypeOK
  <2>2. Working' /\ Fresh'
    BY <1>10 DEF ObservePipeline, ObserveDeployment, ObserveService, objects, local,
                 Inv, Working, Fresh
  <2>3. Copies'
    BY <1>10 DEF ObservePipeline, ObserveDeployment, ObserveService, objects, Inv, TypeOK, Copies
  <2>4. RunsStarting'
    BY <1>10 DEF ObservePipeline, ObserveDeployment, ObserveService, objects, Inv,
                 RunsStarting, Starting
  <2> QED BY <2>1, <2>2, <2>3, <2>4 DEF Inv
<1>11. CASE GetPipeline
  <2>1. TypeOK'
    BY <1>11 DEF GetPipeline, objects, Inv, TypeOK
  <2>2. Working' /\ Fresh'
    BY <1>11 DEF GetPipeline, objects, Inv, Working, Fresh, Copies
  <2>3. Copies' /\ RunsStarting'
    BY <1>11 DEF GetPipeline, objects, Inv, Copies, RunsStarting, Starting
  <2> QED BY <2>1, <2>2, <2>3 DEF Inv
<1>12. CASE ReconcileDeployment
  <2>1. CASE ReturnError /\ UNCHANGED <<dep, stale>>
    BY <1>12, <1>b, <2>1, ReturnInv DEF ReconcileDeployment, ReturnError, objects
  <2>2. CASE /\ SetDep(MutateDeployment(dep, buildDeployment(pipeline)))
             /\ rpc' = "service" /\ UNCHANGED <<queued, pipeline, moved, deploy>>
    <3> DEFINE w == buildDeployment(pipeline)
               v == MutateDeployment(dep, w)
    <3>1. pipeline \in Pipelines
      BY <1>12 DEF ReconcileDeployment, Inv, TypeOK, Working
    <3>2. w \in Deployments /\ w.runs = None
      BY <3>1 DEF buildDeployment, Pipelines, Deployments
    <3>3. /\ v \in Deployments
          /\ v.runs # None => dep # None /\ v.runs = dep.runs
      <4>1. CASE dep = None
        BY <3>2, <4>1 DEF MutateDeployment
      <4>2. CASE dep # None
        BY <1>d, <3>2, <4>2 DEF MutateDeployment, Deployments
      <4> QED BY <4>1, <4>2
    <3>4. SetDep(v) /\ UNCHANGED <<cr, svc, cache, edits, failures>>
      BY <1>12, <2>2 DEF ReconcileDeployment
    <3> HIDE DEF v
    <3>5. /\ dep' \in Deployments \cup {None} /\ stale' \in SUBSET {"cr", "dep", "svc"}
          /\ Copies' /\ RunsStarting'
      BY <1>d, <3>3, <3>4, SetDepInv
    <3>6. TypeOK'
      BY <2>2, <3>4, <3>5 DEF Inv, TypeOK
    <3>7. Working' /\ Fresh'
      BY <1>12, <2>2, <3>4 DEF ReconcileDeployment, Inv, Working, Fresh
    <3> QED BY <3>5, <3>6, <3>7 DEF Inv
  <2> QED BY <1>12, <2>1, <2>2 DEF ReconcileDeployment
<1>13. CASE ReconcileService
  <2>1. CASE ReturnError /\ UNCHANGED <<svc, stale>>
    BY <1>13, <1>b, <2>1, ReturnInv DEF ReconcileService, ReturnError, objects
  <2>2. CASE /\ SetSvc(buildService(pipeline))
             /\ rpc' = "get" /\ UNCHANGED <<queued, pipeline, moved, deploy>>
    <3>1. pipeline \in Pipelines
      BY <1>13 DEF ReconcileService, Inv, TypeOK, Working
    <3>2. buildService(pipeline) \in Services
      BY <3>1, SpecFacts DEF buildService, Pipelines, Services
    <3>3. /\ svc' \in Services \cup {None} /\ stale' \in SUBSET {"cr", "dep", "svc"}
          /\ Copies' /\ RunsStarting'
      BY <1>13, <2>2, <3>2, SetSvcInv DEF ReconcileService
    <3>4. TypeOK'
      BY <1>13, <2>2, <3>3 DEF ReconcileService, Inv, TypeOK
    <3>5. Working' /\ Fresh'
      BY <1>13, <2>2 DEF ReconcileService, Inv, Working, Fresh
    <3> QED BY <3>3, <3>4, <3>5 DEF Inv
  <2> QED BY <1>13, <2>1, <2>2 DEF ReconcileService
<1>14. CASE GetDeployment
  <2>1. CASE cache.dep = None /\ ReturnError
    BY <1>14, <1>b, <2>1, ReturnInv DEF GetDeployment, ReturnError
  <2>2. CASE /\ cache.dep # None /\ deploy' = cache.dep /\ rpc' = "status"
             /\ UNCHANGED <<queued, pipeline, moved>>
    <3>1. TypeOK'
      BY <1>14, <2>2 DEF GetDeployment, objects, Inv, TypeOK
    <3>2. Working' /\ Fresh'
      BY <1>14, <2>2 DEF GetDeployment, objects, Inv, Working, Fresh
    <3>3. Copies' /\ RunsStarting'
      BY <1>14 DEF GetDeployment, objects, Inv, Copies, RunsStarting, Starting
    <3> QED BY <3>1, <3>2, <3>3 DEF Inv
  <2> QED BY <1>14, <2>1, <2>2 DEF GetDeployment
<1>15. CASE UpdateStatus
  <2>1. CASE moved /\ ReturnError /\ UNCHANGED <<cr, stale>>
    BY <1>15, <1>b, <2>1, ReturnInv DEF UpdateStatus, ReturnError, objects
  <2>2. CASE ~moved /\ SetCR([cr EXCEPT !.status = NewStatus]) /\ Return /\ UNCHANGED queued
    <3>1. cr \in Pipelines /\ pipeline \in Pipelines /\ deploy \in Deployments
      BY <1>15, <2>2 DEF UpdateStatus, Inv, TypeOK, Working, Fresh
    <3>2. NewStatus \in Statuses
      BY <3>1 DEF NewStatus, Statuses, computePhase, Deployments
    <3>3. [cr EXCEPT !.status = NewStatus] \in Pipelines
      BY <3>1, <3>2 DEF Pipelines
    <3>4. /\ cr' \in Pipelines \cup {None} /\ stale' \in SUBSET {"cr", "dep", "svc"}
          /\ Copies' /\ RunsStarting'
      BY <1>15, <2>2, <3>3, SetCRInv DEF UpdateStatus
    <3>5. TypeOK'
      BY <1>15, <2>2, <3>4 DEF UpdateStatus, Return, Inv, TypeOK
    <3>6. Working' /\ Fresh'
      BY <2>2 DEF Return, Working, Fresh
    <3> QED BY <3>4, <3>5, <3>6 DEF Inv
  <2> QED BY <1>15, <2>1, <2>2 DEF UpdateStatus
<1>16. CASE CallFails
  <2>1. failures' \in 0..MaxFailures
    BY <1>16, <1>b, OperatorAssumption DEF CallFails
  <2> QED BY <1>16, <1>b, <2>1, ReturnInv DEF CallFails, ReturnError
<1>17. CASE UNCHANGED vars
  <2>1. UNCHANGED <<cr, dep, svc, cache, stale, queued, local, edits, failures>>
    BY <1>17 DEF vars, objects
  <2>2. Copies' /\ RunsStarting'
    BY <2>1 DEF Inv, Copies, RunsStarting, Starting
  <2>3. stale' \in SUBSET {"cr", "dep", "svc"}
    BY <2>1 DEF Inv, TypeOK
  <2> QED BY <1>b, <1>d, <2>1, <2>2, <2>3, OthersInv
<1> QED
  BY <1>1, <1>2, <1>2s, <1>3, <1>5, <1>6, <1>7, <1>8, <1>9, <1>10, <1>11, <1>12, <1>13, <1>14,
     <1>15, <1>16, <1>17
  DEF Next, Users, Reconcile, Steady

LEMMA Invariance == Spec => []Inv
BY InitInv, NextInv, PTL DEF Spec

-----------------------------------------------------------------------------
(* The theorems *)

\* Objects, cached copies and the copies Reconcile holds are of their kinds, and
\* edits and failures are within their bounds.
THEOREM OperatorTypes == Spec => []TypeOK
<1>1. Inv => TypeOK
  BY DEF Inv
<1> QED BY Invariance, <1>1, PTL

\* Whatever specs users apply, ready pods run one that the server honours: what
\* buildEnvVars writes is what Load reads, and a spec without the URL of its
\* sink never gets a pod ready.
THEOREM PodsRunAsAsked == Spec => []RunsAsAsked
<1>1. Inv => RunsAsAsked
  BY StartingIsHonoured DEF Inv, RunsStarting, RunsAsAsked
<1> QED BY Invariance, <1>1, PTL

\* A status that Reconcile computed from an outdated copy of the pipeline is
\* never stored: the phase fits the replicas of the spec it is stored beside.
THEOREM StatusIsOfTheSpec == Spec => StatusFitsSpec
<1> DEFINE Fits == cr # None /\ cr' # None /\ cr'.status # cr.status =>
                      /\ cr'.uid = cr.uid
                      /\ (cr'.status.phase = "Running")
                            <=> (cr'.status.readyReplicas = cr.spec.replicas)
<1>1. ASSUME Inv, Next PROVE Fits
  <2> SUFFICES ASSUME cr # None, cr' # None, cr'.status # cr.status
               PROVE  /\ cr'.uid = cr.uid
                      /\ (cr'.status.phase = "Running")
                            <=> (cr'.status.readyReplicas = cr.spec.replicas)
    OBVIOUS
  <2>0. cr \in Pipelines
    BY <1>1 DEF Inv, TypeOK
  <2>1. ASSUME NEW s \in Specs PROVE ~ApplyCR(s)
    BY <2>0 DEF ApplyCR, UserSetsCR, SetCR, Pipelines
  <2>2. ~DeleteCR
    BY DEF DeleteCR, UserSetsCR, SetCR
  <2>3. cr' # cr
    OBVIOUS
  <2>4. UpdateStatus /\ ~moved /\ cr' = [cr EXCEPT !.status = NewStatus]
    BY <1>1, <2>1, <2>2, <2>3
    DEF Next, Users, Reconcile, Steady, vars, objects, DriftDeployment, DriftService,
        DeleteChild, CollectGarbage, RollOut, KeepOldPods, PodFails, ObservePipeline, ObserveDeployment, ObserveService,
        GetPipeline, ReconcileDeployment, ReconcileService, GetDeployment, UpdateStatus,
        CallFails, SetCR
  <2>5. pipeline = cr
    BY <1>1, <2>4 DEF UpdateStatus, Inv, Fresh
  <2>6. /\ cr'.uid = cr.uid
        /\ cr'.status.readyReplicas = deploy.ready
        /\ cr'.status.phase = computePhase(deploy.ready, cr.spec.replicas)
    BY <2>0, <2>4, <2>5 DEF Pipelines, NewStatus
  <2> QED BY <2>6 DEF computePhase
<1>2. ASSUME UNCHANGED vars PROVE Fits
  BY <1>2 DEF vars, objects
<1>3. Inv /\ [Next]_vars => [Fits]_vars
  BY <1>1, <1>2
<1> QED BY Invariance, <1>3, PTL DEF Spec, StatusFitsSpec
=============================================================================
