------------------------------ MODULE Operator ------------------------------
(***************************************************************************)
(* operator/internal/controller/aegispipeline_controller.go: the           *)
(* reconciler that keeps one AegisPipeline's Deployment, Service and       *)
(* status in line with its spec.                                           *)
(*                                                                         *)
(* Reconcile reads through the informer cache, which lags behind the API   *)
(* server, and writes to the API server, which refuses an update made from *)
(* an outdated copy.  Users edit and delete all three objects meanwhile,   *)
(* the garbage collector removes children whose owner is gone, and the     *)
(* Deployment controller changes the pods.  Those three, the cache and the *)
(* work queue are external.  In place of resource versions the model has,  *)
(* for each copy, whether the object was changed since it was made.        *)
(***************************************************************************)
EXTENDS Naturals, Config

CONSTANTS
    Specs,       \* AegisPipeline specs that pass the validation of the CRD
    MaxEdits,    \* bound: edits and deletions by users
    MaxFailures, \* bound: pods that fail, calls the API server refuses
    None         \* no object

ASSUME OperatorAssumption ==
    /\ \A s \in Specs : /\ {s.replicas, s.workers, s.queueDepth} \subseteq Nat \ {0}
                         /\ s.sinkType \in {"stdout", "postgres", "nats"}
    /\ MaxEdits \in Nat /\ MaxFailures \in Nat

VARIABLES
    cr,        \* the AegisPipeline in the API server
    dep,       \* its Deployment; runs: the spec its ready pods were started with
    svc,       \* its Service
    cache,     \* the operator's cached copies of the three
    stale,     \* which of them are outdated
    queued,    \* the work queue holds the pipeline's key
    rpc,       \* where Reconcile is
    pipeline,  \* its copy of the AegisPipeline
    moved,     \* that copy is outdated
    deploy,    \* its copy of the Deployment
    edits,     \* user edits so far; also the source of new uids
    failures   \* failures so far

objects == <<cr, dep, svc>>
local   == <<rpc, pipeline, moved, deploy>>
vars    == <<objects, cache, stale, queued, local, edits, failures>>

Statuses == [readyReplicas : Nat, phase : {"", "Running", "Pending"}]
Pipelines   == [uid : Nat, spec : Specs, status : Statuses]
Deployments == [owner : Nat \cup {None}, spec : Specs, ready : Nat, runs : Specs \cup {None}]
Services    == [owner : Nat \cup {None}, port : {s.port : s \in Specs}]

TypeOK ==
    /\ cr \in Pipelines \cup {None}
    /\ dep \in Deployments \cup {None}
    /\ svc \in Services \cup {None}
    /\ cache \in [cr : Pipelines \cup {None}, dep : Deployments \cup {None},
                  svc : Services \cup {None}]
    /\ stale \in SUBSET {"cr", "dep", "svc"}
    /\ queued \in BOOLEAN /\ moved \in BOOLEAN
    /\ rpc \in {"idle", "deployment", "service", "get", "status"}
    /\ pipeline \in Pipelines \cup {None}
    /\ deploy \in Deployments \cup {None}
    /\ edits \in 0..MaxEdits
    /\ failures \in 0..MaxFailures

Init ==
    /\ cr = None /\ dep = None /\ svc = None
    /\ cache = [cr |-> None, dep |-> None, svc |-> None]
    /\ stale = {} /\ queued = FALSE
    /\ rpc = "idle" /\ pipeline = None /\ moved = FALSE /\ deploy = None
    /\ edits = 0 /\ failures = 0

-----------------------------------------------------------------------------
(* The API server: a write that changes an object outdates its copies. *)

SetCR(v) ==
    /\ cr' = v
    /\ stale' = IF v = cr THEN stale ELSE stale \cup {"cr"}

SetDep(v) ==
    /\ dep' = v
    /\ stale' = IF v = dep THEN stale ELSE stale \cup {"dep"}

SetSvc(v) ==
    /\ svc' = v
    /\ stale' = IF v = svc THEN stale ELSE stale \cup {"svc"}

-----------------------------------------------------------------------------
(* Users, garbage collector, Deployment controller *)

Edit == edits < MaxEdits /\ edits' = edits + 1

\* The copy Reconcile works with, if any, is outdated with the first change.
UserSetsCR(v) ==
    /\ SetCR(v)
    /\ moved' = (rpc # "idle" /\ (moved \/ v # cr))
    /\ UNCHANGED <<dep, svc, cache, queued, rpc, pipeline, deploy, failures>>

\* A new object has a new uid, also under an old name.
ApplyCR(s) ==
    /\ Edit
    /\ UserSetsCR(IF cr = None
                  THEN [uid |-> edits, spec |-> s, status |-> [readyReplicas |-> 0, phase |-> ""]]
                  ELSE [cr EXCEPT !.spec = s])

DeleteCR ==
    /\ Edit
    /\ cr # None
    /\ UserSetsCR(None)

\* What the API server admits.  The CRD puts no bounds on the ports; a container's
\* must be port numbers, and those of a Service must also differ.
PortNumbers == 1..65535
ValidDeployment(s) == {s.port, s.metricsPort} \subseteq PortNumbers
ValidService(s)    == ValidDeployment(s) /\ s.port # s.metricsPort

\* kubectl edit or an autoscaler on the Deployment ...
DriftDeployment(s) ==
    /\ Edit
    /\ dep # None /\ ValidDeployment(s)
    /\ SetDep([dep EXCEPT !.spec = s])
    /\ UNCHANGED <<cr, svc, cache, queued, local, failures>>

\* ... and kubectl edit on the Service.
DriftService(s) ==
    /\ Edit
    /\ svc # None /\ ValidService(s)
    /\ SetSvc([svc EXCEPT !.port = s.port])
    /\ UNCHANGED <<cr, dep, cache, queued, local, failures>>

DeleteChild ==
    /\ Edit
    /\ \/ dep # None /\ SetDep(None) /\ UNCHANGED svc
       \/ svc # None /\ SetSvc(None) /\ UNCHANGED dep
    /\ UNCHANGED <<cr, cache, queued, local, failures>>

\* A child without an owner reference is nobody's business.
Orphan(child) == /\ child # None
                 /\ child.owner # None
                 /\ ~(cr # None /\ cr.uid = child.owner)

CollectGarbage ==
    /\ \/ Orphan(dep) /\ SetDep(None) /\ UNCHANGED svc
       \/ Orphan(svc) /\ SetSvc(None) /\ UNCHANGED dep
    /\ UNCHANGED <<cr, cache, queued, local, edits, failures>>

\* The environment of the pods, under the names of the fields that Load sets.
buildEnvVars(s) ==
    LET always == [Port |-> Address(s.port), MetricsPort |-> Address(s.metricsPort),
                   Workers |-> Decimal(s.workers), QueueDepth |-> Decimal(s.queueDepth)]
        optional == [SinkType |-> Word(s.sinkType), PostgresURL |-> Word(s.postgresURL),
                     NATSURL |-> Word(s.natsURL)]
        given == {f \in DOMAIN optional : optional[f] # Unset}
    IN  [f \in DOMAIN always \cup given |->
            IF f \in given THEN optional[f] ELSE always[f]]

\* The server in the pods has no flags; it ends at once when Load fails, or when
\* its two listeners want the same port.
Starting == {s \in Specs : Loads(<<>>, buildEnvVars(s)) /\ s.port # s.metricsPort}

\* The Deployment controller: pods of the current spec replace the others once
\* they are ready ...
RollOut ==
    /\ dep # None /\ dep.spec \in Starting
    /\ SetDep([dep EXCEPT !.ready = dep.spec.replicas, !.runs = dep.spec])
    /\ UNCHANGED <<cr, svc, cache, queued, local, edits, failures>>

\* ... and until then, or for ever, those of the last good one go on.
KeepOldPods ==
    /\ dep # None /\ dep.spec \notin Starting /\ dep.runs # None
    /\ SetDep([dep EXCEPT !.ready = dep.spec.replicas])
    /\ UNCHANGED <<cr, svc, cache, queued, local, edits, failures>>

PodFails ==
    /\ failures < MaxFailures
    /\ dep # None /\ dep.ready > 0
    /\ SetDep([dep EXCEPT !.ready = @ - 1])
    /\ failures' = failures + 1
    /\ UNCHANGED <<cr, svc, cache, queued, local, edits>>

-----------------------------------------------------------------------------
(* The cache: a change that arrives puts the pipeline's key on the queue,  *)
(* because of For() and the two Owns() of SetupWithManager.                *)

ObservePipeline ==
    /\ "cr" \in stale
    /\ cache' = [cache EXCEPT !.cr = cr] /\ stale' = stale \ {"cr"}
    /\ queued' = TRUE
    /\ UNCHANGED <<objects, local, edits, failures>>

\* Variant: Owns(&appsv1.Deployment{}) is missing.
ObserveDeploymentNoOwns ==
    /\ "dep" \in stale
    /\ cache' = [cache EXCEPT !.dep = dep] /\ stale' = stale \ {"dep"}
    /\ UNCHANGED <<objects, queued, local, edits, failures>>

ObserveDeployment ==
    /\ "dep" \in stale
    /\ cache' = [cache EXCEPT !.dep = dep] /\ stale' = stale \ {"dep"}
    /\ queued' = TRUE
    /\ UNCHANGED <<objects, local, edits, failures>>

ObserveService ==
    /\ "svc" \in stale
    /\ cache' = [cache EXCEPT !.svc = svc] /\ stale' = stale \ {"svc"}
    /\ queued' = TRUE
    /\ UNCHANGED <<objects, local, edits, failures>>

-----------------------------------------------------------------------------
(* Reconcile *)

\* Reconcile returns.
Return == rpc' = "idle" /\ pipeline' = None /\ moved' = FALSE /\ deploy' = None

\* Variant: the error is logged and Reconcile returns nil.
ReturnErrorSwallowed == Return /\ UNCHANGED queued

\* return ctrl.Result{}, err: the key goes back on the queue.
ReturnError == Return /\ queued' = TRUE

\* Step 1: the CR as the cache has it; nothing to do when it is gone.
GetPipeline ==
    /\ rpc = "idle" /\ queued
    /\ queued' = FALSE
    /\ pipeline' = cache.cr
    /\ moved' = (cache.cr # None /\ "cr" \in stale)
    /\ rpc' = IF cache.cr = None THEN "idle" ELSE "deployment"
    /\ UNCHANGED <<objects, cache, stale, deploy, edits, failures>>

\* buildDeployment copies the whole spec, buildService its ports.
buildDeployment(p) == [owner |-> p.uid, spec |-> p.spec, ready |-> 0, runs |-> None]
buildService(p)    == [owner |-> p.uid, port |-> p.spec.port]

\* The callback of CreateOrUpdate: owner reference, labels and spec are set.
MutateDeployment(d, want) ==
    IF d = None THEN want
    ELSE [d EXCEPT !.owner = want.owner, !.spec = want.spec]

\* The API server accepts a Create if there is no such object, an Update if the
\* copy is not outdated.
Accepted(o, copy, actual) == o \notin stale \/ (copy = None /\ actual = None)

\* Step 3, CreateOrUpdate: Create when the cache has no Deployment, else Update
\* of the cached copy.  The defaults the API server fills in make the copy
\* differ from the desired spec every time, so the update is always sent; it is
\* a no-op when nothing else differs.
ReconcileDeployment ==
    /\ rpc = "deployment"
    /\ \/ /\ Accepted("dep", cache.dep, dep) /\ ValidDeployment(pipeline.spec)
          /\ SetDep(MutateDeployment(dep, buildDeployment(pipeline)))
          /\ rpc' = "service"
          /\ UNCHANGED <<queued, pipeline, moved, deploy>>
       \/ /\ ~(Accepted("dep", cache.dep, dep) /\ ValidDeployment(pipeline.spec))
          /\ ReturnError
          /\ UNCHANGED <<dep, stale>>
    /\ UNCHANGED <<cr, svc, cache, edits, failures>>

\* Step 4: the same for the Service.
ReconcileService ==
    /\ rpc = "service"
    /\ \/ /\ Accepted("svc", cache.svc, svc) /\ ValidService(pipeline.spec)
          /\ SetSvc(buildService(pipeline))
          /\ rpc' = "get"
          /\ UNCHANGED <<queued, pipeline, moved, deploy>>
       \/ /\ ~(Accepted("svc", cache.svc, svc) /\ ValidService(pipeline.spec))
          /\ ReturnError
          /\ UNCHANGED <<svc, stale>>
    /\ UNCHANGED <<cr, dep, cache, edits, failures>>

\* Step 5: the Deployment again, from the cache, which may not have it yet ...
GetDeployment ==
    /\ rpc = "get"
    /\ \/ /\ cache.dep # None
          /\ deploy' = cache.dep
          /\ rpc' = "status"
          /\ UNCHANGED <<queued, pipeline, moved>>
       \/ cache.dep = None /\ ReturnError
    /\ UNCHANGED <<objects, cache, stale, edits, failures>>

computePhase(ready, desired) == IF ready = desired THEN "Running" ELSE "Pending"

NewStatus == [readyReplicas |-> deploy.ready,
              phase |-> computePhase(deploy.ready, pipeline.spec.replicas)]

\* Variant: a merge patch in place of Status().Update, which never conflicts.
UpdateStatusPatch ==
    /\ rpc = "status"
    /\ \/ /\ cr # None
          /\ SetCR([cr EXCEPT !.status = NewStatus])
          /\ Return /\ UNCHANGED queued
       \/ cr = None /\ ReturnError /\ UNCHANGED <<cr, stale>>
    /\ UNCHANGED <<dep, svc, cache, edits, failures>>

\* ... and the status, written through the copy made in step 1.
UpdateStatus ==
    /\ rpc = "status"
    /\ \/ /\ ~moved
          /\ SetCR([cr EXCEPT !.status = NewStatus])
          /\ Return /\ UNCHANGED queued
       \/ moved /\ ReturnError /\ UNCHANGED <<cr, stale>>
    /\ UNCHANGED <<dep, svc, cache, edits, failures>>

\* The API server refuses a call of steps 3 to 5 for some other reason.
CallFails ==
    /\ rpc # "idle"
    /\ failures < MaxFailures
    /\ failures' = failures + 1
    /\ ReturnError
    /\ UNCHANGED <<objects, cache, stale, edits>>

-----------------------------------------------------------------------------
Reconcile == \/ GetPipeline \/ ReconcileDeployment \/ ReconcileService
             \/ GetDeployment \/ UpdateStatus

Users == \/ \E s \in Specs : ApplyCR(s) \/ DriftDeployment(s) \/ DriftService(s)
         \/ DeleteCR \/ DeleteChild

\* A cluster in which nothing changes any more is still up.
Steady == ~queued /\ rpc = "idle" /\ UNCHANGED vars

Next == Users \/ CollectGarbage \/ RollOut \/ KeepOldPods \/ PodFails
        \/ ObservePipeline \/ ObserveDeployment \/ ObserveService
        \/ Reconcile \/ CallFails \/ Steady

Spec == Init /\ [][Next]_vars

(***************************************************************************)
(* Fairness.  Watch events arrive, the work queue hands out its key, the   *)
(* garbage collector and the Deployment controller do their work.  Users   *)
(* and failures are bounded, so there is a last one of each.               *)
(***************************************************************************)
Fairness == /\ WF_vars(ObservePipeline) /\ WF_vars(ObserveDeployment)
            /\ WF_vars(ObserveService) /\ WF_vars(Reconcile)
            /\ WF_vars(CollectGarbage) /\ WF_vars(RollOut)

FairSpec == Spec /\ Fairness

-----------------------------------------------------------------------------
\* A status is written only for the spec it was computed from: whatever was
\* read from the lagging cache, the phase that appears fits the replicas the
\* pipeline asks for at that moment.
StatusFitsSpec ==
    [][cr # None /\ cr' # None /\ cr'.status # cr.status =>
          /\ cr'.uid = cr.uid
          /\ (cr'.status.phase = "Running")
                <=> (cr'.status.readyReplicas = cr.spec.replicas)]_vars

\* Once users and failures are through, Deployment and Service are there and
\* are what the pipeline asks for, each if the API server admits it: deletions
\* and edits by hand are undone, and a refused call or an outdated cache is
\* retried.  A Service that is refused for ever does not hold up the Deployment.
ChildrenConverge ==
    <>[](cr # None =>
            /\ ValidDeployment(cr.spec) =>
                  dep # None /\ dep.owner = cr.uid /\ dep.spec = cr.spec
            /\ ValidService(cr.spec) =>
                  svc # None /\ svc.owner = cr.uid /\ svc.port = cr.spec.port)

\* The status ends up telling how many pods are ready, also when the pods of the
\* spec cannot start, and a spec that can ends up Running; only a spec whose
\* children the API server refuses keeps the status it had.
StatusConverges ==
    <>[](cr # None /\ ValidService(cr.spec) =>
            /\ dep # None /\ cr.status.readyReplicas = dep.ready
            /\ cr.spec \in Starting => cr.status.phase = "Running" /\ dep.runs = cr.spec)

\* The specs that Load turns into the configuration they describe.
Honoured ==
    {s \in Specs :
        LET c == Effective(<<>>, buildEnvVars(s))
        IN  /\ c.Workers = s.workers /\ c.QueueDepth = s.queueDepth
            /\ c.Port = Address(s.port) /\ c.MetricsPort = Address(s.metricsPort)
            /\ c.SinkType = Word(s.sinkType)
            /\ s.sinkType = "postgres" => c.PostgresURL = Word(s.postgresURL) /\ s.postgresURL # ""
            /\ s.sinkType = "nats" => c.NATSURL = Word(s.natsURL) /\ s.natsURL # ""}

\* Pods become ready only with what the pipeline asked for: what the operator
\* writes into the environment is what Load makes of it, and the sink has the
\* URL that the CRD says it requires but does not enforce.
RunsAsAsked == dep # None /\ dep.runs # None => dep.runs \in Honoured
=============================================================================
