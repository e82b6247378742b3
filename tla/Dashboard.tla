------------------------------ MODULE Dashboard ------------------------------
(***************************************************************************)
(* The dashboard: the polling hooks of dashboard/web/src/hooks, the        *)
(* handlers of dashboard/api/main.go they ask, and the Prometheus and      *)
(* Kubernetes clients behind those.                                        *)
(*                                                                         *)
(* The three hooks share nothing, so a behaviour follows one of them, with *)
(* its handler and its backend (external: Prometheus, the Kubernetes API   *)
(* server, PostgreSQL).  The backend's content is a version number that    *)
(* grows; a sample is the sequence of versions that were read.  A poll     *)
(* does not wait for the one before it and nothing cancels it, so several  *)
(* are under way at once and end in any order.                             *)
(***************************************************************************)
EXTENDS Naturals, Sequences

CONSTANTS
    Queries,      \* PromQL queries of one sample (8)
    HistorySize,  \* HISTORY_SIZE (24)
    NoData,       \* pairs of query and version without a value: no series, NaN, Inf
    ServedGroups, \* API groups that have an aegispipelines resource
    MaxOpen,      \* bound: polls under way at once (browsers open about six)
    MaxNow,       \* bound: versions of the backend's content
    MaxFaults     \* bound: outages, cut answers, deaths of the API process

ASSUME DashboardAssumption ==
    /\ {Queries, HistorySize, MaxOpen, MaxNow} \subseteq Nat \ {0}
    /\ MaxFaults \in Nat
    /\ NoData \subseteq (1..Queries) \X (1..MaxNow)

VARIABLES
    hook,       \* which of the three
    configured, \* in a cluster (pipeline), AEGIS_POSTGRES_URL set (trades)
    now, up,    \* the backend: version of its content, whether it answers
    api,        \* the API process
    client,     \* its k8s client or dbPool: made at the start or never
    polls,      \* the polls under way
    shown,      \* current, pipeline, trades: what is on the screen
    error,      \* whether the hook holds an error
    history,    \* the hook's history and historyRef
    faults

world == <<configured, now, up, api, client, faults>>
page  == <<shown, error, history>>
vars  == <<hook, world, polls, page>>

Slots == 1..MaxOpen
Free  == [at |-> "free", sent |-> 0, vals |-> <<>>]
Mock  == <<0>>
Samples == [vals : Seq(0..MaxNow), sent : 1..MaxNow, timestamp : 1..MaxNow]
Group == "aegis.io"

TypeOK ==
    /\ hook \in {"metrics", "pipeline", "trades"} /\ configured \in BOOLEAN
    /\ now \in 1..MaxNow /\ up \in BOOLEAN
    /\ api \in {"down", "up"} /\ client \in {"nil", "made"}
    /\ polls \in [Slots -> [at : {"free", "api", "answer", "failed"},
                            sent : 0..MaxNow, vals : Seq(0..MaxNow)]]
    /\ \A i \in Slots : Len(polls[i].vals) <= Queries
    /\ shown = <<>> \/ shown \in Samples
    /\ error \in BOOLEAN
    /\ history \in Seq(Samples) /\ Len(history) <= HistorySize
    /\ faults \in 0..MaxFaults

Init ==
    /\ hook \in {"metrics", "pipeline", "trades"}
    /\ configured \in BOOLEAN /\ (hook = "metrics" => ~configured)
    /\ now = 1 /\ up \in BOOLEAN
    /\ api = "down" /\ client = "nil"
    /\ polls = [i \in Slots |-> Free]
    /\ shown = <<>> /\ error = FALSE /\ history = <<>>
    /\ faults = 0

-----------------------------------------------------------------------------
(* The backend, and deaths of the API process *)

NewContent == now < MaxNow /\ now' = now + 1
              /\ UNCHANGED <<hook, configured, up, api, client, faults, polls, page>>

Fault == faults < MaxFaults /\ faults' = faults + 1

Outage == /\ up /\ Fault /\ up' = FALSE
          /\ UNCHANGED <<hook, configured, now, api, client, polls, page>>

Recovery == /\ ~up /\ up' = TRUE
            /\ UNCHANGED <<hook, configured, now, api, client, faults, polls, page>>

\* The requests it was working on are answered with an error by Nginx.
Crash ==
    /\ api = "up" /\ Fault
    /\ api' = "down" /\ client' = "nil"
    /\ polls' = [i \in Slots |-> IF polls[i].at = "api" THEN [polls[i] EXCEPT !.at = "failed"]
                                 ELSE polls[i]]
    /\ UNCHANGED <<hook, configured, now, up, page>>

-----------------------------------------------------------------------------
(* dashboard/api *)

\* main: the Kubernetes client needs a cluster; the pool needs a URL and a
\* database that answers Ping.  Neither is tried again.
Boot ==
    /\ api = "down"
    /\ api' = "up"
    /\ client' = IF configured /\ (hook = "trades" => up) THEN "made" ELSE "nil"
    /\ UNCHANGED <<hook, configured, now, up, faults, polls, page>>

Settle(i, at, vals) ==
    /\ polls' = [polls EXCEPT ![i].at = at, ![i].vals = vals]
    /\ UNCHANGED <<hook, world, page>>

AtApi(i, h) == hook = h /\ polls[i].at = "api" /\ api = "up"

\* parseValue, and the guards len(resp.Data.Result) > 0: what has no value reads as 0.
Value(q, v) == IF <<q, v>> \in NoData THEN 0 ELSE v

\* FetchMetrics runs its queries one after the other ...
Query(i) ==
    /\ AtApi(i, "metrics") /\ up
    /\ LET vals == Append(polls[i].vals, Value(Len(polls[i].vals) + 1, now))
       IN  Settle(i, IF Len(vals) = Queries THEN "answer" ELSE "api", vals)

\* Variant: the error of a query is logged and its value left at 0.
QueryFailsIgnored(i) ==
    /\ AtApi(i, "metrics") /\ ~up
    /\ LET vals == Append(polls[i].vals, 0)
       IN  Settle(i, IF Len(vals) = Queries THEN "answer" ELSE "api", vals)

\* ... and the first one that fails, or takes 5 seconds, fails them all: 502.
QueryFails(i) == AtApi(i, "metrics") /\ ~up /\ Settle(i, "failed", <<>>)

\* The mock outside a cluster; inside, FetchPipeline asks for its Group.
GetPipeline(i) ==
    /\ AtApi(i, "pipeline")
    /\ IF client = "nil" THEN Settle(i, "answer", Mock)
       ELSE IF up /\ Group \in ServedGroups THEN Settle(i, "answer", <<now>>)
       ELSE Settle(i, "failed", <<>>)

\* Variant: a failed query is answered with what there is, an empty array.
GetTradesEmpty(i) ==
    /\ AtApi(i, "trades")
    /\ Settle(i, "answer", IF client = "made" /\ up THEN <<now>> ELSE <<>>)

\* An empty array without a pool, else the newest rows.
GetTrades(i) ==
    /\ AtApi(i, "trades")
    /\ IF client = "nil" THEN Settle(i, "answer", <<>>)
       ELSE IF up THEN Settle(i, "answer", <<now>>)
       ELSE Settle(i, "failed", <<>>)

\* The connection breaks while rows are read: rows.Err() is not looked at, and
\* what has been read so far, at worst nothing, goes out with status 200.
GetTradesCut(i) ==
    /\ AtApi(i, "trades") /\ client = "made" /\ Fault
    /\ polls' = [polls EXCEPT ![i].at = "answer"]
    /\ UNCHANGED <<hook, configured, now, up, api, client, page>>

\* Nginx finds no API process.
BadGateway(i) == polls[i].at = "api" /\ api = "down" /\ Settle(i, "failed", <<>>)

-----------------------------------------------------------------------------
(* The hooks *)

\* useEffect: once at the start, then by setInterval.
Poll(i) ==
    /\ polls[i].at = "free" /\ \A j \in 1..(i - 1) : polls[j].at # "free"
    /\ polls' = [polls EXCEPT ![i] = [at |-> "api", sent |-> now, vals |-> <<>>]]
    /\ UNCHANGED <<hook, world, page>>

Last(n, s) == SubSeq(s, IF Len(s) > n THEN Len(s) - n + 1 ELSE 1, Len(s))

\* slice(-HISTORY_SIZE)
Slice(s) == Last(HistorySize, s)

\* Variant: setError(null) is missing.
ApplyKeepsError(i) ==
    LET new == [vals |-> polls[i].vals, sent |-> polls[i].sent, timestamp |-> now]
    IN  /\ polls[i].at = "answer"
        /\ shown' = new
        /\ IF hook = "metrics"
           THEN history' = Slice(Append(history, new))
           ELSE UNCHANGED history
        /\ polls' = [polls EXCEPT ![i] = Free]
        /\ UNCHANGED <<hook, world, error>>

\* A good answer; only useMetrics keeps a history.
Apply(i) ==
    LET new == [vals |-> polls[i].vals, sent |-> polls[i].sent, timestamp |-> now]
    IN  /\ polls[i].at = "answer"
        /\ shown' = new /\ error' = FALSE
        /\ IF hook = "metrics"
           THEN history' = Slice(Append(history, new))
           ELSE UNCHANGED history
        /\ polls' = [polls EXCEPT ![i] = Free]
        /\ UNCHANGED <<hook, world>>

\* !res.ok, or fetch itself fails: what is shown stays.
ApplyError(i) ==
    /\ polls[i].at = "failed"
    /\ error' = TRUE
    /\ polls' = [polls EXCEPT ![i] = Free]
    /\ UNCHANGED <<hook, world, shown, history>>

-----------------------------------------------------------------------------
Progress(i) == \/ Query(i) \/ QueryFails(i) \/ GetPipeline(i) \/ GetTrades(i)
               \/ BadGateway(i) \/ Apply(i) \/ ApplyError(i)

PollSome == \E i \in Slots : Poll(i)

Next == \/ NewContent \/ Outage \/ Recovery \/ Crash \/ Boot
        \/ PollSome
        \/ \E i \in Slots : Progress(i) \/ GetTradesCut(i)

Spec == Init /\ [][Next]_vars

\* The interval goes on, the kubelet restarts the API, and every request ends:
\* the clients of Prometheus and Kubernetes have timeouts, PostgreSQL is
\* assumed to answer or to break.
FairSpec == /\ Spec
            /\ WF_vars(Boot) /\ WF_vars(PollSome)
            /\ \A i \in Slots : WF_vars(Progress(i))

-----------------------------------------------------------------------------
\* Nondecreasing assignments of versions to the queries.
Readings(from, to) ==
    {v \in [1..Queries -> from..to] : \A p, q \in 1..Queries : p <= q => v[p] <= v[q]}

\* Every point of the charts was true: each of its values is what Prometheus
\* held at some moment between the poll and the timestamp, later queries not
\* before earlier ones.  A point never mixes values with queries that failed,
\* and an answer that was overtaken is off by no more than its own delay.
SnapshotIsReal ==
    \A k \in DOMAIN history :
        \E v \in Readings(history[k].sent, history[k].timestamp) :
            history[k].vals = [q \in 1..Queries |-> Value(q, v[q])]

Current == CASE hook = "metrics"  -> [q \in 1..Queries |-> Value(q, now)]
             [] hook = "pipeline" -> IF client = "nil" THEN Mock ELSE <<now>>
             [] hook = "trades"   -> <<now>>

\* The handler can answer: the pool was made, the asked group is served.
Able == /\ api = "up"
        /\ CASE hook = "metrics"  -> up
             [] hook = "pipeline" -> client = "nil" \/ (up /\ Group \in ServedGroups)
             [] hook = "trades"   -> client = "made" /\ up

\* Under FairSpec: after the last outage the screen catches up and the error
\* goes, whatever is still under way from before.
Recovers == <>[]Able => <>[](~error /\ shown # <<>> /\ shown.vals = Current)

\* Under FairSpec: a lasting outage is reported and the report stays, unless
\* the handler never asks its backend.
OutageIsReported ==
    <>[](api = "up" /\ ~up /\ (hook # "metrics" => client = "made")) => <>[]error
=============================================================================
