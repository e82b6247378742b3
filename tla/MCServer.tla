------------------------------ MODULE MCServer ------------------------------
(* Instances of Server for TLC. *)
EXTENDS Server, Functions, TLC

CONSTANTS c1, c2, c3, w1, w2

TwoConns   == {c1, c2}
ThreeConns == {c1, c2, c3}
OneConn    == {c1}
OneWorker  == {w1}
TwoWorkers == {w1, w2}

\* Frame i of every connection is of the same kind, so that connections are
\* interchangeable.
KindByIndex(seq) == [f \in Frame |-> seq[f[2]]]
OnlyTrades     == KindByIndex(<<"trade", "trade", "trade">>)
AllKinds       == KindByIndex(<<"trade", "bad", "none", "log">>)
BadThenTrade   == KindByIndex(<<"bad", "trade">>)

\* Bounds of ServerFlow: three frames in all, of two of the connections; the
\* client of the third one competes for a slot, then stays silent with its
\* socket open.
MaxTotal  == 3
FewFrames ==
    /\ FoldFunction(+, 0, sent) <= MaxTotal
    /\ \E c \in Conns : sent[c] = 0 /\ ~fin[c]

\* What the guards of Server's actions and the properties of ServerFlow read.
\* Left out: the frame counters, the queue gauge and the handler's copy of the
\* queue's length on its way to that gauge.  No guard reads them, and of the
\* properties only TypeOK does, which asks that they are numbers.
ControlView == <<mainVars, acc, hpc, nread, connSem, clientVars, jobs, workerVars,
                 activeConns>>

Symmetry == Permutations(Conns) \cup Permutations(Workers)
=============================================================================
