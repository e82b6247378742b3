-------------------------------- MODULE Feed --------------------------------
(***************************************************************************)
(* cmd/feed/main.go: the feeder that turns Binance trades into frames on   *)
(* one TCP connection to the server.                                       *)
(*                                                                         *)
(* One goroutine runs connectAndStream and readLoop, another waits for a   *)
(* signal and cancels the context.  The websocket is dialled again after   *)
(* every failure; the TCP connection is dialled once.  A message is        *)
(* abstracted to whether it parses, an event to its kind and the number    *)
(* its id carries.                                                         *)
(***************************************************************************)
EXTENDS Naturals, Sequences

CONSTANTS
    LogInterval,  \* -log-interval: a Log event every so many trades, 0 for none
    MaxMsgs       \* bound: messages Binance sends

ASSUME FeedAssumption == LogInterval \in Nat /\ MaxMsgs \in Nat

VARIABLES
    ctxDone,     \* cancel() was called
    pc,          \* where connectAndStream is, readLoop included
    backoff,     \* in seconds
    retries,     \* sleeps since the last successful dial (history)
    tcp,         \* to the server: up; cut by the server; known to be dead
    wire,        \* events written to a live connection (history)
    msgs,        \* messages read from the websocket
    tradeCount,  \* trades parsed
    forwarded,   \* s.forwarded
    errors       \* s.errors

stats == <<msgs, tradeCount, forwarded, errors>>
vars  == <<ctxDone, pc, backoff, retries, tcp, wire, stats>>

MaxBackoff == 30
Cap(n) == IF n > MaxBackoff THEN MaxBackoff ELSE n

\* Enough sleeps to reach the cap; the history stops counting there.
ManyRetries == 6

TypeOK ==
    /\ ctxDone \in BOOLEAN
    /\ pc \in {"top", "dial", "sleep", "loop", "read", "trade", "log", "closed", "stopped"}
    /\ backoff \in 1..MaxBackoff
    /\ retries \in 0..ManyRetries
    /\ tcp \in {"up", "cut", "dead"}
    /\ wire \in Seq({"trade", "log"} \X (1..MaxMsgs))
    /\ msgs \in 0..MaxMsgs /\ tradeCount \in 0..MaxMsgs
    /\ forwarded \in Nat /\ errors \in Nat

\* main has dialled the server.
Init ==
    /\ ctxDone = FALSE
    /\ pc = "top"
    /\ backoff = 1 /\ retries = 0
    /\ tcp = "up" /\ wire = <<>>
    /\ msgs = 0 /\ tradeCount = 0 /\ forwarded = 0 /\ errors = 0

-----------------------------------------------------------------------------
Cancel ==
    /\ ~ctxDone
    /\ ctxDone' = TRUE
    /\ UNCHANGED <<pc, backoff, retries, tcp, wire, stats>>

\* The server ends the connection: read deadline, shutdown or crash.
ServerDrops ==
    /\ tcp = "up"
    /\ tcp' = "cut"
    /\ UNCHANGED <<ctxDone, pc, backoff, retries, wire, stats>>

-----------------------------------------------------------------------------
(* connectAndStream *)

Top ==
    /\ pc = "top"
    /\ pc' = IF ctxDone THEN "stopped" ELSE "dial"
    /\ UNCHANGED <<ctxDone, backoff, retries, tcp, wire, stats>>

\* Variant: return in place of the sleep and continue.
DialFailsReturns ==
    /\ pc = "dial"
    /\ pc' = "stopped"
    /\ UNCHANGED <<ctxDone, backoff, retries, tcp, wire, stats>>

\* No answer, or ctx is cancelled during the dial.
DialFails ==
    /\ pc = "dial"
    /\ pc' = "sleep"
    /\ UNCHANGED <<ctxDone, backoff, retries, tcp, wire, stats>>

\* Variant: the delay is not set back.
DialOkNoReset ==
    /\ pc = "dial"
    /\ pc' = "loop"
    /\ retries' = 0
    /\ UNCHANGED <<ctxDone, backoff, tcp, wire, stats>>

DialOk ==
    /\ pc = "dial"
    /\ pc' = "loop"
    /\ backoff' = 1 /\ retries' = 0
    /\ UNCHANGED <<ctxDone, tcp, wire, stats>>

\* select on ctx.Done() and the timer; both may be ready.
Sleep ==
    /\ pc = "sleep"
    /\ \/ ctxDone /\ pc' = "stopped" /\ UNCHANGED <<backoff, retries>>
       \/ /\ pc' = "top"
          /\ backoff' = Cap(2 * backoff)
          /\ retries' = IF retries < ManyRetries THEN retries + 1 ELSE retries
    /\ UNCHANGED <<ctxDone, tcp, wire, stats>>

\* readLoop has returned and the websocket is closed.
Disconnected ==
    /\ pc = "closed"
    /\ pc' = IF ctxDone THEN "stopped" ELSE "sleep"
    /\ UNCHANGED <<ctxDone, backoff, retries, tcp, wire, stats>>

-----------------------------------------------------------------------------
(* readLoop *)

Loop ==
    /\ pc = "loop"
    /\ pc' = IF ctxDone THEN "closed" ELSE "read"
    /\ UNCHANGED <<ctxDone, backoff, retries, tcp, wire, stats>>

\* ws.ReadMessage fails.
ReadFails ==
    /\ pc = "read"
    /\ pc' = "closed"
    /\ UNCHANGED <<ctxDone, backoff, retries, tcp, wire, stats>>

\* One of the four conversions fails: the message is counted and skipped.
ReadBad ==
    /\ pc = "read" /\ msgs < MaxMsgs
    /\ msgs' = msgs + 1
    /\ errors' = errors + 1
    /\ pc' = "loop"
    /\ UNCHANGED <<ctxDone, backoff, retries, tcp, wire, tradeCount, forwarded>>

ReadTrade ==
    /\ pc = "read" /\ msgs < MaxMsgs
    /\ msgs' = msgs + 1
    /\ tradeCount' = tradeCount + 1
    /\ pc' = "trade"
    /\ UNCHANGED <<ctxDone, backoff, retries, tcp, wire, forwarded, errors>>

\* frame.Write succeeds on a live connection, and also on one the server has
\* cut while the kernel has not noticed; then the bytes go nowhere.
SendOk(e, next) ==
    /\ tcp # "dead"
    /\ wire' = IF tcp = "up" THEN Append(wire, e) ELSE wire
    /\ forwarded' = forwarded + 1
    /\ pc' = next
    /\ UNCHANGED <<tcp, errors>>

\* frame.Write fails: readLoop returns and the event is gone.
SendFails ==
    /\ tcp # "up"
    /\ tcp' = "dead"
    /\ errors' = errors + 1
    /\ pc' = "closed"
    /\ UNCHANGED <<wire, forwarded>>

LogDue == LogInterval > 0 /\ tradeCount % LogInterval = 0

\* Variant: the number of trades is taken modulo one too many.
SendTradeLogOff ==
    /\ pc = "trade"
    /\ \/ SendOk(<<"trade", tradeCount>>,
                 IF LogInterval > 0 /\ tradeCount % (LogInterval + 1) = 0 THEN "log" ELSE "loop")
       \/ SendFails
    /\ UNCHANGED <<ctxDone, backoff, retries, msgs, tradeCount>>

SendTrade ==
    /\ pc = "trade"
    /\ \/ SendOk(<<"trade", tradeCount>>, IF LogDue THEN "log" ELSE "loop")
       \/ SendFails
    /\ UNCHANGED <<ctxDone, backoff, retries, msgs, tradeCount>>

SendLog ==
    /\ pc = "log"
    /\ SendOk(<<"log", tradeCount>>, "loop") \/ SendFails
    /\ UNCHANGED <<ctxDone, backoff, retries, msgs, tradeCount>>

-----------------------------------------------------------------------------
connectAndStream == Top \/ DialFails \/ DialOk \/ Sleep \/ Disconnected
readLoop == Loop \/ ReadFails \/ ReadBad \/ ReadTrade \/ SendTrade \/ SendLog

\* The process has ended.
Stopped == pc = "stopped" /\ UNCHANGED vars

Next == Cancel \/ ServerDrops \/ connectAndStream \/ readLoop \/ Stopped

Spec == Init /\ [][Next]_vars

(***************************************************************************)
(* Fairness.  The goroutine takes every step that does not wait for        *)
(* Binance: a message may never come and a connection may never break.  A  *)
(* dial that is repeated for ever succeeds at some time.                   *)
(***************************************************************************)
Fairness ==
    /\ WF_vars(connectAndStream) /\ SF_vars(DialOk)
    /\ WF_vars(Loop \/ SendTrade \/ SendLog)

FairSpec == Spec /\ Fairness

-----------------------------------------------------------------------------
\* The delay after n failures in a row, for n up to ManyRetries.
Delay(n) == <<1, 2, 4, 8, 16, 30, 30>>[n + 1]

\* Failures in a row double the delay up to the cap, and a connection sets it
\* back, however failed dials and broken connections alternate.
BackoffDoubles == backoff = Delay(retries)

\* The trades whose frame is due on the wire, and the logs.
Trades == IF pc = "trade" THEN tradeCount - 1 ELSE tradeCount
Due    == IF LogInterval = 0 THEN 0 ELSE Trades \div LogInterval
Logs   == IF pc = "log" THEN Due - 1 ELSE Due

\* While the connection to the server is up, what was written to it is one
\* frame per parsed trade, in order, and one log after every LogInterval-th:
\* reconnects to Binance and bad messages in between leave no gap, no
\* repetition, and the counter of forwarded events is exact.
CompleteWhileUp ==
    /\ tcp = "up" => Len(wire) = Trades + Logs /\ forwarded = Len(wire)
    /\ \A j, k \in 1..Len(wire) :
          j < k => \/ wire[j][2] < wire[k][2]
                   \/ wire[j] = <<"trade", wire[k][2]>> /\ wire[k][1] = "log"

\* A feed that is not cancelled never gives up: it comes back to reading from
\* Binance after every failure.
KeepsReading == pc # "read" ~> pc = "read" \/ ctxDone
=============================================================================
