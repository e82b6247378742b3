------------------------------- MODULE Config -------------------------------
(***************************************************************************)
(* internal/config/config.go: how the server gets its configuration from   *)
(* defaults, flags and environment variables, and when it refuses to       *)
(* start.                                                                  *)
(*                                                                         *)
(* An environment variable is text.  The texts the project writes are the  *)
(* ones fmt.Sprintf makes of a number, Decimal(n) and Address(n), and      *)
(* plain words; only the first are numbers to Atoi.                        *)
(***************************************************************************)
EXTENDS Integers

Word(w)    == [text |-> w, number |-> 0]
Decimal(n) == [text |-> "%d", number |-> n]
Address(n) == [text |-> ":%d", number |-> n]
Unset      == Word("")

IntFields      == {"Workers", "QueueDepth", "MaxConns"}
DurationFields == {"ReadTimeout", "ProcessDelay"}
TextFields     == {"Port", "MetricsPort", "SinkType", "PostgresURL", "NATSURL"}
Fields         == IntFields \cup DurationFields \cup TextFields

\* The defaults of the flags (durations in milliseconds).
Defaults ==
    [Port |-> Address(9000), MetricsPort |-> Address(2112),
     Workers |-> 100, QueueDepth |-> 100000, MaxConns |-> 1000,
     ReadTimeout |-> 30000, ProcessDelay |-> 0,
     SinkType |-> Word("stdout"), PostgresURL |-> Unset, NATSURL |-> Unset]

\* strconv.Atoi and time.ParseDuration; "0" is the only duration without a unit.
Parses(f, v) == /\ f \in IntFields => v.text = "%d"
                /\ f \in DurationFields => v.text = "%dms" \/ v = Decimal(0)

Parsed(f, v) == IF f \in TextFields THEN v ELSE v.number

\* Variant: the sink's URL is not asked for.
validateNoURL(c) ==
    /\ c.Workers > 0 /\ c.QueueDepth > 0
    /\ c.MaxConns >= 0 /\ c.ReadTimeout >= 0
    /\ c.SinkType \in {Word("stdout"), Word("postgres"), Word("nats")}

validate(c) ==
    /\ c.Workers > 0 /\ c.QueueDepth > 0
    /\ c.MaxConns >= 0 /\ c.ReadTimeout >= 0
    /\ \/ c.SinkType = Word("stdout")
       \/ c.SinkType = Word("postgres") /\ c.PostgresURL # Unset
       \/ c.SinkType = Word("nats") /\ c.NATSURL # Unset

\* A variable that is set, even to nothing, beats a flag, and a flag its default.
\* flags and env are functions on the fields that are given.
Effective(flags, env) ==
    [f \in Fields |-> IF f \in DOMAIN env THEN Parsed(f, env[f])
                      ELSE IF f \in DOMAIN flags THEN flags[f]
                      ELSE Defaults[f]]

\* Load returns Effective, or an error that ends the process.
Loads(flags, env) == /\ \A f \in DOMAIN env : Parses(f, env[f])
                     /\ validate(Effective(flags, env))
=============================================================================
