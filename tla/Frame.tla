-------------------------------- MODULE Frame -------------------------------
(***************************************************************************)
(* internal/frame/frame.go on one TCP connection: Write on the client's    *)
(* side, Read on the server's.                                             *)
(*                                                                         *)
(* Bytes are modelled, because the hazards are in them: the length is a    *)
(* fixed-width big-endian number, header and payload are two writes each   *)
(* of which can stop half-way, a read returns what has arrived so far, and *)
(* the deadline or the end of the stream can come inside a frame.  In the  *)
(* code Base = 256.                                                        *)
(***************************************************************************)
EXTENDS Naturals, Sequences

CONSTANTS
    Base,        \* values of a byte
    Payloads,    \* what callers pass to Write
    MaxWrites    \* bound: calls of Write

Byte == 0..(Base - 1)

\* Bytes of the length header, and where uint32(len(data)) wraps.
HeaderLen == 4
Wrap == Base * Base * Base * Base

\* Events are far smaller than 4 GiB.
ASSUME FrameAssumption ==
    /\ Base \in Nat \ {0, 1}
    /\ MaxWrites \in Nat
    /\ \A p \in Payloads : p \in Seq(Byte) /\ Len(p) < Wrap

VARIABLES
    data,    \* <<p>> from the header of p until its Write returns nil, else <<>>
    conn,    \* "up"; "broken" after a failed write; "closed" by the client
    calls,   \* calls of Write so far
    out,     \* payloads whose Write returned nil (history)
    stream,  \* all bytes sent so far
    pos,     \* how many of them have been read
    ends,    \* 0, and where each frame with a whole header ends (history)
    rpc,     \* the reader: in one of its two ReadFulls, or "failed" for good
    buf,     \* bytes of the current ReadFull so far
    size,    \* the decoded length
    got      \* payloads that Read returned (history)

writerVars == <<data, conn, calls, out, stream, ends>>
readerVars == <<rpc, buf, size, got, pos>>
vars == <<writerVars, readerVars>>

\* binary.BigEndian.PutUint32(header, uint32(n)), wrapping included.
PutUint32(n) ==
    LET n1 == n \div Base
        n2 == n1 \div Base
        n3 == n2 \div Base
    IN  <<n3 % Base, n2 % Base, n1 % Base, n % Base>>

\* binary.BigEndian.Uint32(header)
Uint32(h) == ((h[1] * Base + h[2]) * Base + h[3]) * Base + h[4]

TypeOK ==
    /\ data = <<>> \/ \E p \in Payloads : data = <<p>>
    /\ conn \in {"up", "broken", "closed"}
    /\ calls \in 0..MaxWrites
    /\ out \in Seq(Payloads) /\ got \in Seq(Payloads)
    /\ stream \in Seq(Byte) /\ buf \in Seq(Byte)
    /\ pos \in 0..Len(stream) /\ ends \in Seq(Nat)
    /\ rpc \in {"header", "payload", "failed"}
    /\ size \in 0..(Wrap - 1)

Init ==
    /\ data = <<>> /\ conn = "up" /\ calls = 0
    /\ out = <<>> /\ got = <<>>
    /\ stream = <<>> /\ ends = <<0>> /\ pos = 0 /\ buf = <<>>
    /\ rpc = "header" /\ size = 0

-----------------------------------------------------------------------------
(* Write *)

\* w.Write(header)
WriteHeader(p) ==
    /\ data = <<>> /\ conn = "up" /\ calls < MaxWrites
    /\ stream' = stream \o PutUint32(Len(p))
    /\ ends' = Append(ends, Len(stream') + Len(p))
    /\ data' = <<p>> /\ calls' = calls + 1
    /\ UNCHANGED <<conn, out, readerVars>>

\* "frame: write header": fewer bytes than asked for have left, none when the
\* connection was broken before.
WriteHeaderFails(p) ==
    /\ conn = "broken" \/ (conn = "up" /\ data = <<>>)
    /\ calls < MaxWrites
    /\ \E n \in 0..(HeaderLen - 1) :
          /\ conn = "broken" => n = 0
          /\ stream' = stream \o SubSeq(PutUint32(Len(p)), 1, n)
    /\ conn' = "broken" /\ calls' = calls + 1
    /\ UNCHANGED <<data, out, ends, readerVars>>

\* w.Write(data), and Write returns nil.
WritePayload ==
    /\ data # <<>> /\ conn = "up"
    /\ stream' = stream \o data[1]
    /\ out' = Append(out, data[1])
    /\ data' = <<>>
    /\ UNCHANGED <<conn, calls, ends, readerVars>>

\* Variant: the connection goes on after a write that was cut short.
WritePayloadFailsGoesOn ==
    /\ data # <<>> /\ conn = "up"
    /\ \E n \in {0} \cup 1..(Len(data[1]) - 1) : stream' = stream \o SubSeq(data[1], 1, n)
    /\ data' = <<>>
    /\ UNCHANGED <<conn, calls, out, ends, readerVars>>

\* "frame: write payload": a part of it may have left.  A socket that failed
\* once fails every later write, so the frame is never completed.
WritePayloadFails ==
    /\ data # <<>> /\ conn = "up"
    /\ \E n \in {0} \cup 1..(Len(data[1]) - 1) : stream' = stream \o SubSeq(data[1], 1, n)
    /\ conn' = "broken"
    /\ UNCHANGED <<data, calls, out, ends, readerVars>>

\* conn.Close, or the end of the client's process between two writes.
CloseConn ==
    /\ conn # "closed"
    /\ conn' = "closed"
    /\ UNCHANGED <<data, calls, out, stream, ends, readerVars>>

-----------------------------------------------------------------------------
(* Read, in the loop of handleConnection *)

Want == IF rpc = "header" THEN HeaderLen ELSE size

\* One r.Read inside io.ReadFull: any number of the bytes that are there.
ReadSome ==
    /\ rpc # "failed" /\ Len(buf) < Want
    /\ \E n \in 1..(Len(stream) - pos) :
          /\ Len(buf) + n <= Want
          /\ buf' = buf \o SubSeq(stream, pos + 1, pos + n)
          /\ pos' = pos + n
    /\ UNCHANGED <<writerVars, rpc, size, got>>

\* The header is complete: its length is decoded and the payload allocated.
HeaderRead ==
    /\ rpc = "header" /\ Len(buf) = HeaderLen
    /\ size' = Uint32(buf)
    /\ rpc' = "payload" /\ buf' = <<>>
    /\ UNCHANGED <<writerVars, got, pos>>

\* The payload is complete, at once if it is empty: Read returns it.
PayloadRead ==
    /\ rpc = "payload" /\ Len(buf) = size
    /\ got' = Append(got, buf)
    /\ rpc' = "header" /\ buf' = <<>> /\ size' = 0
    /\ UNCHANGED <<writerVars, pos>>

\* Variant: only an end between two frames counts.
ReadEOFBetween ==
    /\ rpc = "header" /\ buf = <<>>
    /\ conn # "up" /\ pos = Len(stream)
    /\ rpc' = "failed"
    /\ UNCHANGED <<writerVars, buf, size, got, pos>>

\* io.EOF or io.ErrUnexpectedEOF: the client is gone and nothing is left.
ReadEOF ==
    /\ rpc # "failed" /\ Len(buf) < Want
    /\ conn # "up" /\ pos = Len(stream)
    /\ rpc' = "failed"
    /\ UNCHANGED <<writerVars, buf, size, got, pos>>

\* The read deadline passes or the connection is reset, inside a frame or
\* between two; the handler returns and nobody reads on.
ReadTimeout ==
    /\ rpc # "failed" /\ Len(buf) < Want
    /\ rpc' = "failed"
    /\ UNCHANGED <<writerVars, buf, size, got, pos>>

Write  == \/ \E p \in Payloads : WriteHeader(p) \/ WriteHeaderFails(p)
          \/ WritePayload \/ WritePayloadFails
Reader == ReadSome \/ HeaderRead \/ PayloadRead \/ ReadEOF

\* Both sides are through.
Over == conn = "closed" /\ rpc = "failed" /\ UNCHANGED vars

Next == Write \/ CloseConn \/ Reader \/ ReadTimeout \/ Over

Spec == Init /\ [][Next]_vars

\* The handler runs while there is something to read; nobody is obliged to
\* send, to close or to let the deadline pass.
FairSpec == Spec /\ WF_vars(Reader)

-----------------------------------------------------------------------------
\* What Read has returned is, in order and byte for byte, what the calls of
\* Write were given: no short read, torn frame or deadline shifts the stream.
\* Beyond the successful calls there is at most the empty payload of a Write
\* whose second, empty write is still to come or has failed.
RoundTrip ==
    \/ Len(got) <= Len(out) /\ got = SubSeq(out, 1, Len(got))
    \/ data = << <<>> >> /\ got = out \o data

\* Under FairSpec: a frame that will never be complete does not hold the
\* handler, and with it the connection slot, for ever.
TornFrameEnds == conn # "up" ~> rpc = "failed"
=============================================================================
