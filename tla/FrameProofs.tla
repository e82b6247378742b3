----------------------------- MODULE FrameProofs ----------------------------
(***************************************************************************)
(* Proofs about Frame: what Read returns is what Write was given, for any  *)
(* size of a byte, any payloads shorter than the header can tell and any   *)
(* number of frames.                                                       *)
(***************************************************************************)
EXTENDS Frame, Integers, SequenceTheorems, TLAPS

-----------------------------------------------------------------------------
(* The header *)

\* Division with remainder.
LEMMA Division ==
    ASSUME NEW n \in Nat, NEW l \in Nat, l > 0
    PROVE  n \div l \in Int /\ n % l \in 0..(l - 1) /\ n = l * (n \div l) + (n % l)
<1> DEFINE q == n \div l
           r == n % l
<1>1. q \in Int /\ r \in 0..(l - 1) /\ n = l * q + r
  OBVIOUS
<1> QED BY <1>1

\* The same, by Base.
LEMMA DivMod ==
    ASSUME NEW n \in Nat
    PROVE  /\ n \div Base \in Nat /\ n % Base \in Byte
           /\ n = (n \div Base) * Base + (n % Base)
<1>1. Base \in Nat \ {0, 1}
  BY FrameAssumption
<1>2. n \div Base \in Nat
  BY <1>1
<1>3. n % Base \in Byte
  BY <1>1 DEF Byte
<1>4. n = Base * (n \div Base) + (n % Base)
  <2>1. Base \in Nat /\ Base > 0
    BY <1>1
  <2> QED BY <2>1, Division
<1>5. Base * (n \div Base) = (n \div Base) * Base
  BY <1>1, <1>2
<1> QED BY <1>2, <1>3, <1>4, <1>5

\* A digit is its own remainder.
LEMMA SmallMod ==
    ASSUME NEW n \in Nat, n < Base
    PROVE  n % Base = n
<1>1. Base \in Nat /\ Base > 0
  BY FrameAssumption
<1> DEFINE q == n \div Base
           r == n % Base
<1>2. q \in Nat /\ r \in 0..(Base - 1) /\ n = Base * q + r
  BY <1>1, Division, DivMod
<1> HIDE DEF q, r
<1>3. \A d \in Nat : d >= 1 => Base * d >= Base
  BY <1>1
<1>4. q = 0
  BY <1>1, <1>2, <1>3
<1>5. r = n
  BY <1>1, <1>2, <1>4
<1> QED BY <1>5 DEF r

\* Dividing by Base takes a factor of Base from an upper bound.
LEMMA DivBound ==
    ASSUME NEW n \in Nat, NEW m \in Nat, n < m * Base
    PROVE  n \div Base < m
<1>0. Base \in Nat \ {0, 1} /\ Byte \subseteq Nat
  BY FrameAssumption DEF Byte
<1>1. Base \in Nat \ {0, 1} /\ n \div Base \in Nat /\ n % Base \in Nat
      /\ n = (n \div Base) * Base + (n % Base)
  BY <1>0, DivMod
<1>2. SUFFICES ASSUME n \div Base >= m PROVE FALSE
  BY <1>1
<1>3. (n \div Base) * Base >= m * Base
  BY <1>1, <1>2
<1>4. (n \div Base) * Base \in Nat /\ m * Base \in Nat
  BY <1>1
<1> QED BY <1>1, <1>3, <1>4

\* Uint32 decodes what PutUint32 wrote, for every length that does not wrap.
LEMMA HeaderRoundTrip ==
    ASSUME NEW n \in Nat, n < Wrap
    PROVE  Uint32(PutUint32(n)) = n
<1> DEFINE n1 == n \div Base
           n2 == n1 \div Base
           n3 == n2 \div Base
<1>1. n1 \in Nat /\ n = n1 * Base + (n % Base) /\ n % Base \in Nat
  BY DivMod DEF Byte
<1> HIDE DEF n1
<1>2. n2 \in Nat /\ n1 = n2 * Base + (n1 % Base) /\ n1 % Base \in Nat
  BY <1>1, DivMod DEF Byte
<1> HIDE DEF n2
<1>3. n3 \in Nat /\ n2 = n3 * Base + (n2 % Base) /\ n2 % Base \in Nat
  BY <1>2, DivMod DEF Byte
<1>4. Base \in Nat /\ Base * Base \in Nat /\ Base * Base * Base \in Nat
  BY FrameAssumption
<1>5. n1 < Base * Base * Base
  BY <1>4, DivBound DEF Wrap, n1
<1>6. n2 < Base * Base
  BY <1>1, <1>4, <1>5, DivBound DEF n2
<1>7. n3 < Base
  BY <1>2, <1>4, <1>6, DivBound
<1>8. n3 % Base = n3
  BY <1>3, <1>7, SmallMod
<1> DEFINE h == <<n3 % Base, n2 % Base, n1 % Base, n % Base>>
<1>9. PutUint32(n) = h
  BY DEF PutUint32, n1, n2
<1>10. h[1] = n3 % Base /\ h[2] = n2 % Base /\ h[3] = n1 % Base /\ h[4] = n % Base
  OBVIOUS
<1> HIDE DEF n3, h
<1>11. h[1] * Base + h[2] = n2
  <2>1. h[1] = n3 /\ h[2] = n2 % Base
    BY <1>8, <1>10
  <2> QED BY <1>3, <2>1, Zenon
<1>12. (h[1] * Base + h[2]) * Base + h[3] = n1
  BY <1>2, <1>10, <1>11, Zenon
<1>13. Uint32(h) = n1 * Base + h[4]
  BY <1>12, Zenon DEF Uint32
<1> QED BY <1>1, <1>9, <1>10, <1>13, Zenon

\* A header is four bytes.
LEMMA HeaderType ==
    ASSUME NEW n \in Nat
    PROVE  PutUint32(n) \in Seq(Byte) /\ Len(PutUint32(n)) = HeaderLen
<1> DEFINE n1 == n \div Base
           n2 == n1 \div Base
           n3 == n2 \div Base
<1>1. n1 \in Nat /\ n % Base \in Byte
  BY DivMod
<1> HIDE DEF n1
<1>2. n2 \in Nat /\ n1 % Base \in Byte
  BY <1>1, DivMod
<1> HIDE DEF n2
<1>3. n3 \in Nat /\ n2 % Base \in Byte
  BY <1>2, DivMod
<1> HIDE DEF n3
<1>4. n3 % Base \in Byte
  BY <1>3, DivMod
<1>5. PutUint32(n) = <<n3 % Base, n2 % Base, n1 % Base, n % Base>>
  BY DEF PutUint32, n1, n2, n3
<1> QED BY <1>1, <1>2, <1>3, <1>4, <1>5 DEF HeaderLen

-----------------------------------------------------------------------------
(* The stream *)

\* The frames whose header has left: the successful calls, and the one in hand.
Frames   == Len(out) + Len(data)
Given(k) == IF k <= Len(out) THEN out[k] ELSE data[1]

\* Frames follow each other without a gap.
Layout ==
    /\ Len(ends) = Frames + 1 /\ ends[1] = 0
    /\ \A k \in 1..Frames : ends[k + 1] = ends[k] + HeaderLen + Len(Given(k))

\* The bytes of a frame, as far as they have left.
Content ==
    \A k \in 1..Frames :
        /\ ends[k] + HeaderLen <= Len(stream)
        /\ \A i \in 1..HeaderLen : stream[ends[k] + i] = PutUint32(Len(Given(k)))[i]
        /\ \A i \in 1..Len(Given(k)) :
              ends[k] + HeaderLen + i <= Len(stream)
                 => stream[ends[k] + HeaderLen + i] = Given(k)[i]

\* How far the last frame has come: behind it there is less than a header, and a
\* payload in hand is not complete, unless it is empty.
Unfinished ==
    /\ data = <<>> => /\ ends[Frames + 1] <= Len(stream)
                      /\ Len(stream) < ends[Frames + 1] + HeaderLen
                      /\ conn = "up" => Len(stream) = ends[Frames + 1]
    /\ data # <<>> => /\ ends[Frames + 1] <= Len(stream) + Len(data[1])
                      /\ Len(stream) <= ends[Frames + 1]
                      /\ conn = "up" => Len(stream) + Len(data[1]) = ends[Frames + 1]
                      /\ Len(data[1]) > 0 => Len(stream) < ends[Frames + 1]

\* What the reader has returned.
Returned ==
    /\ Len(got) <= Frames
    /\ \A k \in 1..Len(got) : got[k] = Given(k)
    /\ ends[Len(got) + 1] <= Len(stream)

\* Where the reader is: in step with the frames.
InStep ==
    LET g == Len(got) + 1
    IN  /\ rpc = "header" =>
              /\ Len(buf) <= HeaderLen /\ pos = ends[g] + Len(buf)
              /\ \A i \in 1..Len(buf) : buf[i] = stream[ends[g] + i]
        /\ rpc = "payload" =>
              /\ g <= Frames /\ size = Len(Given(g))
              /\ Len(buf) <= size /\ pos = ends[g] + HeaderLen + Len(buf)
              /\ \A i \in 1..Len(buf) : buf[i] = stream[ends[g] + HeaderLen + i]

\* The inductive invariant: RoundTrip alone says nothing of the bytes between
\* the two sides.
Inv == TypeOK /\ Layout /\ Content /\ Unfinished /\ Returned /\ InStep

-----------------------------------------------------------------------------
(* Facts that every step needs *)

LEMMA TypeFacts ==
    ASSUME TypeOK
    PROVE  /\ out \in Seq(Payloads) /\ got \in Seq(Payloads) /\ stream \in Seq(Byte)
           /\ buf \in Seq(Byte) /\ ends \in Seq(Nat) /\ size \in Nat
           /\ pos \in Nat /\ pos <= Len(stream)
           /\ Len(data) \in {0, 1} /\ (data = <<>> <=> Len(data) = 0)
           /\ Len(data) = 1 => data[1] \in Payloads
           /\ Frames \in Nat /\ Len(out) \in Nat /\ Len(out) <= Frames
           /\ \A k \in 1..Frames : Given(k) \in Payloads
<1>1. Base \in Nat \ {0, 1} /\ Wrap \in Nat
  BY FrameAssumption DEF Wrap
<1>2. /\ out \in Seq(Payloads) /\ got \in Seq(Payloads) /\ stream \in Seq(Byte)
      /\ buf \in Seq(Byte) /\ ends \in Seq(Nat)
  BY DEF TypeOK
<1>3. size \in Nat /\ pos \in Nat /\ pos <= Len(stream)
  BY <1>1, <1>2 DEF TypeOK
<1>4. /\ Len(data) \in {0, 1} /\ (data = <<>> <=> Len(data) = 0)
      /\ Len(data) = 1 => data[1] \in Payloads
  BY DEF TypeOK
<1>5. Len(out) \in Nat /\ Frames \in Nat /\ Len(out) <= Frames
  BY <1>2, <1>4 DEF Frames
<1>6. ASSUME NEW k \in 1..Frames PROVE Given(k) \in Payloads
  <2>1. CASE k <= Len(out)
    BY <1>2, <1>5, <2>1 DEF Given
  <2>2. CASE ~(k <= Len(out))
    BY <1>4, <1>5, <2>2 DEF Given, Frames
  <2> QED BY <2>1, <2>2
<1> QED BY <1>2, <1>3, <1>4, <1>5, <1>6

\* The same of the state after a step.
LEMMA TypeFactsNext ==
    ASSUME TypeOK'
    PROVE  Frames' \in Nat /\ Len(stream') \in Nat /\ Len(out') \in Nat /\ Len(data') \in {0, 1}
<1>1. Len(data') \in {0, 1}
  BY DEF TypeOK
<1>2. out' \in Seq(Payloads) /\ stream' \in Seq(Byte)
  BY DEF TypeOK
<1>3. Len(out') \in Nat /\ Len(stream') \in Nat
  BY <1>2
<1> QED BY <1>1, <1>3 DEF Frames

LEMMA PayloadFacts ==
    ASSUME NEW p \in Payloads
    PROVE  /\ p \in Seq(Byte) /\ Len(p) \in Nat /\ Len(p) < Wrap
           /\ PutUint32(Len(p)) \in Seq(Byte) /\ Len(PutUint32(Len(p))) = HeaderLen
<1>1. p \in Seq(Byte) /\ Len(p) < Wrap
  BY FrameAssumption
<1>2. Len(p) \in Nat
  BY <1>1
<1> QED BY <1>1, <1>2, HeaderType

\* Appending bytes leaves those before where they are.
LEMMA Appended ==
    ASSUME NEW s \in Seq(Byte), NEW t \in Seq(Byte)
    PROVE  /\ s \o t \in Seq(Byte) /\ Len(s \o t) = Len(s) + Len(t)
           /\ \A i \in 1..Len(s) : (s \o t)[i] = s[i]
           /\ \A i \in 1..Len(t) : (s \o t)[Len(s) + i] = t[i]
OBVIOUS

\* A part of a sequence of bytes.
LEMMA Part ==
    ASSUME NEW s \in Seq(Byte), NEW m \in Nat, NEW n \in Nat, m + n <= Len(s)
    PROVE  /\ SubSeq(s, m + 1, m + n) \in Seq(Byte) /\ Len(SubSeq(s, m + 1, m + n)) = n
           /\ \A i \in 1..n : SubSeq(s, m + 1, m + n)[i] = s[m + i]
<1>1. m + 1 \in Int /\ m + n \in Int /\ \A i \in (m + 1)..(m + n) : s[i] \in Byte
  OBVIOUS
<1> DEFINE t == SubSeq(s, m + 1, m + n)
<1>2. /\ t \in Seq(Byte)
      /\ Len(t) = IF m + 1 <= m + n THEN (m + n) - (m + 1) + 1 ELSE 0
      /\ \A i \in 1..((m + n) - (m + 1) + 1) : t[i] = s[(m + 1) + i - 1]
  BY <1>1, SubSeqProperties
<1> HIDE DEF t
<1>3. Len(t) = n
  BY <1>2
<1>4. \A i \in 1..n : t[i] = s[m + i]
  BY <1>2
<1> QED BY <1>2, <1>3, <1>4 DEF t

\* Frames end one after the other.
LEMMA EndsAreNumbers ==
    ASSUME Inv
    PROVE  \A k \in 1..(Frames + 1) : ends[k] \in Nat
BY TypeFacts DEF Inv, Layout

\* The frames of successful calls are whole.
LEMMA OutIsWhole ==
    ASSUME Inv
    PROVE  \A k \in 1..Len(out) : ends[k] + HeaderLen + Len(Given(k)) <= Len(stream)
<1> SUFFICES ASSUME NEW k \in 1..Len(out)
             PROVE  ends[k] + HeaderLen + Len(Given(k)) <= Len(stream)
  OBVIOUS
<1>1. TypeOK /\ Layout /\ Content /\ Unfinished
  BY DEF Inv
<1>2. /\ Len(data) \in {0, 1} /\ (data = <<>> <=> Len(data) = 0) /\ Frames \in Nat
      /\ Len(out) \in Nat /\ Frames = Len(out) + Len(data) /\ Len(stream) \in Nat
  BY <1>1, TypeFacts DEF Frames
<1>3. k \in 1..Frames /\ ends[k] \in Nat /\ ends[k + 1] \in Nat
  BY <1>2, EndsAreNumbers
<1>4. ends[k + 1] = ends[k] + HeaderLen + Len(Given(k))
  BY <1>1, <1>3 DEF Layout
<1>5. CASE k = Frames
  BY <1>1, <1>2, <1>4, <1>5 DEF Unfinished
<1>6. CASE k # Frames
  <2>1. k + 1 \in 1..Frames
    BY <1>2, <1>3, <1>6
  <2>2. ends[k + 1] + HeaderLen <= Len(stream)
    BY <1>1, <2>1 DEF Content
  <2> QED BY <1>2, <1>3, <1>4, <2>2 DEF HeaderLen
<1> QED BY <1>5, <1>6

\* A step of the writer leaves the bytes and the frames there were.
Extends ==
    /\ Len(stream) <= Len(stream') /\ \A i \in 1..Len(stream) : stream'[i] = stream[i]
    /\ Frames <= Frames'
    /\ \A k \in 1..Frames : Given(k)' = Given(k)
    /\ \A k \in 1..(Frames + 1) : ends'[k] = ends[k]

\* It does not disturb the reader.
LEMMA ReaderStays ==
    ASSUME Inv, TypeOK', Extends, UNCHANGED readerVars
    PROVE  Returned' /\ InStep'
<1>1. TypeOK /\ Returned /\ InStep
  BY DEF Inv
<1>2. /\ Frames \in Nat /\ Frames' \in Nat /\ Len(stream) \in Nat /\ Len(stream') \in Nat
      /\ Len(got) \in Nat /\ Len(buf) \in Nat /\ pos \in Nat /\ pos <= Len(stream)
      /\ Len(got) <= Frames
  BY <1>1, TypeFacts, TypeFactsNext DEF Returned
<1>3. UNCHANGED <<rpc, buf, size, got, pos>>
  BY DEF readerVars
<1> DEFINE g == Len(got) + 1
<1>4. g \in 1..(Frames + 1) /\ ends[g] \in Nat /\ ends'[g] = ends[g] /\ g' = g
  BY <1>2, <1>3, EndsAreNumbers DEF Extends
<1> HIDE DEF g
<1>5. Returned'
  <2>1. Len(got') <= Frames' /\ \A k \in 1..Len(got') : got'[k] = Given(k)'
    BY <1>1, <1>2, <1>3 DEF Returned, Extends
  <2>2. ends'[g] <= Len(stream')
    BY <1>1, <1>2, <1>4 DEF Returned, Extends, g
  <2> QED BY <1>3, <2>1, <2>2 DEF Returned, g
<1>6. rpc = "header" =>
         /\ Len(buf) <= HeaderLen /\ pos = ends'[g] + Len(buf)
         /\ \A i \in 1..Len(buf) : buf[i] = stream'[ends'[g] + i]
  <2> HAVE rpc = "header"
  <2>1. /\ Len(buf) <= HeaderLen /\ pos = ends[g] + Len(buf)
        /\ \A i \in 1..Len(buf) : buf[i] = stream[ends[g] + i]
    BY <1>1 DEF InStep, g
  <2>2. \A i \in 1..Len(buf) : ends[g] + i \in 1..Len(stream)
    BY <1>2, <1>4, <2>1
  <2> QED BY <1>4, <2>1, <2>2 DEF Extends
<1>7. rpc = "payload" =>
         /\ g <= Frames' /\ size = Len(Given(g)')
         /\ Len(buf) <= size /\ pos = ends'[g] + HeaderLen + Len(buf)
         /\ \A i \in 1..Len(buf) : buf[i] = stream'[ends'[g] + HeaderLen + i]
  <2> HAVE rpc = "payload"
  <2>1. /\ g <= Frames /\ size = Len(Given(g))
        /\ Len(buf) <= size /\ pos = ends[g] + HeaderLen + Len(buf)
        /\ \A i \in 1..Len(buf) : buf[i] = stream[ends[g] + HeaderLen + i]
    BY <1>1 DEF InStep, g
  <2>2. \A i \in 1..Len(buf) : ends[g] + HeaderLen + i \in 1..Len(stream)
    BY <1>2, <1>4, <2>1 DEF HeaderLen
  <2>3. g \in 1..Frames /\ g <= Frames'
    BY <1>2, <1>4, <2>1 DEF Extends
  <2> QED BY <1>4, <2>1, <2>2, <2>3 DEF Extends
<1>8. InStep'
  BY <1>3, <1>4, <1>6, <1>7 DEF InStep, g
<1> QED BY <1>5, <1>8

\* Nor what has left of the frames.
LEMMA ContentStays ==
    ASSUME Inv, TypeOK', Extends, NEW k \in 1..Frames
    PROVE  /\ ends'[k] = ends[k] /\ Given(k)' = Given(k) /\ ends[k] \in Nat
           /\ Given(k) \in Payloads /\ Len(Given(k)) \in Nat
           /\ ends'[k] + HeaderLen <= Len(stream')
           /\ \A i \in 1..HeaderLen : stream'[ends'[k] + i] = PutUint32(Len(Given(k)'))[i]
           /\ \A i \in 1..Len(Given(k)') :
                 ends'[k] + HeaderLen + i <= Len(stream)
                    => stream'[ends'[k] + HeaderLen + i] = Given(k)'[i]
<1>1. TypeOK /\ Content
  BY DEF Inv
<1>2. /\ Frames \in Nat /\ Len(stream) \in Nat /\ Len(stream') \in Nat
      /\ Len(stream) <= Len(stream') /\ k \in 1..(Frames + 1)
  BY <1>1, TypeFacts DEF TypeOK, Extends
<1>3. ends'[k] = ends[k] /\ Given(k)' = Given(k) /\ ends[k] \in Nat
  BY <1>2, EndsAreNumbers DEF Extends
<1>4. Given(k) \in Payloads /\ Len(Given(k)) \in Nat
  BY <1>1, TypeFacts, PayloadFacts
<1>5. /\ ends[k] + HeaderLen <= Len(stream)
      /\ \A i \in 1..HeaderLen : stream[ends[k] + i] = PutUint32(Len(Given(k)))[i]
      /\ \A i \in 1..Len(Given(k)) :
            ends[k] + HeaderLen + i <= Len(stream)
               => stream[ends[k] + HeaderLen + i] = Given(k)[i]
  BY <1>1 DEF Content
<1>6. ends[k] + HeaderLen <= Len(stream')
  BY <1>2, <1>3, <1>5 DEF HeaderLen
<1>7. \A i \in 1..HeaderLen : stream'[ends[k] + i] = PutUint32(Len(Given(k)))[i]
  <2> TAKE i \in 1..HeaderLen
  <2>1. ends[k] + i \in 1..Len(stream)
    <3>1. ends[k] + HeaderLen <= Len(stream) /\ i \in 1..HeaderLen
      BY <1>5
    <3> QED BY <1>2, <1>3, <3>1 DEF HeaderLen
  <2> QED BY <1>5, <2>1 DEF Extends
<1>8. \A i \in 1..Len(Given(k)) :
         ends[k] + HeaderLen + i <= Len(stream)
            => stream'[ends[k] + HeaderLen + i] = Given(k)[i]
  <2> TAKE i \in 1..Len(Given(k))
  <2> HAVE ends[k] + HeaderLen + i <= Len(stream)
  <2>1. ends[k] + HeaderLen + i \in 1..Len(stream)
    BY <1>2, <1>3, <1>4 DEF HeaderLen
  <2> QED BY <1>5, <2>1 DEF Extends
<1> QED BY <1>3, <1>4, <1>6, <1>7, <1>8

-----------------------------------------------------------------------------
(* The steps of the writer *)

LEMMA InvInit == Init => Inv
<1> SUFFICES ASSUME Init PROVE Inv
  OBVIOUS
<1>1. Base \in Nat \ {0, 1} /\ Wrap \in Nat /\ Wrap > 0 /\ MaxWrites \in Nat
  BY FrameAssumption DEF Wrap
<1>2. /\ <<>> \in Seq(Payloads) /\ <<>> \in Seq(Byte) /\ Len(<<>>) = 0
      /\ <<0>> \in Seq(Nat) /\ Len(<<0>>) = 1 /\ <<0>>[1] = 0
  OBVIOUS
<1>3. 0 \in 0..MaxWrites /\ 0 \in 0..(Wrap - 1) /\ 0 \in 0..0
  BY <1>1
<1>4. TypeOK
  <2>1. pos \in 0..Len(stream) /\ ends \in Seq(Nat)
    BY <1>2, <1>3 DEF Init
  <2> QED BY <1>2, <1>3, <2>1 DEF Init, TypeOK
<1>5. Frames = 0
  BY <1>2 DEF Init, Frames
<1>6. ends[1] = 0 /\ Len(ends) = 1 /\ Len(stream) = 0 /\ Len(got) = 0 /\ Len(buf) = 0
  BY <1>2 DEF Init
<1>7. Layout /\ Content
  BY <1>5, <1>6 DEF Layout, Content
<1>8. Unfinished
  BY <1>5, <1>6 DEF Init, Unfinished, HeaderLen
<1>9. Returned
  BY <1>5, <1>6 DEF Returned
<1>10. InStep
  BY <1>5, <1>6 DEF Init, InStep, HeaderLen
<1> QED BY <1>4, <1>7, <1>8, <1>9, <1>10 DEF Inv

LEMMA WriteHeaderStep ==
    ASSUME Inv, NEW p \in Payloads, WriteHeader(p)
    PROVE  Inv'
<1> DEFINE h == PutUint32(Len(p))
<1>1. TypeOK /\ Layout /\ Content /\ Unfinished
  BY DEF Inv
<1>2. /\ data = <<>> /\ conn = "up" /\ calls < MaxWrites /\ stream' = stream \o h
      /\ ends' = Append(ends, Len(stream') + Len(p)) /\ data' = <<p>> /\ calls' = calls + 1
      /\ UNCHANGED <<conn, out, rpc, buf, size, got, pos>>
  BY DEF WriteHeader, readerVars
<1>3. /\ stream \in Seq(Byte) /\ ends \in Seq(Nat) /\ out \in Seq(Payloads) /\ Len(out) \in Nat
      /\ Len(data) = 0 /\ Frames = Len(out) /\ Len(stream) \in Nat /\ pos \in Nat /\ pos <= Len(stream)
  BY <1>1, <1>2, TypeFacts DEF Frames
<1>4. h \in Seq(Byte) /\ Len(h) = HeaderLen /\ Len(p) \in Nat
  BY PayloadFacts
<1> HIDE DEF h
<1>5. /\ stream' \in Seq(Byte) /\ Len(stream') = Len(stream) + HeaderLen
      /\ \A i \in 1..Len(stream) : stream'[i] = stream[i]
      /\ \A i \in 1..HeaderLen : stream'[Len(stream) + i] = h[i]
  <2>1. /\ stream \o h \in Seq(Byte) /\ Len(stream \o h) = Len(stream) + Len(h)
        /\ \A i \in 1..Len(stream) : (stream \o h)[i] = stream[i]
        /\ \A i \in 1..Len(h) : (stream \o h)[Len(stream) + i] = h[i]
    BY <1>3, <1>4, Appended
  <2> QED BY <1>2, <1>4, <2>1, Zenon
<1>6. Len(stream') \in Nat /\ Len(stream') + Len(p) \in Nat /\ Len(stream) <= Len(stream')
  BY <1>3, <1>4, <1>5 DEF HeaderLen
<1>7. /\ ends' \in Seq(Nat) /\ Len(ends') = Len(ends) + 1
      /\ \A k \in 1..Len(ends) : ends'[k] = ends[k]
      /\ ends'[Len(ends) + 1] = Len(stream') + Len(p)
  BY <1>2, <1>3, <1>6
<1>8. Len(data') = 1 /\ data'[1] = p /\ data' # <<>> /\ Frames' = Frames + 1
  BY <1>2, <1>3 DEF Frames
<1>9. TypeOK'
  <2>1. pos' \in 0..Len(stream') /\ calls' \in 0..MaxWrites
    BY <1>1, <1>2, <1>3, <1>6, FrameAssumption DEF TypeOK
  <2>2. \E x \in Payloads : data' = <<x>>
    BY <1>2
  <2> QED BY <1>1, <1>2, <1>5, <1>7, <2>1, <2>2 DEF TypeOK
<1>10. Len(ends) = Frames + 1 /\ ends[Frames + 1] = Len(stream)
  BY <1>1, <1>2 DEF Layout, Unfinished
<1>11. /\ \A k \in 1..Frames : Given(k)' = Given(k)
       /\ \A k : k = Frames + 1 => Given(k)' = p
  BY <1>2, <1>3, <1>8 DEF Given
<1>12. Extends
  BY <1>3, <1>5, <1>6, <1>7, <1>8, <1>10, <1>11 DEF Extends
<1>13. Layout'
  <2>1. Len(ends') = Frames' + 1
    BY <1>7, <1>8, <1>10
  <2>2. ends'[1] = 0
    BY <1>1, <1>3, <1>7, <1>10 DEF Layout
  <2>3. ASSUME NEW k \in 1..Frames' PROVE ends'[k + 1] = ends'[k] + HeaderLen + Len(Given(k)')
    <3>1. CASE k \in 1..Frames
      <4>1. ends[k + 1] = ends[k] + HeaderLen + Len(Given(k))
        BY <1>1, <3>1 DEF Layout
      <4>2. k \in 1..Len(ends) /\ k + 1 \in 1..Len(ends)
        BY <1>3, <1>10, <3>1
      <4> QED BY <1>7, <1>11, <3>1, <4>1, <4>2
    <3>2. CASE k = Frames + 1
      <4>1. ends'[k] = Len(stream) /\ ends'[k + 1] = Len(stream') + Len(p) /\ Given(k)' = p
        <5>1. k = Len(ends) /\ k \in 1..Len(ends)
          BY <1>3, <1>10, <3>2
        <5>2. ends'[k] = ends[k] /\ ends'[k + 1] = Len(stream') + Len(p)
          BY <1>7, <5>1
        <5> QED BY <1>10, <1>11, <3>2, <5>2
      <4> QED BY <1>3, <1>4, <1>5, <4>1 DEF HeaderLen
    <3> QED BY <1>3, <1>8, <3>1, <3>2
  <2> QED BY <2>1, <2>2, <2>3 DEF Layout
<1>14. Content'
  <2>1. ASSUME NEW k \in 1..Frames'
        PROVE  /\ ends'[k] + HeaderLen <= Len(stream')
               /\ \A i \in 1..HeaderLen : stream'[ends'[k] + i] = PutUint32(Len(Given(k)'))[i]
               /\ \A i \in 1..Len(Given(k)') :
                     ends'[k] + HeaderLen + i <= Len(stream')
                        => stream'[ends'[k] + HeaderLen + i] = Given(k)'[i]
    <3>1. CASE k \in 1..Frames
      <4>1. ends[k] + HeaderLen + Len(Given(k)) <= Len(stream)
        BY <1>3, <3>1, OutIsWhole
      <4>2. \A i \in 1..Len(Given(k)) : ends[k] + HeaderLen + i <= Len(stream)
        BY <1>3, <1>9, <1>12, <3>1, <4>1, ContentStays DEF HeaderLen
      <4> QED BY <1>9, <1>12, <3>1, <4>2, ContentStays
    <3>2. CASE k = Frames + 1
      <4>1. ends'[k] = Len(stream) /\ Given(k)' = p
        <5>1. k = Len(ends) /\ k \in 1..Len(ends)
          BY <1>3, <1>10, <3>2
        <5>2. ends'[k] = ends[k]
          BY <1>7, <5>1
        <5> QED BY <1>10, <1>11, <3>2, <5>2
      <4>2. ends'[k] + HeaderLen <= Len(stream')
        BY <1>3, <1>5, <4>1 DEF HeaderLen
      <4>3. \A i \in 1..HeaderLen : stream'[ends'[k] + i] = PutUint32(Len(Given(k)'))[i]
        BY <1>5, <4>1 DEF h
      <4>4. \A i \in 1..Len(p) : ~(ends'[k] + HeaderLen + i <= Len(stream'))
        BY <1>3, <1>4, <1>5, <4>1 DEF HeaderLen
      <4> QED BY <4>1, <4>2, <4>3, <4>4
    <3> QED BY <1>3, <1>8, <3>1, <3>2
  <2> QED BY <2>1 DEF Content
<1>15. Unfinished'
  <2>1. ends'[Frames' + 1] = Len(stream') + Len(p)
    BY <1>7, <1>8, <1>10
  <2> QED BY <1>4, <1>6, <1>8, <2>1 DEF Unfinished
<1>16. Returned' /\ InStep'
  BY <1>2, <1>9, <1>12, ReaderStays DEF readerVars
<1> QED BY <1>9, <1>13, <1>14, <1>15, <1>16 DEF Inv

\* A step that adds bytes, at most, and leaves the frames as they are.  The new
\* bytes belong to the payload in hand, or to a header that stays torn.
LEMMA BytesStep ==
    ASSUME Inv, TypeOK', Extends, UNCHANGED readerVars, Frames' = Frames,
           Len(ends') = Len(ends), Unfinished',
           \A i \in 1..Len(data) : \A j \in 1..Len(data[1]) :
              LET x == ends[Frames] + HeaderLen + j
              IN  Len(stream) < x /\ x <= Len(stream') => stream'[x] = data[1][j]
    PROVE  Inv'
<1>1. TypeOK /\ Layout /\ Content
  BY DEF Inv
<1>2. /\ Frames \in Nat /\ Len(out) \in Nat /\ Frames = Len(out) + Len(data) /\ Len(data) \in {0, 1}
      /\ Len(stream) \in Nat /\ Len(stream') \in Nat
  BY <1>1, TypeFacts, TypeFactsNext DEF Frames
<1>3. Layout'
  <2>1. ASSUME NEW k \in 1..Frames PROVE ends'[k + 1] = ends'[k] + HeaderLen + Len(Given(k)')
    <3>1. k \in 1..(Frames + 1) /\ k + 1 \in 1..(Frames + 1)
      BY <1>2
    <3> QED BY <1>1, <3>1 DEF Layout, Extends
  <2>2. ends'[1] = 0 /\ Len(ends') = Frames' + 1
    BY <1>1, <1>2 DEF Layout, Extends
  <2> QED BY <2>1, <2>2 DEF Layout
<1>4. Content'
  <2>1. ASSUME NEW k \in 1..Frames
        PROVE  \A i \in 1..Len(Given(k)') :
                  ends'[k] + HeaderLen + i <= Len(stream')
                     => stream'[ends'[k] + HeaderLen + i] = Given(k)'[i]
    <3>0. /\ ends'[k] = ends[k] /\ Given(k)' = Given(k) /\ ends[k] \in Nat /\ Len(Given(k)) \in Nat
          /\ \A i \in 1..Len(Given(k)) :
                ends[k] + HeaderLen + i <= Len(stream)
                   => stream'[ends[k] + HeaderLen + i] = Given(k)[i]
      BY ContentStays
    <3>1. CASE k <= Len(out)
      <4>1. ends[k] + HeaderLen + Len(Given(k)) <= Len(stream)
        BY <1>2, <3>1, OutIsWhole
      <4>2. \A i \in 1..Len(Given(k)) : ends[k] + HeaderLen + i <= Len(stream)
        BY <1>2, <3>0, <4>1 DEF HeaderLen
      <4> QED BY <3>0, <4>2
    <3>2. CASE ~(k <= Len(out))
      <4>1. k = Frames /\ Len(data) = 1
        <5>1. k \in Nat /\ k <= Frames /\ k > Len(out)
          BY <1>2, <3>2
        <5>2. Len(data) # 0
          BY <1>2, <5>1
        <5>3. Len(data) = 1 /\ Frames = Len(out) + 1
          BY <1>2, <5>2
        <5> QED BY <1>2, <5>1, <5>3
      <4>g. Given(k) = data[1]
        BY <3>2 DEF Given
      <4>2. ASSUME NEW i \in 1..Len(Given(k)), ends[k] + HeaderLen + i <= Len(stream')
            PROVE  stream'[ends[k] + HeaderLen + i] = Given(k)[i]
        <5>1. CASE ends[k] + HeaderLen + i <= Len(stream)
          BY <3>0, <5>1
        <5>2. CASE ~(ends[k] + HeaderLen + i <= Len(stream))
          <6>1. Len(stream) < ends[Frames] + HeaderLen + i /\ 1 \in 1..Len(data)
            BY <1>2, <3>0, <4>1, <5>2 DEF HeaderLen
          <6> QED BY <4>1, <4>g, <4>2, <6>1
        <5> QED BY <5>1, <5>2
      <4> QED BY <3>0, <4>2
    <3> QED BY <3>1, <3>2
  <2> QED BY <2>1, ContentStays DEF Content
<1> QED BY <1>3, <1>4, ReaderStays DEF Inv

LEMMA WriteHeaderFailsStep ==
    ASSUME Inv, NEW p \in Payloads, WriteHeaderFails(p)
    PROVE  Inv'
<1> DEFINE h == PutUint32(Len(p))
<1>1. TypeOK /\ Layout /\ Unfinished
  BY DEF Inv
<1>2. PICK n \in 0..(HeaderLen - 1) :
        /\ conn = "broken" \/ (conn = "up" /\ data = <<>>)
        /\ conn = "broken" => n = 0
        /\ stream' = stream \o SubSeq(h, 1, n)
  BY DEF WriteHeaderFails
<1>3. /\ calls < MaxWrites /\ conn' = "broken" /\ calls' = calls + 1
      /\ UNCHANGED <<data, out, ends, readerVars>>
  BY DEF WriteHeaderFails
<1>4. /\ stream \in Seq(Byte) /\ Len(stream) \in Nat /\ pos \in Nat /\ pos <= Len(stream)
      /\ Frames \in Nat /\ h \in Seq(Byte) /\ Len(h) = HeaderLen
  BY <1>1, TypeFacts, PayloadFacts
<1> DEFINE t == SubSeq(h, 1, n)
<1>5. t \in Seq(Byte) /\ Len(t) = n
  <2>1. n \in Nat /\ 0 + n <= Len(h) /\ 0 \in Nat /\ 0 + 1 = 1 /\ 0 + n = n
    BY <1>4 DEF HeaderLen
  <2> HIDE DEF h
  <2>2. SubSeq(h, 0 + 1, 0 + n) \in Seq(Byte) /\ Len(SubSeq(h, 0 + 1, 0 + n)) = n
    BY <1>4, <2>1, Part
  <2> QED BY <2>1, <2>2
<1> HIDE DEF h, t
<1>6. /\ stream' \in Seq(Byte) /\ Len(stream') = Len(stream) + n
      /\ \A i \in 1..Len(stream) : stream'[i] = stream[i]
  <2>1. /\ stream \o t \in Seq(Byte) /\ Len(stream \o t) = Len(stream) + Len(t)
        /\ \A i \in 1..Len(stream) : (stream \o t)[i] = stream[i]
    BY <1>4, <1>5, Appended
  <2>2. stream' = stream \o t
    BY <1>2 DEF t
  <2> QED BY <1>5, <2>1, <2>2, Zenon
<1>7. n \in Nat /\ n < HeaderLen /\ Len(stream) <= Len(stream')
  BY <1>4, <1>6 DEF HeaderLen
<1>8. TypeOK'
  <2>1. pos' \in 0..Len(stream') /\ calls' \in 0..MaxWrites
    BY <1>1, <1>3, <1>4, <1>6, <1>7, FrameAssumption DEF TypeOK, readerVars
  <2> QED BY <1>1, <1>3, <1>6, <2>1 DEF TypeOK, readerVars
<1>9. Frames' = Frames /\ \A k : Given(k)' = Given(k)
  BY <1>3 DEF Frames, Given
<1>10. Extends
  BY <1>3, <1>4, <1>6, <1>7, <1>9 DEF Extends
<1>11. Unfinished'
  <2>1. ends' = ends /\ data' = data /\ conn' = "broken"
    BY <1>3
  <2>2. CASE conn = "broken"
    <3>1. Len(stream') = Len(stream)
      BY <1>2, <1>4, <1>6, <2>2
    <3> QED BY <1>1, <1>9, <2>1, <2>2, <3>1 DEF Unfinished
  <2>3. CASE conn = "up" /\ data = <<>>
    <3>1. Len(stream) = ends[Frames + 1]
      BY <1>1, <2>3 DEF Unfinished
    <3> QED BY <1>4, <1>6, <1>7, <1>9, <2>1, <2>3, <3>1 DEF Unfinished
  <2> QED BY <1>2, <2>2, <2>3
<1>12. \A i \in 1..Len(data) : \A j \in 1..Len(data[1]) :
         LET x == ends[Frames] + HeaderLen + j
         IN  Len(stream) < x /\ x <= Len(stream') => stream'[x] = data[1][j]
  <2>1. CASE data = <<>>
    BY <2>1
  <2>2. CASE data # <<>>
    <3>1. Len(stream') = Len(stream)
      BY <1>2, <1>4, <1>6, <2>2
    <3>2. ASSUME NEW i \in 1..Len(data) PROVE Len(data) = 1 /\ data[1] \in Payloads
      BY <1>1, <2>2, TypeFacts
    <3>3. ASSUME NEW i \in 1..Len(data), NEW j \in 1..Len(data[1])
          PROVE  ends[Frames] + HeaderLen + j \in Nat
      <4>1. Frames \in 1..(Frames + 1)
        BY <1>1, <1>4, <3>2, TypeFacts DEF Frames
      <4>2. ends[Frames] \in Nat /\ Len(data[1]) \in Nat
        BY <3>2, <4>1, EndsAreNumbers, PayloadFacts
      <4> QED BY <4>2 DEF HeaderLen
    <3> QED BY <1>4, <3>1, <3>3
  <2> QED BY <2>1, <2>2
<1> QED BY <1>3, <1>8, <1>9, <1>10, <1>11, <1>12, BytesStep

\* Both outcomes of w.Write(data): the first n bytes have left.
LEMMA PayloadBytes ==
    ASSUME Inv, data # <<>>, conn = "up", NEW n \in 0..Len(data[1]),
           NEW t \in Seq(Byte), Len(t) = n, \A j \in 1..n : t[j] = data[1][j],
           stream' = stream \o t, UNCHANGED <<ends, calls, readerVars>>
    PROVE  /\ data[1] \in Payloads /\ Frames \in Nat /\ Len(stream) \in Nat /\ Len(data[1]) \in Nat
           /\ n \in Nat
           /\ Len(data) = 1 /\ Frames = Len(out) + 1 /\ ends[Frames + 1] = Len(stream) + Len(data[1])
           /\ stream' \in Seq(Byte) /\ Len(stream') = Len(stream) + n /\ Len(stream') \in Nat
           /\ \A i \in 1..Len(stream) : stream'[i] = stream[i]
           /\ pos' \in 0..Len(stream')
           /\ \A i \in 1..Len(data) : \A j \in 1..Len(data[1]) :
                 LET x == ends[Frames] + HeaderLen + j
                 IN  Len(stream) < x /\ x <= Len(stream') => stream'[x] = data[1][j]
<1>1. TypeOK /\ Layout /\ Unfinished
  BY DEF Inv
<1>2. /\ stream \in Seq(Byte) /\ Len(stream) \in Nat /\ pos \in Nat /\ pos <= Len(stream)
      /\ Len(out) \in Nat /\ Frames \in Nat /\ Len(data) = 1 /\ data[1] \in Payloads
  BY <1>1, TypeFacts
<1>3. Len(data[1]) \in Nat /\ n \in Nat /\ Frames = Len(out) + 1
  BY <1>2, PayloadFacts DEF Frames
<1>4. ends[Frames + 1] = Len(stream) + Len(data[1])
  BY <1>1 DEF Unfinished
<1>5. Frames \in 1..Frames /\ Frames \in 1..(Frames + 1) /\ Given(Frames) = data[1]
  <2>1. ~(Frames <= Len(out))
    BY <1>2, <1>3
  <2> QED BY <1>2, <1>3, <2>1 DEF Given
<1>6. ends[Frames] \in Nat /\ ends[Frames + 1] = ends[Frames] + HeaderLen + Len(data[1])
  BY <1>1, <1>5, EndsAreNumbers DEF Layout
<1>7. ends[Frames] + HeaderLen = Len(stream)
  BY <1>2, <1>3, <1>4, <1>6 DEF HeaderLen
<1>8. /\ stream \o t \in Seq(Byte) /\ Len(stream \o t) = Len(stream) + Len(t)
      /\ \A i \in 1..Len(stream) : (stream \o t)[i] = stream[i]
      /\ \A i \in 1..Len(t) : (stream \o t)[Len(stream) + i] = t[i]
  BY <1>2, Appended
<1>9. /\ stream' \in Seq(Byte) /\ Len(stream') = Len(stream) + n
      /\ \A i \in 1..Len(stream) : stream'[i] = stream[i]
      /\ \A i \in 1..n : stream'[Len(stream) + i] = t[i]
  BY <1>8, Zenon
<1>10. pos' \in 0..Len(stream') /\ Len(stream') \in Nat
  BY <1>2, <1>3, <1>9 DEF readerVars
<1>11. ASSUME NEW j \in 1..Len(data[1]), Len(stream) + j <= Len(stream')
       PROVE  stream'[Len(stream) + j] = data[1][j]
  <2>1. j \in 1..n
    BY <1>2, <1>3, <1>9, <1>11
  <2> QED BY <1>9, <2>1
<1> QED BY <1>2, <1>3, <1>4, <1>7, <1>9, <1>10, <1>11

LEMMA WritePayloadStep ==
    ASSUME Inv, WritePayload
    PROVE  Inv'
<1>1. TypeOK /\ Unfinished
  BY DEF Inv
<1>2. /\ data # <<>> /\ conn = "up" /\ stream' = stream \o data[1] /\ out' = Append(out, data[1])
      /\ data' = <<>> /\ UNCHANGED <<conn, calls, ends, readerVars>>
  BY DEF WritePayload
<1>3. data[1] \in Seq(Byte) /\ Len(data[1]) \in 0..Len(data[1]) /\ out \in Seq(Payloads)
  BY <1>1, <1>2, TypeFacts, PayloadFacts
<1>4. /\ data[1] \in Payloads /\ Frames \in Nat /\ Len(stream) \in Nat /\ Len(data[1]) \in Nat
      /\ Len(data) = 1 /\ Frames = Len(out) + 1 /\ ends[Frames + 1] = Len(stream) + Len(data[1])
      /\ stream' \in Seq(Byte) /\ Len(stream') = Len(stream) + Len(data[1]) /\ Len(stream') \in Nat
      /\ \A i \in 1..Len(stream) : stream'[i] = stream[i]
      /\ pos' \in 0..Len(stream')
      /\ \A i \in 1..Len(data) : \A j \in 1..Len(data[1]) :
            LET x == ends[Frames] + HeaderLen + j
            IN  Len(stream) < x /\ x <= Len(stream') => stream'[x] = data[1][j]
  BY <1>2, <1>3, PayloadBytes
<1>5. /\ out' \in Seq(Payloads) /\ Len(out') = Len(out) + 1 /\ Len(data') = 0
      /\ \A k \in 1..Len(out) : out'[k] = out[k]
      /\ out'[Len(out) + 1] = data[1]
  BY <1>2, <1>3, <1>4
<1>6. TypeOK'
  BY <1>1, <1>2, <1>4, <1>5 DEF TypeOK, readerVars
<1>7. Len(out) \in Nat /\ Frames' = Frames
  BY <1>3, <1>4, <1>5 DEF Frames
<1>8. ASSUME NEW k \in 1..Frames PROVE Given(k)' = Given(k)
  <2>1. CASE k \in 1..Len(out)
    BY <1>5, <1>7, <2>1 DEF Given
  <2>2. CASE k = Len(out) + 1
    <3>1. Given(k) = data[1] /\ Given(k)' = out'[k]
      BY <1>5, <1>7, <2>2 DEF Given
    <3> QED BY <1>5, <2>2, <3>1
  <2> QED BY <1>4, <1>7, <2>1, <2>2
<1>9. Extends
  BY <1>2, <1>4, <1>7, <1>8 DEF Extends
<1>10. Unfinished'
  BY <1>2, <1>4, <1>7 DEF Unfinished, HeaderLen
<1> QED BY <1>2, <1>4, <1>6, <1>7, <1>9, <1>10, BytesStep

LEMMA WritePayloadFailsStep ==
    ASSUME Inv, WritePayloadFails
    PROVE  Inv'
<1>1. TypeOK /\ Unfinished
  BY DEF Inv
<1>2. PICK n \in {0} \cup 1..(Len(data[1]) - 1) : stream' = stream \o SubSeq(data[1], 1, n)
  BY DEF WritePayloadFails
<1>3. /\ data # <<>> /\ conn = "up" /\ conn' = "broken"
      /\ UNCHANGED <<data, calls, out, ends, readerVars>>
  BY DEF WritePayloadFails
<1>4. data[1] \in Seq(Byte) /\ Len(data[1]) \in Nat
  BY <1>1, <1>3, TypeFacts, PayloadFacts
<1>5. n \in 0..Len(data[1]) /\ n \in Nat /\ (Len(data[1]) > 0 => n < Len(data[1]))
  BY <1>4
<1> DEFINE t == SubSeq(data[1], 1, n)
<1>6. t \in Seq(Byte) /\ Len(t) = n /\ \A j \in 1..n : t[j] = data[1][j]
  <2>1. n \in Nat /\ 0 + n <= Len(data[1]) /\ 0 \in Nat /\ 0 + 1 = 1 /\ 0 + n = n
    BY <1>4, <1>5
  <2>2. /\ SubSeq(data[1], 0 + 1, 0 + n) \in Seq(Byte) /\ Len(SubSeq(data[1], 0 + 1, 0 + n)) = n
        /\ \A j \in 1..n : SubSeq(data[1], 0 + 1, 0 + n)[j] = data[1][0 + j]
    BY <1>4, <2>1, Part
  <2>3. \A j \in 1..n : 0 + j = j
    BY <2>1
  <2> QED BY <2>1, <2>2, <2>3
<1>7. stream' = stream \o t
  BY <1>2
<1> HIDE DEF t
<1>8. /\ data[1] \in Payloads /\ Frames \in Nat /\ Len(stream) \in Nat
      /\ Len(data) = 1 /\ Frames = Len(out) + 1 /\ ends[Frames + 1] = Len(stream) + Len(data[1])
      /\ stream' \in Seq(Byte) /\ Len(stream') = Len(stream) + n /\ Len(stream') \in Nat
      /\ \A i \in 1..Len(stream) : stream'[i] = stream[i]
      /\ pos' \in 0..Len(stream')
      /\ \A i \in 1..Len(data) : \A j \in 1..Len(data[1]) :
            LET x == ends[Frames] + HeaderLen + j
            IN  Len(stream) < x /\ x <= Len(stream') => stream'[x] = data[1][j]
  BY <1>3, <1>5, <1>6, <1>7, PayloadBytes
<1>9. TypeOK'
  BY <1>1, <1>3, <1>8 DEF TypeOK, readerVars
<1>10. Frames' = Frames /\ \A k : Given(k)' = Given(k)
  BY <1>3 DEF Frames, Given
<1>11. Extends
  BY <1>3, <1>5, <1>8, <1>10 DEF Extends
<1>12. Unfinished'
  BY <1>3, <1>4, <1>5, <1>8, <1>10 DEF Unfinished
<1> QED BY <1>3, <1>8, <1>9, <1>10, <1>11, <1>12, BytesStep

-----------------------------------------------------------------------------
(* The steps of the reader *)

\* It leaves the writer's side alone.
LEMMA WriterStays ==
    ASSUME Inv, UNCHANGED writerVars
    PROVE  Layout' /\ Content' /\ Unfinished' /\ Frames' = Frames /\ \A k : Given(k)' = Given(k)
<1>1. UNCHANGED <<data, conn, calls, out, stream, ends>>
  BY DEF writerVars
<1>2. Frames' = Frames /\ \A k : Given(k)' = Given(k)
  BY <1>1 DEF Frames, Given
<1> QED BY <1>1, <1>2 DEF Inv, Layout, Content, Unfinished

LEMMA ReadSomeStep ==
    ASSUME Inv, ReadSome
    PROVE  Inv'
<1>1. TypeOK /\ Returned /\ InStep
  BY DEF Inv
<1>2. PICK n \in 1..(Len(stream) - pos) :
        /\ Len(buf) + n <= Want
        /\ buf' = buf \o SubSeq(stream, pos + 1, pos + n)
        /\ pos' = pos + n
  BY DEF ReadSome
<1>3. rpc # "failed" /\ UNCHANGED <<writerVars, rpc, size, got>>
  BY DEF ReadSome
<1>4. UNCHANGED <<data, conn, calls, out, stream, ends>>
  BY <1>3 DEF writerVars
<1>5. /\ stream \in Seq(Byte) /\ buf \in Seq(Byte) /\ pos \in Nat /\ pos <= Len(stream)
      /\ Len(stream) \in Nat /\ Len(buf) \in Nat /\ Len(got) \in Nat /\ Frames \in Nat
      /\ rpc \in {"header", "payload"} /\ size \in Nat
  BY <1>1, <1>3, TypeFacts DEF TypeOK
<1>6. n \in Nat /\ pos + n <= Len(stream)
  BY <1>5
<1> DEFINE t == SubSeq(stream, pos + 1, pos + n)
           g == Len(got) + 1
           base == IF rpc = "header" THEN ends[g] ELSE ends[g] + HeaderLen
<1>7. t \in Seq(Byte) /\ Len(t) = n /\ \A i \in 1..n : t[i] = stream[pos + i]
  BY <1>5, <1>6, Part
<1>8. buf' = buf \o t
  BY <1>2
<1> HIDE DEF t
<1>9. /\ buf' \in Seq(Byte) /\ Len(buf') = Len(buf) + n
      /\ \A i \in 1..Len(buf) : buf'[i] = buf[i]
      /\ \A i \in 1..n : buf'[Len(buf) + i] = t[i]
  <2>1. /\ buf \o t \in Seq(Byte) /\ Len(buf \o t) = Len(buf) + Len(t)
        /\ \A i \in 1..Len(buf) : (buf \o t)[i] = buf[i]
        /\ \A i \in 1..Len(t) : (buf \o t)[Len(buf) + i] = t[i]
    BY <1>5, <1>7, Appended
  <2> QED BY <1>7, <1>8, <2>1, Zenon
<1>10. g \in 1..(Frames + 1) /\ ends[g] \in Nat
  BY <1>1, <1>5, EndsAreNumbers DEF Returned
<1>11. base \in Nat /\ pos = base + Len(buf) /\ \A i \in 1..Len(buf) : buf[i] = stream[base + i]
  <2>1. CASE rpc = "header"
    BY <1>1, <1>10, <2>1 DEF InStep
  <2>2. CASE rpc = "payload"
    BY <1>1, <1>10, <2>2 DEF InStep, HeaderLen
  <2> QED BY <1>5, <2>1, <2>2
<1> HIDE DEF base
<1>12. pos' = base + Len(buf') /\ \A i \in 1..Len(buf') : buf'[i] = stream[base + i]
  <2>1. pos' = base + Len(buf')
    BY <1>2, <1>5, <1>6, <1>9, <1>11
  <2>2. ASSUME NEW i \in 1..Len(buf') PROVE buf'[i] = stream[base + i]
    <3>1. CASE i \in 1..Len(buf)
      BY <1>9, <1>11, <3>1
    <3>2. CASE i \notin 1..Len(buf)
      <4>1. i - Len(buf) \in 1..n /\ i = Len(buf) + (i - Len(buf))
        BY <1>5, <1>6, <1>9, <3>2
      <4>2. buf'[i] = stream[pos + (i - Len(buf))]
        BY <1>7, <1>9, <4>1
      <4>3. pos + (i - Len(buf)) = base + i
        BY <1>5, <1>9, <1>11, <4>1
      <4> QED BY <4>2, <4>3
    <3> QED BY <3>1, <3>2
  <2> QED BY <2>1, <2>2
<1>13. TypeOK'
  <2>1. pos' \in 0..Len(stream')
    BY <1>2, <1>4, <1>5, <1>6
  <2> QED BY <1>1, <1>3, <1>4, <1>9, <2>1 DEF TypeOK
<1>14. Layout' /\ Content' /\ Unfinished' /\ Frames' = Frames /\ \A k : Given(k)' = Given(k)
  BY <1>3, WriterStays
<1>15. Returned'
  BY <1>1, <1>3, <1>4, <1>14 DEF Returned
<1>16. InStep'
  <2>1. g' = g /\ ends' = ends /\ stream' = stream /\ rpc' = rpc /\ size' = size
    BY <1>3, <1>4
  <2>2. CASE rpc = "header"
    <3>1. Len(buf') <= HeaderLen /\ base = ends[g]
      BY <1>2, <1>9, <2>2 DEF Want, base
    <3> QED BY <1>12, <2>1, <2>2, <3>1 DEF InStep
  <2>3. CASE rpc = "payload"
    <3>1. Len(buf') <= size /\ base = ends[g] + HeaderLen
      BY <1>2, <1>9, <2>3 DEF Want, base
    <3>2. g <= Frames /\ size = Len(Given(g))
      BY <1>1, <2>3 DEF InStep
    <3>3. Given(g)' = Given(g)
      BY <2>1, <1>14
    <3> QED BY <1>12, <1>14, <2>1, <2>3, <3>1, <3>2, <3>3 DEF InStep
  <2> QED BY <1>5, <2>2, <2>3
<1> QED BY <1>13, <1>14, <1>15, <1>16 DEF Inv

\* The header that was read is the one of the next frame, and so is its length.
LEMMA HeaderReadStep ==
    ASSUME Inv, HeaderRead
    PROVE  Inv'
<1>1. TypeOK /\ Layout /\ Content /\ Unfinished /\ Returned /\ InStep
  BY DEF Inv
<1>2. /\ rpc = "header" /\ Len(buf) = HeaderLen /\ size' = Uint32(buf) /\ rpc' = "payload"
      /\ buf' = <<>> /\ UNCHANGED <<writerVars, got, pos>>
  BY DEF HeaderRead
<1>3. UNCHANGED <<data, conn, calls, out, stream, ends>>
  BY <1>2 DEF writerVars
<1>4. /\ pos \in Nat /\ pos <= Len(stream) /\ Len(stream) \in Nat /\ Len(got) \in Nat
      /\ Frames \in Nat /\ (Len(data) = 1 => data[1] \in Payloads) /\ Len(data) \in {0, 1}
      /\ (data = <<>> <=> Len(data) = 0)
  BY <1>1, TypeFacts DEF TypeOK
<1> DEFINE g == Len(got) + 1
<1>5. g \in 1..(Frames + 1) /\ ends[g] \in Nat
  BY <1>1, <1>4, EndsAreNumbers DEF Returned
<1>6. pos = ends[g] + HeaderLen /\ \A i \in 1..HeaderLen : buf[i] = stream[ends[g] + i]
  BY <1>1, <1>2 DEF InStep
<1>7. g \in 1..Frames
  <2>1. SUFFICES ASSUME g = Frames + 1 PROVE FALSE
    BY <1>4, <1>5
  <2>2. ends[Frames + 1] + HeaderLen <= Len(stream) /\ ends[Frames + 1] \in Nat
    BY <1>4, <1>5, <1>6, <2>1
  <2> QED BY <1>1, <1>4, <2>2 DEF Unfinished, HeaderLen
<1> DEFINE L == Len(Given(g))
<1>8. Given(g) \in Payloads /\ L \in Nat /\ L < Wrap
  BY <1>1, <1>7, TypeFacts, PayloadFacts
<1>9. \A i \in 1..HeaderLen : stream[ends[g] + i] = PutUint32(L)[i]
  BY <1>1, <1>7 DEF Content
<1>10. size' = L
  <2>1. \A i \in 1..4 : buf[i] = PutUint32(L)[i]
    BY <1>6, <1>9 DEF HeaderLen
  <2>2. /\ buf[1] = PutUint32(L)[1] /\ buf[2] = PutUint32(L)[2]
        /\ buf[3] = PutUint32(L)[3] /\ buf[4] = PutUint32(L)[4]
    BY <2>1
  <2>3. Uint32(buf) = Uint32(PutUint32(L))
    BY <2>2, Zenon DEF Uint32
  <2> QED BY <1>2, <1>8, <2>3, HeaderRoundTrip
<1> HIDE DEF L
<1>11. <<>> \in Seq(Byte) /\ Len(<<>>) = 0
  OBVIOUS
<1>12. TypeOK'
  <2>1. size' \in 0..(Wrap - 1)
    BY <1>8, <1>10, FrameAssumption DEF Wrap
  <2> QED BY <1>1, <1>2, <1>3, <1>11, <2>1 DEF TypeOK
<1>13. Layout' /\ Content' /\ Unfinished' /\ Frames' = Frames /\ \A k : Given(k)' = Given(k)
  BY <1>2, WriterStays
<1>14. Returned'
  BY <1>1, <1>2, <1>3, <1>13 DEF Returned
<1>15. InStep'
  <2>1. g' = g /\ ends' = ends /\ stream' = stream
    BY <1>2, <1>3
  <2>2. Len(Given(g)') = L
    BY <1>13, <2>1 DEF L
  <2>3. g <= Frames /\ Len(buf') = 0 /\ Len(buf') <= size' /\ pos' = ends[g] + HeaderLen + Len(buf')
    BY <1>2, <1>5, <1>6, <1>7, <1>8, <1>10, <1>11 DEF HeaderLen
  <2> QED BY <1>2, <1>10, <1>13, <2>1, <2>2, <2>3 DEF InStep
<1> QED BY <1>12, <1>13, <1>14, <1>15 DEF Inv

\* The payload that was read is the one that was given.
LEMMA PayloadReadStep ==
    ASSUME Inv, PayloadRead
    PROVE  Inv'
<1>1. TypeOK /\ Layout /\ Content /\ Returned /\ InStep
  BY DEF Inv
<1>2. /\ rpc = "payload" /\ Len(buf) = size /\ got' = Append(got, buf) /\ rpc' = "header"
      /\ buf' = <<>> /\ size' = 0 /\ UNCHANGED <<writerVars, pos>>
  BY DEF PayloadRead
<1>3. UNCHANGED <<data, conn, calls, out, stream, ends>>
  BY <1>2 DEF writerVars
<1>4. /\ pos \in Nat /\ pos <= Len(stream) /\ Len(stream) \in Nat /\ Len(got) \in Nat
      /\ Frames \in Nat /\ buf \in Seq(Byte) /\ Len(buf) \in Nat /\ got \in Seq(Payloads)
  BY <1>1, TypeFacts
<1> DEFINE g == Len(got) + 1
<1>5. /\ g <= Frames /\ size = Len(Given(g)) /\ pos = ends[g] + HeaderLen + Len(buf)
      /\ \A i \in 1..Len(buf) : buf[i] = stream[ends[g] + HeaderLen + i]
  BY <1>1, <1>2 DEF InStep
<1>6. g \in 1..Frames /\ g \in 1..(Frames + 1) /\ g + 1 \in 1..(Frames + 1) /\ ends[g] \in Nat
  BY <1>4, <1>5, EndsAreNumbers
<1>7. Given(g) \in Payloads /\ Given(g) \in Seq(Byte)
  BY <1>1, <1>6, TypeFacts, PayloadFacts
<1>8. buf = Given(g)
  <2>1. ASSUME NEW i \in 1..Len(buf) PROVE buf[i] = Given(g)[i]
    <3>1. ends[g] + HeaderLen + i <= Len(stream) /\ i \in 1..Len(Given(g))
      BY <1>2, <1>4, <1>5, <1>6 DEF HeaderLen
    <3>2. stream[ends[g] + HeaderLen + i] = Given(g)[i]
      BY <1>1, <1>6, <3>1 DEF Content
    <3> QED BY <1>5, <3>2
  <2>2. Len(buf) = Len(Given(g))
    BY <1>2, <1>5
  <2> QED BY <1>4, <1>7, <2>1, <2>2, SeqEqual
<1>9. /\ got' \in Seq(Payloads) /\ Len(got') = g
      /\ \A k \in 1..Len(got) : got'[k] = got[k]
      /\ got'[g] = Given(g)
  BY <1>2, <1>4, <1>7, <1>8
<1>10. <<>> \in Seq(Byte) /\ Len(<<>>) = 0
  OBVIOUS
<1>11. TypeOK'
  <2>1. size' \in 0..(Wrap - 1)
    BY <1>2, FrameAssumption DEF Wrap
  <2> QED BY <1>1, <1>2, <1>3, <1>9, <1>10, <2>1 DEF TypeOK
<1>12. Layout' /\ Content' /\ Unfinished' /\ Frames' = Frames /\ \A k : Given(k)' = Given(k)
  BY <1>2, WriterStays
<1>13. ends[g + 1] = ends[g] + HeaderLen + Len(Given(g)) /\ ends[g + 1] = pos
  BY <1>1, <1>2, <1>5, <1>6 DEF Layout
<1>14. Returned'
  <2>1. \A k \in 1..g : got'[k] = Given(k)
    BY <1>1, <1>4, <1>9 DEF Returned
  <2>2. Len(got') <= Frames /\ \A k \in 1..Len(got') : got'[k] = Given(k)'
    BY <1>5, <1>9, <1>12, <2>1
  <2>3. ends'[Len(got') + 1] <= Len(stream')
    BY <1>3, <1>4, <1>9, <1>13
  <2> QED BY <1>12, <2>2, <2>3 DEF Returned
<1>15. InStep'
  <2>1. Len(buf') = 0 /\ pos' = ends'[Len(got') + 1] + Len(buf')
    BY <1>2, <1>3, <1>4, <1>9, <1>10, <1>13
  <2> QED BY <1>2, <2>1 DEF InStep, HeaderLen
<1> QED BY <1>11, <1>12, <1>14, <1>15 DEF Inv

LEMMA InvStep == Inv /\ [Next]_vars => Inv'
<1> SUFFICES ASSUME Inv, [Next]_vars PROVE Inv'
  OBVIOUS
<1>1. ASSUME NEW p \in Payloads, WriteHeader(p) PROVE Inv'
  BY <1>1, WriteHeaderStep
<1>2. ASSUME NEW p \in Payloads, WriteHeaderFails(p) PROVE Inv'
  BY <1>2, WriteHeaderFailsStep
<1>3. CASE WritePayload
  BY <1>3, WritePayloadStep
<1>4. CASE WritePayloadFails
  BY <1>4, WritePayloadFailsStep
<1>5. CASE CloseConn
  <2>1. conn' = "closed" /\ UNCHANGED <<data, calls, out, stream, ends, rpc, buf, size, got, pos>>
    BY <1>5 DEF CloseConn, readerVars
  <2>2. Frames' = Frames /\ \A k : Given(k)' = Given(k)
    BY <2>1 DEF Frames, Given
  <2>3. TypeOK'
    BY <2>1 DEF Inv, TypeOK
  <2>4. Layout' /\ Content' /\ Returned'
    BY <2>1, <2>2 DEF Inv, Layout, Content, Returned
  <2>5. Unfinished'
    BY <2>1, <2>2 DEF Inv, Unfinished
  <2>6. InStep'
    BY <2>1, <2>2 DEF Inv, InStep
  <2> QED BY <2>3, <2>4, <2>5, <2>6 DEF Inv
<1>6. CASE ReadSome
  BY <1>6, ReadSomeStep
<1>7. CASE HeaderRead
  BY <1>7, HeaderReadStep
<1>8. CASE PayloadRead
  BY <1>8, PayloadReadStep
<1>9. CASE ReadEOF \/ ReadTimeout
  <2>1. rpc' = "failed" /\ UNCHANGED <<writerVars, buf, size, got, pos>>
    BY <1>9 DEF ReadEOF, ReadTimeout
  <2>2. UNCHANGED <<data, conn, calls, out, stream, ends>>
    BY <2>1 DEF writerVars
  <2>3. Layout' /\ Content' /\ Unfinished' /\ Frames' = Frames /\ \A k : Given(k)' = Given(k)
    BY <2>1, WriterStays
  <2>4. TypeOK' /\ Returned'
    BY <2>1, <2>2, <2>3 DEF Inv, TypeOK, Returned
  <2>5. InStep'
    BY <2>1 DEF InStep
  <2> QED BY <2>3, <2>4, <2>5 DEF Inv
<1>10. CASE UNCHANGED vars
  <2>1. UNCHANGED <<data, conn, calls, out, stream, ends, rpc, buf, size, got, pos>>
    BY <1>10 DEF vars, writerVars, readerVars
  <2>2. Layout' /\ Content' /\ Unfinished' /\ Frames' = Frames /\ \A k : Given(k)' = Given(k)
    BY <2>1, WriterStays DEF writerVars
  <2>3. TypeOK' /\ Returned'
    BY <2>1, <2>2 DEF Inv, TypeOK, Returned
  <2>4. InStep'
    BY <2>1, <2>2 DEF Inv, InStep
  <2> QED BY <2>2, <2>3, <2>4 DEF Inv
<1> QED
  BY <1>1, <1>2, <1>3, <1>4, <1>5, <1>6, <1>7, <1>8, <1>9, <1>10
     DEF Next, Write, Reader, Over

LEMMA Invariance == Spec => []Inv
BY InvInit, InvStep, PTL DEF Spec

\* Frames that were returned are the ones that were given; one that is not yet
\* a successful call can only be the empty payload.
LEMMA InvImpliesRoundTrip == Inv => RoundTrip
<1> SUFFICES ASSUME Inv PROVE RoundTrip
  OBVIOUS
<1>1. TypeOK /\ Unfinished /\ Returned
  BY DEF Inv
<1>2. /\ out \in Seq(Payloads) /\ got \in Seq(Payloads) /\ Len(got) \in Nat /\ Len(out) \in Nat
      /\ Len(data) \in {0, 1} /\ Frames = Len(out) + Len(data) /\ (data = <<>> <=> Len(data) = 0)
      /\ (Len(data) = 1 => data[1] \in Payloads) /\ Len(stream) \in Nat
  BY <1>1, TypeFacts DEF Frames, TypeOK
<1>3. CASE Len(got) <= Len(out)
  <2>1. \A k \in 1..Len(got) : got[k] = out[k]
    BY <1>1, <1>2, <1>3 DEF Returned, Given
  <2> DEFINE s == SubSeq(out, 1, Len(got))
  <2>2. s \in Seq(Payloads) /\ Len(s) = Len(got) /\ \A k \in 1..Len(got) : s[k] = out[k]
    <3>1. \A i \in 1..Len(got) : out[i] \in Payloads
      BY <1>2, <1>3
    <3>2. /\ s \in Seq(Payloads)
          /\ Len(s) = IF 1 <= Len(got) THEN Len(got) - 1 + 1 ELSE 0
          /\ \A i \in 1..(Len(got) - 1 + 1) : s[i] = out[1 + i - 1]
      BY <1>2, <3>1, SubSeqProperties
    <3> HIDE DEF s
    <3> QED BY <1>2, <3>2
  <2> HIDE DEF s
  <2>3. got = s
    BY <1>2, <2>1, <2>2, SeqEqual
  <2> QED BY <1>3, <2>3 DEF RoundTrip, s
<1>4. CASE ~(Len(got) <= Len(out))
  <2>1. Len(data) = 1 /\ data # <<>> /\ Frames = Len(out) + 1 /\ Len(got) = Frames
    <3>1. Len(got) <= Frames /\ Len(got) > Len(out)
      BY <1>1, <1>2, <1>4 DEF Returned
    <3>2. Len(data) # 0
      BY <1>2, <3>1
    <3>3. Len(data) = 1 /\ data # <<>> /\ Frames = Len(out) + 1
      BY <1>2, <3>2
    <3> QED BY <1>2, <3>1, <3>3
  <2>2. data[1] \in Payloads /\ data[1] \in Seq(Byte) /\ Len(data[1]) \in Nat
    BY <1>2, <2>1, PayloadFacts
  <2>3. ends[Frames + 1] <= Len(stream) /\ ends[Frames + 1] \in Nat
    BY <1>1, <1>2, <2>1, EndsAreNumbers DEF Returned
  <2>4. Len(data[1]) = 0
    BY <1>1, <1>2, <2>1, <2>2, <2>3 DEF Unfinished
  <2>5. data = << <<>> >>
    <3>1. data[1] = <<>>
      BY <2>2, <2>4
    <3>2. \E p \in Payloads : data = <<p>>
      BY <1>1, <2>1 DEF TypeOK
    <3> QED BY <3>1, <3>2
  <2>6. out \o data \in Seq(Payloads) /\ Len(out \o data) = Len(out) + 1
        /\ (\A k \in 1..Len(out) : (out \o data)[k] = out[k])
        /\ (out \o data)[Len(out) + 1] = data[1]
    <3>1. PICK p \in Payloads : data = <<p>>
      BY <1>1, <2>1 DEF TypeOK
    <3>2. /\ out \o <<p>> \in Seq(Payloads) /\ Len(out \o <<p>>) = Len(out) + 1
          /\ \A k \in 1..Len(out) : (out \o <<p>>)[k] = out[k]
          /\ (out \o <<p>>)[Len(out) + 1] = p
      BY <1>2
    <3>3. data[1] = p
      BY <3>1
    <3> QED BY <3>1, <3>2, <3>3, Zenon
  <2>7. ASSUME NEW k \in 1..Len(got) PROVE got[k] = (out \o data)[k]
    <3>1. CASE k <= Len(out)
      BY <1>1, <1>2, <2>6, <3>1 DEF Returned, Given
    <3>2. CASE ~(k <= Len(out))
      <4>1. k = Len(out) + 1
        BY <1>2, <2>1, <3>2
      <4> QED BY <1>1, <2>6, <3>2, <4>1 DEF Returned, Given
    <3> QED BY <3>1, <3>2
  <2>8. got = out \o data
    BY <1>2, <2>1, <2>6, <2>7, SeqEqual
  <2> QED BY <2>5, <2>8 DEF RoundTrip
<1> QED BY <1>3, <1>4

\* What Read returns is, in order and byte for byte, what Write was given, however
\* writes are torn, reads are short and the connection ends (frame.go).
THEOREM StreamStaysInStep == Spec => []RoundTrip
BY Invariance, InvImpliesRoundTrip, PTL
=============================================================================
