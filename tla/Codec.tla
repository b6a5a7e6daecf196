-------------------------------- MODULE Codec --------------------------------
(***************************************************************************)
(* Bytes and levels: how the decoder takes a field out of a frame, how the *)
(* encoder puts one in, and how a level goes from Home Assistant's 0-255   *)
(* to a raw byte and back.  A layout gives each field its bytes and, if    *)
(* width > 0, its bits; the bytes of a frame count from 0.                 *)
(***************************************************************************)
EXTENDS Integers, Sequences, SequencesExt, FiniteSetsExt

\* round: to the nearest integer, ties to the even one.
RoundDiv(n, d) ==
    LET q == n \div d
        r == n % d
    IN  IF 2 * r < d THEN q ELSE IF 2 * r > d THEN q + 1 ELSE q + (q % 2)

Least(a, b) == IF a <= b THEN a ELSE b

-----------------------------------------------------------------------------
(* Fields *)

\* Numbers of up to four bytes, and bits within one byte.
Field == {d \in [from : 0..7, to : 0..7, bit : 0..7, width : 0..8] :
             /\ d.from <= d.to /\ d.to <= d.from + 3
             /\ d.width > 0 => d.from = d.to /\ d.bit + d.width <= 8}
Byte(k) == [from |-> k, to |-> k, bit |-> 0, width |-> 0]

\* In different bytes, or different bits of one.
Apart(d, e) ==
    \/ d.to < e.from \/ e.to < d.from
    \/ /\ d.width > 0 /\ e.width > 0
       /\ d.bit + d.width <= e.bit \/ e.bit + e.width <= d.bit

Span(d) == d.to - d.from + 1
Present(layout, bytes) == {f \in DOMAIN layout : layout[f].to < Len(bytes)}

\* The bytes of the field as one number, the first byte least.
Bytes(bytes, d) ==
    LET number[k \in d.from .. d.to + 1] ==
            IF k > d.to THEN 0 ELSE bytes[k + 1] + 256 * number[k + 1]
    IN  number[d.from]

Bits(n, d) == (n \div (2 ^ d.bit)) % (2 ^ d.width)

ExtractRaw(bytes, d) ==
    IF d.width = 0 THEN Bytes(bytes, d) ELSE Bits(Bytes(bytes, d), d)

\* All ones in a whole field says "data not available"; bits have no such value.
Available(d, raw) ==
    d.width = 0 /\ Span(d) \in {1, 2, 4} => raw # 256 ^ Span(d) - 1

\* Masked into its bits, or over whole bytes, which must hold it.
Fits(d, raw) == d.width > 0 \/ raw \in 0 .. 256 ^ Span(d) - 1

PutField(bytes, d, raw) ==
    LET old == Bytes(bytes, d)
        new == IF d.width = 0 THEN raw
               ELSE old + ((raw % (2 ^ d.width)) - Bits(old, d)) * (2 ^ d.bit)
    IN  [i \in 1..Len(bytes) |->
            IF i - 1 \in d.from..d.to THEN (new \div (256 ^ (i - 1 - d.from))) % 256
            ELSE bytes[i]]

\* Mistake: zero for what is not said.
Zeros == [i \in 1..8 |-> 0]
Blank == [i \in 1..8 |-> 255]

EncodeFields(layout, values) ==
    FoldSet(LAMBDA f, bytes : PutField(bytes, layout[f], values[f]), Blank, DOMAIN values)

-----------------------------------------------------------------------------
(* Levels *)

\* Mistake: 200, which is 100 percent, for full.
HalfPercents(b) == RoundDiv(200 * b, 255)

\* A colour fixture's 0-255 as the raw level, with 250 for full.
ColourRaw(b) == RoundDiv(250 * b, 255)

\* A plain light's: a percentage rounded to a tenth, then to half percents.
PlainRaw(b) == RoundDiv(RoundDiv(1000 * b, 255), 5)

\* What Home Assistant shows for a raw level.
To255(raw) == Least(255, RoundDiv(51 * raw, 50))

\* A temperature rounded to thousandths of a degree, and its raw setpoint.
Millidegrees(raw) == RoundDiv(3125 * raw, 100) - 273000
EncodeTemp(milli) == RoundDiv(32 * (milli + 273000), 1000)

=============================================================================
