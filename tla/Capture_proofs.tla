---------------------------- MODULE Capture_proofs ----------------------------
(***************************************************************************)
(* What becomes of a level on its way from a raw byte to Home Assistant    *)
(* and back, of values on their way into a frame and out again, and of     *)
(* chunks that reassemble_tp puts together.                                *)
(*                                                                         *)
(* The argument for fields: putting a field changes its own bits alone, so *)
(* that by induction over how many fields are put, whichever comes next,   *)
(* each says what was put into it and every other field is all ones.       *)
(*                                                                         *)
(* The argument for transfers (TpInv): as long as nothing is in doubt, an  *)
(* assembly holds chunks of its source's transfer alone.  If the capture   *)
(* has all of the transfer so far, it holds all of them, so that the last  *)
(* packet completes it; if not, a number is missing that will not come     *)
(* again, and it is never complete.                                        *)
(*                                                                         *)
(* The argument for scenes: all frames of a scene that are for an instance *)
(* say what is shown of it, so that it does not matter which is the last.  *)
(*                                                                         *)
(* The argument for the tools: a fold passes through one state for each    *)
(* frame (FoldExists), and by induction over the frames that are read that *)
(* state says what is asked of those frames: the level told last of each   *)
(* instance (Latest), and what was found so far (Correlating, Slicing,     *)
(* Changing, Clustering).  Windows do not overlap because a capture is in  *)
(* the order of time (InOrder).                                            *)
(***************************************************************************)
EXTENDS Capture, FiniteSetTheorems, SequenceTheorems, WellFoundedInduction, TLAPS

(* Levels *)

\* RoundDiv is within half a step, for each step that is used.
LEMMA Half50 == ASSUME NEW n \in Nat
                PROVE  /\ RoundDiv(n, 50) \in Nat
                       /\ 50 * RoundDiv(n, 50) <= n + 25 /\ n <= 50 * RoundDiv(n, 50) + 25
  BY DEF RoundDiv

LEMMA Half255 == ASSUME NEW n \in Nat
                 PROVE  /\ RoundDiv(n, 255) \in Nat
                        /\ 255 * RoundDiv(n, 255) <= n + 127 /\ n <= 255 * RoundDiv(n, 255) + 127
  BY DEF RoundDiv

LEMMA Half5 == ASSUME NEW n \in Nat
               PROVE  /\ RoundDiv(n, 5) \in Nat
                      /\ 5 * RoundDiv(n, 5) <= n + 2 /\ n <= 5 * RoundDiv(n, 5) + 2
  BY DEF RoundDiv

LEMMA Half100 == ASSUME NEW n \in Nat
                 PROVE  /\ RoundDiv(n, 100) \in Nat
                        /\ 100 * RoundDiv(n, 100) <= n + 50 /\ n <= 100 * RoundDiv(n, 100) + 50
  BY DEF RoundDiv

LEMMA Half1000 == ASSUME NEW n \in Nat
                  PROVE  /\ RoundDiv(n, 1000) \in Nat
                         /\ 1000 * RoundDiv(n, 1000) <= n + 500
                         /\ n <= 1000 * RoundDiv(n, 1000) + 500
  BY DEF RoundDiv

\* Up to full scale, a colour fixture's level comes back as the very byte that was
\* shown (_to_255, _dimmer_frame).
THEOREM ColourLevelsReturn ==
    \A raw \in 0..250 : To255(raw) \in 0..255 /\ ColourRaw(To255(raw)) = raw
  <1> TAKE raw \in 0..250
  <1> DEFINE b == RoundDiv(51 * raw, 50)
             c == RoundDiv(250 * b, 255)
  <1>1. b \in Nat /\ 50 * b <= 51 * raw + 25 /\ 51 * raw <= 50 * b + 25
    <2>1. 51 * raw \in Nat
      OBVIOUS
    <2> QED BY <2>1, Half50
  <1>2. c \in Nat /\ 255 * c <= 250 * b + 127 /\ 250 * b <= 255 * c + 127
    <2> HIDE DEF b
    <2>1. 250 * b \in Nat
      BY <1>1
    <2> QED BY <2>1, Half255
  <1>3. To255(raw) = Least(255, b) /\ ColourRaw(b) = c
    BY DEF To255, ColourRaw
  <1> HIDE DEF b, c
  <1>4. b <= 255
    BY <1>1
  <1>5. Least(255, b) = b
    BY <1>1, <1>4 DEF Least
  <1>6. c = raw
    BY <1>1, <1>2
  <1> QED BY <1>1, <1>3, <1>4, <1>5, <1>6

\* Whatever byte a plain light was shown with, sending back what is shown never
\* makes it brighter and never switches it on or off (_encode_command).
THEOREM PlainLevelsHold ==
    \A raw \in 0..254 : /\ PlainRaw(To255(raw)) \in 0..raw
                        /\ PlainRaw(To255(raw)) = 0 <=> raw = 0
  <1> TAKE raw \in 0..254
  <1> DEFINE b == RoundDiv(51 * raw, 50)
             s == Least(255, b)
             p == RoundDiv(1000 * s, 255)
             c == RoundDiv(p, 5)
  <1>1. b \in Nat /\ 50 * b <= 51 * raw + 25 /\ 51 * raw <= 50 * b + 25
    <2>1. 51 * raw \in Nat
      OBVIOUS
    <2> QED BY <2>1, Half50
  <1>2. s \in Nat /\ s <= b /\ s <= 255 /\ (s = b \/ s = 255)
    <2> HIDE DEF b
    <2> QED BY <1>1 DEF Least
  <1>3. p \in Nat /\ 255 * p <= 1000 * s + 127 /\ 1000 * s <= 255 * p + 127
    <2> HIDE DEF s
    <2>1. 1000 * s \in Nat
      BY <1>2
    <2> QED BY <2>1, Half255
  <1>4. c \in Nat /\ 5 * c <= p + 2 /\ p <= 5 * c + 2
    <2> HIDE DEF p
    <2> QED BY ZenonT(30), <1>3, Half5
  <1>5. PlainRaw(To255(raw)) = c
    BY DEF PlainRaw, To255
  <1> HIDE DEF b, s, p, c
  <1>6. c <= raw
    BY <1>1, <1>2, <1>3, <1>4
  <1>7. raw = 0 => c = 0
    BY <1>1, <1>2, <1>3, <1>4
  <1>8. raw >= 1 => c >= 1
    <2> SUFFICES ASSUME raw >= 1 PROVE c >= 1
      OBVIOUS
    <2>1. b >= 1
      BY <1>1
    <2>2. s >= 1
      BY <1>2, <2>1
    <2>3. p >= 3
      BY <1>3, <1>2, <2>2
    <2> QED BY <1>4, <1>3, <2>3
  <1> QED BY <1>4, <1>5, <1>6, <1>7, <1>8

\* The setpoint the encoder computes from a temperature it has decoded is the very
\* one on the bus, for each value but "not available" (_scale, _encode_temp).
THEOREM SetpointsReturn ==
    \A raw \in Nat : raw < 65535 => EncodeTemp(Millidegrees(raw)) = raw
  <1> TAKE raw \in Nat
  <1> DEFINE t == RoundDiv(3125 * raw, 100)
             c == RoundDiv(32 * t, 1000)
  <1>1. t \in Nat /\ 100 * t <= 3125 * raw + 50 /\ 3125 * raw <= 100 * t + 50
    <2>1. 3125 * raw \in Nat
      OBVIOUS
    <2> QED BY <2>1, Half100
  <1>2. c \in Nat /\ 1000 * c <= 32 * t + 500 /\ 32 * t <= 1000 * c + 500
    <2> HIDE DEF t
    <2>1. 32 * t \in Nat
      BY <1>1
    <2> QED BY <2>1, Half1000
  <1>3. Millidegrees(raw) = t - 273000
    BY DEF Millidegrees
  <1> HIDE DEF t
  <1>4. (t - 273000) + 273000 = t
    BY <1>1
  <1>5. EncodeTemp(t - 273000) = c
    BY <1>4 DEF EncodeTemp
  <1> HIDE DEF c
  <1>6. c = raw
    BY <1>1, <1>2
  <1> QED BY <1>3, <1>5, <1>6

-----------------------------------------------------------------------------
(* Fields *)

Two(n) == 2^n

LEMMA Twos ==
    /\ Two(0) = 1 /\ Two(1) = 2 /\ Two(2) = 4 /\ Two(3) = 8 /\ Two(4) = 16
    /\ Two(5) = 32 /\ Two(6) = 64 /\ Two(7) = 128 /\ Two(8) = 256
  <1>1. Two(0) = 1 /\ Two(1) = 2 /\ Two(2) = 4
    BY DEF Two
  <1>2. Two(3) = 8 /\ Two(4) = 16 /\ Two(5) = 32
    BY DEF Two
  <1>3. Two(6) = 64 /\ Two(7) = 128 /\ Two(8) = 256
    BY DEF Two
  <1> QED BY <1>1, <1>2, <1>3

LEMMA TwoType ==
    ASSUME NEW a \in 0..8
    PROVE  Two(a) \in Nat /\ Two(a) >= 1 /\ Two(a) <= 256
  <1>1. a \in {0, 1, 2, 3, 4, 5, 6, 7, 8}
    OBVIOUS
  <1> QED BY <1>1, Twos

LEMMA TwoSum ==
    ASSUME NEW a \in 0..8, NEW b \in 0..8, a + b <= 8
    PROVE  Two(a + b) = Two(a) * Two(b)
  <1>1. a \in {0, 1, 2, 3, 4, 5, 6, 7, 8} /\ b \in {0, 1, 2, 3, 4, 5, 6, 7, 8}
    OBVIOUS
  <1> QED BY <1>1, Twos

LEMMA Shift ==
    ASSUME NEW a \in 0..8, NEW x \in Int, NEW u \in Int
    PROVE  /\ (x + u * Two(a)) \div Two(a) = x \div Two(a) + u
           /\ (x + u * Two(a)) % Two(a) = x % Two(a)
           /\ x \div Two(a) \in Int /\ x % Two(a) \in 0 .. Two(a) - 1
           /\ x = (x \div Two(a)) * Two(a) + (x % Two(a))
           /\ x \in 0 .. Two(a) - 1 => x \div Two(a) = 0 /\ x % Two(a) = x
  <1>1. a \in {0, 1, 2, 3, 4, 5, 6, 7, 8}
    OBVIOUS
  <1>2. Two(a) \in {1, 2, 4, 8, 16, 32, 64, 128, 256}
    BY <1>1, Twos
  <1> DEFINE A == Two(a)
  <1> HIDE DEF A
  <1>3. (x + u * A) \div A = x \div A + u /\ (x + u * A) % A = x % A
    BY <1>2 DEF A
  <1>4. x \div A \in Int /\ x % A \in 0 .. A - 1
    BY <1>2 DEF A
  <1>5. x = (x \div A) * A + (x % A)
    BY <1>2 DEF A
  <1>6. x \in 0 .. A - 1 => x \div A = 0 /\ x % A = x
    BY <1>2 DEF A
  <1> QED BY <1>3, <1>4, <1>5, <1>6 DEF A

LEMMA ShiftTwice ==
    ASSUME NEW a \in 0..8, NEW b \in 0..8, a + b <= 8, NEW x \in Int
    PROVE  (x \div Two(a)) \div Two(b) = x \div Two(a + b)
  <1> DEFINE A == Two(a)
             B == Two(b)
             q == x \div A
             r == x % A
             h == q \div B
             l == q % B
  <1>1. A \in Nat /\ B \in Nat /\ Two(a + b) = A * B
    <2>1. A \in Nat /\ B \in Nat
      BY TwoType
    <2>2. Two(a + b) = A * B
      BY TwoSum
    <2> QED BY <2>1, <2>2
  <1>2. q \in Int /\ r \in 0 .. A - 1 /\ x = q * A + r
    BY Shift
  <1>3. h \in Int /\ l \in 0 .. B - 1 /\ q = h * B + l
    BY <1>2, Shift
  <1> HIDE DEF A, B, q, r, h, l
  <1>4. x = (l * A + r) + h * (A * B)
    BY <1>1, <1>2, <1>3
  <1>5. l * A + r \in 0 .. A * B - 1
    <2>1. ((B - 1) - l) * A >= 0 /\ l * A >= 0
      BY <1>1, <1>3
    <2>2. ((B - 1) - l) * A = (A * B - A) - l * A
      BY <1>1, <1>3
    <2> QED BY <1>1, <1>2, <1>3, <2>1, <2>2
  <1>6. a + b \in 0..8
    OBVIOUS
  <1> DEFINE y == l * A + r
  <1>7. y \in Int /\ y \in 0 .. Two(a + b) - 1
    BY <1>1, <1>2, <1>3, <1>5
  <1>8. (y + h * Two(a + b)) \div Two(a + b) = (y \div Two(a + b)) + h
    BY ZenonT(30), <1>3, <1>6, <1>7, Shift
  <1>9. y \div Two(a + b) = 0
    BY <1>6, <1>7, Shift
  <1>10. x = y + h * Two(a + b)
    BY <1>1, <1>4
  <1> HIDE DEF y
  <1>11. x \div Two(a + b) = h
    BY <1>3, <1>8, <1>9, <1>10
  <1> QED BY <1>11 DEF h, q, A, B


\* A byte with other bits from bit on, width of them.
Put(byte, bit, width, v) ==
    byte + ((v % (Two(width))) - ((byte \div (Two(bit))) % (Two(width)))) * (Two(bit))

LEMMA PutType ==
    ASSUME NEW byte \in 0..255, NEW bit \in 0..7, NEW width \in 0..8, bit + width <= 8,
           NEW v \in Int
    PROVE  /\ Put(byte, bit, width, v) \in Int
           /\ (Put(byte, bit, width, v) \div Two(bit)) % Two(width) = v % Two(width)
           /\ \A n \in 0..8 : bit + width <= n =>
                 Put(byte, bit, width, v) \div Two(n) = byte \div Two(n)
  <1> DEFINE P == Two(bit)
             W == Two(width)
             q == byte \div P
             new == (v % W) - (q % W)
             put == Put(byte, bit, width, v)
  <1>0. byte \in Int /\ bit \in 0..8
    OBVIOUS
  <1>1. P \in Nat /\ W \in Nat \ {0}
    BY TwoType
  <1>2. q \in Int /\ v % W \in 0 .. W - 1 /\ q % W \in 0 .. W - 1 /\ new \in Int
    <2>1. q \in Int
      BY <1>0, Shift
    <2>2. v % W \in 0 .. W - 1
      BY Shift
    <2>3. q % W \in 0 .. W - 1
      BY <2>1, Shift
    <2> QED BY <1>1, <2>1, <2>2, <2>3
  <1>3. put = byte + new * P
    BY DEF Put
  <1>4. byte + new * P \in Int
    BY <1>1, <1>2
  <1>5. put \div P = q + new
    <2> HIDE DEF new
    <2>1. (byte + new * Two(bit)) \div Two(bit) = (byte \div Two(bit)) + new
      BY ZenonT(30), <1>0, <1>2, Shift
    <2> QED BY <1>3, <2>1
  <1>6. q = (q \div W) * W + (q % W) /\ q \div W \in Int
    BY <1>2, Shift
  <1>7. q + new = (v % W) + (q \div W) * W
    BY <1>1, <1>2, <1>6
  <1>8. /\ (q + new) % W = v % W
        /\ (q + new) \div W = q \div W
    <2> DEFINE y == v % W
               h == q \div W
    <2>1. y \in Int /\ y \in 0 .. Two(width) - 1 /\ h \in Int
      BY <1>1, <1>2, <1>6
    <2>2. q + new = y + h * Two(width)
      BY <1>7
    <2> HIDE DEF y, h
    <2>3. /\ (y + h * Two(width)) % Two(width) = y % Two(width)
          /\ (y + h * Two(width)) \div Two(width) = (y \div Two(width)) + h
          /\ y \div Two(width) = 0 /\ y % Two(width) = y
      BY ZenonT(30), <2>1, Shift
    <2> QED BY <2>1, <2>2, <2>3 DEF y, h
  <1>9. ASSUME NEW n \in 0..8, bit + width <= n
        PROVE  put \div Two(n) = byte \div Two(n)
    <2> DEFINE k == n - (bit + width)
    <2>1. k \in 0..8 /\ bit + width \in 0..8 /\ (bit + width) + k = n
      BY <1>9
    <2>2. ASSUME NEW x \in Int
          PROVE  x \div Two(n) = ((x \div Two(bit)) \div Two(width)) \div Two(k)
      <3> HIDE DEF k
      <3>1. (x \div Two(bit)) \div Two(width) = x \div Two(bit + width)
        BY ShiftTwice
      <3>2. (x \div Two(bit + width)) \div Two(k) = x \div Two((bit + width) + k)
        BY <2>1, ShiftTwice
      <3> QED BY <2>1, <3>1, <3>2
    <2> QED BY <1>3, <1>4, <1>5, <1>8, <2>2
  <1> QED BY <1>3, <1>4, <1>5, <1>8, <1>9


LEMMA PutOther ==
    ASSUME NEW byte \in 0..255, NEW bit \in 0..7, NEW width \in 0..8, bit + width <= 8,
           NEW v \in Int,
           NEW b \in 0..7, NEW w \in 0..8, b + w <= 8,
           bit + width <= b \/ b + w <= bit
    PROVE  (Put(byte, bit, width, v) \div Two(b)) % Two(w) = (byte \div Two(b)) % Two(w)
  <1> DEFINE put == Put(byte, bit, width, v)
  <1>1. CASE bit + width <= b
    <2>1. b \in 0..8
      OBVIOUS
    <2>2. put \div Two(b) = byte \div Two(b)
      BY ZenonT(30), <1>1, <2>1, PutType
    <2> QED BY <2>2
  <1>2. CASE b + w <= bit
    <2> DEFINE new == (v % Two(width)) - ((byte \div Two(bit)) % Two(width))
               k == bit - (b + w)
               x == byte \div Two(b)
    <2>1. byte \in Int /\ bit \in 0..8 /\ k \in 0..8 /\ b + w \in 0..8 /\ (b + w) + k = bit
      BY <1>2
    <2>2. new \in Int
      <3>1. byte \div Two(bit) \in Int
        BY <2>1, Shift
      <3>2. v % Two(width) \in 0 .. Two(width) - 1
        BY Shift
      <3>3. (byte \div Two(bit)) % Two(width) \in 0 .. Two(width) - 1
        BY <3>1, Shift
      <3>4. Two(width) \in Nat
        BY TwoType
      <3> QED BY <3>2, <3>3, <3>4
    <2>3. put = byte + new * Two(bit)
      BY DEF Put
    <2> HIDE DEF new, k
    <2>4. Two(bit) = (Two(b) * Two(w)) * Two(k)
      <3>1. Two((b + w) + k) = Two(b + w) * Two(k)
        BY <2>1, TwoSum
      <3>2. Two(b + w) = Two(b) * Two(w)
        BY TwoSum
      <3> QED BY <2>1, <3>1, <3>2
    <2>5. Two(b) \in Nat /\ Two(w) \in Nat /\ Two(k) \in Nat
      BY <2>1, TwoType
    <2>6. put = byte + ((new * Two(k)) * Two(w)) * Two(b)
      BY <2>1, <2>2, <2>3, <2>4, <2>5
    <2>7. (new * Two(k)) * Two(w) \in Int /\ new * Two(k) \in Int
      BY <2>2, <2>5
    <2> DEFINE u == (new * Two(k)) * Two(w)
    <2> HIDE DEF u
    <2>8. put \div Two(b) = x + u /\ x \in Int
      <3>1. put = byte + u * Two(b) /\ u \in Int
        BY <2>6, <2>7 DEF u
      <3>2. b \in 0..8
        OBVIOUS
      <3>3. (byte + u * Two(b)) \div Two(b) = (byte \div Two(b)) + u
        BY ZenonT(30), <2>1, <3>1, <3>2, Shift
      <3>4. byte \div Two(b) \in Int
        BY <2>1, <3>2, Shift
      <3> QED BY <3>1, <3>3, <3>4
    <2> HIDE DEF x
    <2>9. (x + (new * Two(k)) * Two(w)) % Two(w) = x % Two(w)
      BY <2>7, <2>8, Shift
    <2> QED BY <2>8, <2>9 DEF x, u
  <1> QED BY <1>1, <1>2

LEMMA PutRange ==
    ASSUME NEW byte \in 0..255, NEW bit \in 0..7, NEW width \in 0..8, bit + width <= 8,
           NEW v \in Int
    PROVE  Put(byte, bit, width, v) \in 0..255
  <1> DEFINE put == Put(byte, bit, width, v)
  <1>1. put \div Two(8) = byte \div Two(8) /\ put \in Int
    <2>1. put \in Int /\ \A n \in 0..8 : bit + width <= n =>
                              put \div Two(n) = byte \div Two(n)
      BY PutType
    <2> HIDE DEF put
    <2>2. 8 \in 0..8
      OBVIOUS
    <2> QED BY <2>1, <2>2
  <1>2. Two(8) = 256
    BY DEF Two
  <1> HIDE DEF put
  <1>3. put \in 0..255
    BY <1>1, <1>2
  <1> QED BY <1>3 DEF put

Payload == [1..8 -> 0..255]

\* The function that Bytes computes.
IsNumber(bytes, from, to, number) ==
    number = [k \in from .. to + 1 |-> IF k > to THEN 0 ELSE bytes[k + 1] + 256 * number[k + 1]]

LEMMA NumberStep ==
    ASSUME NEW bytes \in Payload, NEW from \in 0..7, NEW to \in 0..7, from <= to,
           NEW g, IsNumber(bytes, from + 1, to, g)
    PROVE  \E h : IsNumber(bytes, from, to, h)
  <1> DEFINE h == [k \in from .. to + 1 |-> IF k = from THEN bytes[from + 1] + 256 * g[from + 1]
                                            ELSE g[k]]
  <1>1. g = [k \in from + 1 .. to + 1 |-> IF k > to THEN 0 ELSE bytes[k + 1] + 256 * g[k + 1]]
    BY DEF IsNumber
  <1>2. ASSUME NEW k \in from .. to + 1
        PROVE  h[k] = IF k > to THEN 0 ELSE bytes[k + 1] + 256 * h[k + 1]
    <2>1. CASE k = from
      BY <2>1
    <2>2. CASE k # from
      <3>1. k \in from + 1 .. to + 1 /\ h[k] = g[k]
        BY <2>2
      <3>2. k <= to => k + 1 \in from + 1 .. to + 1 /\ h[k + 1] = g[k + 1]
        BY <3>1
      <3> HIDE DEF h
      <3>3. g[k] = IF k > to THEN 0 ELSE bytes[k + 1] + 256 * g[k + 1]
        BY <1>1, <3>1
      <3> QED BY <3>1, <3>2, <3>3
    <2> QED BY <2>1, <2>2
  <1>3. h = [k \in from .. to + 1 |-> IF k > to THEN 0 ELSE bytes[k + 1] + 256 * h[k + 1]]
    BY <1>2
  <1> HIDE DEF h
  <1> QED BY <1>3 DEF IsNumber

LEMMA NumberExists ==
    ASSUME NEW bytes \in Payload, NEW from \in 0..7, NEW to \in 0..7, from <= to, to <= from + 3
    PROVE  \E g : IsNumber(bytes, from, to, g)
  <1>1. \E g : IsNumber(bytes, to + 1, to, g)
    <2> DEFINE g == [k \in to + 1 .. to + 1 |-> 0]
    <2>1. g = [k \in to + 1 .. to + 1 |-> IF k > to THEN 0 ELSE bytes[k + 1] + 256 * g[k + 1]]
      OBVIOUS
    <2> QED BY <2>1 DEF IsNumber
  <1>2. \A n \in 0..7 : n <= to /\ (\E g : IsNumber(bytes, n + 1, to, g)) => \E g : IsNumber(bytes, n, to, g)
    BY NumberStep
  <1>3. \E g : IsNumber(bytes, to, to, g)
    BY <1>1, <1>2
  <1>4. CASE from = to
    BY <1>3, <1>4
  <1>5. CASE from + 1 = to
    BY <1>2, <1>3, <1>5
  <1>6. CASE from + 2 = to
    <2>1. \E g : IsNumber(bytes, from + 1, to, g)
      <3>1. from + 1 \in 0..7 /\ (from + 1) + 1 = to
        BY <1>6
      <3> QED BY <1>2, <1>3, <3>1
    <2> QED BY <1>2, <1>6, <2>1
  <1>7. CASE from + 3 = to
    <2>1. \E g : IsNumber(bytes, from + 2, to, g)
      <3>1. from + 2 \in 0..7 /\ (from + 2) + 1 = to
        BY <1>7
      <3> QED BY <1>2, <1>3, <3>1
    <2>2. \E g : IsNumber(bytes, from + 1, to, g)
      <3>1. from + 1 \in 0..7 /\ (from + 1) + 1 = from + 2 /\ from + 1 <= to
        BY <1>7
      <3> QED BY <1>2, <2>1, <3>1
    <2> QED BY <1>2, <1>7, <2>2
  <1> QED BY <1>4, <1>5, <1>6, <1>7

LEMMA BytesSum ==
    ASSUME NEW bytes \in Payload, NEW d \in Field
    PROVE  /\ d.to = d.from => Bytes(bytes, d) = bytes[d.from + 1]
           /\ d.to = d.from + 1 => Bytes(bytes, d) = bytes[d.from + 1] + 256 * bytes[d.from + 2]
           /\ d.to = d.from + 2 =>
                 Bytes(bytes, d) = bytes[d.from + 1] + 256 * bytes[d.from + 2]
                                      + 65536 * bytes[d.from + 3]
           /\ d.to = d.from + 3 =>
                 Bytes(bytes, d) = bytes[d.from + 1] + 256 * bytes[d.from + 2]
                                      + 65536 * bytes[d.from + 3] + 16777216 * bytes[d.from + 4]
  <1> DEFINE g == CHOOSE h : IsNumber(bytes, d.from, d.to, h)
             from == d.from
             to == d.to
  <1>1. from \in 0..7 /\ to \in 0..7 /\ from <= to /\ to <= from + 3
    BY DEF Field
  <1>2. IsNumber(bytes, from, to, g)
    BY <1>1, NumberExists
  <1>3. Bytes(bytes, d) = g[from]
    BY DEF Bytes, IsNumber
  <1> HIDE DEF g, from, to
  <1>4. ASSUME NEW k \in from .. to + 1
        PROVE  g[k] = IF k > to THEN 0 ELSE bytes[k + 1] + 256 * g[k + 1]
    BY <1>2 DEF IsNumber
  <1>5. g[to + 1] = 0
    BY <1>1, <1>4
  <1>6. \A k \in 1..8 : bytes[k] \in Int
    BY DEF Payload
  <1>7. g[to] = bytes[to + 1]
    BY <1>1, <1>4, <1>5, <1>6
  <1>8. CASE to = from
    BY <1>1, <1>3, <1>7, <1>8 DEF from, to
  <1>9. CASE to = from + 1
    <2>1. g[from] = bytes[from + 1] + 256 * g[from + 1]
      BY <1>1, <1>4, <1>9
    <2> QED BY <1>1, <1>3, <1>7, <1>9, <2>1 DEF from, to
  <1>10. CASE to = from + 2
    <2>1. g[from] = bytes[from + 1] + 256 * g[from + 1]
      BY <1>1, <1>4, <1>10
    <2>2. g[from + 1] = bytes[from + 2] + 256 * g[from + 2]
      BY <1>1, <1>4, <1>10
    <2> QED BY <1>1, <1>3, <1>6, <1>7, <1>10, <2>1, <2>2 DEF from, to
  <1>11. CASE to = from + 3
    <2>1. g[from] = bytes[from + 1] + 256 * g[from + 1]
      BY <1>1, <1>4, <1>11
    <2>2. g[from + 1] = bytes[from + 2] + 256 * g[from + 2]
      BY <1>1, <1>4, <1>11
    <2>3. g[from + 2] = bytes[from + 3] + 256 * g[from + 3]
      BY <1>1, <1>4, <1>11
    <2> QED BY <1>1, <1>3, <1>6, <1>7, <1>11, <2>1, <2>2, <2>3 DEF from, to
  <1> QED BY <1>1, <1>8, <1>9, <1>10, <1>11 DEF from, to

LEMMA AsSequence ==
    ASSUME NEW S, NEW f \in [1..8 -> S]
    PROVE  f \in Seq(S) /\ Len(f) = 8
  <1>1. f \in Seq(S)
    BY SeqDef
  <1>2. DOMAIN f = 1..8
    OBVIOUS
  <1>3. Len(f) = 8
    BY <1>1, <1>2, LenProperties
  <1> QED BY <1>1, <1>3

Big(n) == 256^n

LEMMA Bigs == Big(0) = 1 /\ Big(1) = 256 /\ Big(2) = 65536 /\ Big(3) = 16777216 /\ Big(4) = 4294967296
  <1>1. Big(0) = 1
    BY DEF Big
  <1>2. Big(1) = 256
    BY DEF Big
  <1>3. Big(2) = 65536
    BY DEF Big
  <1>4. Big(3) = 16777216
    BY DEF Big
  <1>5. Big(4) = 4294967296
    BY DEF Big
  <1> QED BY <1>1, <1>2, <1>3, <1>4, <1>5

LEMMA Digits ==
    ASSUME NEW n \in Nat
    PROVE  /\ n = (n % 256) + 256 * (n \div 256)
           /\ n \div 256 \in Nat /\ n % 256 \in Nat
           /\ (n \div 256) \div 256 = n \div 65536
           /\ (n \div 65536) \div 256 = n \div 16777216
           /\ n < 65536 => n \div 256 < 256
           /\ n < 16777216 => n \div 65536 < 256
           /\ n < 4294967296 => n \div 16777216 < 256
  <1>1. /\ n = (n % 256) + 256 * (n \div 256)
        /\ n \div 256 \in Nat /\ n % 256 \in Nat
    OBVIOUS
  <1>2. (n \div 256) \div 256 = n \div 65536
    OBVIOUS
  <1>3. (n \div 65536) \div 256 = n \div 16777216
    OBVIOUS
  <1>4. n < 65536 => n \div 256 < 256
    OBVIOUS
  <1>5. n < 16777216 => n \div 65536 < 256
    OBVIOUS
  <1>6. n < 4294967296 => n \div 16777216 < 256
    OBVIOUS
  <1> QED BY <1>1, <1>2, <1>3, <1>4, <1>5, <1>6

LEMMA LastDigit == ASSUME NEW n \in Nat, n < 256 PROVE n % 256 = n
  OBVIOUS

\* The low bytes of a number, least first, make it up.
LEMMA SumOfDigits ==
    ASSUME NEW n \in Nat
    PROVE  /\ n < 65536 => n = (n % 256) + 256 * ((n \div 256) % 256)
           /\ n < 16777216 => n = (n % 256) + 256 * ((n \div 256) % 256)
                                     + 65536 * ((n \div 65536) % 256)
           /\ n < 4294967296 => n = (n % 256) + 256 * ((n \div 256) % 256)
                                       + 65536 * ((n \div 65536) % 256)
                                       + 16777216 * ((n \div 16777216) % 256)
  <1> DEFINE a == n \div 256
             b == n \div 65536
             c == n \div 16777216
             x == n % 256
             y == a % 256
             z == b % 256
  <1>1. /\ n = x + 256 * a /\ a \in Nat /\ x \in Nat /\ a \div 256 = b /\ b \div 256 = c
        /\ n < 65536 => a < 256
        /\ n < 16777216 => b < 256
        /\ n < 4294967296 => c < 256
    BY Digits
  <1>2. a = y + 256 * b /\ b \in Nat /\ y \in Nat
    <2> HIDE DEF a, b
    <2>1. a = (a % 256) + 256 * (a \div 256) /\ a \div 256 \in Nat /\ a % 256 \in Nat
      BY <1>1, Digits
    <2> QED BY <1>1, <2>1
  <1>3. b = z + 256 * c /\ c \in Nat /\ z \in Nat
    <2> HIDE DEF b, c
    <2>1. b = (b % 256) + 256 * (b \div 256) /\ b \div 256 \in Nat /\ b % 256 \in Nat
      BY <1>2, Digits
    <2> QED BY <1>1, <2>1
  <1> HIDE DEF a, b, c, x
  <1>4. n < 65536 => n = x + 256 * (a % 256)
    BY <1>1, LastDigit
  <1>5. n < 16777216 => n = x + 256 * (a % 256) + 65536 * (b % 256)
    <2>1. n < 16777216 => b % 256 = b
      BY <1>1, <1>2, LastDigit
    <2> HIDE DEF y
    <2>2. n = x + 256 * y + 65536 * b
      BY <1>1, <1>2, <1>3
    <2> QED BY <2>1, <2>2 DEF y
  <1>6. n < 4294967296 => n = x + 256 * (a % 256) + 65536 * (b % 256) + 16777216 * (c % 256)
    <2>1. n < 4294967296 => c % 256 = c
      BY <1>1, <1>3, LastDigit
    <2> HIDE DEF y, z
    <2>2. n = x + 256 * y + 65536 * z + 16777216 * c
      BY <1>1, <1>2, <1>3
    <2> QED BY <2>1, <2>2 DEF y, z
  <1> QED BY <1>4, <1>5, <1>6 DEF a, b, c, x

\* A whole field takes the value, over its own bytes.
LEMMA PutWhole ==
    ASSUME NEW bytes \in Payload, NEW d \in Field, d.width = 0,
           NEW raw \in Nat, raw < Big(Span(d))
    PROVE  /\ PutField(bytes, d, raw) \in Payload
           /\ \A i \in 1..8 : i - 1 \notin d.from..d.to => PutField(bytes, d, raw)[i] = bytes[i]
           /\ Bytes(PutField(bytes, d, raw), d) = raw
  <1> DEFINE p == PutField(bytes, d, raw)
  <1>1. d.from \in 0..7 /\ d.to \in 0..7 /\ d.from <= d.to /\ d.to <= d.from + 3
    BY DEF Field
  <1>2. Len(bytes) = 8 /\ DOMAIN bytes = 1..8
    BY AsSequence DEF Payload
  <1>3. p = [i \in 1..8 |-> IF i - 1 \in d.from..d.to THEN (raw \div Big((i - 1) - d.from)) % 256
                            ELSE bytes[i]]
    BY <1>2 DEF PutField, Big
  <1>4. ASSUME NEW n \in 0..3
        PROVE  (raw \div Big(n)) % 256 \in 0..255
    <2>1. n \in {0, 1, 2, 3}
      OBVIOUS
    <2> QED BY <2>1, Bigs
  <1>5. p \in Payload
    <2>1. ASSUME NEW i \in 1..8
          PROVE  p[i] \in 0..255
      <3>1. CASE i - 1 \in d.from..d.to
        <4>1. (i - 1) - d.from \in 0..3
          BY <1>1, <3>1
        <4> QED BY SMTT(30), <1>3, <1>4, <3>1, <4>1
      <3>2. CASE i - 1 \notin d.from..d.to
        <4>1. p[i] = bytes[i]
          BY <1>3, <3>2
        <4>2. bytes[i] \in 0..255
          BY DEF Payload
        <4> QED BY <4>1, <4>2
      <3> QED BY <3>1, <3>2
    <2> QED BY <1>3, <2>1 DEF Payload
  <1>6. \A i \in 1..8 : i - 1 \notin d.from..d.to => p[i] = bytes[i]
    BY <1>3
  <1>7. ASSUME NEW n \in 0..3, d.from + n <= d.to
        PROVE  p[(d.from + n) + 1] = (raw \div Big(n)) % 256
    <2>1. (d.from + n) + 1 \in 1..8 /\ ((d.from + n) + 1) - 1 \in d.from..d.to
      BY <1>1, <1>7
    <2>2. (((d.from + n) + 1) - 1) - d.from = n
      BY <1>1
    <2> HIDE DEF p
    <2> QED BY <1>3, <2>1, <2>2
  <1> HIDE DEF p
  <1>8. p[d.from + 1] = raw % 256
    BY <1>1, <1>7, Bigs
  <1>9. d.from + 1 <= d.to => p[d.from + 2] = (raw \div 256) % 256
    BY <1>1, <1>7, Bigs
  <1>10. d.from + 2 <= d.to => p[d.from + 3] = (raw \div 65536) % 256
    BY <1>1, <1>7, Bigs
  <1>11. d.from + 3 <= d.to => p[d.from + 4] = (raw \div 16777216) % 256
    BY <1>1, <1>7, Bigs
  <1>12. CASE d.to = d.from
    <2>1. Bytes(p, d) = p[d.from + 1] /\ Span(d) = 1
      BY <1>1, <1>5, <1>12, BytesSum DEF Span
    <2> QED BY <1>5, <1>6, <1>8, <2>1, Bigs DEF p
  <1>13. CASE d.to = d.from + 1
    <2>1. Bytes(p, d) = p[d.from + 1] + 256 * p[d.from + 2] /\ Span(d) = 2
      BY <1>1, <1>5, <1>13, BytesSum DEF Span
    <2>2. raw < 65536
      BY <2>1, Bigs
    <2>3. Bytes(p, d) = raw
      <3>1. raw = (raw % 256) + 256 * ((raw \div 256) % 256)
        BY <2>2, SumOfDigits
      <3>2. p[d.from + 1] = raw % 256 /\ p[d.from + 2] = (raw \div 256) % 256
        BY <1>1, <1>8, <1>9, <1>13
      <3> QED BY <2>1, <3>1, <3>2
    <2> QED BY <1>5, <1>6, <2>3 DEF p
  <1>14. CASE d.to = d.from + 2
    <2>1. /\ Bytes(p, d) = p[d.from + 1] + 256 * p[d.from + 2] + 65536 * p[d.from + 3]
          /\ Span(d) = 3
      BY <1>1, <1>5, <1>14, BytesSum DEF Span
    <2>2. raw < 16777216
      BY <2>1, Bigs
    <2>3. Bytes(p, d) = raw
      BY <1>1, <1>8, <1>9, <1>10, <1>14, <2>1, <2>2, SumOfDigits
    <2> QED BY <1>5, <1>6, <2>3 DEF p
  <1>15. CASE d.to = d.from + 3
    <2>1. /\ Bytes(p, d) = p[d.from + 1] + 256 * p[d.from + 2] + 65536 * p[d.from + 3]
                              + 16777216 * p[d.from + 4]
          /\ Span(d) = 4
      BY <1>1, <1>5, <1>15, BytesSum DEF Span
    <2>2. raw < 4294967296
      BY <2>1, Bigs
    <2>3. Bytes(p, d) = raw
      BY <1>1, <1>8, <1>9, <1>10, <1>11, <1>15, <2>1, <2>2, SumOfDigits
    <2> QED BY <1>5, <1>6, <2>3 DEF p
  <1> QED BY <1>1, <1>12, <1>13, <1>14, <1>15

\* Bits change in their byte, as Put says.
LEMMA PutBits ==
    ASSUME NEW bytes \in Payload, NEW d \in Field, d.width > 0, NEW raw \in Int
    PROVE  /\ PutField(bytes, d, raw) \in Payload
           /\ \A i \in 1..8 : i - 1 \notin d.from..d.to => PutField(bytes, d, raw)[i] = bytes[i]
           /\ PutField(bytes, d, raw)[d.from + 1] = Put(bytes[d.from + 1], d.bit, d.width, raw)
  <1> DEFINE p == PutField(bytes, d, raw)
             byte == bytes[d.from + 1]
             put == Put(byte, d.bit, d.width, raw)
  <1>1. /\ d.from \in 0..7 /\ d.to = d.from
        /\ d.bit \in 0..7 /\ d.width \in 0..8 /\ d.bit + d.width <= 8
    BY DEF Field
  <1>2. Len(bytes) = 8 /\ DOMAIN bytes = 1..8
    BY AsSequence DEF Payload
  <1>3. byte \in 0..255 /\ Bytes(bytes, d) = byte
    BY SMTT(30), <1>1, BytesSum DEF Payload
  <1>4. put = byte + ((raw % (2^d.width)) - Bits(byte, d)) * (2^d.bit)
    BY DEF Put, Two, Bits
  <1>5. put \in 0..255
    BY ZenonT(30), <1>1, <1>3, PutRange
  <1>6. p = [i \in 1..8 |-> IF i - 1 \in d.from..d.to THEN (put \div Big((i - 1) - d.from)) % 256
                            ELSE bytes[i]]
    <2> HIDE DEF put, byte
    <2> QED BY <1>2, <1>3, <1>4 DEF PutField, Big
  <1> HIDE DEF put, p, byte
  <1>7. ASSUME NEW i \in 1..8
        PROVE  p[i] = IF i = d.from + 1 THEN put ELSE bytes[i]
    <2>1. i - 1 \in d.from..d.to <=> i = d.from + 1
      BY <1>1
    <2>2. i = d.from + 1 => (i - 1) - d.from = 0
      BY <1>1
    <2>3. (put \div 1) % 256 = put
      BY <1>5
    <2> QED BY <1>6, <2>1, <2>2, <2>3, Bigs
  <1>8. p \in Payload
    <2>1. \A i \in 1..8 : bytes[i] \in 0..255
      BY DEF Payload
    <2>2. \A i \in 1..8 : p[i] \in 0..255
      BY <1>5, <1>7, <2>1
    <2> QED BY <1>6, <2>2 DEF Payload
  <1>9. \A i \in 1..8 : i - 1 \notin d.from..d.to => p[i] = bytes[i]
    BY <1>1, <1>7
  <1>10. p[d.from + 1] = put
    BY <1>1, <1>7
  <1> QED BY <1>8, <1>9, <1>10 DEF p, put, byte

LEMMA SameBytes ==
    ASSUME NEW x \in Payload, NEW y \in Payload, NEW d \in Field,
           \A i \in 1..8 : i - 1 \in d.from..d.to => x[i] = y[i]
    PROVE  Bytes(x, d) = Bytes(y, d)
  <1>1. d.from \in 0..7 /\ d.to \in 0..7 /\ d.from <= d.to /\ d.to <= d.from + 3
    BY DEF Field
  <1>2. \A n \in 0..3 : d.from + n <= d.to => x[(d.from + n) + 1] = y[(d.from + n) + 1]
    <2> TAKE n \in 0..3
    <2>1. d.from + n <= d.to => (d.from + n) + 1 \in 1..8 /\ ((d.from + n) + 1) - 1 \in d.from..d.to
      BY <1>1
    <2> QED BY <2>1
  <1>3. x[d.from + 1] = y[d.from + 1]
    BY <1>1, <1>2
  <1>4. d.from + 1 <= d.to => x[d.from + 2] = y[d.from + 2]
    BY <1>1, <1>2
  <1>5. d.from + 2 <= d.to => x[d.from + 3] = y[d.from + 3]
    BY <1>1, <1>2
  <1>6. d.from + 3 <= d.to => x[d.from + 4] = y[d.from + 4]
    BY <1>1, <1>2
  <1>7. CASE d.to = d.from
    BY <1>3, <1>7, BytesSum
  <1>8. CASE d.to = d.from + 1
    BY <1>1, <1>3, <1>4, <1>8, BytesSum
  <1>9. CASE d.to = d.from + 2
    BY <1>1, <1>3, <1>4, <1>5, <1>9, BytesSum
  <1>10. CASE d.to = d.from + 3
    BY <1>1, <1>3, <1>4, <1>5, <1>6, <1>10, BytesSum
  <1> QED BY <1>1, <1>7, <1>8, <1>9, <1>10

\* The value of a whole field that fits, or of the bits of one.
Kept(d, raw) == IF d.width = 0 THEN raw ELSE raw % Two(d.width)

Puts(bytes, d, raw) ==
    /\ PutField(bytes, d, raw) \in Payload
    /\ ExtractRaw(PutField(bytes, d, raw), d) = Kept(d, raw)
    /\ \A e \in Field :
          Apart(d, e) => ExtractRaw(PutField(bytes, d, raw), e) = ExtractRaw(bytes, e)

LEMMA PutCorrect ==
    ASSUME NEW bytes \in Payload, NEW d \in Field, NEW raw \in Int, Fits(d, raw)
    PROVE  Puts(bytes, d, raw)
  <1> DEFINE p == PutField(bytes, d, raw)
  <1>1. /\ p \in Payload
        /\ \A i \in 1..8 : i - 1 \notin d.from..d.to => p[i] = bytes[i]
        /\ ExtractRaw(p, d) = Kept(d, raw)
    <2>1. CASE d.width = 0
      <3>1. raw \in Nat /\ raw < Big(Span(d))
        <4>1. Span(d) \in {1, 2, 3, 4}
          BY DEF Field, Span
        <4>2. Big(Span(d)) \in Int
          BY <4>1, Bigs
        <4>3. raw \in 0 .. Big(Span(d)) - 1
          BY <2>1 DEF Fits, Big
        <4> QED BY <4>2, <4>3
      <3> QED BY <2>1, <3>1, PutWhole DEF ExtractRaw, Kept
    <2>2. CASE d.width > 0
      <3>1. /\ d.from \in 0..7 /\ d.to = d.from
            /\ d.bit \in 0..7 /\ d.width \in 0..8 /\ d.bit + d.width <= 8 /\ d.width # 0
        BY <2>2 DEF Field
      <3>2. /\ p \in Payload
            /\ \A i \in 1..8 : i - 1 \notin d.from..d.to => p[i] = bytes[i]
            /\ p[d.from + 1] = Put(bytes[d.from + 1], d.bit, d.width, raw)
        BY <2>2, PutBits
      <3>3. bytes[d.from + 1] \in 0..255
        BY <3>1 DEF Payload
      <3>4. Bytes(p, d) = Put(bytes[d.from + 1], d.bit, d.width, raw)
        BY <3>1, <3>2, BytesSum
      <3>5. (Put(bytes[d.from + 1], d.bit, d.width, raw) \div Two(d.bit)) % Two(d.width)
               = raw % Two(d.width)
        BY ZenonT(30), <3>1, <3>3, PutType
      <3>6. ExtractRaw(p, d) = Kept(d, raw)
        BY <3>1, <3>4, <3>5 DEF ExtractRaw, Bits, Kept, Two
      <3> QED BY <3>2, <3>6
    <2> QED BY <2>1, <2>2 DEF Field
  <1>2. ASSUME NEW e \in Field, Apart(d, e)
        PROVE  ExtractRaw(p, e) = ExtractRaw(bytes, e)
    <2>1. /\ d.from \in 0..7 /\ d.to \in 0..7 /\ e.from \in 0..7 /\ e.to \in 0..7
          /\ d.from <= d.to /\ e.from <= e.to
      BY DEF Field
    <2>2. CASE d.to < e.from \/ e.to < d.from
      <3>1. \A i \in 1..8 : i - 1 \in e.from..e.to => i - 1 \notin d.from..d.to
        BY <2>1, <2>2
      <3>2. Bytes(p, e) = Bytes(bytes, e)
        BY <1>1, <3>1, SameBytes
      <3> QED BY <3>2 DEF ExtractRaw
    <2>3. CASE ~(d.to < e.from \/ e.to < d.from)
      <3>1. /\ d.width > 0 /\ e.width > 0
            /\ d.bit + d.width <= e.bit \/ e.bit + e.width <= d.bit
        BY <1>2, <2>3 DEF Apart
      <3>2. /\ d.bit \in 0..7 /\ d.width \in 0..8 /\ d.bit + d.width <= 8 /\ d.to = d.from
            /\ e.bit \in 0..7 /\ e.width \in 0..8 /\ e.bit + e.width <= 8 /\ e.to = e.from
        BY <3>1 DEF Field
      <3>3. e.from = d.from
        BY <2>1, <2>3, <3>2
      <3>4. bytes[d.from + 1] \in 0..255
        BY <2>1 DEF Payload
      <3>5. /\ Bytes(p, e) = p[d.from + 1] /\ Bytes(bytes, e) = bytes[d.from + 1]
        BY <1>1, <3>2, <3>3, BytesSum
      <3>6. p[d.from + 1] = Put(bytes[d.from + 1], d.bit, d.width, raw)
        BY <3>1, PutBits
      <3>7. (Put(bytes[d.from + 1], d.bit, d.width, raw) \div Two(e.bit)) % Two(e.width)
               = (bytes[d.from + 1] \div Two(e.bit)) % Two(e.width)
        <4> DEFINE byte == bytes[d.from + 1]
                   bit == d.bit
                   width == d.width
                   b == e.bit
                   w == e.width
        <4>1. /\ byte \in 0..255 /\ bit \in 0..7 /\ width \in 0..8 /\ bit + width <= 8
              /\ b \in 0..7 /\ w \in 0..8 /\ b + w <= 8 /\ (bit + width <= b \/ b + w <= bit)
          BY <3>1, <3>2, <3>4
        <4> HIDE DEF byte, bit, width, b, w
        <4>2. (Put(byte, bit, width, raw) \div Two(b)) % Two(w) = (byte \div Two(b)) % Two(w)
          BY ZenonT(30), <4>1, PutOther
        <4> QED BY <4>2 DEF byte, bit, width, b, w
      <3>8. Bits(Bytes(p, e), e) = Bits(Bytes(bytes, e), e)
        <4>1. Bits(p[d.from + 1], e) = Bits(bytes[d.from + 1], e)
          BY <3>6, <3>7 DEF Bits, Two
        <4> QED BY <3>5, <4>1
      <3> QED BY <3>1, <3>8 DEF ExtractRaw
    <2> QED BY <2>2, <2>3
  <1> QED BY <1>1, <1>2 DEF Puts

\* "Not available" in every field of a blank payload.
Ones(d) == (IF d.width = 0 THEN 256^Span(d) ELSE 2^d.width) - 1

LEMMA BlankOnes ==
    /\ Blank \in Payload
    /\ \A d \in Field : ExtractRaw(Blank, d) = Ones(d)
  <1>1. Blank \in Payload /\ \A i \in 1..8 : Blank[i] = 255
    BY DEF Payload, Blank
  <1>2. ASSUME NEW d \in Field
        PROVE  ExtractRaw(Blank, d) = Ones(d)
    <2>1. d.from \in 0..7 /\ d.to \in 0..7 /\ d.from <= d.to /\ d.to <= d.from + 3
      BY DEF Field
    <2>2. \A n \in 0..3 : d.from + n <= d.to => Blank[(d.from + n) + 1] = 255
      BY <1>1, <2>1
    <2>3. Blank[d.from + 1] = 255
      BY <2>1, <2>2
    <2>4. d.from + 1 <= d.to => Blank[d.from + 2] = 255
      BY <2>1, <2>2
    <2>5. d.from + 2 <= d.to => Blank[d.from + 3] = 255
      BY <2>1, <2>2
    <2>6. d.from + 3 <= d.to => Blank[d.from + 4] = 255
      BY <2>1, <2>2
    <2>7. CASE d.width = 0
      <3>1. Ones(d) = Big(Span(d)) - 1 /\ ExtractRaw(Blank, d) = Bytes(Blank, d)
        BY <2>7 DEF Ones, Big, ExtractRaw
      <3>2. CASE d.to = d.from
        <4>1. Bytes(Blank, d) = 255 /\ Span(d) = 1
          BY <1>1, <2>1, <2>3, <3>2, BytesSum DEF Span
        <4> QED BY <3>1, <4>1, Bigs
      <3>3. CASE d.to = d.from + 1
        <4>1. Bytes(Blank, d) = 65535 /\ Span(d) = 2
          BY <1>1, <2>1, <2>3, <2>4, <3>3, BytesSum DEF Span
        <4> QED BY <3>1, <4>1, Bigs
      <3>4. CASE d.to = d.from + 2
        <4>1. Bytes(Blank, d) = 16777215 /\ Span(d) = 3
          BY <1>1, <2>1, <2>3, <2>4, <2>5, <3>4, BytesSum DEF Span
        <4> QED BY <3>1, <4>1, Bigs
      <3>5. CASE d.to = d.from + 3
        <4>1. Bytes(Blank, d) = 4294967295 /\ Span(d) = 4
          BY <1>1, <2>1, <2>3, <2>4, <2>5, <2>6, <3>5, BytesSum DEF Span
        <4> QED BY <3>1, <4>1, Bigs
      <3> QED BY <2>1, <3>2, <3>3, <3>4, <3>5
    <2>8. CASE d.width > 0
      <3>1. /\ d.bit \in 0..7 /\ d.width \in 0..8 /\ d.bit + d.width <= 8 /\ d.to = d.from
            /\ d.width # 0
        BY <2>8 DEF Field
      <3>2. ExtractRaw(Blank, d) = (255 \div Two(d.bit)) % Two(d.width)
        BY <1>1, <2>3, <3>1, BytesSum DEF ExtractRaw, Bits, Two
      <3>3. Ones(d) = Two(d.width) - 1
        BY <3>1 DEF Ones, Two
      <3> DEFINE k == 8 - (d.bit + d.width)
                 P == Two(d.bit)
                 W == Two(d.width)
                 K == Two(k)
      <3>4. /\ k \in 0..8 /\ (d.bit + d.width) + k = 8 /\ d.bit \in 0..8 /\ d.bit + d.width \in 0..8
        BY <3>1
      <3>5. 256 = (P * W) * K
        <4> HIDE DEF k
        <4>1. Two((d.bit + d.width) + k) = Two(d.bit + d.width) * K
          BY <3>4, TwoSum
        <4>2. Two(d.bit + d.width) = P * W
          BY <3>1, <3>4, TwoSum
        <4>3. Two(8) = 256
          BY DEF Two
        <4> QED BY <3>4, <4>1, <4>2, <4>3
      <3>6. /\ P \in Nat /\ P >= 1 /\ W \in Nat /\ W >= 1 /\ K \in Nat /\ K >= 1
        <4> HIDE DEF k
        <4> QED BY <3>1, <3>4, TwoType
      <3> HIDE DEF k, P, W, K
      <3>7. 255 = (P - 1) + (W * K - 1) * P
        BY <3>5, <3>6
      <3>8. W * K - 1 = (W - 1) + (K - 1) * W
        BY <3>6
      <3>9. 255 \div P = W * K - 1
        <4>1. P - 1 \in Int /\ P - 1 \in 0 .. P - 1 /\ W * K - 1 \in Int
          BY <3>6
        <4>2. /\ ((P - 1) + (W * K - 1) * P) \div P = ((P - 1) \div P) + (W * K - 1)
              /\ (P - 1) \div P = 0
          <5> DEFINE x == P - 1
                     u == W * K - 1
          <5>1. x \in Int /\ x \in 0 .. Two(d.bit) - 1 /\ u \in Int
            BY <4>1 DEF P
          <5> HIDE DEF x, u
          <5>2. (x + u * Two(d.bit)) \div Two(d.bit) = (x \div Two(d.bit)) + u
            BY <3>4, <5>1, Shift
          <5>3. x \div Two(d.bit) = 0
            BY <3>4, <5>1, Shift
          <5> QED BY <5>2, <5>3 DEF x, u, P
        <4> QED BY <3>7, <4>1, <4>2
      <3>10. (W * K - 1) % W = W - 1
        <4> DEFINE x == W - 1
                   u == K - 1
        <4>1. x \in Int /\ x \in 0 .. Two(d.width) - 1 /\ u \in Int
          BY <3>6 DEF W
        <4> HIDE DEF x, u
        <4>2. (x + u * Two(d.width)) % Two(d.width) = x % Two(d.width)
          BY <3>1, <4>1, Shift
        <4>3. x % Two(d.width) = x
          BY <3>1, <4>1, Shift
        <4> QED BY <3>8, <4>2, <4>3 DEF x, u, W
      <3> QED BY <3>2, <3>3, <3>9, <3>10 DEF P, W
    <2> QED BY <2>7, <2>8 DEF Field
  <1> QED BY <1>1, <1>2

Pick(S) == CHOOSE x \in S : TRUE

EncodeStep(layout, values, it, s) ==
    IF s = {} THEN Blank
    ELSE PutField(it[s \ {Pick(s)}], layout[Pick(s)], values[Pick(s)])

\* The function that EncodeFields computes.
IsEncoding(layout, values, it) ==
    it = [s \in SUBSET DOMAIN values |-> EncodeStep(layout, values, it, s)]

LEMMA EncodeFieldsFold ==
    ASSUME NEW layout, NEW values
    PROVE  EncodeFields(layout, values)
              = (CHOOSE it : IsEncoding(layout, values, it))[DOMAIN values]
  BY Zenon DEF EncodeFields, FoldSet, MapThenFoldSet, IsEncoding, EncodeStep, Pick

LEMMA LeastOf ==
    ASSUME NEW S \in SUBSET Nat, S # {}
    PROVE  \E i \in S : \A j \in S : i <= j
  <1>1. \E i \in S : \A j \in S : ~(<<j, i>> \in OpToRel(<, Nat))
    BY NatLessThanWellFounded, WFMin
  <1>2. \A i, j \in Nat : ~(<<j, i>> \in OpToRel(<, Nat)) => i <= j
    BY DEF OpToRel
  <1> QED BY <1>1, <1>2

\* Induction up to n.
LEMMA UpTo ==
    ASSUME NEW G \in SUBSET Nat, 0 \in G, \A n \in Nat : n \in G => n + 1 \in G
    PROVE  \A n \in Nat : n \in G
  <1> SUFFICES ASSUME NEW m \in Nat \ G PROVE FALSE
    OBVIOUS
  <1>1. PICK n \in Nat \ G : \A j \in Nat \ G : n <= j
    <2> DEFINE S == Nat \ G
    <2>1. S \in SUBSET Nat /\ S # {}
      OBVIOUS
    <2> HIDE DEF S
    <2>2. \E i \in S : \A j \in S : i <= j
      BY <2>1, LeastOf
    <2> QED BY <2>2 DEF S
  <1>2. n # 0
    BY <1>1
  <1>3. n - 1 \in Nat /\ (n - 1) + 1 = n
    BY <1>2
  <1>4. n - 1 \in G
    BY <1>1, <1>3
  <1> QED BY <1>1, <1>3, <1>4

LEMMA Picked ==
    ASSUME NEW S, S # {}, IsFiniteSet(S)
    PROVE  /\ Pick(S) \in S /\ IsFiniteSet(S \ {Pick(S)})
           /\ Cardinality(S \ {Pick(S)}) = Cardinality(S) - 1
           /\ Cardinality(S) \in Nat /\ Cardinality(S) >= 1
  <1>1. Pick(S) \in S
    BY DEF Pick
  <1> QED BY <1>1, FS_RemoveElement, FS_CardinalityType, FS_EmptySet

LEMMA EncodingExists ==
    ASSUME NEW layout, NEW values, IsFiniteSet(DOMAIN values)
    PROVE  \E it : IsEncoding(layout, values, it)
  <1> DEFINE D == DOMAIN values
             Small(n) == {s \in SUBSET D : Cardinality(s) <= n}
             Ex(n) == \E it : it = [s \in Small(n) |-> EncodeStep(layout, values, it, s)]
  <1>1. \A s \in SUBSET D : IsFiniteSet(s) /\ Cardinality(s) \in Nat /\ Cardinality(s) <= Cardinality(D)
    BY FS_Subset, FS_CardinalityType
  <1>2. Ex(0)
    <2>1. \A s \in Small(0) : s = {}
      BY <1>1, FS_EmptySet
    <2> DEFINE it == [s \in Small(0) |-> Blank]
    <2>2. it = [s \in Small(0) |-> EncodeStep(layout, values, it, s)]
      BY <2>1 DEF EncodeStep
    <2> QED BY <2>2
  <1>3. ASSUME NEW n \in Nat, Ex(n)
        PROVE  Ex(n + 1)
    <2>1. PICK it : it = [s \in Small(n) |-> EncodeStep(layout, values, it, s)]
      BY <1>3
    <2> DEFINE new == [s \in Small(n + 1) |-> EncodeStep(layout, values, it, s)]
    <2>2. \A s \in Small(n) : s \in Small(n + 1) /\ new[s] = it[s]
      BY <1>1, <2>1
    <2>3. ASSUME NEW s \in Small(n + 1)
          PROVE  EncodeStep(layout, values, it, s) = EncodeStep(layout, values, new, s)
      <3>1. CASE s = {}
        BY <3>1 DEF EncodeStep
      <3>2. CASE s # {}
        <4>1. s \ {Pick(s)} \in Small(n)
          BY <1>1, <3>2, Picked
        <4> HIDE DEF new, LastDigit
        <4>2. new[s \ {Pick(s)}] = it[s \ {Pick(s)}]
          BY <2>2, <4>1
        <4> QED BY <3>2, <4>2 DEF EncodeStep
      <3> QED BY <3>1, <3>2
    <2>4. new = [s \in Small(n + 1) |-> EncodeStep(layout, values, new, s)]
      <3> HIDE DEF Small
      <3> QED BY <2>3
    <2> HIDE DEF new
    <2> QED BY <2>4
  <1> DEFINE G == {n \in Nat : Ex(n)}
  <1>4. \A n \in Nat : n \in G
    <2>1. G \in SUBSET Nat /\ 0 \in G
      BY <1>2
    <2>2. \A n \in Nat : n \in G => n + 1 \in G
      <3> HIDE DEF Ex
      <3> QED BY <1>3
    <2> HIDE DEF G
    <2> QED BY <2>1, <2>2, UpTo
  <1>5. Cardinality(D) \in Nat /\ Small(Cardinality(D)) = SUBSET D
    BY <1>1
  <1>6. Ex(Cardinality(D))
    BY <1>4, <1>5
  <1> QED BY <1>5, <1>6 DEF IsEncoding

\* What EncodeFields puts together says what it was given, each bit field within
\* its width, and "not available" of every other field (encode_fields, _extract_raw).
THEOREM EncodedIsSaid ==
    ASSUME NEW layout, NEW values, IsFiniteSet(DOMAIN values),
           DOMAIN values \subseteq DOMAIN layout,
           \A f \in DOMAIN layout : layout[f] \in Field,
           \A f, g \in DOMAIN layout : f # g => Apart(layout[f], layout[g]),
           \A f \in DOMAIN values : values[f] \in Int /\ Fits(layout[f], values[f])
    PROVE  /\ EncodeFields(layout, values) \in Payload
           /\ \A f \in DOMAIN layout :
                 ExtractRaw(EncodeFields(layout, values), layout[f])
                    = IF f \in DOMAIN values THEN Kept(layout[f], values[f]) ELSE Ones(layout[f])
  <1> DEFINE D == DOMAIN values
             it == CHOOSE e : IsEncoding(layout, values, e)
             Said(s) == /\ it[s] \in Payload
                        /\ \A f \in DOMAIN layout :
                              ExtractRaw(it[s], layout[f])
                                 = IF f \in s THEN Kept(layout[f], values[f]) ELSE Ones(layout[f])
             G == {n \in Nat : \A s \in SUBSET D : Cardinality(s) = n => Said(s)}
  <1>1. IsEncoding(layout, values, it)
    BY EncodingExists
  <1>2. EncodeFields(layout, values) = it[D]
    BY EncodeFieldsFold
  <1> HIDE DEF it
  <1>3. \A s \in SUBSET D : it[s] = EncodeStep(layout, values, it, s)
    BY <1>1 DEF IsEncoding
  <1>4. \A s \in SUBSET D : IsFiniteSet(s) /\ Cardinality(s) \in Nat
    BY FS_Subset, FS_CardinalityType
  <1>5. 0 \in G
    <2> SUFFICES ASSUME NEW s \in SUBSET D, Cardinality(s) = 0
                 PROVE  Said(s)
      OBVIOUS
    <2>1. s = {}
      BY <1>4, FS_EmptySet
    <2>2. it[s] = Blank
      BY <1>3, <2>1 DEF EncodeStep
    <2> QED BY <2>1, <2>2, BlankOnes
  <1>6. ASSUME NEW n \in Nat, n \in G
        PROVE  n + 1 \in G
    <2> SUFFICES ASSUME NEW s \in SUBSET D, Cardinality(s) = n + 1
                 PROVE  Said(s)
      OBVIOUS
    <2> DEFINE x == Pick(s)
               r == s \ {x}
    <2>1. s # {}
      <3>1. Cardinality({}) = 0
        BY FS_EmptySet
      <3> QED BY <3>1
    <2>2. x \in s /\ r \in SUBSET D /\ Cardinality(r) = n
      BY <1>4, <2>1, Picked
    <2>3. Said(r)
      <3> HIDE DEF Said, x, r
      <3> QED BY <1>6, <2>2
    <2>4. it[s] = PutField(it[r], layout[x], values[x])
      BY <1>3, <2>1 DEF EncodeStep
    <2>5. x \in D /\ x \in DOMAIN layout /\ layout[x] \in Field
      BY <2>2
    <2> HIDE DEF x
    <2>6. Puts(it[r], layout[x], values[x])
      BY <2>3, <2>5, PutCorrect
    <2>7. it[s] \in Payload
      BY <2>4, <2>6 DEF Puts
    <2>8. ASSUME NEW f \in DOMAIN layout
          PROVE  ExtractRaw(it[s], layout[f])
                    = IF f \in s THEN Kept(layout[f], values[f]) ELSE Ones(layout[f])
      <3>1. CASE f = x
        BY <2>2, <2>4, <2>6, <3>1 DEF Puts
      <3>2. CASE f # x
        <4>1. Apart(layout[x], layout[f]) /\ layout[f] \in Field
          BY <2>5, <3>2
        <4>2. ExtractRaw(it[s], layout[f]) = ExtractRaw(it[r], layout[f])
          BY <2>4, <2>6, <4>1 DEF Puts
        <4> QED BY <2>2, <2>3, <3>2, <4>2
      <3> QED BY <3>1, <3>2
    <2> QED BY <2>7, <2>8
  <1>7. \A n \in Nat : n \in G
    <2>1. G \in SUBSET Nat
      OBVIOUS
    <2> HIDE DEF G
    <2> QED BY <1>5, <1>6, <2>1, UpTo
  <1>8. Said(D)
    <2> HIDE DEF Said
    <2> QED BY <1>4, <1>7
  <1> QED BY <1>2, <1>8

-----------------------------------------------------------------------------
(* Transfers *)

LEMMA WithChunk ==
    ASSUME NEW f \in Chunks, NEW k \in 1..MaxPackets, NEW id \in 0..MaxTransfers
    PROVE  /\ With(f, k, id) \in Chunks
           /\ DOMAIN With(f, k, id) = DOMAIN f \cup {k}
           /\ With(f, k, id)[k] = id
           /\ \A j \in DOMAIN f : j # k => With(f, k, id)[j] = f[j]
  <1>1. PICK D \in SUBSET (1..MaxPackets) : f \in [D -> 0..MaxTransfers]
    BY DEF Chunks
  <1>2. With(f, k, id) = [j \in D \cup {k} |-> IF j = k THEN id ELSE f[j]]
    BY <1>1 DEF With
  <1>3. /\ D \cup {k} \in SUBSET (1..MaxPackets)
        /\ With(f, k, id) \in [D \cup {k} -> 0..MaxTransfers]
    BY <1>1, <1>2
  <1> QED BY <1>1, <1>2, <1>3 DEF Chunks

\* Chunks with all the numbers up to n are n; if one is missing, they are fewer.
LEMMA HowMany ==
    ASSUME NEW D, NEW n \in Nat, D \subseteq 1..n
    PROVE  /\ Cardinality(D) \in Nat /\ Cardinality(D) <= n
           /\ Cardinality(D) = n <=> D = 1..n
  <1>1. IsFiniteSet(1..n) /\ Cardinality(1..n) = n
    BY FS_Interval
  <1> QED BY <1>1, FS_Subset, FS_CardinalityType

\* What reassemble_tp does with a packet touches no other source's assembly.
LEMMA TakeTypes ==
    ASSUME TpTypeOK, NEW s \in Sources, NEW k \in 1..MaxPackets,
           NEW id \in 0..MaxTransfers, NEW sure \in BOOLEAN, Take(s, k, id, sure)
    PROVE  /\ pending' \in [Sources -> Assembly]
           /\ \A u \in Sources : u # s => pending'[u] = pending[u]
           /\ out' \in Seq(Message) /\ mixed' \in Seq(Message)
           /\ ~sure => out' = out
  <1> DEFINE p == pending[s]
             chunks == With(p.chunks, k, id)
  <1>1. p \in Assembly /\ p.chunks \in Chunks
    BY DEF TpTypeOK, Assembly
  <1>2. chunks \in Chunks
    BY <1>1, WithChunk
  <1>3. [p EXCEPT !.chunks = chunks] \in Assembly /\ Closed \in Assembly
    <2>1. [p EXCEPT !.chunks = chunks] \in Assembly
      BY <1>1, <1>2 DEF Assembly
    <2>2. <<>> \in [{} -> 0..MaxTransfers]
      OBVIOUS
    <2>3. <<>> \in Chunks
      BY <2>2 DEF Chunks
    <2> QED BY <2>1, <2>3, TransfersAssumption DEF Closed, Assembly
  <1>4. [source |-> s, chunks |-> chunks] \in Message
    BY <1>2 DEF Message
  <1>5. pending \in [Sources -> Assembly] /\ out \in Seq(Message) /\ mixed \in Seq(Message)
    BY DEF TpTypeOK
  <1> HIDE DEF chunks
  <1>6. CASE UNCHANGED <<pending, out, mixed>>
    BY <1>5, <1>6
  <1>7. CASE /\ Deliver([source |-> s, chunks |-> chunks], sure)
             /\ pending' = [pending EXCEPT ![s] = Closed]
    BY <1>3, <1>4, <1>5, <1>7 DEF Deliver
  <1>8. CASE /\ pending' = [pending EXCEPT ![s] = [p EXCEPT !.chunks = chunks]]
             /\ UNCHANGED <<out, mixed>>
    BY <1>3, <1>5, <1>8
  <1> QED BY <1>6, <1>7, <1>8 DEF Take, chunks

LEMMA TpInitInv == TpInit => TpInv
  <1> SUFFICES ASSUME TpInit PROVE TpInv
    OBVIOUS
  <1>1. <<>> \in [{} -> 0..MaxTransfers]
    OBVIOUS
  <1>2. <<>> \in Chunks
    BY <1>1 DEF Chunks
  <1>3. Closed \in Assembly
    BY <1>2, TransfersAssumption DEF Closed, Assembly
  <1>4. TpTypeOK
    BY <1>3, TransfersAssumption DEF TpInit, TpTypeOK
  <1>5. MessagesAreTransfers
    BY DEF TpInit, MessagesAreTransfers
  <1>6. ASSUME NEW s \in Sources
        PROVE  OneTransfer(s) /\ AllOrNever(s)
    BY DEF TpInit, OneTransfer, AllOrNever, Closed
  <1> QED BY <1>4, <1>5, <1>6 DEF TpInv

\* The other sources are where they were.
LEMMA OtherSource ==
    ASSUME TpInv, NEW u \in Sources,
           sending'[u] = sending[u], pending'[u] = pending[u],
           doubt'[u] = doubt[u], intact'[u] = intact[u]
    PROVE  OneTransfer(u)' /\ AllOrNever(u)'
  <1>1. OneTransfer(u) /\ AllOrNever(u)
    BY DEF TpInv
  <1> QED BY <1>1 DEF OneTransfer, AllOrNever

LEMMA BeginTypes ==
    ASSUME TpTypeOK, NEW s \in Sources, NEW n \in 1..MaxPackets, Begin(s, n)
    PROVE  /\ sending' \in [Sources -> [id : 0..MaxTransfers, packets : 0..MaxPackets,
                                        next : 1..MaxPackets + 1]]
           /\ \A u \in Sources : u # s => sending'[u] = sending[u]
           /\ sending'[s].id >= 1 /\ sending'[s].packets = n /\ sending'[s].next = 1
  <1> DEFINE t == [id |-> sending[s].id + 1, packets |-> n, next |-> 1]
  <1>1. sending[s].id \in 0..MaxTransfers
    BY DEF TpTypeOK
  <1>2. t \in [id : 0..MaxTransfers, packets : 0..MaxPackets, next : 1..MaxPackets + 1]
    BY <1>1, TransfersAssumption DEF Begin
  <1>3. t.id >= 1 /\ t.packets = n /\ t.next = 1
    BY <1>1
  <1>4. sending' = [sending EXCEPT ![s] = t]
    BY DEF Begin
  <1> HIDE DEF t
  <1> QED BY <1>2, <1>3, <1>4 DEF TpTypeOK

LEMMA AnnounceKeeps ==
    ASSUME TpInv, NEW s \in Sources, NEW n \in 1..MaxPackets, Announce(s, n)
    PROVE  TpInv'
  <1>1. TpTypeOK /\ MessagesAreTransfers
    BY DEF TpInv
  <1>2. <<>> \in Chunks
    <2>1. <<>> \in [{} -> 0..MaxTransfers]
      OBVIOUS
    <2> QED BY <2>1 DEF Chunks
  <1>3. Opened(s, n) \in Assembly
    BY <1>2, TransfersAssumption DEF Opened, Assembly
  <1>4. TpTypeOK'
    BY <1>1, <1>3, BeginTypes DEF Announce, TpTypeOK
  <1>5. MessagesAreTransfers'
    BY <1>1 DEF Announce, MessagesAreTransfers, IsTransfer
  <1>6. OneTransfer(s)' /\ AllOrNever(s)'
    <2>1. /\ pending'[s] = Opened(s, n) /\ doubt'[s] = FALSE /\ intact'[s] = TRUE
      BY <1>1 DEF Announce, TpTypeOK
    <2>2. sending'[s].id >= 1 /\ sending'[s].packets = n /\ sending'[s].next = 1
      BY <1>1, BeginTypes DEF Announce
    <2>3. /\ pending'[s].open /\ pending'[s].packets = n /\ DOMAIN pending'[s].chunks = {}
      BY <2>1 DEF Opened
    <2>4. DOMAIN pending'[s].chunks = 1 .. sending'[s].next - 1 /\ sending'[s].next <= sending'[s].packets
      BY <2>2, <2>3
    <2>5. ~(sending'[s].next > sending'[s].packets)
      BY <2>2
    <2> QED BY <2>1, <2>2, <2>3, <2>4, <2>5 DEF OneTransfer, AllOrNever
  <1>7. ASSUME NEW u \in Sources, u # s
        PROVE  OneTransfer(u)' /\ AllOrNever(u)'
    BY <1>1, <1>7, BeginTypes, OtherSource DEF Announce, TpTypeOK
  <1> QED BY <1>4, <1>5, <1>6, <1>7 DEF TpInv

LEMMA LoseAnnouncementKeeps ==
    ASSUME TpInv, NEW s \in Sources, NEW n \in 1..MaxPackets, LoseAnnouncement(s, n)
    PROVE  TpInv'
  <1>1. TpTypeOK /\ MessagesAreTransfers
    BY DEF TpInv
  <1>2. pending[s].open \in BOOLEAN
    BY <1>1 DEF TpTypeOK, Assembly
  <1>3. TpTypeOK'
    BY <1>1, <1>2, BeginTypes DEF LoseAnnouncement, TpTypeOK
  <1>4. MessagesAreTransfers'
    BY <1>1 DEF LoseAnnouncement, MessagesAreTransfers, IsTransfer
  <1>5. OneTransfer(s)' /\ AllOrNever(s)'
    BY <1>1 DEF LoseAnnouncement, TpTypeOK, OneTransfer, AllOrNever
  <1>6. ASSUME NEW u \in Sources, u # s
        PROVE  OneTransfer(u)' /\ AllOrNever(u)'
    BY <1>1, <1>6, BeginTypes, OtherSource DEF LoseAnnouncement, TpTypeOK
  <1> QED BY <1>3, <1>4, <1>5, <1>6 DEF TpInv

\* The next packet has been sent, whether or not it is in the capture.
LEMMA SentTypes ==
    ASSUME TpTypeOK, NEW s \in Sources, sending[s].next <= sending[s].packets,
           sending' = [sending EXCEPT ![s].next = @ + 1]
    PROVE  /\ sending' \in [Sources -> [id : 0..MaxTransfers, packets : 0..MaxPackets,
                                        next : 1..MaxPackets + 1]]
           /\ \A u \in Sources : u # s => sending'[u] = sending[u]
           /\ sending'[s].id = sending[s].id /\ sending'[s].packets = sending[s].packets
           /\ sending'[s].next = sending[s].next + 1
           /\ sending[s].next \in 1..MaxPackets /\ sending[s].packets \in 0..MaxPackets
           /\ sending[s].id \in 0..MaxTransfers
  <1>1. sending[s] \in [id : 0..MaxTransfers, packets : 0..MaxPackets,
                        next : 1..MaxPackets + 1]
    BY DEF TpTypeOK
  <1>2. sending[s].next \in 1..MaxPackets
    BY <1>1, TransfersAssumption
  <1>3. [sending[s] EXCEPT !.next = @ + 1] \in [id : 0..MaxTransfers, packets : 0..MaxPackets,
                                                 next : 1..MaxPackets + 1]
    BY <1>1, <1>2, TransfersAssumption
  <1>4. sending' = [sending EXCEPT ![s] = [sending[s] EXCEPT !.next = @ + 1]]
    OBVIOUS
  <1> QED BY <1>1, <1>2, <1>3, <1>4 DEF TpTypeOK

LEMMA LosePacketKeeps ==
    ASSUME TpInv, NEW s \in Sources, LosePacket(s)
    PROVE  TpInv'
  <1>1. TpTypeOK /\ MessagesAreTransfers /\ OneTransfer(s) /\ AllOrNever(s)
    BY DEF TpInv
  <1>2. /\ sending[s].next \in 1..MaxPackets /\ sending[s].next <= sending[s].packets
        /\ sending' \in [Sources -> [id : 0..MaxTransfers, packets : 0..MaxPackets,
                                     next : 1..MaxPackets + 1]]
        /\ \A u \in Sources : u # s => sending'[u] = sending[u]
        /\ sending'[s].id = sending[s].id /\ sending'[s].packets = sending[s].packets
        /\ sending'[s].next = sending[s].next + 1
        /\ sending[s].packets \in 0..MaxPackets
    BY <1>1, SentTypes DEF LosePacket
  <1>3. TpTypeOK'
    BY <1>1, <1>2 DEF LosePacket, TpTypeOK
  <1>4. MessagesAreTransfers'
    BY <1>1 DEF LosePacket, MessagesAreTransfers, IsTransfer
  <1>5. pending'[s] = pending[s] /\ doubt'[s] = doubt[s] /\ intact'[s] = FALSE
    BY <1>1 DEF LosePacket, TpTypeOK
  <1>6. OneTransfer(s)'
    <2> SUFFICES ASSUME pending[s].open, ~doubt[s]
                 PROVE  /\ pending[s].packets = sending[s].packets
                        /\ \A k \in DOMAIN pending[s].chunks :
                              k < sending[s].next + 1 /\ pending[s].chunks[k] = sending[s].id
      BY <1>2, <1>5 DEF OneTransfer
    <2>1. DOMAIN pending[s].chunks \subseteq 1..MaxPackets
      BY <1>1 DEF TpTypeOK, Assembly, Chunks
    <2> QED BY <1>1, <1>2, <2>1, TransfersAssumption DEF OneTransfer
  <1>7. AllOrNever(s)'
    <2> SUFFICES ASSUME pending[s].open, ~doubt[s]
                 PROVE  \E k \in 1..sending[s].next :
                           k <= sending[s].packets /\ k \notin DOMAIN pending[s].chunks
      BY <1>2, <1>5 DEF AllOrNever
    <2>1. CASE intact[s]
      <3>1. DOMAIN pending[s].chunks = 1 .. sending[s].next - 1
        BY <1>1, <1>2, <2>1 DEF AllOrNever
      <3> QED BY <1>2, <3>1
    <2>2. CASE ~intact[s]
      BY <1>1, <1>2, <2>2 DEF AllOrNever
    <2> QED BY <2>1, <2>2
  <1>8. ASSUME NEW u \in Sources, u # s
        PROVE  OneTransfer(u)' /\ AllOrNever(u)'
    BY <1>1, <1>2, <1>8, OtherSource DEF LosePacket, TpTypeOK
  <1> QED BY <1>3, <1>4, <1>6, <1>7, <1>8 DEF TpInv

LEMMA AddressedKeeps ==
    ASSUME TpInv, NEW s \in Sources, NEW k \in 1..MaxPackets, Addressed(s, k)
    PROVE  TpInv'
  <1>1. TpTypeOK /\ MessagesAreTransfers
    BY DEF TpInv
  <1>2. Other \in 0..MaxTransfers /\ Take(s, k, Other, FALSE)
    <2>1. Other \in 0..MaxTransfers
      BY TransfersAssumption DEF Other
    <2> QED BY <2>1 DEF Addressed
  <1>3. /\ pending' \in [Sources -> Assembly]
        /\ \A u \in Sources : u # s => pending'[u] = pending[u]
        /\ out' \in Seq(Message) /\ mixed' \in Seq(Message)
        /\ out' = out
    BY <1>1, <1>2, TakeTypes
  <1>4. TpTypeOK'
    BY <1>1, <1>3 DEF Addressed, TpTypeOK
  <1>5. MessagesAreTransfers'
    BY <1>1, <1>3 DEF Addressed, MessagesAreTransfers, IsTransfer
  <1>6. OneTransfer(s)' /\ AllOrNever(s)'
    BY <1>1 DEF Addressed, TpTypeOK, OneTransfer, AllOrNever
  <1>7. ASSUME NEW u \in Sources, u # s
        PROVE  OneTransfer(u)' /\ AllOrNever(u)'
    BY <1>1, <1>3, <1>7, OtherSource DEF Addressed, TpTypeOK
  <1> QED BY <1>4, <1>5, <1>6, <1>7 DEF TpInv

\* The packet that a capture has of a transfer so far whole.
LEMMA PacketOfWhole ==
    ASSUME TpInv, NEW s \in Sources, Packet(s), intact[s]
    PROVE  LET t == sending[s]
               chunks == [k \in 1..t.next |-> t.id]
           IN  IF t.next = t.packets
               THEN /\ out' = Append(out, [source |-> s, chunks |-> chunks])
                    /\ pending' = [pending EXCEPT ![s] = Closed]
               ELSE /\ out' = out
                    /\ pending' = [pending EXCEPT ![s] = [pending[s] EXCEPT !.chunks = chunks]]
  <1> DEFINE t == sending[s]
             p == pending[s]
             chunks == With(p.chunks, t.next, t.id)
  <1>1. TpTypeOK /\ OneTransfer(s) /\ AllOrNever(s)
    BY DEF TpInv
  <1>2. t.next \in 1..MaxPackets /\ t.packets \in 0..MaxPackets /\ t.id \in 0..MaxTransfers
    BY <1>1, SentTypes DEF Packet
  <1>3. t.next <= t.packets /\ ~doubt[s] /\ p.open /\ p.packets = t.packets
    BY <1>1 DEF Packet, AllOrNever, OneTransfer
  <1>4. /\ DOMAIN p.chunks = 1 .. t.next - 1
        /\ \A k \in DOMAIN p.chunks : p.chunks[k] = t.id
    BY <1>1, <1>3 DEF AllOrNever, OneTransfer
  <1> HIDE DEF t, p
  <1>5. chunks = [k \in 1..t.next |-> t.id]
    BY <1>2, <1>4 DEF With
  <1>6. Cardinality(DOMAIN chunks) = t.next
    BY <1>2, <1>5, HowMany
  <1>7. Complete([p EXCEPT !.chunks = chunks]) <=> t.next = t.packets
    <2>1. p \in Assembly
      BY <1>1 DEF TpTypeOK, p
    <2>2. /\ [p EXCEPT !.chunks = chunks].chunks = chunks
          /\ [p EXCEPT !.chunks = chunks].packets = t.packets
      BY <1>3, <2>1 DEF Assembly
    <2> QED BY <1>2, <1>3, <1>6, <2>2 DEF Complete
  <1>8. Take(s, t.next, t.id, TRUE)
    BY <1>3 DEF Packet, t
  <1> HIDE DEF chunks
  <1>9. IF t.next = t.packets
        THEN /\ out' = Append(out, [source |-> s, chunks |-> chunks])
             /\ pending' = [pending EXCEPT ![s] = Closed]
        ELSE /\ out' = out
             /\ pending' = [pending EXCEPT ![s] = [p EXCEPT !.chunks = chunks]]
    BY <1>3, <1>7, <1>8 DEF Take, Deliver, chunks, p
  <1> QED BY <1>5, <1>9 DEF t, p

\* The packet of one that lacks a packet.
LEMMA PacketOfPart ==
    ASSUME TpInv, NEW s \in Sources, Packet(s), ~intact[s]
    PROVE  /\ out' = out
           /\ ~doubt[s] =>
                 \/ ~pending[s].open /\ pending' = pending
                 \/ /\ pending[s].open
                    /\ pending' = [pending EXCEPT ![s] = [pending[s] EXCEPT !.chunks =
                                      With(pending[s].chunks, sending[s].next, sending[s].id)]]
  <1> DEFINE t == sending[s]
             p == pending[s]
             chunks == With(p.chunks, t.next, t.id)
  <1>1. TpTypeOK /\ OneTransfer(s) /\ AllOrNever(s)
    BY DEF TpInv
  <1>2. t.next \in 1..MaxPackets /\ t.packets \in 0..MaxPackets /\ t.id \in 0..MaxTransfers
    BY <1>1, SentTypes DEF Packet
  <1>3. t.next <= t.packets /\ Take(s, t.next, t.id, ~doubt[s]) /\ doubt[s] \in BOOLEAN
    BY <1>1 DEF Packet, TpTypeOK
  <1>4. CASE doubt[s]
    <2>1. Take(s, t.next, t.id, FALSE)
      BY <1>3, <1>4
    <2> QED BY <1>1, <1>2, <1>4, <2>1, TakeTypes
  <1>5. CASE ~doubt[s] /\ ~p.open
    BY <1>3, <1>5 DEF Take
  <1>6. CASE ~doubt[s] /\ p.open
    <2>1. p.packets = t.packets /\ p \in Assembly /\ p.chunks \in Chunks
      BY <1>1, <1>6 DEF OneTransfer, TpTypeOK, Assembly
    <2>2. PICK k \in 1 .. t.next - 1 : k <= t.packets /\ k \notin DOMAIN p.chunks
      BY <1>1, <1>6 DEF AllOrNever
    <2>3. DOMAIN chunks = DOMAIN p.chunks \cup {t.next}
      BY DEF With
    <2>4. DOMAIN chunks \subseteq 1..t.packets
      <3>1. DOMAIN p.chunks \subseteq 1..MaxPackets
        BY <2>1 DEF Chunks
      <3>2. \A j \in DOMAIN p.chunks : j < t.next
        BY <1>1, <1>6 DEF OneTransfer
      <3> HIDE DEF t, p, chunks
      <3> QED BY <1>2, <1>3, <2>3, <3>1, <3>2, TransfersAssumption
    <2>5. DOMAIN chunks # 1..t.packets
      <3> HIDE DEF t, p, chunks
      <3> QED BY <1>2, <2>2, <2>3
    <2>6. Cardinality(DOMAIN chunks) < t.packets
      <3> HIDE DEF t, p, chunks
      <3>1. t.packets \in Nat
        BY <1>2
      <3> QED BY <3>1, <2>4, <2>5, HowMany
    <2>7. ~Complete([p EXCEPT !.chunks = chunks])
      <3>1. /\ [p EXCEPT !.chunks = chunks].chunks = chunks
            /\ [p EXCEPT !.chunks = chunks].packets = t.packets
        BY <2>1 DEF Assembly
      <3> HIDE DEF t, p, chunks
      <3>2. Cardinality(DOMAIN chunks) \in Nat /\ t.packets \in Nat
        BY <1>2, <2>4, HowMany
      <3> QED BY <2>6, <3>1, <3>2 DEF Complete
    <2> QED BY <1>3, <1>6, <2>7 DEF Take
  <1> QED BY <1>4, <1>5, <1>6

\* One more message, and one more transfer that it is.
LEMMA OneMoreMessage ==
    ASSUME TpTypeOK, MessagesAreTransfers, NEW s \in Sources, NEW id \in 1..MaxTransfers,
           NEW n \in 1..MaxPackets,
           out' = Append(out, [source |-> s, chunks |-> [k \in 1..n |-> id]]),
           whole' = Append(whole, <<s, id, n>>)
    PROVE  MessagesAreTransfers' /\ whole' \in Seq(Sources \X (1..MaxTransfers) \X (1..MaxPackets))
  <1> DEFINE m == [source |-> s, chunks |-> [k \in 1..n |-> id]]
             t == <<s, id, n>>
  <1>1. out \in Seq(Message) /\ whole \in Seq(Sources \X (1..MaxTransfers) \X (1..MaxPackets))
    BY DEF TpTypeOK
  <1>2. IsTransfer(m, t) /\ t \in Sources \X (1..MaxTransfers) \X (1..MaxPackets)
    BY DEF IsTransfer
  <1> HIDE DEF m, t
  <1>3. /\ Len(out') = Len(out) + 1 /\ Len(whole') = Len(whole) + 1
        /\ Len(out) = Len(whole) /\ Len(whole) \in Nat
    BY <1>1 DEF MessagesAreTransfers, m, t
  <1>4. ASSUME NEW i \in 1..Len(whole')
        PROVE  IsTransfer(out'[i], whole'[i])
    <2>1. CASE i \in 1..Len(whole)
      <3>1. out'[i] = out[i] /\ whole'[i] = whole[i]
        BY <1>1, <1>3, <2>1 DEF m, t
      <3> QED BY <2>1, <3>1 DEF MessagesAreTransfers
    <2>2. CASE i = Len(whole) + 1
      <3>1. out'[i] = m /\ whole'[i] = t
        BY <1>1, <1>3, <2>2 DEF m, t
      <3> QED BY <1>2, <3>1
    <2> QED BY <1>3, <2>1, <2>2
  <1>5. MessagesAreTransfers'
    BY <1>3, <1>4 DEF MessagesAreTransfers, IsTransfer
  <1>6. whole' \in Seq(Sources \X (1..MaxTransfers) \X (1..MaxPackets))
    <2>1. whole' = Append(whole, t)
      BY DEF t
    <2> QED BY <1>1, <1>2, <2>1
  <1> QED BY <1>5, <1>6

LEMMA PacketKeeps ==
    ASSUME TpInv, NEW s \in Sources, Packet(s)
    PROVE  TpInv'
  <1> DEFINE t == sending[s]
             p == pending[s]
  <1>1. TpTypeOK /\ MessagesAreTransfers /\ OneTransfer(s) /\ AllOrNever(s)
    BY DEF TpInv
  <1>2. /\ t.next \in 1..MaxPackets /\ t.packets \in 0..MaxPackets /\ t.id \in 0..MaxTransfers
        /\ t.next <= t.packets
        /\ sending' \in [Sources -> [id : 0..MaxTransfers, packets : 0..MaxPackets,
                                     next : 1..MaxPackets + 1]]
        /\ \A u \in Sources : u # s => sending'[u] = sending[u]
        /\ sending'[s].id = t.id /\ sending'[s].packets = t.packets
        /\ sending'[s].next = t.next + 1
    BY <1>1, SentTypes DEF Packet
  <1>3. /\ Take(s, t.next, t.id, ~doubt[s]) /\ UNCHANGED <<doubt, intact>>
        /\ doubt[s] \in BOOLEAN /\ intact[s] \in BOOLEAN
    BY <1>1 DEF Packet, TpTypeOK
  <1>4. /\ pending' \in [Sources -> Assembly]
        /\ \A u \in Sources : u # s => pending'[u] = pending[u]
        /\ out' \in Seq(Message) /\ mixed' \in Seq(Message)
    BY <1>1, <1>2, <1>3, TakeTypes
  <1>5. whole' = IF intact[s] /\ t.next = t.packets
                 THEN Append(whole, <<s, t.id, t.packets>>) ELSE whole
    BY DEF Packet
  <1>6. ASSUME NEW u \in Sources, u # s
        PROVE  OneTransfer(u)' /\ AllOrNever(u)'
    BY <1>2, <1>3, <1>4, <1>6, OtherSource
  <1>7. CASE intact[s]
    <2>1. /\ p \in Assembly /\ p.open /\ p.packets = t.packets /\ t.id >= 1 /\ ~doubt[s]
      BY <1>1, <1>2, <1>7 DEF AllOrNever, OneTransfer, TpTypeOK
    <2>2. CASE t.next = t.packets
      <3>1. /\ out' = Append(out, [source |-> s, chunks |-> [k \in 1..t.packets |-> t.id]])
            /\ pending' = [pending EXCEPT ![s] = Closed]
        BY <1>7, <2>2, PacketOfWhole
      <3>2. whole' = Append(whole, <<s, t.id, t.packets>>)
        BY <1>5, <1>7, <2>2
      <3>3. t.id \in 1..MaxTransfers /\ t.packets \in 1..MaxPackets
        BY <1>2, <2>1, <2>2
      <3> HIDE DEF t, p
      <3>4. MessagesAreTransfers' /\ whole' \in Seq(Sources \X (1..MaxTransfers) \X (1..MaxPackets))
        BY <1>1, <3>1, <3>2, <3>3, OneMoreMessage
      <3>5. TpTypeOK'
        BY <1>1, <1>2, <1>3, <1>4, <3>4 DEF TpTypeOK
      <3>6. ~pending'[s].open
        BY <1>1, <3>1 DEF TpTypeOK, Closed
      <3>7. sending'[s].next > sending'[s].packets
        BY <1>2, <2>2
      <3>8. OneTransfer(s)' /\ AllOrNever(s)'
        <4>1. ~(sending'[s].next <= sending'[s].packets)
          BY <1>2, <2>2
        <4> QED BY <1>2, <1>3, <1>7, <2>1, <3>6, <3>7, <4>1 DEF OneTransfer, AllOrNever
      <3> QED BY <1>6, <3>4, <3>5, <3>8 DEF TpInv
    <2>3. CASE t.next # t.packets
      <3> DEFINE q == [p EXCEPT !.chunks = [k \in 1..t.next |-> t.id]]
      <3>1. out' = out /\ pending' = [pending EXCEPT ![s] = q]
        BY <1>7, <2>3, PacketOfWhole
      <3>2. whole' = whole
        BY <1>5, <2>3
      <3>3. MessagesAreTransfers'
        BY <1>1, <3>1, <3>2 DEF MessagesAreTransfers, IsTransfer
      <3>4. TpTypeOK'
        BY <1>1, <1>2, <1>3, <1>4, <3>2 DEF TpTypeOK
      <3>5. /\ q.open /\ q.packets = t.packets
            /\ q.chunks = [k \in 1..t.next |-> t.id]
        BY <2>1 DEF Assembly
      <3>6. pending'[s] = q
        BY <1>1, <3>1 DEF TpTypeOK
      <3> HIDE DEF t, p, q
      <3>7. OneTransfer(s)'
        BY <1>2, <3>5, <3>6 DEF OneTransfer
      <3>8. AllOrNever(s)'
        <4>1. ~(t.next + 1 > t.packets)
          BY <1>2, <2>3
        <4>2. 1 .. (t.next + 1) - 1 = DOMAIN q.chunks
          BY <1>2, <3>5
        <4> QED BY <1>2, <1>3, <1>7, <2>1, <3>5, <3>6, <4>1, <4>2 DEF AllOrNever
      <3> QED BY <1>6, <3>3, <3>4, <3>7, <3>8 DEF TpInv
    <2> QED BY <2>2, <2>3
  <1>8. CASE ~intact[s]
    <2>1. out' = out /\ whole' = whole
      BY <1>5, <1>8, PacketOfPart
    <2>2. MessagesAreTransfers'
      BY <1>1, <2>1 DEF MessagesAreTransfers, IsTransfer
    <2>3. TpTypeOK'
      BY <1>1, <1>2, <1>3, <1>4, <2>1 DEF TpTypeOK
    <2>4. CASE doubt[s]
      <3>1. OneTransfer(s)' /\ AllOrNever(s)'
        BY <1>3, <1>8, <2>4 DEF OneTransfer, AllOrNever
      <3> QED BY <1>6, <2>2, <2>3, <3>1 DEF TpInv
    <2>5. CASE ~doubt[s] /\ ~p.open
      <3>1. pending' = pending
        BY <1>8, <2>5, PacketOfPart
      <3>2. OneTransfer(s)' /\ AllOrNever(s)'
        BY <1>3, <1>8, <2>5, <3>1 DEF OneTransfer, AllOrNever
      <3> QED BY <1>6, <2>2, <2>3, <3>2 DEF TpInv
    <2>6. CASE ~doubt[s] /\ p.open
      <3> DEFINE chunks == With(p.chunks, t.next, t.id)
                 q == [p EXCEPT !.chunks = chunks]
      <3>1. pending' = [pending EXCEPT ![s] = q]
        BY <1>8, <2>6, PacketOfPart
      <3>2. p \in Assembly /\ p.chunks \in Chunks /\ p.packets = t.packets
        BY <1>1, <2>6 DEF OneTransfer, TpTypeOK, Assembly
      <3>3. pending'[s] = q /\ q.open /\ q.packets = t.packets /\ q.chunks = chunks
        BY <1>1, <2>6, <3>1, <3>2 DEF TpTypeOK, Assembly
      <3>4. /\ DOMAIN chunks = DOMAIN p.chunks \cup {t.next}
            /\ chunks[t.next] = t.id
            /\ \A j \in DOMAIN p.chunks : j # t.next => chunks[j] = p.chunks[j]
        BY DEF With
      <3>5. \A j \in DOMAIN p.chunks : j \in 1..MaxPackets /\ j < t.next /\ p.chunks[j] = t.id
        BY <1>1, <2>6, <3>2 DEF OneTransfer, Chunks
      <3>6. PICK k \in 1 .. t.next - 1 : k <= t.packets /\ k \notin DOMAIN p.chunks
        BY <1>1, <1>8, <2>6 DEF AllOrNever
      <3> HIDE DEF t, p, chunks, q
      <3>7. OneTransfer(s)'
        <4>1. \A j \in DOMAIN chunks : j < t.next + 1 /\ chunks[j] = t.id
          BY <1>2, <3>4, <3>5, TransfersAssumption
        <4> QED BY <1>2, <3>3, <4>1 DEF OneTransfer
      <3>8. AllOrNever(s)'
        <4>1. k \in 1 .. (t.next + 1) - 1 /\ k <= t.packets /\ k \notin DOMAIN chunks
          BY <1>2, <3>4, <3>6
        <4> QED BY <1>2, <1>3, <1>8, <3>3, <4>1 DEF AllOrNever
      <3> QED BY <1>6, <2>2, <2>3, <3>7, <3>8 DEF TpInv
    <2> QED BY <1>3, <2>4, <2>5, <2>6
  <1> QED BY <1>3, <1>7, <1>8

LEMMA TpStepKeepsInv == TpInv /\ [TpNext]_tpVars => TpInv'
  <1> SUFFICES ASSUME TpInv, [TpNext]_tpVars PROVE TpInv'
    OBVIOUS
  <1>1. ASSUME NEW s \in Sources, NEW n \in 1..MaxPackets, Announce(s, n)
        PROVE  TpInv'
    BY <1>1, AnnounceKeeps
  <1>2. ASSUME NEW s \in Sources, NEW n \in 1..MaxPackets, LoseAnnouncement(s, n)
        PROVE  TpInv'
    BY <1>2, LoseAnnouncementKeeps
  <1>3. ASSUME NEW s \in Sources, NEW k \in 1..MaxPackets, Addressed(s, k)
        PROVE  TpInv'
    BY <1>3, AddressedKeeps
  <1>4. ASSUME NEW s \in Sources, Packet(s)
        PROVE  TpInv'
    BY <1>4, PacketKeeps
  <1>5. ASSUME NEW s \in Sources, LosePacket(s)
        PROVE  TpInv'
    BY <1>5, LosePacketKeeps
  <1>6. CASE UNCHANGED tpVars
    <2>1. TpTypeOK' /\ MessagesAreTransfers'
      BY <1>6 DEF tpVars, TpInv, TpTypeOK, MessagesAreTransfers, IsTransfer
    <2>2. ASSUME NEW u \in Sources
          PROVE  OneTransfer(u)' /\ AllOrNever(u)'
      BY <1>6, OtherSource DEF tpVars
    <2> QED BY <2>1, <2>2 DEF TpInv
  <1> QED BY <1>1, <1>2, <1>3, <1>4, <1>5, <1>6 DEF TpNext

LEMMA StepOfTransfers == [Next]_vars => [TpNext]_tpVars
  BY DEF Next, vars, tpVars

\* What is put together is what was sent, over captures that lack any frames:
\* the invariant of reassemble_tp.
THEOREM TransfersCorrect == Spec => []TpInv
  <1>1. Init => TpInit
    BY DEF Init
  <1> QED BY <1>1, TpInitInv, StepOfTransfers, TpStepKeepsInv, PTL DEF Spec

\* The messages out of doubt are exactly the transfers that are in the capture from
\* beginning to end, in the order of their ends (reassemble_tp).
THEOREM MessagesCorrect == Spec => []MessagesAreTransfers
  <1>1. TpInv => MessagesAreTransfers
    BY DEF TpInv
  <1> QED BY <1>1, TransfersCorrect, PTL

-----------------------------------------------------------------------------
(* Frames *)

FrameType == [time : 0..MaxTime, dgn : DOMAIN Layouts, bytes : Seq(0..255)]
IsFrame(fr) == fr \in FrameType /\ Len(fr.bytes) \in {2, 8}
Frames(frames) ==
    /\ frames \in Seq(FrameType)
    /\ \A k \in 1..Len(frames) : IsFrame(frames[k]) /\ frames[k].time = now

LEMMA IsPayload ==
    ASSUME NEW bytes \in Seq(0..255), Len(bytes) = 8
    PROVE  bytes \in Payload
  <1>1. bytes \in [1..Len(bytes) -> 0..255]
    BY ZenonT(30), LenProperties
  <1> QED BY <1>1 DEF Payload

LEMMA DimmerFields ==
    /\ \A f \in {"instance", "desired_level", "command"} :
          /\ f \in DOMAIN Layouts[Dimmer] /\ Layouts[Dimmer][f] \in Field
          /\ Layouts[Dimmer][f].width = 0 /\ Span(Layouts[Dimmer][f]) = 1
          /\ Layouts[Dimmer][f].from = Layouts[Dimmer][f].to
    /\ Layouts[Dimmer]["instance"].to = 0 /\ Layouts[Dimmer]["desired_level"].to = 2
    /\ Layouts[Dimmer]["command"].to = 3
  <1>1. \A k \in {0, 2, 3} :
           /\ Byte(k) \in Field /\ Byte(k).width = 0 /\ Span(Byte(k)) = 1
           /\ Byte(k).from = Byte(k).to /\ Byte(k).to = k
    BY DEF Byte, Field, Span
  <1> QED BY <1>1, LayoutsAssumption

\* Of a frame of eight bytes, the fields of a dimmer command are bytes of their own.
LEMMA DimmerRaw ==
    ASSUME NEW fr, fr.dgn = Dimmer, fr.bytes \in Payload
    PROVE  /\ InstanceOf(fr) = fr.bytes[1] /\ fr.bytes[1] \in 0..255
           /\ LevelOf(fr) = fr.bytes[3] /\ fr.bytes[3] \in 0..255
           /\ RawOf(fr, "command") = fr.bytes[4] /\ fr.bytes[4] \in 0..255
           /\ HasLevel(fr) <=> fr.bytes[3] # 255
  <1>1. ASSUME NEW f \in {"instance", "desired_level", "command"}
        PROVE  RawOf(fr, f) = fr.bytes[Layouts[Dimmer][f].to + 1]
    BY DimmerFields, BytesSum DEF RawOf, ExtractRaw
  <1>2. \A k \in 1..8 : fr.bytes[k] \in 0..255
    BY DEF Payload
  <1>3. Len(fr.bytes) = 8
    BY AsSequence DEF Payload
  <1>4. {"instance", "desired_level"} \subseteq Present(Layouts[Dimmer], fr.bytes)
    BY <1>3, DimmerFields DEF Present
  <1>5. \A raw : Available(Layouts[Dimmer]["desired_level"], raw) <=> raw # 255
    <2> DEFINE s == Span(Layouts[Dimmer]["desired_level"])
    <2>1. s = 1
      BY DimmerFields
    <2> HIDE DEF s
    <2>2. Big(s) - 1 = 255
      BY <2>1, Bigs
    <2>3. 256^Span(Layouts[Dimmer]["desired_level"]) - 1 = 255
      BY <2>2 DEF Big, s
    <2> QED BY <2>3, DimmerFields DEF Available
  <1>6. HasLevel(fr) <=> RawOf(fr, "desired_level") # 255
    BY <1>4, <1>5 DEF HasLevel, IsDimmer
  <1> QED BY SMTT(30), <1>1, <1>2, <1>6, DimmerFields DEF InstanceOf, LevelOf

\* A frame tells a level of an instance only if it is a whole dimmer command.
LEMMA TellsLevel ==
    ASSUME NEW fr, IsFrame(fr), HasLevel(fr)
    PROVE  fr.dgn = Dimmer /\ fr.bytes \in Payload /\ LevelOf(fr) \in 0..254
  <1>1. fr.dgn = Dimmer /\ Layouts[Dimmer]["desired_level"].to < Len(fr.bytes)
    BY DEF HasLevel, IsDimmer, Present
  <1>2. Len(fr.bytes) = 8
    <2> DEFINE n == Len(fr.bytes)
    <2>1. 2 < n
      BY <1>1, DimmerFields
    <2>2. n = 2 \/ n = 8
      BY DEF IsFrame
    <2> HIDE DEF n
    <2>3. n = 8
      BY <2>1, <2>2
    <2> QED BY <2>3 DEF n
  <1>3. fr.bytes \in Payload
    <2>1. fr.bytes \in Seq(0..255)
      BY DEF IsFrame, FrameType
    <2> QED BY <1>2, <2>1, IsPayload
  <1>4. LevelOf(fr) \in 0..255 /\ LevelOf(fr) # 255
    <2>1. fr.dgn = Dimmer /\ fr.bytes \in Payload
      BY <1>1, <1>3
    <2>2. LevelOf(fr) = fr.bytes[3] /\ fr.bytes[3] \in 0..255 /\ (HasLevel(fr) <=> fr.bytes[3] # 255)
      BY <2>1, DimmerRaw
    <2> QED BY <2>2
  <1> QED BY <1>1, <1>3, <1>4

\* The frame of a dimmer command, recorded now.
IsCommand(fr, i, raw, command) ==
    /\ fr.dgn = Dimmer /\ fr.time = now /\ fr.bytes \in Payload
    /\ fr = Of(Dimmer, fr.bytes)
    /\ InstanceOf(fr) = i /\ LevelOf(fr) = raw /\ RawOf(fr, "command") = command
    /\ HasLevel(fr) <=> raw # 255

LEMMA DimmerFrameSays ==
    ASSUME NEW i \in 0..255, NEW raw \in 0..255, NEW command \in 0..255
    PROVE  IsCommand(DimmerFrame(i, raw, command), i, raw, command)
  <1> DEFINE values == [instance |-> i, desired_level |-> raw, command |-> command]
             bytes == EncodeFields(Layouts[Dimmer], values)
             fr == DimmerFrame(i, raw, command)
  <1>1. fr = [time |-> now, dgn |-> Dimmer, bytes |-> bytes]
    BY DEF DimmerFrame, Of
  <1>2. DOMAIN values = {"instance", "desired_level", "command"}
    OBVIOUS
  <1>3. IsFiniteSet(DOMAIN values)
    <2>1. DOMAIN values \subseteq DOMAIN Layouts[Dimmer]
      BY <1>2, LayoutsAssumption
    <2> QED BY <2>1, FS_Subset, LayoutsAssumption
  <1>4. ASSUME NEW f \in DOMAIN values
        PROVE  values[f] \in Int /\ values[f] \in 0..255 /\ Fits(Layouts[Dimmer][f], values[f])
    <2>1. values[f] \in 0..255
      BY <1>2
    <2>2. Span(Layouts[Dimmer][f]) = 1 /\ 256^1 = 256
      BY <1>2, DimmerFields
    <2> HIDE DEF values
    <2> QED BY <2>1, <2>2 DEF Fits
  <1>5. /\ bytes \in Payload
        /\ \A f \in DOMAIN values : ExtractRaw(bytes, Layouts[Dimmer][f]) = Kept(Layouts[Dimmer][f], values[f])
    <2> HIDE DEF values
    <2> QED BY <1>2, <1>3, <1>4, LayoutsAssumption, EncodedIsSaid
  <1>6. \A f \in DOMAIN values : RawOf(fr, f) = values[f]
    BY <1>1, <1>2, <1>5, DimmerFields DEF RawOf, Kept
  <1>7. fr.dgn = Dimmer /\ fr.time = now /\ fr.bytes \in Payload
    BY <1>1, <1>5
  <1>8. InstanceOf(fr) = i /\ LevelOf(fr) = raw /\ RawOf(fr, "command") = command
    BY <1>2, <1>6 DEF InstanceOf, LevelOf
  <1>9. HasLevel(fr) <=> raw # 255
    <2> HIDE DEF fr
    <2> QED BY <1>7, <1>8, DimmerRaw
  <1> HIDE DEF bytes, values
  <1>10. fr = Of(Dimmer, fr.bytes)
    BY <1>1 DEF Of
  <1> HIDE DEF fr
  <1>11. IsCommand(fr, i, raw, command)
    BY <1>7, <1>8, <1>9, <1>10 DEF IsCommand
  <1> QED BY <1>11 DEF fr

\* A frame of eight bytes, recorded now.
LEMMA EightBytes ==
    ASSUME NEW bytes \in Payload, NEW dgn \in DOMAIN Layouts, now \in 0..MaxTime
    PROVE  Frames(<<Of(dgn, bytes)>>)
  <1> DEFINE fr == Of(dgn, bytes)
  <1>1. bytes \in Seq(0..255) /\ Len(bytes) = 8
    BY AsSequence DEF Payload
  <1>2. fr \in FrameType /\ fr.bytes = bytes /\ fr.time = now
    BY <1>1 DEF Of, FrameType
  <1>3. IsFrame(fr)
    BY <1>1, <1>2 DEF IsFrame
  <1> HIDE DEF fr
  <1>4. <<fr>> \in Seq(FrameType) /\ Len(<<fr>>) = 1 /\ <<fr>>[1] = fr
    BY <1>2
  <1> QED BY <1>2, <1>3, <1>4 DEF Frames, fr

LEMMA DimmerFrames ==
    ASSUME NEW i \in Instances, NEW raw \in 0..255, now \in 0..MaxTime
    PROVE  Frames(<<DimmerFrame(i, raw, 0)>>)
  <1>1. i \in 0..255
    BY DimmingAssumption
  <1>2. DimmerFrame(i, raw, 0) = Of(Dimmer, DimmerFrame(i, raw, 0).bytes)
        /\ DimmerFrame(i, raw, 0).bytes \in Payload
    <2>1. 0 \in 0..255
      OBVIOUS
    <2>2. IsCommand(DimmerFrame(i, raw, 0), i, raw, 0)
      BY <1>1, <2>1, DimmerFrameSays
    <2> QED BY <2>2 DEF IsCommand
  <1>3. Dimmer \in DOMAIN Layouts
    BY LayoutsAssumption
  <1> DEFINE bytes == DimmerFrame(i, raw, 0).bytes
  <1> HIDE DEF bytes
  <1>4. Frames(<<Of(Dimmer, bytes)>>)
    BY <1>2, <1>3, EightBytes DEF bytes
  <1> QED BY <1>2, <1>4 DEF bytes

LEMMA ShortFrames ==
    ASSUME NEW i \in Instances, now \in 0..MaxTime
    PROVE  Frames(<<Of(Dimmer, <<i, 255>>)>>)
  <1> DEFINE fr == Of(Dimmer, <<i, 255>>)
  <1>1. i \in 0..255
    BY DimmingAssumption
  <1>2. <<i, 255>> \in Seq(0..255) /\ Len(<<i, 255>>) = 2
    BY <1>1
  <1>3. Dimmer \in DOMAIN Layouts
    BY LayoutsAssumption
  <1>4. fr \in FrameType /\ fr.bytes = <<i, 255>> /\ fr.time = now
    BY <1>2, <1>3 DEF Of, FrameType
  <1>5. IsFrame(fr)
    BY <1>2, <1>4 DEF IsFrame
  <1> HIDE DEF fr
  <1>6. <<fr>> \in Seq(FrameType) /\ Len(<<fr>>) = 1 /\ <<fr>>[1] = fr
    BY <1>4
  <1> QED BY <1>4, <1>5, <1>6 DEF Frames, fr

\* What a request's frame says: EncodedIsSaid of its values.
LEMMA FrameOfSays ==
    ASSUME NEW r \in Requests, KnownFields(r), AllFit(r)
    PROVE  /\ r.dgn \in DOMAIN Layouts /\ FrameOf(r) = Of(r.dgn, FrameOf(r).bytes)
           /\ FrameOf(r).bytes \in Payload
           /\ \A f \in DOMAIN Layouts[r.dgn] :
                 RawOf(FrameOf(r), f)
                    = IF f \in DOMAIN ValuesOf(r) THEN Kept(Layouts[r.dgn][f], ValuesOf(r)[f])
                      ELSE Ones(Layouts[r.dgn][f])
  <1> DEFINE layout == Layouts[r.dgn]
             values == ValuesOf(r)
             bytes == EncodeFields(layout, values)
  <1>1. r.dgn \in DOMAIN Layouts
    BY RequestsAssumption
  <1>2. \A f \in DOMAIN values : values[f] \in Int
    BY RequestsAssumption DEF ValuesOf
  <1>3. DOMAIN values \subseteq DOMAIN layout
    BY DEF KnownFields
  <1>4. \A f \in DOMAIN values : Fits(layout[f], values[f])
    BY DEF AllFit
  <1>5. /\ IsFiniteSet(DOMAIN layout)
        /\ \A f \in DOMAIN layout : layout[f] \in Field
        /\ \A f, g \in DOMAIN layout : f # g => Apart(layout[f], layout[g])
    BY <1>1, LayoutsAssumption
  <1>6. FrameOf(r) = Of(r.dgn, bytes)
    BY DEF FrameOf
  <1> HIDE DEF values, layout
  <1>7. IsFiniteSet(DOMAIN values)
    BY <1>3, <1>5, FS_Subset
  <1>8. /\ bytes \in Payload
        /\ \A f \in DOMAIN layout :
              ExtractRaw(bytes, layout[f])
                 = IF f \in DOMAIN values THEN Kept(layout[f], values[f]) ELSE Ones(layout[f])
    BY <1>2, <1>3, <1>4, <1>5, <1>7, EncodedIsSaid
  <1> HIDE DEF bytes
  <1>9. FrameOf(r).bytes = bytes /\ FrameOf(r).dgn = r.dgn
    BY <1>6 DEF Of
  <1> QED BY <1>1, <1>6, <1>8, <1>9 DEF RawOf, layout, values

-----------------------------------------------------------------------------
(* What the last frame tells *)

LEMMA MaxOf ==
    ASSUME NEW n \in Nat, NEW S \in SUBSET (1..n), S # {}
    PROVE  Max(S) \in S
  <1> DEFINE D == {n - k : k \in S}
  <1>1. D \in SUBSET Nat /\ D # {}
    <2>1. \A k \in S : n - k \in Nat
      OBVIOUS
    <2> QED BY <2>1
  <1>2. PICK d \in D : \A e \in D : d <= e
    <2> HIDE DEF D
    <2> QED BY <1>1, LeastOf
  <1>3. PICK m \in S : d = n - m
    OBVIOUS
  <1>4. \A k \in S : m >= k
    BY <1>2, <1>3
  <1> QED BY <1>3, <1>4 DEF Max

LEMMA Tellings ==
    ASSUME NEW frames, Frames(frames), NEW i
    PROVE  /\ Telling(frames, i) \subseteq 1..Len(frames)
           /\ Telling(frames, i) # {} => Max(Telling(frames, i)) \in Telling(frames, i)
           /\ \A k \in Telling(frames, i) : LevelOf(frames[k]) \in 0..254
  <1>1. Telling(frames, i) \subseteq 1..Len(frames)
    BY DEF Telling
  <1>2. Len(frames) \in Nat
    BY LenProperties DEF Frames
  <1>3. \A k \in Telling(frames, i) : IsFrame(frames[k]) /\ HasLevel(frames[k])
    BY DEF Telling, Frames
  <1>4. \A k \in Telling(frames, i) : LevelOf(frames[k]) \in 0..254
    BY <1>3, TellsLevel
  <1> QED BY <1>1, <1>2, <1>4, MaxOf

LEMMA AfterType ==
    ASSUME NEW frames, Frames(frames), NEW S, 0..254 \subseteq S, NEW levels \in [Instances -> S]
    PROVE  After(frames, levels) \in [Instances -> S]
  <1> SUFFICES ASSUME NEW i \in Instances
               PROVE  (IF Telling(frames, i) = {} THEN levels[i]
                       ELSE LevelOf(frames[Max(Telling(frames, i))])) \in S
    BY DEF After
  <1> QED BY ZenonT(30), Tellings

\* If all of the frames that are for an instance tell the same level.
LEMMA AfterTold ==
    ASSUME NEW frames, Frames(frames), NEW levels, NEW i \in Instances, NEW level,
           Telling(frames, i) # {},
           \A k \in Telling(frames, i) : LevelOf(frames[k]) = level
    PROVE  After(frames, levels)[i] = level
  BY Tellings DEF After

-----------------------------------------------------------------------------
(* Every step keeps the types *)

LEMMA DimInitType == DimInit => DimTypeOK
  <1> SUFFICES ASSUME DimInit PROVE DimTypeOK
    OBVIOUS
  <1>1. MaxTime \in Nat /\ MaxFrames \in Nat
    BY DimmingAssumption
  <1>2. log = <<>> /\ now = 0 /\ listen \in BOOLEAN
    BY DEF DimInit
  <1>3. lamp \in [Instances -> 0..254] /\ observed \in [Instances -> -1..254]
    BY DEF DimInit, Unseen
  <1>4. log \in Seq([time : 0..MaxTime, dgn : DOMAIN Layouts, bytes : Seq(0..255)]) /\ Len(log) = 0
    BY <1>2
  <1>5. \A k \in 1..Len(log) : log[k].time <= now /\ Len(log[k].bytes) \in {2, 8}
    BY <1>4
  <1>6. now \in 0..MaxTime
    BY <1>1, <1>2, <1>4
  <1>7. InOrder(log)
    BY <1>4 DEF InOrder
  <1> QED BY <1>2, <1>3, <1>4, <1>5, <1>6, <1>7 DEF DimTypeOK

LEMMA Joined ==
    ASSUME NEW a, NEW b, Frames(a), Frames(b)
    PROVE  Frames(a \o b)
  <1>1. a \in Seq(FrameType) /\ b \in Seq(FrameType)
    BY DEF Frames
  <1>2. /\ a \o b \in Seq(FrameType) /\ Len(a \o b) = Len(a) + Len(b)
        /\ \A k \in 1 .. Len(a) + Len(b) :
              (a \o b)[k] = IF k <= Len(a) THEN a[k] ELSE b[k - Len(a)]
    BY <1>1, ConcatProperties
  <1>3. Len(a) \in Nat /\ Len(b) \in Nat
    BY <1>1, LenProperties
  <1>4. ASSUME NEW k \in 1..Len(a \o b)
        PROVE  IsFrame((a \o b)[k]) /\ (a \o b)[k].time = now
    <2>1. CASE k <= Len(a)
      <3>1. k \in 1..Len(a)
        BY <1>2, <1>3, <2>1
      <3>2. (a \o b)[k] = a[k]
        BY <1>2, <2>1
      <3> QED BY <3>1, <3>2 DEF Frames
    <2>2. CASE ~(k <= Len(a))
      <3>1. k - Len(a) \in 1..Len(b)
        BY <1>2, <1>3, <2>2
      <3>2. (a \o b)[k] = b[k - Len(a)]
        BY <1>2, <2>2
      <3> QED BY <3>1, <3>2 DEF Frames
    <2> QED BY <2>1, <2>2
  <1> QED BY <1>2, <1>4 DEF Frames

LogTyped(frames, time) ==
    /\ frames \in Seq(FrameType)
    /\ \A k \in 1..Len(frames) : frames[k].time <= time /\ Len(frames[k].bytes) \in {2, 8}
    /\ InOrder(frames)

LEMMA LogOfType == DimTypeOK <=> /\ listen \in BOOLEAN
                                 /\ lamp \in [Instances -> 0..254]
                                 /\ observed \in [Instances -> -1..254]
                                 /\ LogTyped(log, now) /\ now \in 0..MaxTime
  BY DEF DimTypeOK, LogTyped, FrameType

LEMMA TypesAfter ==
    ASSUME listen' \in BOOLEAN, lamp' \in [Instances -> 0..254],
           observed' \in [Instances -> -1..254], LogTyped(log', now'), now' \in 0..MaxTime
    PROVE  DimTypeOK'
  BY DEF DimTypeOK, LogTyped, FrameType

LEMMA OnBusTypes ==
    ASSUME DimTypeOK, NEW frames, Frames(frames), OnBus(frames)
    PROVE  LogTyped(log', now) /\ lamp' \in [Instances -> 0..254]
  <1>1. LogTyped(log, now) /\ now \in 0..MaxTime /\ lamp \in [Instances -> 0..254]
    BY LogOfType
  <1>2. log' = log \o frames /\ lamp' = After(frames, lamp)
    BY DEF OnBus
  <1>3. lamp' \in [Instances -> 0..254]
    BY <1>1, <1>2, AfterType
  <1>4. log \in Seq(FrameType) /\ frames \in Seq(FrameType)
    BY <1>1 DEF LogTyped, Frames
  <1>5. /\ log \o frames \in Seq(FrameType) /\ Len(log \o frames) = Len(log) + Len(frames)
        /\ \A k \in 1 .. Len(log) + Len(frames) :
              (log \o frames)[k] = IF k <= Len(log) THEN log[k] ELSE frames[k - Len(log)]
    BY <1>4, ConcatProperties
  <1>6. Len(log) \in Nat /\ Len(frames) \in Nat
    BY <1>4, LenProperties
  <1>7. ASSUME NEW k \in 1..Len(log \o frames)
        PROVE  (log \o frames)[k].time <= now /\ Len((log \o frames)[k].bytes) \in {2, 8}
    <2>1. CASE k <= Len(log)
      <3>1. k \in 1..Len(log)
        BY <1>5, <1>6, <2>1
      <3>2. (log \o frames)[k] = log[k]
        BY <1>5, <2>1
      <3> QED BY <1>1, <3>1, <3>2 DEF LogTyped
    <2>2. CASE ~(k <= Len(log))
      <3>1. k - Len(log) \in 1..Len(frames)
        BY <1>5, <1>6, <2>2
      <3>2. (log \o frames)[k] = frames[k - Len(log)]
        BY <1>5, <2>2
      <3>3. IsFrame(frames[k - Len(log)]) /\ frames[k - Len(log)].time = now
        BY <3>1 DEF Frames
      <3>4. now <= now
        BY <1>1
      <3> QED BY <3>2, <3>3, <3>4 DEF IsFrame
    <2> QED BY <2>1, <2>2
  <1>8. InOrder(log \o frames)
    <2> SUFFICES ASSUME NEW k \in 1..Len(log \o frames), NEW j \in 1..k
                 PROVE  (log \o frames)[j].time <= (log \o frames)[k].time
      BY DEF InOrder
    <2>1. CASE k <= Len(log)
      <3>1. k \in 1..Len(log) /\ j <= Len(log) /\ j \in 1 .. Len(log) + Len(frames)
        BY <1>5, <1>6, <2>1
      <3>2. (log \o frames)[k] = log[k] /\ (log \o frames)[j] = log[j]
        BY <1>5, <2>1, <3>1
      <3> QED BY <1>1, <3>1, <3>2 DEF LogTyped, InOrder
    <2>2. CASE ~(k <= Len(log))
      <3>1. k - Len(log) \in 1..Len(frames)
        BY <1>5, <1>6, <2>2
      <3>2. (log \o frames)[k] = frames[k - Len(log)]
        BY <1>5, <2>2
      <3>3. (log \o frames)[k].time = now
        BY <3>1, <3>2 DEF Frames
      <3>4. j \in 1..Len(log \o frames)
        BY <1>5, <1>6
      <3> QED BY <1>7, <3>3, <3>4
    <2> QED BY <2>1, <2>2
  <1> QED BY <1>2, <1>3, <1>5, <1>7, <1>8 DEF LogTyped

LEMMA BroadcastTypes ==
    ASSUME DimTypeOK, NEW fr, Frames(<<fr>>), Broadcast(fr)
    PROVE  DimTypeOK'
  <1>1. OnBus(<<fr>>) /\ observed' = After(<<fr>>, observed) /\ listen' = listen /\ now' = now
    BY DEF Broadcast
  <1>2. LogTyped(log', now) /\ lamp' \in [Instances -> 0..254]
    BY <1>1, OnBusTypes
  <1>3. observed' \in [Instances -> -1..254]
    <2>1. observed \in [Instances -> -1..254] /\ 0..254 \subseteq -1..254
      BY LogOfType
    <2> QED BY <1>1, <2>1, AfterType
  <1>4. listen' \in BOOLEAN /\ now' \in 0..MaxTime /\ LogTyped(log', now')
    BY <1>1, <1>2, LogOfType
  <1> QED BY <1>2, <1>3, <1>4, TypesAfter

LEMMA TransmitTypes ==
    ASSUME DimTypeOK, NEW frames, Frames(frames), Transmit(frames)
    PROVE  DimTypeOK'
  <1>1. OnBus(frames) /\ observed' = observed /\ listen' = listen /\ now' = now
    BY DEF Transmit
  <1>2. LogTyped(log', now) /\ lamp' \in [Instances -> 0..254]
    BY <1>1, OnBusTypes
  <1>3. /\ listen' \in BOOLEAN /\ now' \in 0..MaxTime /\ LogTyped(log', now')
        /\ observed' \in [Instances -> -1..254]
    BY <1>1, <1>2, LogOfType
  <1> QED BY <1>2, <1>3, TypesAfter

LEMMA RawsOf ==
    ASSUME NEW b \in 0..255
    PROVE  ColourRaw(b) \in 0..250 /\ PlainRaw(b) \in 0..200
  <1> DEFINE c == RoundDiv(250 * b, 255)
             p == RoundDiv(1000 * b, 255)
             q == RoundDiv(p, 5)
  <1>1. c \in Nat /\ 255 * c <= 250 * b + 127
    <2>1. 250 * b \in Nat
      OBVIOUS
    <2> QED BY <2>1, Half255
  <1>2. p \in Nat /\ 255 * p <= 1000 * b + 127
    <2>1. 1000 * b \in Nat
      OBVIOUS
    <2> QED BY <2>1, Half255
  <1>3. q \in Nat /\ 5 * q <= p + 2
    <2> HIDE DEF p
    <2> QED BY <1>2, Half5
  <1>4. ColourRaw(b) = c /\ PlainRaw(b) = q
    BY DEF ColourRaw, PlainRaw
  <1> HIDE DEF c, p, q
  <1>5. c <= 250 /\ q <= 200
    BY <1>1, <1>2, <1>3
  <1> QED BY <1>1, <1>3, <1>4, <1>5

LEMMA ShownType ==
    ASSUME NEW raw \in 0..254
    PROVE  To255(raw) \in 0..255
  <1> DEFINE b == RoundDiv(51 * raw, 50)
  <1>1. b \in Nat
    <2>1. 51 * raw \in Nat
      OBVIOUS
    <2> QED BY <2>1, Half50
  <1>2. To255(raw) = Least(255, b)
    BY DEF To255
  <1> HIDE DEF b
  <1> QED BY <1>1, <1>2 DEF Least

LEMMA NamedFrames ==
    ASSUME NEW s \in Switches, NEW colour, DOMAIN colour \subseteq 1..3,
           \A k \in DOMAIN colour : colour[k] \in 0..255, now \in 0..MaxTime
    PROVE  Frames(Named(s, colour))
  <1> DEFINE frame(k) == IF k \in DOMAIN colour
                         THEN <<DimmerFrame(Rgb[s][k], ColourRaw(colour[k]), 0)>> ELSE <<>>
  <1>1. ASSUME NEW k \in 1..3
        PROVE  Frames(frame(k))
    <2>1. CASE k \in DOMAIN colour
      <3>1. Rgb[s][k] \in Instances
        BY DEF Instances, Channels
      <3>2. ColourRaw(colour[k]) \in 0..255
        <4>1. ColourRaw(colour[k]) \in 0..250
          BY <2>1, RawsOf
        <4> QED BY <4>1
      <3>3. Frames(<<DimmerFrame(Rgb[s][k], ColourRaw(colour[k]), 0)>>)
        BY <3>1, <3>2, DimmerFrames
      <3> QED BY <2>1, <3>3
    <2>2. CASE k \notin DOMAIN colour
      <3>1. Frames(<<>>)
        BY DEF Frames
      <3> QED BY <2>2, <3>1
    <2> QED BY <2>1, <2>2
  <1>2. Named(s, colour) = frame(1) \o frame(2) \o frame(3)
    BY DEF Named
  <1> HIDE DEF frame
  <1>3. Frames(frame(1)) /\ Frames(frame(2)) /\ Frames(frame(3))
    BY <1>1
  <1>4. Frames(frame(1) \o frame(2))
    BY <1>3, Joined
  <1>5. Frames((frame(1) \o frame(2)) \o frame(3))
    BY <1>3, <1>4, Joined
  <1> QED BY <1>2, <1>5

LEMMA ColourTypes ==
    ASSUME DimTypeOK, NEW s \in Switches, NEW b \in 0..255,
           NEW colour, DOMAIN colour \subseteq 1..3,
           \A k \in DOMAIN colour : colour[k] \in 0..255, Colour(s, b, colour)
    PROVE  DimTypeOK'
  <1>1. now \in 0..MaxTime
    BY DEF DimTypeOK
  <1>2. Frames(<<DimmerFrame(s, ColourRaw(b), 0)>>)
    <2>1. s \in Instances
      BY DEF Instances
    <2>2. ColourRaw(b) \in 0..250
      BY RawsOf
    <2>3. ColourRaw(b) \in 0..255
      BY <2>2
    <2> QED BY <1>1, <2>1, <2>3, DimmerFrames
  <1>3. Frames(Named(s, colour))
    BY <1>1, NamedFrames
  <1>4. Frames(<<DimmerFrame(s, ColourRaw(b), 0)>> \o Named(s, colour))
    BY <1>2, <1>3, Joined
  <1>5. Transmit(<<DimmerFrame(s, ColourRaw(b), 0)>> \o Named(s, colour))
    BY DEF Colour
  <1> QED BY <1>4, <1>5, TransmitTypes

\* What is shown of the channels of a colour fixture.
ShownColour(s) == [k \in 1..3 |-> Shown(Rgb[s][k])]

LEMMA ShownLevels ==
    ASSUME DimTypeOK, NEW i \in Instances
    PROVE  Shown(i) \in 0..255
  <1>1. observed[i] \in -1..254
    BY DEF DimTypeOK
  <1>2. CASE observed[i] = Unseen
    <2>1. Shown(i) = 0
      BY <1>2 DEF Shown
    <2> QED BY <2>1
  <1>3. CASE observed[i] # Unseen
    <2>1. observed[i] \in 0..254 /\ Shown(i) = To255(observed[i])
      BY <1>1, <1>3 DEF Shown, Unseen
    <2>2. \A raw \in 0..254 : To255(raw) \in 0..255
      BY ShownType
    <2>3. To255(observed[i]) \in 0..255
      BY <2>1, <2>2
    <2> QED BY <2>1, <2>3
  <1> QED BY <1>2, <1>3

LEMMA ShownColourType ==
    ASSUME DimTypeOK, NEW s \in Switches
    PROVE  /\ Shown(s) \in 0..255
           /\ DOMAIN ShownColour(s) = 1..3
           /\ \A k \in DOMAIN ShownColour(s) : ShownColour(s)[k] \in 0..255
  <1>1. s \in Instances /\ \A k \in 1..3 : Rgb[s][k] \in Instances
    BY DEF Instances, Channels
  <1> QED BY <1>1, ShownLevels DEF ShownColour

LEMMA DimStepType ==
    ASSUME DimTypeOK, DimNext
    PROVE  DimTypeOK'
  <1>1. now \in 0..MaxTime
    BY DEF DimTypeOK
  <1>2. ASSUME NEW i \in Instances, NEW raw \in 0..255, Transmit(<<DimmerFrame(i, raw, 0)>>)
        PROVE  DimTypeOK'
    BY <1>1, <1>2, DimmerFrames, TransmitTypes
  <1>3. ASSUME NEW i \in Instances, NEW on \in BOOLEAN, Switch(i, on)
        PROVE  DimTypeOK'
    <2>1. (IF on THEN 200 ELSE 0) \in 0..255
      OBVIOUS
    <2> QED BY <1>2, <1>3, <2>1 DEF Switch
  <1>4. ASSUME NEW i \in Instances, NEW b \in 0..255, Dim(i, b)
        PROVE  DimTypeOK'
    <2>1. PlainRaw(b) \in 0..200
      BY RawsOf
    <2>2. PlainRaw(b) \in 0..255
      BY <2>1
    <2> QED BY <1>2, <1>4, <2>2 DEF Dim
  <1>5. ASSUME NEW i \in Panels, PressShort(i)
        PROVE  DimTypeOK'
    <2>1. i \in Instances
      BY DimmingAssumption
    <2> QED BY <1>1, <1>5, <2>1, ShortFrames, BroadcastTypes DEF PressShort
  <1>6. ASSUME NEW i \in Panels, NEW raw \in Raws, Press(i, raw)
        PROVE  DimTypeOK'
    <2>1. i \in Instances /\ raw \in 0..255
      BY DimmingAssumption
    <2> QED BY <1>1, <1>6, <2>1, DimmerFrames, BroadcastTypes DEF Press
  <1>7. ASSUME NEW i \in Lights, Dim(i, Shown(i))
        PROVE  DimTypeOK'
    <2>1. i \in Instances
      BY DEF Instances
    <2>2. Shown(i) \in 0..255
      BY <2>1, ShownLevels
    <2> QED BY <1>4, <1>7, <2>1, <2>2
  <1>8. ASSUME NEW s \in Switches, RestoreColour(s)
        PROVE  DimTypeOK'
    <2>1. CASE Colour(s, 0, <<>>)
      <3>1. 0 \in 0..255 /\ DOMAIN <<>> = {}
        OBVIOUS
      <3>2. DOMAIN <<>> \subseteq 1..3 /\ \A k \in DOMAIN <<>> : <<>>[k] \in 0..255
        BY <3>1
      <3> QED BY <2>1, <3>1, <3>2, ColourTypes
    <2>2. CASE Colour(s, Shown(s), ShownColour(s))
      <3>1. /\ Shown(s) \in 0..255 /\ DOMAIN ShownColour(s) \subseteq 1..3
            /\ \A k \in DOMAIN ShownColour(s) : ShownColour(s)[k] \in 0..255
        BY ShownColourType
      <3> QED BY <2>2, <3>1, ColourTypes
    <2> QED BY <1>8, <2>1, <2>2 DEF RestoreColour, ShownColour
  <1>9. ASSUME NEW s \in Switches, NEW b \in Brightness, NEW c \in Colours, Colour(s, b, c)
        PROVE  DimTypeOK'
    <2>1. b \in 0..255 /\ DOMAIN c \subseteq 1..3 /\ \A k \in DOMAIN c : c[k] \in 0..255
      BY DimmingAssumption
    <2> QED BY <1>9, <2>1, ColourTypes
  <1>10. ASSUME NEW r \in Requests, KnownFields(r), AllFit(r)
         PROVE  Frames(<<FrameOf(r)>>)
    <2> DEFINE bytes == FrameOf(r).bytes
    <2>1. r.dgn \in DOMAIN Layouts /\ FrameOf(r) = Of(r.dgn, bytes) /\ bytes \in Payload
      BY <1>10, FrameOfSays
    <2> HIDE DEF bytes
    <2> QED BY <1>1, <2>1, EightBytes
  <1>11. ASSUME NEW r \in Requests, Report(r)
         PROVE  DimTypeOK'
    BY <1>10, <1>11, BroadcastTypes DEF Report
  <1>12. ASSUME NEW r \in Requests, Generic(r)
         PROVE  DimTypeOK'
    BY <1>10, <1>12, TransmitTypes DEF Generic
  <1>13. ASSUME NEW r \in Requests, Overflow(r)
         PROVE  DimTypeOK'
    <2>1. observed' \in [Instances -> -1..254]
      BY <1>13 DEF Overflow, Unseen
    <2>2. listen' = listen /\ lamp' = lamp /\ log' = log /\ now' = now
      BY <1>13 DEF Overflow
    <2> QED BY <2>1, <2>2, LogOfType, TypesAfter
  <1>14. CASE Tick
    <2>1. now' = now + 1 /\ now' \in 0..MaxTime
      BY <1>1, <1>14, DimmingAssumption DEF Tick
    <2>2. listen' = listen /\ lamp' = lamp /\ log' = log /\ observed' = observed
      BY <1>14 DEF Tick
    <2>3. LogTyped(log, now')
      <3>1. LogTyped(log, now)
        BY LogOfType
      <3>2. ASSUME NEW k \in 1..Len(log)
            PROVE  log[k].time <= now'
        <4>1. log[k] \in FrameType /\ log[k].time <= now
          BY <3>1, ElementOfSeq DEF LogTyped
        <4>2. log[k].time \in Int
          BY <4>1 DEF FrameType
        <4> QED BY <1>1, <2>1, <4>1, <4>2
      <3> QED BY <3>1, <3>2 DEF LogTyped
    <2> QED BY <2>1, <2>2, <2>3, LogOfType, TypesAfter
  <1>15. \A i \in Lights : i \in Instances
    BY DEF Instances
  <1>16. ASSUME NEW i \in Lights, NEW b \in Brightness, Dim(i, b)
         PROVE  DimTypeOK'
    <2>1. i \in Instances /\ b \in 0..255
      BY <1>15, DimmingAssumption
    <2> QED BY <1>4, <1>16, <2>1
  <1>17. ASSUME NEW i \in Lights, NEW b \in Brightness \cup {Shown(i)}, Dim(i, b)
         PROVE  DimTypeOK'
    BY <1>7, <1>16, <1>17
  <1> QED BY <1>3, <1>5, <1>6, <1>8, <1>9, <1>11, <1>12, <1>13, <1>14, <1>15, <1>17 DEF DimNext

LEMMA LevelsTyped == Spec => []DimTypeOK
  <1>1. Init => DimTypeOK
    BY DimInitType DEF Init
  <1>2. DimTypeOK /\ [Next]_vars => DimTypeOK'
    <2> SUFFICES ASSUME DimTypeOK, [Next]_vars PROVE DimTypeOK'
      OBVIOUS
    <2>1. CASE DimNext
      BY <2>1, DimStepType
    <2>2. CASE UNCHANGED dimVars
      BY <2>2 DEF dimVars, DimTypeOK
    <2> QED BY <2>1, <2>2 DEF Next, vars
  <1> QED BY <1>1, <1>2, PTL DEF Spec

\* The invariant of the capture: types of the levels, and what reassemble_tp holds.
THEOREM CaptureCorrect == Spec => []CaptureInv
  <1>1. Init => kind \in {"levels", "transfers"}
    BY DEF Init
  <1>2. kind \in {"levels", "transfers"} /\ [Next]_vars => (kind \in {"levels", "transfers"})'
    BY DEF Next, vars
  <1>3. kind \in {"levels", "transfers"} /\ DimTypeOK /\ TpInv => CaptureInv
    BY DEF CaptureInv, TypeOK, TpInv
  <1> QED BY <1>1, <1>2, <1>3, LevelsTyped, TransfersCorrect, PTL DEF Spec

-----------------------------------------------------------------------------
(* Verify-encoder *)

\* Whoever sent it, the last recorded command, if it gives a level, is re-encoded
\* with the same instance, level and command (verify_encoder).
THEOREM CommandsVerify == Spec => []CommandsReencode
  <1>1. DimTypeOK => CommandsReencode
    <2> SUFFICES ASSUME DimTypeOK, log # <<>>, HasLevel(Last(log))
                 PROVE  SameKeyFields(Last(log), Rebuilt(Last(log)))
      BY DEF CommandsReencode
    <2> DEFINE fr == Last(log)
               i == InstanceOf(fr)
               raw == LevelOf(fr)
               command == RawOf(fr, "command")
               other == Rebuilt(fr)
    <2>1. IsFrame(fr)
      <3>1. log \in Seq(FrameType) /\ \A k \in 1..Len(log) : Len(log[k].bytes) \in {2, 8}
        BY LogOfType DEF LogTyped
      <3>2. Len(log) \in 1..Len(log)
        BY <3>1
      <3>3. log[Len(log)] \in FrameType
        BY <3>1, <3>2, ElementOfSeq
      <3> QED BY <3>1, <3>2, <3>3 DEF IsFrame, Last
    <2> HIDE DEF fr
    <2>2. fr.dgn = Dimmer /\ fr.bytes \in Payload /\ raw \in 0..254
      BY <2>1, TellsLevel DEF fr
    <2>3. i \in 0..255 /\ command \in 0..255 /\ raw \in 0..255
      <3>1. fr.dgn = Dimmer /\ fr.bytes \in Payload
        BY <2>2
      <3>2. InstanceOf(fr) = fr.bytes[1] /\ fr.bytes[1] \in 0..255
        BY ZenonT(30), <3>1, DimmerRaw
      <3>3. RawOf(fr, "command") = fr.bytes[4] /\ fr.bytes[4] \in 0..255
        BY ZenonT(30), <3>1, DimmerRaw
      <3>4. i \in 0..255 /\ command \in 0..255
        BY <3>2, <3>3
      <3> HIDE DEF i, raw, command
      <3> QED BY <2>2, <3>4
    <2>4. other = DimmerFrame(i, raw, command)
      BY DEF Rebuilt
    <2> HIDE DEF i, raw, command, other
    <2>5. IsCommand(other, i, raw, command)
      BY <2>3, <2>4, DimmerFrameSays
    <2>6. /\ RawOf(fr, "instance") = RawOf(other, "instance")
          /\ RawOf(fr, "desired_level") = RawOf(other, "desired_level")
          /\ RawOf(fr, "command") = RawOf(other, "command")
      BY <2>5 DEF IsCommand, InstanceOf, LevelOf, i, raw, command
    <2> QED BY <2>6 DEF SameKeyFields, KeyFields, fr, other
  <1> QED BY <1>1, LevelsTyped, PTL

-----------------------------------------------------------------------------
(* What is shown, sent back *)

LEMMA ColourHolds ==
    ASSUME NEW raw \in 0..254
    PROVE  ColourRaw(To255(raw)) = Least(raw, 250)
  <1>1. CASE raw <= 250
    <2>1. raw \in 0..250
      BY <1>1
    <2>2. ColourRaw(To255(raw)) = raw
      BY <2>1, ColourLevelsReturn
    <2> QED BY <1>1, <2>2 DEF Least
  <1>2. CASE raw > 250
    <2> DEFINE b == RoundDiv(51 * raw, 50)
    <2>1. b \in Nat /\ 51 * raw <= 50 * b + 25
      <3>1. 51 * raw \in Nat
        OBVIOUS
      <3> QED BY <3>1, Half50
    <2>2. To255(raw) = Least(255, b)
      BY DEF To255
    <2> HIDE DEF b
    <2>3. b >= 255
      BY <1>2, <2>1
    <2>4. To255(raw) = 255
      BY <2>1, <2>2, <2>3 DEF Least
    <2>5. ColourRaw(255) = 250
      BY DEF ColourRaw, RoundDiv
    <2>6. Least(raw, 250) = 250
      BY <1>2 DEF Least
    <2> QED BY <2>4, <2>5, <2>6
  <1> QED BY <1>1, <1>2

\* What is shown of a part comes back as the level it is shown at, and a part is shown off
\* if that is nothing.
LEMMA AsShownIs ==
    ASSUME DimTypeOK, NEW i \in Instances
    PROVE  /\ AsShown(i) \in 0..250
           /\ ColourRaw(Shown(i)) = AsShown(i)
           /\ Shown(i) = 0 <=> AsShown(i) = 0
  <1>1. observed[i] \in -1..254
    BY DEF DimTypeOK
  <1>2. ColourRaw(0) = 0
    BY DEF ColourRaw, RoundDiv
  <1>3. CASE observed[i] = Unseen
    <2>1. Shown(i) = 0 /\ AsShown(i) = 0
      BY <1>3 DEF Shown, AsShown
    <2> QED BY <1>2, <2>1
  <1>4. CASE observed[i] # Unseen
    <2>1. /\ observed[i] \in 0..254 /\ Shown(i) = To255(observed[i])
          /\ AsShown(i) = Least(observed[i], 250)
      BY <1>1, <1>4 DEF Shown, AsShown, Unseen
    <2>2. ColourRaw(Shown(i)) = AsShown(i)
      BY <2>1, ColourHolds
    <2>3. AsShown(i) \in 0..250
      BY <2>1 DEF Least
    <2>4. AsShown(i) = 0 => Shown(i) = 0
      <3>1. SUFFICES ASSUME AsShown(i) = 0 PROVE Shown(i) = 0
        OBVIOUS
      <3>2. observed[i] = 0
        BY <2>1, <3>1 DEF Least
      <3>3. To255(0) = 0
        BY DEF To255, RoundDiv, Least
      <3> QED BY <2>1, <3>2, <3>3
    <2>5. Shown(i) = 0 => AsShown(i) = 0
      BY <1>2, <2>2
    <2> QED BY <2>2, <2>3, <2>4, <2>5
  <1> QED BY <1>3, <1>4

\* The frame that gives a part the level it is shown at.
Back(i) == DimmerFrame(i, AsShown(i), 0)

LEMMA BackSays ==
    ASSUME DimTypeOK, NEW i \in Instances
    PROVE  /\ Frames(<<Back(i)>>)
           /\ HasLevel(Back(i)) /\ InstanceOf(Back(i)) = i /\ LevelOf(Back(i)) = AsShown(i)
  <1>1. AsShown(i) \in 0..250 /\ now \in 0..MaxTime
    BY AsShownIs DEF DimTypeOK
  <1> DEFINE raw == AsShown(i)
  <1>2. raw \in 0..254 /\ raw \in 0..255 /\ i \in 0..255 /\ 0 \in 0..255
    BY <1>1, DimmingAssumption
  <1> HIDE DEF raw
  <1>3. IsCommand(DimmerFrame(i, raw, 0), i, raw, 0)
    BY <1>2, DimmerFrameSays
  <1>4. Frames(<<DimmerFrame(i, raw, 0)>>)
    BY <1>1, <1>2, DimmerFrames
  <1>5. Back(i) = DimmerFrame(i, raw, 0)
    BY DEF Back, raw
  <1>6. /\ HasLevel(DimmerFrame(i, raw, 0)) /\ InstanceOf(DimmerFrame(i, raw, 0)) = i
        /\ LevelOf(DimmerFrame(i, raw, 0)) = raw
    BY <1>2, <1>3 DEF IsCommand
  <1> QED BY <1>4, <1>5, <1>6 DEF raw

LEMMA NamedScene ==
    ASSUME NEW s \in Switches, NEW colour, DOMAIN colour \subseteq 1..3
    PROVE  Range(Named(s, colour))
              = {DimmerFrame(Rgb[s][k], ColourRaw(colour[k]), 0) : k \in DOMAIN colour}
  <1> DEFINE fr(k) == DimmerFrame(Rgb[s][k], ColourRaw(colour[k]), 0)
             frame(k) == IF k \in DOMAIN colour THEN <<fr(k)>> ELSE <<>>
             S == {fr(k) : k \in 1..3}
  <1>1. Named(s, colour) = frame(1) \o frame(2) \o frame(3)
    BY DEF Named
  <1> HIDE DEF fr
  <1>2. ASSUME NEW k \in 1..3
        PROVE  frame(k) \in Seq(S) /\ Range(frame(k)) = {fr(c) : c \in DOMAIN colour \cap {k}}
    <2>1. CASE k \in DOMAIN colour
      <3>1. frame(k) = <<fr(k)>> /\ fr(k) \in S
        BY <2>1
      <3> HIDE DEF frame, S
      <3>2. frame(k) \in Seq(S) /\ Len(frame(k)) = 1 /\ frame(k)[1] = fr(k)
        BY <3>1
      <3>3. Range(frame(k)) = {frame(k)[j] : j \in 1..1}
        BY <3>2, RangeEquality
      <3>4. Range(frame(k)) = {fr(k)} /\ DOMAIN colour \cap {k} = {k}
        BY <2>1, <3>2, <3>3
      <3> QED BY <3>2, <3>4
    <2>2. CASE k \notin DOMAIN colour
      <3>1. frame(k) = <<>> /\ DOMAIN colour \cap {k} = {}
        BY <2>2
      <3>2. frame(k) \in Seq(S) /\ Len(frame(k)) = 0
        BY <3>1
      <3> HIDE DEF frame, S
      <3>3. Range(frame(k)) = {frame(k)[j] : j \in 1..0}
        BY <3>2, RangeEquality
      <3>4. Range(frame(k)) = {}
        BY <3>3
      <3> QED BY <3>1, <3>2, <3>4
    <2> QED BY <2>1, <2>2
  <1> HIDE DEF frame, S
  <1>3. frame(1) \in Seq(S) /\ frame(2) \in Seq(S) /\ frame(3) \in Seq(S)
    BY <1>2
  <1>4. /\ frame(1) \o frame(2) \in Seq(S)
        /\ Range(frame(1) \o frame(2)) = Range(frame(1)) \cup Range(frame(2))
    BY <1>3, RangeConcatenation, ConcatProperties
  <1>5. Range((frame(1) \o frame(2)) \o frame(3))
           = (Range(frame(1)) \cup Range(frame(2))) \cup Range(frame(3))
    <2> DEFINE two == frame(1) \o frame(2)
               three == frame(3)
    <2>1. two \in Seq(S) /\ three \in Seq(S)
      BY <1>3, <1>4
    <2> HIDE DEF two, three
    <2>2. Range(two \o three) = Range(two) \cup Range(three)
      BY <2>1, RangeConcatenation
    <2> QED BY <1>4, <2>2 DEF two, three
  <1>6. Range(frame(1)) = {fr(c) : c \in DOMAIN colour \cap {1}}
    BY <1>2
  <1>7. Range(frame(2)) = {fr(c) : c \in DOMAIN colour \cap {2}}
    BY <1>2
  <1>8. Range(frame(3)) = {fr(c) : c \in DOMAIN colour \cap {3}}
    BY <1>2
  <1>9. Range(Named(s, colour)) = {fr(c) : c \in DOMAIN colour}
    BY <1>1, <1>5, <1>6, <1>7, <1>8
  <1> QED BY <1>9 DEF fr

\* Frames that give the parts of a set, and no others, the level they are shown at.
LEMMA BroughtBack ==
    ASSUME DimTypeOK, NEW frames, Frames(frames), NEW told \in SUBSET Instances,
           Range(frames) = {Back(i) : i \in told}, NEW i \in Instances
    PROVE  After(frames, lamp)[i] = IF i \in told THEN AsShown(i) ELSE lamp[i]
  <1>1. Range(frames) = {frames[k] : k \in 1..Len(frames)}
    BY RangeEquality DEF Frames
  <1>2. ASSUME NEW k \in 1..Len(frames)
        PROVE  \E j \in told : frames[k] = Back(j)
    BY <1>1
  <1>3. ASSUME NEW k \in Telling(frames, i)
        PROVE  i \in told /\ LevelOf(frames[k]) = AsShown(i)
    <2>1. k \in 1..Len(frames) /\ InstanceOf(frames[k]) = i
      BY <1>3 DEF Telling
    <2>2. PICK j \in told : frames[k] = Back(j)
      BY <1>2, <2>1
    <2>3. j = i
      BY <2>1, <2>2, BackSays
    <2> QED BY <2>2, <2>3, BackSays
  <1>4. CASE i \in told
    <2>1. PICK k \in 1..Len(frames) : frames[k] = Back(i)
      BY <1>1, <1>4
    <2>2. k \in Telling(frames, i)
      BY <2>1, BackSays DEF Telling
    <2>3. \A m \in Telling(frames, i) : LevelOf(frames[m]) = AsShown(i)
      BY <1>3
    <2> QED BY <1>4, <2>2, <2>3, AfterTold
  <1>5. CASE i \notin told
    <2>1. Telling(frames, i) = {}
      BY <1>3, <1>5
    <2> QED BY <1>5, <2>1 DEF After
  <1> QED BY <1>4, <1>5

LEMMA OneInRange ==
    ASSUME NEW x
    PROVE  Range(<<x>>) = {x}
  <1>1. <<x>> \in Seq({x}) /\ Len(<<x>>) = 1 /\ <<x>>[1] = x
    OBVIOUS
  <1>2. Range(<<x>>) = {<<x>>[j] : j \in 1..1}
    BY <1>1, RangeEquality
  <1> QED BY <1>1, <1>2

\* A fixture that is shown off is sent one frame, for its switch.
LEMMA OffRestored ==
    ASSUME DimTypeOK, NEW s \in Switches, RestoreColour(s), AsShown(s) = 0, NEW i \in Instances
    PROVE  lamp'[i] = IF i \in {s} THEN AsShown(i) ELSE lamp[i]
  <1>1. s \in Instances
    BY DEF Instances
  <1>2. Colour(s, 0, <<>>)
    BY <1>1, AsShownIs DEF RestoreColour
  <1>3. DimmerFrame(s, ColourRaw(0), 0) = Back(s)
    <2>1. ColourRaw(0) = 0
      BY DEF ColourRaw, RoundDiv
    <2> QED BY <2>1 DEF Back
  <1>4. Named(s, <<>>) = <<>>
    BY DEF Named
  <1>5. <<Back(s)>> \o <<>> = <<Back(s)>>
    OBVIOUS
  <1>6. Transmit(<<Back(s)>>)
    BY <1>2, <1>3, <1>4, <1>5 DEF Colour
  <1>7. lamp' = After(<<Back(s)>>, lamp)
    BY <1>6 DEF Transmit, OnBus
  <1>8. Frames(<<Back(s)>>) /\ Range(<<Back(s)>>) = {Back(j) : j \in {s}}
    BY <1>1, BackSays, OneInRange
  <1>9. {s} \in SUBSET Instances
    BY <1>1
  <1>10. After(<<Back(s)>>, lamp)[i] = IF i \in {s} THEN AsShown(i) ELSE lamp[i]
    BY <1>8, <1>9, BroughtBack
  <1> QED BY <1>7, <1>10

\* One that is shown on is sent a frame for its switch and one for each channel.
LEMMA OnRestored ==
    ASSUME DimTypeOK, NEW s \in Switches, RestoreColour(s), AsShown(s) # 0, NEW i \in Instances
    PROVE  lamp'[i] = IF i \in {s} \cup {Rgb[s][k] : k \in 1..3} THEN AsShown(i) ELSE lamp[i]
  <1> DEFINE colour == ShownColour(s)
             first == DimmerFrame(s, ColourRaw(Shown(s)), 0)
             rest == Named(s, colour)
             told == {s} \cup {Rgb[s][k] : k \in 1..3}
  <1>1. s \in Instances /\ \A k \in 1..3 : Rgb[s][k] \in Instances
    BY DEF Instances, Channels
  <1>2. Colour(s, Shown(s), colour)
    BY <1>1, AsShownIs DEF RestoreColour, ShownColour
  <1>3. /\ DOMAIN colour = 1..3
        /\ \A k \in DOMAIN colour : colour[k] \in 0..255 /\ colour[k] = Shown(Rgb[s][k])
    BY ShownColourType DEF ShownColour
  <1>4. first = Back(s)
    BY <1>1, AsShownIs DEF Back
  <1>5. \A k \in 1..3 : DimmerFrame(Rgb[s][k], ColourRaw(colour[k]), 0) = Back(Rgb[s][k])
    <2> TAKE k \in 1..3
    <2>1. colour[k] = Shown(Rgb[s][k]) /\ Rgb[s][k] \in Instances
      BY <1>1, <1>3
    <2>2. ColourRaw(colour[k]) = AsShown(Rgb[s][k])
      BY <2>1, AsShownIs
    <2> QED BY <2>2 DEF Back
  <1>6. now \in 0..MaxTime
    BY DEF DimTypeOK
  <1> HIDE DEF colour
  <1>7. Frames(rest)
    BY <1>3, <1>6, NamedFrames
  <1>8. Range(rest) = {Back(Rgb[s][k]) : k \in 1..3}
    <2>1. Range(rest) = {DimmerFrame(Rgb[s][k], ColourRaw(colour[k]), 0) : k \in DOMAIN colour}
      BY <1>3, NamedScene
    <2> QED BY <1>3, <1>5, <2>1
  <1>9. lamp' = After(<<first>> \o rest, lamp)
    BY <1>2 DEF Colour, Transmit, OnBus
  <1>10. Frames(<<first>>) /\ Range(<<first>>) = {Back(s)}
    BY <1>1, <1>4, BackSays, OneInRange
  <1> HIDE DEF first, rest
  <1>11. Frames(<<first>> \o rest)
    BY <1>7, <1>10, Joined
  <1>12. Range(<<first>> \o rest) = {Back(s)} \cup {Back(Rgb[s][k]) : k \in 1..3}
    <2> DEFINE one == <<first>>
    <2>1. one \in Seq(FrameType) /\ rest \in Seq(FrameType)
      BY <1>7, <1>10 DEF Frames
    <2> HIDE DEF one
    <2>2. Range(one \o rest) = Range(one) \cup Range(rest)
      BY <2>1, RangeConcatenation
    <2> QED BY <1>8, <1>10, <2>2 DEF one
  <1>13. Range(<<first>> \o rest) = {Back(j) : j \in told}
    BY <1>12
  <1>14. told \in SUBSET Instances
    BY <1>1
  <1> HIDE DEF told
  <1>15. After(<<first>> \o rest, lamp)[i] = IF i \in told THEN AsShown(i) ELSE lamp[i]
    BY <1>11, <1>13, <1>14, BroughtBack
  <1> QED BY <1>9, <1>15 DEF told

\* However its levels came about, sending a colour fixture what Home Assistant shows of it
\* gives every part of it the very level it is shown at, leaves the channels alone if it is
\* shown off, and moves nothing else (rgb_state_payload, _encode_rgb_command).
THEOREM ShownComesBack == Spec => LevelsReturn
  <1> DEFINE Channel(s) == {Rgb[s][1], Rgb[s][2], Rgb[s][3]}
             Told(s) == IF AsShown(s) = 0 THEN {s} ELSE {s} \cup Channel(s)
  <1>1. ASSUME DimTypeOK, NEW s \in Switches, RestoreColour(s), NEW i \in Instances
        PROVE  lamp'[i] = IF i \in Told(s) THEN AsShown(i) ELSE lamp[i]
    <2>1. {Rgb[s][k] : k \in 1..3} = Channel(s)
      OBVIOUS
    <2>2. CASE AsShown(s) = 0
      BY <1>1, <2>2, OffRestored
    <2>3. CASE AsShown(s) # 0
      BY <1>1, <2>1, <2>3, OnRestored
    <2> QED BY <2>2, <2>3
  <1>2. DimTypeOK /\ [Next]_vars
           => [\A s \in Switches : RestoreColour(s) =>
                  LET channels == {Rgb[s][1], Rgb[s][2], Rgb[s][3]}
                      told == IF AsShown(s) = 0 THEN {s} ELSE {s} \cup channels
                  IN  \A i \in Instances :
                         lamp'[i] = IF i \in told THEN AsShown(i) ELSE lamp[i]]_vars
    BY <1>1
  <1> QED BY <1>2, LevelsTyped, PTL DEF Spec, LevelsReturn

-----------------------------------------------------------------------------
(* Requests *)

\* A value that fits a whole field is kept, and of one for bits, what is in them.
LEMMA KeptIsModulo ==
    ASSUME NEW d \in Field, NEW raw \in Int, Fits(d, raw)
    PROVE  raw % (Ones(d) + 1) = Kept(d, raw)
  <1>1. CASE d.width = 0
    <2> DEFINE n == Span(d)
    <2>1. n \in {1, 2, 3, 4}
      BY DEF Field, Span
    <2>2. raw \in 0 .. Big(n) - 1 /\ Ones(d) = Big(n) - 1 /\ Kept(d, raw) = raw
      BY <1>1 DEF Fits, Ones, Kept, Big
    <2> HIDE DEF n
    <2>3. Big(n) \in Nat
      BY <2>1, Bigs
    <2>4. raw % ((Big(n) - 1) + 1) = raw
      <3> DEFINE big == Big(n)
      <3>1. big \in Nat /\ raw \in 0 .. big - 1
        BY <2>2, <2>3
      <3> HIDE DEF big
      <3>2. raw % ((big - 1) + 1) = raw
        <4>1. (big - 1) + 1 = big /\ raw \in Nat /\ raw < big
          BY <3>1
        <4> QED BY <3>1, <4>1
      <3> QED BY <3>2 DEF big
    <2> QED BY <2>2, <2>4
  <1>2. CASE d.width # 0
    <2>1. d.width \in 0..8
      BY DEF Field
    <2>2. Ones(d) = Two(d.width) - 1 /\ Kept(d, raw) = raw % Two(d.width)
      BY <1>2 DEF Ones, Kept, Two
    <2>3. Two(d.width) \in Int
      <3>1. Two(d.width) \in Nat
        BY <2>1, TwoType
      <3> QED BY <3>1
    <2>4. (Two(d.width) - 1) + 1 = Two(d.width)
      BY <2>3
    <2> QED BY <2>2, <2>4
  <1> QED BY <1>1, <1>2

\* What goes out on the generic path is on the list and says what the request says,
\* each bit field within its width, and "not available" of everything else
\* (_encode_raw, encode_fields).
THEOREM GenericSays == Spec => GenericIsSaid
  <1>1. ASSUME DimTypeOK, NEW r \in Requests, Generic(r)
        PROVE  /\ r.dgn \in Allowlist
               /\ \A f \in DOMAIN Layouts[r.dgn] :
                     RawOf(Last(log'), f) = IF f \in DOMAIN ValuesOf(r)
                                            THEN ValuesOf(r)[f] % (AllOnes(r.dgn, f) + 1)
                                            ELSE AllOnes(r.dgn, f)
    <2>1. KnownFields(r) /\ AllFit(r) /\ r.dgn \in Allowlist
      BY <1>1 DEF Generic, Allowed
    <2> DEFINE fr == FrameOf(r)
    <2>2. log' = log \o <<fr>>
      BY <1>1 DEF Generic, Transmit, OnBus
    <2>3. \A f \in DOMAIN Layouts[r.dgn] :
             RawOf(fr, f) = IF f \in DOMAIN ValuesOf(r) THEN Kept(Layouts[r.dgn][f], ValuesOf(r)[f])
                            ELSE Ones(Layouts[r.dgn][f])
      BY <2>1, FrameOfSays
    <2> HIDE DEF fr
    <2>4. Last(log') = fr
      <3> DEFINE S == FrameType \cup {fr}
      <3>1. log \in Seq(FrameType)
        BY <1>1, LogOfType DEF LogTyped
      <3>2. log \in Seq(S) /\ <<fr>> \in Seq(S) /\ Len(<<fr>>) = 1 /\ <<fr>>[1] = fr
        <4>1. FrameType \subseteq S /\ fr \in S
          OBVIOUS
        <4> HIDE DEF S
        <4> QED BY <3>1, <4>1, SeqMonotonic
      <3> HIDE DEF S
      <3>3. /\ Len(log \o <<fr>>) = Len(log) + 1
            /\ \A k \in 1 .. Len(log) + 1 :
                  (log \o <<fr>>)[k] = IF k <= Len(log) THEN log[k] ELSE <<fr>>[k - Len(log)]
        BY <3>2, ConcatProperties
      <3>4. Len(log) \in Nat
        BY <3>2, LenProperties
      <3>5. (log \o <<fr>>)[Len(log) + 1] = <<fr>>[1]
        <4>1. Len(log) + 1 \in 1 .. Len(log) + 1 /\ ~(Len(log) + 1 <= Len(log))
              /\ (Len(log) + 1) - Len(log) = 1
          BY <3>4
        <4> QED BY <3>3, <4>1
      <3> QED BY <2>2, <3>2, <3>3, <3>5 DEF Last
    <2>5. ASSUME NEW f \in DOMAIN Layouts[r.dgn]
          PROVE  AllOnes(r.dgn, f) = Ones(Layouts[r.dgn][f])
      BY DEF AllOnes, Ones
    <2>6. ASSUME NEW f \in DOMAIN Layouts[r.dgn], f \in DOMAIN ValuesOf(r)
          PROVE  Kept(Layouts[r.dgn][f], ValuesOf(r)[f])
                    = ValuesOf(r)[f] % (Ones(Layouts[r.dgn][f]) + 1)
      <3>1. Layouts[r.dgn][f] \in Field
        BY RequestsAssumption, LayoutsAssumption
      <3>2. ValuesOf(r)[f] \in Int
        BY <2>6, RequestsAssumption DEF ValuesOf
      <3>3. Fits(Layouts[r.dgn][f], ValuesOf(r)[f])
        BY <2>1, <2>6 DEF AllFit
      <3> DEFINE d == Layouts[r.dgn][f]
                 v == ValuesOf(r)[f]
      <3>4. d \in Field /\ v \in Int /\ Fits(d, v)
        BY <3>1, <3>2, <3>3
      <3> HIDE DEF d, v
      <3>5. v % (Ones(d) + 1) = Kept(d, v)
        BY <3>4, KeptIsModulo
      <3> QED BY <3>5 DEF d, v
    <2> QED BY <2>1, <2>3, <2>4, <2>5, <2>6
  <1>2. DimTypeOK /\ [Next]_vars
           => [\A r \in Requests :
                  Generic(r) =>
                     /\ r.dgn \in Allowlist
                     /\ \A f \in DOMAIN Layouts[r.dgn] :
                           RawOf(Last(log'), f) = IF f \in DOMAIN ValuesOf(r)
                                                  THEN ValuesOf(r)[f] % (AllOnes(r.dgn, f) + 1)
                                                  ELSE AllOnes(r.dgn, f)]_vars
    BY <1>1
  <1> QED BY <1>2, LevelsTyped, PTL DEF Spec, GenericIsSaid

-----------------------------------------------------------------------------
(* Folds *)

\* What a fold over n elements passes through, one for each set of elements.
IsFold(it, n, A, base, step) ==
    /\ it \in [SUBSET (1..n) -> A]
    /\ it[{}] = base
    /\ \A s \in SUBSET (1..n) : s # {} => it[s] = step[<<Max(s), it[s \ {Max(s)}]>>]

LEMMA MaxIs ==
    ASSUME NEW n \in Nat, NEW s \in SUBSET (1..n), n \in s
    PROVE  Max(s) = n
  <1>1. Max(s) \in s /\ \A k \in s : Max(s) >= k
    <2>1. \A y \in s : n >= y
      OBVIOUS
    <2> QED BY <2>1, Zenon DEF Max
  <1> DEFINE m == Max(s)
  <1>2. m \in 1..n /\ m >= n
    BY <1>1
  <1> HIDE DEF m
  <1>3. m = n
    BY <1>2
  <1> QED BY <1>3 DEF m

LEMMA FoldExists ==
    ASSUME NEW n \in Nat, NEW A, NEW base \in A, NEW step \in [(1..n) \X A -> A]
    PROVE  \E it : IsFold(it, n, A, base, step)
  <1> DEFINE G == {m \in Nat : m <= n => \E it : IsFold(it, m, A, base, step)}
  <1>1. 0 \in G
    <2> DEFINE it == [s \in SUBSET (1..0) |-> base]
    <2>1. SUBSET (1..0) = {{}}
      OBVIOUS
    <2>2. it \in [SUBSET (1..0) -> A] /\ it[{}] = base
      BY <2>1
    <2>3. \A s \in SUBSET (1..0) : s = {}
      BY <2>1
    <2> HIDE DEF it
    <2>4. IsFold(it, 0, A, base, step)
      BY <2>2, <2>3 DEF IsFold
    <2> QED BY <2>4
  <1>2. ASSUME NEW m \in Nat, m \in G
        PROVE  m + 1 \in G
    <2> SUFFICES ASSUME m + 1 <= n
                 PROVE  \E it : IsFold(it, m + 1, A, base, step)
      OBVIOUS
    <2>1. PICK old : IsFold(old, m, A, base, step)
      BY <1>2
    <2> DEFINE it == [s \in SUBSET (1 .. m + 1) |->
                         IF m + 1 \in s THEN step[<<m + 1, old[s \ {m + 1}]>>] ELSE old[s]]
    <2>2. ASSUME NEW s \in SUBSET (1 .. m + 1)
          PROVE  s \ {m + 1} \in SUBSET (1..m)
      OBVIOUS
    <2>3. \A s \in SUBSET (1..m) : old[s] \in A
      BY <2>1 DEF IsFold
    <2>4. m + 1 \in 1..n
      OBVIOUS
    <2>5. \A s \in SUBSET (1 .. m + 1) : it[s] \in A
      <3> TAKE s \in SUBSET (1 .. m + 1)
      <3>1. CASE m + 1 \in s
        BY <2>2, <2>3, <2>4, <3>1
      <3>2. CASE m + 1 \notin s
        <4>1. s \in SUBSET (1..m)
          BY <2>2, <3>2
        <4> QED BY <2>3, <3>2, <4>1
      <3> QED BY <3>1, <3>2
    <2>6. it[{}] = base
      <3>1. {} \in SUBSET (1 .. m + 1) /\ m + 1 \notin {}
        OBVIOUS
      <3>2. old[{}] = base
        BY <2>1 DEF IsFold
      <3> QED BY <3>1, <3>2
    <2>7. ASSUME NEW s \in SUBSET (1 .. m + 1), s # {}
          PROVE  it[s] = step[<<Max(s), it[s \ {Max(s)}]>>]
      <3>1. CASE m + 1 \in s
        <4>1. Max(s) = m + 1
          BY <3>1, MaxIs
        <4>2. it[s] = step[<<m + 1, old[s \ {m + 1}]>>]
          BY <3>1
        <4>3. s \ {m + 1} \in SUBSET (1 .. m + 1) /\ m + 1 \notin s \ {m + 1}
          OBVIOUS
        <4>4. it[s \ {m + 1}] = old[s \ {m + 1}]
          BY <4>3
        <4> QED BY <4>1, <4>2, <4>4
      <3>2. CASE m + 1 \notin s
        <4>1. s \in SUBSET (1..m)
          BY <2>2, <3>2
        <4>2. old[s] = step[<<Max(s), old[s \ {Max(s)}]>>]
          BY <2>1, <2>7, <4>1 DEF IsFold
        <4>3. it[s] = old[s]
          BY <3>2
        <4>4. s \ {Max(s)} \in SUBSET (1 .. m + 1) /\ m + 1 \notin s \ {Max(s)}
          BY <3>2
        <4>5. it[s \ {Max(s)}] = old[s \ {Max(s)}]
          BY <4>4
        <4> QED BY <4>2, <4>3, <4>5
      <3> QED BY <3>1, <3>2
    <2>8. it \in [SUBSET (1 .. m + 1) -> A]
      BY <2>5
    <2> HIDE DEF it
    <2>9. IsFold(it, m + 1, A, base, step)
      BY <2>6, <2>7, <2>8 DEF IsFold
    <2> QED BY <2>9
  <1> HIDE DEF G
  <1>3. n \in G
    <2>1. G \in SUBSET Nat
      BY DEF G
    <2> QED BY <1>1, <1>2, <2>1, UpTo
  <1> QED BY <1>3 DEF G

LEMMA FirstPlaces ==
    ASSUME NEW n \in Nat, NEW k \in 1..n
    PROVE  /\ 1..k \in SUBSET (1..n) /\ 1..k # {} /\ Max(1..k) = k
           /\ (1..k) \ {Max(1..k)} = 1 .. k - 1 /\ k - 1 \in 0..n
  <1>1. 1..k \in SUBSET (1..k) /\ k \in 1..k /\ k \in Nat
    OBVIOUS
  <1>2. Max(1..k) = k
    BY <1>1, MaxIs
  <1>3. (1..k) \ {k} = 1 .. k - 1
    OBVIOUS
  <1>4. 1..k \in SUBSET (1..n) /\ k - 1 \in 0..n
    OBVIOUS
  <1> QED BY <1>1, <1>2, <1>3, <1>4

LEMMA MaxIn ==
    ASSUME NEW n \in Nat, NEW s \in SUBSET (1..n), s # {}
    PROVE  Max(s) \in 1..n /\ s \ {Max(s)} \in SUBSET (1..n)
  BY MaxOf

-----------------------------------------------------------------------------
(* What the tools pass through *)

\* A capture, the changes of levels in it, and levels by instance.
Recorded(frames) == frames \in Seq(FrameType) /\ \A k \in 1..Len(frames) : IsFrame(frames[k])

LevelEvent == [time : 0..MaxTime, instance : 0..255, value : 0..254]
Knowledge == UNION {[D -> 0..254] : D \in SUBSET (0..255)}

LEMMA FrameEvents ==
    ASSUME NEW fr, IsFrame(fr), HasLevel(fr)
    PROVE  InstanceOf(fr) \in 0..255 /\ LevelOf(fr) \in 0..254 /\ Event(fr) \in LevelEvent
  <1>1. fr.dgn = Dimmer /\ fr.bytes \in Payload /\ LevelOf(fr) \in 0..254
    BY TellsLevel
  <1>2. InstanceOf(fr) = fr.bytes[1] /\ fr.bytes[1] \in 0..255
    BY <1>1, DimmerRaw
  <1>3. fr.time \in 0..MaxTime
    BY DEF IsFrame, FrameType
  <1>4. InstanceOf(fr) \in 0..255
    BY <1>2
  <1> QED BY <1>1, <1>3, <1>4 DEF Event, LevelEvent

LEMMA Overridden ==
    ASSUME NEW D, NEW T, NEW f \in [D -> T], NEW i, NEW v \in T
    PROVE  [j \in D \cup {i} |-> IF j = i THEN v ELSE f[j]] \in [D \cup {i} -> T]
  OBVIOUS

LEMMA NotedType ==
    ASSUME NEW last \in Knowledge, NEW fr, IsFrame(fr), HasLevel(fr)
    PROVE  Noted(last, fr) \in Knowledge
  <1>1. PICK D \in SUBSET (0..255) : last \in [D -> 0..254]
    <2>1. PICK F \in {[D -> 0..254] : D \in SUBSET (0..255)} : last \in F
      BY Zenon DEF Knowledge
    <2>2. PICK D \in SUBSET (0..255) : F = [D -> 0..254]
      BY Zenon
    <2> QED BY <2>1, <2>2
  <1>2. InstanceOf(fr) \in 0..255 /\ LevelOf(fr) \in 0..254
    BY FrameEvents
  <1> DEFINE E == D \cup {InstanceOf(fr)}
  <1>3. E \in SUBSET (0..255)
    BY <1>2
  <1>4. Noted(last, fr) \in [E -> 0..254]
    <2> DEFINE i == InstanceOf(fr)
               v == LevelOf(fr)
    <2>1. v \in 0..254 /\ DOMAIN last = D
      BY <1>1, <1>2
    <2>2. [j \in D \cup {i} |-> IF j = i THEN v ELSE last[j]] \in [D \cup {i} -> 0..254]
      <3> DEFINE T == 0..254
      <3>1. last \in [D -> T] /\ v \in T
        BY <1>1, <2>1
      <3> HIDE DEF i, v, T
      <3>2. [j \in D \cup {i} |-> IF j = i THEN v ELSE last[j]] \in [D \cup {i} -> T]
        BY <3>1, Overridden
      <3> QED BY <3>2 DEF T
    <2> QED BY <2>1, <2>2 DEF Noted
  <1> HIDE DEF E
  <1> QED BY ZenonT(30), <1>3, <1>4 DEF Knowledge

LEMMA NothingKnown == <<>> \in Knowledge
  <1>1. <<>> \in [{} -> 0..254]
    OBVIOUS
  <1>2. {} \in SUBSET (0..255)
    OBVIOUS
  <1> QED BY <1>1, <1>2 DEF Knowledge

LEMMA CorrelateSteps ==
    ASSUME NEW frames, Recorded(frames)
    PROVE  \E acc : /\ acc[0] = [last |-> <<>>, on |-> <<>>]
                    /\ \A k \in 1..Len(frames) : acc[k] = Correlated(acc[k - 1], frames[k])
                    /\ Correlate(frames) = acc[Len(frames)].on
  <1> DEFINE n == Len(frames)
             A == [last : Knowledge, on : Seq(LevelEvent)]
             base == [last |-> <<>>, on |-> <<>>]
             step == [p \in (1..n) \X A |-> Correlated(p[2], frames[p[1]])]
             Is(it) == it = [s \in SUBSET (1..n) |->
                                IF s = {} THEN base
                                ELSE Correlated(it[s \ {Max(s)}], frames[Max(s)])]
             g == CHOOSE it : Is(it)
             acc == [k \in 0..n |-> g[1..k]]
  <1>1. n \in Nat /\ DOMAIN frames = 1..n
    BY LenProperties DEF Recorded
  <1>2. base \in A
    BY NothingKnown
  <1>3. ASSUME NEW a \in A, NEW fr, IsFrame(fr)
        PROVE  Correlated(a, fr) \in A
    <2>1. CASE ~HasLevel(fr)
      BY <2>1 DEF Correlated
    <2>2. CASE HasLevel(fr)
      <3>1. Noted(a.last, fr) \in Knowledge /\ Event(fr) \in LevelEvent
        BY <1>3, <2>2, NotedType, FrameEvents
      <3>2. Append(a.on, Event(fr)) \in Seq(LevelEvent)
        BY <3>1, AppendProperties
      <3> QED BY <2>2, <3>1, <3>2 DEF Correlated
    <2> QED BY <2>1, <2>2
  <1>4. \A k \in 1..n : IsFrame(frames[k])
    BY DEF Recorded
  <1>5. Correlate(frames) = g[1..n].on
    BY <1>1, Zenon DEF Correlate, FoldLeft, MapThenFoldSet
  <1> HIDE DEF A, n, base
  <1>6. step \in [(1..n) \X A -> A]
    BY <1>3, <1>4
  <1>7. PICK it : IsFold(it, n, A, base, step)
    <2> HIDE DEF step
    <2> QED BY <1>1, <1>2, <1>6, FoldExists
  <1>8. Is(it)
    <2>1. ASSUME NEW s \in SUBSET (1..n), s # {}
          PROVE  it[s] = Correlated(it[s \ {Max(s)}], frames[Max(s)])
      <3>1. Max(s) \in 1..n /\ s \ {Max(s)} \in SUBSET (1..n)
        BY <1>1, <2>1, MaxIn
      <3>2. <<Max(s), it[s \ {Max(s)}]>> \in (1..n) \X A
        BY <1>7, <3>1 DEF IsFold
      <3>3. it[s] = step[<<Max(s), it[s \ {Max(s)}]>>]
        BY <1>7, <2>1 DEF IsFold
      <3> QED BY <3>2, <3>3
    <2>2. it[{}] = base /\ it = [s \in SUBSET (1..n) |-> it[s]]
      BY <1>7 DEF IsFold
    <2> QED BY <2>1, <2>2
  <1>9. Is(g)
    <2> HIDE DEF Is
    <2> QED BY <1>8
  <1> HIDE DEF g
  <1>10. acc[0] = base
    <2>1. 1..0 = {} /\ {} \in SUBSET (1..n)
      OBVIOUS
    <2> QED BY <1>1, <1>9, <2>1
  <1>11. ASSUME NEW k \in 1..n
         PROVE  acc[k] = Correlated(acc[k - 1], frames[k])
    <2>1. /\ 1..k \in SUBSET (1..n) /\ 1..k # {} /\ Max(1..k) = k
          /\ (1..k) \ {Max(1..k)} = 1 .. k - 1 /\ k - 1 \in 0..n
      BY <1>1, FirstPlaces
    <2>2. g[1..k] = Correlated(g[1 .. k - 1], frames[k])
      BY <1>9, <2>1
    <2> QED BY <2>1, <2>2
  <1>12. acc[n] = g[1..n]
    BY <1>1
  <1> HIDE DEF acc
  <1> QED BY <1>5, <1>10, <1>11, <1>12 DEF n, base

LEMMA PlacesAreFinite ==
    ASSUME NEW n \in Nat, NEW P \in SUBSET (1..n)
    PROVE  IsFiniteSet(P) /\ Cardinality(P) \in Nat
  <1>1. 1 \in Int /\ n \in Int
    OBVIOUS
  <1>2. IsFiniteSet(1..n)
    BY <1>1, FS_Interval
  <1>3. IsFiniteSet(P)
    BY <1>2, FS_Subset
  <1> QED BY <1>3, FS_CardinalityType

\* One more place, after all of the others.
LEMMA ListsMore ==
    ASSUME NEW n \in Nat, NEW P \in SUBSET (1..n), NEW val, NEW S, NEW found \in Seq(S),
           Lists(found, [k \in P |-> val[k]]), val[n + 1] \in S
    PROVE  Lists(Append(found, val[n + 1]), [k \in P \cup {n + 1} |-> val[k]])
  <1> DEFINE Q == P \cup {n + 1}
             more == Append(found, val[n + 1])
             upto(k) == {j \in P : j <= k}
             upto1(k) == {j \in Q : j <= k}
  <1>1. IsFiniteSet(P) /\ Cardinality(P) \in Nat
    BY PlacesAreFinite
  <1>2. n + 1 \notin P /\ \A k \in P : k \in 1..n
    OBVIOUS
  <1>3. Cardinality(Q) = Cardinality(P) + 1
    BY <1>1, <1>2, FS_AddElement
  <1>4. Len(found) = Cardinality(P) /\ \A k \in P : found[Cardinality(upto(k))] = val[k]
    BY DEF Lists
  <1>5. /\ Len(more) = Len(found) + 1
        /\ \A i \in 1..Len(found) : more[i] = found[i]
        /\ more[Len(found) + 1] = val[n + 1]
    BY AppendProperties
  <1>6. ASSUME NEW k \in P
        PROVE  more[Cardinality(upto1(k))] = val[k]
    <2>1. upto1(k) = upto(k)
      BY <1>2
    <2>2. k \in upto(k) /\ upto(k) \in SUBSET P
      <3>1. k <= k
        BY <1>2
      <3> QED BY <3>1
    <2> HIDE DEF upto
    <2>3. IsFiniteSet(upto(k)) /\ Cardinality(upto(k)) <= Cardinality(P)
      BY <1>1, <2>2, FS_Subset
    <2>4. Cardinality(upto(k)) \in Nat /\ Cardinality(upto(k)) # 0
      <3>1. upto(k) # {}
        BY <2>2
      <3>2. Cardinality(upto(k)) \in Nat
        BY <2>3, FS_CardinalityType
      <3> QED BY <2>3, <3>1, <3>2, FS_EmptySet
    <2>5. Cardinality(upto(k)) \in 1..Len(found)
      BY <1>1, <1>4, <2>3, <2>4
    <2>6. found[Cardinality(upto(k))] = val[k]
      BY <1>4
    <2> QED BY <1>5, <2>1, <2>5, <2>6
  <1>7. more[Cardinality(upto1(n + 1))] = val[n + 1]
    <2>1. upto1(n + 1) = Q
      <3>1. \A j \in Q : j <= n + 1
        BY <1>2
      <3> HIDE DEF Q
      <3> QED BY <3>1
    <2> QED BY <1>3, <1>4, <1>5, <2>1
  <1>8. \A k \in Q : more[Cardinality(upto1(k))] = val[k]
    BY <1>6, <1>7
  <1>9. Len(more) = Cardinality(Q)
    BY <1>3, <1>4, <1>5
  <1> DEFINE at == [k \in Q |-> val[k]]
  <1>10. DOMAIN at = Q /\ \A k \in Q : at[k] = val[k]
    OBVIOUS
  <1> HIDE DEF at, more, Q
  <1>11. Lists(more, at)
    BY <1>8, <1>9, <1>10 DEF Lists
  <1> QED BY <1>11 DEF at, more, Q

LEMMA ListsNothing == ASSUME NEW val PROVE Lists(<<>>, [k \in {} |-> val[k]])
  <1>1. Cardinality({}) = 0
    BY FS_EmptySet
  <1> QED BY <1>1 DEF Lists

\* What is known of the first n frames: the instances, and the level that the last frame of
\* each has told.
Latest(frames, n, last) ==
    /\ last \in Knowledge
    /\ \A i : i \in DOMAIN last <=> \E k \in 1..n : Tells(frames, k, i)
    /\ \A i \in DOMAIN last :
          \E k \in 1..n : /\ Tells(frames, k, i) /\ LevelOf(frames[k]) = last[i]
                         /\ \A m \in k + 1 .. n : ~Tells(frames, m, i)

LEMMA LatestAfter ==
    ASSUME NEW frames, Recorded(frames), NEW n \in Nat, n + 1 \in 1..Len(frames),
           NEW last, Latest(frames, n, last)
    PROVE  /\ HasLevel(frames[n + 1]) => Latest(frames, n + 1, Noted(last, frames[n + 1]))
           /\ ~HasLevel(frames[n + 1]) => Latest(frames, n + 1, last)
  <1> DEFINE fr == frames[n + 1]
  <1>1. IsFrame(fr)
    BY DEF Recorded
  <1>2. \A k \in 1 .. n + 1 : k = n + 1 \/ k \in 1..n
    OBVIOUS
  <1>3. last \in Knowledge /\ \A i : i \in DOMAIN last <=> \E k \in 1..n : Tells(frames, k, i)
    BY DEF Latest
  <1>4. ASSUME HasLevel(fr)
        PROVE  Latest(frames, n + 1, Noted(last, fr))
    <2> DEFINE noted == Noted(last, fr)
               j == InstanceOf(fr)
    <2>1. noted \in Knowledge
      BY <1>1, <1>3, <1>4, NotedType
    <2>2. DOMAIN noted = DOMAIN last \cup {j} /\ noted[j] = LevelOf(fr)
          /\ \A i \in DOMAIN last : i # j => noted[i] = last[i]
      BY DEF Noted
    <2>3. Tells(frames, n + 1, j) /\ \A i : i # j => ~Tells(frames, n + 1, i)
      BY <1>4 DEF Tells
    <2> HIDE DEF noted, j
    <2>4. ASSUME NEW i
          PROVE  i \in DOMAIN noted <=> \E k \in 1 .. n + 1 : Tells(frames, k, i)
      <3>1. CASE i = j
        <4>1. n + 1 \in 1 .. n + 1
          OBVIOUS
        <4> QED BY <2>2, <2>3, <3>1, <4>1
      <3>2. CASE i # j
        <4>1. i \in DOMAIN noted <=> \E k \in 1..n : Tells(frames, k, i)
          BY <1>3, <2>2, <3>2
        <4>2. 1..n \subseteq 1 .. n + 1
          OBVIOUS
        <4> QED BY <1>2, <2>3, <3>2, <4>1, <4>2
      <3> QED BY <3>1, <3>2
    <2>5. ASSUME NEW i \in DOMAIN noted
          PROVE  \E k \in 1 .. n + 1 : /\ Tells(frames, k, i) /\ LevelOf(frames[k]) = noted[i]
                                       /\ \A m \in k + 1 .. n + 1 : ~Tells(frames, m, i)
      <3>1. CASE i = j
        <4>1. n + 1 \in 1 .. n + 1 /\ \A m \in (n + 1) + 1 .. n + 1 : FALSE
          OBVIOUS
        <4> QED BY <2>2, <2>3, <3>1, <4>1
      <3>2. CASE i # j
        <4>1. PICK k \in 1..n : /\ Tells(frames, k, i) /\ LevelOf(frames[k]) = last[i]
                                /\ \A m \in k + 1 .. n : ~Tells(frames, m, i)
          BY <2>2, <3>2 DEF Latest
        <4>2. \A m \in k + 1 .. n + 1 : m = n + 1 \/ m \in k + 1 .. n
          OBVIOUS
        <4>3. \A m \in k + 1 .. n + 1 : ~Tells(frames, m, i)
          BY <2>3, <3>2, <4>1, <4>2
        <4>4. k \in 1 .. n + 1 /\ noted[i] = last[i]
          BY <2>2, <3>2
        <4> QED BY <4>1, <4>3, <4>4
      <3> QED BY <3>1, <3>2
    <2>6. Latest(frames, n + 1, noted)
      BY <2>1, <2>4, <2>5 DEF Latest
    <2> QED BY <2>6 DEF noted
  <1>5. ASSUME ~HasLevel(fr)
        PROVE  Latest(frames, n + 1, last)
    <2>1. \A i : ~Tells(frames, n + 1, i)
      BY <1>5 DEF Tells
    <2> HIDE DEF fr
    <2>2. 1..n \subseteq 1 .. n + 1
      OBVIOUS
    <2>3. \A i : i \in DOMAIN last <=> \E k \in 1 .. n + 1 : Tells(frames, k, i)
      BY <1>2, <1>3, <2>1, <2>2
    <2>4. ASSUME NEW i \in DOMAIN last
          PROVE  \E k \in 1 .. n + 1 : /\ Tells(frames, k, i) /\ LevelOf(frames[k]) = last[i]
                                       /\ \A m \in k + 1 .. n + 1 : ~Tells(frames, m, i)
      <3>1. PICK k \in 1..n : /\ Tells(frames, k, i) /\ LevelOf(frames[k]) = last[i]
                              /\ \A m \in k + 1 .. n : ~Tells(frames, m, i)
        BY DEF Latest
      <3>2. \A m \in k + 1 .. n + 1 : m = n + 1 \/ m \in k + 1 .. n
        OBVIOUS
      <3>3. \A m \in k + 1 .. n + 1 : ~Tells(frames, m, i)
        BY <2>1, <3>1, <3>2
      <3> QED BY <2>2, <3>1, <3>3
    <2> QED BY <1>3, <2>3, <2>4 DEF Latest
  <1> QED BY <1>4, <1>5

LEMMA LatestFirst == ASSUME NEW frames PROVE Latest(frames, 0, <<>>)
  <1>1. DOMAIN <<>> = {} /\ 1..0 = {}
    OBVIOUS
  <1> QED BY <1>1, NothingKnown DEF Latest

-----------------------------------------------------------------------------
(* Correlate *)

EventsOf(frames) == [k \in 1..Len(frames) |-> Event(frames[k])]

\* What correlate knows of the first n frames and has found there.
Correlating(frames, n, acc) ==
    /\ Latest(frames, n, acc.last)
    /\ acc.on \in Seq(LevelEvent)
    /\ \A i : i \in InstancesOf(acc.on)
                <=> \E k \in 1..n : Tells(frames, k, i) /\ LevelOf(frames[k]) > 0
    /\ Lists(acc.on, [k \in FirstOn(frames) \cap (1..n) |-> EventsOf(frames)[k]])

LEMMA InstancesMore ==
    ASSUME NEW events \in Seq(LevelEvent), NEW e \in LevelEvent
    PROVE  InstancesOf(Append(events, e)) = InstancesOf(events) \cup {e.instance}
  <1> DEFINE more == Append(events, e)
             n == Len(events)
  <1>1. n \in Nat
    BY LenProperties
  <1>2. Len(more) = n + 1 /\ (\A k \in 1..n : more[k] = events[k]) /\ more[n + 1] = e
    BY AppendProperties
  <1> HIDE DEF more, n
  <1>3. InstancesOf(more) = {more[k].instance : k \in 1 .. n + 1}
    BY <1>2 DEF InstancesOf
  <1>4. 1 .. n + 1 = (1..n) \cup {n + 1}
    BY <1>1
  <1>5. {more[k].instance : k \in 1..n} = {events[k].instance : k \in 1..n}
    BY <1>2
  <1>6. InstancesOf(more) = {more[k].instance : k \in 1..n} \cup {more[n + 1].instance}
    BY <1>3, <1>4
  <1> QED BY <1>2, <1>5, <1>6 DEF InstancesOf, more, n

LEMMA OnePlaceMore ==
    ASSUME NEW P, NEW n \in Nat
    PROVE  /\ n + 1 \in P => P \cap (1 .. n + 1) = (P \cap (1..n)) \cup {n + 1}
           /\ n + 1 \notin P => P \cap (1 .. n + 1) = P \cap (1..n)
  <1>1. 1 .. n + 1 = (1..n) \cup {n + 1}
    OBVIOUS
  <1> QED BY <1>1

LEMMA OffOrOn == \A level \in 0..254 : level > 0 \/ level = 0
  OBVIOUS

LEMMA CorrelatedOnce ==
    ASSUME NEW frames, Recorded(frames), NEW n \in Nat, n + 1 \in 1..Len(frames),
           NEW acc, Correlating(frames, n, acc)
    PROVE  Correlating(frames, n + 1, Correlated(acc, frames[n + 1]))
  <1> DEFINE fr == frames[n + 1]
             val == EventsOf(frames)
             i == InstanceOf(fr)
             first == FirstOn(frames)
             new == Correlated(acc, fr)
             holds == /\ LevelOf(fr) > 0 /\ Before(acc.last, i, 0) = 0
                      /\ i \notin InstancesOf(acc.on)
  <1>1. IsFrame(fr)
    BY DEF Recorded
  <1>2. /\ Latest(frames, n, acc.last) /\ acc.on \in Seq(LevelEvent)
        /\ \A j : j \in InstancesOf(acc.on)
                    <=> \E k \in 1..n : Tells(frames, k, j) /\ LevelOf(frames[k]) > 0
        /\ Lists(acc.on, [k \in first \cap (1..n) |-> val[k]])
    BY DEF Correlating
  <1>3. Len(frames) \in Nat /\ \A k \in 1..n : k \in 1..Len(frames)
    <2>1. Len(frames) \in Nat
      BY LenProperties DEF Recorded
    <2> QED BY <2>1
  <1>4. \A k \in 1..n : IsFrame(frames[k])
    BY <1>3 DEF Recorded
  <1>5. 1 .. n + 1 = (1..n) \cup {n + 1} /\ (n + 1) - 1 = n
    OBVIOUS
  <1>6. CASE ~HasLevel(fr)
    <2>1. new = acc
      BY <1>6 DEF Correlated
    <2>2. n + 1 \notin first
      BY <1>6 DEF FirstOn
    <2>3. \A j : ~Tells(frames, n + 1, j)
      BY <1>6 DEF Tells
    <2>4. Latest(frames, n + 1, acc.last)
      BY <1>2, <1>6, LatestAfter
    <2>5. first \cap (1 .. n + 1) = first \cap (1..n)
      BY <2>2, OnePlaceMore
    <2> HIDE DEF fr, val, first
    <2>6. \A j : (\E k \in 1..n : Tells(frames, k, j) /\ LevelOf(frames[k]) > 0)
                 <=> \E k \in 1 .. n + 1 : Tells(frames, k, j) /\ LevelOf(frames[k]) > 0
      BY <1>5, <2>3
    <2> QED BY <1>2, <2>1, <2>4, <2>5, <2>6 DEF Correlating, fr, val, first
  <1>7. CASE HasLevel(fr)
    <2>1. LevelOf(fr) \in 0..254 /\ Event(fr) \in LevelEvent /\ Event(fr).instance = i
      BY <1>1, <1>7, FrameEvents DEF Event
    <2>2. \A k \in 1..n : HasLevel(frames[k]) => LevelOf(frames[k]) \in 0..254
      BY <1>4, FrameEvents
    <2>3. Tells(frames, n + 1, i) /\ \A j : j # i => ~Tells(frames, n + 1, j)
      BY <1>7 DEF Tells
    <2>4. n + 1 \in first <=> /\ LevelOf(fr) > 0
                              /\ \A j \in 1..n : Tells(frames, j, i) => LevelOf(frames[j]) = 0
      BY <1>5, <1>7 DEF FirstOn
    <2>5. holds <=> n + 1 \in first
      <3>1. ASSUME holds
            PROVE  \A j \in 1..n : Tells(frames, j, i) => LevelOf(frames[j]) = 0
        <4> TAKE j \in 1..n
        <4>1. HAVE Tells(frames, j, i)
        <4>2. ~(LevelOf(frames[j]) > 0)
          BY <1>2, <3>1, <4>1
        <4>3. LevelOf(frames[j]) \in 0..254
          BY <2>2, <4>1 DEF Tells
        <4> QED BY <4>2, <4>3, OffOrOn
      <3>2. ASSUME LevelOf(fr) > 0,
                   \A j \in 1..n : Tells(frames, j, i) => LevelOf(frames[j]) = 0
            PROVE  holds
        <4>1. i \notin InstancesOf(acc.on)
          <5>1. ~(0 > 0)
            OBVIOUS
          <5> QED BY <1>2, <3>2, <5>1
        <4>2. Before(acc.last, i, 0) = 0
          BY <1>2, <3>2 DEF Before, Latest
        <4> QED BY <3>2, <4>1, <4>2
      <3> QED BY <2>4, <3>1, <3>2
    <2>6. /\ new.last = Noted(acc.last, fr)
          /\ new.on = IF holds THEN Append(acc.on, Event(fr)) ELSE acc.on
      BY <1>7 DEF Correlated
    <2>7. Latest(frames, n + 1, new.last)
      BY <1>2, <1>7, <2>6, LatestAfter
    <2>8. val[n + 1] = Event(fr)
      BY DEF EventsOf
    <2> HIDE DEF fr, val, first, new, holds, i
    <2>9. CASE holds
      <3>1. new.on = Append(acc.on, Event(fr)) /\ new.on \in Seq(LevelEvent)
        BY <1>2, <2>1, <2>6, <2>9, AppendProperties
      <3>2. InstancesOf(new.on) = InstancesOf(acc.on) \cup {i}
        BY <1>2, <2>1, <3>1, InstancesMore
      <3>3. LevelOf(fr) > 0
        BY <2>9 DEF holds
      <3>4. \A j : j \in InstancesOf(new.on)
                     <=> \E k \in 1 .. n + 1 : Tells(frames, k, j) /\ LevelOf(frames[k]) > 0
        <4>1. \A j : (\E k \in 1 .. n + 1 : Tells(frames, k, j) /\ LevelOf(frames[k]) > 0)
                     <=> \/ \E k \in 1..n : Tells(frames, k, j) /\ LevelOf(frames[k]) > 0
                         \/ j = i
          BY <1>5, <2>3, <3>3 DEF fr
        <4> QED BY <1>2, <3>2, <4>1
      <3>5. first \cap (1 .. n + 1) = (first \cap (1..n)) \cup {n + 1}
        BY <2>5, <2>9, OnePlaceMore
      <3>6. Lists(new.on, [k \in first \cap (1 .. n + 1) |-> val[k]])
        <4> DEFINE P == first \cap (1..n)
        <4>1. P \in SUBSET (1..n) /\ val[n + 1] \in LevelEvent /\ Lists(acc.on, [k \in P |-> val[k]])
          BY <1>2, <2>1, <2>8
        <4> HIDE DEF P
        <4>2. Lists(Append(acc.on, val[n + 1]), [k \in P \cup {n + 1} |-> val[k]])
          BY <1>2, <4>1, ListsMore
        <4> QED BY <2>8, <3>1, <3>5, <4>2 DEF P
      <3> QED BY <2>7, <3>1, <3>4, <3>6 DEF Correlating, new, fr, val, first
    <2>10. CASE ~holds
      <3>1. new.on = acc.on
        BY <2>6, <2>10
      <3>2. first \cap (1 .. n + 1) = first \cap (1..n)
        BY <2>5, <2>10, OnePlaceMore
      <3>3. LevelOf(fr) > 0 => i \in InstancesOf(acc.on)
        <4>1. ASSUME LevelOf(fr) > 0, i \notin InstancesOf(acc.on)
              PROVE  FALSE
          <5>1. ASSUME NEW j \in 1..n, Tells(frames, j, i)
                PROVE  LevelOf(frames[j]) = 0
            <6>1. ~(LevelOf(frames[j]) > 0)
              BY <1>2, <4>1, <5>1
            <6>2. LevelOf(frames[j]) \in 0..254
              BY <2>2, <5>1 DEF Tells
            <6> QED BY <6>1, <6>2, OffOrOn
          <5> QED BY <2>4, <2>5, <2>10, <4>1, <5>1
        <4> QED BY <4>1
      <3>4. \A j : j \in InstancesOf(new.on)
                     <=> \E k \in 1 .. n + 1 : Tells(frames, k, j) /\ LevelOf(frames[k]) > 0
        <4>1. \A j : (\E k \in 1 .. n + 1 : Tells(frames, k, j) /\ LevelOf(frames[k]) > 0)
                     <=> \/ \E k \in 1..n : Tells(frames, k, j) /\ LevelOf(frames[k]) > 0
                         \/ j = i /\ LevelOf(fr) > 0
          BY <1>5, <2>3 DEF fr
        <4> QED BY <1>2, <3>1, <3>3, <4>1
      <3> QED BY <1>2, <2>7, <3>1, <3>2, <3>4 DEF Correlating, new, fr, val, first
    <2> QED BY <2>9, <2>10
  <1> QED BY <1>6, <1>7

LEMMA CorrelateFinds ==
    ASSUME NEW frames, Recorded(frames)
    PROVE  Lists(Correlate(frames), [k \in FirstOn(frames) |-> Event(frames[k])])
  <1> DEFINE n == Len(frames)
  <1>1. n \in Nat
    BY LenProperties DEF Recorded
  <1>2. PICK acc : /\ acc[0] = [last |-> <<>>, on |-> <<>>]
                   /\ \A k \in 1..n : acc[k] = Correlated(acc[k - 1], frames[k])
                   /\ Correlate(frames) = acc[n].on
    BY CorrelateSteps
  <1> HIDE DEF n
  <1> DEFINE G == {k \in Nat : k <= n => Correlating(frames, k, acc[k])}
  <1>3. 0 \in G
    <2>1. Latest(frames, 0, <<>>)
      BY LatestFirst
    <2>2. 1..0 = {} /\ FirstOn(frames) \cap (1..0) = {} /\ <<>> \in Seq(LevelEvent)
      OBVIOUS
    <2>3. \A i : i \notin InstancesOf(<<>>)
      BY DEF InstancesOf
    <2>4. Lists(<<>>, [k \in FirstOn(frames) \cap (1..0) |-> EventsOf(frames)[k]])
      BY <2>2, ListsNothing
    <2>5. acc[0].last = <<>> /\ acc[0].on = <<>>
      BY <1>2
    <2>6. Correlating(frames, 0, acc[0])
      BY <2>1, <2>2, <2>3, <2>4, <2>5 DEF Correlating
    <2> QED BY <2>6
  <1>4. ASSUME NEW k \in Nat, k \in G
        PROVE  k + 1 \in G
    <2> SUFFICES ASSUME k + 1 <= n PROVE Correlating(frames, k + 1, acc[k + 1])
      OBVIOUS
    <2>1. k + 1 \in 1..n /\ (k + 1) - 1 = k /\ k <= n
      BY <1>1
    <2>2. acc[k + 1] = Correlated(acc[k], frames[k + 1])
      BY <1>2, <2>1
    <2>3. Correlating(frames, k, acc[k])
      BY <1>4, <2>1
    <2> QED BY <2>1, <2>2, <2>3, CorrelatedOnce DEF n
  <1> HIDE DEF G
  <1>5. n \in G
    <2>1. G \in SUBSET Nat
      BY DEF G
    <2> QED BY <1>1, <1>3, <1>4, <2>1, UpTo
  <1>6. Correlating(frames, n, acc[n])
    BY <1>1, <1>5 DEF G
  <1>7. FirstOn(frames) \cap (1..n) = FirstOn(frames)
    BY DEF FirstOn, n
  <1>8. [k \in FirstOn(frames) |-> EventsOf(frames)[k]] = [k \in FirstOn(frames) |-> Event(frames[k])]
    BY DEF FirstOn, EventsOf
  <1> QED BY <1>2, <1>6, <1>7, <1>8 DEF Correlating

-----------------------------------------------------------------------------
(* Slice *)

LEMMA SliceSteps ==
    ASSUME NEW frames, Recorded(frames), NEW names
    PROVE  \E acc : /\ acc[0] = <<>>
                    /\ \A k \in 1..Len(frames) : acc[k] = Sliced(acc[k - 1], frames[k], names)
                    /\ Slice(frames, names) = acc[Len(frames)]
  <1> DEFINE n == Len(frames)
             A == Seq(FrameType)
             base == <<>>
             step == [p \in (1..n) \X A |-> Sliced(p[2], frames[p[1]], names)]
             Is(it) == it = [s \in SUBSET (1..n) |->
                                IF s = {} THEN base
                                ELSE Sliced(it[s \ {Max(s)}], frames[Max(s)], names)]
             g == CHOOSE it : Is(it)
             acc == [k \in 0..n |-> g[1..k]]
  <1>1. n \in Nat /\ DOMAIN frames = 1..n
    BY LenProperties DEF Recorded
  <1>2. base \in A
    OBVIOUS
  <1>3. ASSUME NEW a \in A, NEW fr, IsFrame(fr)
        PROVE  Sliced(a, fr, names) \in A
    BY <1>3, AppendProperties DEF Sliced, IsFrame
  <1>4. \A k \in 1..n : IsFrame(frames[k])
    BY DEF Recorded
  <1>5. Slice(frames, names) = g[1..n]
    BY <1>1, Zenon DEF Slice, FoldLeft, MapThenFoldSet
  <1> HIDE DEF A, n, base
  <1>6. step \in [(1..n) \X A -> A]
    BY <1>3, <1>4
  <1>7. PICK it : IsFold(it, n, A, base, step)
    <2> HIDE DEF step
    <2> QED BY <1>1, <1>2, <1>6, FoldExists
  <1>8. Is(it)
    <2>1. ASSUME NEW s \in SUBSET (1..n), s # {}
          PROVE  it[s] = Sliced(it[s \ {Max(s)}], frames[Max(s)], names)
      <3>1. Max(s) \in 1..n /\ s \ {Max(s)} \in SUBSET (1..n)
        BY <1>1, <2>1, MaxIn
      <3>2. <<Max(s), it[s \ {Max(s)}]>> \in (1..n) \X A
        BY <1>7, <3>1 DEF IsFold
      <3>3. it[s] = step[<<Max(s), it[s \ {Max(s)}]>>]
        BY <1>7, <2>1 DEF IsFold
      <3> QED BY <3>2, <3>3
    <2>2. it[{}] = base /\ it = [s \in SUBSET (1..n) |-> it[s]]
      BY <1>7 DEF IsFold
    <2> QED BY <2>1, <2>2
  <1>9. Is(g)
    <2> HIDE DEF Is
    <2> QED BY <1>8
  <1> HIDE DEF g
  <1>10. acc[0] = base
    <2>1. 1..0 = {} /\ {} \in SUBSET (1..n)
      OBVIOUS
    <2> QED BY <1>1, <1>9, <2>1
  <1>11. ASSUME NEW k \in 1..n
         PROVE  acc[k] = Sliced(acc[k - 1], frames[k], names)
    <2>1. /\ 1..k \in SUBSET (1..n) /\ 1..k # {} /\ Max(1..k) = k
          /\ (1..k) \ {Max(1..k)} = 1 .. k - 1 /\ k - 1 \in 0..n
      BY <1>1, FirstPlaces
    <2>2. g[1..k] = Sliced(g[1 .. k - 1], frames[k], names)
      BY <1>9, <2>1
    <2> QED BY <2>1, <2>2
  <1>12. acc[n] = g[1..n]
    BY <1>1
  <1> HIDE DEF acc
  <1> QED BY <1>5, <1>10, <1>11, <1>12 DEF n, base

\* The frames of a DGN among the first n.
OfDgn(frames, n, dgn) == {j \in 1..n : frames[j].dgn = dgn}

LEMMA OneMoreOf ==
    ASSUME NEW frames, NEW n \in Nat, NEW dgn
    PROVE  /\ Cardinality(OfDgn(frames, n, dgn)) \in Nat
           /\ frames[n + 1].dgn = dgn
                 => Cardinality(OfDgn(frames, n + 1, dgn)) = Cardinality(OfDgn(frames, n, dgn)) + 1
           /\ frames[n + 1].dgn # dgn => OfDgn(frames, n + 1, dgn) = OfDgn(frames, n, dgn)
  <1> DEFINE P == OfDgn(frames, n, dgn)
  <1>1. P \in SUBSET (1..n) /\ n + 1 \notin P
    BY DEF OfDgn
  <1>2. 1 .. n + 1 = (1..n) \cup {n + 1}
    OBVIOUS
  <1>3. frames[n + 1].dgn = dgn => OfDgn(frames, n + 1, dgn) = P \cup {n + 1}
    BY <1>2 DEF OfDgn
  <1>4. frames[n + 1].dgn # dgn => OfDgn(frames, n + 1, dgn) = P
    BY <1>2 DEF OfDgn
  <1> HIDE DEF P
  <1>5. IsFiniteSet(P) /\ Cardinality(P) \in Nat
    BY <1>1, PlacesAreFinite
  <1>6. Cardinality(P \cup {n + 1}) = Cardinality(P) + 1
    BY <1>1, <1>5, FS_AddElement
  <1> QED BY <1>3, <1>4, <1>5, <1>6 DEF P

LEMMA CountMore ==
    ASSUME NEW kept \in Seq(FrameType), NEW fr \in FrameType, NEW dgn
    PROVE  CountOf(dgn, Append(kept, fr)) = CountOf(dgn, kept) + (IF fr.dgn = dgn THEN 1 ELSE 0)
  <1> DEFINE n == Len(kept)
             more == Append(kept, fr)
  <1>1. n \in Nat
    BY LenProperties
  <1>2. Len(more) = n + 1 /\ (\A k \in 1..n : more[k] = kept[k]) /\ more[n + 1] = fr
    BY AppendProperties
  <1> HIDE DEF more, n
  <1>3. CountOf(dgn, more) = Cardinality(OfDgn(more, n + 1, dgn))
    BY <1>2 DEF CountOf, OfDgn
  <1>4. CountOf(dgn, kept) = Cardinality(OfDgn(more, n, dgn))
    BY <1>2 DEF CountOf, OfDgn, n
  <1>5. Cardinality(OfDgn(more, n, dgn)) \in Nat
    BY <1>1, OneMoreOf
  <1>6. fr.dgn = dgn => CountOf(dgn, more) = CountOf(dgn, kept) + 1
    BY <1>1, <1>2, <1>3, <1>4, OneMoreOf
  <1>7. fr.dgn # dgn => CountOf(dgn, more) = CountOf(dgn, kept)
    BY <1>1, <1>2, <1>3, <1>4, OneMoreOf
  <1>8. CountOf(dgn, kept) \in Nat
    BY <1>4, <1>5
  <1> QED BY <1>6, <1>7, <1>8 DEF more

\* What slice_frames has kept of the first n frames, and how often each DGN.
Slicing(frames, names, n, kept) ==
    /\ kept \in Seq(FrameType)
    /\ Lists(kept, [k \in FirstOf(frames, names) \cap (1..n) |-> frames[k]])
    /\ \A dgn \in names : CountOf(dgn, kept) = Least(PerDgn, Cardinality(OfDgn(frames, n, dgn)))

LEMMA SlicedOnce ==
    ASSUME NEW frames, Recorded(frames), NEW names, NEW n \in Nat, n + 1 \in 1..Len(frames),
           NEW kept, Slicing(frames, names, n, kept)
    PROVE  Slicing(frames, names, n + 1, Sliced(kept, frames[n + 1], names))
  <1> DEFINE fr == frames[n + 1]
             first == FirstOf(frames, names)
             count(m, dgn) == Cardinality(OfDgn(frames, m, dgn))
             keep == fr.dgn \in names /\ CountOf(fr.dgn, kept) < PerDgn
             new == Sliced(kept, fr, names)
  <1>1. fr \in FrameType
    BY DEF Recorded, IsFrame
  <1>2. /\ kept \in Seq(FrameType)
        /\ Lists(kept, [k \in first \cap (1..n) |-> frames[k]])
        /\ \A dgn \in names : CountOf(dgn, kept) = Least(PerDgn, count(n, dgn))
    BY DEF Slicing
  <1>3. \A dgn : /\ count(n, dgn) \in Nat
                 /\ fr.dgn = dgn => count(n + 1, dgn) = count(n, dgn) + 1
                 /\ fr.dgn # dgn => count(n + 1, dgn) = count(n, dgn)
    BY OneMoreOf
  <1>4. PerDgn \in Nat
    BY DimmingAssumption
  <1>5. n + 1 \in first <=> fr.dgn \in names /\ count(n, fr.dgn) < PerDgn
    <2>1. (n + 1) - 1 = n
      OBVIOUS
    <2> QED BY <2>1 DEF FirstOf, OfDgn
  <1> HIDE DEF fr, first, count
  <1>6. keep <=> n + 1 \in first
    BY <1>2, <1>3, <1>4, <1>5 DEF Least
  <1>7. CASE keep
    <2>1. new = Append(kept, fr) /\ new \in Seq(FrameType)
      BY <1>1, <1>2, <1>7, AppendProperties DEF Sliced
    <2>2. first \cap (1 .. n + 1) = (first \cap (1..n)) \cup {n + 1}
      BY <1>6, <1>7, OnePlaceMore
    <2>3. Lists(new, [k \in first \cap (1 .. n + 1) |-> frames[k]])
      <3> DEFINE P == first \cap (1..n)
      <3>1. P \in SUBSET (1..n) /\ frames[n + 1] \in FrameType /\ Lists(kept, [k \in P |-> frames[k]])
        BY <1>1, <1>2 DEF fr
      <3> HIDE DEF P
      <3>2. Lists(Append(kept, frames[n + 1]), [k \in P \cup {n + 1} |-> frames[k]])
        BY <1>2, <3>1, ListsMore
      <3> QED BY <2>1, <2>2, <3>2 DEF P, fr
    <2>4. ASSUME NEW dgn \in names
          PROVE  CountOf(dgn, new) = Least(PerDgn, count(n + 1, dgn))
      <3>1. CountOf(dgn, new) = CountOf(dgn, kept) + (IF fr.dgn = dgn THEN 1 ELSE 0)
        BY <1>1, <1>2, <2>1, CountMore
      <3>2. CountOf(dgn, kept) = Least(PerDgn, count(n, dgn))
        BY <1>2
      <3> QED BY <1>3, <1>4, <1>7, <3>1, <3>2 DEF Least
    <2> HIDE DEF new
    <2>5. Slicing(frames, names, n + 1, new)
      BY <2>1, <2>3, <2>4 DEF Slicing, first, count
    <2> QED BY <2>5 DEF new, fr
  <1>8. CASE ~keep
    <2>1. new = kept
      BY <1>8 DEF Sliced
    <2>2. first \cap (1 .. n + 1) = first \cap (1..n)
      BY <1>6, <1>8, OnePlaceMore
    <2>3. ASSUME NEW dgn \in names
          PROVE  CountOf(dgn, kept) = Least(PerDgn, count(n + 1, dgn))
      <3>1. CountOf(dgn, kept) = Least(PerDgn, count(n, dgn))
        BY <1>2
      <3> QED BY <1>3, <1>4, <1>8, <3>1 DEF Least
    <2> HIDE DEF new
    <2>4. Slicing(frames, names, n + 1, new)
      BY <1>2, <2>1, <2>2, <2>3 DEF Slicing, first, count
    <2> QED BY <2>4 DEF new, fr
  <1> QED BY <1>7, <1>8

LEMMA SliceFinds ==
    ASSUME NEW frames, Recorded(frames), NEW names
    PROVE  Lists(Slice(frames, names), [k \in FirstOf(frames, names) |-> frames[k]])
  <1> DEFINE n == Len(frames)
  <1>1. n \in Nat
    BY LenProperties DEF Recorded
  <1>2. PICK acc : /\ acc[0] = <<>>
                   /\ \A k \in 1..n : acc[k] = Sliced(acc[k - 1], frames[k], names)
                   /\ Slice(frames, names) = acc[n]
    BY SliceSteps
  <1> HIDE DEF n
  <1> DEFINE G == {k \in Nat : k <= n => Slicing(frames, names, k, acc[k])}
  <1>3. 0 \in G
    <2>1. 1..0 = {} /\ FirstOf(frames, names) \cap (1..0) = {} /\ <<>> \in Seq(FrameType)
      OBVIOUS
    <2>2. Lists(<<>>, [k \in FirstOf(frames, names) \cap (1..0) |-> frames[k]])
      BY <2>1, ListsNothing
    <2>3. ASSUME NEW dgn \in names
          PROVE  CountOf(dgn, <<>>) = Least(PerDgn, Cardinality(OfDgn(frames, 0, dgn)))
      <3>1. {k \in 1..Len(<<>>) : <<>>[k].dgn = dgn} = {} /\ OfDgn(frames, 0, dgn) = {}
        BY <2>1 DEF OfDgn
      <3>2. Cardinality({}) = 0
        BY FS_EmptySet
      <3>3. CountOf(dgn, <<>>) = 0 /\ Cardinality(OfDgn(frames, 0, dgn)) = 0
        BY <3>1, <3>2 DEF CountOf
      <3> QED BY <3>3, DimmingAssumption DEF Least
    <2>4. Slicing(frames, names, 0, acc[0])
      BY <1>2, <2>1, <2>2, <2>3 DEF Slicing
    <2> QED BY <2>4
  <1>4. ASSUME NEW k \in Nat, k \in G
        PROVE  k + 1 \in G
    <2> SUFFICES ASSUME k + 1 <= n PROVE Slicing(frames, names, k + 1, acc[k + 1])
      OBVIOUS
    <2>1. k + 1 \in 1..n /\ (k + 1) - 1 = k /\ k <= n
      BY <1>1
    <2>2. acc[k + 1] = Sliced(acc[k], frames[k + 1], names)
      BY <1>2, <2>1
    <2>3. Slicing(frames, names, k, acc[k])
      BY <1>4, <2>1
    <2> QED BY <2>1, <2>2, <2>3, SlicedOnce DEF n
  <1> HIDE DEF G
  <1>5. n \in G
    <2>1. G \in SUBSET Nat
      BY DEF G
    <2> QED BY <1>1, <1>3, <1>4, <2>1, UpTo
  <1>6. Slicing(frames, names, n, acc[n])
    BY <1>1, <1>5 DEF G
  <1>7. FirstOf(frames, names) \cap (1..n) = FirstOf(frames, names)
    BY DEF FirstOf, n
  <1> QED BY <1>2, <1>6, <1>7 DEF Slicing

-----------------------------------------------------------------------------
(* Changes *)

LEMMA ChangesSteps ==
    ASSUME NEW frames, Recorded(frames)
    PROVE  \E acc : /\ acc[0] = [last |-> <<>>, changes |-> <<>>]
                    /\ \A k \in 1..Len(frames) : acc[k] = Changed(acc[k - 1], frames[k])
                    /\ Changes(frames) = acc[Len(frames)].changes
  <1> DEFINE n == Len(frames)
             A == [last : Knowledge, changes : Seq(LevelEvent)]
             base == [last |-> <<>>, changes |-> <<>>]
             step == [p \in (1..n) \X A |-> Changed(p[2], frames[p[1]])]
             Is(it) == it = [s \in SUBSET (1..n) |->
                                IF s = {} THEN base
                                ELSE Changed(it[s \ {Max(s)}], frames[Max(s)])]
             g == CHOOSE it : Is(it)
             acc == [k \in 0..n |-> g[1..k]]
  <1>1. n \in Nat /\ DOMAIN frames = 1..n
    BY LenProperties DEF Recorded
  <1>2. base \in A
    BY NothingKnown
  <1>3. ASSUME NEW a \in A, NEW fr, IsFrame(fr)
        PROVE  Changed(a, fr) \in A
    <2>1. CASE ~HasLevel(fr)
      BY <2>1 DEF Changed
    <2>2. CASE HasLevel(fr)
      <3>1. Noted(a.last, fr) \in Knowledge /\ Event(fr) \in LevelEvent
        BY <1>3, <2>2, NotedType, FrameEvents
      <3>2. Append(a.changes, Event(fr)) \in Seq(LevelEvent)
        BY <3>1, AppendProperties
      <3> QED BY <2>2, <3>1, <3>2 DEF Changed
    <2> QED BY <2>1, <2>2
  <1>4. \A k \in 1..n : IsFrame(frames[k])
    BY DEF Recorded
  <1>5. Changes(frames) = g[1..n].changes
    BY <1>1, Zenon DEF Changes, FoldLeft, MapThenFoldSet
  <1> HIDE DEF A, n, base
  <1>6. step \in [(1..n) \X A -> A]
    BY <1>3, <1>4
  <1>7. PICK it : IsFold(it, n, A, base, step)
    <2> HIDE DEF step
    <2> QED BY <1>1, <1>2, <1>6, FoldExists
  <1>8. Is(it)
    <2>1. ASSUME NEW s \in SUBSET (1..n), s # {}
          PROVE  it[s] = Changed(it[s \ {Max(s)}], frames[Max(s)])
      <3>1. Max(s) \in 1..n /\ s \ {Max(s)} \in SUBSET (1..n)
        BY <1>1, <2>1, MaxIn
      <3>2. <<Max(s), it[s \ {Max(s)}]>> \in (1..n) \X A
        BY <1>7, <3>1 DEF IsFold
      <3>3. it[s] = step[<<Max(s), it[s \ {Max(s)}]>>]
        BY <1>7, <2>1 DEF IsFold
      <3> QED BY <3>2, <3>3
    <2>2. it[{}] = base /\ it = [s \in SUBSET (1..n) |-> it[s]]
      BY <1>7 DEF IsFold
    <2> QED BY <2>1, <2>2
  <1>9. Is(g)
    <2> HIDE DEF Is
    <2> QED BY <1>8
  <1> HIDE DEF g
  <1>10. acc[0] = base
    <2>1. 1..0 = {} /\ {} \in SUBSET (1..n)
      OBVIOUS
    <2> QED BY <1>1, <1>9, <2>1
  <1>11. ASSUME NEW k \in 1..n
         PROVE  acc[k] = Changed(acc[k - 1], frames[k])
    <2>1. /\ 1..k \in SUBSET (1..n) /\ 1..k # {} /\ Max(1..k) = k
          /\ (1..k) \ {Max(1..k)} = 1 .. k - 1 /\ k - 1 \in 0..n
      BY <1>1, FirstPlaces
    <2>2. g[1..k] = Changed(g[1 .. k - 1], frames[k])
      BY <1>9, <2>1
    <2> QED BY <2>1, <2>2
  <1>12. acc[n] = g[1..n]
    BY <1>1
  <1> HIDE DEF acc
  <1> QED BY <1>5, <1>10, <1>11, <1>12 DEF n, base

\* What clusters knows of the first n frames: the changes there, in the order of time.
Changing(frames, n, acc) ==
    /\ Latest(frames, n, acc.last)
    /\ acc.changes \in Seq(LevelEvent)
    /\ \A j \in 1..Len(acc.changes) :
          \E k \in ChangesOf(frames) \cap (1..n) : acc.changes[j] = Event(frames[k])
    /\ \A k \in ChangesOf(frames) \cap (1..n) :
          \E j \in 1..Len(acc.changes) : acc.changes[j] = Event(frames[k])
    /\ InOrder(acc.changes)

LEMMA ChangeIs ==
    ASSUME NEW frames, Recorded(frames), NEW n \in Nat, n + 1 \in 1..Len(frames),
           NEW last, Latest(frames, n, last), HasLevel(frames[n + 1])
    PROVE  n + 1 \in ChangesOf(frames)
              <=> Before(last, InstanceOf(frames[n + 1]), Unseen) # LevelOf(frames[n + 1])
  <1> DEFINE fr == frames[n + 1]
             i == InstanceOf(fr)
             level == LevelOf(fr)
             isLast(j) == Tells(frames, j, i) /\ \A m \in j + 1 .. n : ~Tells(frames, m, i)
  <1>1. level \in 0..254
    BY FrameEvents DEF Recorded
  <1>2. n + 1 \in ChangesOf(frames) <=> \A j \in 1..n : isLast(j) => LevelOf(frames[j]) # level
    <2>1. (n + 1) - 1 = n
      OBVIOUS
    <2> QED BY <2>1 DEF ChangesOf
  <1> HIDE DEF fr, i, level
  <1>3. CASE i \in DOMAIN last
    <2>1. PICK k \in 1..n : isLast(k) /\ LevelOf(frames[k]) = last[i]
      BY <1>3 DEF Latest
    <2>2. ASSUME NEW j \in 1..n, isLast(j)
          PROVE  j = k
      <3>1. ~(j < k) /\ ~(k < j)
        <4>1. j < k => k \in j + 1 .. n
          OBVIOUS
        <4>2. k < j => j \in k + 1 .. n
          OBVIOUS
        <4> QED BY <2>1, <2>2, <4>1, <4>2
      <3> QED BY <3>1
    <2>3. Before(last, i, Unseen) = last[i]
      BY <1>3 DEF Before
    <2> HIDE DEF isLast
    <2> QED BY <1>2, <2>1, <2>2, <2>3 DEF i, level, fr
  <1>4. CASE i \notin DOMAIN last
    <2>1. \A j \in 1..n : ~Tells(frames, j, i)
      BY <1>4 DEF Latest
    <2>2. Before(last, i, Unseen) # level
      BY <1>1, <1>4 DEF Before, Unseen
    <2> QED BY <1>2, <2>1, <2>2 DEF i, level, fr
  <1> QED BY <1>3, <1>4

LEMMA OrderMore ==
    ASSUME NEW events \in Seq(LevelEvent), InOrder(events), NEW e \in LevelEvent,
           \A j \in 1..Len(events) : events[j].time <= e.time
    PROVE  InOrder(Append(events, e))
  <1> DEFINE more == Append(events, e)
             n == Len(events)
  <1>1. n \in Nat
    BY LenProperties
  <1>2. Len(more) = n + 1 /\ (\A k \in 1..n : more[k] = events[k]) /\ more[n + 1] = e
    BY AppendProperties
  <1>3. e.time \in Int
    BY DEF LevelEvent
  <1>4. (\A k \in 1..n : \A j \in 1..k : events[j].time <= events[k].time)
        /\ \A k \in 1..n : events[k].time <= e.time
    BY DEF InOrder
  <1> HIDE DEF more, n
  <1> SUFFICES ASSUME NEW k \in 1 .. n + 1, NEW j \in 1..k
               PROVE  more[j].time <= more[k].time
    BY <1>2 DEF InOrder, more
  <1>5. CASE k \in 1..n
    <2>1. j \in 1..n
      BY <1>1, <1>5
    <2> QED BY <1>2, <1>4, <1>5, <2>1
  <1>6. CASE k = n + 1
    <2>1. j \in 1..n \/ j = n + 1
      BY <1>1, <1>6
    <2>2. e.time <= e.time
      BY <1>3
    <2> QED BY <1>2, <1>4, <1>6, <2>1, <2>2
  <1> QED BY <1>1, <1>5, <1>6

LEMMA ChangedOnce ==
    ASSUME NEW frames, Recorded(frames), InOrder(frames), NEW n \in Nat, n + 1 \in 1..Len(frames),
           NEW acc, Changing(frames, n, acc)
    PROVE  Changing(frames, n + 1, Changed(acc, frames[n + 1]))
  <1> DEFINE fr == frames[n + 1]
             places == ChangesOf(frames)
             new == Changed(acc, fr)
             e == Event(fr)
  <1>1. /\ Latest(frames, n, acc.last) /\ acc.changes \in Seq(LevelEvent)
        /\ \A j \in 1..Len(acc.changes) :
              \E k \in places \cap (1..n) : acc.changes[j] = Event(frames[k])
        /\ \A k \in places \cap (1..n) :
              \E j \in 1..Len(acc.changes) : acc.changes[j] = Event(frames[k])
        /\ InOrder(acc.changes)
    BY DEF Changing
  <1>2. CASE HasLevel(fr) /\ n + 1 \in places
    <2>1. Before(acc.last, InstanceOf(fr), Unseen) # LevelOf(fr)
      BY <1>1, <1>2, ChangeIs
    <2>2. new = [last |-> Noted(acc.last, fr), changes |-> Append(acc.changes, e)]
      BY <1>2, <2>1 DEF Changed
    <2>3. Latest(frames, n + 1, new.last)
      BY <1>1, <1>2, <2>2, LatestAfter
    <2>4. e \in LevelEvent /\ e.time = fr.time
      BY <1>2, FrameEvents DEF Recorded, Event
    <2>5. \A j \in 1..Len(acc.changes) : acc.changes[j].time <= e.time
      <3> TAKE j \in 1..Len(acc.changes)
      <3>1. PICK k \in places \cap (1..n) : acc.changes[j] = Event(frames[k])
        BY <1>1
      <3>2. k \in 1 .. n + 1
        OBVIOUS
      <3>3. frames[k].time <= frames[n + 1].time
        BY <3>2 DEF InOrder
      <3> QED BY <2>4, <3>1, <3>3 DEF Event
    <2>6. places \cap (1 .. n + 1) = (places \cap (1..n)) \cup {n + 1}
      BY <1>2, OnePlaceMore
    <2>7. Event(frames[n + 1]) = e
      OBVIOUS
    <2> DEFINE m == Len(acc.changes)
               more == Append(acc.changes, e)
    <2>8. m \in Nat
      BY <1>1, LenProperties
    <2>9. /\ Len(more) = m + 1 /\ (\A k \in 1..m : more[k] = acc.changes[k]) /\ more[m + 1] = e
          /\ more \in Seq(LevelEvent)
      BY <1>1, <2>4, AppendProperties
    <2>10. new.changes = more
      BY <2>2
    <2>11. InOrder(more)
      BY <1>1, <2>4, <2>5, OrderMore
    <2> HIDE DEF e, new, more, places, m
    <2>12. ASSUME NEW j \in 1..Len(more)
           PROVE  \E k \in places \cap (1 .. n + 1) : more[j] = Event(frames[k])
      <3>1. j \in 1..m \/ j = m + 1
        BY <2>8, <2>9
      <3>2. CASE j \in 1..m
        <4>1. PICK k \in places \cap (1..n) : acc.changes[j] = Event(frames[k])
          BY <1>1, <3>2 DEF m
        <4>2. k \in places \cap (1 .. n + 1)
          BY <2>6
        <4> QED BY <2>9, <3>2, <4>1, <4>2
      <3>3. CASE j = m + 1
        <4>1. n + 1 \in places \cap (1 .. n + 1)
          BY <2>6
        <4> QED BY <2>7, <2>9, <3>3, <4>1
      <3> QED BY <3>1, <3>2, <3>3
    <2>13. ASSUME NEW k \in places \cap (1 .. n + 1)
           PROVE  \E j \in 1..Len(more) : more[j] = Event(frames[k])
      <3>1. CASE k = n + 1
        <4>1. m + 1 \in 1..Len(more)
          BY <2>8, <2>9
        <4> QED BY <2>7, <2>9, <3>1, <4>1
      <3>2. CASE k # n + 1
        <4>1. PICK j \in 1..m : acc.changes[j] = Event(frames[k])
          BY <1>1, <2>6, <3>2 DEF m
        <4>2. j \in 1..Len(more)
          BY <2>8, <2>9
        <4> QED BY <2>9, <4>1, <4>2
      <3> QED BY <3>1, <3>2
    <2>14. Changing(frames, n + 1, new)
      BY <2>3, <2>9, <2>10, <2>11, <2>12, <2>13 DEF Changing, places
    <2> QED BY <2>14 DEF new
  <1>3. CASE ~(HasLevel(fr) /\ n + 1 \in places)
    <2>1. new.changes = acc.changes /\ Latest(frames, n + 1, new.last)
      <3>1. CASE ~HasLevel(fr)
        BY <1>1, <3>1, LatestAfter DEF Changed
      <3>2. CASE HasLevel(fr)
        <4>1. Before(acc.last, InstanceOf(fr), Unseen) = LevelOf(fr)
          BY <1>1, <1>3, <3>2, ChangeIs
        <4>2. new = [last |-> Noted(acc.last, fr), changes |-> acc.changes]
          BY <3>2, <4>1 DEF Changed
        <4> QED BY <1>1, <3>2, <4>2, LatestAfter
      <3> QED BY <3>1, <3>2
    <2>2. n + 1 \notin places
      BY <1>3 DEF ChangesOf
    <2>3. places \cap (1 .. n + 1) = places \cap (1..n)
      BY <2>2, OnePlaceMore
    <2> HIDE DEF new, places
    <2>4. Changing(frames, n + 1, new)
      BY <1>1, <2>1, <2>3 DEF Changing, places
    <2> QED BY <2>4 DEF new
  <1> QED BY <1>2, <1>3

LEMMA ChangesFinds ==
    ASSUME NEW frames, Recorded(frames), InOrder(frames)
    PROVE  /\ Changes(frames) \in Seq(LevelEvent) /\ InOrder(Changes(frames))
           /\ \A j \in 1..Len(Changes(frames)) :
                 \E k \in ChangesOf(frames) : Changes(frames)[j] = Event(frames[k])
           /\ \A k \in ChangesOf(frames) :
                 \E j \in 1..Len(Changes(frames)) : Changes(frames)[j] = Event(frames[k])
  <1> DEFINE n == Len(frames)
  <1>1. n \in Nat
    BY LenProperties DEF Recorded
  <1>2. PICK acc : /\ acc[0] = [last |-> <<>>, changes |-> <<>>]
                   /\ \A k \in 1..n : acc[k] = Changed(acc[k - 1], frames[k])
                   /\ Changes(frames) = acc[n].changes
    BY ChangesSteps
  <1> HIDE DEF n
  <1> DEFINE G == {k \in Nat : k <= n => Changing(frames, k, acc[k])}
  <1>3. 0 \in G
    <2>1. Latest(frames, 0, <<>>)
      BY LatestFirst
    <2>2. 1..0 = {} /\ <<>> \in Seq(LevelEvent) /\ Len(<<>>) = 0
      OBVIOUS
    <2>3. acc[0].last = <<>> /\ acc[0].changes = <<>>
      BY <1>2
    <2>4. InOrder(<<>>)
      BY <2>2 DEF InOrder
    <2>5. Changing(frames, 0, acc[0])
      BY <2>1, <2>2, <2>3, <2>4 DEF Changing
    <2> QED BY <2>5
  <1>4. ASSUME NEW k \in Nat, k \in G
        PROVE  k + 1 \in G
    <2> SUFFICES ASSUME k + 1 <= n PROVE Changing(frames, k + 1, acc[k + 1])
      OBVIOUS
    <2>1. k + 1 \in 1..n /\ (k + 1) - 1 = k /\ k <= n
      BY <1>1
    <2>2. acc[k + 1] = Changed(acc[k], frames[k + 1])
      BY <1>2, <2>1
    <2>3. Changing(frames, k, acc[k])
      BY <1>4, <2>1
    <2> QED BY <2>1, <2>2, <2>3, ChangedOnce DEF n
  <1> HIDE DEF G
  <1>5. n \in G
    <2>1. G \in SUBSET Nat
      BY DEF G
    <2> QED BY <1>1, <1>3, <1>4, <2>1, UpTo
  <1>6. Changing(frames, n, acc[n])
    BY <1>1, <1>5 DEF G
  <1>7. ChangesOf(frames) \cap (1..n) = ChangesOf(frames)
    BY DEF ChangesOf, n
  <1> QED BY <1>2, <1>6, <1>7 DEF Changing

-----------------------------------------------------------------------------
(* Clusters *)

Cluster == [start : 0..MaxTime, instances : SUBSET (0..255)]

\* Taking a change into a cluster leaves a cluster.
LEMMA GrownType ==
    ASSUME NEW c \in Cluster, NEW i \in 0..255
    PROVE  Grown(c, i) \in Cluster
BY DEF Cluster, Grown

LEMMA ClusteredType ==
    ASSUME NEW acc \in Seq(Cluster), NEW e \in LevelEvent
    PROVE  Clustered(acc, e) \in Seq(Cluster)
  <1>1. e.time \in 0..MaxTime /\ e.instance \in 0..255
    BY DEF LevelEvent
  <1>2. ASSUME acc # <<>>
        PROVE  [acc EXCEPT ![Len(acc)] = Grown(@, e.instance)] \in Seq(Cluster)
    <2> DEFINE c == acc[Len(acc)]
               d == Grown(c, e.instance)
    <2>1. Len(acc) \in 1..Len(acc)
      BY <1>2, LenProperties, EmptySeq
    <2>2. c \in Cluster
      BY <2>1, ElementOfSeq
    <2>3. d \in Cluster
      BY <1>1, <2>2, GrownType
    <2> HIDE DEF d
    <2>4. [acc EXCEPT ![Len(acc)] = d] \in Seq(Cluster)
      BY <2>1, <2>3, ExceptSeq
    <2> QED BY <2>4 DEF d
  <1>3. [start |-> e.time, instances |-> {e.instance}] \in Cluster
    BY <1>1 DEF Cluster
  <1>4. Append(acc, [start |-> e.time, instances |-> {e.instance}]) \in Seq(Cluster)
    BY <1>3, AppendProperties
  <1> QED BY <1>2, <1>4 DEF Clustered

LEMMA ClustersSteps ==
    ASSUME NEW frames, Changes(frames) \in Seq(LevelEvent)
    PROVE  \E acc : /\ acc[0] = <<>>
                    /\ \A k \in 1..Len(Changes(frames)) : acc[k] = Clustered(acc[k - 1], Changes(frames)[k])
                    /\ Clusters(frames) = acc[Len(Changes(frames))]
  <1> DEFINE n == Len(Changes(frames))
             A == Seq(Cluster)
             base == <<>>
             step == [p \in (1..n) \X A |-> Clustered(p[2], Changes(frames)[p[1]])]
             Is(it) == it = [s \in SUBSET (1..n) |->
                                IF s = {} THEN base
                                ELSE Clustered(it[s \ {Max(s)}], Changes(frames)[Max(s)])]
             g == CHOOSE it : Is(it)
             acc == [k \in 0..n |-> g[1..k]]
  <1>1. n \in Nat /\ DOMAIN Changes(frames) = 1..n
    BY LenProperties
  <1>2. base \in A
    OBVIOUS
  <1>3. ASSUME NEW a \in A, NEW e \in LevelEvent
        PROVE  Clustered(a, e) \in A
    BY ClusteredType
  <1>4. \A k \in 1..n : Changes(frames)[k] \in LevelEvent
    BY ElementOfSeq
  <1>5. Clusters(frames) = g[1..n]
    BY <1>1, Zenon DEF Clusters, FoldLeft, MapThenFoldSet
  <1> HIDE DEF A, n, base
  <1>6. step \in [(1..n) \X A -> A]
    BY <1>3, <1>4
  <1>7. PICK it : IsFold(it, n, A, base, step)
    <2> HIDE DEF step
    <2> QED BY <1>1, <1>2, <1>6, FoldExists
  <1>8. Is(it)
    <2>1. ASSUME NEW s \in SUBSET (1..n), s # {}
          PROVE  it[s] = Clustered(it[s \ {Max(s)}], Changes(frames)[Max(s)])
      <3>1. Max(s) \in 1..n /\ s \ {Max(s)} \in SUBSET (1..n)
        BY <1>1, <2>1, MaxIn
      <3>2. <<Max(s), it[s \ {Max(s)}]>> \in (1..n) \X A
        BY <1>7, <3>1 DEF IsFold
      <3>3. it[s] = step[<<Max(s), it[s \ {Max(s)}]>>]
        BY <1>7, <2>1 DEF IsFold
      <3> QED BY <3>2, <3>3
    <2>2. it[{}] = base /\ it = [s \in SUBSET (1..n) |-> it[s]]
      BY <1>7 DEF IsFold
    <2> QED BY <2>1, <2>2
  <1>9. Is(g)
    <2> HIDE DEF Is
    <2> QED BY <1>8
  <1> HIDE DEF g
  <1>10. acc[0] = base
    <2>1. 1..0 = {} /\ {} \in SUBSET (1..n)
      OBVIOUS
    <2> QED BY <1>1, <1>9, <2>1
  <1>11. ASSUME NEW k \in 1..n
         PROVE  acc[k] = Clustered(acc[k - 1], Changes(frames)[k])
    <2>1. /\ 1..k \in SUBSET (1..n) /\ 1..k # {} /\ Max(1..k) = k
          /\ (1..k) \ {Max(1..k)} = 1 .. k - 1 /\ k - 1 \in 0..n
      BY <1>1, FirstPlaces
    <2>2. g[1..k] = Clustered(g[1 .. k - 1], Changes(frames)[k])
      BY <1>9, <2>1
    <2> QED BY <2>1, <2>2
  <1>12. acc[n] = g[1..n]
    BY <1>1
  <1> HIDE DEF acc
  <1> QED BY <1>5, <1>10, <1>11, <1>12 DEF n, base

\* What the clusters of the first m changes say: their windows are apart, the last one is open
\* at most until the last change, each change is in one, and each has the instances of its own.
Clustering(changes, m, acc) ==
    /\ acc \in Seq(Cluster)
    /\ (m = 0 <=> acc = <<>>)
    /\ \A k \in 1..Len(acc) :
          /\ k < Len(acc) => acc[k].start + Window < acc[k + 1].start
          /\ k < Len(acc) => acc[k].start + Window < acc[Len(acc)].start
          /\ acc[k].instances
                = {changes[j].instance : j \in {i \in 1..m : Covers(acc[k], changes[i])}}
    /\ \A j \in 1..m : \E k \in 1..Len(acc) : Covers(acc[k], changes[j])
    /\ m > 0 => Covers(acc[Len(acc)], changes[m])

LEMMA CoveredMore ==
    ASSUME NEW changes, NEW m \in Nat, NEW c
    PROVE  /\ Covers(c, changes[m + 1]) =>
                {changes[j].instance : j \in {i \in 1 .. m + 1 : Covers(c, changes[i])}}
                 = {changes[j].instance : j \in {i \in 1..m : Covers(c, changes[i])}}
                      \cup {changes[m + 1].instance}
           /\ ~Covers(c, changes[m + 1]) =>
                {changes[j].instance : j \in {i \in 1 .. m + 1 : Covers(c, changes[i])}}
                 = {changes[j].instance : j \in {i \in 1..m : Covers(c, changes[i])}}
  <1>1. 1 .. m + 1 = (1..m) \cup {m + 1}
    OBVIOUS
  <1>2. Covers(c, changes[m + 1]) => {i \in 1 .. m + 1 : Covers(c, changes[i])}
                                        = {i \in 1..m : Covers(c, changes[i])} \cup {m + 1}
    BY <1>1
  <1>3. ~Covers(c, changes[m + 1]) => {i \in 1 .. m + 1 : Covers(c, changes[i])}
                                         = {i \in 1..m : Covers(c, changes[i])}
    BY <1>1
  <1> QED BY <1>2, <1>3

LEMMA CoversIs ==
    ASSUME NEW c \in Cluster, NEW e \in LevelEvent
    PROVE  /\ c.start \in Int /\ e.time \in Int /\ c.instances \in SUBSET (0..255)
           /\ Covers(c, e) <=> c.start <= e.time /\ e.time <= c.start + Window
           /\ Within(c, e.time) <=> e.time <= c.start + Window
  BY DimmingAssumption DEF Covers, Within, Cluster, LevelEvent

LEMMA ClusteredOnce ==
    ASSUME NEW changes \in Seq(LevelEvent), InOrder(changes),
           NEW m \in Nat, m + 1 \in 1..Len(changes), NEW acc, Clustering(changes, m, acc)
    PROVE  Clustering(changes, m + 1, Clustered(acc, changes[m + 1]))
  <1> DEFINE e == changes[m + 1]
             new == Clustered(acc, e)
             l == Len(acc)
             in(c, n) == {changes[j].instance : j \in {i \in 1..n : Covers(c, changes[i])}}
  <1>1. /\ acc \in Seq(Cluster) /\ (m = 0 <=> acc = <<>>)
        /\ \A k \in 1..l : /\ k < l => acc[k].start + Window < acc[k + 1].start
                           /\ k < l => acc[k].start + Window < acc[l].start
                           /\ acc[k].instances = in(acc[k], m)
        /\ \A j \in 1..m : \E k \in 1..l : Covers(acc[k], changes[j])
        /\ m > 0 => Covers(acc[l], changes[m])
    BY DEF Clustering
  <1>2. l \in Nat /\ (acc # <<>> => l \in 1..l)
    BY <1>1, LenProperties, EmptySeq
  <1>3. e \in LevelEvent /\ \A j \in 1..m : changes[j] \in LevelEvent /\ changes[j].time <= e.time
    <2>1. \A j \in 1..Len(changes) : changes[j] \in LevelEvent
      BY ElementOfSeq
    <2>2. Len(changes) \in Nat
      BY LenProperties
    <2>3. \A j \in 1..m : j \in 1..Len(changes) /\ j \in 1 .. m + 1
      BY <2>2
    <2> QED BY <2>1, <2>3 DEF InOrder
  <1>4. Window \in Nat
    BY DimmingAssumption
  <1>5. \A k \in 1..l : acc[k] \in Cluster
    BY <1>1, ElementOfSeq
  <1>6. new \in Seq(Cluster)
    BY <1>1, <1>3, ClusteredType
  <1>7. 1 .. m + 1 = (1..m) \cup {m + 1} /\ changes[m + 1] = e
    OBVIOUS
  <1>8. \A c : in(c, m + 1) = IF Covers(c, e) THEN in(c, m) \cup {e.instance} ELSE in(c, m)
    BY CoveredMore
  <1>9. CASE acc # <<>> /\ Within(Last(acc), e.time)
    <2> DEFINE grown == Grown(acc[l], e.instance)
    <2>1. Last(acc) = acc[l] /\ l \in 1..l /\ acc[l] \in Cluster
      BY <1>2, <1>5, <1>9 DEF Last
    <2>2. new = [acc EXCEPT ![l] = grown]
      BY <1>9 DEF Clustered
    <2>3. grown.start = acc[l].start /\ grown.instances = acc[l].instances \cup {e.instance}
      BY DEF Grown
    <2>4. grown \in Cluster
      <3>1. e.instance \in 0..255
        BY <1>3 DEF LevelEvent
      <3> QED BY <2>1, <3>1, GrownType
    <2> HIDE DEF grown
    <2>5. Len(new) = l /\ \A k \in 1..l : new[k] = IF k = l THEN grown ELSE acc[k]
      BY <1>1, <2>1, <2>2, <2>4, ExceptSeq
    <2>6. \A k \in 1..l : new[k].start = acc[k].start
      BY <2>3, <2>5
    <2>7. \A k \in 1..l : \A x : Covers(new[k], x) <=> Covers(acc[k], x)
      BY <2>6 DEF Covers
    <2>8. m > 0 /\ m \in 1..m
      BY <1>1, <1>9
    <2>9. Covers(acc[l], e)
      <3>1. e.time <= acc[l].start + Window
        BY <1>3, <1>9, <2>1, CoversIs
      <3>2. acc[l].start <= changes[m].time /\ changes[m].time \in Int /\ changes[m].time <= e.time
        BY <1>1, <1>3, <2>1, <2>8, CoversIs
      <3>3. e.time \in Int /\ acc[l].start \in Int
        BY <1>3, <2>1, CoversIs
      <3>4. acc[l].start <= e.time
        BY <3>2, <3>3
      <3> QED BY <1>3, <2>1, <3>1, <3>4, CoversIs
    <2>10. ASSUME NEW k \in 1..l, k < l
           PROVE  ~Covers(acc[k], e)
      <3>1. acc[k].start + Window < acc[l].start /\ acc[l].start <= e.time
        BY <1>1, <1>3, <2>1, <2>9, <2>10, CoversIs
      <3>2. acc[k].start \in Int /\ acc[l].start \in Int /\ e.time \in Int
        BY <1>3, <1>5, <2>1, CoversIs
      <3>3. ~(e.time <= acc[k].start + Window)
        BY SMTT(30), <1>4, <3>1, <3>2
      <3> QED BY <1>3, <1>5, <3>3, CoversIs
    <2>11. ASSUME NEW k \in 1..l
           PROVE  new[k].instances = in(new[k], m + 1)
      <3>1. in(new[k], m + 1) = in(acc[k], m + 1)
        BY <2>7
      <3>2. CASE k = l
        BY ZenonT(30), <1>1, <1>8, <2>3, <2>5, <2>9, <3>1, <3>2
      <3>3. CASE k # l
        <4>1. k < l
          BY <1>2, <3>3
        <4> QED BY <1>1, <1>8, <2>5, <2>10, <3>1, <3>3, <4>1
      <3> QED BY <3>2, <3>3
    <2> HIDE DEF new, e, l, in
    <2>12. \A k \in 1..l : /\ k < l => new[k].start + Window < new[k + 1].start
                           /\ k < l => new[k].start + Window < new[l].start
      <3> TAKE k \in 1..l
      <3>1. k < l => k + 1 \in 1..l
        BY <1>2
      <3> QED BY <1>1, <2>1, <2>6, <3>1
    <2>13. \A j \in 1 .. m + 1 : \E k \in 1..l : Covers(new[k], changes[j])
      BY <1>1, <1>7, <2>1, <2>7, <2>9
    <2>14. Covers(new[l], e) /\ m + 1 # 0
      BY <2>1, <2>7, <2>9
    <2>15. new # <<>>
      BY <2>1, <2>5
    <2>16. Clustering(changes, m + 1, new)
      BY <1>6, <1>7, <2>5, <2>11, <2>12, <2>13, <2>14, <2>15 DEF Clustering, in
    <2> QED BY <2>16 DEF new, e
  <1>10. CASE ~(acc # <<>> /\ Within(Last(acc), e.time))
    <2> DEFINE fresh == [start |-> e.time, instances |-> {e.instance}]
    <2>1. new = Append(acc, fresh)
      BY <1>10 DEF Clustered
    <2>2. fresh \in Cluster
      BY SMTT(30), <1>3 DEF Cluster, LevelEvent
    <2>3. fresh.start = e.time /\ fresh.instances = {e.instance}
      OBVIOUS
    <2> HIDE DEF fresh
    <2>4. Len(new) = l + 1 /\ (\A k \in 1..l : new[k] = acc[k]) /\ new[l + 1] = fresh
      BY <1>1, <2>1, <2>2, AppendProperties
    <2>5. e.time \in Int
      BY SMTT(30), <1>3 DEF LevelEvent
    <2>6. Covers(fresh, e)
      <3>1. fresh.start <= e.time /\ e.time <= fresh.start + Window
        BY <1>4, <2>3, <2>5
      <3> QED BY <1>3, <2>2, <3>1, CoversIs
    <2>7. ASSUME NEW k \in 1..l
          PROVE  acc[k].start + Window < e.time
      <3>1. acc # <<>>
        BY <1>1, <2>7 DEF l
      <3>2. l \in 1..l /\ Last(acc) = acc[l]
        BY <1>2, <3>1 DEF Last
      <3>3. acc[l].start \in Int /\ acc[k].start \in Int
        BY <1>3, <1>5, <3>2, CoversIs
      <3>4. ~(e.time <= acc[l].start + Window)
        BY <1>3, <1>5, <1>10, <3>1, <3>2, CoversIs
      <3>5. CASE k = l
        BY <1>4, <2>5, <3>3, <3>4, <3>5
      <3>6. CASE k # l
        <4>1. k < l
          BY <1>2, <3>6
        <4>2. acc[k].start + Window < acc[l].start
          BY <1>1, <4>1
        <4> QED BY SMTT(30), <1>4, <2>5, <3>3, <3>4, <4>2
      <3> QED BY <3>5, <3>6
    <2>8. ASSUME NEW k \in 1..l
          PROVE  ~Covers(acc[k], e)
      <3>1. acc[k].start \in Int /\ acc[k].start + Window < e.time
        BY <1>3, <1>5, <2>7, CoversIs
      <3>2. ~(e.time <= acc[k].start + Window)
        BY <1>4, <2>5, <3>1
      <3> QED BY <1>3, <1>5, <3>2, CoversIs
    <2>9. ASSUME NEW j \in 1..m
          PROVE  ~Covers(fresh, changes[j])
      <3>1. acc # <<>> /\ m > 0 /\ m \in 1..m
        BY <1>1
      <3>2. l \in 1..l
        BY <1>2, <3>1
      <3>3. changes[m].time <= acc[l].start + Window
        BY <1>1, <1>3, <1>5, <3>1, <3>2, CoversIs
      <3>4. acc[l].start + Window < e.time /\ acc[l].start \in Int
        BY <1>3, <1>5, <2>7, <3>2, CoversIs
      <3>5. changes[m].time < e.time
        <4>1. changes[m].time \in Int
          BY <1>3, <3>1 DEF LevelEvent
        <4> QED BY SMTT(30), <1>4, <2>5, <3>3, <3>4, <4>1
      <3>6. changes[j].time <= changes[m].time
        <4>1. m \in 1..Len(changes)
          <5>1. Len(changes) \in Nat
            BY LenProperties
          <5> QED BY <3>1, <5>1
        <4> QED BY <4>1 DEF InOrder
      <3>7. ~(fresh.start <= changes[j].time)
        <4>1. changes[m].time \in Int /\ changes[j].time \in Int
          BY <1>3, <3>1 DEF LevelEvent
        <4> QED BY <2>3, <2>5, <3>5, <3>6, <4>1
      <3> QED BY <1>3, <2>2, <3>7, CoversIs
    <2>10. fresh.instances = in(fresh, m + 1)
      <3>1. in(fresh, m) = {}
        BY <2>9
      <3> HIDE DEF in
      <3> QED BY <1>8, <2>3, <2>6, <3>1
    <2> HIDE DEF new, e, l, in
    <2>11. ASSUME NEW k \in 1 .. l + 1
           PROVE  /\ k < l + 1 => new[k].start + Window < new[k + 1].start
                  /\ k < l + 1 => new[k].start + Window < new[l + 1].start
                  /\ new[k].instances = in(new[k], m + 1)
      <3>1. CASE k = l + 1
        <4>1. ~(k < l + 1)
          BY <1>2, <3>1
        <4> QED BY <2>4, <2>10, <3>1, <4>1
      <3>2. CASE k # l + 1
        <4>1. k \in 1..l /\ new[k] = acc[k]
          BY <1>2, <2>4, <3>2
        <4>2. new[k].instances = in(new[k], m + 1)
          BY <1>1, <1>8, <2>8, <4>1
        <4>3. new[k].start + Window < new[l + 1].start
          BY <2>3, <2>4, <2>7, <4>1
        <4>4. new[k].start + Window < new[k + 1].start
          <5>1. CASE k = l
            BY <4>3, <5>1
          <5>2. CASE k # l
            <6>1. k < l /\ k + 1 \in 1..l
              BY <1>2, <4>1, <5>2
            <6> QED BY <1>1, <2>4, <4>1, <6>1
          <5> QED BY <5>1, <5>2
        <4> QED BY <4>2, <4>3, <4>4
      <3> QED BY <3>1, <3>2
    <2>12. ASSUME NEW j \in 1 .. m + 1
           PROVE  \E k \in 1 .. l + 1 : Covers(new[k], changes[j])
      <3>1. CASE j = m + 1
        <4>1. l + 1 \in 1 .. l + 1
          BY <1>2
        <4> QED BY <1>7, <2>4, <2>6, <3>1, <4>1
      <3>2. CASE j # m + 1
        <4>1. PICK k \in 1..l : Covers(acc[k], changes[j])
          BY <1>1, <1>7, <3>2
        <4>2. k \in 1 .. l + 1
          BY <1>2
        <4> QED BY <2>4, <4>1, <4>2
      <3> QED BY <3>1, <3>2
    <2>13. new # <<>> /\ m + 1 # 0
      BY <1>2, <2>4
    <2>14. Clustering(changes, m + 1, new)
      BY <1>6, <1>7, <2>4, <2>6, <2>11, <2>12, <2>13 DEF Clustering, in
    <2> QED BY <2>14 DEF new, e
  <1> QED BY <1>9, <1>10

LEMMA ClustersFind ==
    ASSUME NEW frames, Changes(frames) \in Seq(LevelEvent), InOrder(Changes(frames))
    PROVE  Clustering(Changes(frames), Len(Changes(frames)), Clusters(frames))
  <1> DEFINE changes == Changes(frames)
             n == Len(changes)
  <1>1. n \in Nat
    BY LenProperties
  <1>2. PICK acc : /\ acc[0] = <<>>
                   /\ \A k \in 1..n : acc[k] = Clustered(acc[k - 1], changes[k])
                   /\ Clusters(frames) = acc[n]
    BY ClustersSteps
  <1> HIDE DEF n, changes
  <1> DEFINE G == {k \in Nat : k <= n => Clustering(changes, k, acc[k])}
  <1>3. 0 \in G
    <2>1. 1..0 = {} /\ <<>> \in Seq(Cluster) /\ Len(<<>>) = 0 /\ ~(0 > 0)
      OBVIOUS
    <2>2. Clustering(changes, 0, acc[0])
      BY <1>2, <2>1 DEF Clustering
    <2> QED BY <2>2
  <1>4. ASSUME NEW k \in Nat, k \in G
        PROVE  k + 1 \in G
    <2> SUFFICES ASSUME k + 1 <= n PROVE Clustering(changes, k + 1, acc[k + 1])
      OBVIOUS
    <2>1. k + 1 \in 1..n /\ (k + 1) - 1 = k /\ k <= n
      BY <1>1
    <2>2. acc[k + 1] = Clustered(acc[k], changes[k + 1])
      BY <1>2, <2>1
    <2>3. Clustering(changes, k, acc[k])
      BY <1>4, <2>1
    <2> QED BY <2>1, <2>2, <2>3, ClusteredOnce DEF n, changes
  <1> HIDE DEF G
  <1>5. n \in G
    <2>1. G \in SUBSET Nat
      BY DEF G
    <2> QED BY <1>1, <1>3, <1>4, <2>1, UpTo
  <1>6. Clustering(changes, n, acc[n])
    BY <1>1, <1>5 DEF G
  <1> QED BY <1>2, <1>6 DEF n, changes

\* What clusters says of a capture, whatever the capture.
LEMMA ClustersFinds ==
    ASSUME Recorded(log), InOrder(log)
    PROVE  ClustersAgree
  <1> DEFINE changes == Changes(log)
             m == Len(changes)
             found == Clusters(log)
             places == ChangesOf(log)
  <1>1. /\ changes \in Seq(LevelEvent) /\ InOrder(changes)
        /\ \A j \in 1..m : \E n \in places : changes[j] = Event(log[n])
        /\ \A n \in places : \E j \in 1..m : changes[j] = Event(log[n])
    BY ChangesFinds
  <1>2. Clustering(changes, m, found)
    BY <1>1, ClustersFind
  <1> HIDE DEF changes, m, found, places
  <1>3. /\ found \in Seq(Cluster)
        /\ \A k \in 1..Len(found) :
              /\ k < Len(found) => found[k].start + Window < found[k + 1].start
              /\ found[k].instances
                    = {changes[j].instance : j \in {i \in 1..m : Covers(found[k], changes[i])}}
        /\ \A j \in 1..m : \E k \in 1..Len(found) : Covers(found[k], changes[j])
    BY <1>2 DEF Clustering
  <1>4. \A c, n : /\ Covers(c, Event(log[n])) <=> Covers(c, log[n])
                  /\ Event(log[n]).instance = InstanceOf(log[n])
    BY DEF Covers, Event
  <1>5. ASSUME NEW k \in 1 .. Len(found) - 1
        PROVE  found[k + 1].start > found[k].start + Window
    <2>1. Len(found) \in Nat
      BY <1>3, LenProperties
    <2>2. k \in 1..Len(found) /\ k + 1 \in 1..Len(found) /\ k < Len(found)
      BY <2>1
    <2>3. found[k] \in Cluster /\ found[k + 1] \in Cluster
      BY <1>3, <2>2, ElementOfSeq
    <2>4. found[k].start \in Int /\ found[k + 1].start \in Int /\ Window \in Nat
      BY <2>3, DimmingAssumption DEF Cluster
    <2> QED BY <1>3, <2>2, <2>4
  <1>6. \A n \in places : \E k \in 1..Len(found) : Covers(found[k], log[n])
    <2> TAKE n \in places
    <2>1. PICK j \in 1..m : changes[j] = Event(log[n])
      BY <1>1
    <2>2. PICK k \in 1..Len(found) : Covers(found[k], changes[j])
      BY <1>3
    <2> QED BY <1>4, <2>1, <2>2
  <1>7. ASSUME NEW k \in 1..Len(found)
        PROVE  found[k].instances
                  = {InstanceOf(log[n]) : n \in {p \in places : Covers(found[k], log[p])}}
    <2> DEFINE A == {changes[j].instance : j \in {i \in 1..m : Covers(found[k], changes[i])}}
               B == {InstanceOf(log[n]) : n \in {p \in places : Covers(found[k], log[p])}}
    <2>1. ASSUME NEW x \in A
          PROVE  x \in B
      <3>1. PICK j \in 1..m : Covers(found[k], changes[j]) /\ x = changes[j].instance
        BY <2>1
      <3>2. PICK n \in places : changes[j] = Event(log[n])
        BY <1>1
      <3> QED BY <1>4, <3>1, <3>2
    <2>2. ASSUME NEW x \in B
          PROVE  x \in A
      <3>1. PICK n \in places : Covers(found[k], log[n]) /\ x = InstanceOf(log[n])
        BY <2>2
      <3>2. PICK j \in 1..m : changes[j] = Event(log[n])
        BY <1>1
      <3> QED BY <1>4, <3>1, <3>2
    <2>3. found[k].instances = A
      BY <1>3
    <2> QED BY <2>1, <2>2, <2>3
  <1> QED BY <1>5, <1>6, <1>7 DEF ClustersAgree, found, places

-----------------------------------------------------------------------------
(* The tools agree *)

\* What correlate, clusters and slice_frames find is what their documentation says they
\* look for, in every capture, and verify_encoder has nothing to report of commands that
\* give a level.
THEOREM ToolsCorrect == Spec => []ToolsAgree
  <1>1. DimTypeOK => CorrelateAgrees /\ ClustersAgree /\ SliceAgrees
    <2> SUFFICES ASSUME DimTypeOK PROVE CorrelateAgrees /\ ClustersAgree /\ SliceAgrees
      OBVIOUS
    <2>1. LogTyped(log, now)
      BY LogOfType
    <2>2. Recorded(log) /\ InOrder(log)
      <3>1. \A k \in 1..Len(log) : log[k] \in FrameType
        BY <2>1, ElementOfSeq DEF LogTyped
      <3> QED BY <2>1, <3>1 DEF LogTyped, Recorded, IsFrame
    <2>3. CorrelateAgrees
      BY <2>2, CorrelateFinds DEF CorrelateAgrees
    <2>4. ClustersAgree
      BY <2>2, ClustersFinds
    <2>5. SliceAgrees
      BY <2>2, SliceFinds DEF SliceAgrees
    <2> QED BY <2>3, <2>4, <2>5
  <1>2. CommandsReencode /\ CorrelateAgrees /\ ClustersAgree /\ SliceAgrees => ToolsAgree
    BY DEF ToolsAgree
  <1> QED BY <1>1, <1>2, LevelsTyped, CommandsVerify, PTL

=============================================================================
