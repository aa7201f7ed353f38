-------------------------- MODULE Base64DecoderProofs --------------------------
(***************************************************************************)
(* What the loop of DecodeBase64 keeps true, character by character, for a *)
(* text of any length and any width of val.                                *)
(***************************************************************************)
EXTENDS Base64Decoder, TLAPS

(***************************************************************************)
(* Shifts and remainders                                                   *)
(***************************************************************************)
LEMMA Powers == 2^0 = 1 /\ 2^2 = 4 /\ 2^4 = 16
  OBVIOUS

\* What is modulo Word is so modulo 4096.
LEMMA Division ==
  ASSUME NEW x \in Int, NEW w \in Int, w > 0
  PROVE  x \div w \in Int /\ x % w \in 0..(w - 1) /\ x = w * (x \div w) + (x % w)
  BY Z3

Low(x) == x % 4096

Wrapped(x) == x % Word

LEMMA WordKeeps ==
  ASSUME NEW x \in Nat
  PROVE  Wrapped(x) \in 0..(Word - 1) /\ Wrapped(x) \in Nat /\ Low(Wrapped(x)) = Low(x)
  <1> DEFINE w == Word \div 4096
             q == x \div Word
             r == x % Word
             p == w * q
  <1>1. Word \in Int /\ Word > 0 /\ Word % 4096 = 0
        BY WordAssumption
  <1>2. w \in Int /\ Word = 4096 * w
        BY <1>1
  <1>3. q \in Int /\ r \in 0..(Word - 1) /\ x = Word * q + r
        BY <1>1, Division
  <1> HIDE DEF w, q, r
  <1>4. Word * q = 4096 * p /\ p \in Int
        BY <1>2, <1>3
  <1> HIDE DEF p
  <1>5. r \in Int /\ x = 4096 * p + r
        BY <1>1, <1>3, <1>4
  <1>6. x % 4096 = r % 4096
        BY <1>4, <1>5
  <1> QED BY <1>3, <1>6 DEF r, Low, Wrapped

(***************************************************************************)
(* The digits before a character.  DigitsBefore is a recursive function;   *)
(* that its recursion has one solution is kept true step by step.          *)
(***************************************************************************)
Solves(f, encoded, end) ==
  f = [i \in 1..end |->
         IF i = 1 THEN <<>>
         ELSE IF encoded[i - 1] \in Digits THEN Append(f[i - 1], encoded[i - 1])
         ELSE f[i - 1]]

Solvable(encoded, end) ==
  \E f \in [1..end -> Seq(Digits)] :
    Solves(f, encoded, end) /\ \A g : Solves(g, encoded, end) => g = f

LEMMA TheSolution ==
  ASSUME NEW encoded, NEW end, NEW f, Solves(f, encoded, end),
         \A g : Solves(g, encoded, end) => g = f
  PROVE  DigitsBefore(encoded, end) = f[end]
  <1> DEFINE solution == CHOOSE g : Solves(g, encoded, end)
  <1>1. DigitsBefore(encoded, end) = solution[end]
        BY DEF DigitsBefore, Solves
  <1>2. solution = f
        OBVIOUS
  <1> QED BY <1>1, <1>2

LEMMA SolvableAtFirst ==
  ASSUME NEW encoded
  PROVE  Solvable(encoded, 1) /\ DigitsBefore(encoded, 1) = <<>>
  <1> DEFINE f == [i \in 1..1 |-> <<>>]
  <1>1. f \in [1..1 -> Seq(Digits)] /\ f[1] = <<>>
        OBVIOUS
  <1>2. Solves(f, encoded, 1) /\ \A g : Solves(g, encoded, 1) => g = f
        BY DEF Solves
  <1> HIDE DEF f
  <1>3. DigitsBefore(encoded, 1) = f[1]
        BY <1>2, TheSolution
  <1> QED BY <1>1, <1>2, <1>3 DEF Solvable

\* One character on, the digits are those before it, and it if it is one.
LEMMA SolvableAtNext ==
  ASSUME NEW encoded, NEW end \in Nat \ {0}, Solvable(encoded, end)
  PROVE  LET digits == DigitsBefore(encoded, end)
         IN  /\ Solvable(encoded, end + 1)
             /\ digits \in Seq(Digits)
             /\ DigitsBefore(encoded, end + 1) =
                  IF encoded[end] \in Digits THEN Append(digits, encoded[end]) ELSE digits
  <1>1. PICK f \in [1..end -> Seq(Digits)] :
          Solves(f, encoded, end) /\ \A g : Solves(g, encoded, end) => g = f
        BY DEF Solvable
  <1> DEFINE digits == DigitsBefore(encoded, end)
             after  == IF encoded[end] \in Digits THEN Append(digits, encoded[end]) ELSE digits
             next   == [i \in 1..(end + 1) |-> IF i = end + 1 THEN after ELSE f[i]]
  <1>2. digits = f[end] /\ digits \in Seq(Digits) /\ after \in Seq(Digits)
        BY <1>1, TheSolution
  <1> HIDE DEF digits
  <1>3. /\ next \in [1..(end + 1) -> Seq(Digits)] /\ DOMAIN next = 1..(end + 1)
        /\ next[end + 1] = after /\ \A i \in 1..end : next[i] = f[i]
        BY <1>2
  <1> HIDE DEF next
  <1>9. /\ end + 1 \in 1..(end + 1) /\ end + 1 # 1 /\ end \in 1..end /\ (end + 1) - 1 = end
        /\ \A i \in 1..(end + 1) : i = end + 1 \/ i \in 1..end
        /\ \A i \in 1..end : i \in 1..(end + 1) /\ (i = 1 \/ i - 1 \in 1..end)
        OBVIOUS
  <1>4. \A i \in 1..end : f[i] = IF i = 1 THEN <<>>
                                 ELSE IF encoded[i - 1] \in Digits
                                      THEN Append(f[i - 1], encoded[i - 1])
                                 ELSE f[i - 1]
        BY <1>1 DEF Solves
  <1>5. Solves(next, encoded, end + 1)
    <2>1. ASSUME NEW i \in 1..(end + 1)
          PROVE  next[i] = IF i = 1 THEN <<>>
                           ELSE IF encoded[i - 1] \in Digits
                                THEN Append(next[i - 1], encoded[i - 1])
                           ELSE next[i - 1]
      <3>1. CASE i = end + 1
            BY <1>2, <1>3, <1>9, <3>1
      <3>2. CASE i \in 1..end
        <4>1. next[i] = f[i] /\ (i = 1 \/ next[i - 1] = f[i - 1])
              BY <1>3, <1>9, <3>2
        <4> QED BY <1>4, <3>2, <4>1
      <3> QED BY <1>9, <3>1, <3>2
    <2>2. next = [i \in 1..(end + 1) |->
                   IF i = 1 THEN <<>>
                   ELSE IF encoded[i - 1] \in Digits THEN Append(next[i - 1], encoded[i - 1])
                   ELSE next[i - 1]]
          BY <1>3, <2>1
    <2> QED BY <2>2 DEF Solves
  <1>6. ASSUME NEW g, Solves(g, encoded, end + 1)
        PROVE  g = next
    <2> DEFINE h == [i \in 1..end |-> g[i]]
    <2>1. /\ DOMAIN g = 1..(end + 1) /\ g = [i \in 1..(end + 1) |-> g[i]]
          /\ \A i \in 1..(end + 1) : g[i] = IF i = 1 THEN <<>>
                                            ELSE IF encoded[i - 1] \in Digits
                                                 THEN Append(g[i - 1], encoded[i - 1])
                                            ELSE g[i - 1]
          BY <1>6 DEF Solves
    <2>2. Solves(h, encoded, end)
      <3>1. \A i \in 1..end : h[i] = g[i] /\ (i = 1 \/ h[i - 1] = g[i - 1])
            BY <1>9
      <3>2. \A i \in 1..end : g[i] = IF i = 1 THEN <<>>
                                     ELSE IF encoded[i - 1] \in Digits
                                          THEN Append(h[i - 1], encoded[i - 1])
                                     ELSE h[i - 1]
            BY <1>9, <2>1, <3>1
      <3> QED BY <3>2 DEF Solves
    <2>3. h = f
          BY <1>1, <2>2
    <2>4. \A i \in 1..end : g[i] = f[i]
          BY <2>3
    <2>5. g[end + 1] = after
      <3>1. g[end] = digits
            BY <1>2, <1>9, <2>4
      <3> QED BY <1>9, <2>1, <3>1
    <2>6. \A i \in 1..(end + 1) : g[i] = next[i]
          BY <1>3, <1>9, <2>4, <2>5
    <2> QED BY <1>3, <2>1, <2>6
  <1>7. DigitsBefore(encoded, end + 1) = next[end + 1]
        BY <1>5, <1>6, TheSolution
  <1>8. Solvable(encoded, end + 1)
        BY <1>3, <1>5, <1>6 DEF Solvable
  <1> QED BY <1>2, <1>3, <1>7, <1>8 DEF digits

(***************************************************************************)
(* Octets                                                                  *)
(***************************************************************************)
\* The octet k of a row of digits, as Octets has it.
Digit(digits, i) == IF i = 0 THEN 0 ELSE digits[i]

Cut(bits, shift) == (bits \div 2^shift) % 256

OctetAt(digits, k) ==
  LET bit == 6 + 8 * (k - 1) - 2
  IN  Cut(Digit(digits, bit \div 6) * 64 + Digit(digits, bit \div 6 + 1), 4 - (bit % 6))

LEMMA OctetsAre ==
  ASSUME NEW digits
  PROVE  Octets(digits, 2) =
           [k \in 1..((6 * Len(digits) + 2) \div 8) |-> OctetAt(digits, k)]
  BY DEF Octets, OctetAt, Cut, Digit

LEMMA DigitIs ==
  ASSUME NEW digits \in Seq(Digits), NEW i \in 0..Len(digits)
  PROVE  Digit(digits, i) \in Digits
  <1>1. i = 0 \/ digits[i] \in Digits
        OBVIOUS
  <1>. QED BY <1>1 DEF Digit, Digits

\* The last twelve bits of v are y.
Shows(v, y) == \E a \in Nat : v = 4096 * a + y

LEMMA ShowsRemainder ==
  ASSUME NEW v \in Nat
  PROVE  Shows(v, Low(v))
  <1>1. v \div 4096 \in Nat /\ v = 4096 * (v \div 4096) + (v % 4096)
        BY Z3
  <1>. QED BY <1>1 DEF Shows, Low

\* Eight of the twelve bits of the last two digits are eight bits of val.
LEMMA TwoDigits ==
  ASSUME NEW y \in Nat, NEW v \in Nat, Shows(v, y)
  PROVE  Cut(y, 0) = Cut(v, 0) /\ Cut(y, 2) = Cut(v, 2) /\ Cut(y, 4) = Cut(v, 4)
  <1> PICK a \in Nat : v = 4096 * a + y
      BY DEF Shows
  <1>1. Cut(y, 0) = Cut(v, 0)
    <2>1. y \div 1 = y /\ v \div 1 = v
          OBVIOUS
    <2>2. y % 256 = v % 256
          OBVIOUS
    <2>. QED BY <2>1, <2>2, Powers DEF Cut
  <1>2. Cut(y, 2) = Cut(v, 2)
    <2>1. v \div 4 = 1024 * a + y \div 4 /\ y \div 4 \in Nat
          OBVIOUS
    <2>2. (y \div 4) % 256 = (v \div 4) % 256
          BY <2>1
    <2>. QED BY <2>2, Powers DEF Cut
  <1>3. Cut(y, 4) = Cut(v, 4)
    <2>1. v \div 16 = 256 * a + y \div 16 /\ y \div 16 \in Nat
          OBVIOUS
    <2>2. (y \div 16) % 256 = (v \div 16) % 256
          BY <2>1
    <2>. QED BY <2>2, Powers DEF Cut
  <1>. QED BY <1>1, <1>2, <1>3

LEMMA ByteCut ==
  ASSUME NEW v \in Nat
  PROVE  Cut(v, 0) \in Bytes /\ Cut(v, 2) \in Bytes /\ Cut(v, 4) \in Bytes
  <1>1. v \div 1 \in Nat /\ v \div 4 \in Nat /\ v \div 16 \in Nat
        OBVIOUS
  <1>2. \A x \in Nat : x % 256 \in Bytes
        BY DEF Bytes
  <1>. QED BY <1>1, <1>2, Powers DEF Cut

\* An octet that was whole before a digit stays as it is.
LEMMA OctetStays ==
  ASSUME NEW digits \in Seq(Digits), NEW s \in Digits,
         NEW k \in 1..((6 * Len(digits) + 2) \div 8)
  PROVE  OctetAt(Append(digits, s), k) = OctetAt(digits, k)
  <1> DEFINE n   == Len(digits)
             bit == 6 + 8 * (k - 1) - 2
             q   == bit \div 6
  <1>1. n \in Nat /\ k \in Int /\ k >= 1
        OBVIOUS
  <1>2. 8 * k <= 6 * n + 2
        BY <1>1
  <1>3. q \in 0..(n - 1)
        BY <1>1, <1>2
  <1> HIDE DEF q
  <1>4. \A i \in 0..n : Digit(Append(digits, s), i) = Digit(digits, i)
        BY DEF Digit
  <1>5. /\ Digit(Append(digits, s), q) = Digit(digits, q)
        /\ Digit(Append(digits, s), q + 1) = Digit(digits, q + 1)
    <2>1. q \in 0..n /\ q + 1 \in 0..n
          BY <1>1, <1>3
    <2>. QED BY <1>4, <2>1
  <1> QED BY <1>5 DEF OctetAt, q

\* The bits that are over after n digits, the two leading ones included.
Left(n) == (6 * n + 2) % 8

LEMMA Counting ==
  ASSUME NEW n \in Nat
  PROVE  LET c == Left(n)
             k == (6 * n + 8) \div 8
             bit == 6 + 8 * (k - 1) - 2
         IN  /\ c \in {0, 2, 4, 6}
             /\ (6 * n + 2) \div 8 \in Nat
             /\ c = 0 => k = (6 * n + 2) \div 8 /\ Left(n + 1) = 6
             /\ c # 0 => /\ k = (6 * n + 2) \div 8 + 1
                         /\ bit \div 6 = n /\ bit % 6 = 6 - c
                         /\ Left(n + 1) = c - 2
  BY DEF Left

\* The octet that a digit completes, and where its bits are in val.
LEMMA OctetCompleted ==
  ASSUME NEW digits \in Seq(Digits), NEW s \in Digits, NEW v \in Nat,
         Shows(v, 64 * Digit(digits, Len(digits)) + s), Left(Len(digits)) # 0
  PROVE  OctetAt(Append(digits, s), (6 * Len(digits) + 8) \div 8) =
           Cut(v, Left(Len(digits)) - 2)
  <1> DEFINE n == Len(digits)
             c == Left(n)
             k == (6 * n + 8) \div 8
             bit == 6 + 8 * (k - 1) - 2
             d == Digit(digits, n)
  <1>1. n \in Nat /\ d \in Digits
        BY DigitIs
  <1>2. c \in {2, 4, 6} /\ bit \div 6 = n /\ bit % 6 = 6 - c
        BY <1>1, Counting
  <1>3. Digit(Append(digits, s), n) = d /\ Digit(Append(digits, s), n + 1) = s
        BY DEF Digit
  <1> HIDE DEF n, c, d, k
  <1>4. d * 64 + s \in Nat /\ d * 64 + s = 64 * d + s
        BY <1>1 DEF Digits
  <1>5. OctetAt(Append(digits, s), k) = Cut(d * 64 + s, 4 - (6 - c))
        BY <1>2, <1>3 DEF OctetAt
  <1>6. Shows(v, d * 64 + s)
        BY <1>4 DEF d, n
  <1> DEFINE y == d * 64 + s
  <1>7. y \in Nat /\ Shows(v, y) /\ c \in {2, 4, 6}
        BY <1>2, <1>4, <1>6
  <1> HIDE DEF y
  <1>8. Cut(y, 0) = Cut(v, 0) /\ Cut(y, 2) = Cut(v, 2) /\ Cut(y, 4) = Cut(v, 4)
        BY <1>7, TwoDigits
  <1>9. 4 - (6 - c) = c - 2 /\ c - 2 \in {0, 2, 4}
        BY <1>7
  <1>. QED BY <1>5, <1>8, <1>9 DEF c, k, n, y

\* One digit more gives one octet more, but where it only fills the bits left over.
LEMMA OctetsAtNext ==
  ASSUME NEW digits \in Seq(Digits), NEW s \in Digits, NEW v \in Nat,
         Shows(v, 64 * Digit(digits, Len(digits)) + s)
  PROVE  Octets(Append(digits, s), 2) =
           IF Left(Len(digits)) = 0 THEN Octets(digits, 2)
           ELSE Append(Octets(digits, 2), Cut(v, Left(Len(digits)) - 2))
  <1> DEFINE n == Len(digits)
             m == (6 * n + 2) \div 8
             longer == Append(digits, s)
             new == Cut(v, Left(n) - 2)
  <1>1. n \in Nat /\ Len(longer) = n + 1 /\ 6 * (n + 1) + 2 = 6 * n + 8
        OBVIOUS
  <1>2. m \in Nat /\ Octets(digits, 2) = [k \in 1..m |-> OctetAt(digits, k)]
        BY <1>1, Counting, OctetsAre
  <1>3. Octets(longer, 2) = [k \in 1..((6 * n + 8) \div 8) |-> OctetAt(longer, k)]
        BY <1>1, OctetsAre
  <1>4. \A k \in 1..m : OctetAt(longer, k) = OctetAt(digits, k)
        BY OctetStays
  <1>5. CASE Left(n) = 0
    <2>1. (6 * n + 8) \div 8 = m
          BY <1>1, <1>5, Counting
    <2> HIDE DEF m, longer
    <2>. QED BY <1>2, <1>3, <1>4, <1>5, <2>1 DEF n, longer
  <1>6. CASE Left(n) # 0
    <2>1. (6 * n + 8) \div 8 = m + 1
          BY <1>1, <1>6, Counting
    <2>2. OctetAt(longer, m + 1) = new
          BY <1>6, <2>1, OctetCompleted
    <2> HIDE DEF m, longer, new
    <2>3. Append([k \in 1..m |-> OctetAt(digits, k)], new) =
            [k \in 1..(m + 1) |-> OctetAt(longer, k)]
          BY <1>2, <1>4, <2>2
    <2>. QED BY <1>2, <1>3, <1>6, <2>1, <2>3 DEF n, longer, new
  <1>. QED BY <1>5, <1>6

(***************************************************************************)
(* The loop                                                                *)
(***************************************************************************)
\* The last two digits: what val holds of the bits that are not given out yet, and
\* more.
LastTwo(digits) ==
  LET n == Len(digits)
  IN  IF n = 0 THEN 0 ELSE 64 * Digit(digits, n - 1) + Digit(digits, n)

DecoderInv ==
  /\ DecoderTypeOK
  /\ Solvable(text, at)
  /\ LET digits == DigitsBefore(text, at)
     IN  /\ decoded = Octets(digits, 2)
         /\ valb = Left(Len(digits)) - 8
         /\ Low(val) = LastTwo(digits)

LEMMA Shifted ==
  ASSUME NEW v \in Nat, NEW p \in Nat, NEW q \in Digits, NEW s \in Digits,
         Shows(v, 64 * p + q)
  PROVE  Low(v * 64 + s) = 64 * q + s
  <1>1. PICK a \in Nat : v = 4096 * a + (64 * p + q)
        BY DEF Shows
  <1> DEFINE b == 64 * a + p
             y == 64 * q + s
  <1>2. b \in Nat /\ y \in 0..4095 /\ v * 64 + s = 4096 * b + y
        BY <1>1 DEF Digits
  <1> HIDE DEF b, y
  <1>3. (4096 * b + y) % 4096 = y
        BY <1>2
  <1>. QED BY <1>2, <1>3 DEF y, Low

\* A digit shifted into val.
LEMMA DigitShifted ==
  ASSUME NEW digits \in Seq(Digits), NEW s \in Digits, NEW v \in Nat,
         Low(v) = LastTwo(digits)
  PROVE  LET next == Wrapped(v * 64 + s)
         IN  /\ next \in 0..(Word - 1) /\ next \in Nat
             /\ Low(next) = 64 * Digit(digits, Len(digits)) + s
             /\ Low(next) = LastTwo(Append(digits, s))
  <1> DEFINE n == Len(digits)
             q == Digit(digits, n)
             p == IF n = 0 THEN 0 ELSE Digit(digits, n - 1)
             w == v * 64 + s
  <1>1. n \in Nat /\ q \in Digits
        BY DigitIs
  <1>2. p \in Digits
    <2>1. CASE n = 0
          BY <2>1 DEF Digits
    <2>2. CASE n # 0
      <3>1. n - 1 \in 0..Len(digits)
            BY <2>2
      <3>. QED BY <2>2, <3>1, DigitIs
    <2>. QED BY <2>1, <2>2
  <1>3. LastTwo(digits) = 64 * p + q
    <2>1. n = 0 => q = 0 /\ 64 * p + q = 0
          BY DEF Digit
    <2>. QED BY <1>1, <1>2, <2>1 DEF LastTwo
  <1>4. Shows(v, 64 * p + q)
        BY <1>3, ShowsRemainder
  <1> HIDE DEF q, p
  <1>5. Low(w) = 64 * q + s
    <2>1. p \in Nat
          BY <1>2 DEF Digits
    <2>. QED BY <1>1, <1>4, <2>1, Shifted
  <1>6. w \in Nat
        BY DEF Digits
  <1> HIDE DEF w
  <1>7. Wrapped(w) \in 0..(Word - 1) /\ Wrapped(w) \in Nat /\ Low(Wrapped(w)) = Low(w)
        BY <1>6, WordKeeps
  <1>8. LastTwo(Append(digits, s)) = 64 * q + s
    <2>1. /\ Len(Append(digits, s)) = n + 1 /\ n + 1 # 0 /\ (n + 1) - 1 = n
          /\ Digit(Append(digits, s), n) = q /\ Digit(Append(digits, s), n + 1) = s
          BY <1>1 DEF Digit, q
    <2>. QED BY <2>1 DEF LastTwo
  <1>. QED BY <1>5, <1>7, <1>8 DEF w, q

LEMMA NoDigitYet == Octets(<<>>, 2) = <<>> /\ Left(Len(<<>>)) = 2 /\ LastTwo(<<>>) = 0
  <1>1. Len(<<>>) = 0 /\ (6 * 0 + 2) \div 8 = 0 /\ (6 * 0 + 2) % 8 = 2
        OBVIOUS
  <1>. QED BY <1>1, OctetsAre DEF Left, LastTwo

LEMMA DecoderInitial == DecoderInit => DecoderInv
  <1> SUFFICES ASSUME DecoderInit PROVE DecoderInv
      OBVIOUS
  <1>1. Solvable(text, at) /\ DigitsBefore(text, at) = <<>>
        BY SolvableAtFirst DEF DecoderInit
  <1>2. DecoderTypeOK
        BY WordAssumption DEF DecoderInit, DecoderTypeOK
  <1>3. decoded = Octets(<<>>, 2) /\ valb = Left(Len(<<>>)) - 8 /\ Low(val) = LastTwo(<<>>)
        BY NoDigitYet DEF DecoderInit, Low
  <1>. QED BY <1>1, <1>2, <1>3 DEF DecoderInv

LEMMA DecoderStarts ==
  ASSUME NEW encoded \in Seq(Symbols), StartDecoding(encoded)
  PROVE  DecoderInv'
  <1>1. (Solvable(text, at) /\ DigitsBefore(text, at) = <<>>)'
        BY SolvableAtFirst DEF StartDecoding
  <1>2. DecoderTypeOK'
        BY WordAssumption DEF StartDecoding, DecoderTypeOK
  <1>3. /\ decoded' = Octets(<<>>, 2) /\ valb' = Left(Len(<<>>)) - 8
        /\ Low(val') = LastTwo(<<>>)
        BY NoDigitYet DEF StartDecoding, Low
  <1>. QED BY <1>1, <1>2, <1>3 DEF DecoderInv

LEMMA DecoderRests ==
  ASSUME DecoderInv, UNCHANGED decoder
  PROVE  DecoderInv'
  BY DEF DecoderInv, decoder, DecoderTypeOK

LEMMA DecoderSteps ==
  ASSUME DecoderInv, DecodeSymbol
  PROVE  DecoderInv'
  <1> DEFINE digits == DigitsBefore(text, at)
             s == text[at]
             n == Len(digits)
  <1>1. /\ text \in Seq(Symbols) /\ at \in Nat \ {0} /\ at \in 1..Len(text)
        /\ s \in Symbols /\ s # Pad
        /\ val \in Nat /\ valb \in {-8, -6, -4, -2} /\ decoded \in Seq(Bytes)
        BY WordAssumption DEF DecoderInv, DecoderTypeOK, DecodeSymbol, DecodingEnds
  <1>2. at' = at + 1 /\ text' = text /\ at + 1 \in 1..(Len(text) + 1)
        BY <1>1 DEF DecodeSymbol
  <1>3. /\ Solvable(text, at + 1) /\ digits \in Seq(Digits)
        /\ DigitsBefore(text, at + 1) = IF s \in Digits THEN Append(digits, s) ELSE digits
        BY <1>1, SolvableAtNext DEF DecoderInv
  <1>4. /\ decoded = Octets(digits, 2) /\ valb = Left(n) - 8
        /\ Low(val) = LastTwo(digits)
        BY DEF DecoderInv
  <1> HIDE DEF digits, s, n
  <1>5. CASE s = Foreign
    <2>1. s \notin Digits
          BY <1>5 DEF Foreign, Digits
    <2>2. UNCHANGED <<val, valb, decoded>>
          BY <1>5 DEF DecodeSymbol, s
    <2>3. DecoderTypeOK'
          BY <1>1, <1>2, <2>2 DEF DecoderTypeOK, DecoderInv
    <2>4. DigitsBefore(text', at') = digits /\ Solvable(text', at')
          BY <1>2, <1>3, <2>1
    <2>. QED BY <1>4, <2>2, <2>3, <2>4 DEF DecoderInv, n
  <1>6. CASE s # Foreign
    <2>1. s \in Digits
          BY <1>1, <1>6 DEF Symbols, Pad, Foreign, Digits
    <2> DEFINE more == Append(digits, s)
    <2>2. val' = Wrapped(val * 64 + s)
          BY <1>6 DEF DecodeSymbol, s, Wrapped
    <2>3. /\ val' \in 0..(Word - 1) /\ val' \in Nat
          /\ Low(val') = 64 * Digit(digits, n) + s
          /\ Low(val') = LastTwo(more)
          BY <1>1, <1>3, <1>4, <2>1, <2>2, DigitShifted DEF n
    <2>4. val' \in Nat
          BY <2>3
    <2>5. Shows(val', 64 * Digit(digits, n) + s)
          BY <2>3, <2>4, ShowsRemainder
    <2>6. Octets(more, 2) = IF Left(n) = 0 THEN Octets(digits, 2)
                            ELSE Append(Octets(digits, 2), Cut(val', Left(n) - 2))
          BY <1>3, <2>1, <2>4, <2>5, OctetsAtNext DEF n
    <2>7. n \in Nat /\ Len(more) = n + 1
          BY <1>3 DEF n
    <2>8. /\ Left(n) \in {0, 2, 4, 6}
          /\ Left(n + 1) = IF Left(n) = 0 THEN 6 ELSE Left(n) - 2
          BY <2>7, Counting
    <2>9. DigitsBefore(text', at') = more /\ Solvable(text', at')
          BY <1>2, <1>3, <2>1
    <2> HIDE DEF more
    <2>10. CASE Left(n) = 0
      <3>1. valb + 6 = -2 /\ valb' = valb + 6 /\ decoded' = decoded
            BY <1>4, <1>6, <2>10 DEF DecodeSymbol, s
      <3>2. valb' = Left(n + 1) - 8 /\ valb' \in {-8, -6, -4, -2}
            BY <2>8, <2>10, <3>1
      <3>3. DecoderTypeOK'
            BY <1>1, <1>2, <2>3, <3>1, <3>2 DEF DecoderTypeOK
      <3>4. /\ decoded' = Octets(more, 2) /\ valb' = Left(Len(more)) - 8
            /\ Low(val') = LastTwo(more)
            BY <1>4, <2>3, <2>6, <2>7, <2>10, <3>1, <3>2
      <3>. QED BY <2>9, <3>3, <3>4 DEF DecoderInv
    <2>11. CASE Left(n) # 0
      <3>1. valb + 6 = Left(n) - 2 /\ valb + 6 \in {0, 2, 4}
            BY <1>4, <2>8, <2>11
      <3>2. valb' = valb + 6 - 8 /\ decoded' = Append(decoded, Cut(val', Left(n) - 2))
            BY <1>6, <3>1 DEF DecodeSymbol, s, Cut
      <3>3. valb' = Left(n + 1) - 8 /\ valb' \in {-8, -6, -4, -2}
        <4>1. Left(n + 1) = valb + 6 /\ valb' = valb + 6 - 8
              BY <2>8, <2>11, <3>1, <3>2
        <4>2. valb \in Int
              BY <1>1
        <4>. QED BY <3>1, <4>1, <4>2
      <3>4. Cut(val', Left(n) - 2) \in Bytes
        <4>1. Cut(val', 0) \in Bytes /\ Cut(val', 2) \in Bytes /\ Cut(val', 4) \in Bytes
              BY <2>4, ByteCut
        <4>. QED BY <3>1, <4>1
      <3>5. DecoderTypeOK'
            BY <1>1, <1>2, <2>3, <3>2, <3>3, <3>4 DEF DecoderTypeOK
      <3>6. /\ decoded' = Octets(more, 2) /\ valb' = Left(Len(more)) - 8
            /\ Low(val') = LastTwo(more)
            BY <1>4, <2>3, <2>6, <2>7, <2>11, <3>2, <3>3
      <3>. QED BY <2>9, <3>5, <3>6 DEF DecoderInv
    <2>. QED BY <2>10, <2>11
  <1>. QED BY <1>5, <1>6
================================================================================
