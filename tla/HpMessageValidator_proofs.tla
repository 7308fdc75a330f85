--------------------- MODULE HpMessageValidator_proofs ---------------------
(***************************************************************************)
(* The checksum, its text and the division into lines, for telegrams and   *)
(* disturbances of every length.  A word is a set of its bits and a        *)
(* polynomial a set of places, so that the CRC loop is a division in which *)
(* the subtraction is the symmetric difference: CrcInv keeps the quotient  *)
(* that has been subtracted, and the meter's division has one of its own,  *)
(* MeterInv.  A burst shorter than the generator is never one of its       *)
(* multiples, TimesSpan, so that it leaves a remainder.                    *)
(***************************************************************************)
EXTENDS HpMessageValidator, TLAPS, WellFoundedInduction, SequenceTheorems

\* What is in a sum.
LEMMA SymDiffIn ==
  \A A, B, x : x \in SymDiff(A, B) <=> ~(x \in A <=> x \in B)
BY Zenon DEF SymDiff

\* What is in a moved polynomial.
LEMMA MovedIn ==
  ASSUME NEW q \in SUBSET Int, NEW n \in Int, NEW x \in Int
  PROVE  x \in Moved(q, n) <=> x - n \in q
BY SMT DEF Moved

\* A moved polynomial is one.
LEMMA MovedType ==
  ASSUME NEW q \in SUBSET Int, NEW n \in Int
  PROVE  Moved(q, n) \in SUBSET Int
BY SMT DEF Moved

\* So is a product with the generator.
LEMMA TimesType ==
  ASSUME NEW q \in SUBSET Int
  PROVE  Times(q) \in SUBSET Int
<1>1. \A n \in Int : Moved(q, n) \in SUBSET Int
  BY MovedType
<1>2. \A A, B \in SUBSET Int : SymDiff(A, B) \in SUBSET Int
  BY Zenon DEF SymDiff
<1> QED
  BY <1>1, <1>2 DEF Times

\* The four exponents of the generator.
LEMMA TimesIn ==
  ASSUME NEW q \in SUBSET Int, NEW x \in Int
  PROVE  x \in Times(q) <=>
           ~((x \in q <=> ~(x - 1 \in q)) <=> (x - 14 \in q <=> ~(x - 16 \in q)))
<1>1. \A n \in Int : x \in Moved(q, n) <=> x - n \in q
  BY MovedIn
<1>2. x \in Moved(q, 1) <=> x - 1 \in q
  BY <1>1
<1>3. x \in Moved(q, 14) <=> x - 14 \in q
  BY <1>1
<1>4. x \in Moved(q, 16) <=> x - 16 \in q
  BY <1>1
<1> QED
  BY <1>2, <1>3, <1>4, SymDiffIn DEF Times

\* A product's sum.
LEMMA TimesSum ==
  ASSUME NEW p \in SUBSET Int, NEW q \in SUBSET Int
  PROVE  Times(SymDiff(p, q)) = SymDiff(Times(p), Times(q))
<1> DEFINE s == SymDiff(p, q)
<1>1. s \in SUBSET Int
  BY DEF SymDiff
<1>2. Times(s) \in SUBSET Int /\ Times(p) \in SUBSET Int /\ Times(q) \in SUBSET Int
  BY <1>1, TimesType
<1>3. ASSUME NEW x \in Int
      PROVE  x \in Times(s) <=> x \in SymDiff(Times(p), Times(q))
  <2>1. \A y : y \in s <=> ~(y \in p <=> y \in q)
    BY SymDiffIn
  <2> HIDE DEF s
  <2>2. x \in Times(s) <=>
           ~((x \in s <=> ~(x - 1 \in s)) <=> (x - 14 \in s <=> ~(x - 16 \in s)))
    BY <1>1, TimesIn
  <2>3. x \in Times(p) <=>
           ~((x \in p <=> ~(x - 1 \in p)) <=> (x - 14 \in p <=> ~(x - 16 \in p)))
    BY TimesIn
  <2>4. x \in Times(q) <=>
           ~((x \in q <=> ~(x - 1 \in q)) <=> (x - 14 \in q <=> ~(x - 16 \in q)))
    BY TimesIn
  <2>5. x \in SymDiff(Times(p), Times(q)) <=> ~(x \in Times(p) <=> x \in Times(q))
    BY SymDiffIn
  <2> QED
    BY <2>1, <2>2, <2>3, <2>4, <2>5, SMT
<1>4. SymDiff(Times(p), Times(q)) \subseteq Int
  BY <1>2, Zenon DEF SymDiff
<1> HIDE DEF s
<1>5. Times(s) = SymDiff(Times(p), Times(q))
  BY <1>2, <1>3, <1>4, Zenon
<1> QED
  BY <1>5 DEF s

\* One times the generator.
LEMMA TimesGenerator ==
  ASSUME NEW t \in Int PROVE Times({t}) = Generator(t)
<1>1. Times({t}) \in SUBSET Int /\ Generator(t) \subseteq Int
  BY TimesType DEF Generator
<1>2. ASSUME NEW x \in Int PROVE x \in Times({t}) <=> x \in Generator(t)
  <2>1. x \in Times({t}) <=>
          ~((x = t <=> ~(x - 1 = t)) <=> (x - 14 = t <=> ~(x - 16 = t)))
    BY TimesIn
  <2> QED
    BY <2>1, SMT DEF Generator
<1> QED
  BY <1>1, <1>2, Zenon

\* One more place of the quotient.
LEMMA TimesStep ==
  ASSUME NEW q \in SUBSET Int, NEW t \in Int, t \notin q
  PROVE  Times(q \cup {t}) = SymDiff(Times(q), Generator(t))
<1>1. q \cup {t} = SymDiff(q, {t})
  BY Zenon DEF SymDiff
<1>2. {t} \in SUBSET Int
  OBVIOUS
<1> QED
  BY <1>1, <1>2, TimesSum, TimesGenerator

\* The lowest and the highest place of a product are 16 apart.
LEMMA Least ==
  ASSUME NEW q \in SUBSET Nat, q # {}
  PROVE  \E m \in q : \A k \in q : m <= k
<1> DEFINE R == OpToRel(<, Nat)
<1>1. \A x, y \in Nat : <<x, y>> \in R <=> x < y
  BY DEF OpToRel
<1>2. IsWellFoundedOn(R, Nat)
  BY NatLessThanWellFounded
<1> HIDE DEF R
<1>3. PICK m \in q : \A k \in q : ~(<<k, m>> \in R)
  BY <1>2, WFMin, Zenon
<1>4. ASSUME NEW k \in q PROVE m <= k
  <2>1. ~(k < m)
    BY <1>1, <1>3, Zenon
  <2> QED
    BY <2>1, SMT
<1> QED
  BY <1>4

\* A bounded set has a greatest number.
LEMMA Greatest ==
  ASSUME NEW n \in Nat, NEW q \in SUBSET (0..n-1), q # {}
  PROVE  \E m \in q : \A k \in q : k <= m
<1> DEFINE r == {n - k : k \in q}
<1>1. r \in SUBSET Nat /\ r # {}
  <2>1. \A k \in q : n - k \in Nat
    BY SMT
  <2> QED
    BY <2>1, Zenon
<1>2. PICK m \in r : \A k \in r : m <= k
  <2> HIDE DEF r
  <2> QED BY <1>1, Least
<1>3. PICK a \in q : m = n - a
  BY <1>2
<1>4. \A k \in q : n - k \in r
  OBVIOUS
<1> HIDE DEF r
<1>5. ASSUME NEW k \in q PROVE k <= a
  <2>1. n - a <= n - k
    BY <1>2, <1>3, <1>4, Zenon
  <2> QED
    BY <2>1, SMT
<1> QED
  BY <1>5

LEMMA TimesSpan ==
  ASSUME NEW n \in Nat, NEW q \in SUBSET (0..n-1), q # {}
  PROVE  \E a, b \in Times(q) : a \in q /\ b - a >= 16
<1>1. q \in SUBSET Nat /\ q \in SUBSET Int
  OBVIOUS
<1>2. PICK a \in q : \A k \in q : a <= k
  BY <1>1, Least
<1>3. PICK b \in q : \A k \in q : k <= b
  BY Greatest
<1>4. a \in Times(q)
  <2>1. a \in Int /\ a - 1 \notin q /\ a - 14 \notin q /\ a - 16 \notin q
    BY <1>1, <1>2, SMT
  <2> QED
    BY <1>1, <1>2, <2>1, TimesIn
<1>5. b + 16 \in Times(q)
  <2>1. b \in Int /\ b + 16 \in Int /\ b + 16 \notin q /\ b + 15 \notin q /\ b + 2 \notin q
    BY <1>1, <1>3, SMT
  <2>2. (b + 16) - 1 = b + 15 /\ (b + 16) - 14 = b + 2 /\ (b + 16) - 16 = b
    BY <2>1, SMT
  <2> QED
    BY <1>1, <1>3, <2>1, <2>2, TimesIn
<1>6. (b + 16) - a >= 16
  BY <1>1, <1>2, <1>3, SMT
<1> QED
  BY <1>2, <1>4, <1>5, <1>6

\* The weights of a byte.
LEMMA PowersOfTwo ==
  /\ 2^0 = 1 /\ 2^1 = 2 /\ 2^2 = 4 /\ 2^3 = 8 /\ 2^4 = 16 /\ 2^5 = 32
  /\ 2^6 = 64 /\ 2^7 = 128
BY SMT

\* A bit.
LEMMA HasType ==
  ASSUME NEW w, NEW k
  PROVE  Has(w, k) \in {0, 1} /\ (Has(w, k) = 1 <=> k \in w)
BY SMT DEF Has

\* Four bits.
LEMMA NibbleType ==
  ASSUME NEW w, NEW k
  PROVE  Nibble(w, k) \in Int /\ 0 <= Nibble(w, k) /\ Nibble(w, k) <= 15
BY HasType, SMT DEF Nibble

\* A byte has the bits it was made of.
LEMMA BitsOfNumber ==
  ASSUME NEW w \in SUBSET (0..7)
  PROVE  Number(w) \in Byte /\ Bits(Number(w)) = w
<1>1. Nibble(w, 8) = 0 /\ Nibble(w, 12) = 0
  <2>1. \A k \in 8..15 : Has(w, k) = 0
    BY SMT DEF Has
  <2> QED
    BY <2>1, SMT DEF Nibble
<1>2. Number(w) = (Has(w, 0) + 2 * Has(w, 1) + 4 * Has(w, 2) + 8 * Has(w, 3))
               + 16 * (Has(w, 4) + 2 * Has(w, 5) + 4 * Has(w, 6) + 8 * Has(w, 7))
  BY <1>1, HasType, SMT DEF Number, Nibble
<1>3. Number(w) \in Byte
  BY <1>2, HasType, SMT DEF Byte
<1>4. \A k \in 0..7 : (Number(w) \div 2^k) % 2 = Has(w, k)
  <2>1. \A k : Has(w, k) \in {0, 1}
    BY HasType
  <2>2. Number(w) \in Int
    BY <1>3, SMT DEF Byte
  <2> SUFFICES ASSUME NEW n \in Int, n = Number(w)
               PROVE  \A k \in 0..7 : (n \div 2^k) % 2 = Has(w, k)
    BY <2>2
  <2>3.  /\ (n \div 1) % 2 = Has(w, 0) /\ (n \div 2) % 2 = Has(w, 1)
         /\ (n \div 4) % 2 = Has(w, 2) /\ (n \div 8) % 2 = Has(w, 3)
         /\ (n \div 16) % 2 = Has(w, 4) /\ (n \div 32) % 2 = Has(w, 5)
         /\ (n \div 64) % 2 = Has(w, 6) /\ (n \div 128) % 2 = Has(w, 7)
    <3>1. PICK b0, b1, b2, b3, b4, b5, b6, b7 \in {0, 1} :
            /\ b0 = Has(w, 0) /\ b1 = Has(w, 1) /\ b2 = Has(w, 2)
            /\ b3 = Has(w, 3) /\ b4 = Has(w, 4) /\ b5 = Has(w, 5)
            /\ b6 = Has(w, 6) /\ b7 = Has(w, 7)
      BY <2>1
    <3>2. n = (b0 + 2 * b1 + 4 * b2 + 8 * b3)
                + 16 * (b4 + 2 * b5 + 4 * b6 + 8 * b7)
      BY <1>2, <3>1
    <3>3. /\ (n \div 1) % 2 = b0 /\ (n \div 2) % 2 = b1
          /\ (n \div 4) % 2 = b2 /\ (n \div 8) % 2 = b3
          /\ (n \div 16) % 2 = b4 /\ (n \div 32) % 2 = b5
          /\ (n \div 64) % 2 = b6 /\ (n \div 128) % 2 = b7
      BY <3>2, SMT
    <3> QED
      BY <3>1, <3>3
  <2>4. ASSUME NEW k \in 0..7 PROVE (n \div 2^k) % 2 = Has(w, k)
    <3> DEFINE Read(m) == (n \div 2^m) % 2 = Has(w, m)
    <3>1. Read(0) /\ Read(1) /\ Read(2) /\ Read(3)
      BY <2>3, PowersOfTwo, ZenonT(30)
    <3>2. Read(4) /\ Read(5) /\ Read(6) /\ Read(7)
      BY <2>3, PowersOfTwo, ZenonT(30)
    <3> HIDE DEF Read
    <3>3. k = 0 \/ k = 1 \/ k = 2 \/ k = 3 \/ k = 4 \/ k = 5 \/ k = 6 \/ k = 7
      BY SMT
    <3>4. Read(k)
      BY <3>1, <3>2, <3>3
    <3> QED
      BY <3>4 DEF Read
  <2> QED
    BY <2>4
<1>5. ASSUME NEW k \in 0..7
      PROVE  (Number(w) \div 2^k) % 2 = 1 <=> k \in w
  BY <1>4, HasType
<1> QED
  BY <1>3, <1>5, Zenon DEF Bits

\* Four bits are told by their number.
LEMMA NibbleInjective ==
  ASSUME NEW v, NEW w, NEW k \in Int, Nibble(v, k) = Nibble(w, k)
  PROVE  /\ k \in v <=> k \in w
         /\ k + 1 \in v <=> k + 1 \in w
         /\ k + 2 \in v <=> k + 2 \in w
         /\ k + 3 \in v <=> k + 3 \in w
<1>1. \A l \in Int : \A u \in {v, w} :
        Has(u, l) \in {0, 1} /\ (Has(u, l) = 1 <=> l \in u)
  BY HasType
<1> QED
  BY <1>1, SMT DEF Nibble

\* A 16-bit number has one word, and the other way round.
LEMMA NumberInjective ==
  ASSUME NEW v \in SUBSET (0..15), NEW w \in SUBSET (0..15),
         Number(v) = Number(w)
  PROVE  v = w
<1>1. /\ Nibble(v, 0) = Nibble(w, 0) /\ Nibble(v, 4) = Nibble(w, 4)
      /\ Nibble(v, 8) = Nibble(w, 8) /\ Nibble(v, 12) = Nibble(w, 12)
  BY NibbleType, SMT DEF Number
<1>2. \A k \in {0, 4, 8, 12} :
         /\ k \in v <=> k \in w
         /\ k + 1 \in v <=> k + 1 \in w
         /\ k + 2 \in v <=> k + 2 \in w
         /\ k + 3 \in v <=> k + 3 \in w
  BY <1>1, NibbleInjective
<1>3. ASSUME NEW k \in 0..15
      PROVE  k \in v <=> k \in w
  <2>1. \E m \in {0, 4, 8, 12} : k = m \/ k = m + 1 \/ k = m + 2 \/ k = m + 3
    BY SMT
  <2> QED
    BY <1>2, <2>1
<1> QED
  BY <1>3, Zenon

\* A word.
LEMMA NumberType ==
  ASSUME NEW w
  PROVE  Number(w) \in Int /\ 0 <= Number(w) /\ Number(w) <= 65535
BY NibbleType, SMT DEF Number

\* A place is a byte and a bit of it.
LEMMA DivModEight ==
  ASSUME NEW t \in Nat
  PROVE  t \div 8 \in Nat /\ t % 8 \in 0..7 /\ t = 8 * (t \div 8) + (t % 8)
BY SMT

\* Where the ones of a telegram are.
LEMMA OnesType ==
  ASSUME NEW data, NEW n \in Nat
  PROVE  Ones(data, n) \subseteq 0..8 * n - 1
BY DEF Ones

\* One more byte.
LEMMA OnesStep ==
  ASSUME NEW data, NEW n \in Nat
  PROVE  Ones(data, n + 1)
           = SymDiff(Ones(data, n), Moved(Bits(data[n + 1]), 8 * n))
<1>1. ASSUME NEW t \in Int
      PROVE  t \in Ones(data, n + 1) <=>
               t \in Ones(data, n) \/ t \in Moved(Bits(data[n + 1]), 8 * n)
  <2>1. t \in Moved(Bits(data[n + 1]), 8 * n) <=>
          t - 8 * n \in Bits(data[n + 1])
    BY SMT DEF Moved, Bits
  <2>2. CASE t < 8 * n
    BY <2>1, <2>2, SMT DEF Ones, Bits
  <2>3. CASE t >= 8 * n /\ t < 8 * n + 8
    <3>1. t \div 8 = n /\ t % 8 = t - 8 * n
      BY <2>3, SMT
    <3> QED
      BY <2>1, <2>3, <3>1, SMT DEF Ones
  <2>4. CASE t >= 8 * n + 8
    BY <2>1, <2>4, SMT DEF Ones, Bits
  <2> QED
    BY <2>2, <2>3, <2>4, SMT
<1>2. Ones(data, n) \cap Moved(Bits(data[n + 1]), 8 * n) = {}
  BY SMT DEF Ones, Moved, Bits
<1>3. Ones(data, n + 1) \subseteq Int /\ Ones(data, n) \subseteq Int
  BY OnesType, SMT
<1>4. Moved(Bits(data[n + 1]), 8 * n) \subseteq Int
  BY SMT DEF Moved, Bits
<1> QED
  BY <1>1, <1>2, <1>3, <1>4, Zenon DEF SymDiff

\* What the line disturbed is the difference of the two.
LEMMA OnesFlipped ==
  ASSUME NEW data, DOMAIN data = 1..Len(data), Len(data) \in Nat,
         NEW places \in SUBSET (0..8 * Len(data) - 1)
  PROVE  Ones(Flipped(data, places), Len(data))
           = SymDiff(Ones(data, Len(data)), places)
<1> DEFINE n == Len(data)
           after(k) == {b \in 0..7 : ~(b \in Bits(data[k])
                                         <=> 8 * (k - 1) + b \in places)}
<1>1. \A k \in 1..n : Bits(Flipped(data, places)[k]) = after(k)
  <2>1. \A k \in 1..n : Flipped(data, places)[k] = Number(after(k))
    BY DEF Flipped
  <2>2. \A k : after(k) \in SUBSET (0..7)
    BY Zenon
  <2> HIDE DEF after
  <2> QED
    BY <2>1, <2>2, BitsOfNumber
<1>2. ASSUME NEW t \in 0..8 * n - 1
      PROVE  t \in Ones(Flipped(data, places), n) <=>
               ~(t \in Ones(data, n) <=> t \in places)
  <2>1. n \in Nat /\ t \in Nat /\ t < 8 * n
    BY SMT
  <2>2. PICK k \in 1..n : /\ k = (t \div 8) + 1 /\ t % 8 \in 0..7
                         /\ 8 * (k - 1) + (t % 8) = t
    <3> HIDE DEF n
    <3>1. /\ t \div 8 \in Nat /\ t % 8 \in 0..7 /\ t = 8 * (t \div 8) + (t % 8)
      BY <2>1, DivModEight
    <3>2. (t \div 8) + 1 \in 1..n
      BY <2>1, <3>1, SMT
    <3>3. 8 * (((t \div 8) + 1) - 1) + (t % 8) = t
      BY <2>1, <3>1, SMT
    <3> QED
      BY <3>1, <3>2, <3>3
  <2>3. t \in Ones(Flipped(data, places), n) <=>
          t % 8 \in Bits(Flipped(data, places)[k])
    BY <2>2 DEF Ones
  <2>4. t \in Ones(data, n) <=> t % 8 \in Bits(data[k])
    BY <2>2 DEF Ones
  <2>5. Bits(Flipped(data, places)[k]) = after(k)
    BY <1>1
  <2>6. t % 8 \in after(k) <=>
          ~(t % 8 \in Bits(data[k]) <=> 8 * (k - 1) + (t % 8) \in places)
    BY <2>2
  <2> QED
    BY <2>2, <2>3, <2>4, <2>5, <2>6
<1>3. /\ Ones(Flipped(data, places), n) \subseteq 0..8 * n - 1
      /\ Ones(data, n) \subseteq 0..8 * n - 1
  BY OnesType
<1> HIDE DEF n, after
<1>4. Ones(Flipped(data, places), n) = SymDiff(Ones(data, n), places)
  <2>1. places \subseteq 0..8 * n - 1
    BY DEF n
  <2> QED
    BY <1>2, <1>3, <2>1, Zenon DEF SymDiff
<1> QED
  BY <1>4 DEF n

\* Min finds the least number.
LEMMA MinIsLeast ==
  ASSUME NEW q \in SUBSET Nat, q # {}
  PROVE  Min(q) \in q /\ \A k \in q : Min(q) <= k
BY Least DEF Min

\* Behind, for the two kinds of bytes it is used with.
FirstNoSpace(text, k) ==
  Min({m \in k..Len(text) : ~IsSpace(text[m])} \cup {Len(text) + 1})

\* The first byte that is no space.
LEMMA SpacesFirst ==
  ASSUME NEW text, Len(text) \in Nat, NEW k \in 1..Len(text) + 1,
         NEW p, p = FirstNoSpace(text, k)
  PROVE  /\ p \in k..Len(text) + 1
         /\ \A m \in k..p - 1 : IsSpace(text[m])
         /\ p <= Len(text) => ~IsSpace(text[p])
<1> DEFINE I == {m \in k..Len(text) : ~IsSpace(text[m])} \cup {Len(text) + 1}
<1>1. I \in SUBSET Nat /\ I # {}
  BY SMT
<1>2. p \in I /\ \A m \in I : p <= m
  <2>1. p = Min(I)
    BY DEF FirstNoSpace
  <2> HIDE DEF I
  <2> QED
    BY <1>1, <2>1, MinIsLeast
<1>3. \A m \in k..Len(text) : IsSpace(text[m]) \/ p <= m
  BY <1>2, Zenon
<1>4. (p \in k..Len(text) /\ ~IsSpace(text[p])) \/ p = Len(text) + 1
  BY <1>2, Zenon
<1> QED
  BY <1>3, <1>4, SMT

FirstNoDigit(text, k) ==
  Min({m \in k..Len(text) : ~IsHex(text[m])} \cup {Len(text) + 1})

\* The first byte that is no digit.
LEMMA DigitsFirst ==
  ASSUME NEW text, Len(text) \in Nat, NEW k \in 1..Len(text) + 1,
         NEW p, p = FirstNoDigit(text, k)
  PROVE  /\ p \in k..Len(text) + 1
         /\ \A m \in k..p - 1 : IsHex(text[m])
         /\ p <= Len(text) => ~IsHex(text[p])
<1> DEFINE I == {m \in k..Len(text) : ~IsHex(text[m])} \cup {Len(text) + 1}
<1>1. I \in SUBSET Nat /\ I # {}
  BY SMT
<1>2. p \in I /\ \A m \in I : p <= m
  <2>1. p = Min(I)
    BY DEF FirstNoDigit
  <2> HIDE DEF I
  <2> QED
    BY <1>1, <2>1, MinIsLeast
<1>3. \A m \in k..Len(text) : IsHex(text[m]) \/ p <= m
  BY <1>2, Zenon
<1>4. (p \in k..Len(text) /\ ~IsHex(text[p])) \/ p = Len(text) + 1
  BY <1>2, Zenon
<1> QED
  BY <1>3, <1>4, SMT

\* They are what Behind finds.
LEMMA BehindIs ==
  ASSUME NEW text, NEW k
  PROVE  /\ Behind(text, k, IsSpace) = FirstNoSpace(text, k)
         /\ Behind(text, k, IsHex) = FirstNoDigit(text, k)
BY DEF Behind, FirstNoSpace, FirstNoDigit

\* What stoi computes, its parts named.
LEMMA StoiIs ==
  ASSUME NEW text, NEW a, NEW c, NEW end, a = FirstNoSpace(text, 1),
         c = PrefixSkipped(text,
               IF ByteAt(text, a) \in {43, 45} THEN a + 1 ELSE a),
         end = FirstNoDigit(text, c)
  PROVE  /\ Stoi(text).ok <=> end # c
         /\ Stoi(text).value =
              IF ByteAt(text, a) \in {43, 45} /\ text[a] = 45
              THEN -HexNumber(SubSeq(text, c, end - 1))
              ELSE HexNumber(SubSeq(text, c, end - 1))
<1>1. a = Behind(text, 1, IsSpace) /\ end = Behind(text, c, IsHex)
  BY BehindIs
<1> QED
  BY <1>1, ZenonT(30) DEF Stoi

\* A digit that was written is read again.
LEMMA DigitRead ==
  ASSUME NEW n \in 0..15
  PROVE  /\ Digit(n) \in Byte /\ HexValue(Digit(n)) = n /\ IsHex(Digit(n))
         /\ ~IsSpace(Digit(n)) /\ Digit(n) \notin {43, 45, 88, 120, 10, 13, 33}
BY SMT DEF Digit, HexValue, IsHex, NoDigit, IsSpace, Byte

\* The word that the meter writes is the one that stoi reads.
LEMMA StoiHex ==
  ASSUME NEW w
  PROVE  Stoi(Hex(w)).ok /\ Stoi(Hex(w)).value = Number(w)
<1> DEFINE text == Hex(w)
           d(k) == Nibble(w, 16 - 4 * k)
<1>1. /\ text = <<Digit(Nibble(w, 12)), Digit(Nibble(w, 8)),
                  Digit(Nibble(w, 4)), Digit(Nibble(w, 0))>>
      /\ Len(text) = 4 /\ DOMAIN text = 1..4
  BY DEF Hex
<1>2. \A k \in {0, 4, 8, 12} : Nibble(w, k) \in 0..15
  BY NibbleType, SMT
<1>3. \A k \in 1..4 :
        /\ text[k] \in Byte /\ IsHex(text[k]) /\ ~IsSpace(text[k])
        /\ text[k] \notin {43, 45, 88, 120, 10, 13, 33}
  <2>1. \A k \in 1..4 : \E n \in 0..15 : text[k] = Digit(n)
    BY <1>1, <1>2, SMT
  <2> QED
    BY <2>1, DigitRead
<1>4. /\ HexValue(text[1]) = Nibble(w, 12) /\ HexValue(text[2]) = Nibble(w, 8)
      /\ HexValue(text[3]) = Nibble(w, 4) /\ HexValue(text[4]) = Nibble(w, 0)
  BY <1>1, <1>2, DigitRead
<1> HIDE DEF text
<1>5. FirstNoSpace(text, 1) = 1
  <2> SUFFICES ASSUME NEW p, p = FirstNoSpace(text, 1) PROVE p = 1
    OBVIOUS
  <2>1. p \in 1..5 /\ \A m \in 1..p - 1 : IsSpace(text[m])
    <3>1. Len(text) \in Nat /\ 1 \in 1..Len(text) + 1
      BY <1>1, SMT
    <3>2. p \in 1..Len(text) + 1 /\ \A m \in 1..p - 1 : IsSpace(text[m])
      BY <3>1, SpacesFirst, Zenon
    <3> QED
      BY <1>1, <3>2, SMT
  <2> QED
    BY <1>3, <2>1, SMT
<1>6. ByteAt(text, 1) \notin {43, 45} /\ PrefixSkipped(text, 1) = 1
  BY <1>1, <1>3, SMT DEF ByteAt, PrefixSkipped
<1>7. FirstNoDigit(text, 1) = 5
  <2> SUFFICES ASSUME NEW p, p = FirstNoDigit(text, 1) PROVE p = 5
    OBVIOUS
  <2>1. p \in 1..5 /\ (p <= 4 => ~IsHex(text[p]))
    <3>1. Len(text) \in Nat /\ 1 \in 1..Len(text) + 1
      BY <1>1, SMT
    <3>2. p \in 1..Len(text) + 1 /\ (p <= Len(text) => ~IsHex(text[p]))
      BY <3>1, DigitsFirst, Zenon
    <3> QED
      BY <1>1, <3>2, SMT
  <2> QED
    BY <1>3, <2>1, SMT
<1>8. SubSeq(text, 1, 4) = text
  <2>1. text \in Seq(Byte)
    BY <1>1, <1>3, SMT
  <2> QED
    BY <1>1, <2>1, SubSeqFull
<1>9. HexNumber(text) = Number(w)
  <2>1. HexNumber(text) = HexValue(text[4]) + 16 * HexValue(text[3])
                            + 256 * HexValue(text[2]) + 4096 * HexValue(text[1])
    BY <1>1, SMT DEF HexNumber
  <2> QED
    BY <1>4, <2>1 DEF Number
<1>10. /\ Stoi(text).ok <=> 5 # 1
       /\ Stoi(text).value = HexNumber(SubSeq(text, 1, 5 - 1))
  <2>1. 1 = PrefixSkipped(text, IF ByteAt(text, 1) \in {43, 45} THEN 1 + 1 ELSE 1)
    BY <1>6
  <2> QED
    BY <1>5, <1>6, <1>7, <2>1, StoiIs
<1>11. 5 - 1 = 4 /\ 5 # 1
  OBVIOUS
<1> QED
  BY <1>8, <1>9, <1>10, <1>11 DEF text

-----------------------------------------------------------------------------
(* Types.                                                                  *)

\* What the meter sends is a telegram.
LEMMA BodyType ==
  ASSUME TypeOK
  PROVE  /\ sent \in Seq(Byte) /\ Len(sent) \in Nat /\ Len(sent) > 0
         /\ DOMAIN sent = 1..Len(sent)
BY TransmissionAssumption DEF TypeOK

\* The CRC text is a sequence of bytes.
LEMMA HexType == \A w : Hex(w) \in Seq(Byte)
<1> SUFFICES ASSUME NEW w PROVE Hex(w) \in Seq(Byte)
  OBVIOUS
<1>1. \A k \in {0, 4, 8, 12} : Digit(Nibble(w, k)) \in Byte
  BY NibbleType, DigitRead, SMT
<1> QED
  BY <1>1, SMT DEF Hex

\* A disturbance leaves the length.
LEMMA FlippedType ==
  ASSUME NEW data \in Seq(Byte), NEW places
  PROVE  Flipped(data, places) \in Seq(Byte)
         /\ Len(Flipped(data, places)) = Len(data)
<1>1. \A k \in DOMAIN data : Flipped(data, places)[k] \in Byte
  <2>1. \A k : {b \in 0..7 : ~(b \in Bits(data[k])
                              <=> 8 * (k - 1) + b \in places)} \in SUBSET (0..7)
    BY Zenon
  <2> QED
    BY <2>1, BitsOfNumber DEF Flipped
<1>2. DOMAIN data = 1..Len(data) /\ Len(data) \in Nat
  BY LenProperties
<1>3. Flipped(data, places) \in [1..Len(data) -> Byte]
  BY <1>1, <1>2 DEF Flipped
<1> QED
  BY <1>2, <1>3, SMT

\* The position of the '!', and the data up to it.
LEMMA BangFound ==
  ASSUME NEW raw \in Seq(Byte)
  PROVE  /\ exclamation_pos(raw) \in 0..Len(raw)
         /\ exclamation_pos(raw) # 0 => raw[exclamation_pos(raw)] = Bang
<1> DEFINE I == {k \in 1..Len(raw) : raw[k] = Bang}
<1>1. exclamation_pos(raw) = IF I # {} THEN Min(I) ELSE 0
  BY Zenon DEF exclamation_pos, SelectInSeq
<1>2. I \in SUBSET Nat /\ Len(raw) \in Nat
  BY SMT
<1>3. CASE I = {}
  BY <1>1, <1>2, <1>3, SMT
<1>4. CASE I # {}
  <2>1. Min(I) \in I
    <3> HIDE DEF I
    <3> QED
      BY <1>2, <1>4, MinIsLeast
  <2> QED
    BY <1>1, <1>4, <2>1, SMT
<1> QED
  BY <1>3, <1>4

\* A text of digits is a number.
LEMMA HexNumberType == \A text : HexNumber(text) \in Int
<1>1. \A b : HexValue(b) \in Int
  BY SMT DEF HexValue, NoDigit
<1> SUFFICES ASSUME NEW text PROVE HexNumber(text) \in Int
  OBVIOUS
<1> DEFINE value(k) ==
      IF k < Len(text) THEN HexValue(text[Len(text) - k]) ELSE 0
<1>2. \A k : value(k) \in Int
  <2>1. 0 \in Int
    BY SMT
  <2> QED
    BY <1>1, <2>1, Zenon
<1>3. HexNumber(text)
        = value(0) + 16 * value(1) + 256 * value(2) + 4096 * value(3)
  BY SMT DEF HexNumber
<1> HIDE DEF value
<1>4. PICK v0, v1, v2, v3 \in Int :
        v0 = value(0) /\ v1 = value(1) /\ v2 = value(2) /\ v3 = value(3)
  BY <1>2
<1>5. v0 + 16 * v1 + 256 * v2 + 4096 * v3 \in Int
  BY SMT
<1> QED
  BY <1>3, <1>4, <1>5

\* What is read of the CRC text fits a word after the cast.
LEMMA StoiType ==
  ASSUME NEW text
  PROVE  Cast16(Stoi(text).value) \in Word16
<1>2. Stoi(text).value \in Int
  <2>1. PICK a, c, end : /\ a = FirstNoSpace(text, 1)
                         /\ c = PrefixSkipped(text,
                              IF ByteAt(text, a) \in {43, 45} THEN a + 1 ELSE a)
                         /\ end = FirstNoDigit(text, c)
    OBVIOUS
  <2> QED
    BY HexNumberType, <2>1, StoiIs, SMT
<1>3. \A n \in Int : Cast16(n) \in Word16
  BY SMT DEF Cast16, Word16
<1> QED
  BY <1>2, <1>3

\* A shifted word is a word.
LEMMA ShiftedType ==
  ASSUME NEW crc \in SUBSET (0..15) PROVE Shifted(crc) \in SUBSET (0..15)
BY SMT DEF Shifted, SymDiff

\* The types at first.
LEMMA InitTypes == Init => TypeOK
<1> SUFFICES ASSUME Init PROVE TypeOK
  OBVIOUS
<1>1. sent \in Body /\ Len(sent) \in Nat
  BY TransmissionAssumption DEF Init
<1>2. Ones(sent, Len(sent)) \subseteq Nat
  BY <1>1, OnesType, SMT
<1>3. <<1>> \in Seq(Nat \ {0}) /\ Len(<<1>>) = 1
  BY SMT
<1>4. 0 \in Word16
  BY SMT DEF Word16
<1> QED
  BY <1>1, <1>2, <1>3, <1>4 DEF Init, TypeOK

\* Every step keeps the types.
LEMMA NextTypes == TypeOK /\ [Next]_vars => TypeOK'
<1> SUFFICES ASSUME TypeOK, [Next]_vars PROVE TypeOK'
  OBVIOUS
<1> USE DEF meterVars, messageVars, crcVars, lineVars
<1>1. CASE MeterDivides
  <2>1. i \in Nat => i + 1 \in Nat
    BY SMT
  <2>2. rest' \subseteq Nat /\ divided' \subseteq Nat
    BY <1>1, SMT DEF TypeOK, MeterDivides, SymDiff, Generator
  <2> QED
    BY <1>1, <2>1, <2>2, Zenon DEF TypeOK, MeterDivides
<1>2. CASE Construct
  <2>1. PICK places, text :
          /\ Receive(places, text) /\ text \in Seq(Byte)
          /\ places \subseteq 0..8 * Len(sent) - 1
    <3>1. CASE \E places \in Flips[sent] : Receive(places, Hex(Remainder))
      BY <3>1, HexType, TransmissionAssumption DEF TypeOK
    <3>2. CASE \E text \in Garbled[sent] : Receive({}, text)
      BY <3>2, TransmissionAssumption DEF TypeOK
    <3> QED
      BY <1>2, <3>1, <3>2 DEF Construct
  <2>2. raw_hp_message' \in Seq(Byte)
    BY <2>1, BodyType, FlippedType, ConcatProperties, Zenon DEF Receive
  <2> DEFINE bang == exclamation_pos(raw_hp_message')
  <2>3. bang \in 0..Len(raw_hp_message') /\ Len(raw_hp_message') \in Nat
    BY <2>2, BangFound, LenProperties
  <2>4. hp_meter_data' = SubSeq(raw_hp_message', 1, bang)
    BY <2>1 DEF Receive
  <2>5. hp_meter_data' \in Seq(Byte)
    <3> HIDE DEF bang
    <3>1. \A k \in 1..bang : raw_hp_message'[k] \in Byte
      BY <2>2, <2>3, SMT
    <3> QED
      BY <2>3, <2>4, <3>1, SubSeqProperties, SMT
  <2>6. i' \in Nat
    BY <2>1, <2>3, SMT DEF Receive
  <2> QED
    BY <2>1, <2>2, <2>5, <2>6, Zenon DEF TypeOK, Receive
<1>3. CASE TextByte
  <2>1. raw_hp_message[i + 1] \in Byte
    BY <1>3, SMT DEF TypeOK, TextByte
  <2>2. crc_string' \in Seq(Byte)
    BY <1>3, <2>1, AppendProperties, Zenon DEF TypeOK, TextByte
  <2>3. i' \in Nat
    BY <1>3, SMT DEF TypeOK, TextByte
  <2> QED
    BY <1>3, <2>2, <2>3, Zenon DEF TypeOK, TextByte
<1>4. CASE ReadCrc
  BY <1>4, StoiType DEF TypeOK, ReadCrc
<1>5. CASE XorByte
  <2>1. calculated_crc' \subseteq 0..15
    <3>1. \A b : Bits(b) \subseteq 0..15
      <4>1. \A b : Bits(b) \subseteq 0..7
        BY Zenon DEF Bits
      <4> QED
        BY <4>1, SMT
    <3> QED
      BY <1>5, <3>1, Zenon DEF TypeOK, XorByte, ByteXored, SymDiff
  <2>2. j' \in 0..7
    BY <1>5, SMT DEF XorByte
  <2> QED
    BY <1>5, <2>1, <2>2, Zenon DEF TypeOK, XorByte
<1>6. CASE ShiftBit
  <2>1. calculated_crc' \subseteq 0..15
    BY <1>6, ShiftedType DEF TypeOK, ShiftBit
  <2>2. i' \in Nat /\ j' \in 0..7
    <3>1. \/ j' = 0 /\ i' = i + 1
          \/ j # 7 /\ j' = j + 1 /\ i' = i
      BY <1>6, Zenon DEF ShiftBit
    <3>2. i \in Nat /\ j \in 0..7
      BY DEF TypeOK
    <3> QED
      BY <3>1, <3>2, SMT
  <2>4. quotient' \subseteq Nat
    <3>1. quotient' = quotient \/ quotient' = quotient \cup {8 * i + j}
      BY <1>6, Zenon DEF ShiftBit
    <3>2. 8 * i + j \in Nat
      BY SMT DEF TypeOK
    <3> QED
      BY <3>1, <3>2, Zenon DEF TypeOK
  <2>3. pc' \in {"byte", "bit"}
    BY <1>6 DEF TypeOK, ShiftBit
  <2> QED
    BY <1>6, <2>1, <2>2, <2>3, <2>4, Zenon DEF TypeOK, ShiftBit
<1>7. CASE Compare
  BY <1>7 DEF TypeOK, Compare
<1>8. CASE GetLine
  <2>1. PICK e \in Last(from)..Len(hp_meter_data) : LineTo(e)
    BY <1>8 DEF GetLine
  <2>2. Last(from) \in Nat \ {0} /\ Len(hp_meter_data) \in Nat
    BY SMT DEF TypeOK, Last
  <2>3. \A k \in Last(from)..e : hp_meter_data[k] \in Byte
    BY <2>2, SMT DEF TypeOK
  <2>4. PICK d \in {e - 1, e}, next \in {e + 1, e + 2} :
          /\ str_arr' = Append(str_arr, SubSeq(hp_meter_data, Last(from), d))
          /\ from' = Append(from, next)
    BY <2>1 DEF LineTo
  <2>5. SubSeq(hp_meter_data, Last(from), d) \in Seq(Byte)
    <3>1. \A k \in Last(from)..d : hp_meter_data[k] \in Byte
      BY <2>2, <2>3, SMT
    <3>2. Last(from) \in Int /\ d \in Int
      BY <2>2, SMT
    <3> QED
      BY <3>1, <3>2, SubSeqProperties
  <2>6. next \in Nat \ {0}
    BY <2>2, SMT
  <2>7. str_arr' \in Seq(Seq(Byte)) /\ Len(str_arr') = Len(str_arr) + 1
    BY <2>4, <2>5, AppendProperties DEF TypeOK
  <2>8. from' \in Seq(Nat \ {0}) /\ Len(from') = Len(from) + 1
    BY <2>4, <2>6, AppendProperties DEF TypeOK
  <2> QED
    BY <1>8, <2>7, <2>8 DEF TypeOK, GetLine
<1>9. CASE LinesDone
  BY <1>9 DEF TypeOK, LinesDone
<1>10. CASE UNCHANGED vars
  BY <1>10 DEF TypeOK, vars
<1> QED
  BY <1>1, <1>2, <1>3, <1>4, <1>5, <1>6, <1>7, <1>8, <1>9, <1>10 DEF Next

\* Every number stays in its range (hpMessageValidator.cpp:14-94).
THEOREM TypeCorrect == Spec => []TypeOK
BY InitTypes, NextTypes, PTL DEF Spec

-----------------------------------------------------------------------------
(* The inductive invariant.                                                *)

\* The meter has divided the places up to i.
MeterInv ==
  /\ SymDiff(Ones(sent, Len(sent)), rest) = Times(divided)
  /\ pc = "meter" => /\ i <= 8 * Len(sent) /\ divided \subseteq 0..i - 1
                     /\ rest \subseteq i..8 * Len(sent) + 15
  /\ pc # "meter" => /\ divided \subseteq 0..8 * Len(sent) - 1
                     /\ rest \subseteq 8 * Len(sent)..8 * Len(sent) + 15

\* So has the shifting loop, of the first bytes of the data, up to place s.
Divided(bytes, s) ==
  /\ quotient \subseteq 0..s - 1
  /\ SymDiff(Ones(hp_meter_data, bytes), Moved(calculated_crc, s))
       = Times(quotient)

CrcInv ==
  /\ pc \in {"meter", "text"} => calculated_crc = {} /\ quotient = {}
  /\ pc = "byte" => i <= Len(hp_meter_data) /\ Divided(i, 8 * i)
  /\ pc = "bit" => i < Len(hp_meter_data) /\ Divided(i + 1, 8 * i + j)
  /\ pc \in {"lines", "parser", "rejected"} =>
       Divided(Len(hp_meter_data), 8 * Len(hp_meter_data))

\* The data are the telegram, disturbed, unless a '!' moved.
DataInv ==
  /\ \A b, c \in flips : b - c <= 15
  /\ Len(hp_meter_data) = Len(sent) => hp_meter_data = Flipped(sent, flips)
  /\ pc \notin {"meter", "threw"} => Len(hp_meter_data) > 0
  /\ Len(hp_meter_data) > 0 => hp_meter_data[Len(hp_meter_data)] = Bang

VerdictInv ==
  /\ pc \in {"byte", "bit", "lines", "parser", "rejected"} =>
       /\ Stoi(crc_string).ok
       /\ transmitted_crc = Cast16(Stoi(crc_string).value)
  /\ pc = "threw" => Len(hp_meter_data) = 0 \/ ~Stoi(crc_string).ok
  /\ pc \in {"lines", "parser"} => Accepted
  /\ pc = "rejected" => ~Accepted

LineCut(k) ==
  /\ str_arr[k] = SubSeq(hp_meter_data, from[k], from[k + 1] - 2)
  /\ 10 \notin Range(str_arr[k])
  /\ k > 1 => hp_meter_data[from[k] - 1] = 10

LinesInv ==
  /\ \A k \in DOMAIN str_arr : LineCut(k)
  /\ from[1] = 1
  /\ pc \notin {"lines", "parser"} => str_arr = <<>>
  /\ Len(str_arr) > 0 =>
       \/ Last(from) <= Len(hp_meter_data) + 1
            /\ hp_meter_data[Last(from) - 1] = 10
       \/ Last(from) = Len(hp_meter_data) + 2
  /\ pc = "parser" => Last(from) = Len(hp_meter_data) + 2

IInv == TypeOK /\ MeterInv /\ CrcInv /\ DataInv /\ VerdictInv /\ LinesInv

-----------------------------------------------------------------------------
(* The meter's division.                                                   *)

\* Sums may be bracketed otherwise.
LEMMA SymDiffSwap ==
  \A A, B, C : SymDiff(A, SymDiff(B, C)) = SymDiff(SymDiff(A, B), C)
<1> SUFFICES ASSUME NEW A, NEW B, NEW C
             PROVE  \A x : x \in SymDiff(A, SymDiff(B, C))
                             <=> x \in SymDiff(SymDiff(A, B), C)
  BY SMT DEF SymDiff
<1>1. \A x : x \in SymDiff(B, C) <=> ~(x \in B <=> x \in C)
  BY SymDiffIn
<1>2. \A x : x \in SymDiff(A, B) <=> ~(x \in A <=> x \in B)
  BY SymDiffIn
<1>3. \A x : x \in SymDiff(A, SymDiff(B, C)) <=> ~(x \in A <=> x \in SymDiff(B, C))
  BY SymDiffIn
<1>4. \A x : x \in SymDiff(SymDiff(A, B), C) <=> ~(x \in SymDiff(A, B) <=> x \in C)
  BY SymDiffIn
<1> QED
  BY <1>1, <1>2, <1>3, <1>4

\* The same summand on both sides goes away.
LEMMA SymDiffSums ==
  \A A, B, C : SymDiff(SymDiff(A, C), SymDiff(B, C)) = SymDiff(A, B)
<1> SUFFICES ASSUME NEW A, NEW B, NEW C
             PROVE  \A x : x \in SymDiff(SymDiff(A, C), SymDiff(B, C))
                             <=> x \in SymDiff(A, B)
  BY SMT DEF SymDiff
<1>1. \A x : x \in SymDiff(A, C) <=> ~(x \in A <=> x \in C)
  BY SymDiffIn
<1>2. \A x : x \in SymDiff(B, C) <=> ~(x \in B <=> x \in C)
  BY SymDiffIn
<1>3. \A x : x \in SymDiff(SymDiff(A, C), SymDiff(B, C))
               <=> ~(x \in SymDiff(A, C) <=> x \in SymDiff(B, C))
  BY SymDiffIn
<1>4. \A x : x \in SymDiff(A, B) <=> ~(x \in A <=> x \in B)
  BY SymDiffIn
<1> QED
  BY <1>1, <1>2, <1>3, <1>4

\* Nothing added.
LEMMA SymDiffNone == \A A : SymDiff({}, A) = A /\ SymDiff(A, {}) = A /\ SymDiff(A, A) = {}
BY Zenon DEF SymDiff

\* Nothing multiplied.
LEMMA TimesNone == Times({}) = {}
<1>1. \A n : Moved({}, n) = {}
  BY DEF Moved
<1> QED
  BY <1>1, SymDiffNone DEF Times

\* The meter has divided nothing at first.
LEMMA InitMeter == Init => MeterInv
<1> SUFFICES ASSUME Init PROVE MeterInv
  OBVIOUS
<1>1. sent \in Body /\ Len(sent) \in Nat
  BY TransmissionAssumption DEF Init
<1>2. rest \subseteq 0..8 * Len(sent) - 1
  BY <1>1, OnesType DEF Init
<1>3. SymDiff(Ones(sent, Len(sent)), rest) = Times(divided)
  BY SymDiffNone, TimesNone DEF Init
<1>4. i = 0 /\ divided = {} /\ pc = "meter"
  BY DEF Init
<1>5. i <= 8 * Len(sent) /\ rest \subseteq i..8 * Len(sent) + 15
  BY <1>1, <1>2, <1>4, SMT
<1> QED
  BY <1>3, <1>4, <1>5, Zenon DEF MeterInv

\* Every step keeps its division.
LEMMA NextMeter == TypeOK /\ MeterInv /\ [Next]_vars => MeterInv'
<1> SUFFICES ASSUME TypeOK, MeterInv, [Next]_vars PROVE MeterInv'
  OBVIOUS
<1> USE DEF meterVars
<1> DEFINE n == Len(sent)
<1>0. n \in Nat /\ i \in Nat
  BY BodyType DEF TypeOK
<1>1. CASE MeterDivides
  <2>1. pc = "meter" /\ pc' = "meter" /\ i < 8 * n /\ sent' = sent /\ i' = i + 1
    BY <1>1 DEF MeterDivides
  <2>2. /\ SymDiff(Ones(sent, n), rest) = Times(divided)
        /\ divided \subseteq 0..i - 1 /\ rest \subseteq i..8 * n + 15
    BY <2>1 DEF MeterInv
  <2>3. SymDiff(Ones(sent, n), rest') = Times(divided')
    <3>1. CASE i \in rest
      <4>1. rest' = SymDiff(rest, Generator(i)) /\ divided' = divided \cup {i}
        BY <1>1, <3>1 DEF MeterDivides
      <4>2. divided \in SUBSET Int /\ i \notin divided /\ i \in Int
        BY <1>0, <2>2, SMT
      <4>3. Times(divided') = SymDiff(Times(divided), Generator(i))
        BY <4>1, <4>2, TimesStep
      <4> QED
        BY <2>2, <4>1, <4>3, SymDiffSwap
    <3>2. CASE i \notin rest
      BY <1>1, <2>2, <3>2 DEF MeterDivides
    <3> QED
      BY <3>1, <3>2
  <2>4. divided' \subseteq 0..i' - 1 /\ i' <= 8 * n
    <3>1. divided' \subseteq divided \cup {i}
      BY <1>1, Zenon DEF MeterDivides
    <3> HIDE DEF n
    <3> QED
      BY <1>0, <2>1, <2>2, <3>1, SMT
  <2>5. rest' \subseteq i'..8 * n + 15
    <3> HIDE DEF n
    <3>1. CASE i \in rest
      <4>1. rest' = SymDiff(rest, Generator(i))
        BY <1>1, <3>1 DEF MeterDivides
      <4>2. \A x \in rest' : ~(x \in rest <=> x \in Generator(i))
        BY <4>1, SymDiffIn
      <4>3. Generator(i) \subseteq i..8 * n + 15 /\ i \in Generator(i)
        BY <1>0, <2>1, SMT DEF Generator
      <4>4. \A x \in rest' : x \in i..8 * n + 15 /\ x # i
        BY <2>2, <3>1, <4>2, <4>3, Zenon
      <4> QED
        BY <1>0, <2>1, <4>4, SMT
    <3>2. CASE i \notin rest
      <4>1. rest' = rest
        BY <1>1, <3>2 DEF MeterDivides
      <4> QED
        BY <1>0, <2>1, <2>2, <3>2, <4>1, SMT
    <3> QED
      BY <3>1, <3>2
  <2> QED
    BY <2>1, <2>3, <2>4, <2>5 DEF MeterInv
<1>2. CASE Construct
  <2>1. /\ pc = "meter" /\ pc' # "meter" /\ i = 8 * n
        /\ UNCHANGED <<sent, rest, divided>>
    BY <1>2, Zenon DEF Construct, Receive
  <2> QED
    BY <2>1 DEF MeterInv
<1>3. ASSUME pc # "meter", pc' # "meter", UNCHANGED meterVars
      PROVE  MeterInv'
  BY <1>3 DEF MeterInv
<1>4. CASE TextByte \/ ReadCrc \/ XorByte \/ ShiftBit \/ Compare \/ GetLine
             \/ LinesDone
  <2>1. pc # "meter" /\ pc' # "meter" /\ UNCHANGED meterVars
    BY <1>4, Zenon DEF TextByte, ReadCrc, XorByte, ShiftBit, Compare, GetLine,
                       LinesDone
  <2> QED
    BY <1>3, <2>1
<1>5. CASE UNCHANGED vars
  BY <1>5 DEF MeterInv, vars
<1> QED
  BY <1>1, <1>2, <1>4, <1>5 DEF Next

-----------------------------------------------------------------------------
(* The shifting loop.                                                      *)

\* A moved sum.
LEMMA MovedSum ==
  ASSUME NEW p \in SUBSET Int, NEW q \in SUBSET Int, NEW n \in Int
  PROVE  Moved(SymDiff(p, q), n) = SymDiff(Moved(p, n), Moved(q, n))
<1> DEFINE s == SymDiff(p, q)
<1>1. s \in SUBSET Int
  BY DEF SymDiff
<1>2. \A y : y \in s <=> ~(y \in p <=> y \in q)
  BY SymDiffIn
<1> HIDE DEF s
<1>3. ASSUME NEW x \in Int
      PROVE  x \in Moved(s, n) <=> ~(x \in Moved(p, n) <=> x \in Moved(q, n))
  BY <1>1, <1>2, MovedIn
<1>4. Moved(s, n) \in SUBSET Int /\ Moved(p, n) \in SUBSET Int /\ Moved(q, n) \in SUBSET Int
  BY <1>1, MovedType
<1> QED
  BY <1>3, <1>4, Zenon DEF SymDiff, s

\* A shift moves the register one place on, and takes the generator at the
\* place of the bit that fell out away from it.
LEMMA ShiftedMeans ==
  ASSUME NEW crc \in SUBSET (0..15), NEW s \in Nat
  PROVE  Moved(Shifted(crc), s + 1)
           = IF 0 \in crc THEN SymDiff(Moved(crc, s), Generator(s))
                          ELSE Moved(crc, s)
<1> DEFINE right == {k - 1 : k \in crc \ {0}}
           low == crc \ {0}
           taps == {15, 13, 0}
<1>1. /\ right \in SUBSET Int /\ low \in SUBSET Int /\ taps \in SUBSET Int
      /\ s + 1 \in Int /\ s \in Int
  BY SMT
<1>2. Moved(right, s + 1) = Moved(low, s)
  <2>1. \A y \in Int : y \in right <=> y + 1 \in low
    BY SMT
  <2> HIDE DEF right, low
  <2>2. ASSUME NEW x \in Int
        PROVE  x \in Moved(right, s + 1) <=> x \in Moved(low, s)
    <3>1. x - (s + 1) \in Int /\ (x - (s + 1)) + 1 = x - s
      BY SMT
    <3> QED
      BY <1>1, <2>1, <3>1, MovedIn
  <2>3. Moved(right, s + 1) \in SUBSET Int /\ Moved(low, s) \in SUBSET Int
    BY <1>1, MovedType
  <2> QED
    BY <2>2, <2>3, Zenon
<1>3. Moved(taps, s + 1) = {s + 16, s + 14, s + 1}
  BY SMT DEF Moved
<1>4. CASE 0 \in crc
  <2>1. Shifted(crc) = SymDiff(right, taps)
    BY <1>4, Zenon DEF Shifted
  <2>2. Moved(Shifted(crc), s + 1)
          = SymDiff(Moved(low, s), {s + 16, s + 14, s + 1})
    <3> HIDE DEF right, low, taps
    <3>1. Moved(SymDiff(right, taps), s + 1)
            = SymDiff(Moved(right, s + 1), Moved(taps, s + 1))
      BY <1>1, MovedSum
    <3> QED
      BY <1>2, <1>3, <2>1, <3>1
  <2>3. \A x : x \in Moved(crc, s) <=> x \in Moved(low, s) \/ x = s
    BY <1>4, SMT DEF Moved
  <2>4. s \notin Moved(low, s)
    BY SMT DEF Moved
  <2>5. \A x : x \in Generator(s) <=> x \in {s + 16, s + 14, s + 1} \/ x = s
    BY DEF Generator
  <2>6. s \notin {s + 16, s + 14, s + 1}
    BY SMT
  <2> HIDE DEF low
  <2>7. \A x : x \in SymDiff(Moved(low, s), {s + 16, s + 14, s + 1})
                 <=> x \in SymDiff(Moved(crc, s), Generator(s))
    <3> DEFINE g == {s + 16, s + 14, s + 1}
    <3>1. s \notin g /\ \A x : x \in Generator(s) <=> x \in g \/ x = s
      BY <2>5, <2>6
    <3> HIDE DEF g
    <3>2. \A x : x \in SymDiff(Moved(low, s), g)
                   <=> x \in SymDiff(Moved(crc, s), Generator(s))
      BY <2>3, <2>4, <3>1, Zenon DEF SymDiff
    <3> QED
      BY <3>2 DEF g
  <2>8. SymDiff(Moved(low, s), {s + 16, s + 14, s + 1})
          = SymDiff(Moved(crc, s), Generator(s))
    BY <2>7, Zenon DEF SymDiff
  <2> QED
    BY <1>4, <2>2, <2>8
<1>5. CASE 0 \notin crc
  <2>1. Shifted(crc) = right /\ low = crc
    BY <1>5, Zenon DEF Shifted
  <2> QED
    BY <1>2, <1>5, <2>1
<1> QED
  BY <1>4, <1>5

\* The loop has divided nothing at first.
LEMMA InitCrc == Init => CrcInv
BY DEF Init, CrcInv

\* Every round of the loop keeps its division.
LEMMA NextCrc == TypeOK /\ CrcInv /\ [Next]_vars => CrcInv'
<1> SUFFICES ASSUME TypeOK, CrcInv, [Next]_vars PROVE CrcInv'
  OBVIOUS
<1> DEFINE n == Len(hp_meter_data)
<1>0. /\ n \in Nat /\ i \in Nat /\ j \in Nat /\ j <= 7
      /\ calculated_crc \in SUBSET (0..15) /\ quotient \in SUBSET Int
      /\ calculated_crc \in SUBSET Int
  BY SMT DEF TypeOK
<1>1. ASSUME pc \in {"meter", "text"}, pc' \in {"meter", "text", "threw"},
             calculated_crc' = calculated_crc, quotient' = quotient
      PROVE  CrcInv'
  BY <1>1 DEF CrcInv
<1>2. CASE MeterDivides \/ Construct \/ TextByte
  <2>1. /\ pc \in {"meter", "text"} /\ pc' \in {"meter", "text", "threw"}
        /\ calculated_crc' = calculated_crc /\ quotient' = quotient
    BY <1>2, Zenon DEF MeterDivides, Construct, Receive, TextByte, crcVars
  <2> QED
    BY <1>1, <2>1
<1>3. CASE ReadCrc
  <2>1. /\ pc = "text" /\ hp_meter_data' = hp_meter_data
        /\ calculated_crc' = {} /\ quotient' = {}
        /\ pc' = "threw" \/ (pc' = "byte" /\ i' = 0)
    BY <1>3, Zenon DEF ReadCrc, CrcInv, messageVars
  <2>2. Ones(hp_meter_data, 0) = {}
    BY OnesType, SMT
  <2>3. Moved({}, 0) = {}
    BY DEF Moved
  <2>4. ASSUME i' = 0 PROVE Divided(i, 8 * i)'
    <3>1. 8 * 0 = 0
      BY SMT
    <3> QED
      BY <2>1, <2>2, <2>3, <2>4, <3>1, TimesNone, SymDiffNone DEF Divided
  <2>5. pc' = "byte" => i' = 0 /\ i' <= Len(hp_meter_data')
    BY <1>0, <2>1
  <2> QED
    BY <2>1, <2>4, <2>5 DEF CrcInv
<1>4. CASE XorByte
  <2>1. /\ pc = "byte" /\ pc' = "bit" /\ i < n /\ i' = i /\ j' = 0
        /\ hp_meter_data' = hp_meter_data /\ quotient' = quotient
        /\ calculated_crc' = SymDiff(calculated_crc, Bits(hp_meter_data[i + 1]))
    BY <1>4 DEF XorByte, messageVars, ByteXored
  <2>2. Divided(i, 8 * i)
    BY <2>1 DEF CrcInv
  <2>3. Bits(hp_meter_data[i + 1]) \in SUBSET Int /\ 8 * i \in Int
    BY <1>0, SMT DEF Bits
  <2>4. Moved(calculated_crc', 8 * i)
          = SymDiff(Moved(calculated_crc, 8 * i),
                    Moved(Bits(hp_meter_data[i + 1]), 8 * i))
    BY <1>0, <2>1, <2>3, MovedSum
  <2>5. Ones(hp_meter_data, i + 1)
          = SymDiff(Ones(hp_meter_data, i),
                    Moved(Bits(hp_meter_data[i + 1]), 8 * i))
    BY <1>0, OnesStep
  <2>6. \A A, B, C : SymDiff(SymDiff(A, C), SymDiff(B, C)) = SymDiff(A, B)
    BY SymDiffSums
  <2>7. SymDiff(Ones(hp_meter_data, i + 1), Moved(calculated_crc', 8 * i))
          = Times(quotient)
    BY <2>2, <2>4, <2>5, <2>6 DEF Divided
  <2>8. 8 * i' + j' = 8 * i
    BY <1>0, <2>1, SMT
  <2> QED
    BY <2>1, <2>2, <2>7, <2>8 DEF CrcInv, Divided
<1>5. CASE ShiftBit
  <2> DEFINE s == 8 * i + j
  <2>1. /\ pc = "bit" /\ i < n /\ hp_meter_data' = hp_meter_data
        /\ calculated_crc' = Shifted(calculated_crc)
    BY <1>5 DEF ShiftBit, CrcInv, messageVars
  <2>2. Divided(i + 1, s) /\ s \in Nat
    BY <1>0, <2>1, SMT DEF CrcInv
  <2> HIDE DEF s
  <2>3. Moved(calculated_crc', s + 1)
           = IF 0 \in calculated_crc THEN SymDiff(Moved(calculated_crc, s), Generator(s))
                          ELSE Moved(calculated_crc, s)
    BY <1>0, <2>1, <2>2, ShiftedMeans
  <2>4. quotient' = IF 0 \in calculated_crc THEN quotient \cup {s} ELSE quotient
    BY <1>5 DEF ShiftBit, s
  <2>5. quotient \subseteq 0..s - 1 /\ s \notin quotient
    BY <2>2, SMT DEF Divided
  <2>6. SymDiff(Ones(hp_meter_data, i + 1), Moved(calculated_crc', s + 1))
          = Times(quotient')
    <3>1. CASE 0 \in calculated_crc
      <4>1. Times(quotient') = SymDiff(Times(quotient), Generator(s))
        BY <1>0, <2>2, <2>4, <2>5, <3>1, TimesStep
      <4> QED
        BY <2>2, <2>3, <3>1, <4>1, SymDiffSwap DEF Divided
    <3>2. CASE 0 \notin calculated_crc
      BY <2>2, <2>3, <2>4, <3>2 DEF Divided
    <3> QED
      BY <3>1, <3>2
  <2>7. quotient' \subseteq 0..(s + 1) - 1
    BY <2>2, <2>4, <2>5, SMT
  <2>8. CASE j = 7
    <3>1. i' = i + 1 /\ pc' = "byte"
      BY <1>5, <2>8 DEF ShiftBit
    <3>2. 8 * i' = s + 1 /\ i' <= n
      BY <1>0, <2>1, <2>8, <3>1, SMT DEF s
    <3> QED
      BY <2>1, <2>6, <2>7, <3>1, <3>2 DEF CrcInv, Divided
  <2>9. CASE j # 7
    <3>1. i' = i /\ pc' = "bit" /\ j' = j + 1
      BY <1>5, <2>1, <2>9 DEF ShiftBit
    <3>2. 8 * i' + j' = s + 1
      BY <1>0, <3>1, SMT DEF s
    <3> QED
      BY <2>1, <2>6, <2>7, <3>1, <3>2 DEF CrcInv, Divided
  <2> QED
    BY <2>8, <2>9
<1>6. CASE Compare
  <2>1. /\ pc = "byte" /\ i = n /\ pc' \in {"lines", "rejected"}
        /\ UNCHANGED <<hp_meter_data, calculated_crc, quotient>>
    BY <1>6, Zenon DEF Compare, messageVars, crcVars
  <2> QED
    BY <2>1, Zenon DEF CrcInv, Divided
<1>7. CASE GetLine \/ LinesDone
  <2>1. /\ pc = "lines" /\ pc' \in {"lines", "parser"}
        /\ UNCHANGED <<hp_meter_data, calculated_crc, quotient>>
    BY <1>7, Zenon DEF GetLine, LinesDone, messageVars, crcVars
  <2> QED
    BY <2>1, Zenon DEF CrcInv, Divided
<1>8. CASE UNCHANGED vars
  BY <1>8, Zenon DEF CrcInv, Divided, vars, messageVars, crcVars
<1> QED
  BY <1>2, <1>3, <1>4, <1>5, <1>6, <1>7, <1>8 DEF Next

-----------------------------------------------------------------------------
(* The data, the verdict and the lines.                                    *)

\* A beginning of what was received.
LEMMA DataCut ==
  ASSUME NEW raw \in Seq(Byte), NEW p \in 0..Len(raw)
  PROVE  /\ SubSeq(raw, 1, p) \in Seq(Byte) /\ Len(SubSeq(raw, 1, p)) = p
         /\ \A k \in 1..p : SubSeq(raw, 1, p)[k] = raw[k]
BY SMT

\* A line of the data.
LEMMA LineBytes ==
  ASSUME NEW data \in Seq(Byte), NEW a \in 1..Len(data) + 1,
         NEW d \in a - 1..Len(data)
  PROVE  /\ SubSeq(data, a, d) \in Seq(Byte)
         /\ \A k \in DOMAIN SubSeq(data, a, d) :
              \E p \in a..d : SubSeq(data, a, d)[k] = data[p]
<1>1. \A k \in a..d : data[k] \in Byte
  BY SMT
<1>2. a \in Int /\ d \in Int
  BY SMT
<1>3. /\ SubSeq(data, a, d) \in Seq(Byte)
      /\ Len(SubSeq(data, a, d)) = IF a <= d THEN d - a + 1 ELSE 0
      /\ \A k \in 1..d - a + 1 : SubSeq(data, a, d)[k] = data[a + k - 1]
  BY <1>1, <1>2, SubSeqProperties
<1>4. DOMAIN SubSeq(data, a, d) = 1..d - a + 1
  BY <1>2, <1>3, SMT
<1>5. \A k \in 1..d - a + 1 : a + k - 1 \in a..d
  BY <1>2, SMT
<1> QED
  BY <1>3, <1>4, <1>5

\* The data at first.
LEMMA InitData == Init => DataInv
BY BodyType, TransmissionAssumption DEF Init, DataInv

\* Every step keeps what is said of the data.
LEMMA NextData == TypeOK /\ DataInv /\ [Next]_vars => DataInv'
<1> SUFFICES ASSUME TypeOK, DataInv, [Next]_vars PROVE DataInv'
  OBVIOUS
<1>1. CASE Construct
  <2>1. PICK places, text :
          /\ Receive(places, text) /\ text \in Seq(Byte)
          /\ places \subseteq 0..8 * Len(sent) - 1
          /\ \A b, c \in places : b - c <= 15
    <3>1. CASE \E places \in Flips[sent] : Receive(places, Hex(Remainder))
      BY <3>1, HexType, TransmissionAssumption DEF TypeOK
    <3>2. CASE \E text \in Garbled[sent] : Receive({}, text)
      <4>1. PICK text \in Garbled[sent] : Receive({}, text)
        BY <3>2
      <4>2. text \in Seq(Byte)
        BY TransmissionAssumption DEF TypeOK
      <4> QED
        BY <4>1, <4>2
    <3> QED
      BY <1>1, <3>1, <3>2 DEF Construct
  <2> DEFINE raw == raw_hp_message'
             bang == exclamation_pos(raw)
             came == Flipped(sent, places)
  <2>2. /\ sent' = sent /\ flips' = places /\ raw = came \o text
        /\ hp_meter_data' = SubSeq(raw, 1, bang)
        /\ pc' = IF bang = 0 THEN "threw" ELSE "text"
    BY <2>1 DEF Receive
  <2>3. came \in Seq(Byte) /\ Len(came) = Len(sent)
    BY BodyType, FlippedType
  <2> HIDE DEF came
  <2>4. raw \in Seq(Byte)
    BY <2>1, <2>2, <2>3, ConcatProperties, Zenon
  <2>5. bang \in 0..Len(raw) /\ (bang # 0 => raw[bang] = Bang)
    BY <2>4, BangFound
  <2> HIDE DEF raw, bang
  <2>6. /\ Len(hp_meter_data') = bang
        /\ \A k \in 1..bang : hp_meter_data'[k] = raw[k]
    BY <2>2, <2>4, <2>5, DataCut
  <2>7. ASSUME Len(hp_meter_data') = Len(sent') PROVE hp_meter_data' = came
    <3>1. bang = Len(came)
      BY <2>2, <2>3, <2>6, <2>7
    <3>2. SubSeq(raw, 1, Len(came)) = came
      BY <2>1, <2>2, <2>3, SubSeqOfConcat1, SubSeqFull
    <3> QED
      BY <2>2, <3>1, <3>2
  <2>8. Len(hp_meter_data') > 0 => hp_meter_data'[Len(hp_meter_data')] = Bang
    BY <2>5, <2>6, SMT
  <2>9. pc' \notin {"meter", "threw"} => Len(hp_meter_data') > 0
    BY <2>2, <2>5, <2>6, SMT
  <2> QED
    BY <2>1, <2>2, <2>7, <2>8, <2>9 DEF DataInv, came
<1>2. ASSUME UNCHANGED <<sent, flips, hp_meter_data>>,
             pc \notin {"meter", "threw"} \/ pc' \in {"meter", "threw"}
      PROVE  DataInv'
  BY <1>2, Zenon DEF DataInv
<1>3. CASE MeterDivides \/ TextByte \/ ReadCrc \/ XorByte \/ ShiftBit
             \/ Compare \/ GetLine \/ LinesDone
  <2>1. /\ UNCHANGED <<sent, flips, hp_meter_data>>
        /\ pc \notin {"meter", "threw"} \/ pc' \in {"meter", "threw"}
    BY <1>3, Zenon DEF MeterDivides, TextByte, ReadCrc, XorByte, ShiftBit,
         Compare, GetLine, LinesDone, meterVars, messageVars
  <2> QED
    BY <1>2, <2>1
<1>4. CASE UNCHANGED vars
  BY <1>4, Zenon DEF DataInv, vars, meterVars, messageVars
<1> QED
  BY <1>1, <1>3, <1>4 DEF Next

\* No verdict at first.
LEMMA InitVerdict == Init => VerdictInv
BY DEF Init, VerdictInv

\* Every step keeps what is said of the verdict.
LEMMA NextVerdict == TypeOK /\ VerdictInv /\ [Next]_vars => VerdictInv'
<1> SUFFICES ASSUME TypeOK, VerdictInv, [Next]_vars PROVE VerdictInv'
  OBVIOUS
<1>1. CASE MeterDivides \/ TextByte
  <2>1. pc' \in {"meter", "text"}
    BY <1>1, Zenon DEF MeterDivides, TextByte
  <2> QED
    BY <2>1 DEF VerdictInv
<1>2. CASE Construct
  <2>1. \/ pc' = "text"
        \/ /\ pc' = "threw"
           /\ \E raw \in Seq(Byte) : hp_meter_data' = SubSeq(raw, 1, 0)
    <3>1. PICK places, text :
          /\ Receive(places, text) /\ text \in Seq(Byte)
      <4>1. CASE \E places \in Flips[sent] : Receive(places, Hex(Remainder))
        BY <4>1, HexType
      <4>2. CASE \E text \in Garbled[sent] : Receive({}, text)
        BY <4>2, TransmissionAssumption DEF TypeOK
      <4> QED
        BY <1>2, <4>1, <4>2 DEF Construct
    <3>2. raw_hp_message' \in Seq(Byte)
      BY <3>1, BodyType, FlippedType, ConcatProperties, Zenon DEF Receive
    <3> QED
      BY <3>1, <3>2, Zenon DEF Receive
  <2>2. pc' = "threw" => Len(hp_meter_data') = 0
    <3>1. \A raw \in Seq(Byte) : Len(SubSeq(raw, 1, 0)) = 0
      BY SMT
    <3> QED
      BY <2>1, <3>1
  <2> QED
    BY <2>1, <2>2 DEF VerdictInv
<1>3. CASE ReadCrc
  <2>1. /\ pc' \in {"byte", "threw"} /\ crc_string' = crc_string
        /\ pc' = "threw" => ~Stoi(crc_string).ok
        /\ pc' = "byte" => /\ Stoi(crc_string).ok
                           /\ transmitted_crc' = Cast16(Stoi(crc_string).value)
    BY <1>3, Zenon DEF ReadCrc
  <2> QED
    BY <2>1, Zenon DEF VerdictInv
<1>4. CASE XorByte \/ ShiftBit
  <2>1. /\ pc \in {"byte", "bit"} /\ pc' \in {"byte", "bit"}
        /\ UNCHANGED <<crc_string, transmitted_crc>>
    BY <1>4, Zenon DEF XorByte, ShiftBit
  <2> QED
    BY <2>1, Zenon DEF VerdictInv
<1>5. CASE Compare
  <2>1. /\ pc = "byte" /\ UNCHANGED <<crc_string, transmitted_crc, calculated_crc>>
        /\ pc' = IF Accepted THEN "lines" ELSE "rejected"
    BY <1>5 DEF Compare, crcVars
  <2>2. Accepted' <=> Accepted
    BY <2>1 DEF Accepted
  <2> QED
    BY <2>1, <2>2, Zenon DEF VerdictInv
<1>6. CASE GetLine \/ LinesDone
  <2>1. /\ pc = "lines" /\ pc' \in {"lines", "parser"}
        /\ UNCHANGED <<crc_string, transmitted_crc, calculated_crc>>
    BY <1>6, Zenon DEF GetLine, LinesDone, crcVars
  <2>2. Accepted' <=> Accepted
    BY <2>1 DEF Accepted
  <2> QED
    BY <2>1, <2>2, Zenon DEF VerdictInv
<1>7. CASE UNCHANGED vars
  BY <1>7, Zenon DEF VerdictInv, Accepted, vars, messageVars, crcVars
<1> QED
  BY <1>1, <1>2, <1>3, <1>4, <1>5, <1>6, <1>7 DEF Next

\* No lines at first.
LEMMA InitLines == Init => LinesInv
BY DEF Init, LinesInv, Last

\* Every step keeps what is said of the lines.
LEMMA NextLines == TypeOK /\ DataInv /\ LinesInv /\ [Next]_vars => LinesInv'
<1> SUFFICES ASSUME TypeOK, DataInv, LinesInv, [Next]_vars PROVE LinesInv'
  OBVIOUS
<1> DEFINE n == Len(hp_meter_data)
<1>1. ASSUME str_arr = <<>>, UNCHANGED lineVars,
             pc' # "parser"
      PROVE  LinesInv'
  BY <1>1 DEF LinesInv, lineVars
<1>2. CASE MeterDivides \/ Construct \/ TextByte \/ ReadCrc \/ XorByte
             \/ ShiftBit \/ Compare
  <2>1. pc \notin {"lines", "parser"} /\ pc' # "parser" /\ UNCHANGED lineVars
    BY <1>2, Zenon DEF MeterDivides, Construct, Receive, TextByte, ReadCrc,
                       XorByte, ShiftBit, Compare
  <2> QED
    BY <1>1, <2>1 DEF LinesInv
<1>3. ASSUME UNCHANGED <<hp_meter_data, str_arr, from>>,
             pc' \notin {"lines", "parser"} => str_arr = <<>>,
             pc' = "parser" => Last(from) = n + 2
      PROVE  LinesInv'
  BY <1>3, Zenon DEF LinesInv, LineCut
<1>4. CASE LinesDone
  <2>1. /\ UNCHANGED <<hp_meter_data, str_arr, from>> /\ pc' = "parser"
        /\ pc = "lines"
        /\ \A e \in Last(from)..n : ~LineEnds(hp_meter_data, e)
    BY <1>4 DEF LinesDone, messageVars, lineVars
  <2>2. n \in Nat /\ n > 0 /\ hp_meter_data[n] = Bang
    BY <2>1, LenProperties DEF DataInv, TypeOK
  <2>3. Last(from) \in Nat \ {0} /\ LineEnds(hp_meter_data, n)
    BY SMT DEF TypeOK, Last, LineEnds
  <2>4. Last(from) > n
    BY <2>1, <2>2, <2>3, SMT
  <2>5. Len(str_arr) > 0
    <3>1. ASSUME Len(str_arr) = 0 PROVE FALSE
      <4>1. Last(from) = 1
        BY <3>1, SMT DEF TypeOK, LinesInv, Last
      <4> QED
        BY <2>2, <2>4, <4>1, SMT
    <3> QED
      BY <3>1, SMT DEF TypeOK
  <2>6. Last(from) = n + 2
    <3>1. ASSUME Last(from) <= n + 1, hp_meter_data[Last(from) - 1] = 10
          PROVE  FALSE
      <4>1. Last(from) - 1 = n
        BY <2>2, <2>3, <2>4, <3>1, SMT
      <4> QED
        BY <2>2, <3>1, <4>1, SMT DEF Bang
    <3> QED
      BY <2>5, <3>1 DEF LinesInv
  <2> QED
    BY <1>3, <2>1, <2>6
<1>5. CASE GetLine
  <2>1. PICK e \in Last(from)..n :
          /\ LineEnds(hp_meter_data, e) /\ LineTo(e)
          /\ \A k \in Last(from)..e - 1 : ~LineEnds(hp_meter_data, k)
    BY <1>5 DEF GetLine
  <2>2. hp_meter_data' = hp_meter_data /\ pc' = "lines"
    BY <1>5 DEF GetLine, messageVars
  <2>3. Last(from) \in Nat \ {0} /\ n \in Nat /\ e \in Nat
    BY SMT DEF TypeOK, Last
  <2>4. PICK d \in {e - 1, e} :
          /\ str_arr' = Append(str_arr, SubSeq(hp_meter_data, Last(from), d))
          /\ from' = Append(from, d + 2)
          /\ hp_meter_data[e] = 10 <=> d = e - 1
    <3>1. (e - 1) + 2 = e + 1
      BY <2>3, SMT
    <3>2. e - 1 # e
      BY <2>3, SMT
    <3>3. CASE hp_meter_data[e] = 10
      BY <2>1, <3>1, <3>2, <3>3, Zenon DEF LineTo
    <3>4. CASE hp_meter_data[e] # 10
      BY <2>1, <3>2, <3>4, Zenon DEF LineTo
    <3> QED
      BY <3>3, <3>4
  <2> DEFINE line == SubSeq(hp_meter_data, Last(from), d)
             m == Len(str_arr)
  <2>5. m \in Nat /\ DOMAIN str_arr = 1..m /\ Len(from) = m + 1
    BY LenProperties DEF TypeOK
  <2>6. 10 \notin Range(line)
    <3>1. \A k \in Last(from)..d : hp_meter_data[k] # 10
      BY <2>1, <2>3, <2>4, SMT DEF LineEnds
    <3>2. Last(from) \in 1..n + 1 /\ d \in Last(from) - 1..n
      BY <2>1, <2>3, SMT
    <3>3. hp_meter_data \in Seq(Byte)
      BY DEF TypeOK
    <3>4. \A k \in DOMAIN line : \E q \in Last(from)..d : line[k] = hp_meter_data[q]
      BY <3>2, <3>3, LineBytes
    <3> HIDE DEF line
    <3>5. \A k \in DOMAIN line : line[k] # 10
      BY <3>1, <3>4
    <3> QED
      BY <3>5, Zenon DEF Range
  <2> HIDE DEF line
  <2>7. /\ Len(str_arr') = m + 1 /\ str_arr'[m + 1] = line
        /\ \A k \in 1..m : str_arr'[k] = str_arr[k]
        /\ DOMAIN str_arr' = 1..m + 1
    <3>1. str_arr' = Append(str_arr, line)
      BY <2>4 DEF line
    <3>2. str_arr \in Seq(Seq(Byte))
      BY DEF TypeOK
    <3> QED
      BY <2>5, <3>1, <3>2, SMT
  <2>8. /\ Len(from') = m + 2 /\ from'[m + 2] = d + 2
        /\ \A k \in 1..m + 1 : from'[k] = from[k]
        /\ Last(from') = d + 2 /\ Last(from) = from[m + 1]
    <3>1. from \in Seq(Nat \ {0})
      BY DEF TypeOK
    <3>2. /\ Len(from') = m + 2 /\ from'[m + 2] = d + 2
          /\ \A k \in 1..m + 1 : from'[k] = from[k]
      BY <2>4, <2>5, <3>1, SMT
    <3>3. Last(from') = from'[Len(from')] /\ Last(from) = from[Len(from)]
      BY DEF Last
    <3> QED
      BY <2>5, <3>2, <3>3
  <2> DEFINE Cut(k) ==
               /\ str_arr'[k] = SubSeq(hp_meter_data', from'[k], from'[k + 1] - 2)
               /\ 10 \notin Range(str_arr'[k])
               /\ k > 1 => hp_meter_data'[from'[k] - 1] = 10
  <2>9. ASSUME NEW k \in 1..m PROVE Cut(k)
    <3>1. LineCut(k)
      BY <2>5 DEF LinesInv
    <3>2. str_arr'[k] = str_arr[k] /\ from'[k] = from[k] /\ from'[k + 1] = from[k + 1]
      BY <2>5, <2>7, <2>8, SMT
    <3> QED
      BY <2>2, <3>1, <3>2 DEF LineCut
  <2>10. Cut(m + 1)
    <3>1. from'[m + 1] = Last(from) /\ from'[(m + 1) + 1] - 2 = d
      BY <2>3, <2>5, <2>8, SMT
    <3>2. str_arr'[m + 1] = SubSeq(hp_meter_data', from'[m + 1], from'[(m + 1) + 1] - 2)
      BY <2>2, <2>7, <3>1 DEF line
    <3>3. m + 1 > 1 => hp_meter_data[Last(from) - 1] = 10
      <4>1. Last(from) <= n
        BY <2>1, <2>3, SMT
      <4>2. m + 1 > 1 => m > 0
        BY <2>5, SMT
      <4>3. Last(from) # n + 2
        BY <2>3, <4>1, SMT
      <4> QED
        BY <4>2, <4>3 DEF LinesInv
    <3> QED
      BY <2>2, <2>6, <2>7, <3>1, <3>2, <3>3
  <2>11. \A k \in DOMAIN str_arr' : LineCut(k)'
    <3>1. \A k \in 1..m + 1 : k \in 1..m \/ k = m + 1
      BY <2>5, SMT
    <3>2. \A k \in DOMAIN str_arr' : Cut(k)
      <4> HIDE DEF Cut
      <4> QED
        BY <2>7, <2>9, <2>10, <3>1
    <3> QED
      BY <3>2 DEF LineCut
  <2>12. from'[1] = 1
    BY <2>5, <2>8, SMT DEF LinesInv
  <2>13. \/ Last(from') <= n + 1 /\ hp_meter_data[Last(from') - 1] = 10
         \/ Last(from') = n + 2
    BY <2>1, <2>3, <2>4, <2>8, SMT DEF LineEnds
  <2> QED
    BY <2>2, <2>11, <2>12, <2>13 DEF LinesInv
<1>6. CASE UNCHANGED vars
  BY <1>6, Zenon DEF LinesInv, LineCut, vars, messageVars, lineVars
<1> QED
  BY <1>2, <1>4, <1>5, <1>6 DEF Next

-----------------------------------------------------------------------------
(* The theorems.                                                           *)

\* The invariant holds after every step (hpMessageValidator.cpp:14-94).
THEOREM Inductive == Spec => []IInv
<1>1. Init => IInv
  BY InitTypes, InitMeter, InitCrc, InitData, InitVerdict, InitLines DEF IInv
<1>2. IInv /\ [Next]_vars => IInv'
  BY NextTypes, NextMeter, NextCrc, NextData, NextVerdict, NextLines DEF IInv
<1> QED
  BY <1>1, <1>2, PTL DEF Spec

\* The shifting loop computes the CRC-16 of the data
\* (hpMessageValidator.cpp:65-79).
THEOREM RemainderCorrect == Spec => []CrcIsRemainder
<1>1. IInv => CrcIsRemainder
  BY DEF IInv, CrcInv, Divided, CrcIsRemainder
<1> QED
  BY <1>1, Inductive, PTL

\* The lines handed to the parser are the data, to the last byte
\* (hpMessageValidator.cpp:82-94).
THEOREM LinesCorrect == Spec => []LinesRejoin
<1>1. IInv => LinesRejoin
  <2> SUFFICES ASSUME IInv PROVE LinesRejoin
    OBVIOUS
  <2>1. /\ \A k \in DOMAIN str_arr : LineCut(k)
        /\ from[1] = 1
    BY DEF IInv, LinesInv
  <2>2. ASSUME pc = "parser"
        PROVE  str_arr # <<>>
               /\ from[Len(str_arr) + 1] = Len(hp_meter_data) + 2
    <3>1. Last(from) = from[Len(str_arr) + 1] /\ Len(hp_meter_data) \in Nat
      BY LenProperties DEF IInv, TypeOK, Last
    <3>2. Last(from) = Len(hp_meter_data) + 2
      BY <2>2 DEF IInv, LinesInv
    <3>3. str_arr = <<>> => from[Len(str_arr) + 1] = 1
      BY <2>1, SMT
    <3> QED
      BY <3>1, <3>2, <3>3, SMT
  <2> QED
    BY <2>1, <2>2 DEF LinesRejoin, LineCut
<1> QED
  BY <1>1, Inductive, PTL

\* Two words that are moved to the same places are the same.
LEMMA MovedBack ==
  ASSUME NEW n \in Nat, NEW r \in SUBSET (n..n + 15)
  PROVE  /\ {t - n : t \in r} \in SUBSET (0..15)
         /\ Moved({t - n : t \in r}, n) = r
<1>1. \A t \in r : t - n \in 0..15 /\ (t - n) + n = t
  BY SMT
<1> DEFINE w == {t - n : t \in r}
<1>2. w \in SUBSET (0..15)
  BY <1>1
<1>3. \A x : x \in Moved(w, n) <=> x \in r
  <2>1. \A x : x \in Moved(w, n) <=> \E t \in r : x = (t - n) + n
    BY Zenon DEF Moved
  <2>2. \A t \in r : (t - n) + n = t
    BY <1>1
  <2> HIDE DEF w
  <2>3. ASSUME NEW x PROVE x \in Moved(w, n) <=> x \in r
    <3>1. ASSUME x \in Moved(w, n) PROVE x \in r
      <4>1. PICK t \in r : x = (t - n) + n
        BY <2>1, <3>1
      <4> QED
        BY <2>2, <4>1
    <3>2. ASSUME x \in r PROVE x \in Moved(w, n)
      <4>1. x = (x - n) + n
        BY <2>2, <3>2
      <4> QED
        BY <2>1, <3>2, <4>1
    <3> QED
      BY <3>1, <3>2
  <2> QED
    BY <2>3
<1> QED
  BY <1>2, <1>3

\* A word moved to its places and back.
LEMMA MovedWord ==
  ASSUME NEW n \in Nat, NEW w \in SUBSET (0..15)
  PROVE  /\ Moved(w, n) \in SUBSET (n..n + 15)
         /\ {t - n : t \in Moved(w, n)} = w
<1>1. \A k \in w : k + n \in n..n + 15 /\ (k + n) - n = k
  BY SMT
<1>2. Moved(w, n) \in SUBSET (n..n + 15)
  BY <1>1 DEF Moved
<1>3. \A x : x \in {t - n : t \in Moved(w, n)} <=> x \in w
  <2>1. ASSUME NEW x \in {t - n : t \in Moved(w, n)} PROVE x \in w
    <3>1. PICK k \in w : x = (k + n) - n
      BY Zenon DEF Moved
    <3> QED
      BY <1>1, <3>1
  <2>2. ASSUME NEW x \in w PROVE x \in {t - n : t \in Moved(w, n)}
    <3>1. x + n \in Moved(w, n) /\ (x + n) - n = x
      BY <1>1, Zenon DEF Moved
    <3> QED
      BY <3>1
  <2> QED
    BY <2>1, <2>2, Zenon
<1> QED
  BY <1>2, <1>3

\* Quotients of the same degree whose products differ within 16 places behind
\* them are the same.
LEMMA DivisionUnique ==
  ASSUME NEW n \in Nat, NEW q \in SUBSET (0..n - 1),
         Times(q) \subseteq n..n + 15
  PROVE  q = {}
<1> SUFFICES ASSUME q # {} PROVE FALSE
  OBVIOUS
<1>1. PICK a \in Times(q) : a \in q
  BY TimesSpan
<1>2. a \in 0..n - 1 /\ a \in n..n + 15
  BY <1>1
<1> QED
  BY <1>2, SMT

\* The remainders differ exactly after a disturbance.
LEMMA BurstFound ==
  ASSUME IInv, pc \in {"lines", "parser", "rejected"},
         Len(hp_meter_data) = Len(sent)
  PROVE  calculated_crc = Remainder <=> flips = {}
<1> DEFINE n == 8 * Len(sent)
           q == SymDiff(quotient, divided)
           crc == Moved(calculated_crc, n)
<1>1. /\ n \in Nat /\ Len(sent) \in Nat
      /\ rest \in SUBSET (n..n + 15) /\ calculated_crc \in SUBSET (0..15)
      /\ divided \in SUBSET (0..n - 1) /\ quotient \in SUBSET (0..n - 1)
  <2>1. n \in Nat /\ Len(sent) \in Nat
    BY BodyType, SMT DEF IInv
  <2> QED
    BY <2>1 DEF IInv, TypeOK, MeterInv, CrcInv, Divided
<1>2. /\ SymDiff(Ones(sent, Len(sent)), rest) = Times(divided)
      /\ SymDiff(Ones(hp_meter_data, Len(sent)), crc) = Times(quotient)
  BY DEF IInv, MeterInv, CrcInv, Divided
<1>3. Ones(hp_meter_data, Len(sent)) = SymDiff(Ones(sent, Len(sent)), flips)
  <2>1. hp_meter_data = Flipped(sent, flips)
    BY DEF IInv, DataInv
  <2>2. DOMAIN sent = 1..Len(sent) /\ flips \in SUBSET (0..8 * Len(sent) - 1)
    BY BodyType DEF IInv, TypeOK
  <2> QED
    BY <1>1, <2>1, <2>2, OnesFlipped
<1>4. crc \in SUBSET (n..n + 15) /\ {t - n : t \in crc} = calculated_crc
  BY <1>1, MovedWord
<1>5. q \in SUBSET (0..n - 1) /\ quotient \in SUBSET Int /\ divided \in SUBSET Int
  BY <1>1, SMT DEF SymDiff
<1>6. Times(q) = SymDiff(Times(quotient), Times(divided))
  BY <1>5, TimesSum
<1> HIDE DEF n, q, crc
<1>7. Times(q) = SymDiff(flips, SymDiff(crc, rest))
  <2> DEFINE o == Ones(sent, Len(sent))
  <2>1. Times(q) = SymDiff(SymDiff(SymDiff(o, flips), crc), SymDiff(o, rest))
    BY <1>2, <1>3, <1>6
  <2> HIDE DEF o
  <2>2. \A x : x \in SymDiff(SymDiff(SymDiff(o, flips), crc), SymDiff(o, rest))
                 <=> x \in SymDiff(flips, SymDiff(crc, rest))
    <3> SUFFICES ASSUME NEW x
                 PROVE  x \in SymDiff(SymDiff(SymDiff(o, flips), crc), SymDiff(o, rest))
                          <=> x \in SymDiff(flips, SymDiff(crc, rest))
      OBVIOUS
    <3>1. x \in SymDiff(o, flips) <=> ~(x \in o <=> x \in flips)
      BY SymDiffIn
    <3>2. x \in SymDiff(SymDiff(o, flips), crc) <=> ~(x \in SymDiff(o, flips) <=> x \in crc)
      BY SymDiffIn
    <3>3. x \in SymDiff(o, rest) <=> ~(x \in o <=> x \in rest)
      BY SymDiffIn
    <3>4. x \in SymDiff(crc, rest) <=> ~(x \in crc <=> x \in rest)
      BY SymDiffIn
    <3>5. x \in SymDiff(flips, SymDiff(crc, rest)) <=> ~(x \in flips <=> x \in SymDiff(crc, rest))
      BY SymDiffIn
    <3>6. x \in SymDiff(SymDiff(SymDiff(o, flips), crc), SymDiff(o, rest))
            <=> ~(x \in SymDiff(SymDiff(o, flips), crc) <=> x \in SymDiff(o, rest))
      BY SymDiffIn
    <3> QED
      BY <3>1, <3>2, <3>3, <3>4, <3>5, <3>6
  <2>3. SymDiff(SymDiff(SymDiff(o, flips), crc), SymDiff(o, rest))
          = SymDiff(flips, SymDiff(crc, rest))
    BY <2>2, Zenon DEF SymDiff
  <2> QED
    BY <2>1, <2>3
<1>8. calculated_crc = Remainder <=> crc = rest
  <2>1. Remainder = {t - n : t \in rest}
    BY DEF Remainder, n
  <2>2. Moved(Remainder, n) = rest
    BY <1>1, <2>1, MovedBack
  <2> QED
    BY <1>4, <2>1, <2>2 DEF crc
<1>9. ASSUME flips = {} PROVE crc = rest
  <2>1. Times(q) = SymDiff(crc, rest)
    BY <1>7, <1>9, SymDiffNone
  <2>2. SymDiff(crc, rest) \subseteq n..n + 15
    BY <1>1, <1>4, Zenon DEF SymDiff
  <2>3. q = {}
    BY <1>1, <1>5, <2>1, <2>2, DivisionUnique
  <2>4. SymDiff(crc, rest) = {}
    BY <2>1, <2>3, TimesNone
  <2>5. \A x : x \in crc <=> x \in rest
    BY <2>4, SymDiffIn
  <2> QED
    BY <2>5
<1>10. ASSUME crc = rest PROVE flips = {}
  <2>1. Times(q) = flips
    BY <1>7, <1>10, SymDiffNone
  <2> SUFFICES ASSUME q # {} PROVE FALSE
    BY <2>1, TimesNone
  <2>2. PICK a, b \in Times(q) : b - a >= 16
    BY <1>1, <1>5, TimesSpan
  <2>3. b - a <= 15
    BY <2>1, <2>2 DEF IInv, DataInv
  <2>4. a \in Int /\ b \in Int
    BY <1>5, <2>2, TimesType, SMT
  <2> QED
    BY <2>2, <2>3, <2>4, SMT
<1> QED
  BY <1>8, <1>9, <1>10

\* A telegram that arrives with its CRC text is accepted, and after a
\* disturbance of up to 16 successive bits rejected
\* (hpMessageValidator.cpp:14-79).
THEOREM BurstsCorrect == Spec => []BurstsRejected
<1>1. IInv => BurstsRejected
  <2> SUFFICES ASSUME IInv, pc \in {"lines", "parser", "rejected", "threw"},
                      Len(hp_meter_data) = Len(sent),
                      crc_string = Hex(Remainder)
               PROVE  pc \in {"lines", "parser"} <=> flips = {}
    BY DEF BurstsRejected
  <2>1. Stoi(crc_string).ok /\ Stoi(crc_string).value = Number(Remainder)
    BY StoiHex
  <2>2. Len(hp_meter_data) # 0
    BY BodyType, SMT DEF IInv
  <2>3. pc # "threw"
    BY <2>1, <2>2 DEF IInv, VerdictInv
  <2>4. transmitted_crc = Number(Remainder)
    <3>1. \A n \in Int : 0 <= n /\ n <= 65535 => Cast16(n) = n
      BY SMT DEF Cast16
    <3>2. transmitted_crc = Cast16(Stoi(crc_string).value)
      BY <2>3, Zenon DEF IInv, VerdictInv
    <3> QED
      BY <2>1, <3>1, <3>2, NumberType
  <2>5. Remainder \in SUBSET (0..15) /\ calculated_crc \in SUBSET (0..15)
    <3>1. 8 * Len(sent) \in Nat /\ rest \in SUBSET (8 * Len(sent)..8 * Len(sent) + 15)
      BY BodyType, SMT DEF IInv, MeterInv
    <3> QED
      BY <3>1, MovedBack DEF Remainder, IInv, TypeOK
  <2>6. Accepted <=> calculated_crc = Remainder
    BY <2>4, <2>5, NumberInjective DEF Accepted
  <2>7. pc \in {"lines", "parser"} <=> Accepted
    BY <2>3, Zenon DEF IInv, VerdictInv
  <2> QED
    BY <2>3, <2>6, <2>7, BurstFound
<1> QED
  BY <1>1, Inductive, PTL

-----------------------------------------------------------------------------
(* The number that a CRC text denotes.                                     *)

\* A prefix is two bytes or none.
LEMMA PrefixIs ==
  ASSUME NEW text \in Seq(Byte), NEW k \in 1..Len(text) + 1,
         NEW c, c = PrefixSkipped(text, k)
  PROVE  /\ c = k \/ c = k + 2
         /\ c = k + 2 <=> /\ k + 2 <= Len(text) /\ text[k] = 48
                          /\ text[k + 1] \in {88, 120} /\ IsHex(text[k + 2])
<1>1. DOMAIN text = 1..Len(text) /\ Len(text) \in Nat /\ k \in Nat
  BY LenProperties
<1>2. ~IsHex(0)
  BY SMT DEF IsHex, HexValue, NoDigit
<1>3. IsHex(ByteAt(text, k + 2)) <=> k + 2 <= Len(text) /\ IsHex(text[k + 2])
  BY <1>1, <1>2, SMT DEF ByteAt
<1>4. k + 2 <= Len(text) => /\ ByteAt(text, k) = text[k]
                            /\ ByteAt(text, k + 1) = text[k + 1]
  BY <1>1, SMT DEF ByteAt
<1>5. k # k + 2
  BY <1>1, SMT
<1> QED
  BY <1>3, <1>4, <1>5 DEF PrefixSkipped

\* Where stoi finds the parts of a number: the first byte behind the blanks,
\* behind the sign and behind the prefix, and the first that is no digit.
Parts(text, a, b, c, e) ==
  /\ a \in 1..Len(text) + 1 /\ b \in a..Len(text) + 1
  /\ c \in b..Len(text) + 1 /\ e \in c..Len(text) + 1
  /\ \A m \in 1..a - 1 : IsSpace(text[m])
  /\ a <= Len(text) => ~IsSpace(text[a])
  /\ b = a \/ b = a + 1
  /\ b = a + 1 <=> a <= Len(text) /\ text[a] \in {43, 45}
  /\ c = b \/ c = b + 2
  /\ c = b + 2 <=> /\ b + 2 <= Len(text) /\ text[b] = 48
                   /\ text[b + 1] \in {88, 120} /\ IsHex(text[b + 2])
  /\ \A m \in c..e - 1 : IsHex(text[m])
  /\ e <= Len(text) => ~IsHex(text[e])

\* stoi takes the text apart.
LEMMA StoiParts ==
  ASSUME NEW text \in Seq(Byte)
  PROVE  \E a, b, c, e :
           /\ Parts(text, a, b, c, e)
           /\ Stoi(text).ok <=> e # c
           /\ Stoi(text).value = IF b = a + 1 /\ text[a] = 45
                                 THEN -HexNumber(SubSeq(text, c, e - 1))
                                 ELSE HexNumber(SubSeq(text, c, e - 1))
<1>1. DOMAIN text = 1..Len(text) /\ Len(text) \in Nat
  BY LenProperties
<1>2. PICK a, b, c, e :
        /\ a = FirstNoSpace(text, 1)
        /\ b = IF ByteAt(text, a) \in {43, 45} THEN a + 1 ELSE a
        /\ c = PrefixSkipped(text, b)
        /\ e = FirstNoDigit(text, c)
  OBVIOUS
<1>3. /\ a \in 1..Len(text) + 1
      /\ \A m \in 1..a - 1 : IsSpace(text[m])
      /\ a <= Len(text) => ~IsSpace(text[a])
  <2>1. 1 \in 1..Len(text) + 1
    BY <1>1, SMT
  <2> QED
    BY <1>1, <1>2, <2>1, SpacesFirst
<1>4. ByteAt(text, a) \in {43, 45} <=> a <= Len(text) /\ text[a] \in {43, 45}
  BY <1>1, <1>3, SMT DEF ByteAt
<1>5. /\ b \in a..Len(text) + 1 /\ (b = a \/ b = a + 1)
      /\ b = a + 1 <=> a <= Len(text) /\ text[a] \in {43, 45}
      /\ b \in 1..Len(text) + 1
  BY <1>1, <1>2, <1>3, <1>4, SMT
<1>6. /\ c = b \/ c = b + 2
      /\ c = b + 2 <=> /\ b + 2 <= Len(text) /\ text[b] = 48
                       /\ text[b + 1] \in {88, 120} /\ IsHex(text[b + 2])
  BY <1>2, <1>5, PrefixIs
<1>7. c \in b..Len(text) + 1 /\ c \in 1..Len(text) + 1
  BY <1>1, <1>3, <1>5, <1>6, SMT
<1>8. /\ e \in c..Len(text) + 1
      /\ \A m \in c..e - 1 : IsHex(text[m])
      /\ e <= Len(text) => ~IsHex(text[e])
  BY <1>1, <1>2, <1>7, DigitsFirst, ZenonT(30)
<1>9. Parts(text, a, b, c, e)
  BY <1>3, <1>5, <1>6, <1>7, <1>8 DEF Parts
<1>10. c = PrefixSkipped(text,
               IF ByteAt(text, a) \in {43, 45} THEN a + 1 ELSE a)
  BY <1>2
<1>11. ByteAt(text, a) \in {43, 45} <=> b = a + 1
  BY <1>4, <1>5
<1>12. /\ Stoi(text).ok <=> e # c
       /\ Stoi(text).value =
              IF ByteAt(text, a) \in {43, 45} /\ text[a] = 45
              THEN -HexNumber(SubSeq(text, c, e - 1))
              ELSE HexNumber(SubSeq(text, c, e - 1))
  BY <1>2, <1>10, StoiIs
<1> QED
  BY <1>9, <1>11, <1>12

\* There is at most one way to split a text, but for the prefix.
LEMMA SplitUnique ==
  ASSUME NEW text \in Seq(Byte), NEW a, NEW b, NEW c, NEW e,
         Parts(text, a, b, c, e),
         NEW p \in Nat, NEW q, NEW r, NEW d \in 1..Len(text),
         q = p \/ q = p + 1, r = q \/ r = q + 2, d > r,
         Splits(text, p, q, r, d)
  PROVE  /\ p = a - 1 /\ q = b - 1 /\ r <= c - 1 /\ e # c
         /\ r = c - 1 => d = e - 1
<1>1. /\ Len(text) \in Nat /\ a \in Nat /\ b \in Nat /\ c \in Nat /\ e \in Nat
      /\ p \in Nat /\ q \in Nat /\ r \in Nat /\ d \in Nat
  <2>1. /\ a \in 1..Len(text) + 1 /\ b \in a..Len(text) + 1
        /\ c \in b..Len(text) + 1 /\ e \in c..Len(text) + 1
    BY DEF Parts
  <2>2. Len(text) \in Nat
    BY LenProperties
  <2> HIDE DEF Splits, Parts
  <2> QED
    BY <2>1, <2>2, SMT
<1>2. p = a - 1
  <2>1. p + 1 <= Len(text)
    BY <1>1, SMT
  <2>2. ~(p + 1 < a)
    BY <1>1, <2>1, SMT DEF Splits, Parts
  <2>3. ~(p + 1 > a)
    BY <1>1, <2>1, SMT DEF Splits, Parts
  <2> QED
    BY <1>1, <2>2, <2>3, SMT
<1>3. q = b - 1
  <2>1. a = p + 1 /\ a <= Len(text)
    BY <1>1, <1>2, SMT
  <2>2. CASE q = p
    <3>1. text[a] \notin {43, 45}
      BY <2>1, <2>2, SMT DEF Splits
    <3>2. b = a
      BY <1>1, <3>1, SMT DEF Parts
    <3> QED
      BY <1>1, <2>1, <2>2, <3>2, SMT
  <2>3. CASE q = p + 1
    <3>1. text[a] \in {43, 45}
      BY <1>1, <2>1, <2>3, SMT DEF Splits
    <3>2. b = a + 1
      BY <1>1, <2>1, <3>1, SMT DEF Parts
    <3> QED
      BY <1>1, <2>1, <2>3, <3>2, SMT
  <2> QED
    BY <2>2, <2>3
<1>4. r = q + 2 => c = b + 2
  <2> SUFFICES ASSUME r = q + 2 PROVE c = b + 2
    OBVIOUS
  <2>1. q + 1 = b /\ q + 2 = b + 1 /\ r + 1 = b + 2 /\ b + 2 <= Len(text)
    BY <1>1, <1>3, SMT
  <2>2. text[b] = 48 /\ text[b + 1] \in {88, 120} /\ IsHex(text[b + 2])
    BY <1>1, <2>1, SMT DEF Splits
  <2> QED
    BY <2>1, <2>2 DEF Parts
<1>5. r <= c - 1
  <2>1. c = b \/ c = b + 2
    BY DEF Parts
  <2> QED
    BY <1>1, <1>3, <1>4, <2>1, SMT
<1>6. r = c - 1 => d = e - 1
  <2> SUFFICES ASSUME r = c - 1 PROVE d = e - 1
    OBVIOUS
  <2>1. ~(d + 1 < e)
    BY <1>1, SMT DEF Splits, Parts
  <2>2. ~(d + 1 > e)
    BY <1>1, SMT DEF Splits, Parts
  <2> QED
    BY <1>1, <2>1, <2>2, SMT
<1>7. e # c
  <2>1. CASE r = c - 1
    BY <1>1, <1>6, <2>1, SMT
  <2>2. CASE r # c - 1
    <3>1. c = b + 2
      BY <1>1, <1>3, <1>4, <2>2, SMT DEF Parts
    <3>2. c <= Len(text) /\ IsHex(text[c])
      BY <1>1, <3>1 DEF Parts
    <3> QED
      BY <1>1, <3>2 DEF Parts
  <2> QED
    BY <2>1, <2>2
<1> QED
  BY <1>2, <1>3, <1>5, <1>6, <1>7

\* These parts are a reading of the text.
LEMMA SplitExists ==
  ASSUME NEW text \in Seq(Byte), NEW a, NEW b, NEW c, NEW e,
         Parts(text, a, b, c, e), e # c
  PROVE  Splits(text, a - 1, b - 1, c - 1, e - 1)
<1>1. /\ Len(text) \in Nat /\ a \in Nat /\ b \in Nat /\ c \in Nat /\ e \in Nat
      /\ a <= b /\ b <= c /\ c < e /\ e <= Len(text) + 1
  BY SMT DEF Parts
<1>2. (a - 1) + 1 = a /\ (b - 1) + 1 = b /\ (b - 1) + 2 = b + 1
      /\ (c - 1) + 1 = c /\ (e - 1) + 1 = e
  BY <1>1, SMT
<1>3. a <= Len(text)
  BY <1>1, SMT
<1>4. IF b - 1 = a - 1 THEN text[a] \notin {43, 45} ELSE text[b - 1] \in {43, 45}
  <2>1. CASE b = a
    <3>1. text[a] \notin {43, 45}
      BY <1>1, <1>3, <2>1, SMT DEF Parts
    <3> QED
      BY <2>1, <3>1
  <2>2. CASE b = a + 1
    <3>1. text[a] \in {43, 45} /\ b - 1 = a /\ b - 1 # a - 1
      BY <1>1, <2>2, SMT DEF Parts
    <3> QED
      BY <3>1
  <2> QED
    BY <2>1, <2>2 DEF Parts
<1>5. c - 1 # b - 1 => text[b] = 48 /\ text[b + 1] \in {88, 120}
  BY <1>1, SMT DEF Parts
<1>6. e - 1 < Len(text) => ~IsHex(text[e])
  BY <1>1, SMT DEF Parts
<1> QED
  BY <1>2, <1>3, <1>4, <1>5, <1>6 DEF Splits, Parts

\* A text denotes what stoi returns, and nothing if it throws.
LEMMA Denoted ==
  ASSUME NEW text \in Seq(Byte)
  PROVE  Denotations(text)
           = IF Stoi(text).ok THEN {Stoi(text).value} ELSE {}
<1>1. PICK a, b, c, e :
           /\ Parts(text, a, b, c, e)
           /\ Stoi(text).ok <=> e # c
           /\ Stoi(text).value = IF b = a + 1 /\ text[a] = 45
                                 THEN -HexNumber(SubSeq(text, c, e - 1))
                                 ELSE HexNumber(SubSeq(text, c, e - 1))
  BY StoiParts
<1>2. /\ Len(text) \in Nat /\ a \in Nat /\ b \in Nat /\ c \in Nat /\ e \in Nat
      /\ 1 <= a /\ a <= b /\ b <= c /\ c <= e /\ e <= Len(text) + 1
      /\ b = a \/ b = a + 1
      /\ c = b \/ c = b + 2
  BY <1>1, SMT DEF Parts
<1> DEFINE n == Len(text)
           candidates == {<<p, p + s, p + s + x, d>> :
                            p \in 0..n, s \in 0..1, x \in {0, 2}, d \in 1..n}
           splits == {s \in candidates :
                        s[4] > s[3] /\ Splits(text, s[1], s[2], s[3], s[4])}
           longest == {s \in splits : \A u \in splits : u[3] <= s[3]}
           sign(s) == IF s[2] > s[1] /\ text[s[2]] = 45 THEN -1 ELSE 1
           number(s) == sign(s) * HexNumber(SubSeq(text, s[3] + 1, s[4]))
           found == <<a - 1, b - 1, c - 1, e - 1>>
<1>3. Denotations(text) = {number(s) : s \in longest}
  BY DEF Denotations
<1>4. ASSUME NEW s \in splits
      PROVE  /\ e # c /\ s[3] <= c - 1 /\ s[3] \in Int
             /\ s[3] = c - 1 => s = found
  <2>1. PICK p \in 0..n, o \in 0..1, x \in {0, 2}, d \in 1..n :
          s = <<p, p + o, p + o + x, d>>
    OBVIOUS
  <2>2. PICK q, r : q = p + o /\ r = p + o + x
    OBVIOUS
  <2>3. s = <<p, q, r, d>> /\ d > r /\ Splits(text, p, q, r, d)
    BY <2>1, <2>2
  <2>4. p \in Nat /\ (q = p \/ q = p + 1) /\ (r = q \/ r = q + 2)
    BY <2>2, SMT
  <2> HIDE DEF splits
  <2>5. /\ p = a - 1 /\ q = b - 1 /\ r <= c - 1 /\ e # c
        /\ r = c - 1 => d = e - 1
    BY <1>1, <2>3, <2>4, SplitUnique
  <2>6. s[3] = r /\ r \in Int
    BY <2>3, <2>4, SMT
  <2> QED
    BY <2>3, <2>5, <2>6
<1>5. ASSUME e # c PROVE found \in splits
  <2>1. found \in candidates
    <3>1. PICK p \in 0..n, o \in 0..1, x \in {0, 2}, d \in 1..n :
            /\ a - 1 = p /\ b - 1 = p + o /\ c - 1 = p + o + x /\ e - 1 = d
      <4>1. a - 1 \in 0..n /\ b - a \in 0..1 /\ c - b \in {0, 2} /\ e - 1 \in 1..n
        BY <1>2, <1>5, SMT
      <4>2. b - 1 = (a - 1) + (b - a) /\ c - 1 = (a - 1) + (b - a) + (c - b)
        BY <1>2, SMT
      <4> QED
        BY <4>1, <4>2
    <3> QED
      BY <3>1
  <2>2. e - 1 > c - 1
    BY <1>2, <1>5, SMT
  <2>3. Splits(text, a - 1, b - 1, c - 1, e - 1)
    BY <1>1, <1>5, SplitExists
  <2> QED
    BY <2>1, <2>2, <2>3
<1>6. CASE e = c
  <2>1. longest = {}
    <3> HIDE DEF splits
    <3> QED
      BY <1>4, <1>6
  <2> HIDE DEF longest
  <2>2. Denotations(text) = {}
    BY <1>3, <2>1
  <2> QED
    BY <1>1, <1>6, <2>2
<1>7. CASE e # c
  <2>1. longest = {found}
    <3> HIDE DEF splits, found
    <3>1. found[3] = c - 1 /\ c - 1 \in Int
      BY <1>2, SMT DEF found
    <3>2. found \in longest
      BY <1>4, <1>5, <1>7, <3>1
    <3>3. ASSUME NEW s \in longest PROVE s = found
      <4>1. s \in splits /\ found[3] <= s[3]
        BY <1>5, <1>7, <3>3
      <4>2. s[3] \in Int /\ s[3] <= c - 1 /\ (s[3] = c - 1 => s = found)
        BY <1>4, <4>1
      <4> HIDE DEF longest
      <4> QED
        BY <3>1, <4>1, <4>2, SMT
    <3> HIDE DEF longest
    <3> QED
      BY <3>2, <3>3
  <2> HIDE DEF longest
  <2>2. Denotations(text) = {number(found)}
    <3> HIDE DEF found, number
    <3> QED
      BY <1>3, <2>1
  <2>3. number(found) = Stoi(text).value
    <3>1. /\ found[1] = a - 1 /\ found[2] = b - 1
          /\ found[3] + 1 = c /\ found[4] = e - 1
      BY <1>2, SMT
    <3>2. (b - 1 > a - 1 /\ text[b - 1] = 45) <=> (b = a + 1 /\ text[a] = 45)
      BY <1>2, SMT
    <3> HIDE DEF found
    <3>3. number(found) = (IF b = a + 1 /\ text[a] = 45 THEN -1 ELSE 1)
                             * HexNumber(SubSeq(text, c, e - 1))
      BY <3>1, <3>2
    <3>4. HexNumber(SubSeq(text, c, e - 1)) \in Int
      BY HexNumberType
    <3>5. \A m \in Int : -1 * m = -m /\ 1 * m = m
      BY SMT
    <3> QED
      BY <1>1, <3>3, <3>4, <3>5
  <2> QED
    BY <1>1, <1>7, <2>2, <2>3
<1> QED
  BY <1>6, <1>7

\* The CRC text is read if it starts with a number, and then as that number
\* (hpMessageValidator.cpp:55-62).
THEOREM CrcTextCorrect == Spec => []CrcTextDenotes
<1>1. IInv => CrcTextDenotes
  <2> SUFFICES ASSUME IInv, pc \in {"lines", "rejected", "threw"},
                      hp_meter_data # <<>>
               PROVE  {n % 2^16 : n \in Denotations(crc_string)}
                        = IF pc = "threw" THEN {} ELSE {transmitted_crc}
    BY DEF CrcTextDenotes
  <2>1. Denotations(crc_string)
          = IF Stoi(crc_string).ok THEN {Stoi(crc_string).value} ELSE {}
    BY Denoted DEF IInv, TypeOK
  <2>2. Len(hp_meter_data) # 0
    BY EmptySeq DEF IInv, TypeOK
  <2>3. CASE pc = "threw"
    <3>1. Denotations(crc_string) = {}
      BY <2>1, <2>2, <2>3, Zenon DEF IInv, VerdictInv
    <3> QED
      BY <2>3, <3>1
  <2>4. CASE pc # "threw"
    <3>1. /\ Denotations(crc_string) = {Stoi(crc_string).value}
          /\ transmitted_crc = Cast16(Stoi(crc_string).value)
      BY <2>1, <2>4, Zenon DEF IInv, VerdictInv
    <3> QED
      BY <2>4, <3>1 DEF Cast16
  <2> QED
    BY <2>3, <2>4, Zenon
<1> QED
  BY <1>1, Inductive, PTL
=============================================================================
