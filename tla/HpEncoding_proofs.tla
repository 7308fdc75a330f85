------------------------- MODULE HpEncoding_proofs -------------------------
(***************************************************************************)
(* The encodings of every power a telegram can hold and of every heartbeat *)
(* below 2^31 - 1.  The definitions need the powers of two up to 2^30      *)
(* only; they are named, Pow, and their values are the facts of            *)
(* PowersOfTwo.                                                            *)
(***************************************************************************)
EXTENDS HpEncoding, TLAPS

Pow(k) == 2^k

\* The powers of two that the definitions need.
LEMMA PowersOfTwo ==
  /\ Pow(0) = 1 /\ Pow(1) = 2 /\ Pow(2) = 4 /\ Pow(3) = 8 /\ Pow(4) = 16
  /\ Pow(5) = 32 /\ Pow(6) = 64 /\ Pow(7) = 128 /\ Pow(8) = 256
  /\ Pow(9) = 512 /\ Pow(10) = 1024 /\ Pow(11) = 2048 /\ Pow(12) = 4096
  /\ Pow(13) = 8192 /\ Pow(14) = 16384 /\ Pow(15) = 32768
  /\ Pow(16) = 65536 /\ Pow(17) = 131072 /\ Pow(18) = 262144
  /\ Pow(19) = 524288 /\ Pow(20) = 1048576 /\ Pow(21) = 2097152
  /\ Pow(22) = 4194304 /\ Pow(23) = 8388608 /\ Pow(24) = 16777216
  /\ Pow(25) = 33554432 /\ Pow(26) = 67108864 /\ Pow(27) = 134217728
  /\ Pow(28) = 268435456 /\ Pow(29) = 536870912 /\ Pow(30) = 1073741824
BY SMT DEF Pow

\* The next power is twice as large.
LEMMA Doubles ==
  ASSUME NEW k \in 0..29
  PROVE  Pow(k) \in Nat /\ Pow(k + 1) = 2 * Pow(k) /\ Pow(k) >= 1
BY PowersOfTwo, SMT

\* A quotient from its bounds.
LEMMA DivBetween ==
  ASSUME NEW f \in Nat, f > 0, NEW x \in Int, NEW k \in Int,
         k * f <= x, x < (k + 1) * f
  PROVE  x \div f = k
<1>1. PICK q \in Int : q = x \div f
  BY SMT
<1>2. q * f <= x /\ x < q * f + f
  BY <1>1, SMT
<1>3. ~(q < k)
  <2> SUFFICES ASSUME q + 1 <= k PROVE FALSE
    BY SMT
  <2>1. (q + 1) * f <= k * f
    BY SMT
  <2>2. (q + 1) * f = q * f + f
    BY SMT
  <2> QED
    BY <1>2, <2>1, <2>2, SMT
<1>4. ~(q > k)
  <2> SUFFICES ASSUME k + 1 <= q PROVE FALSE
    BY SMT
  <2>1. (k + 1) * f <= q * f
    BY SMT
  <2> QED
    BY <1>2, <2>1, SMT
<1> QED
  BY <1>1, <1>3, <1>4, SMT

\* Powers of two are positive, from the first on even.
LEMMA PowType ==
  \A k \in 0..30 : /\ Pow(k) \in Nat /\ Pow(k) >= 1
                   /\ k >= 1 => Pow(k) >= 2
                   /\ k >= 2 => Pow(k) >= 4
BY PowersOfTwo, SMT

\* The number of binary digits.
LEMMA BitLengthIs ==
  ASSUME NEW m \in Nat, m > 0, m < 2 * Pow(30)
  PROVE  /\ BitLength(m) \in 1..31
         /\ Pow(BitLength(m) - 1) <= m /\ m < 2 * Pow(BitLength(m) - 1)
<1>1. \E l \in 1..31 : Pow(l - 1) <= m /\ m < 2 * Pow(l - 1)
  <2> SUFFICES ASSUME \A l \in 1..31 : ~(Pow(l - 1) <= m /\ m < 2 * Pow(l - 1))
               PROVE  FALSE
    OBVIOUS
  <2>1. \A k \in 0..30 : ~(Pow(k) <= m /\ m < 2 * Pow(k))
    <3>1. \A k \in 0..30 : k + 1 \in 1..31 /\ (k + 1) - 1 = k
      BY SMT
    <3> QED
      BY <3>1
  <2> DEFINE Out(k) == ~(Pow(k) <= m /\ m < 2 * Pow(k))
  <2>2. /\ Out(0) /\ Out(1) /\ Out(2) /\ Out(3) /\ Out(4) /\ Out(5) /\ Out(6)
        /\ Out(7) /\ Out(8) /\ Out(9) /\ Out(10) /\ Out(11) /\ Out(12)
        /\ Out(13) /\ Out(14) /\ Out(15) /\ Out(16) /\ Out(17) /\ Out(18)
        /\ Out(19) /\ Out(20) /\ Out(21) /\ Out(22) /\ Out(23) /\ Out(24)
        /\ Out(25) /\ Out(26) /\ Out(27) /\ Out(28) /\ Out(29) /\ Out(30)
    BY <2>1, SMT
  <2> QED
    BY <2>2, PowersOfTwo, SMT
<1>2. PICK l \in 1..31 : Pow(l - 1) <= m /\ m < 2 * Pow(l - 1)
  BY <1>1
<1>3. m \div Pow(l - 1) = 1
  <2>1. PICK p \in Nat : p = Pow(l - 1) /\ p >= 1
    BY PowType, SMT
  <2> QED
    BY <1>2, <2>1, DivBetween, SMT
<1>4. BitLength(m) \in 1..31 /\ m \div Pow(BitLength(m) - 1) = 1
  BY <1>3 DEF BitLength, Pow
<1>5. PICK k \in 0..30 : k = BitLength(m) - 1
  BY <1>4, SMT
<1>6. PICK p \in Nat : p = Pow(k) /\ p >= 1
  BY PowType
<1>7. m \div p = 1
  BY <1>4, <1>5, <1>6
<1>8. p <= m /\ m < 2 * p
  BY <1>6, <1>7, SMT
<1> QED
  BY <1>4, <1>5, <1>6, <1>8

-----------------------------------------------------------------------------
(* Powers.                                                                 *)

\* A power has up to 24 binary digits.
LEMMA PowerDigits ==
  ASSUME NEW m \in Nat, m > 0, m < 10^7
  PROVE  /\ BitLength(m) \in 1..24
         /\ Pow(BitLength(m) - 1) <= m
<1>1. m < Pow(24)
  BY PowersOfTwo, SMT
<1>2. m < 2 * Pow(30)
  BY <1>1, PowersOfTwo, SMT
<1>3. /\ BitLength(m) \in 1..31
      /\ Pow(BitLength(m) - 1) <= m
  BY <1>2, BitLengthIs
<1>4. \A k \in 24..30 : Pow(24) <= Pow(k)
  BY PowersOfTwo, SMT
<1>5. PICK l \in 1..31 : l = BitLength(m)
  BY <1>3
<1>6. ~(l - 1 >= 24)
  <2> SUFFICES ASSUME l - 1 >= 24 PROVE FALSE
    OBVIOUS
  <2>1. l - 1 \in 24..30
    BY SMT
  <2>2. PICK p \in Nat : p = Pow(l - 1)
    <3>1. l - 1 \in 0..30
      BY SMT
    <3> QED
      BY <3>1, PowType
  <2>3. PICK q \in Nat : q = Pow(24)
    BY PowersOfTwo, SMT
  <2>4. q <= p /\ p <= m /\ m < q
    BY <1>1, <1>3, <1>4, <1>5, <2>1, <2>2, <2>3
  <2> QED
    BY <2>4, SMT
<1> QED
  BY <1>3, <1>5, <1>6, SMT

\* The two values of the guard.
LEMMA GuardIs == \A m : Guard(m) \in {9, 10}
BY DEF Guard

\* The float lies within half of its last digit's distance.
LEMMA ExcessType ==
  ASSUME NEW m \in Nat, m > 0, m < 10^7
  PROVE  Excess(m) \in Int /\ -499 <= Excess(m) /\ Excess(m) <= 500
<1>1. PICK n \in 9..33 : n = Scale(m)
  BY PowerDigits, GuardIs, SMT DEF Scale
<1>2. PowerOfTwoMod1000(n) \in Int
  <2>1. n \div 2 \in 0..30 /\ n - n \div 2 \in 0..30
    BY SMT
  <2>2. PICK a, b \in Nat : a = 2^(n \div 2) /\ b = 2^(n - n \div 2)
    BY <2>1, PowType DEF Pow
  <2>3. ((a % 1000) * b) % 1000 \in Int
    BY SMT
  <2> QED
    BY <2>2, <2>3 DEF PowerOfTwoMod1000
<1>3. PICK c \in Int : c = PowerOfTwoMod1000(Scale(m))
  BY <1>1, <1>2
<1> DEFINE rest == ((m % 1000) * c) % 1000
<1>4. rest \in 0..999
  BY SMT
<1>5. Excess(m) = IF rest < 500 THEN -rest ELSE 1000 - rest
  BY <1>3 DEF Excess
<1> HIDE DEF rest
<1> QED
  BY <1>4, <1>5, SMT

\* A watt is lost or none.
LEMMA WattsBounds ==
  ASSUME NEW m \in Nat, m < 10^7
  PROVE  Watts(m) \in {m, m - 1}
<1>1. CASE m = 0
  BY <1>1 DEF Watts
<1>2. CASE m > 0
  <2>1. PICK x \in Int : x = Excess(m) /\ -499 <= x /\ x <= 500
    BY <1>2, ExcessType
  <2>2. PICK l \in 1..24 : l = BitLength(m)
    BY <1>2, PowerDigits
  <2>3. PICK finer \in {0, 1} :
          /\ finer = IF m = 2^(BitLength(m) - 1) /\ Excess(m) < 0 THEN 1 ELSE 0
          /\ finer = 1 => x < 0
    BY <2>1
  <2>4. PICK g \in {9, 10} : g = Guard(m) /\ (l = 24 => g = 10)
    <3>1. 128 * m < 125 * Pow(24)
      BY PowersOfTwo, SMT
    <3>2. l = 24 => Guard(m) = 10
      BY <2>2, <3>1 DEF Guard, Pow
    <3> QED
      BY <3>2, GuardIs
  <2>5. PICK f \in Nat : /\ f = 2^(24 - BitLength(m) + finer)
                         /\ f >= 1 /\ (l < 24 => f >= 2)
                         /\ finer = 1 => f >= 2 /\ (l < 24 => f >= 4)
    <3>1. /\ 24 - l + finer \in 0..30
          /\ l < 24 \/ finer = 1 => 24 - l + finer >= 1
          /\ l < 24 /\ finer = 1 => 24 - l + finer >= 2
      BY SMT
    <3>2. PICK e \in 0..30 : e = 24 - l + finer
      BY <3>1
    <3> QED
      BY <2>2, <3>1, <3>2, PowType DEF Pow
  <2>6. PICK u \in {256, 512, 1024} :
          /\ u = 2^(Guard(m) - finer) /\ (finer = 0 => u # 256)
          /\ l = 24 => u # 256 /\ (finer = 0 => u = 1024)
    <3>1. PICK e \in {8, 9, 10} :
            /\ e = g - finer /\ (finer = 0 => e # 8)
            /\ l = 24 => e # 8 /\ (finer = 0 => e = 10)
      BY <2>4, SMT
    <3>2. Pow(8) = 256 /\ Pow(9) = 512 /\ Pow(10) = 1024
      BY PowersOfTwo
    <3>3. /\ Pow(e) \in {256, 512, 1024} /\ (finer = 0 => Pow(e) # 256)
          /\ l = 24 => Pow(e) # 256 /\ (finer = 0 => Pow(e) = 1024)
      BY <3>1, <3>2, SMT
    <3>4. Pow(e) = 2^(Guard(m) - finer)
      BY <2>4, <3>1, Zenon DEF Pow
    <3> QED
      BY <3>3, <3>4
  <2>7. PICK moved \in -2..1 :
          /\ moved = RoundedQuotient(x, u)
          /\ finer = 0 => moved >= -1
          /\ l = 24 => moved \in -1..0
          /\ l = 24 /\ finer = 0 => moved = 0
          /\ finer = 1 => moved <= 0
    <3>1. CASE u = 256
      BY <2>1, <2>3, <2>6, <3>1, SMTT(30) DEF RoundedQuotient
    <3>2. CASE u = 512
      BY <2>1, <2>3, <2>6, <3>2, SMTT(30) DEF RoundedQuotient
    <3>3. CASE u = 1024
      BY <2>1, <2>3, <2>6, <3>3, SMTT(30) DEF RoundedQuotient
    <3> QED
      BY <3>1, <3>2, <3>3
  <2>8. Watts(m) = (m * f + moved) \div f
    BY <1>2, <2>1, <2>3, <2>5, <2>6, <2>7 DEF Watts
  <2>9. CASE moved >= 0
    <3>1. m * f <= m * f + moved /\ m * f + moved < (m + 1) * f
      BY <2>5, <2>7, <2>9, SMT
    <3>2. f > 0 /\ m \in Int /\ m * f + moved \in Int
      BY <2>5, SMT
    <3>3. (m * f + moved) \div f = m
      BY <3>1, <3>2, DivBetween
    <3> QED
      BY <2>8, <3>3
  <2>10. CASE moved < 0
    <3>1. (m - 1) * f <= m * f + moved /\ m * f + moved < ((m - 1) + 1) * f
      BY <2>5, <2>7, <2>10, SMT
    <3>2. (m * f + moved) \div f = m - 1
      BY <2>5, <3>1, DivBetween, SMT
    <3> QED
      BY <2>8, <3>2
  <2> QED
    BY <2>9, <2>10, SMT
<1> QED
  BY <1>1, <1>2, SMT

\* Rounding moves a power by half a hundredth at most.
LEMMA HundredthsBounds ==
  ASSUME NEW m \in Nat
  PROVE  /\ Hundredths(m) \in Int
         /\ -5 <= 10 * Hundredths(m) - m /\ 10 * Hundredths(m) - m <= 5
<1>1. PICK up \in {0, 1} : /\ Hundredths(m) = (m \div 10) + up
                           /\ up = 1 => m % 10 >= 5
                           /\ up = 0 => m % 10 <= 5
  <2> DEFINE Up == \/ m % 10 > 5
                   \/ m % 10 = 5 /\ Excess(m) > 0
                   \/ m % 10 = 5 /\ Excess(m) = 0 /\ (m \div 10) % 2 = 1
  <2>1. Hundredths(m) = (m \div 10) + (IF Up THEN 1 ELSE 0)
    BY DEF Hundredths
  <2>2. Up => m % 10 >= 5
    BY SMT
  <2>3. ~Up => m % 10 <= 5
    BY SMT
  <2> HIDE DEF Up
  <2> QED
    BY <2>1, <2>2, <2>3
<1> QED
  BY <1>1, SMT

-----------------------------------------------------------------------------
(* Counts.                                                                 *)

\* A count of l binary digits, l > 24, is rounded to a multiple of the
\* distance of the floats there.
LEMMA AsFloatIs ==
  ASSUME NEW n \in Nat, n < 2 * Pow(30)
  PROVE  \/ n < Pow(24) /\ AsFloat(n) = n
         \/ \E k \in 24..30 : \E unit, q, rest \in Nat :
              /\ BitLength(n) = k + 1 /\ Pow(k) <= n /\ n < 2 * Pow(k)
              /\ unit = Pow(k - 23) /\ n = unit * q + rest /\ rest < unit
              /\ AsFloat(n) = unit * RoundedQuotient(n, unit)
              /\ RoundedQuotient(n, unit) =
                   IF 2 * rest > unit \/ (2 * rest = unit /\ q % 2 = 1)
                   THEN q + 1 ELSE q
<1>1. CASE n < Pow(24)
  BY <1>1 DEF AsFloat, Pow
<1>2. CASE ~(n < Pow(24))
  <2>1. n > 0
    BY <1>2, PowersOfTwo, SMT
  <2>2. PICK k \in 0..30 : BitLength(n) = k + 1 /\ Pow(k) <= n /\ n < 2 * Pow(k)
    <3>1. PICK l \in 1..31 : l = BitLength(n) /\ Pow(l - 1) <= n /\ n < 2 * Pow(l - 1)
      BY <2>1, BitLengthIs
    <3>2. l - 1 \in 0..30 /\ (l - 1) + 1 = l
      BY SMT
    <3> QED
      BY <3>1, <3>2
  <2>3. k \in 24..30
    <3>1. \A o \in 0..23 : 2 * Pow(o) <= Pow(24)
      BY PowersOfTwo, SMT
    <3>2. PICK p, r \in Nat : p = Pow(k) /\ r = Pow(24)
      BY PowType, PowersOfTwo, SMT
    <3>3. k \in 0..23 => 2 * p <= r
      BY <3>1, <3>2
    <3> QED
      BY <1>2, <2>2, <3>2, <3>3, SMT
  <2>4. PICK e \in 1..7 : e = k - 23
    BY <2>3, SMT
  <2>5. PICK unit \in Nat : unit = Pow(e) /\ unit >= 2
    <3>1. e \in 0..30 /\ e >= 1
      BY SMT
    <3> QED
      BY <3>1, PowType
  <2>6. unit = 2^(BitLength(n) - 24)
    <3>1. (k + 1) - 24 = e
      BY <2>4, SMT
    <3> QED
      BY <2>2, <2>5, <3>1 DEF Pow
  <2>7. AsFloat(n) = unit * RoundedQuotient(n, unit)
    BY <1>2, <2>6, Zenon DEF AsFloat, Pow
  <2>8. PICK q, rest \in Nat :
          q = n \div unit /\ rest = n % unit /\ n = unit * q + rest /\ rest < unit
    <3>1. unit > 0
      BY <2>5, SMT
    <3>2. /\ n \div unit \in Nat /\ n % unit \in Nat /\ n % unit < unit
          /\ n = unit * (n \div unit) + (n % unit)
      BY <3>1, SMT
    <3> QED
      BY <3>2
  <2>9. RoundedQuotient(n, unit) =
          IF 2 * rest > unit \/ (2 * rest = unit /\ q % 2 = 1)
          THEN q + 1 ELSE q
    BY <2>8, ZenonT(30) DEF RoundedQuotient
  <2>10. unit = Pow(k - 23)
    BY <2>4, <2>5
  <2> QED
    BY <2>2, <2>3, <2>7, <2>8, <2>9, <2>10, ZenonT(30)
<1> QED
  BY <1>1, <1>2

\* Rounding moves a number by half the distance of the floats at most.
LEMMA AsFloatNear ==
  ASSUME NEW n \in Nat, n < 2 * Pow(30)
  PROVE  LET far == IF n <= 2^24 THEN 0 ELSE 2^(BitLength(n) - 25)
         IN AsFloat(n) - n \in -far..far
<1> DEFINE far == IF n <= 2^24 THEN 0 ELSE 2^(BitLength(n) - 25)
<1>0. Pow(24) = 2^24
  BY DEF Pow
<1>1. CASE n < Pow(24) /\ AsFloat(n) = n
  <2>1. far = 0
    BY <1>1, PowersOfTwo, SMT DEF Pow
  <2> QED
    BY <1>1, <2>1, SMT
<1>2. CASE ~(n < Pow(24) /\ AsFloat(n) = n)
  <2>0. PICK k \in 24..30, unit \in Nat, q \in Nat, rest \in Nat :
             /\ BitLength(n) = k + 1 /\ Pow(k) <= n /\ n < 2 * Pow(k)
             /\ unit = Pow(k - 23) /\ n = unit * q + rest /\ rest < unit
             /\ AsFloat(n) = unit * RoundedQuotient(n, unit)
             /\ RoundedQuotient(n, unit) =
                   IF 2 * rest > unit \/ (2 * rest = unit /\ q % 2 = 1)
                   THEN q + 1 ELSE q
    BY <1>2, AsFloatIs, Zenon
  <2>1. PICK h \in Nat : h = Pow(k - 24) /\ unit = 2 * h
    <3>1. PICK e \in 0..29 : e = k - 24 /\ e + 1 = k - 23
      BY SMT
    <3> QED
      BY <2>0, <3>1, Doubles
  <2>2. AsFloat(n) - n = IF 2 * rest > unit \/ (2 * rest = unit /\ q % 2 = 1)
                         THEN unit - rest ELSE -rest
    <3>1. unit * (q + 1) = unit * q + unit
      BY SMT
    <3> QED
      BY <2>0, <3>1, SMT
  <2>3. AsFloat(n) - n \in -h..h
    BY <2>0, <2>1, <2>2, SMT
  <2>4. CASE n = Pow(24)
    <3>1. k = 24
      <4>1. \A l \in 25..30 : Pow(l) > Pow(24)
        BY PowersOfTwo, SMT
      <4>2. PICK p, r \in Nat : p = Pow(k) /\ r = Pow(24)
        BY PowType, SMT
      <4>3. p <= r
        BY <2>0, <2>4, <4>2
      <4>4. k \in 25..30 => p > r
        BY <4>1, <4>2
      <4> QED
        BY <4>2, <4>3, <4>4, SMT
    <3>2. unit = 2
      <4>1. k - 23 = 1
        BY <3>1, SMT
      <4> QED
        BY <2>0, <4>1, PowersOfTwo
    <3>3. n = 2 * Pow(23) /\ Pow(23) \in Nat
      BY <2>4, PowersOfTwo, SMT
    <3>4. rest = 0
      BY <2>0, <3>2, <3>3, SMT
    <3>5. AsFloat(n) - n = 0
      BY <2>2, <3>2, <3>4, SMT
    <3>6. far = 0
      BY <1>0, <2>4
    <3> QED
      BY <3>5, <3>6, SMT
  <2>5. CASE n # Pow(24)
    <3>1. ~(n <= 2^24)
      <4>1. PICK p, r \in Nat : p = Pow(k) /\ r = Pow(24)
        BY PowType, SMT
      <4>2. \A l \in 24..30 : Pow(24) <= Pow(l)
        BY PowersOfTwo, SMT
      <4>3. r <= p /\ p <= n /\ n # r
        BY <2>0, <2>5, <4>1, <4>2
      <4>4. n > r
        BY <4>3, SMT
      <4> QED
        BY <1>0, <4>1, <4>4, SMT
    <3>2. far = h
      <4>1. (k + 1) - 25 = k - 24
        BY SMT
      <4> QED
        BY <2>0, <2>1, <3>1, <4>1 DEF Pow
    <3> QED
      BY <2>3, <3>2
  <2> QED
    BY <2>4, <2>5
<1> QED
  BY <1>1, <1>2

\* The powers of two lie apart.
LEMMA PowersApart ==
  ASSUME NEW k \in 24..30
  PROVE  /\ Pow(k) = Pow(k - 23) * Pow(23)
         /\ \A l \in 24..30 : k < l => 2 * Pow(k) <= Pow(l)
         /\ \A l \in 24..30 : k + 1 < l => 4 * Pow(k) <= Pow(l)
BY PowersOfTwo, SMT

\* A count and the next one.
LEMMA AsFloatGrows ==
  ASSUME NEW n \in Nat, n + 1 < 2 * Pow(30)
  PROVE  AsFloat(n) <= AsFloat(n + 1)
<1>0. /\ n + 1 \in Nat /\ n < 2 * Pow(30) /\ Pow(24) = 2 * Pow(23)
      /\ Pow(23) \in Nat /\ Pow(24) \in Nat
  BY PowersOfTwo, SMT
<1>1. CASE n + 1 < Pow(24)
  <2>1. n < Pow(24)
    BY <1>0, <1>1, SMT
  <2> QED
    BY <1>1, <2>1, SMT DEF AsFloat, Pow
<1>2. CASE ~(n + 1 < Pow(24))
  <2>1. PICK l \in 24..30, w \in Nat, r \in Nat, s \in Nat :
             /\ BitLength(n + 1) = l + 1 /\ Pow(l) <= n + 1 /\ n + 1 < 2 * Pow(l)
             /\ w = Pow(l - 23) /\ n + 1 = w * r + s /\ s < w
             /\ AsFloat(n + 1) = w * RoundedQuotient(n + 1, w)
             /\ RoundedQuotient(n + 1, w) =
                   IF 2 * s > w \/ (2 * s = w /\ r % 2 = 1)
                   THEN r + 1 ELSE r
    BY <1>0, <1>2, AsFloatIs, Zenon
  <2>2. AsFloat(n + 1) >= w * r /\ AsFloat(n + 1) \in Int
    <3>1. w * (r + 1) = w * r + w
      BY SMT
    <3> QED
      BY <2>1, <3>1, SMT
  <2>3. PICK p \in Nat : p = Pow(l) /\ p = w * Pow(23)
    <3>1. l \in 0..30
      BY SMT
    <3> QED
      BY <2>1, <3>1, PowersApart, PowType
  <2>4. CASE n < Pow(24)
    <3>1. AsFloat(n) = n
      BY <2>4 DEF AsFloat, Pow
    <3>2. n + 1 = 2 * Pow(23) /\ Pow(23) \in Nat
      BY <1>0, <1>2, <2>4, PowersOfTwo, SMT
    <3>3. l = 24
      <4>1. 24 \in 24..30 /\ l \in Int
        BY SMT
      <4>2. 24 < l => 2 * Pow(24) <= p
        BY <2>3, <4>1, PowersApart
      <4>3. p <= Pow(24) /\ Pow(24) > 0 /\ Pow(24) \in Nat
        BY <1>0, <2>1, <2>3, <3>2, PowersOfTwo, SMT
      <4> QED
        BY <4>1, <4>2, <4>3, SMT
    <3>4. w = 2
      <4>1. l - 23 = 1
        BY <3>3, SMT
      <4> QED
        BY <2>1, <4>1, PowersOfTwo
    <3>5. w * r = n + 1
      <4>1. s = 0
        BY <2>1, <3>2, <3>4, SMT
      <4> QED
        BY <2>1, <4>1, SMT
    <3> QED
      BY <2>2, <3>1, <3>5, SMT
  <2>5. CASE ~(n < Pow(24))
    <3>1. PICK k \in 24..30, unit \in Nat, q \in Nat, rest \in Nat :
             /\ BitLength(n) = k + 1 /\ Pow(k) <= n /\ n < 2 * Pow(k)
             /\ unit = Pow(k - 23) /\ n = unit * q + rest /\ rest < unit
             /\ AsFloat(n) = unit * RoundedQuotient(n, unit)
             /\ RoundedQuotient(n, unit) =
                   IF 2 * rest > unit \/ (2 * rest = unit /\ q % 2 = 1)
                   THEN q + 1 ELSE q
      BY <1>0, <2>5, AsFloatIs, Zenon
    <3>2. PICK o \in Nat : o = Pow(k) /\ o = unit * Pow(23)
      <4>1. k \in 0..30
        BY SMT
      <4> QED
        BY <3>1, <4>1, PowersApart, PowType
    <3>3. PICK t \in Nat : t = Pow(23)
      BY PowersOfTwo, SMT
    <3>4. CASE k = l
      <4>1. unit = w /\ w > 0
        BY <2>1, <3>1, <3>4, SMT
      <4>2. CASE rest + 1 < w
        <5>1. w * q <= n + 1 /\ n + 1 < w * (q + 1) /\ w * (q + 1) = w * q + w
          BY <3>1, <4>1, <4>2, SMT
        <5>2. r = q /\ s = rest + 1
          <6>1. (n + 1) \div w = q
            BY <4>1, <5>1, DivBetween, SMT
          <6>2. w * r <= n + 1 /\ n + 1 < w * (r + 1) /\ w * (r + 1) = w * r + w
            BY <2>1, SMT
          <6>3. (n + 1) \div w = r
            BY <4>1, <6>2, DivBetween, SMT
          <6> QED
            BY <2>1, <3>1, <4>1, <6>1, <6>3, SMT
        <5>3. w * (q + 1) = w * q + w
          BY SMT
        <5>4. \/ AsFloat(n) = w * q
              \/ /\ AsFloat(n) = w * (q + 1)
                 /\ 2 * rest > w \/ (2 * rest = w /\ q % 2 = 1)
          BY <3>1, <4>1
        <5>5. AsFloat(n) = w * (q + 1) => AsFloat(n + 1) = w * (q + 1)
          BY <2>1, <4>1, <5>1, <5>2, <5>3, <5>4, SMT
        <5> QED
          BY <2>2, <5>2, <5>3, <5>4, <5>5, SMT
      <4>3. CASE ~(rest + 1 < w)
        <5>1. n + 1 = w * (q + 1) /\ w * (q + 1) = w * q + w
          BY <3>1, <4>1, <4>3, SMT
        <5>2. r = q + 1
          <6>1. (n + 1) \div w = q + 1
            <7>1. (q + 1) * w <= n + 1 /\ n + 1 < ((q + 1) + 1) * w
              BY <4>1, <5>1, SMT
            <7> QED
              BY <4>1, <7>1, DivBetween, SMT
          <6>2. w * r <= n + 1 /\ n + 1 < w * (r + 1) /\ w * (r + 1) = w * r + w
            BY <2>1, SMT
          <6>3. (n + 1) \div w = r
            BY <4>1, <6>2, DivBetween, SMT
          <6> QED
            BY <6>1, <6>3
        <5>3. AsFloat(n) <= w * (q + 1)
          BY <3>1, <4>1, <5>1, SMT
        <5>4. w * (q + 1) <= AsFloat(n + 1)
          BY <2>2, <5>2
        <5>5. AsFloat(n) \in Int /\ w * (q + 1) \in Int
          BY <3>1, SMT
        <5> QED
          BY <2>2, <5>3, <5>4, <5>5, SMT
      <4> QED
        BY <4>2, <4>3
    <3>5. CASE k # l
      <4>1. n + 1 = 2 * o
        <5>1. k < l => 2 * o <= p
          BY <2>3, <3>2, PowersApart
        <5>2. l < k => 2 * p <= o
          BY <2>3, <3>2, PowersApart
        <5>3. o <= n /\ n < 2 * o /\ p <= n + 1 /\ n + 1 < 2 * p
          BY <2>1, <2>3, <3>1, <3>2
        <5> QED
          BY <3>5, <5>1, <5>2, <5>3, SMT
      <4>2. p = n + 1
        <5>1. k < l => 2 * o <= p
          BY <2>3, <3>2, PowersApart
        <5>2. l < k => 2 * p <= o
          BY <2>3, <3>2, PowersApart
        <5>3. o <= n /\ p <= n + 1 /\ n + 1 < 2 * p
          BY <2>1, <2>3, <3>1, <3>2
        <5> QED
          BY <3>5, <4>1, <5>1, <5>2, <5>3, SMT
      <4>3. w > 0
        BY <2>1, SMT
      <4>4. AsFloat(n + 1) >= n + 1
        <5>1. n + 1 = w * t
          BY <2>3, <3>3, <4>2
        <5>2. (n + 1) \div w = t
          <6>1. t * w <= n + 1 /\ n + 1 < (t + 1) * w
            BY <4>3, <5>1, SMT
          <6> QED
            BY <4>3, <6>1, DivBetween, SMT
        <5>3. (n + 1) \div w = r
          <6>1. r * w <= n + 1 /\ n + 1 < (r + 1) * w
            BY <2>1, SMT
          <6> QED
            BY <4>3, <6>1, DivBetween, SMT
        <5> QED
          BY <2>2, <5>1, <5>2, <5>3
      <4>5. q + 1 <= 2 * t
        <5>1. unit * q < 2 * (unit * t) /\ unit > 0
          BY <3>1, <3>2, <3>3, SMT
        <5>2. ~(q >= 2 * t)
          <6> SUFFICES ASSUME q >= 2 * t PROVE FALSE
            OBVIOUS
          <6>1. unit * q >= unit * (2 * t)
            BY <5>1, SMT
          <6>2. unit * (2 * t) = 2 * (unit * t)
            BY SMT
          <6> QED
            BY <5>1, <6>1, <6>2, SMT
        <5> QED
          BY <5>2, SMT
      <4>6. AsFloat(n) <= unit * (q + 1) /\ unit * (q + 1) <= unit * (2 * t)
        <5>1. unit * (q + 1) = unit * q + unit
          BY SMT
        <5> QED
          BY <3>1, <4>5, <5>1, SMT
      <4>7. unit * (2 * t) = n + 1
        <5>1. unit * (2 * t) = 2 * (unit * t)
          BY SMT
        <5> QED
          BY <3>2, <3>3, <4>1, <5>1
      <4>8. AsFloat(n) \in Int /\ AsFloat(n + 1) \in Int
        BY <2>1, <3>1, SMT
      <4> QED
        BY <4>4, <4>6, <4>7, <4>8, SMT
    <3> QED
      BY <3>4, <3>5
  <2> QED
    BY <2>4, <2>5
<1> QED
  BY <1>1, <1>2

\* Both words fit a register, and the client gets back what was written,
\* whatever 32-bit number it is (hpModbuss.cpp:227-241).
THEOREM WordsTheorem ==
  ASSUME NEW i \in Int, -32768 * 65536 <= i, i < 32768 * 65536
  PROVE  /\ \E low, high \in Nat :
              to_regs(i) = <<low, high>> /\ low < 65536 /\ high < 65536
         /\ from_regs(to_regs(i)) = i
<1> DEFINE low == i % 65536
           q == i \div 65536
           high == q % 65536
<1>1. /\ low \in Int /\ 0 <= low /\ low < 65536
      /\ q \in Int /\ -32768 <= q /\ q < 32768
      /\ i = 65536 * q + low
  BY SMT
<1>2. high = IF q < 0 THEN q + 65536 ELSE q
  BY <1>1, SMT
<1>3. to_regs(i) = <<low, high>>
  BY SMT DEF to_regs
<1> HIDE DEF low, high, q
<1>4. high \in Int /\ 0 <= high /\ high < 65536
  BY <1>1, <1>2, SMT
<1>5. to_regs(i)[1] = low /\ to_regs(i)[2] = high
  BY <1>3, SMT
<1>6. from_regs(to_regs(i)) =
        (IF high >= 32768 THEN high - 65536 ELSE high) * 65536 + low
  BY <1>5, SMT DEF from_regs
<1>7. from_regs(to_regs(i)) = i
  BY <1>1, <1>2, <1>4, <1>6, SMT
<1>8. low \in Nat /\ high \in Nat
  BY <1>1, <1>4, SMT
<1> QED
  BY <1>1, <1>3, <1>4, <1>7, <1>8, SMT

-----------------------------------------------------------------------------
(* The two lists of fields, piece by piece: a field is in one piece of     *)
(* each of them, and there once.                                           *)

\* How often x is an element of s: once, or not at all.
Once(x, s) == \E k \in DOMAIN s : \A l \in DOMAIN s : s[l] = x <=> l = k
Absent(x, s) == \A l \in DOMAIN s : s[l] # x

\* What one of two pieces holds once and the other one does not, their
\* concatenation holds once.
LEMMA ConcatOnce ==
  ASSUME NEW S, NEW s \in Seq(S), NEW t \in Seq(S), NEW x
  PROVE  /\ Absent(x, s) /\ Absent(x, t) => Absent(x, s \o t)
         /\ Once(x, s) /\ Absent(x, t) => Once(x, s \o t)
         /\ Absent(x, s) /\ Once(x, t) => Once(x, s \o t)
<1> DEFINE u == s \o t
<1>1. /\ Len(s) \in Nat /\ Len(t) \in Nat /\ Len(u) = Len(s) + Len(t)
      /\ DOMAIN s = 1..Len(s) /\ DOMAIN t = 1..Len(t)
      /\ DOMAIN u = 1..Len(s) + Len(t)
      /\ \A l \in 1..Len(s) : u[l] = s[l]
      /\ \A l \in Len(s) + 1..Len(s) + Len(t) : u[l] = t[l - Len(s)]
      /\ \A l \in 1..Len(t) : u[l + Len(s)] = t[l]
  BY SMT
<1> HIDE DEF u
<1>2. ASSUME Absent(x, s), Absent(x, t) PROVE Absent(x, u)
  <2>1. ASSUME NEW l \in DOMAIN u, l \notin DOMAIN s
        PROVE  l - Len(s) \in DOMAIN t /\ u[l] = t[l - Len(s)]
    BY <1>1, <2>1
  <2>2. QED
    BY <1>1, <1>2, <2>1, Zenon DEF Absent
<1>3. ASSUME Once(x, s), Absent(x, t) PROVE Once(x, u)
  <2>1. PICK k \in DOMAIN s : \A l \in DOMAIN s : s[l] = x <=> l = k
    BY <1>3, Zenon DEF Once
  <2>2. k \in DOMAIN u
    BY <1>1
  <2>3. ASSUME NEW l \in DOMAIN u PROVE u[l] = x <=> l = k
    <3>1. CASE l \in DOMAIN s
      BY <1>1, <2>1, <3>1, Zenon
    <3>2. CASE l \notin DOMAIN s
      <4>1. l - Len(s) \in DOMAIN t /\ u[l] = t[l - Len(s)]
        BY <1>1, <3>2
      <4>2. u[l] # x
        BY <1>3, <4>1, Zenon DEF Absent
      <4>3. QED
        BY <2>1, <3>2, <4>2, Zenon
    <3>3. QED
      BY <3>1, <3>2
  <2>4. QED
    BY <2>2, <2>3, Zenon DEF Once
<1>4. ASSUME Absent(x, s), Once(x, t) PROVE Once(x, u)
  <2>1. PICK k \in DOMAIN t : \A l \in DOMAIN t : t[l] = x <=> l = k
    BY <1>4, Zenon DEF Once
  <2>2. k + Len(s) \in DOMAIN u /\ k + Len(s) \notin DOMAIN s
    BY <1>1
  <2>3. ASSUME NEW l \in DOMAIN u PROVE u[l] = x <=> l = k + Len(s)
    <3>1. CASE l \in DOMAIN s
      <4>1. u[l] # x
        BY <1>1, <1>4, <3>1, Zenon DEF Absent
      <4>2. QED
        BY <2>2, <3>1, <4>1, Zenon
    <3>2. CASE l \notin DOMAIN s
      <4>1. l - Len(s) \in DOMAIN t /\ u[l] = t[l - Len(s)]
        BY <1>1, <3>2
      <4>2. u[l] = x <=> l - Len(s) = k
        BY <2>1, <4>1, Zenon
      <4>3. QED
        BY <1>1, <4>2
    <3>3. QED
      BY <3>1, <3>2
  <2>4. QED
    BY <2>2, <2>3, Zenon DEF Once
<1>5. QED
  BY <1>2, <1>3, <1>4, Zenon DEF u

\* One of four pieces holds x, and once.
OneOf(x, a, b, c, d) ==
  \/ Once(x, a) /\ Absent(x, b) /\ Absent(x, c) /\ Absent(x, d)
  \/ Absent(x, a) /\ Once(x, b) /\ Absent(x, c) /\ Absent(x, d)
  \/ Absent(x, a) /\ Absent(x, b) /\ Once(x, c) /\ Absent(x, d)
  \/ Absent(x, a) /\ Absent(x, b) /\ Absent(x, c) /\ Once(x, d)
NoneOf(x, a, b, c, d) ==
  Absent(x, a) /\ Absent(x, b) /\ Absent(x, c) /\ Absent(x, d)

\* The same of a list followed by four pieces.
LEMMA FourPieces ==
  ASSUME NEW S, NEW m \in Seq(S), NEW a \in Seq(S), NEW b \in Seq(S),
         NEW c \in Seq(S), NEW d \in Seq(S), NEW x,
         \/ Once(x, m) /\ NoneOf(x, a, b, c, d)
         \/ Absent(x, m) /\ OneOf(x, a, b, c, d)
  PROVE  Once(x, m \o a \o b \o c \o d)
<1> DEFINE ma == m \o a
           mab == ma \o b
           mabc == mab \o c
<1>1. ma \in Seq(S) /\ mab \in Seq(S) /\ mabc \in Seq(S)
  OBVIOUS
<1>2. \/ Once(x, ma) /\ Absent(x, b) /\ Absent(x, c) /\ Absent(x, d)
      \/ Absent(x, ma) /\ Once(x, b) /\ Absent(x, c) /\ Absent(x, d)
      \/ Absent(x, ma) /\ Absent(x, b) /\ Once(x, c) /\ Absent(x, d)
      \/ Absent(x, ma) /\ Absent(x, b) /\ Absent(x, c) /\ Once(x, d)
  BY ConcatOnce, Zenon DEF OneOf, NoneOf
<1> HIDE DEF ma
<1>3. \/ Once(x, mab) /\ Absent(x, c) /\ Absent(x, d)
      \/ Absent(x, mab) /\ Once(x, c) /\ Absent(x, d)
      \/ Absent(x, mab) /\ Absent(x, c) /\ Once(x, d)
  BY <1>1, <1>2, ConcatOnce, Zenon
<1> HIDE DEF mab
<1>4. \/ Once(x, mabc) /\ Absent(x, d)
      \/ Absent(x, mabc) /\ Once(x, d)
  BY <1>1, <1>3, ConcatOnce, Zenon
<1> HIDE DEF mabc
<1>5. Once(x, mabc \o d)
  BY <1>1, <1>4, ConcatOnce, Zenon
<1>6. QED
  BY <1>5 DEF ma, mab, mabc

\* The quantities of one phase: their types and how often each is there.
LEMMA OfPhaseOnce ==
  ASSUME NEW Q, NEW q \in Seq(Q), NEW p \in 0..3
  PROVE  /\ \A S : (\A k \in DOMAIN q : <<p, q[k]>> \in S)
                     => OfPhase(p, q) \in Seq(S)
         /\ \A r, v : r # p \/ Absent(v, q) => Absent(<<r, v>>, OfPhase(p, q))
         /\ \A v : Once(v, q) => Once(<<p, v>>, OfPhase(p, q))
<1>1. /\ DOMAIN OfPhase(p, q) = DOMAIN q
      /\ \A k \in DOMAIN q : OfPhase(p, q)[k] = <<p, q[k]>>
  BY DEF OfPhase
<1>2. ASSUME NEW S, \A k \in DOMAIN q : <<p, q[k]>> \in S
      PROVE  OfPhase(p, q) \in Seq(S)
  <2>1. Len(q) \in Nat /\ DOMAIN q = 1..Len(q)
    OBVIOUS
  <2>2. QED
    BY <1>2, <2>1 DEF OfPhase
<1>3. ASSUME NEW r, NEW v, r # p \/ Absent(v, q)
      PROVE  Absent(<<r, v>>, OfPhase(p, q))
  BY <1>1, <1>3 DEF Absent
<1>4. ASSUME NEW v, Once(v, q) PROVE Once(<<p, v>>, OfPhase(p, q))
  <2>1. PICK k \in DOMAIN q : \A l \in DOMAIN q : q[l] = v <=> l = k
    BY <1>4, Zenon DEF Once
  <2>2. \A l \in DOMAIN q : <<p, q[l]>> = <<p, v>> <=> q[l] = v
    OBVIOUS
  <2>3. \A l \in DOMAIN q : OfPhase(p, q)[l] = <<p, v>> <=> l = k
    BY <1>1, <2>1, <2>2, Zenon
  <2>4. QED
    BY <1>1, <2>3 DEF Once
<1>5. QED
  BY <1>2, <1>3, <1>4

\* A quantity that is there once is there once for each of the three phases.
LEMMA EachPhaseOnce ==
  ASSUME NEW Q, NEW q \in Seq(Q)
  PROVE  /\ \A S : (\A k \in DOMAIN q : \A p \in 1..3 : <<p, q[k]>> \in S)
                     => EachPhase(q) \in Seq(S)
         /\ \A r, v : r \notin 1..3 \/ Absent(v, q)
                        => Absent(<<r, v>>, EachPhase(q))
         /\ \A v : Once(v, q) => \A p \in 1..3 : Once(<<p, v>>, EachPhase(q))
<1> DEFINE a == OfPhase(1, q)
           b == OfPhase(2, q)
           c == OfPhase(3, q)
           T == (1..3) \X Q
<1>1. EachPhase(q) = (a \o b) \o c
  BY DEF EachPhase
<1>2. ASSUME NEW S, \A k \in DOMAIN q : \A p \in 1..3 : <<p, q[k]>> \in S
      PROVE  a \in Seq(S) /\ b \in Seq(S) /\ c \in Seq(S)
  <2>1. \A p \in 1..3 : p \in 0..3
    OBVIOUS
  <2>2. \A p \in 1..3 : OfPhase(p, q) \in Seq(S)
    BY <1>2, <2>1, OfPhaseOnce, Zenon
  <2>3. QED
    BY <2>2
<1>3. a \in Seq(T) /\ b \in Seq(T) /\ c \in Seq(T)
  <2>1. \A k \in DOMAIN q : \A p \in 1..3 : <<p, q[k]>> \in T
    OBVIOUS
  <2>2. QED
    BY <1>2, <2>1, Zenon
<1>4. ASSUME NEW v, NEW r
      PROVE  /\ r # 1 \/ Absent(v, q) => Absent(<<r, v>>, a)
             /\ r # 2 \/ Absent(v, q) => Absent(<<r, v>>, b)
             /\ r # 3 \/ Absent(v, q) => Absent(<<r, v>>, c)
             /\ Once(v, q) => /\ r = 1 => Once(<<r, v>>, a)
                              /\ r = 2 => Once(<<r, v>>, b)
                              /\ r = 3 => Once(<<r, v>>, c)
  BY OfPhaseOnce, 1 \in 0..3, 2 \in 0..3, 3 \in 0..3
<1> HIDE DEF a, b, c, T
<1>5. a \o b \in Seq(T)
  BY <1>3
<1>6. ASSUME NEW S, \A k \in DOMAIN q : \A p \in 1..3 : <<p, q[k]>> \in S
      PROVE  EachPhase(q) \in Seq(S)
  <2>1. a \in Seq(S) /\ b \in Seq(S) /\ c \in Seq(S)
    BY <1>2, <1>6
  <2>2. QED
    BY <1>1, <2>1
<1>7. ASSUME NEW r, NEW v, r \notin 1..3 \/ Absent(v, q)
      PROVE  Absent(<<r, v>>, EachPhase(q))
  <2>1. Absent(<<r, v>>, a) /\ Absent(<<r, v>>, b) /\ Absent(<<r, v>>, c)
    BY <1>4, <1>7
  <2>2. Absent(<<r, v>>, a \o b)
    BY <1>3, <2>1, ConcatOnce, Zenon
  <2>3. QED
    BY <1>1, <1>3, <1>5, <2>1, <2>2, ConcatOnce, Zenon
<1>8. ASSUME NEW v, NEW p \in 1..3, Once(v, q)
      PROVE  Once(<<p, v>>, EachPhase(q))
  <2> DEFINE x == <<p, v>>
  <2>1. \/ Once(x, a) /\ Absent(x, b) /\ Absent(x, c)
        \/ Absent(x, a) /\ Once(x, b) /\ Absent(x, c)
        \/ Absent(x, a) /\ Absent(x, b) /\ Once(x, c)
    <3>1. p = 1 \/ p = 2 \/ p = 3
      OBVIOUS
    <3>2. QED
      BY <1>4, <1>8, <3>1
  <2> HIDE DEF x
  <2>2. \/ Once(x, a \o b) /\ Absent(x, c)
        \/ Absent(x, a \o b) /\ Once(x, c)
    BY <1>3, <2>1, ConcatOnce, Zenon
  <2>3. Once(x, (a \o b) \o c)
    BY <1>3, <1>5, <2>2, ConcatOnce, Zenon
  <2>4. QED
    BY <1>1, <2>3 DEF x
<1>9. QED
  BY <1>6, <1>7, <1>8

Fields == HpDataField \cup {Heartbeat}
Names == {"active_energy_import_total", "active_energy_export_total",
          "reactive_energy_import_total", "reactive_energy_export_total",
          "active_power_import", "active_power_export",
          "reactive_power_import", "reactive_power_export",
          "voltage_rms", "current_rms"}
RmsNames == {"voltage_rms", "current_rms"}
PhaseNames == Range(Power) \cup RmsNames

Active == SubSeq(Power, 1, 2)
Reactive == SubSeq(Power, 3, 4)
Voltage == <<"voltage_rms">>
Current == <<"current_rms">>
Rms == <<"voltage_rms", "current_rms">>
PowerAndRms == Power \o Rms

\* The pieces of the lists after MeterFields.
ActiveFields == EachPhase(Active)
ReactiveFields == EachPhase(Reactive)
VoltageFields == EachPhase(Voltage)
CurrentFields == EachPhase(Current)
PhaseFields == EachPhase(PowerAndRms)

\* The two halves of Power, written out.
LEMMA Halves ==
  /\ Active = <<"active_power_import", "active_power_export">>
  /\ Reactive = <<"reactive_power_import", "reactive_power_export">>
<1>1. /\ Len(Active) = 2 /\ Len(Reactive) = 2
      /\ \A k \in 1..2 : Active[k] = Power[k] /\ Reactive[k] = Power[k + 2]
  BY DEF Active, Reactive, Power
<1>2. Active \in Seq(Range(Power)) /\ Reactive \in Seq(Range(Power))
  BY DEF Active, Reactive, Power, Range
<1>3. QED
  BY <1>1, <1>2 DEF Power

\* The lists of names are sequences of names.
LEMMA Lists ==
  /\ Energy \in Seq(Names) /\ Power \in Seq(Names)
  /\ Active \in Seq(Names) /\ Reactive \in Seq(Names)
  /\ Voltage \in Seq(Names) /\ Current \in Seq(Names) /\ Rms \in Seq(Names)
<1>1. Power \in Seq(Names) /\ Energy \in Seq(Names)
  BY DEF Power, Energy, Names
<1>2. /\ Voltage \in Seq(Names) /\ Current \in Seq(Names) /\ Rms \in Seq(Names)
  BY DEF Voltage, Current, Rms, Names
<1>3. /\ Active \in Seq(Names) /\ Reactive \in Seq(Names)
  BY Halves DEF Names
<1>4. QED
  BY <1>1, <1>2, <1>3

\* A power is once in Power and in one of its halves, and in no other list.
LEMMA PowerOnce ==
  ASSUME NEW v \in Range(Power)
  PROVE  /\ Once(v, Power) /\ Absent(v, Energy) /\ Absent(v, Voltage)
         /\ Absent(v, Current) /\ Absent(v, Rms)
         /\ \/ Once(v, Active) /\ Absent(v, Reactive)
            \/ Absent(v, Active) /\ Once(v, Reactive)
<1>1. Once(v, Power)
  BY DEF Once, Power, Range
<1>2. /\ Absent(v, Energy) /\ Absent(v, Voltage)
      /\ Absent(v, Current) /\ Absent(v, Rms)
  BY DEF Absent, Power, Range, Energy, Voltage, Current, Rms
<1>3. \/ Once(v, Active) /\ Absent(v, Reactive)
      \/ Absent(v, Active) /\ Once(v, Reactive)
  BY Halves DEF Absent, Once, Power, Range
<1>4. QED
  BY <1>1, <1>2, <1>3

\* An energy is once in Energy, and no power.
LEMMA EnergyOnce ==
  \A v \in Range(Energy) : Once(v, Energy) /\ Absent(v, Power)
BY DEF Absent, Once, Power, Energy, Range

\* The other names, each in its own lists only.
LEMMA OtherOnce ==
  /\ \A v \in RmsNames :
       /\ Absent(v, Power) /\ Absent(v, Active) /\ Absent(v, Reactive)
       /\ Once(v, Rms)
  /\ Once("voltage_rms", Voltage) /\ Absent("voltage_rms", Current)
  /\ Once("current_rms", Current) /\ Absent("current_rms", Voltage)
  /\ Absent("heartbeat", Energy) /\ Absent("heartbeat", Power)
BY Halves DEF Once, Absent, Power, Energy, Voltage, Current, Rms, RmsNames

\* The pieces of the meter's fields hold fields.
LEMMA MeterType ==
  /\ <<Heartbeat>> \in Seq(Fields) /\ OfPhase(0, Energy) \in Seq(Fields)
  /\ OfPhase(0, Power) \in Seq(Fields)
  /\ <<Heartbeat>> \o OfPhase(0, Energy) \in Seq(Fields)
  /\ MeterFields \in Seq(Fields)
<1>1. <<Heartbeat>> \in Seq(Fields)
  BY DEF Fields
<1>2. /\ \A k \in DOMAIN Energy : <<0, Energy[k]>> \in Fields
      /\ \A k \in DOMAIN Power : <<0, Power[k]>> \in Fields
  BY DEF Fields, HpDataField, Range
<1>3. OfPhase(0, Energy) \in Seq(Fields)  /\ OfPhase(0, Power) \in Seq(Fields)
  BY <1>2, OfPhaseOnce, Lists, 0 \in 0..3, Zenon
<1>4. QED
  BY <1>1, <1>3 DEF MeterFields

\* So do the pieces of the phases' fields.
LEMMA PhaseType ==
  /\ ActiveFields \in Seq(Fields) /\ ReactiveFields \in Seq(Fields)
  /\ VoltageFields \in Seq(Fields) /\ CurrentFields \in Seq(Fields)
  /\ PhaseFields \in Seq(Fields) /\ PowerAndRms \in Seq(Names)
<1>1. \A p \in 1..3 : \A v \in PhaseNames : <<p, v>> \in Fields
  BY DEF Fields, HpDataField, PhaseNames, RmsNames
<1>2. ASSUME NEW q \in Seq(Names),
             \A k \in DOMAIN q : q[k] \in PhaseNames
      PROVE  EachPhase(q) \in Seq(Fields)
  BY <1>1, <1>2, EachPhaseOnce, Zenon
<1>3. /\ \A k \in DOMAIN Active : Active[k] \in Range(Power)
      /\ \A k \in DOMAIN Reactive : Reactive[k] \in Range(Power)
      /\ \A k \in DOMAIN Power : Power[k] \in Range(Power)
  BY Halves DEF Range, Power
<1>4. /\ \A k \in DOMAIN Voltage : Voltage[k] = "voltage_rms"
      /\ \A k \in DOMAIN Current : Current[k] = "current_rms"
      /\ \A k \in DOMAIN Rms : Rms[k] \in RmsNames
  BY DEF Voltage, Current, Rms, RmsNames
<1>5. PowerAndRms \in Seq(Names)
  BY Lists DEF PowerAndRms
<1>6. \A k \in DOMAIN PowerAndRms : PowerAndRms[k] \in PhaseNames
  BY Lists, <1>3, <1>4 DEF PowerAndRms, PhaseNames
<1>7. QED
  <2>1. \A v : v \in Range(Power) \/ v = "voltage_rms" \/ v = "current_rms"
                 => v \in PhaseNames
    BY DEF PhaseNames, RmsNames
  <2>2. QED
    BY <1>2, <1>3, <1>4, <1>5, <1>6, <2>1, Lists, Zenon
       DEF ActiveFields, ReactiveFields, VoltageFields, CurrentFields,
           PhaseFields

\* The heartbeat and every field of the whole meter are once in MeterFields,
\* and no phase's field is there.
LEMMA MeterOnce ==
  /\ Once(Heartbeat, MeterFields)
  /\ \A v \in Range(Energy) \cup Range(Power) : Once(<<0, v>>, MeterFields)
  /\ \A p \in 1..3 : \A v : Absent(<<p, v>>, MeterFields)
<1> DEFINE h == <<Heartbeat>>
           e == OfPhase(0, Energy)
           w == OfPhase(0, Power)
<1>1. /\ Once(Heartbeat, h)
      /\ \A v \in Range(Energy) \cup Range(Power) : Absent(<<0, v>>, h)
      /\ \A p \in 1..3 : \A v : Absent(<<p, v>>, h)
  <2>1. \A v \in Range(Energy) \cup Range(Power) : v # "heartbeat"
    BY DEF Energy, Power, Range
  <2>2. QED
    BY <2>1 DEF Once, Absent, Heartbeat
<1>2. /\ \A v \in Range(Energy) : Once(<<0, v>>, e) /\ Absent(<<0, v>>, w)
      /\ \A v \in Range(Power) : Once(<<0, v>>, w) /\ Absent(<<0, v>>, e)
      /\ Absent(Heartbeat, e) /\ Absent(Heartbeat, w)
      /\ \A p \in 1..3 : \A v : Absent(<<p, v>>, e) /\ Absent(<<p, v>>, w)
  <2>1. \A p \in 1..3 : p # 0
    OBVIOUS
  <2>2. QED
    BY <2>1, OfPhaseOnce, Lists, EnergyOnce, PowerOnce, OtherOnce,
       0 \in 0..3, Zenon DEF Heartbeat
<1>3. MeterFields = (h \o e) \o w
  BY DEF MeterFields
<1>4. /\ h \in Seq(Fields) /\ e \in Seq(Fields) /\ w \in Seq(Fields)
      /\ h \o e \in Seq(Fields)
  BY MeterType
<1> HIDE DEF h, e, w
<1>5. ASSUME NEW x,
         \/ Once(x, h) /\ Absent(x, e) /\ Absent(x, w)
         \/ Absent(x, h) /\ Once(x, e) /\ Absent(x, w)
         \/ Absent(x, h) /\ Absent(x, e) /\ Once(x, w)
      PROVE Once(x, MeterFields)
  <2>1. \/ Once(x, h \o e) /\ Absent(x, w)
        \/ Absent(x, h \o e) /\ Once(x, w)
    BY <1>4, <1>5, ConcatOnce, Zenon
  <2>2. QED
    BY <1>3, <1>4, <2>1, ConcatOnce, Zenon
<1>6. ASSUME NEW x, Absent(x, h), Absent(x, e), Absent(x, w)
      PROVE Absent(x, MeterFields)
  <2>1. Absent(x, h \o e)
    BY <1>4, <1>6, ConcatOnce, Zenon
  <2>2. QED
    BY <1>3, <1>4, <1>6, <2>1, ConcatOnce, Zenon
<1>7. \A v \in Range(Energy) \cup Range(Power) : Once(<<0, v>>, MeterFields)
  BY <1>1, <1>2, <1>5
<1>8. \A p \in 1..3 : \A v : Absent(<<p, v>>, MeterFields)
  BY <1>1, <1>2, <1>6, Zenon
<1>9. Once(Heartbeat, MeterFields)
  BY <1>1, <1>2, <1>5
<1>10. QED
  BY <1>7, <1>8, <1>9

\* Every field is once in one piece of each list, and in no other piece.
LEMMA PiecesOnce ==
  ASSUME NEW x \in Fields
  PROVE  /\ \/ /\ Once(x, MeterFields)
               /\ NoneOf(x, ActiveFields, ReactiveFields, VoltageFields,
                         CurrentFields)
            \/ /\ Absent(x, MeterFields)
               /\ OneOf(x, ActiveFields, ReactiveFields, VoltageFields,
                        CurrentFields)
         /\ \/ Once(x, MeterFields) /\ Absent(x, PhaseFields)
            \/ Absent(x, MeterFields) /\ Once(x, PhaseFields)
<1>1. 0 \notin 1..3
  OBVIOUS
<1>2. CASE \/ x = Heartbeat
           \/ \E v \in Range(Energy) \cup Range(Power) : x = <<0, v>>
  <2>1. PICK v : x = <<0, v>> /\ Once(x, MeterFields)
    BY <1>2, MeterOnce, Zenon DEF Heartbeat
  <2>2. QED
    BY <1>1, <2>1, EachPhaseOnce, Lists, PhaseType, Zenon
       DEF ActiveFields, ReactiveFields, VoltageFields, CurrentFields,
           PhaseFields, NoneOf
<1>3. CASE \E p \in 1..3 : \E v \in PhaseNames : x = <<p, v>>
  <2>1. PICK p \in 1..3, v \in PhaseNames : x = <<p, v>>
    BY <1>3
  <2>2. /\ Once(v, PowerAndRms)
        /\ OneOf(v, Active, Reactive, Voltage, Current)
    <3>1. CASE v \in Range(Power)
      <4>1. Once(v, PowerAndRms)
        BY <3>1, PowerOnce, ConcatOnce, Lists, Zenon DEF PowerAndRms
      <4>2. QED
        BY <3>1, <4>1, PowerOnce, Zenon DEF OneOf
    <3>2. CASE v \in RmsNames
      <4>1. Once(v, PowerAndRms)
        BY <3>2, OtherOnce, ConcatOnce, Lists, Zenon DEF PowerAndRms
      <4>2. v = "voltage_rms" \/ v = "current_rms"
        BY <3>2 DEF RmsNames
      <4>3. QED
        BY <3>2, <4>1, <4>2, OtherOnce, Zenon DEF OneOf
    <3>3. QED
      BY <3>1, <3>2 DEF PhaseNames
  <2>3. /\ Absent(x, MeterFields) /\ Once(x, PhaseFields)
    BY <2>1, <2>2, MeterOnce, EachPhaseOnce, PhaseType, Zenon DEF PhaseFields
  <2>4. OneOf(x, ActiveFields, ReactiveFields, VoltageFields, CurrentFields)
    BY <2>1, <2>2, EachPhaseOnce, Lists, Zenon
       DEF ActiveFields, ReactiveFields, VoltageFields, CurrentFields, OneOf
  <2>5. QED
    BY <2>3, <2>4
<1>4. \/ x = Heartbeat
      \/ \E v \in Range(Energy) \cup Range(Power) : x = <<0, v>>
      \/ \E p \in 1..3 : \E v \in PhaseNames : x = <<p, v>>
  BY DEF Fields, HpDataField, PhaseNames, RmsNames
<1>5. QED
  BY <1>2, <1>3, <1>4

\* Both lists hold fields, and every field once.
LEMMA ListsComplete ==
  /\ make_regs \in Seq(Fields) /\ publishIndividualFields \in Seq(Fields)
  /\ \A x \in Fields : Once(x, make_regs) /\ Once(x, publishIndividualFields)
<1>1. /\ make_regs = MeterFields \o ActiveFields \o ReactiveFields
                       \o VoltageFields \o CurrentFields
      /\ publishIndividualFields = MeterFields \o PhaseFields
  BY Zenon DEF make_regs, publishIndividualFields, ActiveFields,
     ReactiveFields, VoltageFields, CurrentFields, PhaseFields, PowerAndRms,
     Active, Reactive, Voltage, Current, Rms
<1>2. make_regs \in Seq(Fields) /\ publishIndividualFields \in Seq(Fields)
  BY <1>1, MeterType, PhaseType
<1>3. \A x \in Fields : Once(x, make_regs)
  BY <1>1, PiecesOnce, FourPieces, MeterType, PhaseType, Zenon
<1>4. \A x \in Fields : Once(x, publishIndividualFields)
  BY <1>1, PiecesOnce, ConcatOnce, MeterType, PhaseType, Zenon
<1>5. QED
  BY <1>2, <1>3, <1>4

-----------------------------------------------------------------------------
(* What holds of every value that comes in.                                *)

InRange ==
  /\ field \in HpDataField \cup {Heartbeat}
  /\ power \in Nat /\ power < 10^7
  /\ number \in Nat /\ number + 1 < 2 * Pow(30)

\* A count is a number again.
LEMMA Counts == \A n \in Nat : n + 1 \in Nat
BY SMT

\* No step leaves the ranges.
LEMMA RangeKept == EncodingSpec => []InRange
<1>1. EncodingInit => InRange
  BY PowersOfTwo, SMT DEF EncodingInit, InRange
<1>2. InRange /\ [EncodingNext]_encodingVars => InRange'
  <2> SUFFICES ASSUME InRange, [EncodingNext]_encodingVars PROVE InRange'
    OBVIOUS
  <2>1. CASE Measured
    BY <2>1, EncodingAssumption DEF Measured, InRange
  <2>2. CASE Counted
    <3>1. number' \in Nat /\ (number' + 1) \div 2^30 < 2
      BY <2>2, EncodingAssumption DEF Counted
    <3>2. PICK p \in Nat : p = Pow(30) /\ p > 0
      BY PowersOfTwo, SMT
    <3>3. (number' + 1) \div p < 2
      BY <3>1, <3>2 DEF Pow
    <3>4. number' + 1 < 2 * p
      <4> DEFINE a == number' + 1
      <4>1. number' + 1 \in Nat
        BY <3>1, Counts
      <4> HIDE DEF a
      <4>0. a \in Nat
        BY <4>1 DEF a
      <4>2. PICK q \in Nat : q = a \div p
        BY <3>2, <4>0, SMT
      <4>3. a < p * q + p
        BY <3>2, <4>0, <4>2, SMT
      <4>4. a \div p < 2
        BY <3>3 DEF a
      <4>5. q = 0 \/ q = 1
        BY <4>2, <4>4, SMT
      <4>6. a < 2 * p
        BY <3>2, <4>0, <4>3, <4>5, SMT
      <4> QED
        BY <4>6 DEF a
    <3>5. number' + 1 < 2 * Pow(30)
      BY <3>2, <3>4
    <3> QED
      BY <2>2, <3>1, <3>5 DEF Counted, InRange
  <2>3. CASE UNCHANGED encodingVars
    BY <2>3 DEF InRange, encodingVars
  <2> QED
    BY <2>1, <2>2, <2>3 DEF EncodingNext
<1> QED
  BY <1>1, <1>2, PTL DEF EncodingSpec

\* Every power that has the four digits of kilowatts of a telegram loses at
\* most a watt between the telegram and its register (hpModbuss.cpp:259).
THEOREM PowersTheorem == EncodingSpec => []AtMostOneWattLost
<1>1. InRange => AtMostOneWattLost
  BY WattsBounds DEF InRange, AtMostOneWattLost
<1> QED
  BY <1>1, RangeKept, PTL

\* The topic and the register of every such power tell the same, but for the
\* rounding and the lost watt (hpMqttPub.cpp:129, hpModbuss.cpp:259).
THEOREM ChannelsTheorem == EncodingSpec => []ChannelsClose
<1>1. InRange => ChannelsClose
  <2> SUFFICES ASSUME InRange PROVE ChannelsClose
    OBVIOUS
  <2>1. PICK m \in Nat : m = power /\ m < 10^7
    BY DEF InRange
  <2>2. Watts(m) = m \/ Watts(m) = m - 1
    BY <2>1, WattsBounds
  <2>3. /\ Hundredths(m) \in Int
        /\ -5 <= 10 * Hundredths(m) - m /\ 10 * Hundredths(m) - m <= 5
    BY HundredthsBounds
  <2>4. 10 * Hundredths(m) - Watts(m) \in -5..6
    BY <2>2, <2>3, SMT
  <2> QED
    BY <2>1, <2>4 DEF ChannelsClose
<1> QED
  BY <1>1, RangeKept, PTL

\* The heartbeat's topic is exact up to 2^24, and from there to the largest
\* int it never goes back nor is it further off than half the distance of
\* the floats (hpMqttPub.cpp:139).
THEOREM HeartbeatTheorem == EncodingSpec => []HeartbeatTold
<1>1. InRange => HeartbeatTold
  <2> SUFFICES ASSUME InRange PROVE HeartbeatTold
    OBVIOUS
  <2>1. number \in Nat /\ number + 1 < 2 * Pow(30) /\ number < 2 * Pow(30)
    BY PowersOfTwo, SMT DEF InRange
  <2> QED
    BY <2>1, AsFloatNear, AsFloatGrows DEF HeartbeatTold
<1> QED
  BY <1>1, RangeKept, PTL

\* The registers of every heartbeat, and of its negative, give it back
\* (hpModbuss.cpp:227-241).
THEOREM RoundTripTheorem == EncodingSpec => []WordsRoundTrip
<1>1. InRange => WordsRoundTrip
  <2> SUFFICES ASSUME InRange, NEW n \in {number, -number}
               PROVE  from_regs(to_regs(n)) = n
    BY DEF WordsRoundTrip
  <2>1. n \in Int /\ -32768 * 65536 <= n /\ n < 32768 * 65536
    BY PowersOfTwo, SMT DEF InRange
  <2> QED
    BY <2>1, WordsTheorem
<1> QED
  BY <1>1, RangeKept, PTL

\* No field of hpData lacks a register or a topic, or has two: the registers
\* and the topics are the same fields (hpModbuss.cpp:254-284,
\* hpMqttPub.cpp:139-175).
THEOREM FieldsTheorem == EncodingSpec => []EveryFieldOnce
<1>1. InRange => EveryFieldOnce
  <2> SUFFICES ASSUME InRange,
                      NEW fields \in {make_regs, publishIndividualFields}
               PROVE  /\ Once(field, fields)
                      /\ Range(fields) \subseteq HpDataField \cup {Heartbeat}
    BY DEF EveryFieldOnce, Once
  <2>1. Once(field, fields)
    BY ListsComplete DEF InRange, Fields
  <2>2. fields \in Seq(Fields)
    BY ListsComplete
  <2>3. QED
    BY <2>1, <2>2 DEF Range, Fields
<1> QED
  BY <1>1, RangeKept, PTL
=============================================================================
