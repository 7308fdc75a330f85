------------------------------ MODULE HpEncoding ----------------------------
(***************************************************************************)
(* How a field of hpData is written into registers (hpModbuss.cpp) and     *)
(* payloads (hpMqttPub.cpp): the words of a number, the watts of a power   *)
(* that was parsed into a float, the two decimals of its payload, and the  *)
(* heartbeat as a float.  A step is the next value of a field.             *)
(*                                                                         *)
(* A power is the number m of its thousandths in the telegram, and L the   *)
(* number of binary digits of m.  Its float is a multiple of 2^-Scale(m),  *)
(* and what it differs from m/1000 by is counted in thousandths of that:   *)
(* Excess(m).  TLC's integers have 32 bits, therefore a large power of two *)
(* is computed in two steps.                                               *)
(***************************************************************************)
EXTENDS Integers, HpData

CONSTANTS
  Powers,     \* thousandths of at most four digits of kilowatts
  Numbers     \* what the heartbeat counts up to, below 2^31 - 1

ASSUME EncodingAssumption ==
  /\ \A m \in Powers : m \in Nat /\ m < 10^7
  /\ \A n \in Numbers : n \in Nat /\ (n + 1) \div 2^30 < 2

VARIABLES field, power, number

encodingVars == <<field, power, number>>

BitLength(m) == CHOOSE l \in 1..31 : m \div 2^(l - 1) = 1

-----------------------------------------------------------------------------
(* float32: 24 binary digits.                                              *)

\* 2^Guard(m) thousandths of the float's last digit make a unit of the last
\* digit of m itself, written with 24 digits.
Guard(m) == IF 128 * m < 125 * 2^BitLength(m) THEN 10 ELSE 9
Scale(m) == Guard(m) + 24 - BitLength(m)

PowerOfTwoMod1000(n) == ((2^(n \div 2) % 1000) * 2^(n - n \div 2)) % 1000

\* std::stof rounds to the nearest float.
Excess(m) ==
  LET rest == ((m % 1000) * PowerOfTwoMod1000(Scale(m))) % 1000
  IN IF rest < 500 THEN -rest ELSE 1000 - rest

\* n/unit to the nearest integer, a half to the even one.
RoundedQuotient(n, unit) ==
  LET q == n \div unit
      rest == n % unit
  IN IF 2 * rest > unit \/ (2 * rest = unit /\ q % 2 = 1) THEN q + 1 ELSE q

\* Faulty variant: the cast binds closer than the product.
WattsCastFirst(m) == 1000 * (m \div 1000)

\* static_cast<int>(power * 1000): the product, m + Excess(m) * 2^-Scale(m),
\* is rounded to a float, whose distances halve below a power of two, and
\* then truncated.
Watts(m) ==
  IF m = 0 THEN 0
  ELSE LET finer == IF m = 2^(BitLength(m) - 1) /\ Excess(m) < 0 THEN 1 ELSE 0
           floats == 2^(24 - BitLength(m) + finer)    \* in a watt
           moved == RoundedQuotient(Excess(m), 2^(Guard(m) - finer))
       IN (m * floats + moved) \div floats

\* Faulty variant: the decimals are cut off.
HundredthsCut(m) == m \div 10

\* std::fixed << std::setprecision(2): the float to the nearest hundredth,
\* the even one if it lies between two.
Hundredths(m) ==
  LET up == \/ m % 10 > 5
            \/ m % 10 = 5 /\ Excess(m) > 0
            \/ m % 10 = 5 /\ Excess(m) = 0 /\ (m \div 10) % 2 = 1
  IN (m \div 10) + (IF up THEN 1 ELSE 0)

\* Faulty variant: the digits that do not fit are cut off.
AsFloatCut(n) ==
  IF n < 2^24 THEN n
  ELSE LET unit == 2^(BitLength(n) - 24) IN unit * (n \div unit)

\* An int passed as a float: 24 digits are kept, halves go to the even one.
AsFloat(n) ==
  IF n < 2^24 THEN n
  ELSE LET unit == 2^(BitLength(n) - 24) IN unit * RoundedQuotient(n, unit)

-----------------------------------------------------------------------------
(* The words of a number.                                                  *)

\* Faulty variant: the high word first.
to_regs_swapped(i) == <<(i \div 65536) % 65536, i % 65536>>

\* int_to_regs and float_to_regs: 32 bits as two words, the low one first.
to_regs(i) == <<i % 65536, (i \div 65536) % 65536>>

\* What a client makes of them that takes the second word, as a signed
\* number, for the high one.
from_regs(words) ==
  LET high == IF words[2] >= 32768 THEN words[2] - 65536 ELSE words[2]
  IN high * 65536 + words[1]

-----------------------------------------------------------------------------
(* The values that come in.                                                *)

EncodingInit == field = Heartbeat /\ power = 0 /\ number = 0

Measured ==
  field' \in HpDataField /\ power' \in Powers /\ UNCHANGED number
Counted ==
  field' = Heartbeat /\ number' \in Numbers /\ UNCHANGED power

EncodingNext == Measured \/ Counted

EncodingSpec == EncodingInit /\ [][EncodingNext]_encodingVars

-----------------------------------------------------------------------------
(* Properties.                                                             *)

\* A power register holds the watts of the telegram or one less, although
\* the kilowatts went through a float and were truncated (hpModbuss.cpp:259).
AtMostOneWattLost == Watts(power) \in {power, power - 1}

\* The topic and the register of a power tell the same but for the rounding
\* to a hundredth and the lost watt (hpMqttPub.cpp:129, hpModbuss.cpp:259).
ChannelsClose == 10 * Hundredths(power) - Watts(power) \in -5..6

\* The heartbeat's topic shows every count up to 2^24; beyond, it never goes
\* back, and differs by no more than half the distance of the floats there
\* (hpMqttPub.cpp:139).
HeartbeatTold ==
  LET far == IF number <= 2^24 THEN 0 ELSE 2^(BitLength(number) - 25)
  IN /\ AsFloat(number) - number \in -far..far
     /\ AsFloat(number) <= AsFloat(number + 1)

\* A client that puts the two registers together, the first one as the low
\* word, gets the number back, a negative one too (hpModbuss.cpp:227-241).
WordsRoundTrip ==
  \A n \in {number, -number} : from_regs(to_regs(n)) = n

\* Every field of hpData has one register pair and one topic, and nothing
\* else has (hpModbuss.cpp:254-284, hpMqttPub.cpp:139-175).
EveryFieldOnce ==
  \A fields \in {make_regs, publishIndividualFields} :
    /\ \E k \in DOMAIN fields :
         \A l \in DOMAIN fields : fields[l] = field <=> l = k
    /\ Range(fields) \subseteq HpDataField \cup {Heartbeat}
=============================================================================
