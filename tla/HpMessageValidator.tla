-------------------------- MODULE HpMessageValidator ------------------------
(***************************************************************************)
(* The validator of src/src/hpMessageValidator.cpp, one action per round   *)
(* of its loops: the split of a telegram at its first '!', the CRC text    *)
(* behind it, which std::stoi reads, the CRC-16 of the bytes up to the '!',*)
(* both delimiters included, and the lines.  The meter computes its CRC by *)
(* the textbook's division, and the line may disturb the telegram.         *)
(*                                                                         *)
(* A telegram is a sequence of bytes; a 16-bit word is the set of its one  *)
(* bits, so that exclusive or is the symmetric difference.  A polynomial   *)
(* is a set of places: place 0 is the first bit of a telegram, the lowest  *)
(* of its first byte, and has the highest exponent.                        *)
(***************************************************************************)
EXTENDS Integers, SequencesExt

CONSTANTS
  Body,     \* what the meter may send, up to the '!'
  Flips,    \* the bits that may be disturbed in each
  Garbled   \* what may arrive of each in place of its CRC text

Byte == 0..255
Word16 == 0..2^16 - 1
Bang == 33      \* '!'

\* hpRead returns four bytes behind the '!'.  A disturbance has at most 16
\* successive bits.
ASSUME TransmissionAssumption ==
  /\ \A body \in Body :
       /\ body \in Seq(Byte) /\ Len(body) > 0
       /\ \A k \in DOMAIN body : body[k] = Bang <=> k = Len(body)
  /\ \A body \in Body : \A places \in Flips[body] :
       /\ places \subseteq 0..8 * Len(body) - 1
       /\ \A b, c \in places : b - c <= 15
  /\ \A body \in Body : \A text \in Garbled[body] :
       text \in Seq(Byte) /\ Len(text) <= 4

VARIABLES
  sent, rest, divided,      \* the meter: telegram, dividend, quotient so far
  flips,                    \* what the line did to it
  raw_hp_message, hp_meter_data, crc_string, transmitted_crc, calculated_crc,
  str_arr,
  i, j, pc,
  quotient,                 \* history: the places where a one bit fell out
  from                      \* where the lines begin, and the next one would

meterVars == <<sent, rest, divided, flips>>
messageVars == <<raw_hp_message, hp_meter_data>>
crcVars == <<crc_string, transmitted_crc, calculated_crc, j, quotient>>
lineVars == <<str_arr, from>>
vars == <<meterVars, messageVars, crcVars, lineVars, i, pc>>

-----------------------------------------------------------------------------
(* Words, bits and polynomials.                                            *)

Bits(byte) == {k \in 0..7 : (byte \div 2^k) % 2 = 1}

Has(word, k) == IF k \in word THEN 1 ELSE 0
Nibble(word, k) ==
  Has(word, k) + 2 * Has(word, k + 1) + 4 * Has(word, k + 2)
    + 8 * Has(word, k + 3)
Number(word) ==
  Nibble(word, 0) + 16 * Nibble(word, 4) + 256 * Nibble(word, 8)
    + 4096 * Nibble(word, 12)

\* The word in four hexadecimal digits.
Digit(n) == IF n < 10 THEN 48 + n ELSE 55 + n
Hex(word) == <<Digit(Nibble(word, 12)), Digit(Nibble(word, 8)),
               Digit(Nibble(word, 4)), Digit(Nibble(word, 0))>>

\* The places of the one bits in the first n bytes.
Ones(data, n) == {t \in 0..8 * n - 1 : t % 8 \in Bits(data[(t \div 8) + 1])}
Moved(places, n) == {t + n : t \in places}

\* x^16 + x^15 + x^2 + 1, its highest exponent at place t; and its products.
Generator(t) == {t, t + 1, t + 14, t + 16}
Times(q) ==
  SymDiff(SymDiff(q, Moved(q, 1)), SymDiff(Moved(q, 14), Moved(q, 16)))

\* The data after a disturbance of these bits.
Flipped(data, places) ==
  [k \in DOMAIN data |->
     Number({b \in 0..7 : ~(b \in Bits(data[k])
                              <=> 8 * (k - 1) + b \in places)})]

-----------------------------------------------------------------------------
(* std::stoi(text, nullptr, 16).                                           *)

NoDigit == -1
IsSpace(b) == b \in 9..13 \cup {32}
HexValue(b) == CASE b \in 48..57 -> b - 48
                 [] b \in 65..70 -> b - 55
                 [] b \in 97..102 -> b - 87
                 [] OTHER -> NoDigit
IsHex(b) == HexValue(b) # NoDigit
\* Of four digits at most.
HexNumber(text) ==
  LET value(k) == IF k < Len(text) THEN HexValue(text[Len(text) - k]) ELSE 0
  IN value(0) + 16 * value(1) + 256 * value(2) + 4096 * value(3)

\* The first position of text from k on that fails Test, the end if none.
Behind(text, k, Test(_)) ==
  Min({m \in k..Len(text) : ~Test(text[m])} \cup {Len(text) + 1})
ByteAt(text, k) == IF k \in DOMAIN text THEN text[k] ELSE 0

\* Faulty variant: the prefix is not skipped.
PrefixKept(text, k) == k
\* Behind a prefix "0x", if a digit follows it.
PrefixSkipped(text, k) ==
  IF /\ ByteAt(text, k) = 48 /\ ByteAt(text, k + 1) \in {88, 120}
     /\ IsHex(ByteAt(text, k + 2))
  THEN k + 2 ELSE k

\* Blanks, a sign, "0x", and as many digits as there are; the rest is ignored.
Stoi(text) ==
  LET a == Behind(text, 1, IsSpace)
      signed == ByteAt(text, a) \in {43, 45}
      c == PrefixSkipped(text, IF signed THEN a + 1 ELSE a)
      end == Behind(text, c, IsHex)
      number == HexNumber(SubSeq(text, c, end - 1))
  IN [ok |-> end # c,
      value |-> IF signed /\ text[a] = 45 THEN -number ELSE number]

\* What text denotes: the blanks up to a, perhaps a sign at b, "0x" up to c
\* and the digits up to d, as much of each as there is, are a number.
Splits(text, a, b, c, d) ==
  /\ \A k \in 1..a : IsSpace(text[k])
  /\ ~IsSpace(text[a + 1])
  /\ IF b = a THEN text[a + 1] \notin {43, 45} ELSE text[b] \in {43, 45}
  /\ c # b => text[b + 1] = 48 /\ text[b + 2] \in {88, 120}
  /\ \A k \in c + 1..d : IsHex(text[k])
  /\ d < Len(text) => ~IsHex(text[d + 1])
Denotations(text) ==
  LET n == Len(text)
      candidates == {<<a, a + s, a + s + x, d>> :
                       a \in 0..n, s \in 0..1, x \in {0, 2}, d \in 1..n}
      splits == {s \in candidates :
                   s[4] > s[3] /\ Splits(text, s[1], s[2], s[3], s[4])}
      longest == {s \in splits : \A u \in splits : u[3] <= s[3]}
      sign(s) == IF s[2] > s[1] /\ text[s[2]] = 45 THEN -1 ELSE 1
  IN {sign(s) * HexNumber(SubSeq(text, s[3] + 1, s[4])) : s \in longest}

-----------------------------------------------------------------------------
(* The meter and the line.                                                 *)

Init ==
  /\ sent \in Body
  /\ rest = Ones(sent, Len(sent)) /\ divided = {} /\ flips = {}
  /\ raw_hp_message = <<>> /\ hp_meter_data = <<>> /\ crc_string = <<>>
  /\ transmitted_crc = 0 /\ calculated_crc = {} /\ quotient = {}
  /\ str_arr = <<>> /\ from = <<1>>
  /\ i = 0 /\ j = 0 /\ pc = "meter"

MeterDivides ==
  /\ pc = "meter" /\ i < 8 * Len(sent)
  /\ rest' = IF i \in rest THEN SymDiff(rest, Generator(i)) ELSE rest
  /\ divided' = IF i \in rest THEN divided \cup {i} ELSE divided
  /\ i' = i + 1
  /\ UNCHANGED <<sent, flips, messageVars, crcVars, lineVars, pc>>

\* The meter's CRC: the remainder, as a word.
Remainder == {t - 8 * Len(sent) : t \in rest}

\* extract_message: the data go up to the first '!'; without one it throws.
exclamation_pos(raw) == SelectInSeq(raw, LAMBDA b : b = Bang)   \* 0: none
Receive(places, text) ==
  /\ pc = "meter" /\ i = 8 * Len(sent)
  /\ flips' = places
  /\ raw_hp_message' = Flipped(sent, places) \o text
  /\ LET bang == exclamation_pos(raw_hp_message')
     IN /\ hp_meter_data' = SubSeq(raw_hp_message', 1, bang)
        /\ i' = bang
        /\ pc' = IF bang = 0 THEN "threw" ELSE "text"
  /\ UNCHANGED <<sent, rest, divided, crcVars, lineVars>>

Construct ==
  \/ \E places \in Flips[sent] : Receive(places, Hex(Remainder))
  \/ \E text \in Garbled[sent] : Receive({}, text)

-----------------------------------------------------------------------------
(* extract_crc.                                                            *)

TextByte ==
  /\ pc = "text" /\ i < Len(raw_hp_message)
  /\ i' = i + 1
  /\ crc_string' = IF raw_hp_message[i + 1] \in {10, 13} THEN crc_string
                   ELSE Append(crc_string, raw_hp_message[i + 1])
  /\ UNCHANGED <<meterVars, messageVars, transmitted_crc, calculated_crc, j,
                 quotient, lineVars, pc>>

\* static_cast<uint16_t>.
Cast16(n) == n % 2^16

ReadCrc ==
  /\ pc = "text" /\ i = Len(raw_hp_message)
  /\ LET number == Stoi(crc_string)
     IN IF number.ok THEN /\ transmitted_crc' = Cast16(number.value)
                          /\ i' = 0 /\ pc' = "byte"
                     ELSE pc' = "threw" /\ UNCHANGED <<transmitted_crc, i>>
  /\ UNCHANGED <<meterVars, messageVars, crc_string, calculated_crc, j,
                 quotient, lineVars>>

-----------------------------------------------------------------------------
(* calculate_crc.                                                          *)

\* Faulty variant: the byte is assigned, not xored in.
ByteAssigned(crc, byte) == Bits(byte)
ByteXored(crc, byte) == SymDiff(crc, Bits(byte))

XorByte ==
  /\ pc = "byte" /\ i < Len(hp_meter_data)
  /\ calculated_crc' = ByteXored(calculated_crc, hp_meter_data[i + 1])
  /\ j' = 0 /\ pc' = "bit"
  /\ UNCHANGED <<meterVars, messageVars, crc_string, transmitted_crc, quotient,
                 lineVars, i>>

\* crc >>= 1, with 0xA001 xored in if a one bit fell out.
Shifted(crc) ==
  LET right == {k - 1 : k \in crc \ {0}}
  IN IF 0 \in crc THEN SymDiff(right, {15, 13, 0}) ELSE right

ShiftBit ==
  /\ pc = "bit"
  /\ calculated_crc' = Shifted(calculated_crc)
  /\ quotient' = IF 0 \in calculated_crc THEN quotient \cup {8 * i + j}
                                         ELSE quotient
  /\ IF j = 7 THEN j' = 0 /\ i' = i + 1 /\ pc' = "byte"
              ELSE j' = j + 1 /\ UNCHANGED <<i, pc>>
  /\ UNCHANGED <<meterVars, messageVars, crc_string, transmitted_crc, lineVars>>

\* main compares the two: the data are accepted or an exception rejects them.
Accepted == transmitted_crc = Number(calculated_crc)
Compare ==
  /\ pc = "byte" /\ i = Len(hp_meter_data)
  /\ pc' = IF Accepted THEN "lines" ELSE "rejected"
  /\ UNCHANGED <<meterVars, messageVars, crcVars, lineVars, i>>

-----------------------------------------------------------------------------
(* message_to_string_arr.                                                  *)

\* Faulty variant: a last line without a line end is lost.
LinesEndedOnly(data, k) == data[k] = 10
\* getline: a line ends at '\n', the last one at the end of the data.
LineEnds(data, k) == data[k] = 10 \/ k = Len(data)

\* A line from its first byte to byte e, the line end left out.
LineTo(e) ==
  LET ended == hp_meter_data[e] = 10
  IN /\ str_arr' = Append(str_arr, SubSeq(hp_meter_data, Last(from),
                                          IF ended THEN e - 1 ELSE e))
     /\ from' = Append(from, IF ended THEN e + 1 ELSE e + 2)

GetLine ==
  /\ pc = "lines"
  /\ \E e \in Last(from)..Len(hp_meter_data) :
       /\ LineEnds(hp_meter_data, e)
       /\ \A k \in Last(from)..e - 1 : ~LineEnds(hp_meter_data, k)
       /\ LineTo(e)
  /\ UNCHANGED <<meterVars, messageVars, crcVars, i, pc>>

LinesDone ==
  /\ pc = "lines"
  /\ \A e \in Last(from)..Len(hp_meter_data) : ~LineEnds(hp_meter_data, e)
  /\ pc' = "parser"
  /\ UNCHANGED <<meterVars, messageVars, crcVars, lineVars, i>>

Next == \/ MeterDivides \/ Construct \/ TextByte \/ ReadCrc
        \/ XorByte \/ ShiftBit \/ Compare \/ GetLine \/ LinesDone

Spec == Init /\ [][Next]_vars

-----------------------------------------------------------------------------
(* Properties.                                                             *)

TypeOK ==
  /\ sent \in Body /\ rest \subseteq Nat /\ divided \subseteq Nat
  /\ flips \subseteq 0..8 * Len(sent) - 1
  /\ raw_hp_message \in Seq(Byte) /\ hp_meter_data \in Seq(Byte)
  /\ crc_string \in Seq(Byte) /\ transmitted_crc \in Word16
  /\ calculated_crc \subseteq 0..15 /\ quotient \subseteq Nat
  /\ str_arr \in Seq(Seq(Byte))
  /\ from \in Seq(Nat \ {0}) /\ Len(from) = Len(str_arr) + 1
  /\ i \in Nat /\ j \in 0..7
  /\ pc \in {"meter", "text", "byte", "bit", "lines", "parser", "rejected",
             "threw"}

\* The shifting loop computes the CRC-16 of the data, disturbed or not: the
\* bits of the data, lowest first, and of the CRC behind them are a multiple
\* of the generator (hpMessageValidator.cpp:65-79).
CrcIsRemainder ==
  LET n == Len(hp_meter_data)
  IN pc = "byte" /\ i = n =>
       /\ quotient \subseteq 0..8 * n - 1
       /\ SymDiff(Ones(hp_meter_data, n), Moved(calculated_crc, 8 * n))
            = Times(quotient)

\* A telegram that arrives with its CRC text is accepted, and after a
\* disturbance of up to 16 successive bits of its data rejected, unless that
\* moved the first '!' (hpMessageValidator.cpp:14-79).
BurstsRejected ==
  /\ pc \in {"lines", "parser", "rejected", "threw"}
  /\ Len(hp_meter_data) = Len(sent) /\ crc_string = Hex(Remainder)
  => (pc \in {"lines", "parser"} <=> flips = {})

\* The CRC text is read if it starts with a number, and then as that number:
\* blanks, a sign, a prefix and what follows the digits are let pass
\* (hpMessageValidator.cpp:55-62).
CrcTextDenotes ==
  pc \in {"lines", "rejected", "threw"} /\ hp_meter_data # <<>> =>
    {n % 2^16 : n \in Denotations(crc_string)}
      = IF pc = "threw" THEN {} ELSE {transmitted_crc}

\* The lines handed to the parser are the data, to the last byte: the pieces
\* between its line ends (hpMessageValidator.cpp:82-94).
LinesRejoin ==
  /\ \A k \in DOMAIN str_arr :
       /\ str_arr[k] = SubSeq(hp_meter_data, from[k], from[k + 1] - 2)
       /\ 10 \notin Range(str_arr[k])
       /\ k > 1 => hp_meter_data[from[k] - 1] = 10
  /\ from[1] = 1
  /\ pc = "parser" =>
       str_arr # <<>> /\ from[Len(str_arr) + 1] = Len(hp_meter_data) + 2
=============================================================================
