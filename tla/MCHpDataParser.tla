--------------------------- MODULE MCHpDataParser ---------------------------
(* The small instance of HpDataParser: telegrams of one line with any code *)
(* of the table, and of up to three lines with three of the codes, two of  *)
(* which share a field.                                                    *)
EXTENDS HpObisTable

SharedField == {<<63, 7>>, <<64, 7>>, <<21, 7>>}
SomeLine ==
  {l \in Line : IF l.kind = "data" THEN l.obis \in SharedField
                                   ELSE l.kind = "clock"}

OneOrThreeLines == [1..1 -> Line] \cup UNION {[1..n -> SomeLine] : n \in 0..3}
=============================================================================
