------------------------------ MODULE Numerals ------------------------------
(***************************************************************************)
(* Numbers and the digits they are written with to a base, the most        *)
(* significant digit first: decimal texts, and bytes in big-endian order.  *)
(***************************************************************************)
EXTENDS Integers, Sequences

DigitsTo(base) == 0..(base - 1)

\* The number that digits stand for.
NumberOf(base) ==
    LET number[digits \in Seq(DigitsTo(base))] ==
            IF digits = <<>> THEN 0
            ELSE base * number[SubSeq(digits, 1, Len(digits) - 1)] + digits[Len(digits)]
    IN  number

\* The digits of a number, as many as it takes.
NumeralOf(base) ==
    LET numeral[n \in Nat] ==
            IF n < base THEN <<n>> ELSE Append(numeral[n \div base], n % base)
    IN  numeral

\* The last digits of a number, as many as are asked for.
LastDigitsOf(base) ==
    LET digits[w \in Nat] ==
            [n \in Nat |-> IF w = 0 THEN <<>>
                           ELSE Append(digits[w - 1][n \div base], n % base)]
    IN  digits
=============================================================================
