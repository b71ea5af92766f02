------------------------------ MODULE MCBorder ------------------------------
(***************************************************************************)
(* The instance of Border for TLC.                                         *)
(*                                                                         *)
(* Bytes have four bits and coordinates two bytes: the lengths of the DER  *)
(* forms lie on both sides of the limit of the short form, which is 8.     *)
(* Names have up to two characters over two letters in both cases, a sign  *)
(* and a character that is not supported; a digest is two numbers below 8, *)
(* written to the base 3, so that some texts of two digits are too large.  *)
(***************************************************************************)
EXTENDS Border

-----------------------------------------------------------------------------
MCByte == 16
MCWidth == 2
MCSequenceTag == 3
MCIntegerTag == 2

MCOutputs == UNION {[1..n -> {0, 1, 7, 8, 15}] : n \in {0, 3, 4, 5}}

MCBlobs ==
    [header : {TRUE}, magic : BOOLEAN, cbKey : {1, 2, 3},
     body : UNION {[1..n -> {0, 1, 15}] : n \in 0..5}]
      \cup {[header |-> FALSE, magic |-> TRUE, cbKey |-> 2, body |-> <<>>]}

MCCurve == {<<x, y>> \in (0..255) \X {0, 1, 15, 16, 17, 31, 240, 241, 255} :
              (x + y) % 3 = 1}

-----------------------------------------------------------------------------
MCSupported == {"a", "A", "b", "B", "-"}
MCLetter == [c \in MCSupported \cup {"?"} |->
                CASE c \in {"a", "A"} -> 0 [] c \in {"b", "B"} -> 1
                  [] c = "-" -> 2 [] OTHER -> 3]
MCUpcase == [c \in MCSupported |->
                CASE c = "a" -> "A" [] c = "b" -> "B" [] OTHER -> c]

Words(S, n) == UNION {[1..k -> S] : k \in 0..n}

MCMaxNameLength == 2
MCNames == Words(MCSupported \cup {"?"}, 2) \cup {<<"a", "b", "a">>}

MCBase == 3
MCLimit == 8
MCMaxDigits == 2
MCCount == 2

Position == [c \in MCSupported |->
                CASE c = "a" -> 0 [] c = "A" -> 1 [] c = "b" -> 2 [] c = "B" -> 3
                  [] OTHER -> 4]

\* Numbers the names.
Code(name) ==
    IF Len(name) = 1 THEN Position[name[1]]
    ELSE 5 + 5 * Position[name[1]] + Position[name[2]]

MCDigest == [name \in Words(MCSupported, 2) \ {<<>>} |->
                <<7 - (Code(name) % 8), Code(name) \div 8>>]

MCTexts ==
    Words(Words(0..2, 3), 2) \cup [1..3 -> Words(0..2, 1)]

-----------------------------------------------------------------------------
MCIdleValue == [length |-> 1, content |-> "x"]
MCIdleOutput == <<>>
=============================================================================
