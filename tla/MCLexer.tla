------------------------------- MODULE MCLexer -------------------------------
(***************************************************************************)
(* All texts of up to four characters over an alphabet that has a          *)
(* representative for every distinction the scanner makes.                 *)
(***************************************************************************)
EXTENDS Lexer

Alphabet == {"i", "f", "0", "8", "x", "=", "!", "/", "(", " ", "\n", "$"}
ShortTexts == UNION {[1 .. n -> Alphabet] : n \in 0 .. 4}
=============================================================================
