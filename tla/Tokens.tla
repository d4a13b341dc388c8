------------------------------- MODULE Tokens -------------------------------
(***************************************************************************)
(* The tokens of the compiler's source language, shared by the scanner     *)
(* (Lexer) and the parser (Parser).  A character is a string of length     *)
(* one, a text a sequence of characters.  A token is a record with its     *)
(* type and, for identifiers and literals, the text it stands for.         *)
(***************************************************************************)
EXTENDS Integers, SequencesExt, TLC

NoText == << >>
Tok(type, val) == [type |-> type, val |-> val]

keywords ==
  <<"v","o","i","d">> :> "TOK_VOID" @@ <<"i","n","t">> :> "TOK_INT" @@
  <<"i","f">> :> "TOK_IF" @@ <<"e","l","s","e">> :> "TOK_ELSE" @@
  <<"w","h","i","l","e">> :> "TOK_WHILE" @@ <<"f","o","r">> :> "TOK_FOR" @@
  <<"d","o">> :> "TOK_DO" @@ <<"r","e","t","u","r","n">> :> "TOK_RETURN" @@
  <<"p","r","i","n","t">> :> "TOK_PRINT"

\* The characters that are a token whatever follows them.
singles ==
  [ch \in {"(", ")", "{", "}", ",", ";", "+", "-", "*", "%"} |->
     CASE ch = "(" -> "TOK_OPENPA" [] ch = ")" -> "TOK_CLOSEPA"
       [] ch = "{" -> "TOK_OPENBR" [] ch = "}" -> "TOK_CLOSEBR"
       [] ch = "," -> "TOK_COMMA" [] ch = ";" -> "TOK_SEMICL"
       [] ch = "+" -> "TOK_PLUS" [] ch = "-" -> "TOK_MINUS"
       [] ch = "*" -> "TOK_STAR" [] ch = "%" -> "TOK_PERCENT"]

\* The characters that can be followed by "=": the type without and with it.
\* "!" is not a token of its own.
pairs ==
  [ch \in {"=", "!", "<", ">"} |->
     CASE ch = "=" -> <<"TOK_EQ", "TOK_EQEQ">> [] ch = "!" -> <<"error", "TOK_NEQ">>
       [] ch = "<" -> <<"TOK_LT", "TOK_LE">> [] ch = ">" -> <<"TOK_GT", "TOK_GE">>]

Digits == <<"0", "1", "2", "3", "4", "5", "6", "7", "8", "9">>
DigitChars == Range(Digits)
HexChars == {"a", "b", "c", "d", "e", "f", "A", "B", "C", "D", "E", "F"}
Letters == HexChars \cup {"_"}
  \cup {"g", "h", "i", "j", "k", "l", "m", "n", "o", "p", "q", "r", "s", "t",
        "u", "v", "w", "x", "y", "z"}
  \cup {"G", "H", "I", "J", "K", "L", "M", "N", "O", "P", "Q", "R", "S", "T",
        "U", "V", "W", "X", "Y", "Z"}
Separators == {" ", "\t", "\r", "\n"}

-----------------------------------------------------------------------------
(* strtol(s, NULL, 0) on the text of a literal: base 16 behind "0x", base  *)
(* 8 behind another leading "0", base 10 otherwise.  A literal "0x"        *)
(* without digits is 0.                                                    *)

digit ==
  [ch \in DigitChars \cup HexChars |->
     IF ch \in DigitChars
     THEN (CHOOSE n \in 0 .. 9 : Digits[n + 1] = ch)
     ELSE 9 + CHOOSE n \in 1 .. 6 :
                ch \in {<<"a", "b", "c", "d", "e", "f">>[n],
                       <<"A", "B", "C", "D", "E", "F">>[n]}]

strtol(s) ==
  LET hex == Len(s) >= 2 /\ s[2] = "x"
      base == IF hex THEN 16 ELSE IF s[1] = "0" THEN 8 ELSE 10
      Add(n, ch) == n * base + digit[ch]
  IN FoldLeft(Add, 0, IF hex THEN SubSeq(s, 3, Len(s)) ELSE s)
=============================================================================
