------------------------------- MODULE Lexer --------------------------------
(***************************************************************************)
(* tokenize_string: the scanner of the compiler, one step for each turn of *)
(* its loop.  Positions count from 0 as in the code; behind the last       *)
(* character comes NUL.                                                    *)
(*                                                                         *)
(* toks is the list of finished tokens; the list of the code has one more  *)
(* element, the token scanned next, which becomes TOK_EOF at the end.      *)
(***************************************************************************)
EXTENDS Tokens

CONSTANT Texts      \* source texts

VARIABLES
  str,              \* the source text
  pos, line,        \* position of ch in str and its line
  toks,             \* finished tokens; freed by cleanup_tokens on some errors
  spans,            \* history: the positions of the characters of each token
  result            \* "scanning", "ok" or "NULL"

vars == <<str, pos, line, toks, spans, result>>

NUL == "NUL"

\* A text ends at its first NUL.
ASSUME LexerAssumption == \A t \in Texts : t \in Seq(STRING \ {NUL})

Ch(i) == IF i < Len(str) THEN str[i + 1] ELSE NUL

Text(b, e) == SubSeq(str, b + 1, e + 1)

Init ==
  /\ str \in Texts
  /\ pos = 0
  /\ line = 1
  /\ toks = << >>
  /\ spans = << >>
  /\ result = "scanning"

-----------------------------------------------------------------------------
(* Scanning one token.                                                     *)

\* The end of the longest run of characters of S from b on, or b - 1.
RunEnd(b, S) == CHOOSE e \in b - 1 .. Len(str) - 1 :
                  /\ \A i \in b .. e : Ch(i) \in S
                  /\ Ch(e + 1) \notin S

check_ident_type(val) ==
  IF val \in DOMAIN keywords THEN keywords[val] ELSE "TOK_IDENTIFIER"

\* Mutant: a literal ends at the first character that is not a digit of it.
scan_intliteral_loose(b) ==
  LET hex == Ch(b) = "0" /\ Ch(b + 1) = "x"
  IN RunEnd(IF hex THEN b + 2 ELSE b, DigitChars \cup (IF hex THEN HexChars ELSE {}))

\* The position of the last character of the literal that starts at b, or
\* -1.  A prefix "0" makes the literal octal unless the text ends there.
scan_intliteral(b) ==
  LET hex == Ch(b) = "0" /\ Ch(b + 1) = "x"
      oct == Ch(b) = "0" /\ Ch(b + 1) \notin {"x", NUL}
      first == IF hex THEN b + 2 ELSE IF oct THEN b + 1 ELSE b
      last == RunEnd(first, (DigitChars \ (IF oct THEN {"8", "9"} ELSE {}))
                            \cup (IF hex THEN HexChars ELSE {}))
  IN IF Ch(last + 1) \in Letters \cup DigitChars THEN -1 ELSE last

\* Mutant: the character behind the token is skipped.
Accept_past(type, val, e) ==
  /\ toks' = Append(toks, Tok(type, val))
  /\ spans' = Append(spans, <<pos, e>>)
  /\ pos' = e + 2
  /\ UNCHANGED <<str, line, result>>

\* create_next_token and "ch = str[++pos]": the token ends at e.  If there
\* is no memory for the next one the list is freed.
Accept(type, val, e) ==
  \/ /\ toks' = Append(toks, Tok(type, val))
     /\ spans' = Append(spans, <<pos, e>>)
     /\ pos' = e + 1
     /\ UNCHANGED <<str, line, result>>
  \/ /\ result' = "NULL"
     /\ toks' = << >>
     /\ spans' = << >>
     /\ UNCHANGED <<str, pos, line>>

Scanning(S) == result = "scanning" /\ Ch(pos) \in S

-----------------------------------------------------------------------------
(* The cases of the switch.                                                *)

\* Mutant: the line is not counted at the end of a comment.
Separator_after ==
  /\ Scanning(Separators)
  /\ pos' = pos + 1
  /\ line' = IF Ch(pos) = "\n" /\ (pos = 0 \/ Ch(pos - 1) # "/")
             THEN line + 1 ELSE line
  /\ UNCHANGED <<str, toks, spans, result>>

Separator ==
  /\ Scanning(Separators)
  /\ pos' = pos + 1
  /\ line' = IF Ch(pos) = "\n" THEN line + 1 ELSE line
  /\ UNCHANGED <<str, toks, spans, result>>

Identifier ==
  /\ Scanning(Letters)
  /\ LET e == RunEnd(pos, Letters \cup DigitChars)
     IN Accept(check_ident_type(Text(pos, e)), Text(pos, e), e)

\* A scanner that fails, for want of memory too, makes tokenize_string
\* return without freeing the list.
ScanFails == /\ result' = "NULL"
             /\ UNCHANGED <<str, pos, line, toks, spans>>

IntLiteral ==
  /\ Scanning(DigitChars)
  /\ LET e == scan_intliteral(pos)
     IN IF e = -1 THEN ScanFails
        ELSE Accept("TOK_INTLITERAL", Text(pos, e), e)

NoMemoryForText == Scanning(Letters \cup DigitChars) /\ ScanFails

Single ==
  /\ Scanning(DOMAIN singles)
  /\ Accept(singles[Ch(pos)], NoText, pos)

Illegal ==
  /\ \/ result = "scanning" /\ Ch(pos) \notin
          {NUL, "/"} \cup Separators \cup Letters \cup DigitChars
          \cup DOMAIN singles \cup DOMAIN pairs
     \/ Scanning({"!"}) /\ Ch(pos + 1) # "="
  /\ result' = "NULL"
  /\ toks' = << >>
  /\ spans' = << >>
  /\ UNCHANGED <<str, pos, line>>

\* Mutant: only one character is read.
Pair_short ==
  /\ Scanning(DOMAIN pairs)
  /\ IF Ch(pos + 1) = "="
     THEN Accept(pairs[Ch(pos)][2], NoText, pos)
     ELSE Ch(pos) # "!" /\ Accept(pairs[Ch(pos)][1], NoText, pos)

Pair ==
  /\ Scanning(DOMAIN pairs)
  /\ IF Ch(pos + 1) = "="
     THEN Accept(pairs[Ch(pos)][2], NoText, pos + 1)
     ELSE Ch(pos) # "!" /\ Accept(pairs[Ch(pos)][1], NoText, pos)

\* Mutant: the characters of a comment are not skipped.
Slash_stuck ==
  /\ Scanning({"/"})
  /\ IF Ch(pos + 1) = "/"
     THEN UNCHANGED vars
     ELSE Accept("TOK_SLASH", NoText, pos)

\* A comment is read up to its newline, which is left to Separator.
Slash ==
  /\ Scanning({"/"})
  /\ IF Ch(pos + 1) = "/"
     THEN /\ \E e \in pos .. Len(str) :
               /\ Ch(e) \in {NUL, "\n"}
               /\ \A i \in pos .. e - 1 : Ch(i) \notin {NUL, "\n"}
               /\ pos' = e
          /\ UNCHANGED <<str, line, toks, spans, result>>
     ELSE Accept("TOK_SLASH", NoText, pos)

End ==
  /\ Scanning({NUL})
  /\ toks' = Append(toks, Tok("TOK_EOF", NoText))
  /\ result' = "ok"
  /\ UNCHANGED <<str, pos, line, spans>>

Next == \/ Separator \/ Identifier \/ IntLiteral \/ NoMemoryForText
        \/ Single \/ Illegal \/ Pair \/ Slash \/ End

\* tokenize_string is a loop without waits: it goes on while it can.
Spec == Init /\ [][Next]_vars /\ WF_vars(Next)

-----------------------------------------------------------------------------
(* A reference: the lexemes of the language as sets of texts.              *)

IsWord(s) == s # << >> /\ s[1] \in Letters /\ Range(s) \subseteq Letters \cup DigitChars

IsNumber(s) ==
  /\ s # << >>
  /\ \/ s[1] \in DigitChars \ {"0"} /\ Range(s) \subseteq DigitChars
     \/ s[1] = "0" /\ Range(s) \subseteq DigitChars \ {"8", "9"}
     \/ /\ Len(s) >= 2 /\ s[1] = "0" /\ s[2] = "x"
        /\ Range(SubSeq(s, 3, Len(s))) \subseteq DigitChars \cup HexChars

IsComment(s) == Len(s) >= 2 /\ s[1] = "/" /\ s[2] = "/" /\ "\n" \notin Range(s)

LexemeType(s) ==
  CASE IsWord(s) -> IF s \in DOMAIN keywords THEN keywords[s] ELSE "TOK_IDENTIFIER"
    [] IsNumber(s) -> "TOK_INTLITERAL"
    [] IsComment(s) -> "comment"
    [] Len(s) = 1 /\ s[1] \in DOMAIN singles -> singles[s[1]]
    [] Len(s) = 1 /\ s[1] \in {"=", "<", ">"} -> pairs[s[1]][1]
    [] Len(s) = 2 /\ s[1] \in DOMAIN pairs /\ s[2] = "=" -> pairs[s[1]][2]
    [] s = <<"/">> -> "TOK_SLASH"
    [] OTHER -> "none"

\* Every character from b to e is a separator or belongs to a comment.
Blank(b, e) ==
  \A i \in b .. e : \/ Ch(i) \in Separators
                    \/ \E j \in b .. i : \/ IsComment(Text(j, i))
                                         \/ i < e /\ IsComment(Text(j, i + 1))

GapStart(k) == IF k = 1 THEN 0 ELSE spans[k - 1][2] + 1

(***************************************************************************)
(* Longest match: the tokens are, in order, lexemes of the text that       *)
(* cannot be extended, with nothing but separators and comments between    *)
(* them; a list that was returned accounts for the whole text.  A literal  *)
(* is never directly followed by another word or literal: "12ab" and "09"  *)
(* are rejected, not split.                                                *)
(***************************************************************************)
LongestMatch ==
  /\ \A k \in DOMAIN spans :
       LET b == spans[k][1]
           e == spans[k][2]
       IN /\ toks[k].type = LexemeType(Text(b, e))
          /\ toks[k].type \in {"TOK_IDENTIFIER", "TOK_INTLITERAL"} =>
               toks[k].val = Text(b, e)
          /\ \A f \in e + 1 .. Len(str) - 1 : LexemeType(Text(b, f)) = "none"
          /\ toks[k].type = "TOK_INTLITERAL" => Ch(e + 1) \notin Letters \cup DigitChars
          /\ Blank(GapStart(k), b - 1)
  /\ result = "ok" => Blank(GapStart(Len(spans) + 1), Len(str) - 1)

(***************************************************************************)
(* The scanner never reads behind the terminator, and the line of its      *)
(* error messages is the line of the character they complain about, also   *)
(* behind comments.                                                        *)
(***************************************************************************)
PositionRight ==
  /\ pos \in 0 .. Len(str)
  /\ line = 1 + Cardinality({i \in 0 .. pos - 1 : Ch(i) = "\n"})

\* The scanner ends on every text: no turn of its loop leaves pos where it
\* was without ending it.
ScannerEnds == <>(result # "scanning")
=============================================================================
