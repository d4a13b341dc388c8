---------------------------- MODULE LexerProofs ----------------------------
(***************************************************************************)
(* Proofs about Lexer, for every set of source texts: the scanner knows    *)
(* where it is, and the tokens are the longest lexemes of the text.        *)
(***************************************************************************)
EXTENDS Lexer, FiniteSetTheorems, WellFoundedInduction, TLAPS

WordChars == Letters \cup DigitChars

-----------------------------------------------------------------------------
(* Characters.                                                             *)

\* The ten digits.
LEMMA DigitSet ==
  DigitChars = {"0", "1", "2", "3", "4", "5", "6", "7", "8", "9"}
<1>1. DOMAIN Digits = 1 .. 10
  BY DEF Digits
<1>2. Range(Digits) = {Digits[i] : i \in 1 .. 10}
  BY <1>1 DEF Range
<1>3. \A i \in 1 .. 10 : \/ i = 1 \/ i = 2 \/ i = 3 \/ i = 4 \/ i = 5
                         \/ i = 6 \/ i = 7 \/ i = 8 \/ i = 9 \/ i = 10
  OBVIOUS
<1> QED
  BY <1>2, <1>3 DEF DigitChars, Digits

\* The characters that end a word or a number.
LEMMA Signs ==
  /\ DOMAIN singles = {"(", ")", "{", "}", ",", ";", "+", "-", "*", "%"}
  /\ DOMAIN pairs = {"=", "!", "<", ">"}
  /\ \A c \in {"(", ")", "{", "}", ",", ";", "+", "-", "*", "%", "=", "!", "<", ">",
               "/", " ", "\t", "\r", "\n", NUL} : c \notin WordChars
  /\ \A c \in DigitChars : c \notin Letters
<1>1. /\ DOMAIN singles = {"(", ")", "{", "}", ",", ";", "+", "-", "*", "%"}
      /\ DOMAIN pairs = {"=", "!", "<", ">"}
  BY DEF singles, pairs
<1>2. \A c \in {"(", ")", "{", "}", ",", ";", "+", "-", "*", "%"} : c \notin WordChars
  BY ZenonT(30), DigitSet DEF WordChars, Letters, HexChars
<1>3. \A c \in {"=", "!", "<", ">", "/"} : c \notin WordChars
  BY DigitSet DEF WordChars, Letters, HexChars
<1>4. \A c \in {" ", "\t", "\r", "\n", NUL} : c \notin WordChars
  BY DigitSet DEF WordChars, Letters, HexChars, NUL
<1>5. \A c \in DigitChars : c \notin Letters
  BY DigitSet DEF Letters, HexChars
<1> QED
  BY <1>1, <1>2, <1>3, <1>4, <1>5

-----------------------------------------------------------------------------
(* Texts.                                                                  *)

TextOK == str \in Seq(STRING \ {NUL})

\* NUL is behind the text and nowhere else.
LEMMA Terminator ==
  ASSUME TextOK, NEW i \in Nat PROVE Ch(i) = NUL <=> i >= Len(str)
<1>1. Len(str) \in Nat
  BY DEF TextOK
<1>2. CASE i < Len(str)
  <2>1. i + 1 \in 1 .. Len(str)
    BY <1>1, <1>2
  <2>2. str[i + 1] \in STRING \ {NUL}
    BY <2>1 DEF TextOK
  <2> QED
    BY <1>1, <1>2, <2>2 DEF Ch
<1>3. CASE i >= Len(str)
  BY <1>1, <1>3 DEF Ch
<1> QED
  BY <1>1, <1>2, <1>3

\* A set of natural numbers that is not empty has a least element.
LEMMA Least ==
  ASSUME NEW S, S \subseteq Nat, S # {}
  PROVE  \E m \in S : \A n \in S : m <= n
<1>1. IsWellFoundedOn(OpToRel(<, Nat), Nat)
  BY NatLessThanWellFounded
<1>2. PICK m \in S : \A n \in S : <<n, m>> \notin OpToRel(<, Nat)
  BY <1>1, WFMin
<1>3. \A n \in S : ~(n < m)
  BY <1>2 DEF OpToRel
<1> QED
  BY <1>3

\* A run of characters ends in the text, in front of a character that does
\* not belong to it.
LEMMA RunEndRight ==
  ASSUME TextOK, NEW b \in 0 .. Len(str), NEW S, NUL \notin S
  PROVE  /\ RunEnd(b, S) \in b - 1 .. Len(str) - 1
         /\ \A i \in b .. RunEnd(b, S) : Ch(i) \in S
         /\ Ch(RunEnd(b, S) + 1) \notin S
<1> DEFINE Stops == {n \in Nat : n >= b /\ Ch(n) \notin S}
<1>1. Len(str) \in Nat /\ b \in Nat
  BY DEF TextOK
<1>2. Len(str) \in Stops
  BY <1>1, Terminator
<1>3. PICK m \in Stops : \A n \in Stops : m <= n
  <2>1. Stops \subseteq Nat /\ Stops # {}
    BY <1>2
  <2> HIDE DEF Stops
  <2> QED
    BY <2>1, Least
<1>4. m - 1 \in b - 1 .. Len(str) - 1
  BY <1>1, <1>2, <1>3
<1>5. \A i \in b .. m - 1 : Ch(i) \in S
  BY <1>1, <1>3
<1>6. Ch((m - 1) + 1) \notin S
  BY <1>3
<1>7. \E e \in b - 1 .. Len(str) - 1 :
        (\A i \in b .. e : Ch(i) \in S) /\ Ch(e + 1) \notin S
  BY <1>4, <1>5, <1>6
<1> QED
  BY <1>7 DEF RunEnd

\* A piece of the text and its characters.
LEMMA TextChars ==
  ASSUME TextOK, NEW b \in Nat, NEW e \in Nat, b <= e, e < Len(str)
  PROVE  /\ Len(Text(b, e)) = e - b + 1
         /\ Text(b, e) # << >>
         /\ Text(b, e)[1] = Ch(b)
         /\ b < e => Text(b, e)[2] = Ch(b + 1)
         /\ \A i \in b .. e : Text(b, e)[i - b + 1] = Ch(i)
         /\ Range(Text(b, e)) = {Ch(i) : i \in b .. e}
         /\ e >= b + 1 => Range(SubSeq(Text(b, e), 3, Len(Text(b, e))))
                          = {Ch(i) : i \in b + 2 .. e}
<1> DEFINE s == Text(b, e)
           n == e - b + 1
<1>1. Len(str) \in Nat
  BY DEF TextOK
<1>2. s = [k \in 1 .. n |-> str[b + k]]
  <2>1. s = [k \in 1 .. (e + 1) - (b + 1) + 1 |-> str[(b + 1) + k - 1]]
    BY DEF Text
  <2>2. (e + 1) - (b + 1) + 1 = n
    OBVIOUS
  <2>3. \A k \in 1 .. n : (b + 1) + k - 1 = b + k
    OBVIOUS
  <2> HIDE DEF s
  <2> QED
    BY <2>1, <2>2, <2>3
<1>3. \A i \in b .. e : Ch(i) = str[i + 1]
  BY <1>1 DEF Ch
<1>4. s \in Seq(STRING \ {NUL}) /\ Len(s) = n /\ n >= 1
  <2>1. \A k \in 1 .. n : str[b + k] \in STRING \ {NUL}
    BY <1>1 DEF TextOK
  <2> QED
    BY <1>2, <2>1
<1>5. \A k \in 1 .. n : s[k] = Ch(b + k - 1)
  <2> TAKE k \in 1 .. n
  <2>1. s[k] = str[b + k]
    BY <1>2
  <2>2. b + k - 1 \in b .. e /\ (b + k - 1) + 1 = b + k
    OBVIOUS
  <2> QED
    BY <1>3, <2>1, <2>2
<1>6. \A i \in b .. e : s[i - b + 1] = Ch(i)
  <2> TAKE i \in b .. e
  <2>1. i - b + 1 \in 1 .. n /\ b + (i - b + 1) - 1 = i
    OBVIOUS
  <2> QED
    BY <1>5, <2>1
<1>7. Range(s) = {Ch(i) : i \in b .. e}
  <2>1. DOMAIN s = 1 .. n
    BY <1>2
  <2>2. \A k \in 1 .. n : b + k - 1 \in b .. e
    OBVIOUS
  <2>3. \A i \in b .. e : i - b + 1 \in 1 .. n
    OBVIOUS
  <2> HIDE DEF s, n
  <2> QED
    BY <1>5, <1>6, <2>1, <2>2, <2>3 DEF Range
<1>8. ASSUME e >= b + 1
      PROVE  Range(SubSeq(s, 3, Len(s))) = {Ch(i) : i \in b + 2 .. e}
  <2> DEFINE t == SubSeq(s, 3, Len(s))
  <2>1. t = [k \in 1 .. n - 2 |-> s[k + 2]]
    <3>1. t = [k \in 1 .. Len(s) - 3 + 1 |-> s[3 + k - 1]]
      OBVIOUS
    <3>2. Len(s) - 3 + 1 = n - 2 /\ \A k \in 1 .. n - 2 : 3 + k - 1 = k + 2
      BY <1>4
    <3> HIDE DEF s, t
    <3> QED
      BY <3>1, <3>2
  <2>2. \A k \in 1 .. n - 2 : t[k] = Ch(b + k + 1) /\ b + k + 1 \in b + 2 .. e
    <3> TAKE k \in 1 .. n - 2
    <3>1. t[k] = s[k + 2]
      BY <2>1
    <3>2. k + 2 \in 1 .. n /\ b + (k + 2) - 1 = b + k + 1 /\ b + k + 1 \in b + 2 .. e
      OBVIOUS
    <3> QED
      BY <1>5, <3>1, <3>2
  <2>3. \A i \in b + 2 .. e : i - b - 1 \in 1 .. n - 2 /\ b + (i - b - 1) + 1 = i
    OBVIOUS
  <2>4. DOMAIN t = 1 .. n - 2
    BY <2>1
  <2>5. Range(t) = {t[k] : k \in 1 .. n - 2}
    BY <2>4 DEF Range
  <2>6. {t[k] : k \in 1 .. n - 2} \subseteq {Ch(i) : i \in b + 2 .. e}
    BY <2>2
  <2>7. ASSUME NEW i \in b + 2 .. e PROVE Ch(i) \in {t[k] : k \in 1 .. n - 2}
    <3>1. i - b - 1 \in 1 .. n - 2 /\ b + (i - b - 1) + 1 = i
      BY <2>3
    <3>2. t[i - b - 1] = Ch(i)
      BY <2>2, <3>1
    <3> HIDE DEF t, n
    <3> QED
      BY <3>1, <3>2
  <2>8. {t[k] : k \in 1 .. n - 2} = {Ch(i) : i \in b + 2 .. e}
    <3> HIDE DEF t, n
    <3> QED
      BY <2>6, <2>7
  <2>9. Range(t) = {Ch(i) : i \in b + 2 .. e}
    <3> HIDE DEF t, n
    <3> QED
      BY <2>5, <2>8
  <2> QED
    BY <2>9
<1>9. s[1] = Ch(b) /\ (b < e => s[2] = Ch(b + 1)) /\ s # << >>
  <2>1. b \in b .. e /\ b - b + 1 = 1
    OBVIOUS
  <2>2. b < e => b + 1 \in b .. e /\ (b + 1) - b + 1 = 2
    OBVIOUS
  <2>3. s # << >>
    BY <1>4
  <2> HIDE DEF s
  <2> QED
    BY <1>6, <2>1, <2>2, <2>3
<1> QED
  BY <1>4, <1>6, <1>7, <1>8, <1>9

-----------------------------------------------------------------------------
(* Which texts are lexemes: the first character decides the kind.          *)

\* No character is the first one of two kinds of lexemes.
LEMMA FirstChars ==
  /\ \A c \in Letters : /\ c \notin DigitChars \cup DOMAIN singles \cup DOMAIN pairs
                        /\ c # "/"
  /\ \A c \in DigitChars : /\ c \notin Letters \cup DOMAIN singles \cup DOMAIN pairs
                           /\ c # "/"
  /\ \A c \in DOMAIN singles : /\ c \notin Letters \cup DigitChars \cup DOMAIN pairs
                               /\ c # "/"
  /\ \A c \in DOMAIN pairs : /\ c \notin Letters \cup DigitChars \cup DOMAIN singles
                             /\ c # "/"
  /\ "/" \notin Letters \cup DigitChars \cup DOMAIN singles \cup DOMAIN pairs
<1>1. \A c \in DOMAIN singles \cup DOMAIN pairs \cup {"/"} : c \notin WordChars
  BY Signs
<1>2. \A c \in DOMAIN singles : c \notin DOMAIN pairs /\ c # "/"
  BY Signs
<1>3. \A c \in DOMAIN pairs : c \notin DOMAIN singles /\ c # "/"
  BY Signs
<1>4. \A c \in DigitChars : c \notin Letters
  BY Signs
<1> QED
  BY <1>1, <1>2, <1>3, <1>4 DEF WordChars

\* A number starts with a digit.
LEMMA NumberStarts ==
  ASSUME NEW s, IsNumber(s) PROVE s[1] \in DigitChars
BY DigitSet DEF IsNumber

\* Texts that start with a letter.
LEMMA LexemeLetter ==
  ASSUME NEW s, s[1] \in Letters
  PROVE  LexemeType(s) = IF IsWord(s) THEN check_ident_type(s) ELSE "none"
<1>1. ~IsNumber(s)
  BY NumberStarts, FirstChars
<1>2. ~IsComment(s) /\ s # <<"/">>
  BY FirstChars DEF IsComment
<1>3. s[1] \notin DOMAIN singles /\ s[1] \notin {"=", "<", ">"} /\ s[1] \notin DOMAIN pairs
  BY FirstChars, Signs
<1> QED
  BY <1>1, <1>2, <1>3 DEF LexemeType, check_ident_type

\* Texts that start with a digit.
LEMMA LexemeDigit ==
  ASSUME NEW s, s[1] \in DigitChars
  PROVE  LexemeType(s) = IF IsNumber(s) THEN "TOK_INTLITERAL" ELSE "none"
<1>1. ~IsWord(s)
  BY FirstChars DEF IsWord
<1>2. ~IsComment(s) /\ s # <<"/">>
  BY FirstChars DEF IsComment
<1>3. s[1] \notin DOMAIN singles /\ s[1] \notin {"=", "<", ">"} /\ s[1] \notin DOMAIN pairs
  BY FirstChars, Signs
<1> QED
  BY <1>1, <1>2, <1>3 DEF LexemeType

\* Texts that start with a character that is a token whatever follows it.
LEMMA LexemeSingle ==
  ASSUME NEW s, s[1] \in DOMAIN singles
  PROVE  LexemeType(s) = IF Len(s) = 1 THEN singles[s[1]] ELSE "none"
<1>1. ~IsWord(s) /\ ~IsNumber(s)
  BY FirstChars, NumberStarts DEF IsWord
<1>2. ~IsComment(s) /\ s # <<"/">>
  BY FirstChars DEF IsComment
<1>3. s[1] \notin {"=", "<", ">"} /\ s[1] \notin DOMAIN pairs
  BY FirstChars, Signs
<1> QED
  BY <1>1, <1>2, <1>3 DEF LexemeType

\* Texts that start with a character that can be followed by "=".
LEMMA LexemePair ==
  ASSUME NEW s, s[1] \in DOMAIN pairs
  PROVE  /\ Len(s) = 1 /\ s[1] # "!" => LexemeType(s) = pairs[s[1]][1]
         /\ Len(s) = 2 /\ s[2] = "=" => LexemeType(s) = pairs[s[1]][2]
         /\ Len(s) # 1 /\ ~(Len(s) = 2 /\ s[2] = "=") => LexemeType(s) = "none"
<1>1. ~IsWord(s) /\ ~IsNumber(s)
  BY FirstChars, NumberStarts DEF IsWord
<1>2. ~IsComment(s) /\ s # <<"/">>
  BY FirstChars DEF IsComment
<1>3. s[1] \notin DOMAIN singles
  BY FirstChars
<1>4. s[1] # "!" => s[1] \in {"=", "<", ">"}
  BY Signs
<1>5. ~(Len(s) = 1 /\ Len(s) = 2)
  OBVIOUS
<1> QED
  BY <1>1, <1>2, <1>3, <1>4, <1>5 DEF LexemeType

\* Texts that start with "/".
LEMMA LexemeSlash ==
  ASSUME NEW s \in Seq(STRING), s # << >>, s[1] = "/"
  PROVE  /\ Len(s) = 1 => LexemeType(s) = "TOK_SLASH"
         /\ Len(s) # 1 /\ s[2] # "/" => LexemeType(s) = "none"
<1>1. ~IsWord(s) /\ ~IsNumber(s)
  BY FirstChars, NumberStarts DEF IsWord
<1>2. s[1] \notin DOMAIN singles /\ s[1] \notin {"=", "<", ">"} /\ s[1] \notin DOMAIN pairs
  BY FirstChars, Signs
<1>3. Len(s) = 1 => s = <<"/">> /\ ~IsComment(s)
  BY DEF IsComment
<1>4. Len(s) # 1 => s # <<"/">>
  OBVIOUS
<1>5. s[2] # "/" => ~IsComment(s)
  BY DEF IsComment
<1> QED
  BY <1>1, <1>2, <1>3, <1>4, <1>5 DEF LexemeType

\* A character that is a token of its own never makes a word or a literal.
LEMMA SignTypes ==
  /\ \A c \in DOMAIN singles : singles[c] \notin {"TOK_IDENTIFIER", "TOK_INTLITERAL"}
  /\ \A c \in DOMAIN pairs : /\ pairs[c][1] \notin {"TOK_IDENTIFIER", "TOK_INTLITERAL"}
                             /\ pairs[c][2] \notin {"TOK_IDENTIFIER", "TOK_INTLITERAL"}
<1>1. \A c \in DOMAIN singles : singles[c] \notin {"TOK_IDENTIFIER", "TOK_INTLITERAL"}
  BY DEF singles
<1>2. \A c \in DOMAIN pairs : /\ pairs[c][1] \notin {"TOK_IDENTIFIER", "TOK_INTLITERAL"}
                              /\ pairs[c][2] \notin {"TOK_IDENTIFIER", "TOK_INTLITERAL"}
  BY DEF pairs
<1> QED
  BY <1>1, <1>2

-----------------------------------------------------------------------------
(* The same for a piece of the text.                                       *)

\* A piece of the text is a sequence of characters.
LEMMA TextSeq ==
  ASSUME TextOK, NEW b \in Nat, NEW e \in Nat, b <= e, e < Len(str)
  PROVE  Text(b, e) \in Seq(STRING)
<1>1. str \in Seq(STRING) /\ Len(str) \in Nat
  BY DEF TextOK
<1>2. \A k \in 1 .. (e + 1) - (b + 1) + 1 : str[(b + 1) + k - 1] \in STRING
  BY <1>1
<1>3. SubSeq(str, b + 1, e + 1)
        = [k \in 1 .. (e + 1) - (b + 1) + 1 |-> str[(b + 1) + k - 1]]
  OBVIOUS
<1>4. (e + 1) - (b + 1) + 1 \in Nat
  OBVIOUS
<1> QED
  BY SMTT(30), <1>2, <1>3, <1>4 DEF Text

\* Its first characters and its length.
LEMMA Piece ==
  ASSUME TextOK, NEW b \in Nat, NEW e \in Nat, b <= e, e < Len(str)
  PROVE  /\ Text(b, e)[1] = Ch(b)
         /\ e # b => Text(b, e)[2] = Ch(b + 1)
         /\ Len(Text(b, e)) = 1 <=> e = b
         /\ Len(Text(b, e)) = 2 <=> e = b + 1
<1>1. Len(Text(b, e)) = e - b + 1 /\ Text(b, e)[1] = Ch(b)
      /\ (b < e => Text(b, e)[2] = Ch(b + 1))
  BY TextChars
<1> HIDE DEF Text
<1> QED
  BY <1>1

\* Words.
LEMMA WordText ==
  ASSUME TextOK, NEW b \in Nat, NEW e \in Nat, b <= e, e < Len(str)
  PROVE  IsWord(Text(b, e)) <=> Ch(b) \in Letters /\ \A i \in b .. e : Ch(i) \in WordChars
<1>1. Text(b, e)[1] = Ch(b) /\ Text(b, e) # << >>
  BY TextChars
<1>2. Range(Text(b, e)) = {Ch(i) : i \in b .. e}
  BY TextChars
<1> HIDE DEF Text
<1> QED
  BY <1>1, <1>2 DEF IsWord, WordChars

\* A number consists of letters and digits.
LEMMA NumberText ==
  ASSUME TextOK, NEW b \in Nat, NEW e \in Nat, b <= e, e < Len(str),
         IsNumber(Text(b, e))
  PROVE  \A i \in b .. e : Ch(i) \in WordChars
<1> DEFINE s == Text(b, e)
<1>1. Range(s) = {Ch(i) : i \in b .. e} /\ Len(s) = e - b + 1
  BY TextChars
<1>2. s[1] = Ch(b) /\ (b < e => s[2] = Ch(b + 1))
  BY TextChars
<1>3. DigitChars \subseteq WordChars /\ HexChars \subseteq WordChars /\ "x" \in WordChars
  BY DEF WordChars, Letters
<1>4. CASE Range(s) \subseteq DigitChars
  BY <1>1, <1>3, <1>4
<1>5. CASE /\ Len(s) >= 2 /\ s[1] = "0" /\ s[2] = "x"
           /\ Range(SubSeq(s, 3, Len(s))) \subseteq DigitChars \cup HexChars
  <2>1. e >= b + 1
    BY <1>1, <1>5
  <2>2. {Ch(i) : i \in b + 2 .. e} \subseteq DigitChars \cup HexChars
    BY <1>5, <2>1, TextChars
  <2>3. Ch(b) \in WordChars /\ Ch(b + 1) \in WordChars
    BY <1>2, <1>3, <1>5, <2>1, DigitSet
  <2>4. \A i \in b .. e : i = b \/ i = b + 1 \/ i \in b + 2 .. e
    OBVIOUS
  <2> QED
    BY <1>3, <2>2, <2>3, <2>4
<1>6. IsNumber(s) => Range(s) \subseteq DigitChars
                     \/ /\ Len(s) >= 2 /\ s[1] = "0" /\ s[2] = "x"
                        /\ Range(SubSeq(s, 3, Len(s))) \subseteq DigitChars \cup HexChars
  BY DEF IsNumber
<1> QED
  BY <1>4, <1>5, <1>6

\* The three forms of a number.
LEMMA NumberForms ==
  ASSUME TextOK, NEW b \in Nat, NEW e \in Nat, b <= e, e < Len(str)
  PROVE  /\ Ch(b) # "0" /\ (\A i \in b .. e : Ch(i) \in DigitChars)
              => IsNumber(Text(b, e))
         /\ Ch(b) = "0" /\ (\A i \in b .. e : Ch(i) \in DigitChars \ {"8", "9"})
              => IsNumber(Text(b, e))
         /\ b < e /\ Ch(b) = "0" /\ Ch(b + 1) = "x"
              /\ (\A i \in b + 2 .. e : Ch(i) \in DigitChars \cup HexChars)
              => IsNumber(Text(b, e))
<1> DEFINE s == Text(b, e)
<1>1. Range(s) = {Ch(i) : i \in b .. e} /\ Len(s) = e - b + 1
  BY TextChars
<1>2. s[1] = Ch(b) /\ (b < e => s[2] = Ch(b + 1)) /\ s # << >>
  BY TextChars
<1>3. e >= b + 1 => Range(SubSeq(s, 3, Len(s))) = {Ch(i) : i \in b + 2 .. e}
  BY TextChars
<1>4. b \in b .. e
  OBVIOUS
<1>5. ASSUME Ch(b) # "0", \A i \in b .. e : Ch(i) \in DigitChars
      PROVE  IsNumber(s)
  <2>1. s[1] \in DigitChars \ {"0"} /\ Range(s) \subseteq DigitChars
    BY <1>1, <1>2, <1>4, <1>5
  <2> QED
    BY <1>2, <2>1 DEF IsNumber
<1>6. ASSUME Ch(b) = "0", \A i \in b .. e : Ch(i) \in DigitChars \ {"8", "9"}
      PROVE  IsNumber(s)
  <2>1. s[1] = "0" /\ Range(s) \subseteq DigitChars \ {"8", "9"}
    BY <1>1, <1>2, <1>6
  <2> QED
    BY <1>2, <2>1 DEF IsNumber
<1>7. ASSUME b < e, Ch(b) = "0", Ch(b + 1) = "x",
             \A i \in b + 2 .. e : Ch(i) \in DigitChars \cup HexChars
      PROVE  IsNumber(s)
  <2>1. Len(s) >= 2 /\ s[1] = "0" /\ s[2] = "x"
    BY <1>1, <1>2, <1>7
  <2>2. Range(SubSeq(s, 3, Len(s))) \subseteq DigitChars \cup HexChars
    BY <1>3, <1>7
  <2> QED
    BY <1>2, <2>1, <2>2 DEF IsNumber
<1> QED
  BY <1>5, <1>6, <1>7

\* The scanner of literals finds the end of a number, or reports an error.
LEMMA LiteralEnd ==
  ASSUME TextOK, NEW b \in Nat, b < Len(str), Ch(b) \in DigitChars,
         scan_intliteral(b) # -1
  PROVE  /\ scan_intliteral(b) \in b .. Len(str) - 1
         /\ IsNumber(Text(b, scan_intliteral(b)))
         /\ Ch(scan_intliteral(b) + 1) \notin WordChars
<1> DEFINE hex == Ch(b) = "0" /\ Ch(b + 1) = "x"
           oct == Ch(b) = "0" /\ Ch(b + 1) \notin {"x", NUL}
           first == IF hex THEN b + 2 ELSE IF oct THEN b + 1 ELSE b
           chars == (DigitChars \ (IF oct THEN {"8", "9"} ELSE {}))
                    \cup (IF hex THEN HexChars ELSE {})
           last == RunEnd(first, chars)
<1>1. scan_intliteral(b)
        = IF Ch(last + 1) \in Letters \cup DigitChars THEN -1 ELSE last
  BY DEF scan_intliteral
<1>2. scan_intliteral(b) = last /\ Ch(last + 1) \notin WordChars
  BY <1>1 DEF WordChars
<1>3. NUL \notin chars
  BY DigitSet DEF NUL, HexChars
<1>4. Len(str) \in Nat
  BY DEF TextOK
<1>5. first \in 0 .. Len(str)
  <2>1. hex => b + 1 < Len(str)
    BY <1>4, Terminator DEF NUL
  <2> QED
    BY <1>4, <2>1
<1>6. /\ last \in first - 1 .. Len(str) - 1
      /\ \A i \in first .. last : Ch(i) \in chars
      /\ Ch(last + 1) \notin chars
  <2> HIDE DEF first, chars
  <2> QED
    BY <1>3, <1>5, RunEndRight
<1>7. last \in b .. Len(str) - 1 /\ IsNumber(Text(b, last))
  <2> HIDE DEF last
  <2>1. CASE hex
    <3>1. last \in b + 1 .. Len(str) - 1
      BY <1>4, <1>6, <2>1
    <3>2. \A i \in b + 2 .. last : Ch(i) \in DigitChars \cup HexChars
      BY <1>6, <2>1
    <3> QED
      BY <1>4, <2>1, <3>1, <3>2, NumberForms
  <2>2. CASE oct
    <3>1. last \in b .. Len(str) - 1
      BY <1>4, <1>6, <2>2
    <3>2. \A i \in b + 1 .. last : Ch(i) \in DigitChars \ {"8", "9"}
      BY <1>6, <2>2
    <3>3. Ch(b) \in DigitChars \ {"8", "9"}
      BY <2>2
    <3>4. \A i \in b .. last : Ch(i) \in DigitChars \ {"8", "9"}
      BY <3>1, <3>2, <3>3
    <3> QED
      BY <1>4, <2>2, <3>1, <3>4, NumberForms
  <2>3. CASE ~hex /\ ~oct /\ Ch(b) # "0"
    <3>1. \A i \in b .. last : Ch(i) \in DigitChars
      BY <1>6, <2>3
    <3>2. last \in b .. Len(str) - 1
      BY <1>4, <1>6, <2>3
    <3> QED
      BY <1>4, <2>3, <3>1, <3>2, NumberForms
  <2>4. CASE ~hex /\ ~oct /\ Ch(b) = "0"
    <3>1. Ch(b + 1) = NUL
      BY <2>4
    <3>2. \A i \in b .. last : Ch(i) \in DigitChars
      BY <1>6, <2>4
    <3>3. last \in b - 1 .. Len(str) - 1
      BY <1>6, <2>4
    <3>4. last = b
      <4>1. last < b + 1
        BY <1>3, <1>4, <3>1, <3>2, <3>3, DigitSet DEF NUL
      <4>2. last # b - 1
        BY <1>6, <2>4
      <4> QED
        BY <1>4, <3>3, <4>1, <4>2
    <3>5. \A i \in b .. last : Ch(i) \in DigitChars \ {"8", "9"}
      BY <2>4, <3>4
    <3> QED
      BY <1>4, <2>4, <3>4, <3>5, NumberForms
  <2> QED
    BY <2>1, <2>2, <2>3, <2>4
<1> QED
  BY <1>2, <1>7

-----------------------------------------------------------------------------
(* Separators and comments.                                                *)

\* A piece of the text that starts with two slashes and does not reach the
\* end of the line is a comment.
LEMMA CommentText ==
  ASSUME TextOK, NEW b \in Nat, NEW e \in Nat, b < e, e < Len(str),
         Ch(b) = "/", Ch(b + 1) = "/", \A i \in b .. e : Ch(i) # "\n"
  PROVE  IsComment(Text(b, e))
<1>1. b <= e /\ e # b
  OBVIOUS
<1>2. Text(b, e)[1] = "/" /\ Text(b, e)[2] = "/"
  BY <1>1, Piece
<1>3. Len(Text(b, e)) = e - b + 1
  BY <1>1, TextChars
<1>4. Len(Text(b, e)) >= 2
  BY <1>3
<1>5. Range(Text(b, e)) = {Ch(i) : i \in b .. e}
  BY <1>1, TextChars
<1>6. "\n" \notin Range(Text(b, e))
  BY <1>5
<1> HIDE DEF Text
<1> QED
  BY <1>2, <1>4, <1>6 DEF IsComment

\* One more separator leaves a gap blank.
LEMMA BlankSeparator ==
  ASSUME NEW b \in Nat, NEW e \in Nat, Blank(b, e - 1), Ch(e) \in Separators
  PROVE  Blank(b, e)
<1>1. ASSUME NEW i \in b .. e
      PROVE  \/ Ch(i) \in Separators
             \/ \E j \in b .. i : \/ IsComment(Text(j, i))
                                  \/ i < e /\ IsComment(Text(j, i + 1))
  <2>1. CASE i = e
    BY <2>1
  <2>2. CASE i # e
    <3>1. i \in b .. e - 1 /\ (i < e - 1 => i < e)
      BY <2>2
    <3>2. \/ Ch(i) \in Separators
          \/ \E j \in b .. i : \/ IsComment(Text(j, i))
                               \/ i < e - 1 /\ IsComment(Text(j, i + 1))
      BY <3>1 DEF Blank
    <3> QED
      BY <3>1, <3>2
  <2> QED
    BY <2>1, <2>2
<1> QED
  BY <1>1 DEF Blank

\* A comment from p to e - 1 leaves a gap blank.
LEMMA BlankComment ==
  ASSUME TextOK, NEW b \in Nat, NEW p \in Nat, NEW e \in Nat,
         b <= p, p + 2 <= e, e <= Len(str), Blank(b, p - 1),
         Ch(p) = "/", Ch(p + 1) = "/", \A i \in p .. e - 1 : Ch(i) # "\n"
  PROVE  Blank(b, e - 1)
<1>1. Len(str) \in Nat
  BY DEF TextOK
<1>2. \A i \in p + 1 .. e - 1 : IsComment(Text(p, i))
  <2> TAKE i \in p + 1 .. e - 1
  <2>1. i \in Nat /\ p < i /\ i < Len(str) /\ \A k \in p .. i : Ch(k) # "\n"
    BY <1>1
  <2> QED
    BY <2>1, CommentText
<1>3. ASSUME NEW i \in b .. e - 1
      PROVE  \/ Ch(i) \in Separators
             \/ \E j \in b .. i : \/ IsComment(Text(j, i))
                                  \/ i < e - 1 /\ IsComment(Text(j, i + 1))
  <2>1. CASE i \in b .. p - 1
    <3>1. \/ Ch(i) \in Separators
          \/ \E j \in b .. i : \/ IsComment(Text(j, i))
                               \/ i < p - 1 /\ IsComment(Text(j, i + 1))
      BY <2>1 DEF Blank
    <3>2. i < e - 1
      BY <2>1
    <3> QED
      BY <3>1, <3>2
  <2>2. CASE i = p
    <3>1. IsComment(Text(p, i + 1)) /\ i < e - 1 /\ p \in b .. i
      BY <1>2, <2>2
    <3> QED
      BY <3>1
  <2>3. CASE i \in p + 1 .. e - 1
    <3>1. IsComment(Text(p, i)) /\ p \in b .. i
      BY <1>2, <2>3
    <3> QED
      BY <3>1
  <2> QED
    BY <2>1, <2>2, <2>3
<1> QED
  BY <1>3 DEF Blank

-----------------------------------------------------------------------------
(* Lines.                                                                  *)

Newlines(p) == {i \in 0 .. p - 1 : Ch(i) = "\n"}

\* The number of newlines before a position.
LEMMA NewlinesFinite ==
  ASSUME NEW p \in Nat
  PROVE  IsFiniteSet(Newlines(p)) /\ Cardinality(Newlines(p)) \in Nat
<1>1. IsFiniteSet(0 .. p - 1)
  BY FS_Interval
<1>2. Newlines(p) \subseteq 0 .. p - 1
  BY DEF Newlines
<1> QED
  BY <1>1, <1>2, FS_Subset, FS_CardinalityType

\* It changes at newlines only, by one.
LEMMA NewlinesNext ==
  ASSUME NEW p \in Nat
  PROVE  Cardinality(Newlines(p + 1))
           = Cardinality(Newlines(p)) + (IF Ch(p) = "\n" THEN 1 ELSE 0)
<1>1. IsFiniteSet(Newlines(p)) /\ Cardinality(Newlines(p)) \in Nat
  BY NewlinesFinite
<1>2. CASE Ch(p) = "\n"
  <2>1. Newlines(p + 1) = Newlines(p) \cup {p} /\ p \notin Newlines(p)
    BY <1>2 DEF Newlines
  <2>2. Cardinality(Newlines(p) \cup {p}) = Cardinality(Newlines(p)) + 1
    BY <1>1, <2>1, FS_AddElement
  <2> QED
    BY <1>2, <2>1, <2>2
<1>3. CASE Ch(p) # "\n"
  <2>1. Newlines(p + 1) = Newlines(p)
    BY <1>3 DEF Newlines
  <2> QED
    BY <1>1, <1>3, <2>1
<1> QED
  BY <1>2, <1>3

\* And nowhere else.
LEMMA NewlinesSame ==
  ASSUME NEW p \in Nat, NEW q \in Nat, p <= q, \A i \in p .. q - 1 : Ch(i) # "\n"
  PROVE  Newlines(q) = Newlines(p)
BY DEF Newlines

-----------------------------------------------------------------------------
(* The invariant.                                                          *)

TokenTypes == {LexemeType(t) : t \in Seq(STRING)} \cup {"TOK_EOF"}

\* What LongestMatch says of a token t from b to e, g being the start of the
\* gap before it.
SpanRight(t, b, e, g) ==
  /\ t.type = LexemeType(Text(b, e))
  /\ t.type \in {"TOK_IDENTIFIER", "TOK_INTLITERAL"} => t.val = Text(b, e)
  /\ \A f \in e + 1 .. Len(str) - 1 : LexemeType(Text(b, f)) = "none"
  /\ t.type = "TOK_INTLITERAL" => Ch(e + 1) \notin WordChars
  /\ Blank(g, b - 1)

\* While the scanner runs, toks and spans belong together and the text
\* behind the last token is blank up to pos.
Pending ==
  /\ Len(toks) = Len(spans)
  /\ GapStart(Len(spans) + 1) \in 0 .. pos
  /\ Blank(GapStart(Len(spans) + 1), pos - 1)

LInv ==
  /\ TextOK
  /\ pos \in 0 .. Len(str)
  /\ line = 1 + Cardinality(Newlines(pos))
  /\ result \in {"scanning", "ok", "NULL"}
  /\ toks \in Seq([type : TokenTypes, val : Seq(STRING)])
  /\ spans \in Seq(Nat \X Nat)
  /\ \A k \in 1 .. Len(spans) :
       SpanRight(toks[k], spans[k][1], spans[k][2], GapStart(k))
  /\ result = "scanning" => Pending
  /\ result = "ok" => Blank(GapStart(Len(spans) + 1), Len(str) - 1)

\* The text does not change.
LEMMA SameText ==
  ASSUME str' = str
  PROVE  /\ \A b, e : Text(b, e)' = Text(b, e)
         /\ \A b, e : Blank(b, e)' <=> Blank(b, e)
         /\ \A p : Newlines(p)' = Newlines(p)
         /\ \A t, b, e, g : SpanRight(t, b, e, g)' <=> SpanRight(t, b, e, g)
<1>1. \A i : Ch(i)' = Ch(i)
  BY DEF Ch
<1>2. \A b, e : Text(b, e)' = Text(b, e)
  BY DEF Text
<1>3. \A b, e : Blank(b, e)' <=> Blank(b, e)
  BY DEF Blank, Text, Ch
<1>4. \A p : Newlines(p)' = Newlines(p)
  BY DEF Newlines, Ch
<1>5. \A t, b, e, g : SpanRight(t, b, e, g)' <=> SpanRight(t, b, e, g)
  BY <1>3 DEF SpanRight, Text, Ch
<1> QED
  BY <1>2, <1>3, <1>4, <1>5

\* If pos does not go back over a token and everything else stays as it is,
\* the invariant holds again when the text passed over is blank.
LEMMA Skipped ==
  ASSUME LInv, result = "scanning", NEW p \in pos .. Len(str), pos' = p,
         UNCHANGED <<str, toks, spans, result>>,
         line' = 1 + Cardinality(Newlines(p)),
         Blank(GapStart(Len(spans) + 1), p - 1)
  PROVE  LInv'
<1>1. TextOK' /\ pos' \in 0 .. Len(str') /\ result' \in {"scanning", "ok", "NULL"}
  BY DEF LInv, TextOK
<1>2. (line = 1 + Cardinality(Newlines(pos)))'
  <2>1. Newlines(pos)' = Newlines(p)
    BY DEF Newlines, Ch
  <2> QED
    BY <2>1
<1>3. (toks \in Seq([type : TokenTypes, val : Seq(STRING)]) /\ spans \in Seq(Nat \X Nat))'
  BY DEF LInv
<1>4. \A k : GapStart(k)' = GapStart(k)
  BY DEF GapStart
<1>5. (\A k \in 1 .. Len(spans) :
         SpanRight(toks[k], spans[k][1], spans[k][2], GapStart(k)))'
  BY <1>4, SameText DEF LInv
<1>6. Pending'
  <2>1. GapStart(Len(spans) + 1)' = GapStart(Len(spans) + 1)
    BY DEF GapStart
  <2>2. Blank(GapStart(Len(spans) + 1), pos - 1)'
    BY <2>1, SameText
  <2>3. GapStart(Len(spans) + 1) \in 0 .. p
    BY DEF LInv, Pending
  <2> QED
    BY <2>1, <2>2, <2>3 DEF LInv, Pending
<1>7. result' # "ok"
  OBVIOUS
<1> QED
  BY <1>1, <1>2, <1>3, <1>5, <1>6, <1>7 DEF LInv

\* The scanner stops with an error: the lists are kept, or they are freed.
LEMMA Failed ==
  ASSUME LInv, result' = "NULL", UNCHANGED <<str, pos, line>>,
         UNCHANGED <<toks, spans>> \/ (toks' = << >> /\ spans' = << >>)
  PROVE  LInv'
<1>1. TextOK' /\ pos' \in 0 .. Len(str') /\ result' \in {"scanning", "ok", "NULL"}
  BY DEF LInv, TextOK
<1>2. (line = 1 + Cardinality(Newlines(pos)))'
  <2>1. Newlines(pos)' = Newlines(pos)
    BY DEF Newlines, Ch
  <2> QED
    BY <2>1 DEF LInv
<1>3. (toks \in Seq([type : TokenTypes, val : Seq(STRING)]) /\ spans \in Seq(Nat \X Nat))'
  <2>1. toks \in Seq([type : TokenTypes, val : Seq(STRING)]) /\ spans \in Seq(Nat \X Nat)
    BY DEF LInv
  <2>2. CASE UNCHANGED <<toks, spans>>
    BY <2>1, <2>2
  <2>3. CASE toks' = << >> /\ spans' = << >>
    BY <2>3
  <2> QED
    BY <2>2, <2>3
<1>4. (\A k \in 1 .. Len(spans) :
         SpanRight(toks[k], spans[k][1], spans[k][2], GapStart(k)))'
  <2>1. CASE UNCHANGED <<toks, spans>>
    <3>1. \A k : GapStart(k)' = GapStart(k)
      BY <2>1 DEF GapStart
    <3> QED
      BY <2>1, <3>1, SameText DEF LInv
  <2>2. CASE toks' = << >> /\ spans' = << >>
    BY <2>2
  <2> QED
    BY <2>1, <2>2
<1> QED
  BY <1>1, <1>2, <1>3, <1>4 DEF LInv

\* A token is accepted: what the case of the switch found out about the text
\* from pos to e is what the invariant says of it.
LEMMA Accepted ==
  ASSUME LInv, result = "scanning", NEW type, NEW val \in Seq(STRING),
         NEW e \in pos .. Len(str) - 1, Accept(type, val, e),
         type = LexemeType(Text(pos, e)),
         type \in {"TOK_IDENTIFIER", "TOK_INTLITERAL"} => val = Text(pos, e),
         \A f \in e + 1 .. Len(str) - 1 : LexemeType(Text(pos, f)) = "none",
         type = "TOK_INTLITERAL" => Ch(e + 1) \notin WordChars,
         \A i \in pos .. e : Ch(i) # "\n"
  PROVE  LInv'
<1> DEFINE t == Tok(type, val)
<1>0. PICK n \in Nat : n = Len(spans)
  BY DEF LInv
<1>1. CASE /\ result' = "NULL" /\ toks' = << >> /\ spans' = << >>
           /\ UNCHANGED <<str, pos, line>>
  BY <1>1, Failed
<1>2. CASE /\ toks' = Append(toks, t)
           /\ spans' = Append(spans, <<pos, e>>)
           /\ pos' = e + 1
           /\ UNCHANGED <<str, line, result>>
  <2>1. /\ Len(str) \in Nat /\ n = Len(spans) /\ Len(toks) = n /\ pos \in Nat
        /\ GapStart(n + 1) \in 0 .. pos /\ Blank(GapStart(n + 1), pos - 1)
    BY <1>0 DEF LInv, TextOK, Pending
  <2>2. t \in [type : TokenTypes, val : Seq(STRING)] /\ t.type = type /\ t.val = val
    <3>1. Text(pos, e) \in Seq(STRING)
      BY <2>1, TextSeq DEF LInv
    <3>2. type \in TokenTypes
      BY <3>1 DEF TokenTypes
    <3> QED
      BY <3>2 DEF Tok
  <2>3. (toks \in Seq([type : TokenTypes, val : Seq(STRING)]) /\ spans \in Seq(Nat \X Nat))'
    <3> HIDE DEF t
    <3>1. toks' \in Seq([type : TokenTypes, val : Seq(STRING)])
      BY <1>2, <2>2 DEF LInv
    <3>2. <<pos, e>> \in Nat \X Nat
      BY <2>1
    <3>3. spans' \in Seq(Nat \X Nat)
      BY <1>2, <3>2 DEF LInv
    <3> QED
      BY <3>1, <3>3
  <2>4. /\ Len(toks') = n + 1 /\ Len(spans') = n + 1
        /\ toks'[n + 1] = t /\ spans'[n + 1] = <<pos, e>>
        /\ \A k \in 1 .. n : toks'[k] = toks[k] /\ spans'[k] = spans[k]
    <3> HIDE DEF t
    <3>1. toks \in Seq([type : TokenTypes, val : Seq(STRING)]) /\ spans \in Seq(Nat \X Nat)
      BY DEF LInv
    <3>2. /\ Len(toks') = n + 1 /\ toks'[n + 1] = t
          /\ \A k \in 1 .. n : toks'[k] = toks[k]
      BY <1>2, <2>1, <3>1
    <3>3. /\ Len(spans') = n + 1 /\ spans'[n + 1] = <<pos, e>>
          /\ \A k \in 1 .. n : spans'[k] = spans[k]
      BY <1>2, <2>1, <3>1
    <3> QED
      BY <3>2, <3>3
  <2>5. TextOK' /\ pos' \in 0 .. Len(str') /\ result' \in {"scanning", "ok", "NULL"}
    BY <1>2, <2>1 DEF LInv, TextOK
  <2>6. (line = 1 + Cardinality(Newlines(pos)))'
    <3>1. Newlines(pos)' = Newlines(e + 1)
      BY <1>2 DEF Newlines, Ch
    <3>2. Newlines(e + 1) = Newlines(pos)
      BY <2>1, NewlinesSame
    <3> QED
      BY <1>2, <3>1, <3>2 DEF LInv
  <2>7. \A k \in 1 .. n + 1 : GapStart(k)' = GapStart(k)
    <3> TAKE k \in 1 .. n + 1
    <3>1. k # 1 => spans'[k - 1] = spans[k - 1]
      BY <2>1, <2>4
    <3> QED
      BY <3>1 DEF GapStart
  <2>8. GapStart(n + 2)' = e + 1
    BY <2>1, <2>4 DEF GapStart
  <2>9. SpanRight(t, pos, e, GapStart(n + 1))
    BY <2>1, <2>2 DEF SpanRight
  <2>10. (\A k \in 1 .. Len(spans) :
            SpanRight(toks[k], spans[k][1], spans[k][2], GapStart(k)))'
    <3> HIDE DEF t
    <3>1. ASSUME NEW k \in 1 .. n
          PROVE  SpanRight(toks'[k], spans'[k][1], spans'[k][2], GapStart(k)')
      <4>1. SpanRight(toks[k], spans[k][1], spans[k][2], GapStart(k))
        BY <2>1 DEF LInv
      <4> QED
        BY <2>4, <2>7, <4>1
    <3>2. SpanRight(toks'[n + 1], spans'[n + 1][1], spans'[n + 1][2], GapStart(n + 1)')
      BY <2>1, <2>4, <2>7, <2>9
    <3>3. \A k \in 1 .. n + 1 :
            SpanRight(toks'[k], spans'[k][1], spans'[k][2], GapStart(k)')
      BY <2>1, <3>1, <3>2
    <3> QED
      BY <1>2, <2>4, <3>3, SameText
  <2>11. Pending'
    <3>1. GapStart(Len(spans) + 1)' = e + 1
      <4>1. Len(spans') + 1 = n + 2
        BY <2>1, <2>4
      <4>2. GapStart(Len(spans) + 1)' = GapStart(n + 2)'
        BY <4>1 DEF GapStart
      <4> QED
        BY <2>8, <4>2
    <3>2. Blank(e + 1, (e + 1) - 1)'
      BY <2>1 DEF Blank
    <3>3. Blank(GapStart(Len(spans) + 1), pos - 1)'
      BY <1>2, <3>1, <3>2
    <3> QED
      BY <1>2, <2>1, <2>4, <3>1, <3>3 DEF Pending
  <2>12. result' # "ok"
    BY <1>2
  <2> QED
    BY <2>3, <2>5, <2>6, <2>10, <2>11, <2>12 DEF LInv
<1> QED
  BY <1>1, <1>2 DEF Accept

-----------------------------------------------------------------------------
(* One lemma for each action.                                              *)

\* Facts every action starts from.
LEMMA Here ==
  ASSUME LInv, result = "scanning"
  PROVE  /\ Len(str) \in Nat /\ pos \in Nat /\ pos <= Len(str)
         /\ Ch(pos) # NUL => pos < Len(str)
         /\ Pending
<1>1. TextOK /\ pos \in 0 .. Len(str) /\ Pending
  BY DEF LInv
<1>2. Len(str) \in Nat
  BY <1>1 DEF TextOK
<1>3. pos \in Nat
  BY <1>1, <1>2
<1>4. Ch(pos) = NUL <=> pos >= Len(str)
  BY <1>1, <1>3, Terminator
<1> QED
  BY <1>1, <1>2, <1>3, <1>4

\* Separators, newlines counted.
LEMMA SeparatorKeeps ==
  ASSUME LInv, Separator PROVE LInv'
<1>1. result = "scanning" /\ Ch(pos) \in Separators /\ pos' = pos + 1
  BY DEF Separator, Scanning
<1>2. UNCHANGED <<str, toks, spans, result>>
  BY DEF Separator
<1>3. Ch(pos) # NUL
  BY <1>1 DEF Separators, NUL
<1>4. pos \in Nat /\ Len(str) \in Nat /\ pos + 1 \in pos .. Len(str)
  BY <1>1, <1>3, Here
<1>5. line' = 1 + Cardinality(Newlines(pos + 1))
  <2>1. line' = IF Ch(pos) = "\n" THEN line + 1 ELSE line
    BY DEF Separator
  <2>2. line = 1 + Cardinality(Newlines(pos))
    BY DEF LInv
  <2>3. Cardinality(Newlines(pos)) \in Nat
    BY <1>4, NewlinesFinite
  <2>4. Cardinality(Newlines(pos + 1))
          = Cardinality(Newlines(pos)) + (IF Ch(pos) = "\n" THEN 1 ELSE 0)
    BY <1>4, NewlinesNext
  <2> QED
    BY <2>1, <2>2, <2>3, <2>4
<1>6. Blank(GapStart(Len(spans) + 1), (pos + 1) - 1)
  <2>1. GapStart(Len(spans) + 1) \in 0 .. pos /\ Blank(GapStart(Len(spans) + 1), pos - 1)
    BY <1>1, Here DEF Pending
  <2>2. Blank(GapStart(Len(spans) + 1), pos)
    BY <1>1, <1>4, <2>1, BlankSeparator
  <2>3. (pos + 1) - 1 = pos
    BY <1>4
  <2> QED
    BY <2>2, <2>3
<1> QED
  BY <1>1, <1>2, <1>4, <1>5, <1>6, Skipped

\* Words: the run of letters and digits is a word, and no longer piece of
\* the text is a lexeme.
LEMMA IdentifierKeeps ==
  ASSUME LInv, Identifier PROVE LInv'
<1> DEFINE last == RunEnd(pos, Letters \cup DigitChars)
<1>1. result = "scanning" /\ Ch(pos) \in Letters
  BY DEF Identifier, Scanning
<1>2. Ch(pos) # NUL /\ NUL \notin WordChars
  BY <1>1, Signs DEF WordChars
<1>3. pos \in Nat /\ Len(str) \in Nat /\ pos < Len(str) /\ TextOK
  BY <1>1, <1>2, Here DEF LInv
<1>4. PICK e : e = last
  OBVIOUS
<1>5. /\ e \in pos - 1 .. Len(str) - 1
      /\ \A i \in pos .. e : Ch(i) \in WordChars
      /\ Ch(e + 1) \notin WordChars
  <2>1. last = RunEnd(pos, WordChars) /\ pos \in 0 .. Len(str)
    BY <1>3 DEF WordChars
  <2> HIDE DEF last
  <2> QED
    BY <1>2, <1>3, <1>4, <2>1, RunEndRight
<1>6. e \in pos .. Len(str) - 1
  BY <1>1, <1>3, <1>5 DEF WordChars
<1>7. \A f \in pos .. Len(str) - 1 : Text(pos, f)[1] = Ch(pos)
  BY <1>3, TextChars
<1>8. LexemeType(Text(pos, e)) = check_ident_type(Text(pos, e))
  <2>1. IsWord(Text(pos, e))
    BY <1>1, <1>3, <1>5, <1>6, WordText
  <2>2. Text(pos, e)[1] \in Letters
    BY <1>1, <1>6, <1>7
  <2> QED
    BY <2>1, <2>2, LexemeLetter
<1>9. \A f \in e + 1 .. Len(str) - 1 : LexemeType(Text(pos, f)) = "none"
  <2> TAKE f \in e + 1 .. Len(str) - 1
  <2>1. f \in Nat /\ pos <= f /\ f < Len(str) /\ e + 1 \in pos .. f
    BY <1>3, <1>6
  <2>2. ~IsWord(Text(pos, f))
    BY <1>3, <1>5, <2>1, WordText
  <2>3. Text(pos, f)[1] \in Letters
    BY <1>1, <1>3, <1>7, <2>1
  <2> QED
    BY <2>2, <2>3, LexemeLetter
<1>10. Accept(LexemeType(Text(pos, e)), Text(pos, e), e)
  BY <1>4, <1>8 DEF Identifier
<1>11. Text(pos, e) \in Seq(STRING)
  BY <1>3, <1>6, TextSeq
<1>12. \A i \in pos .. e : Ch(i) # "\n"
  BY <1>5, Signs
<1> QED
  BY <1>1, <1>5, <1>6, <1>9, <1>10, <1>11, <1>12, Accepted

\* Literals: nor are they followed by a letter or a digit.
LEMMA IntLiteralKeeps ==
  ASSUME LInv, IntLiteral PROVE LInv'
<1>1. result = "scanning" /\ Ch(pos) \in DigitChars
  BY DEF IntLiteral, Scanning
<1>2. pos \in Nat /\ Len(str) \in Nat /\ pos < Len(str) /\ TextOK
  <2>1. Ch(pos) # NUL
    BY <1>1, DigitSet DEF NUL
  <2> QED
    BY <1>1, <2>1, Here DEF LInv
<1>3. CASE scan_intliteral(pos) = -1
  BY <1>3, Failed DEF IntLiteral, ScanFails
<1>4. CASE scan_intliteral(pos) # -1
  <2>1. PICK e : e = scan_intliteral(pos)
    OBVIOUS
  <2>2. e \in pos .. Len(str) - 1 /\ IsNumber(Text(pos, e)) /\ Ch(e + 1) \notin WordChars
    BY <1>1, <1>2, <1>4, <2>1, LiteralEnd
  <2>3. \A f \in pos .. Len(str) - 1 : Text(pos, f)[1] = Ch(pos)
    BY <1>2, TextChars
  <2>4. LexemeType(Text(pos, e)) = "TOK_INTLITERAL"
    BY <1>1, <2>2, <2>3, LexemeDigit
  <2>5. \A f \in e + 1 .. Len(str) - 1 : LexemeType(Text(pos, f)) = "none"
    <3> TAKE f \in e + 1 .. Len(str) - 1
    <3>1. f \in Nat /\ pos <= f /\ f < Len(str) /\ e + 1 \in pos .. f
      BY <1>2, <2>2
    <3>2. ~IsNumber(Text(pos, f))
      BY <1>2, <2>2, <3>1, NumberText
    <3>3. Text(pos, f)[1] \in DigitChars
      BY <1>1, <1>2, <2>3, <3>1
    <3> QED
      BY <3>2, <3>3, LexemeDigit
  <2>6. Accept("TOK_INTLITERAL", Text(pos, e), e)
    BY <1>4, <2>1 DEF IntLiteral
  <2>7. Text(pos, e) \in Seq(STRING)
    BY <1>2, <2>2, TextSeq
  <2>8. \A i \in pos .. e : Ch(i) # "\n"
    <3>1. e \in Nat /\ pos <= e /\ e < Len(str)
      BY <1>2, <2>2
    <3>2. \A i \in pos .. e : Ch(i) \in WordChars
      BY <1>2, <2>2, <3>1, NumberText
    <3> QED
      BY <3>2, Signs
  <2> QED
    BY <1>1, <2>2, <2>4, <2>5, <2>6, <2>7, <2>8, Accepted
<1> QED
  BY <1>3, <1>4

\* No memory for the text of a word or a literal.
LEMMA NoMemoryKeeps ==
  ASSUME LInv, NoMemoryForText PROVE LInv'
BY Failed DEF NoMemoryForText, ScanFails

\* A character no token starts with.
LEMMA IllegalKeeps ==
  ASSUME LInv, Illegal PROVE LInv'
BY Failed DEF Illegal

\* Tokens of one character.
LEMMA SingleKeeps ==
  ASSUME LInv, Single PROVE LInv'
<1>1. result = "scanning" /\ Ch(pos) \in DOMAIN singles
  BY DEF Single, Scanning
<1>2. Ch(pos) # "\n" /\ Ch(pos) # NUL
  BY <1>1, Signs DEF NUL
<1>3. pos \in Nat /\ Len(str) \in Nat /\ pos < Len(str) /\ TextOK
  BY <1>1, <1>2, Here DEF LInv
<1>4. LexemeType(Text(pos, pos)) = singles[Ch(pos)]
  <2>1. Text(pos, pos)[1] = Ch(pos) /\ Len(Text(pos, pos)) = 1
    BY <1>3, Piece
  <2> QED
    BY <1>1, <2>1, LexemeSingle
<1>5. \A f \in pos + 1 .. Len(str) - 1 : LexemeType(Text(pos, f)) = "none"
  <2> TAKE f \in pos + 1 .. Len(str) - 1
  <2>1. f \in Nat /\ pos <= f /\ f < Len(str) /\ f # pos
    BY <1>3
  <2>2. Text(pos, f)[1] = Ch(pos) /\ Len(Text(pos, f)) # 1
    BY <1>3, <2>1, Piece
  <2> QED
    BY <1>1, <2>2, LexemeSingle
<1>6. singles[Ch(pos)] \notin {"TOK_IDENTIFIER", "TOK_INTLITERAL"}
  BY <1>1, SignTypes
<1>7. PICK e : e = pos
  OBVIOUS
<1>8. e \in pos .. Len(str) - 1 /\ \A i \in pos .. e : Ch(i) # "\n"
  BY <1>2, <1>3, <1>7
<1>9. Accept(singles[Ch(pos)], NoText, e) /\ NoText \in Seq(STRING)
  BY <1>7 DEF Single, NoText
<1> QED
  BY <1>1, <1>4, <1>5, <1>6, <1>7, <1>8, <1>9, Accepted

\* Tokens with an optional "=".
LEMMA PairKeeps ==
  ASSUME LInv, Pair PROVE LInv'
<1>1. result = "scanning" /\ Ch(pos) \in DOMAIN pairs
  BY DEF Pair, Scanning
<1>2. Ch(pos) # "\n" /\ Ch(pos) # NUL
  BY <1>1, Signs DEF NUL
<1>3. pos \in Nat /\ Len(str) \in Nat /\ pos < Len(str) /\ TextOK
  BY <1>1, <1>2, Here DEF LInv
<1>4. /\ pairs[Ch(pos)][1] \notin {"TOK_IDENTIFIER", "TOK_INTLITERAL"}
      /\ pairs[Ch(pos)][2] \notin {"TOK_IDENTIFIER", "TOK_INTLITERAL"}
  BY <1>1, SignTypes
<1>5. NoText \in Seq(STRING)
  BY DEF NoText
<1>6. CASE Ch(pos + 1) = "="
  <2>1. pos + 1 < Len(str)
    BY <1>3, <1>6, Terminator DEF NUL
  <2>2. PICK e : e = pos + 1
    OBVIOUS
  <2>3. e \in pos .. Len(str) - 1 /\ \A i \in pos .. e : Ch(i) # "\n"
    BY <1>2, <1>3, <1>6, <2>1, <2>2
  <2>4. LexemeType(Text(pos, e)) = pairs[Ch(pos)][2]
    <3>1. /\ Text(pos, e)[1] = Ch(pos) /\ Len(Text(pos, e)) = 2
          /\ Text(pos, e)[2] = "="
      BY <1>3, <1>6, <2>1, <2>2, Piece
    <3> QED
      BY <1>1, <3>1, LexemePair
  <2>5. \A f \in e + 1 .. Len(str) - 1 : LexemeType(Text(pos, f)) = "none"
    <3> TAKE f \in e + 1 .. Len(str) - 1
    <3>1. f \in Nat /\ pos <= f /\ f < Len(str) /\ f # pos /\ f # pos + 1
      BY <1>3, <2>2
    <3>2. Text(pos, f)[1] = Ch(pos) /\ Len(Text(pos, f)) # 1 /\ Len(Text(pos, f)) # 2
      BY <1>3, <3>1, Piece
    <3> QED
      BY <1>1, <3>2, LexemePair
  <2>6. Accept(pairs[Ch(pos)][2], NoText, e)
    BY <1>6, <2>2 DEF Pair
  <2> QED
    BY <1>1, <1>4, <1>5, <2>3, <2>4, <2>5, <2>6, Accepted
<1>7. CASE Ch(pos + 1) # "="
  <2>1. Ch(pos) # "!"
    BY <1>7 DEF Pair
  <2>2. PICK e : e = pos
    OBVIOUS
  <2>3. e \in pos .. Len(str) - 1 /\ \A i \in pos .. e : Ch(i) # "\n"
    BY <1>2, <1>3, <2>2
  <2>4. LexemeType(Text(pos, e)) = pairs[Ch(pos)][1]
    <3>1. Text(pos, e)[1] = Ch(pos) /\ Len(Text(pos, e)) = 1
      BY <1>3, <2>2, Piece
    <3> QED
      BY <1>1, <2>1, <3>1, LexemePair
  <2>5. \A f \in e + 1 .. Len(str) - 1 : LexemeType(Text(pos, f)) = "none"
    <3> TAKE f \in e + 1 .. Len(str) - 1
    <3>1. f \in Nat /\ pos <= f /\ f < Len(str) /\ f # pos
      BY <1>3, <2>2
    <3>2. /\ Text(pos, f)[1] = Ch(pos) /\ Len(Text(pos, f)) # 1
          /\ Text(pos, f)[2] # "="
      BY <1>3, <1>7, <3>1, Piece
    <3> QED
      BY <1>1, <3>2, LexemePair
  <2>6. Accept(pairs[Ch(pos)][1], NoText, e)
    BY <1>7, <2>2 DEF Pair
  <2> QED
    BY <1>1, <1>4, <1>5, <2>3, <2>4, <2>5, <2>6, Accepted
<1> QED
  BY <1>6, <1>7

\* A comment, or the sign of division.
LEMMA SlashKeeps ==
  ASSUME LInv, Slash PROVE LInv'
<1>1. result = "scanning" /\ Ch(pos) = "/"
  BY DEF Slash, Scanning
<1>2. pos \in Nat /\ Len(str) \in Nat /\ pos < Len(str) /\ TextOK
  BY <1>1, Here DEF LInv, NUL
<1>3. CASE Ch(pos + 1) = "/"
  <2>1. PICK e \in pos .. Len(str) :
          /\ Ch(e) \in {NUL, "\n"}
          /\ \A i \in pos .. e - 1 : Ch(i) \notin {NUL, "\n"}
          /\ pos' = e
    BY <1>3 DEF Slash
  <2>2. UNCHANGED <<str, line, toks, spans, result>>
    BY <1>3 DEF Slash
  <2>3. e \in Nat /\ e # pos /\ e # pos + 1
    BY <1>1, <1>2, <1>3, <2>1 DEF NUL
  <2>4. pos + 2 <= e /\ e <= Len(str) /\ \A i \in pos .. e - 1 : Ch(i) # "\n"
    BY <1>2, <2>1, <2>3
  <2>5. line' = 1 + Cardinality(Newlines(e))
    <3>1. Newlines(e) = Newlines(pos)
      BY <1>2, <2>3, <2>4, NewlinesSame
    <3> QED
      BY <2>2, <3>1 DEF LInv
  <2>6. Blank(GapStart(Len(spans) + 1), e - 1)
    <3>1. GapStart(Len(spans) + 1) \in 0 .. pos /\ Blank(GapStart(Len(spans) + 1), pos - 1)
      BY <1>1, Here DEF Pending
    <3>2. GapStart(Len(spans) + 1) \in Nat /\ GapStart(Len(spans) + 1) <= pos
      BY <1>2, <3>1
    <3> QED
      BY <1>1, <1>2, <1>3, <2>3, <2>4, <3>1, <3>2, BlankComment
  <2> QED
    BY <1>1, <2>1, <2>2, <2>5, <2>6, Skipped
<1>4. CASE Ch(pos + 1) # "/"
  <2>1. PICK e : e = pos
    OBVIOUS
  <2>2. e \in pos .. Len(str) - 1 /\ \A i \in pos .. e : Ch(i) # "\n"
    BY <1>1, <1>2, <2>1
  <2>3. \A f \in pos .. Len(str) - 1 :
          Text(pos, f) # << >> /\ Text(pos, f) \in Seq(STRING)
    BY <1>2, TextChars, TextSeq
  <2>4. LexemeType(Text(pos, e)) = "TOK_SLASH"
    <3>1. Text(pos, e)[1] = "/" /\ Len(Text(pos, e)) = 1
      BY <1>1, <1>2, <2>1, Piece
    <3> QED
      BY <2>2, <2>3, <3>1, LexemeSlash
  <2>5. \A f \in e + 1 .. Len(str) - 1 : LexemeType(Text(pos, f)) = "none"
    <3> TAKE f \in e + 1 .. Len(str) - 1
    <3>1. f \in pos .. Len(str) - 1 /\ f \in Nat /\ pos <= f /\ f < Len(str) /\ f # pos
      BY <1>2, <2>1
    <3>2. Text(pos, f)[1] = "/" /\ Len(Text(pos, f)) # 1 /\ Text(pos, f)[2] # "/"
      BY <1>1, <1>2, <1>4, <3>1, Piece
    <3> QED
      BY <2>3, <3>1, <3>2, LexemeSlash
  <2>6. Accept("TOK_SLASH", NoText, e) /\ NoText \in Seq(STRING)
    BY <1>4, <2>1 DEF Slash, NoText
  <2> QED
    BY <1>1, <2>2, <2>4, <2>5, <2>6, Accepted
<1> QED
  BY <1>3, <1>4

\* The end of the text.
LEMMA EndKeeps ==
  ASSUME LInv, End PROVE LInv'
<1>1. result = "scanning" /\ Ch(pos) = NUL /\ UNCHANGED <<str, pos, line, spans>>
  BY DEF End, Scanning
<1>2. toks' = Append(toks, Tok("TOK_EOF", NoText)) /\ result' = "ok"
  BY DEF End
<1>3. pos = Len(str) /\ Pending /\ Len(str) \in Nat
  BY <1>1, Here, Terminator DEF LInv
<1>4. TextOK' /\ pos' \in 0 .. Len(str') /\ result' \in {"scanning", "ok", "NULL"}
  BY <1>1, <1>2 DEF LInv, TextOK
<1>5. (line = 1 + Cardinality(Newlines(pos)))'
  <2>1. Newlines(pos)' = Newlines(pos)
    BY <1>1 DEF Newlines, Ch
  <2> QED
    BY <1>1, <2>1 DEF LInv
<1>6. (toks \in Seq([type : TokenTypes, val : Seq(STRING)]) /\ spans \in Seq(Nat \X Nat))'
  <2>1. toks \in Seq([type : TokenTypes, val : Seq(STRING)]) /\ spans \in Seq(Nat \X Nat)
    BY DEF LInv
  <2>2. Tok("TOK_EOF", NoText) \in [type : TokenTypes, val : Seq(STRING)]
    BY DEF Tok, NoText, TokenTypes
  <2> HIDE DEF Tok
  <2> QED
    BY <1>1, <1>2, <2>1, <2>2
<1>7. \A k : GapStart(k)' = GapStart(k)
  BY <1>1 DEF GapStart
<1>8. (\A k \in 1 .. Len(spans) :
         SpanRight(toks[k], spans[k][1], spans[k][2], GapStart(k)))'
  <2>1. \A k \in 1 .. Len(spans) : toks'[k] = toks[k]
    BY <1>2, <1>3 DEF LInv, Pending
  <2>2. \A k \in 1 .. Len(spans) :
          SpanRight(toks[k], spans[k][1], spans[k][2], GapStart(k))
    BY DEF LInv
  <2> QED
    BY <1>1, <1>7, <2>1, <2>2, SameText
<1>9. Blank(GapStart(Len(spans) + 1), Len(str) - 1)'
  <2>1. Blank(GapStart(Len(spans) + 1), Len(str) - 1)
    BY <1>3 DEF Pending
  <2> QED
    BY <1>1, <1>7, <2>1, SameText
<1> QED
  BY <1>2, <1>4, <1>5, <1>6, <1>8, <1>9 DEF LInv

-----------------------------------------------------------------------------
(* The theorems.                                                           *)

\* The invariant holds when tokenize_string starts.
LEMMA InitL ==
  ASSUME Init PROVE LInv
<1>1. TextOK /\ Len(str) \in Nat
  BY LexerAssumption DEF Init, TextOK
<1>2. pos = 0 /\ line = 1 /\ toks = << >> /\ spans = << >> /\ result = "scanning"
  BY DEF Init
<1>3. Cardinality(Newlines(pos)) = 0
  <2>1. Newlines(pos) = {}
    BY <1>2 DEF Newlines
  <2> QED
    BY <2>1, FS_EmptySet
<1>4. Pending
  <2>1. GapStart(Len(spans) + 1) = 0
    BY <1>2 DEF GapStart
  <2>2. Blank(0, pos - 1)
    BY <1>2 DEF Blank
  <2> QED
    BY <1>2, <2>1, <2>2 DEF Pending
<1>5. toks \in Seq([type : TokenTypes, val : Seq(STRING)]) /\ spans \in Seq(Nat \X Nat)
  BY <1>2
<1> QED
  BY <1>1, <1>2, <1>3, <1>4, <1>5 DEF LInv

\* Every turn of the loop keeps it.
LEMMA StepL ==
  ASSUME LInv, [Next]_vars PROVE LInv'
<1>1. CASE Separator
  BY <1>1, SeparatorKeeps
<1>2. CASE Identifier
  BY <1>2, IdentifierKeeps
<1>3. CASE IntLiteral
  BY <1>3, IntLiteralKeeps
<1>4. CASE NoMemoryForText
  BY <1>4, NoMemoryKeeps
<1>5. CASE Single
  BY <1>5, SingleKeeps
<1>6. CASE Illegal
  BY <1>6, IllegalKeeps
<1>7. CASE Pair
  BY <1>7, PairKeeps
<1>8. CASE Slash
  BY <1>8, SlashKeeps
<1>9. CASE End
  BY <1>9, EndKeeps
<1>10. CASE UNCHANGED vars
  <2>1. UNCHANGED <<str, pos, line, toks, spans, result>>
    BY <1>10 DEF vars
  <2>2. /\ \A k : GapStart(k)' = GapStart(k)
        /\ \A b, e : Blank(b, e)' <=> Blank(b, e)
        /\ \A t, b, e, g : SpanRight(t, b, e, g)' <=> SpanRight(t, b, e, g)
        /\ Newlines(pos)' = Newlines(pos)
    <3>1. Newlines(pos)' = Newlines(pos)
      BY <2>1 DEF Newlines, Ch
    <3> QED
      BY <2>1, <3>1, SameText DEF GapStart
  <2>3. TextOK' /\ (Pending' <=> Pending)
    BY <2>1, <2>2 DEF LInv, TextOK, Pending
  <2>4. (line = 1 + Cardinality(Newlines(pos)))'
    BY <2>1, <2>2 DEF LInv
  <2>5. (\A k \in 1 .. Len(spans) :
           SpanRight(toks[k], spans[k][1], spans[k][2], GapStart(k)))'
    BY <2>1, <2>2 DEF LInv
  <2>6. (result = "ok" => Blank(GapStart(Len(spans) + 1), Len(str) - 1))'
    BY <2>1, <2>2 DEF LInv
  <2>7. result' = "scanning" => Pending'
    BY <2>1, <2>3 DEF LInv
  <2> QED
    BY <2>1, <2>3, <2>4, <2>5, <2>6, <2>7 DEF LInv
<1> QED
  BY <1>1, <1>2, <1>3, <1>4, <1>5, <1>6, <1>7, <1>8, <1>9, <1>10 DEF Next

\* The invariant of the scanner.
THEOREM ScannerInvariant == Spec => []LInv
<1>1. Init => LInv
  BY InitL
<1>2. LInv /\ [Next]_vars => LInv'
  BY StepL
<1> QED
  BY <1>1, <1>2, PTL DEF Spec

\* The scanner stays in the text and the line of its error messages is the
\* line of the character they complain about, for every source text.
THEOREM PositionKnown == Spec => []PositionRight
<1>1. LInv => PositionRight
  BY DEF LInv, PositionRight, Newlines
<1> QED
  BY <1>1, ScannerInvariant, PTL

\* The tokens are the longest lexemes of the text, in order and without
\* gaps, for every source text.
THEOREM LongestLexemes == Spec => []LongestMatch
<1>1. ASSUME LInv PROVE LongestMatch
  <2>1. DOMAIN spans = 1 .. Len(spans)
    BY <1>1 DEF LInv
  <2>2. ASSUME NEW k \in 1 .. Len(spans)
        PROVE  SpanRight(toks[k], spans[k][1], spans[k][2], GapStart(k))
    BY <1>1 DEF LInv
  <2>3. result = "ok" => Blank(GapStart(Len(spans) + 1), Len(str) - 1)
    BY <1>1 DEF LInv
  <2> QED
    BY <2>1, <2>2, <2>3 DEF LongestMatch, SpanRight, WordChars
<1> QED
  BY <1>1, ScannerInvariant, PTL
=============================================================================
