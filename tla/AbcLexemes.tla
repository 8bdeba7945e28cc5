----------------------------- MODULE AbcLexemes -----------------------------
(***************************************************************************)
(* The characters and lexemes of the legacy frontend's language            *)
(* (src/src/legacy_ast/ast_parser/Tokens.cpp and Tokenizer.cpp), and a     *)
(* definition of which tokens a text consists of that reads the text in no *)
(* order: at every place stands the longest lexeme that fits there.        *)
(*                                                                         *)
(* A text is a sequence of characters, each a string.  A token is the      *)
(* string it is written as, and for a string literal what it contains,     *)
(* between quotes.                                                         *)
(***************************************************************************)
EXTENDS Integers, Sequences, SequencesExt, FiniteSets, FiniteSetsExt

OperatorTokens ==
  {"++", "--", "+", "-", "..", "*", "/", "\\", "%", "+++", "---", "***", "~", "&", "|", "^", "<<", ">>",
   "=", "+=", "-=", "..=", "*=", "/=", "\\=", "%=", "&=", "|=", "^=", "<<=", ">>=", "!", "&&", "||",
   "==", "!=", "<", ">", "<=", ">=", "?", ":", ",", ";", "(", ")", "{", "}", "[", "]"}

Chars(string) == [k \in 1 .. Len(string) |-> SubSeq(string, k, k)]
Spelt(chars) == FoldLeft(LAMBDA s, c : s \o c, "", chars)
AnyOf(string) == ToSet(Chars(string))

Octal == AnyOf("01234567")
Digits == Octal \cup {"8", "9"}
Hexadecimal == Digits \cup AnyOf("abcdefABCDEF")
Letters == AnyOf("abcdefghijklmnopqrstuvwxyzABCDEFGHIJKLMNOPQRSTUVWXYZ_")
Spaces == {" ", "\t", "\n", "\r"}

Eof == "end of text"
NonAscii == "beyond ASCII"
Quote == "\""

\* get_character_type; a byte beyond ASCII is negative, as is EOF.
Kind(c) ==
  CASE c \in {Eof, NonAscii}        -> "eof"
    [] c \in Spaces                 -> "space"
    [] c \in Letters \cup Digits    -> "alphanum"
    [] OTHER                        -> "punct"

-----------------------------------------------------------------------------
(* What strtol (with base 0) and strtod read to the end.                   *)
All(chars, set) == chars # << >> /\ ToSet(chars) \subseteq set

IsHex(w) == Len(w) > 2 /\ w[1] = "0" /\ w[2] \in {"x", "X"}

IsInteger(w) ==
  \/ All(w, Digits) /\ w[1] # "0"
  \/ All(w, Octal)
  \/ IsHex(w) /\ All(SubSeq(w, 3, Len(w)), Hexadecimal)

Mantissa(w, digits) ==
  \E k \in DOMAIN w : w[k] = "." /\ All(RemoveAt(w, k), digits)

IsDouble(w) ==
  \/ Mantissa(w, Digits)
  \/ \E k \in DOMAIN w : w[k] \in {"e", "E"} /\
       All(SubSeq(w, k + 1, Len(w)), Digits) /\ Mantissa(SubSeq(w, 1, k - 1), Digits)
  \/ IsHex(w) /\ Mantissa(SubSeq(w, 3, Len(w)), Hexadecimal)

HasSuffixF(w) == Last(w) = "f"

IsNumber(w) == IF "." \in ToSet(w) THEN IsDouble(w) ELSE IsInteger(w)

\* What an escaped character stands for.
Escaped(c) ==
  CASE c = "t" -> "\t" [] c = "n" -> "\n" [] c = "r" -> "\r" [] c = "0" -> "NUL" [] OTHER -> c

Quoted(chars) == Quote \o Spelt(chars) \o Quote

-----------------------------------------------------------------------------
(* Which lexemes begin at place p: where each ends.                        *)
Part(text, p, q) == SubSeq(text, p, q)
Stands(string, text, p) ==
  p + Len(string) - 1 <= Len(text) /\ Spelt(Part(text, p, p + Len(string) - 1)) = string
AfterIt(text, q) == IF q < Len(text) THEN text[q + 1] ELSE Eof

Blank(text, p) == {q \in {p} : text[p] \in Spaces}

LineComment(text, p) ==
  {q \in p + 1 .. Len(text) :
     /\ Stands("//", text, p)
     /\ AfterIt(text, q) \in {"\n", Eof}
     /\ "\n" \notin ToSet(Part(text, p, q))}

BlockComment(text, p) ==
  {q \in p + 3 .. Len(text) :
     /\ Stands("/*", text, p) /\ Stands("*/", text, q - 1)
     /\ \A m \in p + 3 .. q - 1 : ~Stands("*/", text, m - 1)}

Unclosed(text, p) == Stands("/*", text, p) /\ BlockComment(text, p) = {}

\* A number may contain points, but not the first of the two of a range.
Word(text, p) ==
  {q \in p .. Len(text) :
     /\ text[p] \in Letters \cup Digits
     /\ ToSet(Part(text, p, q)) \subseteq
          Letters \cup Digits \cup (IF text[p] \in Digits THEN {"."} ELSE {})
     /\ \A k \in p .. q : ~(text[k] = "." /\ AfterIt(text, k) = ".")}

Operator(text, p) ==
  {q \in p .. Min({p + 2, Len(text)}) :
     Spelt(Part(text, p, q)) \in OperatorTokens /\ ~Stands("//", text, p)}

\* Places in a string that are escaped: those after a backslash that is not.
IsEscaped(text, p) ==
  LET escaped[k \in p .. Len(text)] == k > p + 1 /\ text[k - 1] = "\\" /\ ~escaped[k - 1]
  IN  escaped

String(text, p) ==
  {q \in p + 1 .. Len(text) :
     LET escaped == IsEscaped(text, p)
         Closes(k) == text[k] = Quote /\ ~escaped[k]
     IN  /\ text[p] = Quote
         /\ Closes(q)
         /\ \A k \in p + 1 .. q - 1 : ~Closes(k) /\ (text[k] \in {"\n", "\t", "\r"} => escaped[k])}

Content(text, p, q) ==
  LET escaped == IsEscaped(text, p)
      inside  == SetToSortSeq({k \in p + 1 .. q - 1 : escaped[k] \/ text[k] # "\\"}, <)
  IN  [m \in DOMAIN inside |-> IF escaped[inside[m]] THEN Escaped(text[inside[m]]) ELSE text[inside[m]]]

-----------------------------------------------------------------------------
(* The tokens of a text, each with the line and the place that it begins   *)
(* at, counted from 0; for a string it is the place after the quote.  If   *)
(* some part of the text is no lexeme, Broken comes last.                  *)
Broken == "broken"
BrokenHere == [token |-> Broken, line |-> 0, index |-> 0]

At(text, p, token) ==
  [token |-> token, line |-> Cardinality({k \in 1 .. p - 1 : text[k] = "\n"}), index |-> p - 1]

Passed(text, p) == Blank(text, p) \cup LineComment(text, p) \cup BlockComment(text, p)
Lexemes(text, p) == Passed(text, p) \cup Word(text, p) \cup Operator(text, p) \cup String(text, p)

TokenOf(text, p, q) ==
  LET chars == Part(text, p, q)
  IN  IF q \in String(text, p) THEN At(text, p + 1, Quoted(Content(text, p, q)))
      ELSE IF text[p] \in Digits /\ ~HasSuffixF(chars) /\ ~IsNumber(chars) THEN BrokenHere
      ELSE At(text, p, Spelt(chars))

TokensOf(text) ==
  LET longest == [p \in DOMAIN text |-> Max(Lexemes(text, p) \cup {0})]
      from[p \in 1 .. Len(text) + 1] ==
        CASE p > Len(text) -> << >>
          [] p <= Len(text) /\ (Unclosed(text, p) \/ longest[p] = 0) -> <<BrokenHere>>
          [] p <= Len(text) /\ longest[p] \in Passed(text, p) -> from[longest[p] + 1]
          [] OTHER -> LET t == TokenOf(text, p, longest[p])
                      IN  IF t = BrokenHere THEN <<t>> ELSE <<t>> \o from[longest[p] + 1]
  IN  from[1]
=============================================================================
