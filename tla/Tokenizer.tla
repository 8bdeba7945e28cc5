----------------------------- MODULE Tokenizer -----------------------------
(***************************************************************************)
(* The tokenizer of the legacy frontend                                    *)
(* (src/src/legacy_ast/ast_parser/Tokenizer.cpp, Tokens.cpp,               *)
(* PushBackStream.cpp).  It reads characters from a stream to which it     *)
(* gives those back that it has read too many; the stream counts lines and *)
(* characters, forwards and backwards.                                     *)
(*                                                                         *)
(* One step reads one character.  The C++ functions are the modes:         *)
(* tokenize is "start", and "slash" when it has seen a slash.              *)
(***************************************************************************)
EXTENDS AbcLexemes

VARIABLES
  stream,    \* the text and how far it has been read, what was pushed back, and the counts
  mode,      \* the function that reads
  word,      \* what it has read of the token
  begun,     \* the counts when the token began
  flag,      \* escaped (in a string) or closing (in a block comment)
  matched,   \* match_size (in an operator)
  lexed      \* the tokens so far

tokenizerVars == <<stream, mode, word, begun, flag, matched, lexed>>

Tokenizing == mode \notin {"ended", "thrown"}

TokenizerInit(text) ==
  /\ stream = [text |-> text, next |-> 0, pushed |-> << >>, line |-> 0, index |-> 0]
  /\ mode = "start"
  /\ word = << >> /\ begun = <<0, 0>> /\ flag = FALSE /\ matched = 0
  /\ lexed = << >>

-----------------------------------------------------------------------------
(* PushBackStream                                                          *)

CharAt(text, k) == IF k <= Len(text) THEN text[k] ELSE Eof

\* The character that the next call returns.
Ahead ==
  IF stream.pushed # << >> THEN Head(stream.pushed) ELSE CharAt(stream.text, stream.next + 1)

LinesIn(chars) == Cardinality({k \in DOMAIN chars : chars[k] = "\n"})

\* The stream after that call.
Taken ==
  [stream EXCEPT !.pushed = IF @ = << >> THEN @ ELSE Tail(@),
                 !.next = IF stream.pushed = << >> /\ @ < Len(stream.text) THEN @ + 1 ELSE @,
                 !.line = @ + LinesIn(<<Ahead>>),
                 !.index = @ + 1]

\* Mutant: in the order they were read.
PushBackInOrder(s, chars) ==
  [s EXCEPT !.pushed = Reverse(chars) \o @, !.line = @ - LinesIn(chars), !.index = @ - Len(chars)]

\* All of these, the last one first.
PushBackAll(s, chars) ==
  [s EXCEPT !.pushed = chars \o @, !.line = @ - LinesIn(chars), !.index = @ - Len(chars)]

PushBack(s, c) == PushBackAll(s, <<c>>)

-----------------------------------------------------------------------------
Enter(m) ==
  /\ mode' = m
  /\ begun' = <<stream'.line, stream'.index>>
  /\ word' = << >> /\ flag' = FALSE /\ matched' = 0
  /\ UNCHANGED lexed

Stay == UNCHANGED <<mode, begun, lexed>>

Take(c) == word' = Append(word, c) /\ UNCHANGED <<flag, matched>> /\ Stay

Returns(token) ==
  /\ lexed' = Append(lexed, [token |-> token, line |-> begun[1], index |-> begun[2]])
  /\ mode' = "start"
  /\ word' = << >> /\ flag' = FALSE /\ matched' = 0
  /\ UNCHANGED begun

Leaves(how) == mode' = how /\ UNCHANGED <<word, begun, flag, matched, lexed>>

\* tokenize
Start ==
  /\ mode = "start"
  /\ CASE Kind(Ahead) = "eof"      -> stream' = Taken /\ Leaves("ended")
       [] Kind(Ahead) = "space"    -> stream' = Taken /\ Enter("start")
       [] Kind(Ahead) = "alphanum" -> stream' = PushBack(Taken, Ahead) /\ Enter("word")
       [] Ahead = Quote            -> stream' = Taken /\ Enter("string")
       [] Ahead = "/"              -> stream' = Taken /\ Enter("slash")
       [] OTHER                    -> stream' = PushBack(Taken, Ahead) /\ Enter("operator")

AfterSlash ==
  /\ mode = "slash"
  /\ CASE Ahead = "/" -> stream' = Taken /\ Enter("line comment")
       [] Ahead = "*" -> stream' = Taken /\ Enter("block comment")
       [] OTHER       -> stream' = PushBackAll(Taken, <<"/", Ahead>>) /\ Enter("operator")

\* fetch_word.  For a number with suffix f it looks at a character of a
\* string that is gone, so that either may happen.
Throws(w) == mode' = "thrown" /\ word' = w /\ UNCHANGED <<begun, flag, matched, lexed>>

ReturnsWord(w) ==
  CASE Kind(w[1]) = "alphanum" /\ w[1] \notin Digits -> Returns(Spelt(w))
    [] HasSuffixF(w)                                 -> Returns(Spelt(w)) \/ Throws(w)
    [] IsNumber(w)                                   -> Returns(Spelt(w))
    [] OTHER                                         -> Throws(w)

Continues == Kind(Ahead) = "alphanum" \/ (word[1] \in Digits /\ Ahead = ".")

FetchWord ==
  /\ mode = "word"
  /\ CASE word = << >> -> stream' = Taken /\ Take(Ahead)
       [] word # << >> /\ Ahead = "." /\ Last(word) = "." ->
            stream' = PushBackAll(Taken, <<".", Ahead>>) /\ ReturnsWord(Front(word))
       [] word # << >> /\ Continues /\ ~(Ahead = "." /\ Last(word) = ".") ->
            stream' = Taken /\ Take(Ahead)
       [] word # << >> /\ ~Continues -> stream' = PushBack(Taken, Ahead) /\ ReturnsWord(word)

-----------------------------------------------------------------------------
\* getOperator: the operators that begin as what has been read.
Candidates(chars) ==
  {op \in OperatorTokens : Len(op) >= Len(chars) /\ SubSeq(Chars(op), 1, Len(chars)) = chars}

\* Mutant: an operator is given up for a longer one that does not come.
MatchLast(chars) == IF Spelt(chars) \in OperatorTokens THEN Len(chars) ELSE 0

Match(chars) == IF Spelt(chars) \in OperatorTokens THEN Len(chars) ELSE matched

FetchOperator ==
  /\ mode = "operator"
  /\ LET chars == Append(word, Ahead)
     IN  IF Candidates(chars) # {}
         THEN /\ stream' = Taken
              /\ word' = chars
              /\ matched' = Match(chars)
              /\ UNCHANGED flag /\ Stay
         ELSE /\ stream' = PushBackAll(Taken, SubSeq(chars, matched + 1, Len(chars)))
              /\ IF matched = 0 THEN Leaves("thrown") ELSE Returns(Spelt(SubSeq(chars, 1, matched)))

\* A backslash after a backslash escapes what comes next once more.
FetchString ==
  /\ mode = "string"
  /\ CASE Kind(Ahead) = "eof" -> stream' = PushBack(Taken, Ahead) /\ Leaves("thrown")
       [] Ahead = "\\" -> stream' = Taken /\ flag' = TRUE /\ UNCHANGED <<word, matched>> /\ Stay
       [] flag /\ Kind(Ahead) # "eof" /\ Ahead # "\\" ->
            stream' = Taken /\ word' = Append(word, Escaped(Ahead)) /\ flag' = FALSE /\ UNCHANGED matched /\ Stay
       [] ~flag /\ Ahead \in {"\t", "\n", "\r"} -> stream' = PushBack(Taken, Ahead) /\ Leaves("thrown")
       [] ~flag /\ Ahead = Quote -> stream' = Taken /\ Returns(Quoted(word))
       [] OTHER -> stream' = Taken /\ Take(Ahead)

SkipLineComment ==
  /\ mode = "line comment"
  /\ CASE Ahead = "\n"        -> stream' = Taken /\ Enter("start")
       [] Kind(Ahead) = "eof" -> stream' = PushBack(Taken, Ahead) /\ Enter("start")
       [] OTHER               -> stream' = Taken /\ UNCHANGED <<word, flag, matched>> /\ Stay

SkipBlockComment ==
  /\ mode = "block comment"
  /\ CASE flag /\ Ahead = "/"  -> stream' = Taken /\ Enter("start")
       [] Kind(Ahead) = "eof"  -> stream' = PushBack(Taken, Ahead) /\ Leaves("thrown")
       [] OTHER                -> stream' = Taken /\ flag' = (Ahead = "*") /\ UNCHANGED <<word, matched>> /\ Stay

TokenizerStep ==
  Start \/ AfterSlash \/ FetchWord \/ FetchOperator \/ FetchString \/ SkipLineComment \/ SkipBlockComment

TokenizerSpec(text) == TokenizerInit(text) /\ [][TokenizerStep]_tokenizerVars

-----------------------------------------------------------------------------
LinesBefore(text, k) == Cardinality({m \in 1 .. k : CharAt(text, m) = "\n"})

\* The k-th character that is to come from the stream.
Coming(k) ==
  IF k <= Len(stream.pushed) THEN stream.pushed[k]
  ELSE CharAt(stream.text, stream.next + k - Len(stream.pushed))

(***************************************************************************)
(* However much is read ahead and given back, what is to come is the rest  *)
(* of the text, and the counts say where in the text that is.              *)
(***************************************************************************)
GivenBackInOrder ==
  /\ \A k \in DOMAIN stream.pushed \cup DOMAIN stream.text :
       Coming(k) = CharAt(stream.text, stream.index + k)
  /\ stream.line = LinesBefore(stream.text, stream.index)

(***************************************************************************)
(* Every token but a string literal is spelt by the text from the place    *)
(* that it says it is at, a string literal is behind the quote, and what   *)
(* one token takes of the text ends before the next one begins.            *)
(***************************************************************************)
Between(text, p, q) == [k \in 1 .. q - p |-> CharAt(text, p + k)]

StandsAt(text, t, q) ==
  \/ t.index > 0 /\ CharAt(text, t.index) = Quote
  \/ t.token = Spelt(Between(text, t.index, q))

TokensInPlace ==
  \A k \in DOMAIN lexed :
    /\ lexed[k].line = LinesBefore(stream.text, lexed[k].index)
    /\ \E q \in lexed[k].index .. (IF k < Len(lexed) THEN lexed[k + 1].index ELSE stream.index) :
         StandsAt(stream.text, lexed[k], q)
=============================================================================
