------------------------------ MODULE Frontend ------------------------------
(***************************************************************************)
(* The legacy frontend from text to operations: the tokenizer,             *)
(* Parser::parse, and then the visitor that emits the AST dialect.  (What  *)
(* parse does in between, setting parents, is the module ParentSetting.)   *)
(* A tokens_iterator is over a text or over tokens that are given; some    *)
(* texts are only split into tokens here.                                  *)
(***************************************************************************)
EXTENDS Tokenizer, Parser, AbcGrammar, AstToMlir

vars == <<parserVars, tokenizerVars, mlirVars>>

IsText == "text" \in DOMAIN program

FrontendInit ==
  /\ Init
  /\ MlirInit
  /\ TokenizerInit(IF IsText THEN program.text ELSE << >>)

\* What the iterator will point at, one after the other.
Tokens ==
  [k \in DOMAIN lexed |-> lexed[k].token] \o (IF mode = "thrown" THEN <<Broken>> ELSE << >>)

\* The parser asks for one token at a time; here they are there before it
\* starts, up to the one at which the tokenizer throws.
Tokenize ==
  /\ TokenizerStep
  /\ program' = IF IsText THEN [program EXCEPT !.tokens = Tokens'] ELSE program
  /\ UNCHANGED <<pos, agenda, values, created, outcome, mlirVars>>

Parse ==
  /\ ~Tokenizing
  /\ program.parsed
  /\ Lookahead # Broken
  /\ ParseStep
  /\ UNCHANGED <<tokenizerVars, mlirVars>>

\* The iterator is advanced to what is no token.
ParseBroken ==
  /\ outcome = "parsing"
  /\ ~Tokenizing
  /\ program.parsed
  /\ Lookahead = Broken
  /\ Fail
  /\ UNCHANGED <<tokenizerVars, mlirVars>>

StartTranslation ==
  /\ outcome = "parsed"
  /\ Translate(values[1])
  /\ UNCHANGED <<parserVars, tokenizerVars>>

Emit == MlirStep /\ UNCHANGED <<parserVars, tokenizerVars>>

Next == Tokenize \/ Parse \/ ParseBroken \/ StartTranslation \/ Emit

Spec == FrontendInit /\ [][Next]_vars

\* parse and accept run on the thread that called them until they return.
FairSpec == Spec /\ WF_vars(Next)

-----------------------------------------------------------------------------
(* The stack discipline: what is still to be done was asked for when the   *)
(* stack of values was no higher than it is now, the innermost call last,  *)
(* and as long as parsing goes on something is to be done.                 *)
Base(a) ==
  CASE a.do \in {"build", "shunt", "check", "cleanup", "listed", "value"} -> a.arg.base
    [] a.do \in {"statements", "else", "returned", "indices", "list", "next in list"} -> a.arg
    [] OTHER -> 0

Based == {k \in DOMAIN agenda : Base(agenda[k]) > 0}

TypeOK ==
  /\ outcome \in Outcomes
  /\ pos \in 1 .. Len(program.tokens) + 1
  /\ outcome = "parsing" => agenda # << >>
  /\ \A k \in Based : Base(agenda[k]) <= Here
  /\ \A k, m \in Based : k <= m => Base(agenda[k]) >= Base(agenda[m])
  /\ status \in {"waiting", "visiting", "done", "error", "runaway"}
  /\ Visiting => frames # << >>

(***************************************************************************)
(* The tokens are the longest lexemes of the text, each with the line and  *)
(* the place it is at, with nothing but spaces and comments between them,  *)
(* up to the first part that is no lexeme.  In a string, two backslashes   *)
(* are not one; bytes beyond ASCII end the text; and after a number with   *)
(* suffix f the tokenizer may throw.  (The parser, once it has started,    *)
(* does not change them.)                                                  *)
(***************************************************************************)
Doubled(text) == \E k \in 1 .. Len(text) - 1 : text[k] = "\\" /\ text[k + 1] = "\\"
InAscii(text) == \A k \in DOMAIN text : text[k] # NonAscii

ThrewAtFloat == mode = "thrown" /\ word # << >> /\ word[1] \in Digits /\ Last(word) = "f"

TokensAreTheLexemes ==
  ~Tokenizing /\ IsText /\ pos = 1 /\ ~Doubled(program.text) /\ InAscii(program.text) /\ ~ThrewAtFloat =>
    lexed \o (IF mode = "thrown" THEN <<BrokenHere>> ELSE << >>) = TokensOf(program.text)

(***************************************************************************)
(* A program is read as C++'s grammar and precedences read it, and is      *)
(* refused if they have no reading for it.  Not so if an operator is       *)
(* misplaced or a unary one follows a binary one: then the parser may      *)
(* accept what is no program, read it as another one, go on for ever, or   *)
(* take operands from an empty stack.  And not so for a loop with several  *)
(* initializers or updates.                                                *)
(***************************************************************************)
ManyUpdates ==
  \E t \in program.trees : \E u \in Nodes(t) : u.node = "For" /\ Len(u.kids[3].kids) > 1

ReadAsWritten ==
  outcome # "parsing" /\ program.known /\ ~Misplaced(program.tokens) /\ ~ManyUpdates =>
    IF program.trees = {} THEN outcome = "error"
    ELSE outcome = "parsed" /\ values[1] \in program.trees

(***************************************************************************)
(* The list of created nodes that parse hands out has every node of the    *)
(* tree once and nothing else; the outermost block and the blocks made for *)
(* the head of a loop are not in it.                                       *)
(***************************************************************************)
RECURSIVE Reported(_)
Reported(t) ==
  LET unreported == IF t.node = "For" THEN {1, 3} ELSE {}
  IN  FoldLeft(LAMBDA s, k : s \o Reported(t.kids[k]) \o (IF k \in unreported THEN << >> ELSE <<t.kids[k]>>),
               << >>, [k \in DOMAIN t.kids |-> k])

CountOf(x, s) == Cardinality({k \in DOMAIN s : s[k] = x})

CreatedNodesAreTheTree ==
  outcome = "parsed" =>
    LET nodes == Reported(values[1])
    IN  \A t \in Range(created) \cup Range(nodes) : CountOf(t, created) = CountOf(t, nodes)

(***************************************************************************)
(* What is emitted for a tree reads back as that tree, every child in its  *)
(* place, and the visitor's block is the outermost one again.  Everything  *)
(* is emitted but programs with lists of expressions, declarations without *)
(* a value, and functions with secret parameters or results.               *)
(***************************************************************************)
Supported(t) == \A u \in Nodes(t) : Refusal(u) = "none"

Emitted ==
  /\ status = "done"
  /\ Len(blocks) = 1 /\ Len(blocks[1]) = 1
  /\ ReadBack(blocks[1][1]) = Untyped(values[1])

EmitsTheTree ==
  status \notin {"waiting", "visiting"} =>
    IF Supported(values[1]) THEN Emitted ELSE status \in {"error", "runaway"}

HasPostfix == \E i \in DOMAIN program.tokens : program.tokens[i] \in PostfixOps

HasList(t) == \E u \in Nodes(t) : u.node = "ExpressionList"

(***************************************************************************)
(* Tokenizing ends, and so does parsing, with a tree or an error, and then *)
(* emission, done or with an error.  There are three exceptions.  A        *)
(* postfix operator that is applied is never consumed, and parsing goes on *)
(* for ever (Parser.cpp:314).  Where an operator is misplaced, the parser  *)
(* may take operands from an empty stack (Parser.cpp:294).  And the        *)
(* visitor calls itself for ever on a list of expressions                  *)
(* (AbcAstToMlirVisitor.cpp:80).                                           *)
(***************************************************************************)
ParsingEnded ==
  CASE outcome = "parsing"   -> FALSE
    [] outcome = "runaway"   -> HasPostfix
    [] outcome = "undefined" -> Misplaced(program.tokens)
    [] OTHER                 -> TRUE

EmissionEnded == status \in {"done", "error"} \/ (status = "runaway" /\ HasList(values[1]))

Ended ==
  /\ ~Tokenizing
  /\ program.parsed => ParsingEnded
  /\ outcome = "parsed" => EmissionEnded

Terminates == <>[]Ended
=============================================================================
