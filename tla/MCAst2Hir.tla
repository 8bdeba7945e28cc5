----------------------------- MODULE MCAst2Hir -----------------------------
(***************************************************************************)
(* TLC's instance of the lowering: functions of a vector x and scalars a   *)
(* and c, c being 0 or 1, that declare a variable s, execute two           *)
(* statements and return s or an element of x.  Among the statements are   *)
(* loops, loops in loops, and ifs around and inside of loops; some more    *)
(* functions hold what the lowering refuses.                               *)
(***************************************************************************)
EXTENDS Ast2Hir

Modulus == 97
ModArith(op, a, b) ==
  CASE op = "+" -> (a + b) % Modulus
    [] op = "-" -> (a - b) % Modulus
    [] op = "*" -> (a * b) % Modulus
    [] op = "%" -> a % b

S == Variable("s")
I == Variable("i")
Element(i) == IndexAccess(Variable("x"), i)

\* s = s * 3 + x[1], t = s + a, s = t, x[1] = s - a
Accumulate(e) == Assignment("s", Binary("+", Binary("*", S, Literal(3)), e))
Local == Declaration("t", Binary("+", S, Variable("a")))
Copy == Assignment("s", Variable("t"))
Store(i) == ElementAssignment("x", i, Binary("-", S, Variable("a")))

Loop(iv, start, end, body) == SimpleFor(iv, start, end, body)

\* s = 2 i if c, else 0
Choose(t) == If(Variable("c"), <<Assignment("s", t)>>, <<Assignment("s", Literal(0))>>)
\* Branches that change nothing outside of them.
Idle(body) == If(Variable("c"), body, << >>)

InLoop ==
  { <<Accumulate(Element(I))>>, <<Store(I)>>, <<Store(I), Accumulate(Element(I))>>,
    <<Local, Copy>>, <<Local, Store(I), Copy>>, <<Choose(I), Store(I)>>,
    <<Choose(Element(I)), Local, Accumulate(Variable("t"))>>,
    <<Accumulate(I), Idle(<<Local>>)>>,
    <<Loop("j", 0, 2, <<Accumulate(Element(Variable("j"))), Store(I)>>), Accumulate(I)>>,
    <<Local, Loop("j", 1, 3, <<Accumulate(Variable("t")), Declaration("u", S)>>), Copy>>,
    <<Loop("i", 0, 1, <<Accumulate(I)>>)>> }

Statements ==
  {Loop("i", bounds[1], bounds[2], body) : bounds \in {<<0, 2>>, <<1, 2>>, <<1, 1>>}, body \in InLoop}
    \cup {Accumulate(Element(Literal(1))), Store(Literal(0)), Local, Copy, Choose(Variable("a")),
          Choose(Element(Literal(0))),
          Idle(<<Local, Copy>>), Idle(<<Loop("i", 0, 2, <<Declaration("t", I)>>)>>),
          If(Variable("c"), <<Local>>, <<Local, Declaration("u", Literal(2))>>)}

Arguments(c) == "x" :> [k \in 0 .. 2 |-> 5 + 7 * k] @@ "a" :> 11 @@ "c" :> c

F(c, body, result) ==
  Function(<<"x", "a", "c">>, Arguments(c), <<Declaration("s", Literal(2))>> \o body \o <<Return(result)>>)

\* What translateExpression and translateStatement know only in part, or not
\* at all: two and three indices, an element of a sum, another operator,
\* undeclared names.
Twice == IndexAccess(Element(I), Literal(1))
Thrice == IndexAccess(IndexAccess(Element(Literal(0)), Literal(1)), Binary("+", S, Other))
OddValues ==
  {IndexAccess(Element(Literal(0)), Literal(1)), Thrice, IndexAccess(Element(Thrice), S),
   IndexAccess(Element(S), Thrice), IndexAccess(Binary("+", S, S), S), Binary("/", S, Thrice),
   Binary("%", S, Literal(3)), Binary("+", S, Other), Other, Variable("y"), Element(Variable("y"))}

Odd ==
  {Assignment("s", e) : e \in OddValues} \cup {Declaration("t", e) : e \in OddValues}
    \cup {If(e, <<Local>>, << >>) : e \in OddValues} \cup {Store(e) : e \in OddValues}
    \cup {Loop("i", 0, 2, <<Assignment("s", Twice)>>), Loop("s", 0, 2, <<Accumulate(S)>>),
          Loop("i", 0, 1, <<Assignment("s", Other)>>),
          If(Variable("c"), <<Assignment("s", Other), Other>>, <<Assignment("y", S)>>),
          If(Variable("c"), <<Assignment("y", S)>>, << >>),
          If(Variable("c"), <<Assignment("y", S)>>, <<Loop("i", 0, 1, <<Accumulate(I)>>)>>),
          If(Variable("c"), <<Local>>, <<Assignment("s", Thrice), InvalidAssignment(S)>>),
          InvalidAssignment(Other), InvalidAssignment(S), Other, ElementAssignment("y", Literal(0), S)}

AfterOdd == {Loop("i", 0, 2, <<Accumulate(I)>>), Local, Choose(S), Store(Literal(0))}

Repeated(f) == [f EXCEPT !.parameters = Append(@, "a")]

OddFunctions ==
  UNION {{F(0, <<o, q>>, S), F(1, <<q, o>>, S), F(0, <<q>>, Binary("-", o.value, S)), F(0, <<q>>, o.value),
          Repeated(F(0, <<q>>, S))} : o \in {p \in Odd : p.kind = "declare"}, q \in AfterOdd}
    \cup UNION {{F(0, <<o, q>>, S), F(1, <<q, o>>, S)} : o \in Odd, q \in AfterOdd}

MCFunctions ==
  {F(c, <<p, q>>, e) : c \in {0, 1}, p \in Statements, q \in Statements,
                       e \in {S, Element(Literal(1))}} \cup OddFunctions

\* The functions of the disagreement between code and comment.
MuxFunctions ==
  {F(c, <<If(Variable("c"), <<Assignment("s", Variable("a"))>>, else)>>, S) :
     c \in {0, 1}, else \in {<< >>, <<Assignment("s", Literal(7))>>}}
    \cup {F(c, <<p>>, S) : c \in {0, 1}, p \in Statements}
=============================================================================
