----------------------------- MODULE HIRPrograms -----------------------------
(***************************************************************************)
(* Building the programs that TLC runs the passes on.  A program is given  *)
(* as the list of its operations, operands by their place in the list, and *)
(* its denotation is computed for one input in which all slots of all      *)
(* arguments differ.                                                       *)
(*                                                                         *)
(* There are two interpretations of the arithmetic.  In the first it is    *)
(* left uninterpreted: a scalar is the term that was computed, so two      *)
(* computations have the same value only when they do the same operations  *)
(* on the same slots in the same order.  In the second scalars are numbers *)
(* modulo a plaintext modulus, for passes that use the laws of arithmetic. *)
(***************************************************************************)
EXTENDS HIRSemantics

CONSTANT Input(_, _)   \* Input(m, s): slot s of the argument at place m

TermApply(kind, xs) == <<kind, xs>>
TermInput(m, s) == <<"input", <<m, s>>>>

ModularApply(modulus, kind, xs) ==
  CASE kind = "add"      -> FoldLeft(LAMBDA a, b : (a + b) % modulus, 0, xs)
    [] kind = "multiply" -> FoldLeft(LAMBDA a, b : (a * b) % modulus, 1, xs)
    [] kind = "sub"      -> FoldLeft(LAMBDA a, b : (a - b) % modulus, Head(xs), Tail(xs))

Modulus == 97
ModApply(kind, xs) == ModularApply(Modulus, kind, xs)
ModInput(m, s) == (2 + 19 * m + 7 * s * s) % Modulus

ArgValue(o, m) ==
  IF o.type = "batched" THEN [s \in Slots |-> Input(m, s)] ELSE Uniform(Input(m, 0))

At(m) == <<m, 0>>

ListedOps(list) ==
  [x \in {At(m) : m \in DOMAIN list} |->
    [list[x[1]] EXCEPT !.args = [k \in DOMAIN @ |-> At(@[k])]]]

Program(list) ==
  LET body   == ListedOps(list)
      inputs == [x \in DOMAIN body |-> ArgValue(body[x], x[1])]
  IN  [ops |-> body,
       sem |-> Denotation([m \in DOMAIN list |-> At(m)], body, inputs)]

Arg(type) == MakeOp("arg", type, << >>)
Return(m) == MakeOp("return", "none", <<m>>)
Relinearize(type, m) == MakeOp("relinearize", type, <<m>>)
Insertion(x, v, i) == MakeIndexed("insert", "batched", <<x, v>>, i)
Compute(kind, type, args) == MakeOp(kind, type, args)
=============================================================================
