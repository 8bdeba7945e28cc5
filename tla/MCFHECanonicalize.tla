------------------------- MODULE MCFHECanonicalize -------------------------
(***************************************************************************)
(* TLC's instance of the canonicalizer: vectors of two slots, a rotation,  *)
(* arithmetic on it with neutral and other constants, a copy of one slot   *)
(* through extract and insert, and a combine.  Scalars are numbers modulo  *)
(* 11, few enough to evaluate the laws of arithmetic on all of them.       *)
(***************************************************************************)
EXTENDS FHECanonicalize, HIRPrograms

MCLiteral == {0, 1, 5}

MCApply(kind, xs) == ModularApply(11, kind, xs)
MCInput(m, s) == (2 + 8 * m + 7 * s) % 11

Batched(c) == ConstantOp("batched", c)

Inputs(k) ==
  <<Arg("batched"), Arg("batched"), Batched(0), Batched(1), Batched(5),
    RotateOp(1, k)>>

Operands == {<<6>>, <<6, 3>>, <<3, 6>>, <<4, 6>>, <<6, 2, 4>>, <<6, 3, 2>>, <<5, 6>>,
             <<2, 6, 5>>, <<4, 1, 3, 6>>}

\* Any arithmetic operation on vectors, twice, and what becomes of it.
Rest(i, j) ==
  { <<ExtractOp(8, i), Insertion(9, 2, j), CombineOp(7, <<0>>, 10), Return(11)>>,
    <<ExtractOp(8, i), Insertion(9, 7, j), CombineOp(10, <<0, 1>>, 2), Return(11)>>,
    <<Return(8)>> }

SecretPrograms ==
  UNION { { Program(Inputs(k) \o <<Compute(f, "batched", a), Compute(g, "batched", b)>> \o rest) :
              rest \in Rest(i, j) } :
          k \in {-1, 0, 1}, f \in Arithmetic, g \in Arithmetic, a \in Operands,
          b \in {<<7, 4>>, <<3, 7, 6>>}, i \in Slots, j \in {1} }

\* A scalar sum with a plaintext, and sums of constants only.
Scalar(args) ==
  Program(<<Arg("plain"), ConstantOp("secret", 0), ConstantOp("secret", 0),
            Arg("secret"), Compute("add", "secret", args), Return(5)>>)

MCPrograms == SecretPrograms \cup {Scalar(<<1, 2>>), Scalar(<<2, 4>>), Scalar(<<2, 3>>)}

\* The program of the disagreement between code and comment: 0 - x.
ZeroPrograms ==
  {Program(<<Batched(0), Arg("batched"), Compute("sub", "batched", <<1, 2>>), Return(3)>>)}
=============================================================================
