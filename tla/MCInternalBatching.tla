------------------------- MODULE MCInternalBatching -------------------------
(***************************************************************************)
(* TLC's instance of the internal batching pass: two sums, differences or  *)
(* products of vectors, of their rotations, of a constant and a plaintext, *)
(* the second of which may use the first.                                  *)
(***************************************************************************)
EXTENDS InternalBatching, HIRPrograms

MCLiteral == {3}

\* 1, 2 are the vectors; 3 .. 5 and 6 .. 8 are rotated; 9, 10 are scalar.
Rotated ==
  <<Arg("batched"), Arg("batched")>>
    \o [m \in 1 .. 3 |-> RotateOp(1, m)] \o [m \in 1 .. 3 |-> RotateOp(2, m)]
    \o <<ConstantOp("batched", 3), Arg("plain")>>

Lists == {<<1, 3, 4, 5>>, <<5, 3, 1, 4>>, <<4, 1, 9, 5, 3>>, <<1, 3, 4>>, <<3, 4>>,
          <<1, 3, 1, 4, 5>>, <<1, 2, 3, 6, 4, 7, 5, 8>>, <<10, 3, 5, 4, 1, 2>>,
          <<6, 2, 7, 8, 3>>}

MCPrograms ==
  { Program(Rotated \o
      <<Compute(f, "batched", a), Compute(g, "batched", b), ExtractOp(12, s), Return(13)>>) :
      f \in Arithmetic, g \in Arithmetic, a \in Lists,
      b \in {<<11, 2>>, <<11, 2, 6, 7, 8>>, <<11, 1, 4>>}, s \in {0, 1, 3} }

\* The arithmetic that TLC uses has the laws that the proof assumes, here for
\* some values and up to three operands.
ASSUME ResiduesAddUp == SumsAddUp({0, 1, 2, Modulus - 1}, 3)
=============================================================================
