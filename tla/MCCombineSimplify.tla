------------------------- MODULE MCCombineSimplify -------------------------
(***************************************************************************)
(* TLC's instance of the combine-simplify pass: four combines over two     *)
(* vectors of three slots.  Each takes any slot of either vector and all   *)
(* others from an argument or an earlier combine; the last or the third is *)
(* returned, and the third may have a second user.                         *)
(***************************************************************************)
EXTENDS CombineSimplify, HIRPrograms

MCLiteral == {"c"}

Take(v, s, w) == CombineOp(v, <<s>>, w)

SlotChoices == {1, 2} \X Slots

\* 1 and 2 are the vectors, 3 .. 6 the combines.
MCPrograms ==
  { Program(<<Arg("batched"), Arg("batched"),
              Take(a[1], a[2], 2), Take(b[1], b[2], 3), Take(d[1], d[2], w), Take(1, s, 5),
              ExtractOp(4, 0), Return(r)>>) :
      a \in SlotChoices, b \in SlotChoices, d \in SlotChoices, s \in Slots, w \in {3, 4}, r \in {5, 6} }
=============================================================================
