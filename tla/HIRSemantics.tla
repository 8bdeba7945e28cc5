---------------------------- MODULE HIRSemantics ----------------------------
(***************************************************************************)
(* Computing what a body of the HIR does, for the passes that TLC checks   *)
(* by running the program they leave behind.                               *)
(***************************************************************************)
EXTENDS HIR, SequencesExt

\* The positions of a body in the order of the block.
InBlockOrder(ops) ==
  LET last  == Max({x[1] : x \in DOMAIN ops})
      width == 1 + Max({x[2] : x \in DOMAIN ops})
  IN  SelectSeq([m \in 1 .. (last + 1) * width |-> <<(m - 1) \div width, (m - 1) % width>>],
                LAMBDA x : x \in DOMAIN ops)

\* The values of the operations, one after the other, given the arguments'.
Denotation(order, ops, inputs) ==
  FoldLeft(LAMBDA sem, x :
             sem @@ (x :> IF ops[x].kind = "arg" THEN inputs[x] ELSE Eval(ops[x], sem)),
           << >>, order)
=============================================================================
