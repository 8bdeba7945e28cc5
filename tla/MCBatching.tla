----------------------------- MODULE MCBatching -----------------------------
(***************************************************************************)
(* TLC's instance of the batching pass: two scalar operations on slots of  *)
(* one or two vectors, a constant, a plaintext and a result of             *)
(* relinearize, which the pass cannot batch; the results are inserted into *)
(* a vector, returned, or both.                                            *)
(***************************************************************************)
EXTENDS Batching, HIRPrograms

MCLiteral == {<<"c", << >>>>}
c == CHOOSE x \in MCLiteral : TRUE

\* Places 1 .. 6 of every program.
Inputs(i1, i2) ==
  << Arg("batched"), ExtractOp(1, i1), ExtractOp(1, i2),
     ConstantOp("secret", c), Arg("plain"), Relinearize("secret", 2) >>

FirstArgs == {<<2>>, <<2, 3>>, <<3, 2>>, <<4, 4>>, <<4, 5>>, <<2, 2>>, <<4, 2, 3>>,
              <<5, 3>>, <<6, 2>>, <<2, 6>>}

SecondArgs == {<<7, 2>>, <<3, 7>>, <<7, 7>>, <<7, 4>>}

\* 7 and 8 are the operations to batch; 8 may go into a vector, so may 7.
MCPrograms ==
  UNION
  { { Program(Inputs(i1, i2) \o <<Compute("sub", "secret", a1), Compute("multiply", "secret", a2)>> \o rest) :
        rest \in {<<Return(8)>>,
                  <<Insertion(8, 1, k), Return(9)>>,
                  <<Insertion(7, 1, k), Insertion(8, 9, i2), Return(10)>>,
                  <<Insertion(7, 1, k), Insertion(7, 9, i1), Return(8)>>} } :
    i1 \in {0, 2}, i2 \in {1, 2}, k \in {0, 1}, a1 \in FirstArgs, a2 \in SecondArgs }
=============================================================================
