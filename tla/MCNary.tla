------------------------------- MODULE MCNary -------------------------------
(***************************************************************************)
(* TLC's instance of the nary pass: three secrets, a plaintext, arithmetic *)
(* on the plaintext, and three operations on secrets of any kinds, each of *)
(* which may use the ones before it, also twice.                           *)
(***************************************************************************)
EXTENDS Nary, HIRPrograms

MCLiteral == {0}

Of(kind, args) == Compute(kind, "secret", args)

PlainOf(kind, args) == Compute(kind, "plain", args)

Plain == <<Arg("secret"), Arg("secret"), Arg("secret"), Arg("plain")>>

Programs(first, second, third) ==
  { Program(Plain \o
      <<PlainOf(f, <<4, 4>>), Of(g[1], a), Of(g[2], b), Of(g[3], d), Return(8)>>) :
      f \in {"addi", "subi", "muli"}, g \in [1 .. 3 -> Arithmetic],
      a \in first, b \in second, d \in third }

MCPrograms ==
  Programs({<<1, 2>>, <<5, 1>>}, {<<6, 3>>, <<3, 6>>, <<6, 6>>, <<1, 6, 2>>},
           {<<6, 7>>, <<7, 2>>, <<7, 7>>, <<2, 7, 6>>})
    \cup Programs({<<5, 1, 5>>}, {<<6, 3>>}, {<<7, 2>>})

\* The arithmetic that TLC uses has the law that the proof assumes, here for
\* some values and up to three operands.
ASSUME ResiduesMayInline == MayInline({0, 1, 2, Modulus - 1}, 3)
=============================================================================
