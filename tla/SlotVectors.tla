---------------------------- MODULE SlotVectors ----------------------------
(***************************************************************************)
(* The values HECO's FHE dialect computes with (include/heco/IR/FHE/FHE.td *)
(* and IR/FHE/FHEDialect.cpp).  A batched secret of N slots is a function  *)
(* on 0 .. N-1.  A scalar secret or a plaintext is denoted by the vector   *)
(* that holds it in every slot: arithmetic on scalars is then arithmetic   *)
(* on vectors, as it is in the SIMD program the compiler emits.            *)
(*                                                                         *)
(* Abstraction: all vectors of a program have the same number N of slots,  *)
(* the number of slots of the ciphertext that holds them.                  *)
(***************************************************************************)
EXTENDS Integers, Sequences

CONSTANTS
  N,            \* number of slots of a ciphertext
  Apply(_, _)   \* Apply(kind, xs): what the operation does to the scalars xs

ASSUME NAssumption == N \in Nat \ {0}

Slots == 0 .. N - 1

IsVector(v) == v = [s \in Slots |-> v[s]]

IsUniform(v) == \A s, t \in Slots : v[s] = v[t]

Uniform(x) == [s \in Slots |-> x]

\* An index names a slot modulo N: slots are cyclic.
Read(v, i) == v[i % N]

\* fhe.extract
Extract(v, i) == Uniform(Read(v, i))

\* fhe.insert: x is a scalar, that is a uniform vector
Insert(x, v, i) == [s \in Slots |-> IF s = i % N THEN x[s] ELSE v[s]]

\* fhe.rotate: rotating by k moves what is in slot i to slot i + k
Rotate(v, k) == [s \in Slots |-> v[(s - k) % N]]

\* fhe.combine(v[listed], w): the listed slots of v, all others of w
Combine(v, listed, w) == [s \in Slots |-> IF s \in listed THEN v[s] ELSE w[s]]

\* fhe.add, fhe.sub and fhe.multiply act slot by slot
Lift(kind, vs) == [s \in Slots |-> Apply(kind, [j \in DOMAIN vs |-> vs[j][s]])]
=============================================================================
