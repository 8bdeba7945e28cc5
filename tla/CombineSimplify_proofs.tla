----------------------- MODULE CombineSimplify_proofs -----------------------
(***************************************************************************)
(* Proofs about the combine-simplify pass, for every number of slots and   *)
(* every set of source programs.                                           *)
(***************************************************************************)
EXTENDS CombineSimplify, HIRLemmas

\* The inductive invariant: besides what the properties say, operands come
\* before their users, so that a combine is never its own predecessor.
Dominance == DefinedBeforeUse(ops)

IInv == /\ TypeOK /\ Dominance /\ MeaningPreserved
        /\ DOMAIN ops \subseteq Position

-----------------------------------------------------------------------------
(* Taking first some slots and then some more of a vector is taking all of *)
(* them at once.                                                           *)
LEMMA CombineTwice ==
  ASSUME NEW v, NEW w, NEW S, NEW T
  PROVE  Combine(v, T, Combine(v, S, w)) = Combine(v, S \cup T, w)
BY DEF Combine

(* The slots of two lists in a row.                                        *)
LEMMA ListedConcatenation ==
  ASSUME NEW a \in Seq(Int), NEW b \in Seq(Int)
  PROVE  {(a \o b)[k] : k \in DOMAIN (a \o b)}
           = {a[k] : k \in DOMAIN a} \cup {b[k] : k \in DOMAIN b}
<1> DEFINE la == Len(a)
           lb == Len(b)
           f == a \o b
<1>1. /\ la \in Nat /\ lb \in Nat /\ DOMAIN a = 1 .. la /\ DOMAIN b = 1 .. lb
      /\ DOMAIN f = 1 .. la + lb
      /\ \A k \in 1 .. la + lb : f[k] = IF k <= la THEN a[k] ELSE b[k - la]
  <2>1. f \in Seq(Int) /\ Len(f) = la + lb
    BY ConcatProperties
  <2>2. \A k \in 1 .. la + lb : f[k] = IF k <= la THEN a[k] ELSE b[k - la]
    BY ConcatProperties
  <2>3. QED BY <2>1, <2>2
<1> HIDE DEF la, lb, f
<1>2. ASSUME NEW k \in 1 .. la PROVE k \in 1 .. la + lb /\ f[k] = a[k]
  BY <1>1
<1>3. ASSUME NEW k \in 1 .. lb PROVE la + k \in 1 .. la + lb /\ f[la + k] = b[k]
  <2>1. la + k \in 1 .. la + lb /\ ~(la + k <= la) /\ (la + k) - la = k
    BY <1>1
  <2>2. QED BY <1>1, <2>1
<1>4. ASSUME NEW k \in 1 .. la + lb
      PROVE  (\E m \in 1 .. la : f[k] = a[m]) \/ (\E m \in 1 .. lb : f[k] = b[m])
  <2>1. CASE k <= la
    BY <1>1, <2>1
  <2>2. CASE ~(k <= la)
    <3>1. k - la \in 1 .. lb
      BY <1>1, <2>2
    <3>2. f[k] = b[k - la]
      BY <1>1, <2>2
    <3>3. QED BY <3>1, <3>2
  <2>3. QED BY <2>1, <2>2
<1>5. {f[k] : k \in 1 .. la + lb} = {a[k] : k \in 1 .. la} \cup {b[k] : k \in 1 .. lb}
  <2>1. ASSUME NEW x \in {f[k] : k \in 1 .. la + lb}
        PROVE  x \in {a[k] : k \in 1 .. la} \cup {b[k] : k \in 1 .. lb}
    BY <1>4
  <2>2. ASSUME NEW x \in {a[k] : k \in 1 .. la} PROVE x \in {f[k] : k \in 1 .. la + lb}
    BY <1>2
  <2>3. ASSUME NEW x \in {b[k] : k \in 1 .. lb} PROVE x \in {f[k] : k \in 1 .. la + lb}
    BY <1>3
  <2>4. QED BY <2>1, <2>2, <2>3
<1>6. QED BY <1>1, <1>5 DEF f

(* The widened combine: an operation like the one it replaces.             *)
LEMMA WidenedFacts ==
  ASSUME NEW o \in Op, NEW c \in Op, NEW v \in Position, NEW w \in Position,
         o.slots \in Seq(Slots) \ {<< >>}, c.slots \in Seq(Slots) \ {<< >>},
         1 \in DOMAIN c.args, 2 \in DOMAIN c.args
  PROVE  LET p == Widened(o, c) IN
         /\ p \in Op
         /\ p.kind = "combine" /\ p.type = "batched"
         /\ p.args = <<c.args[1], c.args[2]>>
         /\ p.slots \in Seq(Slots) \ {<< >>}
         /\ Listed(p) = Listed(c) \cup Listed(o)
<1> DEFINE l == c.slots \o o.slots
           a == <<c.args[1], c.args[2]>>
<1>1. /\ o.slots \in Seq(Int) /\ c.slots \in Seq(Int) /\ c.args \in Seq(Position)
  BY DEF Op
<1>2. l \in Seq(Slots) /\ l # << >> /\ l \in Seq(Int)
  BY <1>1
<1>3. a \in Seq(Position)
  BY <1>1
<1>4. Widened(o, c) = [kind |-> "combine", type |-> "batched", args |-> a,
                       i |-> 0, slots |-> l, val |-> NoLiteral]
  <2>1. Widened(o, c) = [MakeOp("combine", "batched", a) EXCEPT !.slots = l]
    BY DEF Widened, CombineOp
  <2> HIDE DEF l, a
  <2>2. QED BY <2>1 DEF MakeOp
<1>5. {l[k] : k \in DOMAIN l} = Listed(c) \cup Listed(o)
  BY <1>1, ListedConcatenation DEF Listed
<1> DEFINE p == Widened(o, c)
<1>6. p.args = a /\ p.slots = l /\ p.kind = "combine" /\ p.type = "batched" /\ p \in Op
  <2> HIDE DEF l, a
  <2>1. QED BY <1>2, <1>3, <1>4 DEF Op, Kinds, Types
<1>7. Listed(p) = Listed(c) \cup Listed(o)
  <2>1. Listed(p) = {l[k] : k \in DOMAIN l}
    <3> HIDE DEF p, l
    <3>1. QED BY <1>6 DEF Listed
  <2>2. QED BY <1>5, <2>1
<1>8. QED BY <1>2, <1>6, <1>7

-----------------------------------------------------------------------------
LEMMA InitIInv == Init => IInv
<1> SUFFICES ASSUME Init PROVE IInv
  OBVIOUS
<1>1. IsProgram(src)
  BY SourceAssumption DEF Init
<1>2. OperandsDefined(ops) /\ Dominance /\ MeaningPreserved
  BY <1>1 DEF IsProgram, OperandsDefined, Dominance, DefinedBeforeUse, MeaningPreserved, Init
<1>3. TypeOK
  BY <1>1, <1>2 DEF IsProgram, TypeOK, Init
<1>4. DOMAIN ops \subseteq Position
  BY <1>1 DEF IsProgram, Init, Position
<1>5. QED BY <1>2, <1>3, <1>4 DEF IInv

(* One call of simplify that matches.                                      *)
LEMMA SimplifyIInv == IInv /\ Simplify => IInv'
<1> SUFFICES ASSUME IInv, Simplify PROVE IInv'
  OBVIOUS
<1> DEFINE o == ops[Cur]
           q == o.args[2]
           c == ops[q]
           p == Widened(o, c)
<1>1. /\ pc = "walk" /\ pc' = pc /\ n' = n + 1 /\ sem' = sem /\ src' = src
      /\ Cur \in DOMAIN ops
      /\ o.kind = "combine" /\ c.kind = "combine" /\ Extends(o, c)
      /\ ops' = [ops EXCEPT ![Cur] = p]
  BY DEF Simplify, Simplifiable
<1>2. /\ o \in Op /\ WellTyped(ops, o) /\ o.slots \in Seq(Slots) \ {<< >>}
      /\ DOMAIN o.args = {1, 2}
  <2>1. o \in Op /\ WellTyped(ops, o) /\ o.slots \in Seq(Slots) \ {<< >>}
    BY <1>1 DEF IInv, TypeOK
  <2>2. QED BY <1>1, <2>1, Arity
<1>3. q \in DOMAIN ops /\ Before(q, Cur)
  BY <1>1, <1>2 DEF IInv, Dominance, DefinedBeforeUse
<1>4. /\ c \in Op /\ WellTyped(ops, c) /\ c.slots \in Seq(Slots) \ {<< >>}
      /\ DOMAIN c.args = {1, 2}
  <2>1. c \in Op /\ WellTyped(ops, c) /\ c.slots \in Seq(Slots) \ {<< >>}
    BY <1>1, <1>3 DEF IInv, TypeOK
  <2>2. QED BY <1>1, <2>1, Arity
<1>5. \A k \in {1, 2} : /\ c.args[k] \in DOMAIN ops /\ c.args[k] \in Position
                        /\ Before(c.args[k], q)
  BY <1>3, <1>4 DEF IInv, Dominance, DefinedBeforeUse, Op
<1>6. /\ p \in Op /\ p.kind = "combine" /\ p.type = "batched"
      /\ p.args = <<c.args[1], c.args[2]>>
      /\ p.slots \in Seq(Slots) \ {<< >>}
      /\ Listed(p) = Listed(c) \cup Listed(o)
  <2>1. /\ c.args[1] \in Position /\ c.args[2] \in Position
        /\ 1 \in DOMAIN c.args /\ 2 \in DOMAIN c.args
    BY <1>4, <1>5
  <2> HIDE DEF o, c
  <2>2. QED BY <1>2, <1>4, <2>1, WidenedFacts
<1> HIDE DEF p
<1>7. Eval(p, sem) = Eval(o, sem)
  <2>1. Eval(o, sem) = Combine(sem[o.args[1]], Listed(o), sem[q])
    BY <1>1, EvalCombine
  <2>2. sem[q] = Combine(sem[c.args[1]], Listed(c), sem[c.args[2]])
    BY <1>1, <1>3, EvalCombine DEF IInv, MeaningPreserved, Consistent
  <2>3. Eval(p, sem) = Combine(sem[c.args[1]], Listed(c) \cup Listed(o), sem[c.args[2]])
    <3>1. Eval(p, sem) = Combine(sem[p.args[1]], Listed(p), sem[p.args[2]])
      BY <1>6, EvalCombine
    <3>2. p.args[1] = c.args[1] /\ p.args[2] = c.args[2] /\ Listed(p) = Listed(c) \cup Listed(o)
      BY <1>6
    <3>3. QED BY <3>1, <3>2
  <2>4. o.args[1] = c.args[1]
    BY <1>1 DEF Extends
  <2>5. Eval(o, sem) = Combine(sem[c.args[1]], Listed(o),
                          Combine(sem[c.args[1]], Listed(c), sem[c.args[2]]))
    BY <2>1, <2>2, <2>4
  <2>6. \A v, w, S, T : Combine(v, T, Combine(v, S, w)) = Combine(v, S \cup T, w)
    BY CombineTwice
  <2> DEFINE v == sem[c.args[1]]
             w == sem[c.args[2]]
  <2>7. Combine(v, Listed(o), Combine(v, Listed(c), w)) = Combine(v, Listed(c) \cup Listed(o), w)
    <3> HIDE DEF o, c, v, w
    <3>1. QED BY <2>6
  <2>8. QED BY Zenon, <2>3, <2>5, <2>7
<1>8. MeaningPreserved'
  BY <1>1, <1>6, <1>7 DEF IInv, MeaningPreserved, Consistent
<1>9. Dominance'
  <2>1. Before(c.args[1], Cur) /\ Before(c.args[2], Cur)
    <3>1. ASSUME NEW k \in {1, 2} PROVE Before(c.args[k], Cur)
      <4>1. c.args[k] \in Position /\ q \in Position /\ Cur \in Position
        BY <1>1, <1>3, <1>5 DEF IInv
      <4>2. Before(c.args[k], q) /\ Before(q, Cur)
        BY <1>3, <1>5
      <4>3. QED BY <4>1, <4>2, BeforeTransitive
    <3>2. QED BY <3>1
  <2>2. DOMAIN p.args = {1, 2} /\ p.args[1] = c.args[1] /\ p.args[2] = c.args[2]
    BY <1>6
  <2>3. QED BY <1>1, <1>5, <2>1, <2>2 DEF IInv, Dominance, DefinedBeforeUse
<1>10. TypeOK'
  <2>1. OperandsDefined(ops)'
    BY <1>9 DEF Dominance, DefinedBeforeUse, OperandsDefined
  <2>2. \A x \in DOMAIN ops : ops'[x].type = ops[x].type
    BY <1>1, <1>2, <1>6 DEF WellTyped
  <2>3. WellTyped(ops', p)
    <3>1. WellTyped(ops, p)
      <4>1. ArgTypes(ops, p) = ArgTypes(ops, c)
        <5>1. DOMAIN p.args = {1, 2} /\ p.args[1] = c.args[1] /\ p.args[2] = c.args[2]
          BY <1>6
        <5>2. QED BY <1>4, <5>1 DEF ArgTypes
      <4>2. QED BY <1>1, <1>4, <1>6, <4>1 DEF WellTyped, Arithmetic, PlainArithmetic
    <3>2. \A k \in DOMAIN p.args : ops[p.args[k]].type = ops'[p.args[k]].type
      <4>1. DOMAIN p.args = {1, 2} /\ p.args[1] = c.args[1] /\ p.args[2] = c.args[2]
        BY <1>6
      <4>2. QED BY <1>5, <2>2, <4>1
    <3>3. QED BY <3>1, <3>2, SameTypesSuffice
  <2>4. \A x \in DOMAIN ops : WellTyped(ops', ops[x])
    BY <2>2, SameTypesSuffice DEF IInv, TypeOK, OperandsDefined
  <2>5. n' \in Nat \ {0} /\ DOMAIN ops' = DOMAIN sem'
    BY <1>1 DEF IInv, TypeOK
  <2>6. QED BY <1>1, <1>6, <2>1, <2>3, <2>4, <2>5 DEF IInv, TypeOK
<1>11. QED BY <1>1, <1>8, <1>9, <1>10 DEF IInv

LEMMA NextIInv == IInv /\ [Next]_vars => IInv'
<1> SUFFICES ASSUME IInv, [Next]_vars PROVE IInv'
  OBVIOUS
<1>1. CASE Simplify
  BY <1>1, SimplifyIInv
<1>2. CASE WalkPast
  <2>1. ops' = ops /\ sem' = sem /\ pc' = pc /\ n' = n + 1
    BY <1>2 DEF WalkPast
  <2>2. QED BY <2>1 DEF IInv, TypeOK, Dominance, MeaningPreserved
<1>3. CASE WalkEnds
  <2>1. ops' = ops /\ sem' = sem /\ pc' = "done" /\ n' = n
    BY <1>3 DEF WalkEnds
  <2>2. QED BY <2>1 DEF IInv, TypeOK, Dominance, MeaningPreserved
<1>4. CASE UNCHANGED vars
  BY <1>4 DEF vars, IInv, TypeOK, Dominance, MeaningPreserved
<1>5. QED BY <1>1, <1>2, <1>3, <1>4 DEF Next

THEOREM InvariantHolds == Spec => []IInv
<1>1. QED BY InitIInv, NextIInv, PTL DEF Spec

(* Widening combines never changes what a program computes, whatever the   *)
(* number of slots, the vectors and the order in which slots are filled    *)
(* (simplify in CombineSimplify.cpp).                                      *)
THEOREM CombineSimplifyPreservesMeaning == Spec => []MeaningPreserved
<1>1. IInv => MeaningPreserved
  BY DEF IInv
<1>2. QED BY <1>1, InvariantHolds, PTL

(* The body always stays one that the verifier accepts.                    *)
THEOREM TypeCorrect == Spec => []TypeOK
<1>1. IInv => TypeOK
  BY DEF IInv
<1>2. QED BY <1>1, InvariantHolds, PTL

-----------------------------------------------------------------------------
(* What lists look like.  Where the walk has been, chains have become one  *)
(* operation; where it has not, everything is as it was.                   *)
WalkedChains ==
  \A f \in [Slots -> Combines] : IsChain(f) =>
    \A s \in Slots : f[s][1] < n => ops[f[s]].slots = [k \in 1 .. s + 1 |-> k - 1]

ListInv ==
  /\ src \in Source
  /\ sem = src.sem
  /\ DOMAIN ops = DOMAIN src.ops
  /\ \A x \in DOMAIN ops :
       /\ ops[x].kind = src.ops[x].kind
       /\ x[1] >= n => ops[x] = src.ops[x]
       /\ ops[x].kind = "combine" => /\ Ascending(ops[x].slots)
                                     /\ ops[x].args[1] = src.ops[x].args[1]
       /\ pc = "done" => x[1] < n
  /\ WalkedChains

(* Operations are where the walk comes past.                               *)
LEMMA Places ==
  ASSUME NEW p \in Source, NEW x \in DOMAIN p.ops
  PROVE  x = <<x[1], 0>> /\ x[1] \in Nat \ {0}
<1>1. x \in (Nat \ {0}) \X {0}
  BY SourceAssumption DEF IsProgram
<1>2. QED BY <1>1

LEMMA ListIsFunction ==
  ASSUME NEW l \in Seq(Int)
  PROVE  l = [k \in DOMAIN l |-> l[k]]
OBVIOUS

LEMMA LastIsSlot ==
  ASSUME NEW l \in Seq(Slots), l # << >>
  PROVE  l[Len(l)] \in Slots
OBVIOUS

(* A list of slots, and one slot more.                                     *)
LEMMA AppendedSlot ==
  ASSUME NEW l \in Seq(Int), l # << >>, NEW t \in Int
  PROVE  /\ Len(l) \in Nat \ {0} /\ DOMAIN l = 1 .. Len(l)
         /\ l \o <<t>> \in Seq(Int) /\ Len(l \o <<t>>) = Len(l) + 1
         /\ DOMAIN (l \o <<t>>) = 1 .. Len(l) + 1
         /\ \A k \in 1 .. Len(l) : (l \o <<t>>)[k] = l[k]
         /\ (l \o <<t>>)[Len(l) + 1] = t
<1>1. <<t>> \in Seq(Int) /\ Len(<<t>>) = 1 /\ <<t>>[1] = t
  OBVIOUS
<1>2. l \o <<t>> \in Seq(Int) /\ Len(l \o <<t>>) = Len(l) + 1
  BY <1>1, ConcatProperties
<1>3. QED BY <1>1, <1>2, ConcatProperties

(* What every member of a chain is.                                        *)
LEMMA ChainMember ==
  ASSUME NEW f, IsChain(f), NEW s \in Slots
  PROVE  /\ src.ops[f[s]].slots = <<s>>
         /\ src.ops[f[s]].args[1] = src.ops[f[N - 1]].args[1]
         /\ s # 0 => src.ops[f[s]].args[2] = f[s - 1]
BY DEF IsChain

(* When the walk is at a member of a chain, it has been at the one before. *)
LEMMA ChainPredecessor ==
  ASSUME IInv, ListInv, NEW f \in [Slots -> Combines], IsChain(f),
         NEW s \in Slots, f[s] = Cur, s # 0
  PROVE  /\ s - 1 \in Slots /\ f[s - 1] \in DOMAIN ops
         /\ ops[Cur].args[2] = f[s - 1]
         /\ ops[f[s - 1]].slots = [k \in 1 .. s |-> k - 1]
<1>1. Cur \in DOMAIN ops /\ src.ops[Cur].kind = "combine"
  BY DEF Combines, ListInv
<1>2. s \in Int /\ s >= 0 /\ n \in Nat
  BY NAssumption DEF Slots, IInv, TypeOK
<1>3. ops[Cur] = src.ops[Cur]
  BY <1>1, <1>2 DEF ListInv, Cur
<1>4. s - 1 \in Slots
  BY <1>2, NAssumption DEF Slots
<1>5. ops[Cur].args[2] = f[s - 1]
  BY <1>3, ChainMember
<1>6. f[s - 1] \in DOMAIN ops
  BY <1>4 DEF Combines, ListInv
<1>7. f[s - 1][1] < n
  <2>1. Before(ops[Cur].args[2], Cur)
    <3>1. ops[Cur] \in Op /\ WellTyped(ops, ops[Cur])
      BY <1>1 DEF IInv, TypeOK
    <3>2. DOMAIN ops[Cur].args = {1, 2}
      BY <1>1, <1>3, <3>1, Arity
    <3>3. QED BY <1>1, <3>2 DEF IInv, Dominance, DefinedBeforeUse
  <2>2. f[s - 1] = <<f[s - 1][1], 0>> /\ f[s - 1][1] \in Nat
    BY <1>6, Places DEF ListInv
  <2>3. QED BY <1>2, <1>5, <2>1, <2>2 DEF Before, Cur
<1>8. ops[f[s - 1]].slots = [k \in 1 .. (s - 1) + 1 |-> k - 1]
  BY <1>4, <1>7 DEF ListInv, WalkedChains
<1>9. (s - 1) + 1 = s
  BY <1>2
<1>10. QED BY <1>4, <1>5, <1>6, <1>8, <1>9

LEMMA ListInit == Init => ListInv
<1> SUFFICES ASSUME Init PROVE ListInv
  OBVIOUS
<1>1. \A x \in DOMAIN ops : x[1] \in Nat \ {0}
  BY Places DEF Init
<1>2. WalkedChains
  <2>1. \A f \in [Slots -> Combines] : \A s \in Slots : f[s] \in DOMAIN ops
    BY DEF Combines, Init
  <2>2. \A f \in [Slots -> Combines] : \A s \in Slots : ~(f[s][1] < n)
    BY <1>1, <2>1 DEF Init
  <2>3. QED BY <2>2 DEF WalkedChains
<1>3. QED BY <1>2, ListsAssumption DEF ListInv, Init

(* What the walk simplifies stays a list without gaps, from the same       *)
(* vector; and the next member of a chain is always simplified.            *)
LEMMA SimplifyLists == IInv /\ ListInv /\ Simplify => ListInv'
<1> SUFFICES ASSUME IInv, ListInv, Simplify PROVE ListInv'
  OBVIOUS
<1> DEFINE o == ops[Cur]
           c == ops[o.args[2]]
           p == Widened(o, c)
<1>1. /\ pc = "walk" /\ pc' = pc /\ n' = n + 1 /\ sem' = sem /\ src' = src
      /\ Cur \in DOMAIN ops
      /\ o.kind = "combine" /\ c.kind = "combine" /\ Extends(o, c)
      /\ ops' = [ops EXCEPT ![Cur] = p]
  BY DEF Simplify, Simplifiable
<1>2. /\ n \in Nat
      /\ o.args[2] \in DOMAIN ops
      /\ o.slots \in Seq(Int) /\ c.slots \in Seq(Int) /\ c.slots # << >>
  <2>1. o \in Op /\ WellTyped(ops, o) /\ o.slots \in Seq(Int) /\ n \in Nat
    BY <1>1 DEF IInv, TypeOK, Op
  <2>2. DOMAIN o.args = {1, 2}
    BY <1>1, <2>1, Arity
  <2>3. o.args[2] \in DOMAIN ops
    BY <1>1, <2>2 DEF IInv, TypeOK, OperandsDefined
  <2>4. c \in Op /\ c.slots # << >>
    BY <1>1, <2>3 DEF IInv, TypeOK
  <2>5. QED BY <2>1, <2>3, <2>4 DEF Op
<1>3. p.kind = "combine" /\ p.args[1] = c.args[1] /\ p.slots = c.slots \o o.slots
  BY DEF Widened, CombineOp, MakeOp
<1> DEFINE t == o.slots[1]
<1>4. o.slots = <<t>> /\ t \in Int /\ t = c.slots[Len(c.slots)] + 1 /\ o.args[1] = c.args[1]
  <2>1. Len(o.slots) = 1 /\ t = c.slots[Len(c.slots)] + 1 /\ o.args[1] = c.args[1]
    BY <1>1 DEF Extends
  <2> DEFINE l == o.slots
  <2>2. l \in Seq(Int) /\ Len(l) = 1
    BY <1>2, <2>1
  <2> HIDE DEF l
  <2>3. l = <<l[1]>> /\ l[1] \in Int
    BY <2>2
  <2>4. QED BY <2>1, <2>3 DEF l
<1> HIDE DEF p, c, o, t
<1>5. Ascending(p.slots)
  <2>1. \A k \in 1 .. Len(c.slots) : c.slots[k] = c.slots[1] + k - 1
    <3>1. Ascending(c.slots)
      BY <1>1, <1>2 DEF ListInv, c
    <3>2. QED BY <1>2, <1>4, <3>1, AppendedSlot DEF Ascending
  <2>2. \A k \in 1 .. Len(c.slots) + 1 : p.slots[k] = p.slots[1] + k - 1
    <3> DEFINE m == Len(c.slots)
    <3>1. /\ m \in Nat \ {0} /\ \A k \in 1 .. m : p.slots[k] = c.slots[k] /\ c.slots[k] \in Int
          /\ p.slots[m + 1] = t
      BY <1>2, <1>3, <1>4, AppendedSlot
    <3>2. p.slots[1] = c.slots[1] /\ c.slots[1] \in Int /\ c.slots[m] = c.slots[1] + m - 1
      <4>1. \A k \in 1 .. m : c.slots[k] = c.slots[1] + k - 1
        BY <2>1
      <4> HIDE DEF m
      <4>2. 1 \in 1 .. m /\ m \in 1 .. m
        BY <3>1
      <4>3. QED BY <3>1, <4>1, <4>2
    <3>3. p.slots[m + 1] = p.slots[1] + (m + 1) - 1
      BY <1>4, <3>1, <3>2
    <3>4. ASSUME NEW k \in 1 .. m + 1 PROVE p.slots[k] = p.slots[1] + k - 1
      <4>1. CASE k = m + 1
        BY <3>3, <4>1
      <4>2. CASE k \in 1 .. m
        BY <2>1, <3>1, <3>2, <4>2
      <4>3. QED BY <3>1, <4>1, <4>2
    <3>5. QED BY <3>4
  <2>3. DOMAIN p.slots = 1 .. Len(c.slots) + 1
    BY <1>2, <1>3, <1>4, AppendedSlot
  <2>4. QED BY <2>2, <2>3 DEF Ascending
<1>6. p.args[1] = src.ops[Cur].args[1] /\ src.ops[Cur].kind = "combine"
  BY <1>1, <1>3, <1>4 DEF ListInv, o
<1>7. \A x \in DOMAIN ops : x # Cur => ops'[x] = ops[x]
  BY <1>1
<1>8. ops'[Cur] = p /\ DOMAIN ops' = DOMAIN ops
  BY <1>1
<1>9. \A x \in DOMAIN ops : x[1] \in Nat /\ x = <<x[1], 0>>
  BY Places DEF ListInv
<1>10. ASSUME NEW f \in [Slots -> Combines], IsChain(f), NEW s \in Slots, f[s][1] < n + 1
       PROVE  ops'[f[s]].slots = [k \in 1 .. s + 1 |-> k - 1]
  <2>1. \A r \in Slots : f[r] \in DOMAIN ops /\ src.ops[f[r]].kind = "combine"
    BY DEF Combines, ListInv
  <2>2. s \in Int /\ s >= 0
    BY NAssumption DEF Slots
  <2>7. src.ops[f[s]].slots = <<s>> /\ (s # 0 => src.ops[f[s]].args[2] = f[s - 1])
    BY <1>10, ChainMember
  <2>3. CASE f[s][1] < n
    <3>1. f[s] # Cur
      BY <1>2, <2>3 DEF Cur
    <3>2. ops[f[s]].slots = [k \in 1 .. s + 1 |-> k - 1]
      BY <2>3, <1>10 DEF ListInv, WalkedChains
    <3>3. QED BY <1>7, <2>1, <3>1, <3>2
  <2>4. CASE f[s][1] = n
    <3>1. f[s] = Cur
      BY <1>9, <2>1, <2>4 DEF Cur
    <3>2. o = src.ops[Cur] /\ o.slots = <<s>>
      <4>1. o = src.ops[Cur]
        <5>1. Cur[1] >= n
          BY <1>2 DEF Cur
        <5>2. QED BY <1>1, <5>1 DEF ListInv, o
      <4>2. QED BY <2>7, <3>1, <4>1
    <3>3. t = s
      BY <1>4, <3>2
    <3>4. s # 0
      <4>1. SUFFICES ASSUME s = 0 PROVE FALSE
        OBVIOUS
      <4>2. c.slots[Len(c.slots)] \in Slots
        <5>1. c.slots \in Seq(Slots) \ {<< >>}
          BY <1>1, <1>2 DEF IInv, TypeOK, c
        <5>2. QED BY <5>1, LastIsSlot
      <4>3. QED BY <1>4, <3>3, <4>1, <4>2 DEF Slots
    <3>5. c.slots = [k \in 1 .. s |-> k - 1]
      BY <1>10, <3>1, <3>4, ChainPredecessor DEF o, c
    <3>6. p.slots = [k \in 1 .. s + 1 |-> k - 1]
      <4>1. Len(c.slots) = s /\ \A k \in 1 .. s : c.slots[k] = k - 1
        <5>1. DOMAIN c.slots = 1 .. s
          BY <3>5
        <5>2. Len(c.slots) \in Nat /\ DOMAIN c.slots = 1 .. Len(c.slots)
          BY <1>2
        <5>3. QED BY <2>2, <3>5, <5>1, <5>2
      <4>2. /\ p.slots \in Seq(Int) /\ DOMAIN p.slots = 1 .. s + 1
            /\ \A k \in 1 .. s : p.slots[k] = k - 1
            /\ p.slots[s + 1] = s
        <5>1. p.slots = c.slots \o <<t>>
          BY <1>3, <1>4
        <5>2. /\ p.slots \in Seq(Int) /\ DOMAIN p.slots = 1 .. Len(c.slots) + 1
              /\ \A k \in 1 .. Len(c.slots) : p.slots[k] = c.slots[k]
              /\ p.slots[Len(c.slots) + 1] = t
          BY <1>2, <1>4, <5>1, AppendedSlot
        <5>3. QED BY <3>3, <4>1, <5>2
      <4>3. \A k \in 1 .. s + 1 : p.slots[k] = k - 1
        BY <2>2, <4>2
      <4>4. p.slots = [k \in DOMAIN p.slots |-> p.slots[k]]
        BY <4>2, ListIsFunction
      <4>5. QED BY <4>2, <4>3, <4>4
    <3>7. QED BY <1>8, <3>1, <3>6
  <2>5. f[s][1] < n \/ f[s][1] = n
    <3>1. f[s][1] \in Nat
      BY <1>9, <2>1
    <3>2. QED BY <1>2, <1>10, <3>1
  <2>6. QED BY <2>3, <2>4, <2>5
<1>11. WalkedChains'
  BY <1>1, <1>10 DEF WalkedChains, IsChain, Combines
<1>12. \A x \in DOMAIN ops : x[1] >= n + 1 => x # Cur /\ x[1] >= n
  BY <1>2, <1>9 DEF Cur
<1>13. QED
  <2>1. p.kind = src.ops[Cur].kind
    BY <1>3, <1>6
  <2>2. ~(n >= n + 1) /\ Cur[1] = n
    BY <1>2 DEF Cur
  <2>3. QED BY <1>1, <1>3, <1>5, <1>6, <1>7, <1>8, <1>11, <1>12, <2>1, <2>2 DEF ListInv

(* What the walk steps past in a chain is its first member: any other      *)
(* would be simplified.                                                    *)
LEMMA WalkPastLists == IInv /\ ListInv /\ WalkPast => ListInv'
<1> SUFFICES ASSUME IInv, ListInv, WalkPast PROVE ListInv'
  OBVIOUS
<1>1. /\ pc = "walk" /\ pc' = pc /\ n' = n + 1 /\ sem' = sem /\ src' = src /\ ops' = ops
      /\ Cur \in DOMAIN ops /\ ~Simplifiable(ops[Cur]) /\ n \in Nat
  BY DEF WalkPast, IInv, TypeOK
<1>2. \A x \in DOMAIN ops : x[1] \in Nat /\ x = <<x[1], 0>>
  BY Places DEF ListInv
<1>3. ASSUME NEW f \in [Slots -> Combines], IsChain(f), NEW s \in Slots, f[s][1] < n + 1
      PROVE  ops[f[s]].slots = [k \in 1 .. s + 1 |-> k - 1]
  <2>1. f[s] \in DOMAIN ops /\ src.ops[f[s]].kind = "combine" /\ s \in Int /\ s >= 0
    BY NAssumption DEF Combines, ListInv, Slots
  <2>2. CASE f[s][1] < n
    BY <2>2, <1>3 DEF ListInv, WalkedChains
  <2>3. CASE f[s][1] = n
    <3>1. f[s] = Cur
      BY <1>2, <2>1, <2>3 DEF Cur
    <3>2. ops[Cur] = src.ops[Cur] /\ ops[Cur].slots = <<s>> /\ ops[Cur].kind = "combine"
      BY <1>1, <1>3, <2>1, <2>3, <3>1, ChainMember DEF ListInv
    <3>3. s = 0
      <4> SUFFICES ASSUME s # 0 PROVE FALSE
        OBVIOUS
      <4> DEFINE c == ops[f[s - 1]]
      <4>1. /\ s - 1 \in Slots /\ f[s - 1] \in DOMAIN ops
            /\ ops[Cur].args[2] = f[s - 1] /\ c.slots = [k \in 1 .. s |-> k - 1]
        BY <1>3, <3>1, ChainPredecessor
      <4>2. c.kind = "combine" /\ c.args[1] = ops[Cur].args[1]
        <5>1. src.ops[f[s - 1]].kind = "combine"
          BY <4>1 DEF Combines
        <5>2. c.kind = "combine" /\ c.args[1] = src.ops[f[s - 1]].args[1]
          BY <4>1, <5>1 DEF ListInv
        <5>3. src.ops[f[s - 1]].args[1] = src.ops[f[s]].args[1]
          BY <1>3, <4>1, ChainMember
        <5>4. QED BY <3>1, <3>2, <5>2, <5>3
      <4> HIDE DEF c
      <4>3. Len(c.slots) = s /\ c.slots[s] = s - 1
        BY <2>1, <4>1
      <4>4. Len(ops[Cur].slots) = 1 /\ ops[Cur].slots[1] = s
        BY <3>2
      <4>5. Extends(ops[Cur], c)
        BY <2>1, <4>2, <4>3, <4>4 DEF Extends
      <4>6. QED BY <1>1, <3>2, <4>1, <4>2, <4>5 DEF Simplifiable, c
    <3>4. <<0>> = [k \in 1 .. 0 + 1 |-> k - 1]
      OBVIOUS
    <3>5. QED BY <3>1, <3>2, <3>3, <3>4
  <2>4. f[s][1] < n \/ f[s][1] = n
    BY <1>1, <1>2, <1>3, <2>1
  <2>5. QED BY <2>2, <2>3, <2>4
<1>4. WalkedChains'
  BY <1>1, <1>3 DEF WalkedChains, IsChain, Combines
<1>5. \A x \in DOMAIN ops : x[1] >= n + 1 => x[1] >= n
  BY <1>1, <1>2
<1>6. QED BY <1>1, <1>4, <1>5 DEF ListInv

(* The walk ends behind the last operation.                                *)
LEMMA WalkEndsLists == IInv /\ ListInv /\ WalkEnds => ListInv'
<1> SUFFICES ASSUME IInv, ListInv, WalkEnds PROVE ListInv'
  OBVIOUS
<1>1. /\ UNCHANGED <<src, ops, sem, n>> /\ Cur \notin DOMAIN ops /\ n \in Nat \ {0}
  BY DEF WalkEnds, IInv, TypeOK
<1>2. ASSUME NEW x \in DOMAIN ops PROVE x[1] < n
  <2>1. x[1] \in Nat /\ x \in DOMAIN src.ops /\ src \in Source
    BY Places DEF ListInv
  <2>2. ~(n \in 1 .. x[1])
    BY <1>1, <2>1, BlockAssumption DEF Cur, ListInv
  <2>3. QED BY <1>1, <2>1, <2>2
<1>3. WalkedChains'
  BY <1>1 DEF ListInv, WalkedChains, IsChain, Combines
<1>4. QED BY <1>1, <1>2, <1>3 DEF ListInv

(* What the lists of slots look like, in every state of the pass.          *)
THEOREM ListsInvariant == Spec => [](IInv /\ ListInv)
<1>1. Init => IInv /\ ListInv
  BY InitIInv, ListInit
<1>2. IInv /\ ListInv /\ [Next]_vars => (IInv /\ ListInv)'
  <2> SUFFICES ASSUME IInv, ListInv, [Next]_vars PROVE IInv' /\ ListInv'
    OBVIOUS
  <2>1. IInv'
    BY NextIInv
  <2>2. CASE UNCHANGED vars
    <3>1. UNCHANGED <<src, ops, sem, n, pc>>
      BY <2>2 DEF vars
    <3>2. WalkedChains'
      BY <3>1 DEF ListInv, WalkedChains, IsChain, Combines
    <3>3. QED BY <2>1, <3>1, <3>2 DEF ListInv
  <2>3. QED BY <2>1, <2>2, SimplifyLists, WalkPastLists, WalkEndsLists DEF Next
<1>3. QED BY <1>1, <1>2, PTL DEF Spec

(* A combine that CombineOp::fold takes for a copy is one: in every state  *)
(* of the pass, for every program it is given.                             *)
THEOREM FoldsAreSound == Spec => []FoldIsSound
<1>1. IInv /\ ListInv => FoldIsSound
  <2> SUFFICES ASSUME IInv, ListInv, NEW x \in DOMAIN ops, CoversVector(ops[x])
               PROVE  sem[x] = sem[ops[x].args[1]]
    BY DEF FoldIsSound
  <2> DEFINE o == ops[x]
             v == sem[o.args[1]]
  <2>1. o.kind = "combine" /\ Len(o.slots) = N /\ o.slots[1] = 0 /\ Ascending(o.slots)
    BY DEF CoversVector, ListInv
  <2>2. o \in Op /\ WellTyped(ops, o) /\ o.slots \in Seq(Int)
    BY DEF IInv, TypeOK, Op
  <2>3. o.args[1] \in DOMAIN ops
    <3>1. DOMAIN o.args = {1, 2}
      BY <2>1, <2>2, Arity
    <3>2. QED BY <2>1, <3>1 DEF IInv, TypeOK, OperandsDefined
  <2>4. IsVector(v)
    <3>1. src \in Source /\ o.args[1] \in DOMAIN src.ops /\ v = src.sem[o.args[1]]
      BY <2>3 DEF ListInv
    <3>2. QED BY <3>1, SourceAssumption DEF IsProgram
  <2>5. sem[x] = Combine(v, {o.slots[k] : k \in DOMAIN o.slots}, sem[o.args[2]])
    <3>1. sem[x] = Eval(o, sem)
      BY <2>1 DEF IInv, MeaningPreserved, Consistent
    <3>2. QED BY <2>1, <3>1, EvalCombine DEF Listed
  <2>6. sem[x] = Combine(v, Slots, sem[o.args[2]])
    BY <2>1, <2>2, <2>5, ListsAllSlots
  <2>7. Combine(v, Slots, sem[o.args[2]]) = [s \in Slots |-> v[s]]
    BY DEF Combine
  <2>8. QED BY <2>4, <2>6, <2>7 DEF IsVector
<1>2. QED BY <1>1, ListsInvariant, PTL

(* When the pass ends, every vector that was filled slot by slot, in       *)
(* ascending order, is a combine that CombineOp::fold takes for a copy.    *)
THEOREM FilledVectorsBecomeCopies == Spec => []FilledVectorsAreCopies
<1>1. IInv /\ ListInv => FilledVectorsAreCopies
  <2> SUFFICES ASSUME IInv, ListInv, pc = "done", NEW x \in Combines,
                      NEW f \in [Slots -> Combines], f[N - 1] = x, IsChain(f)
               PROVE  CoversVector(ops[x])
    BY DEF FilledVectorsAreCopies, Fills
  <2>1. N \in Nat \ {0} /\ N - 1 \in Slots /\ (N - 1) + 1 = N
    BY NAssumption DEF Slots
  <2>2. x \in DOMAIN ops /\ x[1] < n /\ ops[x].kind = "combine"
    BY DEF Combines, ListInv
  <2>3. ops[x].slots = [k \in 1 .. (N - 1) + 1 |-> k - 1]
    BY <2>1, <2>2 DEF ListInv, WalkedChains
  <2>4. Len(ops[x].slots) = N /\ ops[x].slots[1] = 0
    BY <2>1, <2>3
  <2>5. QED BY <2>2, <2>4 DEF CoversVector
<1>2. QED BY <1>1, ListsInvariant, PTL
=============================================================================
