-------------------------- MODULE MCParentSetting --------------------------
(***************************************************************************)
(* TLC's instance: every class with every choice of children that are      *)
(* null, and some trees of two or more, among them trees with Calls, on a  *)
(* heap of six addresses.                                                  *)
(***************************************************************************)
EXTENDS ParentSetting, TLC

CONSTANTS a1, a2, a3, a4, a5, a6

Addresses == <<a1, a2, a3, a4, a5, a6>>

MCNodes == Range(Addresses)

Symmetry == Permutations(MCNodes)

\* A tree: for one address after the other, the class and its children; 0 is null.
HeapOf(tree, made) ==
  LET at == [m \in MCNodes |-> CHOOSE i \in DOMAIN Addresses : Addresses[i] = m]
      here(m) == at[m] <= Len(tree)
  IN  [kind  |-> [m \in MCNodes |-> IF here(m) THEN tree[at[m]][1] ELSE Free],
       child |-> [m \in MCNodes |-> IF here(m)
                    THEN [i \in DOMAIN tree[at[m]][2] |->
                            IF tree[at[m]][2][i] = 0 THEN Null ELSE Addresses[tree[at[m]][2][i]]]
                    ELSE << >>],
       calls |-> made]

V == <<"Variable", << >> >>

\* A childless node of one of these kinds.
LeafOf(kinds) ==
  CASE "Block" \in kinds             -> <<"Block", << >> >>
    [] "Variable" \in kinds          -> V
    [] "Return" \in kinds            -> <<"Return", <<0>> >>
    [] OTHER                         -> <<"FunctionParameter", << >> >>

\* A node of class k with leaves for children where pattern says so.
Single(k, pattern) ==
  LET index(i) == IF pattern[i] THEN 1 + Cardinality({j \in 1 .. i : pattern[j]}) ELSE 0
      c == [i \in DOMAIN pattern |-> index(i)]
      chosen == SelectSeq([i \in DOMAIN pattern |-> i], LAMBDA i : pattern[i])
  IN  <<<<k, c>>>> \o [m \in DOMAIN chosen |-> LeafOf(Admitted(k, c, chosen[m]))]

Patterns(k) ==
  IF k = "Assignment" THEN {<<TRUE, TRUE>>}
  ELSE UNION {[1 .. v + Len(Class[k].members) -> BOOLEAN] :
                v \in IF Class[k].vector = {} THEN {0} ELSE 0 .. MaxVector}

Singles == UNION {{Single(k, p) : p \in Patterns(k)} : k \in Kinds}

\* Deeper ones.
Trees ==
  { <<<<"Block", <<2>>>>, <<"Return", <<3>>>>, <<"Call", <<4>>>>, V>>,
    <<<<"Assignment", <<2, 3>>>>, V, <<"Call", <<4>>>>, V>>,
    <<<<"ExpressionList", <<2, 3>>>>, <<"Call", << >>>>, <<"UnaryExpression", <<4>>>>, V>>,
    <<<<"Block", <<2>>>>, <<"Assignment", <<3, 4>>>>, V, V>>,
    <<<<"Assignment", <<2, 3>>>>, V, V, <<"Assignment", <<5, 6>>>>, V, V>>,
    <<<<"Function", <<2, 3>>>>, <<"FunctionParameter", << >>>>, <<"Block", <<4>>>>,
      <<"Return", <<0>>>>>>,
    <<<<"VariableDeclaration", <<2, 3>>>>, V, <<"IndexAccess", <<4, 5>>>>, V, V>> }

MCHeaps == {HeapOf(t, 1) : t \in Singles} \cup {HeapOf(t, 0) : t \in Trees}
=============================================================================
