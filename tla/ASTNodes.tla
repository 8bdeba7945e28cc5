------------------------------ MODULE ASTNodes ------------------------------
(***************************************************************************)
(* The AST as a heap of nodes (include/heco/legacy_ast/ast): who owns      *)
(* which node, and where the parent pointers point.                        *)
(*                                                                         *)
(* An address holds a node or is free, and may be used again.  A node owns *)
(* its children by std::unique_ptr: when it dies, they die.  The parent is *)
(* a raw pointer that some operations set and most leave as it is.  Every  *)
(* action is one call on a node; the client calls on nodes that live, and  *)
(* gives away only what it holds.                                          *)
(***************************************************************************)
EXTENDS ASTClasses, SequencesExt, Subsequences

CONSTANTS
  Nodes,       \* addresses
  Free,        \* no node is there
  Heaps,       \* the trees a client may start from: their kind and child, and
               \* calls, how many calls building them counts for
  Built,       \* bound: the classes whose constructors the client calls
  MaxVector,   \* bound: a vector grows no longer than this
  MaxCalls     \* bound: calls the client makes

VARIABLES
  kind,        \* the class of the node at an address
  child,       \* its children, in the order of ASTClasses
  parent,      \* AbstractNode::parent
  hand,        \* the nodes that the client owns
  stray,       \* nodes that were moved and still have the parent they had before
  undefined,   \* whether a call had undefined behaviour
  calls        \* how many calls were made

heap == <<kind, child, parent, hand, stray>>
nodeVars == <<heap, undefined, calls>>

Live == {m \in Nodes : kind[m] # Free}
FreeNodes == Nodes \ Live

NodesIn(c) == Range(c) \ {Null}

\* What is owned through these nodes, themselves included.
Closed(ch, S) == \A m \in S : NodesIn(ch[m]) \subseteq S

BelowIn(ch, roots) ==
  {m \in Nodes : \A S \in SUBSET Nodes : roots \subseteq S /\ Closed(ch, S) => m \in S}

Below(roots) == BelowIn(child, roots)

Owners(m) == {o \in Live : m \in NodesIn(child[o])}

\* The vector of a node, and its members.
VectorOfNode(m) == SubSeq(child[m], 1, VectorLength(kind[m], child[m]))
MembersOf(m) == SubSeq(child[m], VectorLength(kind[m], child[m]) + 1, Len(child[m]))

\* A node of kind k may have these children.
Fits(k, kinds, c) ==
  /\ IF Class[k].vector = {} THEN VectorLength(k, c) = 0 ELSE VectorLength(k, c) >= 0
  /\ \A i \in DOMAIN c : c[i] # Null => kinds[c[i]] \in Admitted(k, c, i)

IsTree(kinds, ch) ==
  /\ \A m \in Nodes : IF kinds[m] = Free THEN ch[m] = << >> ELSE Fits(kinds[m], kinds, ch[m])
  /\ \A m \in Nodes : kinds[m] # Free => m \in BelowIn(ch, {r \in Nodes :
                        kinds[r] # Free /\ \A o \in Nodes : r \notin NodesIn(ch[o])})
  /\ \A o, q \in Nodes : \A i \in DOMAIN ch[o], j \in DOMAIN ch[q] :
       ch[o][i] = ch[q][j] /\ ch[o][i] # Null => o = q /\ i = j

ASSUME HeapAssumption ==
  /\ Null \notin Nodes /\ PastEnd \notin Nodes
  /\ Free \notin Kinds /\ Built \subseteq Kinds
  /\ MaxVector \in Nat /\ MaxCalls \in Nat
  /\ \A h \in Heaps :
       /\ h.kind \in [Nodes -> Kinds \cup {Free}]
       /\ h.child \in [Nodes -> Seq(Nodes \cup {Null})]
       /\ IsTree(h.kind, h.child)
       /\ h.calls \in 0 .. MaxCalls

\* The constructor of Assignment tells its children; no other does.
AdoptedIn(kinds, ch, m) ==
  {c \in NodesIn(ch[m]) : kinds[m] # Free /\ Class[kinds[m]].adopts}

NodeInit ==
  /\ \E h \in Heaps : kind = h.kind /\ child = h.child /\ calls = h.calls
  /\ parent = [m \in Nodes |->
       IF \E o \in Nodes : m \in AdoptedIn(kind, child, o)
       THEN CHOOSE o \in Nodes : m \in AdoptedIn(kind, child, o) ELSE Null]
  /\ hand = {m \in Live : Owners(m) = {}}
  /\ stray = {}
  /\ undefined = FALSE

-----------------------------------------------------------------------------
(***************************************************************************)
(* After a call: what it made of the heap, without the nodes that died.    *)
(***************************************************************************)
Becomes(kinds, ch, par, held, moved, dead) ==
  /\ kind' = [m \in Nodes |-> IF m \in dead THEN Free ELSE kinds[m]]
  /\ child' = [m \in Nodes |-> IF m \in dead THEN << >> ELSE ch[m]]
  /\ parent' = [m \in Nodes |-> IF m \in dead THEN Null ELSE par[m]]
  /\ hand' = held \ dead
  /\ stray' = moved \ dead
  /\ UNCHANGED undefined

Undefined == undefined' = TRUE /\ UNCHANGED heap

\* What the client may put below n: nothing, or what it holds and n is not part of.
Offered(n) == {Null} \cup {x \in hand : n \notin Below({x})}

Placing(c) == hand \ NodesIn(c)

\* The constructors: of a vector, of the members, or of both.
Construct(k, a, c) ==
  /\ Fits(k, kind, c) /\ VectorLength(k, c) <= MaxVector
  /\ \A i, j \in DOMAIN c : c[i] = c[j] /\ c[i] # Null => i = j
  /\ LET told == IF Class[k].adopts THEN NodesIn(c) ELSE {}
     IN  IF Class[k].adopts /\ Null \in Range(c) THEN Undefined
         ELSE Becomes([kind EXCEPT ![a] = k], [child EXCEPT ![a] = c],
                      [m \in Nodes |-> IF m \in told THEN a ELSE parent[m]],
                      Placing(c) \cup {a}, stray \ told, {})

\* setTarget, setValue, setLeft, setCondition, setBody ...: the old child dies.
SetMember(n, i, x) ==
  /\ i \in Class[kind[n]].set
  /\ LET at == VectorLength(kind[n], child[n]) + i
         c  == [child[n] EXCEPT ![at] = x]
     IN  /\ Fits(kind[n], kind, c)
         /\ Becomes(kind, [child EXCEPT ![n] = c], parent, hand \ {x}, stray,
                    Below({child[n][at]} \ {Null}))

\* takeTarget and takeValue: the parent pointer stays.
TakeMember(n, i) ==
  /\ i \in Class[kind[n]].take
  /\ child[n][i] # Null
  /\ Becomes(kind, [child EXCEPT ![n][i] = Null], parent,
             hand \cup {child[n][i]}, stray \cup {child[n][i]}, {})

\* appendStatement, prependStatement and their like
Insert(n, x, c, edit) ==
  /\ edit \in Class[kind[n]].edit
  /\ Fits(kind[n], kind, c) /\ Len(c) <= MaxVector
  /\ Becomes(kind, [child EXCEPT ![n] = c], parent, hand \ {x}, stray, {})

AppendChild(n, x) == Insert(n, x, Append(child[n], x), "append")
PrependChild(n, x) == Insert(n, x, <<x>> \o child[n], "prepend")

\* Mutant: the child is deleted, the pointer to it stays.
DeleteStatement(n, i) ==
  /\ "null" \in Class[kind[n]].edit
  /\ child[n][i] # Null
  /\ Becomes(kind, child, parent, hand, stray, Below({child[n][i]}))

\* getStatementPointers and getExpressionPtrs: a child is removed by nulling it.
Nullify(n, i) ==
  /\ "null" \in Class[kind[n]].edit
  /\ child[n][i] # Null
  /\ Becomes(kind, [child EXCEPT ![n][i] = Null], parent, hand, stray, Below({child[n][i]}))

Compacted(c) == Picked(c, {i \in DOMAIN c : c[i] # Null})

\* removeNullStatements, removeNullExpressions, removeNullOperands
Compact(n) ==
  /\ "compact" \in Class[kind[n]].edit
  /\ Becomes(kind, [child EXCEPT ![n] = Compacted(@)], parent, hand, stray, {})

\* takeExpressions
TakeVector(n) ==
  /\ "take" \in Class[kind[n]].edit
  /\ Becomes(kind, [child EXCEPT ![n] = << >>], parent,
             hand \cup NodesIn(child[n]), stray \cup NodesIn(child[n]), {})

\* setExpressions
SetVector(n, c) ==
  /\ "set" \in Class[kind[n]].edit
  /\ Fits(kind[n], kind, c) /\ Len(c) <= MaxVector
  /\ \A i, j \in DOMAIN c : c[i] = c[j] /\ c[i] # Null => i = j
  /\ Becomes(kind, [child EXCEPT ![n] = c], parent, Placing(c), stray, Below(NodesIn(child[n])))

Destroy(x) == Becomes(kind, child, parent, hand, stray, Below({x}))

-----------------------------------------------------------------------------
(***************************************************************************)
(* Copies.  A copy is built from the top, each node telling its copied     *)
(* children their parent; f says where the copies are.                     *)
(***************************************************************************)
CopyOf(f, c) == [i \in DOMAIN c |-> IF c[i] = Null THEN Null ELSE f[c[i]]]

Original(f, m) == CHOOSE x \in DOMAIN f : f[x] = m

KindsWith(f) == [m \in Nodes |-> IF m \in Range(f) THEN kind[Original(f, m)] ELSE kind[m]]

ChildrenWith(f) ==
  [m \in Nodes |-> IF m \in Range(f) THEN CopyOf(f, child[Original(f, m)]) ELSE child[m]]

\* Mutant: a copy has the parent of its original.
ParentsCopied(f, top) ==
  [m \in Nodes |-> IF m \notin Range(f) THEN parent[m] ELSE parent[Original(f, m)]]

\* The topmost copies get the parent top.
ParentsWith(f, top) ==
  [m \in Nodes |->
     IF m \notin Range(f) THEN parent[m]
     ELSE IF Owners(Original(f, m)) \cap DOMAIN f = {} THEN top
     ELSE f[CHOOSE o \in Owners(Original(f, m)) : o \in DOMAIN f]]

\* Copying a function copies its body, without asking whether there is one.
Bodiless(S) == \E m \in S : kind[m] = "Function" /\ Null \in Range(MembersOf(m))

\* clone
Clone(n, f) ==
  /\ DOMAIN f = Below({n})
  /\ IF Bodiless(Below({n})) THEN Undefined
     ELSE Becomes(KindsWith(f), ChildrenWith(f), ParentsWith(f, Null), hand \cup {f[n]}, stray, {})

\* The children that operator= copies: it empties a vector first, also its own.
SourceOf(a, b) ==
  IF a = b /\ Class[kind[b]].clears THEN MembersOf(b) ELSE child[b]

Apart(a, b) == a \notin Below({b}) /\ b \notin Below({a})

\* operator=(const T &).  The one of Assignment assigns the parent pointer, too.
CopyAssign(a, b, f) ==
  /\ kind[a] = kind[b] /\ (a = b \/ Apart(a, b))
  /\ DOMAIN f = Below(NodesIn(SourceOf(a, b)))
  /\ LET based == IF Class[kind[a]].bases THEN {a} \ {b} ELSE {}
         copied == ParentsWith(f, a)
     IN  IF Bodiless({b} \cup DOMAIN f) THEN Undefined
         ELSE Becomes(KindsWith(f), [ChildrenWith(f) EXCEPT ![a] = CopyOf(f, SourceOf(a, b))],
                      [m \in Nodes |-> IF m \in based THEN parent[b] ELSE copied[m]],
                      hand, stray \cup based, Below(NodesIn(child[a])))

\* Mutant: members are not moved but stay where they are, too.
MembersStay(n) == MembersOf(n)

\* What is left of the children of a node whose content was moved away.
MovedFrom(n) == [i \in DOMAIN MembersOf(n) |-> Null]

\* The move constructors: the children keep their parent pointers.
MoveConstruct(n, a) ==
  Becomes([kind EXCEPT ![a] = kind[n]],
          [child EXCEPT ![a] = child[n], ![n] = MovedFrom(n)], parent,
          hand \cup {a}, stray \cup NodesIn(child[n]), {})

\* operator=(T &&)
MoveAssign(a, b) ==
  /\ kind[a] = kind[b] /\ Apart(a, b)
  /\ LET based == IF Class[kind[a]].bases THEN {a} ELSE {}
     IN  Becomes(kind, [child EXCEPT ![a] = child[b], ![b] = MovedFrom(b)],
                 [m \in Nodes |-> IF m \in based THEN parent[b] ELSE parent[m]],
                 hand, stray \cup NodesIn(child[b]) \cup based, Below(NodesIn(child[a])))

-----------------------------------------------------------------------------
\* The sequences that a constructor or setExpressions may be given.
Given(S) == UNION {[1 .. k -> {Null} \cup S] : k \in 0 .. MaxVector + 1}

Called ==
  /\ ~undefined
  /\ calls < MaxCalls
  /\ calls' = calls + 1

Build == Called /\ \E k \in Built, a \in FreeNodes, c \in Given(hand) : Construct(k, a, c)

Edit ==
  /\ Called
  /\ \E n \in Live :
       \/ \E i \in 1 .. 4, x \in Offered(n) : SetMember(n, i, x)
       \/ \E i \in DOMAIN child[n] : TakeMember(n, i) \/ Nullify(n, i)
       \/ \E x \in Offered(n) : AppendChild(n, x) \/ PrependChild(n, x)
       \/ Compact(n)
       \/ TakeVector(n)
       \/ \E c \in Given(Offered(n) \ {Null}) : SetVector(n, c)

Copy ==
  /\ Called
  /\ \E n \in Live :
       \/ \E f \in Injection(Below({n}), FreeNodes) : Clone(n, f)
       \/ \E b \in Live : \E f \in Injection(Below(NodesIn(SourceOf(n, b))), FreeNodes) :
            CopyAssign(n, b, f)

Move ==
  /\ Called
  /\ \E n \in Live : (\E a \in FreeNodes : MoveConstruct(n, a)) \/ (\E b \in Live : MoveAssign(n, b))

Delete == Called /\ \E x \in hand : Destroy(x)

NodeNext == Build \/ Edit \/ Copy \/ Move \/ Delete

NodeSpec == NodeInit /\ [][NodeNext]_nodeVars

-----------------------------------------------------------------------------
(***************************************************************************)
(* The type invariant: where there is no node, there are no children and   *)
(* no parent; a node has the children its class admits.                    *)
(***************************************************************************)
NodesOK ==
  /\ kind \in [Nodes -> Kinds \cup {Free}]
  /\ child \in [Nodes -> Seq(Nodes \cup {Null})]
  /\ parent \in [Nodes -> Nodes \cup {Null}]
  /\ hand \subseteq Live /\ stray \subseteq Live
  /\ undefined \in BOOLEAN
  /\ calls \in 0 .. MaxCalls
  /\ \A m \in Nodes : IF m \in Live THEN Fits(kind[m], kind, child[m])
                      ELSE child[m] = << >> /\ parent[m] = Null

(***************************************************************************)
(* "A node owns its children and its children are deleted when the node    *)
(* itself is deleted" (AbstractNode.h): whatever calls were made, a node   *)
(* that lives is owned once, by the client or at one place of one node,    *)
(* and nothing lives that the client could not delete.                     *)
(***************************************************************************)
Places(m) == UNION {{<<o, i>> : i \in {j \in DOMAIN child[o] : child[o][j] = m}} : o \in Nodes}

SoleOwner ==
  /\ \A m \in Live : IF m \in hand THEN Places(m) = {} ELSE \E p \in Places(m) : Places(m) = {p}
  /\ Live \subseteq Below(hand)
=============================================================================
