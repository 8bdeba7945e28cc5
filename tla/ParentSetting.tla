--------------------------- MODULE ParentSetting ---------------------------
(***************************************************************************)
(* ParentSettingVisitor, which the parser runs over what it has parsed, on *)
(* the nodes of ASTNodes, step by step: the visitor's stack, the range-for *)
(* of every visit, and the iterators it uses.                              *)
(*                                                                         *)
(* The Visitor template has a visit for every class but Call, so a Call    *)
(* goes to PlainVisitor: it gets no parent and is not pushed on the stack, *)
(* and its arguments are visited as if they were its parent's.             *)
(***************************************************************************)
EXTENDS ASTNodes

VARIABLES
  walk,      \* the visits under way, outermost first: a node and its iterator
  root,      \* the node the last visit was started on
  outcome    \* what became of it, or "none" if another call was made since

vars == <<nodeVars, walk, root, outcome>>

Outcomes == {"none", "linked", "mismatch", PastEnd, "null"}

-----------------------------------------------------------------------------
(***************************************************************************)
(* Iterators.  Those of vectors are at an index, Len + 1 being the end,    *)
(* and jump over null pointers when they are incremented; those of members *)
(* are at a position.  The one of Function goes on beyond its vector.      *)
(***************************************************************************)
Length(n) == VectorLength(kind[n], child[n])

IteratesVector(n) == Class[kind[n]].vector # {}

Present(n) == Cardinality({i \in DOMAIN child[n] : child[n][i] # Null})

HasBody(n) == IF Null \in Range(MembersOf(n)) THEN 0 ELSE 1

Begin(n) == [at |-> IF IteratesVector(n) THEN 1 ELSE 0, beyond |-> 0]

End(n) ==
  [at |-> IF IteratesVector(n) THEN Length(n) + 1 ELSE Present(n),
   beyond |-> IF kind[n] # "Function" THEN 0
              ELSE HasBody(n) + (IF Length(n) = 0 THEN 0 ELSE 1)]

\* Mutant: null pointers are not jumped over.
NextIndex(n, i) == i + 1

\* The next index that is not null, or the end.
NextPresent(n, i) ==
  CHOOSE k \in i + 1 .. Length(n) + 1 :
    /\ k = Length(n) + 1 \/ child[n][k] # Null
    /\ \A l \in i + 1 .. k - 1 : child[n][l] = Null

Increment(n, it) ==
  CASE ~IteratesVector(n) -> [it EXCEPT !.at = @ + 1]
    [] IteratesVector(n) /\ it.at = Length(n) + 1 -> [it EXCEPT !.beyond = @ + 1]
    [] OTHER ->
         LET k == NextPresent(n, it.at)
         IN  [at |-> k, beyond |-> IF kind[n] = "Function" /\ k = Length(n) + 1
                                   THEN 1 ELSE it.beyond]

Deref(n, it) ==
  LET c == child[n]
  IN  CASE IteratesVector(n) /\ it.at <= Length(n) -> c[it.at]
        [] IteratesVector(n) /\ it.at > Length(n)  ->
             IF MembersOf(n) = << >> THEN PastEnd ELSE MembersOf(n)[1]
        [] kind[n] = "For" -> ForDeref(c, it.at)
        [] kind[n] = "If"  -> IfDeref(c, it.at)
        [] kind[n] = "TernaryOperator" -> TernaryDeref(c, it.at)
        [] kind[n] \in {"Return", "UnaryExpression"} -> SingleDeref(c, it.at)
        [] kind[n] \in {"Assignment", "VariableDeclaration", "BinaryExpression", "IndexAccess"} ->
             PairDeref(c, it.at)
        [] OTHER -> PastEnd

-----------------------------------------------------------------------------
Init == NodeInit /\ walk = << >> /\ root = Null /\ outcome = "none"

Running == walk # << >>
Top == walk[Len(walk)]

\* Undefined behaviour is the end of what can be said.
Defined == ~undefined /\ outcome # "null"

CallNode ==
  /\ ~Running /\ Defined
  /\ NodeNext
  /\ outcome' = "none"
  /\ UNCHANGED <<walk, root>>

\* node.accept(visitor), with a new visitor
Accept(n) ==
  /\ ~Running /\ Defined /\ Called
  /\ walk' = <<[node |-> n, it |-> Begin(n)]>>
  /\ root' = n
  /\ outcome' = "none"
  /\ UNCHANGED <<heap, undefined>>

\* The visitor's stack: Null if it is empty.
StackTop ==
  LET pushed == {k \in DOMAIN walk : kind[walk[k].node] # "Call"}
  IN  IF pushed = {} THEN Null
      ELSE walk[CHOOSE k \in pushed : \A l \in pushed : l <= k].node

Stops(result) == walk' = << >> /\ outcome' = result

Goes(frames) == walk' = frames /\ UNCHANGED outcome

Visit(c) ==
  LET told == kind[c] # "Call" /\ StackTop # Null
  IN  IF told /\ parent[c] \notin {Null, StackTop}
      THEN Stops("mismatch") /\ UNCHANGED parent
      ELSE /\ parent' = IF told THEN [parent EXCEPT ![c] = StackTop] ELSE parent
           /\ Goes(Append(walk, [node |-> c, it |-> Begin(c)]))

Fails(c) == Stops(IF c = Null THEN "null" ELSE c) /\ UNCHANGED parent

VisitChild ==
  /\ Running
  /\ Top.it # End(Top.node)
  /\ LET c == Deref(Top.node, Top.it)
     IN  IF c \in Nodes THEN Visit(c) ELSE Fails(c)
  /\ UNCHANGED <<kind, child, hand, stray, undefined, calls, root>>

\* The visit returns to the loop of the one around it.
Leave ==
  /\ Running
  /\ Top.it = End(Top.node)
  /\ IF Len(walk) = 1 THEN Stops("linked")
     ELSE Goes([Front(walk) EXCEPT ![Len(walk) - 1].it = Increment(walk[Len(walk) - 1].node, @)])
  /\ UNCHANGED <<nodeVars, root>>

Next == CallNode \/ (\E n \in Live : Accept(n)) \/ VisitChild \/ Leave

Spec == Init /\ [][Next]_vars

-----------------------------------------------------------------------------
(***************************************************************************)
(* The type invariant: the nodes are as ASTNodes says, and the visits      *)
(* under way lead from the root down, each to a child of the one before.   *)
(***************************************************************************)
TypeOK ==
  /\ NodesOK
  /\ root \in Nodes \cup {Null} /\ outcome \in Outcomes
  /\ Running => walk[1].node = root /\ outcome = "none"
  /\ \A k \in DOMAIN walk : walk[k].node \in Live
  /\ \A k \in 2 .. Len(walk) : walk[k].node \in NodesIn(child[walk[k - 1].node])

(***************************************************************************)
(* A visit that ends well has come to every node below the root, whichever *)
(* children are null, and each now has its owner as its parent, but for    *)
(* Calls and their arguments; and no iterator ever runs beyond the end of  *)
(* its node.                                                               *)
(***************************************************************************)
LinksAll ==
  /\ outcome # PastEnd
  /\ outcome = "linked" =>
       \A o \in Below({root}) : \A m \in NodesIn(child[o]) :
         kind[o] # "Call" /\ kind[m] # "Call" => parent[m] = o

(***************************************************************************)
(* A visit is refused ("Original parent and parent we would set do not     *)
(* match") only where a node below the root was moved or is a Call, and    *)
(* undefined only where a vector has a null pointer in front: never for    *)
(* trees without Calls that constructors and setters built of nodes.       *)
(***************************************************************************)
RefusesOnlyMoved ==
  /\ outcome = "mismatch" =>
       \E m \in Below({root}) : m \in stray \/ kind[m] = "Call"
  /\ outcome = "null" =>
       \E m \in Below({root}) :
         IteratesVector(m) /\ Length(m) > 0 /\ child[m][1] = Null

(***************************************************************************)
(* "the above semantics should exclude dangling parent pointers"           *)
(* (AbstractNode.h): a parent pointer that is set points at the owner,     *)
(* whatever was built, copied, visited and deleted, but for nodes that     *)
(* were taken out of another or moved with its content, assignments that   *)
(* were assigned to, and arguments of Calls.                               *)
(***************************************************************************)
ParentIsOwner ==
  \A m \in Live \ stray : parent[m] # Null =>
    \/ m \in NodesIn(child[parent[m]])
    \/ \E o \in Owners(m) : kind[o] = "Call"
=============================================================================
