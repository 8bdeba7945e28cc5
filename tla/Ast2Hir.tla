------------------------------ MODULE Ast2Hir ------------------------------
(***************************************************************************)
(* The lowering of the AST dialect to SSA form                             *)
(* (src/Passes/ast2hir/LowerASTtoSSA.cpp).  It walks over the statements   *)
(* of a function with a symbol table from variables to values, an          *)
(* llvm::ScopedHashTable.  Loops become loops with one carried value for   *)
(* every variable there is; an if becomes arithmetic on the values that    *)
(* its branches assign ("MUX").                                            *)
(*                                                                         *)
(* The recursion of translateStatement is an explicit stack of frames, one *)
(* for the function and for each loop and branch that is being translated; *)
(* one step translates a statement, or enters or leaves a frame.           *)
(*                                                                         *)
(* Abstraction: operations without regions are pure, so the value of one   *)
(* is the term that it computes, over the values that are not computed by  *)
(* such operations: parameters, induction variables, what loops carry and  *)
(* what they result in.  Where in a block an operation is placed is then   *)
(* no part of the model, nor are types.  In particular mergeBlocks puts    *)
(* the statements of a branch behind the terminator that scf.if is created *)
(* with, and leaves the order of the statements as it is.                  *)
(***************************************************************************)
EXTENDS AstLanguage, TLC

CONSTANT Source   \* the functions that are lowered

VARIABLES
  fn,       \* the function; never changes
  frames,   \* the statements being translated, the innermost last
  table,    \* symbolTable, with its scopes
  loops,    \* the number of loops created so far
  errors,   \* whether emitError was called
  undefined,\* whether the pass ran into undefined behaviour, which ends it
  code      \* the body of the new function, once it is done

vars == <<fn, frames, table, loops, errors, undefined, code>>

-----------------------------------------------------------------------------
(* Values. *)
Parameter(k) == [kind |-> "parameter", place |-> k]
IV(loop) == [kind |-> "iv", loop |-> loop]
IterArg(loop, x) == [kind |-> "iterarg", loop |-> loop, name |-> x]
LoopResult(loop, x) == [kind |-> "result", loop |-> loop, name |-> x]
Inserted(v, target, i) == [kind |-> "insert", value |-> v, target |-> target, index |-> i]

\* mlir::Value(): lookup of what is not in the table, and what some
\* expressions that are refused become
NoValue == [kind |-> "null"]

IsDeclared(scopes, x) == x \in Names(scopes)

Find(scopes, x) == IF IsDeclared(scopes, x) THEN Lookup(scopes, x) ELSE NoValue

\* declare: a name that is taken is left alone.
Declared(scopes, x, v) == IF IsDeclared(scopes, x) THEN scopes ELSE Append(scopes, <<x, v>>)

-----------------------------------------------------------------------------
(* translateExpression *)
Operators == {"+", "-", "*", "%"}

IndexesVariable(e) == e.kind = "index" /\ e.target.kind = "variable"
IndexesTwice(e) == e.kind = "index" /\ e.target.kind = "index"

\* What e becomes.  Of two indices only the inner one is used; an element of
\* what is no variable is the constant 1.
RECURSIVE Translated(_, _)
Translated(e, scopes) ==
  LET Recur(u) == Translated(u, scopes) IN
  CASE e.kind = "literal" -> e
    [] e.kind = "variable" -> IF IsDeclared(scopes, e.name) THEN Lookup(scopes, e.name) ELSE Literal(1)
    [] e.kind = "binary" -> IF e.op \in Operators THEN Binary(e.op, Recur(e.left), Recur(e.right)) ELSE Literal(1)
    [] IndexesVariable(e) -> IndexAccess(Recur(e.target), Recur(e.index))
    [] IndexesTwice(e) ->
         IF IndexesVariable(e.target) THEN IndexAccess(Recur(e.target.target), Recur(e.target.index)) ELSE NoValue
    [] e.kind = "index" /\ ~IndexesVariable(e) /\ ~IndexesTwice(e) -> Literal(1)
    [] OTHER -> NoValue

\* The expressions that translateExpression calls itself on.
Parts(e) ==
  CASE e.kind = "binary" -> {e.left, e.right}
    [] IndexesVariable(e) -> {e.target, e.index}
    [] IndexesTwice(e) /\ IndexesVariable(e.target) -> {e.index, e.target.index, e.target.target}
    [] OTHER -> {}

RECURSIVE Visited(_)
Visited(e) == {e} \cup UNION {Visited(u) : u \in Parts(e)}

\* emitError: undefined variables, unsupported operators and expressions,
\* more than two indices.
Refused(e) ==
  \/ e.kind = "variable" /\ ~IsDeclared(table, e.name)
  \/ e.kind = "binary" /\ e.op \notin Operators
  \/ IndexesTwice(e) /\ ~IndexesVariable(e.target)
  \/ e.kind = "other"

EmitsError(e) == \E u \in Visited(e) : Refused(u)

\* The operands of an operation.
Used(v) ==
  CASE v.kind = "binary" -> {v.left, v.right}
    [] v.kind = "index"  -> {v.target, v.index}
    [] v.kind = "insert" -> {v.value, v.target, v.index}
    [] OTHER -> {}

\* An operation is created whose operand is no value.
TakesNull(e) == \E u \in Visited(e) : NoValue \in Used(Translated(u, table))

-----------------------------------------------------------------------------
(* Frames.  rest is what is still to be translated, block what has been    *)
(* created, mark the length of the table when the scope was opened.        *)
Frame(kind, statement, rest, mark) ==
  [kind |-> kind, statement |-> statement, rest |-> rest, block |-> << >>, mark |-> mark]

Top == Last(frames)

Statement == Head(Top.rest)

Expressions(s) == {s[field] : field \in DOMAIN s \cap {"value", "index", "condition"}}

\* The variables that the if changes: locals of a branch are none.
Selected(f) == {x \in DOMAIN f.thenValues \cup DOMAIN f.elseValues : IsDeclared(table, x)}

\* The next step dereferences a null value: one that is assigned to a
\* variable is only stored, but its type is asked for when it is declared,
\* returned, inserted, compared with, carried by a loop or multiplied.
IsNull(x) == Find(table, x) = NoValue

StatementTakesNull(s) ==
  \/ \E e \in Expressions(s) :
       TakesNull(e) \/ (s.kind \notin {"assign", "invalid"} /\ Translated(e, table) = NoValue)
  \/ s.kind = "element" /\ IsNull(s.name)
  \/ s.kind = "for" /\ \E x \in Names(table) : IsNull(x)

EndTakesNull(f) ==
  \/ f.kind = "for" /\ \E x \in DOMAIN f.statement.inits : IsNull(x)
  \/ /\ f.kind = "else"
     /\ \E values \in {f.statement.thenValues, f.statement.elseValues} :
          \E x \in DOMAIN values \cap Selected(f.statement) : values[x] = NoValue

AtNull ==
  frames # << >> /\ IF Top.rest # << >> THEN StatementTakesNull(Statement) ELSE EndTakesNull(Top)

Translating(kind) == frames # << >> /\ Top.rest # << >> /\ Statement.kind = kind /\ ~AtNull

AtEnd(kind) == frames # << >> /\ Top.rest = << >> /\ Top.kind = kind /\ ~AtNull

Branches == {"then", "else"}

\* In a branch every statement has a scope of its own (then_scope and
\* else_scope are declared in the loops).
After(frame, scopes) == IF frame.kind \in Branches THEN Cut(scopes, frame.mark) ELSE scopes

\* frame is the top one, with the effects of its statement; go on to the next.
Proceed(below, frame, created, scopes) ==
  /\ frames' = Append(below, [frame EXCEPT !.rest = Tail(@), !.block = @ \o created])
  /\ table' = After(frame, scopes)

\* Mutant: the parameters are entered before the scope is opened.
ScopeAfterParameters == Cardinality(Range(fn.parameters))

\* The scope of the function is opened before the parameters are entered.
FunctionScope == 0

Init ==
  /\ fn \in Source
  /\ frames = <<Frame("function", << >>, fn.body, FunctionScope)>>
  /\ table = FoldLeft(LAMBDA scopes, k : Declared(scopes, fn.parameters[k], Parameter(k)),
                      << >>, [k \in DOMAIN fn.parameters |-> k])
  /\ loops = 0
  /\ errors = ~IsInjective(fn.parameters)
  /\ undefined = FALSE
  /\ code = << >>

-----------------------------------------------------------------------------
(* translateVariableDeclarationOp *)
Declare ==
  /\ Translating("declare")
  /\ Proceed(Front(frames), Top, << >>,
             Declared(table, Statement.name, Translated(Statement.value, table)))
  /\ errors' = (errors \/ EmitsError(Statement.value))
  /\ UNCHANGED <<fn, loops, undefined, code>>

(* translateAssignmentOp.  In a branch the callback keeps the first value  *)
(* that is assigned to x, and the one that x had before.                   *)
Noted(frame, x, old, new) ==
  IF frame.kind = "then"
  THEN [frame EXCEPT !.statement.thenValues = @ @@ (x :> new), !.statement.original = @ @@ (x :> old)]
  ELSE IF frame.kind = "else"
  THEN [frame EXCEPT !.statement.elseValues = @ @@ (x :> new), !.statement.original = @ @@ (x :> old)]
  ELSE frame

Assign(x, v) ==
  Proceed(Front(frames), Noted(Top, x, Find(table, x), v), << >>, Append(table, <<x, v>>))

AssignVariable ==
  /\ Translating("assign")
  /\ Assign(Statement.name, Translated(Statement.value, table))
  /\ errors' = (errors \/ EmitsError(Statement.value))
  /\ UNCHANGED <<fn, loops, undefined, code>>

AssignElement ==
  /\ Translating("element")
  /\ Assign(Statement.name, Inserted(Translated(Statement.value, table),
                                     Find(table, Statement.name),
                                     Translated(Statement.index, table)))
  /\ errors' = (errors \/ EmitsError(Statement.value) \/ EmitsError(Statement.index))
  /\ UNCHANGED <<fn, loops, undefined, code>>

\* "Got invalid assignment target!"  What is assigned gets a name all the same.
AssignInvalid ==
  /\ Translating("invalid")
  /\ Proceed(Front(frames), Top, << >>,
             Append(table, <<"INVALID_TARGET", Translated(Statement.value, table)>>))
  /\ errors' = TRUE
  /\ UNCHANGED <<fn, loops, undefined, code>>

\* Nested blocks, general loops, declarations without a value, returns of
\* several values, and what is no statement.  The first two and the last stay
\* where they are, the others are erased.
RefuseStatement ==
  /\ Translating("other")
  /\ \E left \in {<< >>, <<Statement>>} : Proceed(Front(frames), Top, left, table)
  /\ errors' = TRUE
  /\ UNCHANGED <<fn, loops, undefined, code>>

TranslateReturn ==
  /\ Translating("return")
  /\ Proceed(Front(frames), Top,
             <<[kind |-> "return", value |-> Translated(Statement.value, table)]>>, table)
  /\ errors' = (errors \/ EmitsError(Statement.value))
  /\ UNCHANGED <<fn, loops, undefined, code>>

-----------------------------------------------------------------------------
(* translateSimpleForOp *)

\* Mutant: only variables of the scope the loop is in are carried.
ExistingInScope == NameList(SubSeq(table, Top.mark + 1, Len(table)))

\* Every variable that exists becomes an iter_arg.
Existing == NameList(table)

EnterFor ==
  /\ Translating("for")
  /\ LET loop == loops + 1
         s    == Statement
         iterArgs == table \o Entries(Existing, LAMBDA x : IterArg(loop, x))
     IN  /\ frames' = Append(frames,
              Frame("for",
                    [loop |-> loop, start |-> s.start, end |-> s.end,
                     inits |-> [x \in Range(Existing) |-> Find(table, x)]],
                    s.body, Len(table)))
         /\ table' = Declared(iterArgs, s.iv, IV(loop))
         /\ errors' = (errors \/ IsDeclared(table, s.iv))
         /\ loops' = loop
  /\ UNCHANGED <<fn, undefined, code>>

\* Mutant: variables have the values of the last iteration after the loop.
ResultsFromBody(f, x) == Find(table, x)

\* Mutant: variables have the values from before the loop.
ResultsUnchanged(f, x) == f.statement.inits[x]

\* What a variable is after the loop.
Results(f, x) == LoopResult(f.statement.loop, x)

\* The table when the scope of frame f is left.
ScopeLeft(f) == Cut(table, f.mark)

LeaveFor ==
  /\ AtEnd("for")
  /\ LET below  == Front(frames)
         yields == [x \in DOMAIN Top.statement.inits |-> Find(table, x)]
         loop   == [kind |-> "for", yields |-> yields, body |-> Top.block] @@ Top.statement
     IN  Proceed(Front(below), Last(below), <<loop>>,
                 ScopeLeft(Top) \o Entries(NameList(Cut(table, Top.mark)), LAMBDA x : Results(Top, x)))
  /\ UNCHANGED <<fn, loops, errors, undefined, code>>

-----------------------------------------------------------------------------
(* translateIfOp *)
EnterIf ==
  /\ Translating("if")
  /\ frames' = Append(frames,
       Frame("then",
             [condition |-> Translated(Statement.condition, table), else |-> Statement.else,
              thenValues |-> << >>, elseValues |-> << >>, original |-> << >>],
             Statement.then, Len(table)))
  /\ errors' = (errors \/ EmitsError(Statement.condition))
  /\ UNCHANGED <<fn, table, loops, undefined, code>>

\* "Reset values to original values"
LeaveThen ==
  /\ AtEnd("then")
  /\ LET f     == Top.statement
         reset == table \o Entries(SetToSeq(DOMAIN f.thenValues), LAMBDA x : f.original[x])
     IN  /\ frames' = Append(Front(frames),
              Frame("else", f @@ [thenBlock |-> Top.block], f.else, Len(reset)))
         /\ table' = reset
  /\ UNCHANGED <<fn, loops, errors, undefined, code>>

\* "Emit MUX statements"
Masked(f, v) == Binary("*", f.condition, v)

Mux(f, x) ==
  IF x \notin DOMAIN f.elseValues THEN Masked(f, f.thenValues[x])
  ELSE IF x \notin DOMAIN f.thenValues THEN Masked(f, f.elseValues[x])
  ELSE Binary("+", Masked(f, f.thenValues[x]), Masked(f, f.elseValues[x]))

LeaveElse ==
  /\ AtEnd("else")
  /\ LET below  == Front(frames)
         f      == Top.statement
         branch == [kind |-> "if", condition |-> f.condition,
                    then |-> f.thenBlock, else |-> Top.block]
     IN  Proceed(Front(below), Last(below), <<branch>>,
                 table \o Entries(SetToSeq(Selected(f)), LAMBDA x : Mux(f, x)))
  /\ UNCHANGED <<fn, loops, errors, undefined, code>>

Crash ==
  /\ undefined' = TRUE
  /\ frames' = << >>
  /\ table' = << >>
  /\ UNCHANGED <<fn, loops, errors, code>>

\* The rewriter is still at the last statement of a branch when it creates
\* the operations of the MUX.  That statement has been erased, and anything
\* may happen: either what LeaveElse says or the end of the pass.
LoseInsertionPoint == AtEnd("else") /\ Selected(Top.statement) # {} /\ Crash

DereferenceNull == AtNull /\ Crash

\* convertFunctionOp2FuncOp returns, which leaves the scope of the function.
LeaveFunction ==
  /\ AtEnd("function")
  /\ code' = Top.block
  /\ frames' = << >>
  /\ table' = ScopeLeft(Top)
  /\ UNCHANGED <<fn, loops, errors, undefined>>

Next ==
  \/ Declare \/ AssignVariable \/ AssignElement \/ AssignInvalid \/ RefuseStatement \/ TranslateReturn
  \/ EnterFor \/ LeaveFor
  \/ EnterIf \/ LeaveThen \/ LeaveElse \/ LoseInsertionPoint \/ DereferenceNull
  \/ LeaveFunction

Spec == Init /\ [][Next]_vars

\* A pass runs on the thread that called it until it returns.
FairSpec == Spec /\ WF_vars(Next)

-----------------------------------------------------------------------------
(* Running what the lowering creates. *)
RECURSIVE Computed(_, _)
Computed(v, values) ==
  CASE v.kind = "literal" -> v.value
    [] v.kind = "binary"  -> Arith(v.op, Computed(v.left, values), Computed(v.right, values))
    [] v.kind = "index"   -> Computed(v.target, values)[Computed(v.index, values)]
    [] v.kind = "insert"  -> [Computed(v.target, values) EXCEPT
                                ![Computed(v.index, values)] = Computed(v.value, values)]
    [] OTHER              -> values[v]

Returned == [kind |-> "return"]

RECURSIVE RunOp(_, _)

\* Loop o carries these terms into its next iteration.
Carry(values, o, terms) ==
  [v \in {IterArg(o.loop, x) : x \in DOMAIN terms} |-> Computed(terms[v.name], values)] @@ values

RunLoop(values, o) ==
  LET Iteration(before, i) ==
        Carry(FoldLeft(RunOp, (IV(o.loop) :> i) @@ before, o.body), o, o.yields)
      final == FoldLeft(Iteration, Carry(values, o, o.inits),
                        [k \in 1 .. o.end - o.start |-> o.start + k - 1])
  IN  [v \in {LoopResult(o.loop, x) : x \in DOMAIN o.inits} |-> final[IterArg(o.loop, v.name)]] @@ final

RunOp(values, o) ==
  CASE o.kind = "for"    -> RunLoop(values, o)
    [] o.kind = "if"     ->
         FoldLeft(RunOp, values, IF Computed(o.condition, values) = 0 THEN o.else ELSE o.then)
    [] o.kind = "return" -> (Returned :> Computed(o.value, values)) @@ values

LoweredResult ==
  LET arguments == [v \in {Parameter(k) : k \in DOMAIN fn.parameters} |-> fn.arguments[fn.parameters[v.place]]]
  IN  FoldLeft(RunOp, arguments, code)[Returned]

-----------------------------------------------------------------------------
(* What the lowering is meant for: no declaration takes a name that is     *)
(* visible, only variables are indexed, and once, and an if sets variables *)
(* to a value or to zero.                                                  *)
RECURSIVE VariablesOf(_)
VariablesOf(e) ==
  CASE e.kind = "variable" -> {e.name}
    [] e.kind = "binary"   -> VariablesOf(e.left) \cup VariablesOf(e.right)
    [] e.kind = "index"    -> VariablesOf(e.target) \cup VariablesOf(e.index)
    [] OTHER               -> {}

AssignsZero(s) == s.kind = "assign" /\ s.value = Literal(0)

AssignedBy(body) == {body[k].name : k \in {m \in DOMAIN body : body[m].kind = "assign"}}

\* The statements of a branch do not see each other's assignments.
Independent(body) ==
  \A k, m \in DOMAIN body :
    body[k].kind = "assign" /\ body[m].kind = "assign" =>
      /\ body[k].name \notin VariablesOf(body[m].value)
      /\ k # m => body[k].name # body[m].name

RECURSIVE AssignsInLoops(_)
AssignsInLoops(body) ==
  \E k \in DOMAIN body :
    body[k].kind = "for" /\ (AssignedBy(body[k].body) # {} \/ AssignsInLoops(body[k].body))

SelectsZero(s) ==
  /\ Independent(s.then)
  /\ \A k \in DOMAIN s.else : AssignsZero(s.else[k])
  /\ AssignedBy(s.then) = AssignedBy(s.else)
  /\ ~AssignsInLoops(s.then)

RECURSIVE Supported(_, _)
Supported(body, outer) ==
  \A k \in DOMAIN body :
    LET s       == body[k]
        visible == outer \cup {body[m].name : m \in {q \in 1 .. k - 1 : body[q].kind = "declare"}}
    IN  /\ \A e \in Expressions(s) : \A u \in Visited(e) : u.kind = "index" => IndexesVariable(u)
        /\ s.kind = "declare" => s.name \notin visible
        /\ s.kind = "for" => Supported(s.body, visible \cup {s.iv})
        /\ s.kind = "if" => SelectsZero(s) /\ Supported(s.then, visible)

-----------------------------------------------------------------------------
(***************************************************************************)
(* The type invariant: scopes nest, and a loop that is being translated    *)
(* carries every variable that is visible outside of it, and no other.     *)
(***************************************************************************)
TypeOK ==
  /\ loops \in Nat /\ errors \in BOOLEAN /\ undefined \in BOOLEAN
  /\ \A k \in DOMAIN frames :
       /\ frames[k].kind \in Branches \cup {"function", "for"}
       /\ frames[k].mark <= Len(table)
       /\ k > 1 => frames[k - 1].mark <= frames[k].mark
       /\ frames[k].kind = "for" =>
            DOMAIN frames[k].statement.inits = Names(Cut(table, frames[k].mark))

(***************************************************************************)
(* What runs after the lowering returns what the function does, whenever   *)
(* no error was emitted: loops carry variables through all iterations and  *)
(* out again, also through loops inside of loops, and what is declared in  *)
(* a loop is gone after it (translateSimpleForOp and the symbol table).    *)
(* Ifs are limited to what MUX can express (see IfSelects).                *)
(***************************************************************************)
LoweredCorrectly ==
  code # << >> /\ ~errors /\ Supported(fn.body, Range(fn.parameters))
    => LoweredResult = Result(fn)

(***************************************************************************)
(* A value in the symbol table is one that may be used at this place: an   *)
(* argument of a loop only inside the loop, a result only where the loop   *)
(* itself is defined.                                                      *)
(***************************************************************************)
RECURSIVE Uses(_)
Uses(v) ==
  CASE v.kind \in {"literal", "null"}           -> {}
    [] v.kind \in {"binary", "index", "insert"} -> UNION {Uses(w) : w \in Used(v)}
    [] OTHER                                    -> {v}

OpenLoops == {f.statement.loop : f \in {g \in Range(frames) : g.kind = "for"}}
ClosedLoops ==
  UNION {{o.loop : o \in {p \in Range(f.block) : p.kind = "for"}} : f \in Range(frames)}

MayUse(v) ==
  \/ v.kind = "parameter"
  \/ v.kind \in {"iv", "iterarg"} /\ v.loop \in OpenLoops
  \/ v.kind = "result" /\ v.loop \in ClosedLoops

ValuesVisible == \A k \in DOMAIN table : \A v \in Uses(table[k][2]) : MayUse(v)

\* The code reaches undefined behaviour only where there is an if, where an
\* expression is refused without a value in its place, or where an element
\* of an undeclared variable is assigned.
RECURSIVE Within(_)
Within(body) ==
  UNION {{body[k]} \cup UNION {Within(body[k][field]) : field \in DOMAIN body[k] \cap {"body", "then", "else"}} :
           k \in DOMAIN body}

HasNoValue(e) == e.kind = "other" \/ (IndexesTwice(e) /\ ~IndexesVariable(e.target))

MayCrash(s, declared) ==
  \/ s.kind = "if"
  \/ s.kind = "element" /\ s.name \notin declared
  \/ \E e \in Expressions(s) : \E u \in Visited(e) : HasNoValue(u)

Unsafe(f) ==
  LET statements == Within(f.body)
      declared   == Range(f.parameters) \cup {s.name : s \in {t \in statements : t.kind = "declare"}}
  IN  \E s \in statements : MayCrash(s, declared)

(***************************************************************************)
(* Every scope that is opened is left again: the lowering ends, and the    *)
(* symbol table, which all functions share, is then as empty as before,    *)
(* also after errors.  The only exceptions are functions on which the code *)
(* runs into undefined behaviour.                                          *)
(***************************************************************************)
LeavesNothing == <>((undefined /\ Unsafe(fn)) \/ (code # << >> /\ table = << >>))

(***************************************************************************)
(* 'Emit "MUX" statements & update symbolTable to refer to them'           *)
(* (translateIfOp): a variable that a branch assigns has the value of the  *)
(* branch that is taken.                                                   *)
(***************************************************************************)
IfSelects == code # << >> /\ ~errors => LoweredResult = Result(fn)
=============================================================================
