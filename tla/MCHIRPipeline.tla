--------------------------- MODULE MCHIRPipeline ---------------------------
(***************************************************************************)
(* TLC's instance of the pipeline: loops over vectors of four slots as     *)
(* UnrollLoops leaves them, with the number of operations and rotations    *)
(* that a programmer would need.  They are then lowered to EmitC as the    *)
(* README says, and so are short programs on whole vectors; programs on    *)
(* tensors and traces of the bgv dialect are only lowered.                 *)
(***************************************************************************)
EXTENDS FheTool, HIRPrograms

MCLiteral == {0, 1, 3}

\* The pipeline ends with the first two.
ToEmitC == <<"bgv2emitc", "canonicalize", "fhe2bgv", "canonicalize", "bgv2emitc", "canonicalize">>

Expected(p, arithmetic, rotations) ==
  p @@ [arithmetic |-> arithmetic, rotations |-> rotations, plan |-> Passes, lower |-> ToEmitC]

\* Places 1 and 2 of every program; 3 .. 6 and 7 .. 10 are their slots.
Vectors ==
  <<Arg("batched"), Arg("batched")>>
    \o [m \in 1 .. 4 |-> ExtractOp(1, m - 1)] \o [m \in 1 .. 4 |-> ExtractOp(2, m - 1)]

X(s) == 3 + s
Y(s) == 7 + s
Scalar(kind, args) == Compute(kind, "secret", args)

\* for i: z[i] = x[i + k] op y[i], where z is a copy of one of the two
Elementwise(kind, k, z) ==
  Vectors
    \o [m \in 1 .. 4 |-> Scalar(kind, <<X((m - 1 + k) % 4), Y(m - 1)>>)]
    \o [m \in 1 .. 4 |-> Insertion(10 + m, IF m = 1 THEN z ELSE 13 + m, m - 1)]
    \o <<Return(18)>>

\* for i: z[i] = x[i] + x[i + k]
Stencil(k) ==
  Vectors
    \o [m \in 1 .. 4 |-> Scalar("add", <<X(m - 1), X((m - 1 + k) % 4)>>)]
    \o [m \in 1 .. 4 |-> Insertion(10 + m, IF m = 1 THEN 1 ELSE 13 + m, m - 1)]
    \o <<Return(18)>>

\* for i: z[i] = x[i] - x[i + 1], or with further terms
Window(kind, offsets) ==
  Vectors
    \o [m \in 1 .. 4 |-> Scalar(kind, [k \in DOMAIN offsets |-> X((m - 1 + offsets[k]) % 4)])]
    \o [m \in 1 .. 4 |-> Insertion(10 + m, IF m = 1 THEN 1 ELSE 13 + m, m - 1)]
    \o <<Return(18)>>

\* s = 0; for i: s = s + x[order[i]]
SumOf(order) ==
  Vectors \o <<ConstantOp("secret", 0)>>
    \o [m \in 1 .. 4 |-> Scalar("add", <<10 + m, X(order[m])>>)]
    \o <<Return(15)>>

\* s = 0; for i: s = s + x[i] * y[i]
Product ==
  Vectors \o <<ConstantOp("secret", 0)>>
    \o [m \in 1 .. 4 |-> Scalar("multiply", <<X(m - 1), Y(m - 1)>>)]
    \o [m \in 1 .. 4 |-> Scalar("add", <<IF m = 1 THEN 11 ELSE 14 + m, 11 + m>>)]
    \o <<Return(19)>>

\* for i: z[i] = (x[i] - y[i]) * x[i] + y[i]
Compound(z) ==
  Vectors
    \o [m \in 1 .. 4 |-> Scalar("sub", <<X(m - 1), Y(m - 1)>>)]
    \o [m \in 1 .. 4 |-> Scalar("multiply", <<10 + m, X(m - 1)>>)]
    \o [m \in 1 .. 4 |-> Scalar("add", <<14 + m, Y(m - 1)>>)]
    \o [m \in 1 .. 4 |-> Insertion(18 + m, IF m = 1 THEN z ELSE 21 + m, m - 1)]
    \o <<Return(26)>>

\* s = 0; for i: s = s + (x[i] - y[i]) * (x[i] - y[i])
Distance ==
  Vectors \o <<ConstantOp("secret", 0)>>
    \o [m \in 1 .. 4 |-> Scalar("sub", <<X(m - 1), Y(m - 1)>>)]
    \o [m \in 1 .. 4 |-> Scalar("multiply", <<11 + m, 11 + m>>)]
    \o [m \in 1 .. 4 |-> Scalar("add", <<IF m = 1 THEN 11 ELSE 18 + m, 15 + m>>)]
    \o <<Return(23)>>

Permutations4 == {f \in [1 .. 4 -> 0 .. 3] : Range(f) = 0 .. 3}

LoopPrograms ==
  {Expected(Program(Elementwise(kind, 0, z)), 1, 0) : kind \in Arithmetic, z \in {1, 2}}
    \cup {Expected(Program(Elementwise("multiply", k, 2)), 1, 1) : k \in 1 .. 3}
    \cup {Expected(Program(Stencil(k)), 1, 1) : k \in 1 .. 2}
    \cup {Expected(Program(Window("sub", <<0, 1>>)), 1, 1), Expected(Program(Window("add", <<0, 1, 2>>)), 1, 2)}
    \cup {Expected(Program(SumOf(f)), 2, 2) : f \in {g \in Permutations4 : g[1] # 0}}
    \cup {Expected(Program(Product), 3, 2)}
    \cup {Expected(Program(Compound(z)), 3, 0) : z \in {1, 2}}
    \cup {Expected(Program(Distance), 4, 2)}

StencilPrograms == {Expected(Program(Stencil(3)), 1, 1)}

Planned(p, plan, lower) == p @@ [plan |-> plan, lower |-> lower]

-----------------------------------------------------------------------------
ToEmitCAtOnce == <<"fhe2bgv", "bgv2emitc", "canonicalize">>

Operands == {<<2, 1>>, <<3, 3>>, <<2, 1, 3>>, <<1, 2, 1, 3>>}

KernelPrograms ==
  { Planned(Program(<<Arg("batched"), Arg("batched"), RotateOp(1, r), Compute(f, "batched", a),
                      Compute(g, "batched", b), Return(5)>>),
            <<"cse">>, lower) :
      r \in {1, -1}, f \in Arithmetic, g \in Arithmetic, a \in Operands, b \in {<<4, 2>>, <<3, 4, 4>>},
      lower \in {ToEmitCAtOnce, SubSeq(ToEmitC, 3, 6)} }

Trivial == Program(<<Arg("batched"), Return(1)>>)

Code(list) ==
  [k \in DOMAIN list |->
     [list[k] EXCEPT !.id = <<k, 0>>, !.args = [m \in DOMAIN @ |-> <<@[m], 0>>]]]

\* A program of another dialect: its places, and what is to be done with it.
Foreign(list, lower) ==
  Planned(Trivial, <<"cse">>, lower)
    @@ [code |-> Code(list), inputs |-> [x \in {<<k, 0>> : k \in DOMAIN list} |-> [s \in Slots |-> Input(x[1], s)]]]

Secret == TypeOf("secret", << >>)

BGV(name, type, args, i) == Instruction("bgv", name, << >>, type, args, i)
Func(name, type, args) == Instruction("func", name, << >>, type, args, 0)

\* Two of the places are 3 and 5, ciphertexts; 7 is their product, relinearized.
Trace(op, end) ==
  << Func("arg", TypeOf("ptxt", << >>), << >>),
     BGV("load_relin_keys", TypeOf("rlk", << >>), << >>, 0),
     BGV("load_ctxt", Ciphertext(2), << >>, 0),
     BGV("load_galois_keys", TypeOf("glk", << >>), << >>, 0),
     BGV("load_ctxt", Ciphertext(2), << >>, 1),
     BGV("multiply", Ciphertext(3), <<3, 5>>, 0),
     BGV("relinearize", Ciphertext(2), <<6, 2>>, 0), op, end >>

TraceOps ==
  { BGV(name, Ciphertext(2), args, 0) :
      name \in {"add", "sub", "modswitch_to", "exponentiate"}, args \in {<<7, 5>>, <<3, 7>>} }
    \cup {BGV("add_many", Ciphertext(2), args, 0) : args \in {<<7, 5, 3>>, <<5, 5>>}}
    \cup {BGV(name, Ciphertext(2), <<7, 1>>, 0) : name \in {"add_plain", "sub_plain", "multiply_plain"}}
    \cup {BGV("rotate", Ciphertext(2), <<7, 4>>, r) : r \in {1, -3}}
    \cup {BGV("multiply_many", Ciphertext(3), <<7, 5, 3, 2>>, 0), BGV("modswitch", Ciphertext(2), <<7>>, 0),
           BGV("multiply", Ciphertext(4), <<6, 5>>, 0), BGV("load_ptxt", TypeOf("ptxt", << >>), << >>, 0),
           BGV("load_public_key", TypeOf("pk", << >>), << >>, 0)}

Ends == {Func("return", NoResult, <<8>>), Func("return", NoResult, <<7, 3>>), BGV("sink", NoResult, <<6>>, 0)}

TracePrograms ==
  {Foreign(Trace(op, end), <<"bgv2emitc", "canonicalize">>) : op \in TraceOps, end \in Ends}
    \cup {Foreign(Trace(BGV("add", Ciphertext(2), <<7, 5>>, 0), end), <<"bgv2llvm">>) : end \in Ends}
    \cup {Foreign(<<Func("arg", type, << >>), Func("return", NoResult, <<1>>)>>, lower) :
            type \in {Ciphertext(2), TypeOf("ptxt", << >>), Secret}, lower \in {<<"bgv2llvm">>, <<"bgv2emitc", "canonicalize">>}}

\* x[written] = x[read] op y[readToo], then x[read] = x[read]: the indices are lists
\* of places, and one of the two tensors is returned.
Tensor(name, type, args) == Instruction("tensor", name, << >>, type, args, 0)
Index(i) == Instruction("arith", "constant", << >>, TypeOf("index", << >>), << >>, i)

TensorCode(kind, shape, read, readToo, written, result) ==
  LET t == TypeOf("tensor", shape) IN
  << Func("arg", t, << >>), Func("arg", t, << >>), Func("arg", TypeOf("index", << >>), << >>),
     Index(0), Index(1), Index(3),
     Tensor("extract", Secret, <<1>> \o read),
     Tensor("extract", Secret, <<2>> \o readToo),
     Instruction("fhe", kind, << >>, Secret, <<7, 8>>, 0),
     Tensor("insert", t, <<9, 1>> \o written),
     Tensor("insert", t, <<7, 10>> \o read),
     Func("return", NoResult, <<result>>) >>

Places == {<<4>>, <<5>>, <<6>>}

TensorPrograms ==
  { Foreign(TensorCode(kind, <<4>>, r, q, w, result), <<"tensor2fhe", "canonicalize">>) :
      kind \in {"sub", "multiply"}, r \in Places, q \in Places, w \in Places \cup {<<3>>}, result \in {10, 11} }
    \cup { Foreign(TensorCode("add", <<2, 2>>, <<4, 5>>, <<5, 5>>, w, 11), <<"tensor2fhe", "canonicalize">>) :
      w \in {<<5, 4>>, <<4, 4>>} }

MCPrograms ==
  LoopPrograms \cup KernelPrograms \cup TracePrograms \cup TensorPrograms
=============================================================================
