---------------------------- MODULE MCVHDLBackend ----------------------------
EXTENDS VHDLBackend

CONSTANT Length   \* statements of a function

Instr(op, args, ptr, num, type, succs) ==
  [op |-> op, args |-> args, ptr |-> ptr, num |-> num, type |-> type, succs |-> succs]
Load(name) == Instr("load", <<>>, Variable(name, 0), 0, "real", <<>>)
Store(value, name) == Instr("store", <<value>>, Variable(name, 0), 0, "real", <<>>)
Op(op, args) == Instr(op, args, Constant, 0, "real", <<>>)
Call(op, args, num, type) == Instr(op, args, Constant, num, type, <<>>)
Branch(op, args, targets) == Instr(op, args, Constant, 0, "int", targets)

(* Statements, as clang emits them without optimization; b instructions *)
(* come before.  The parameter x is a pointer, "n" an int.              *)
Statement(kind, dst, src, b) ==
  CASE kind = "copy" -> <<Load(src), Store(b + 1, dst)>>
    [] kind = "set" -> <<Store(0, dst)>>
    [] kind = "calc" ->   \* dst = src * dst
       <<Load(src), Load(dst), Op("binop", <<b + 1, b + 2>>), Store(b + 3, dst)>>
    [] kind = "call" ->   \* n = f(n, src)
       <<Load("n"), Load(src), Op("call", <<b + 1, b + 2>>), Store(b + 3, "n")>>
    [] kind = "void" ->   \* f(src)
       <<Load(src), Op("voidcall", <<b + 1>>)>>
    [] kind = "test" ->   \* n = src > dst
       <<Load(src), Load(dst), Op("cmp", <<b + 1, b + 2>>), Call("zext", <<b + 3>>, 0, "int"), Store(b + 4, "n")>>
    [] kind = "array" ->   \* x[1] = src * x[0]
       <<Load(src), Load("x"), Call("getelementptr", <<b + 2>>, 0, "real"),
         Instr("load", <<b + 3>>, Constant, 0, "real", <<>>), Op("binop", <<b + 1, b + 4>>),
         Load("x"), Call("getelementptr", <<b + 6>>, 1, "real"),
         Instr("store", <<b + 5, b + 7>>, Constant, 0, "real", <<>>)>>
    [] kind = "get" -> <<Call("get", <<>>, 0, "real"), Store(b + 1, dst)>>
    [] kind = "put" -> <<Load(src), Call("put", <<b + 1>>, 1, "real")>>
    [] kind = "sync" -> <<Call("wait", <<>>, 0, "int"), Call("post", <<>>, 1, "int")>>
    [] kind = "cond" ->   \* dst = n != 0 ? src : 2
       <<Load("n"), Call("cmp", <<b + 1, 0>>, 0, "int"), Branch("condbr", <<b + 2>>, <<b + 4, b + 6>>),
         Load(src), Branch("br", <<>>, <<b + 7>>), Branch("br", <<>>, <<b + 7>>),
         Branch("phi", <<b + 4, 0>>, <<b + 4, b + 6>>), Store(b + 7, dst)>>
    [] kind = "select" ->
       <<Load("n"), Call("cmp", <<b + 1, 0>>, 0, "int"), Load(src), Op("select", <<b + 2, b + 3, 0>>), Store(b + 4, dst)>>
    [] kind = "if" ->   \* if (n != 0) dst = src
       <<Load("n"), Call("cmp", <<b + 1, 0>>, 0, "int"), Branch("condbr", <<b + 2>>, <<b + 4, b + 7>>),
         Load(src), Store(b + 4, dst), Branch("br", <<>>, <<b + 7>>)>>

Code(stmts) ==
  FoldLeft(LAMBDA c, s : c \o Statement(s[1], s[2], s[3], Len(c)), <<>>, stmts) \o <<Op("retvoid", <<>>)>>

Statements(kinds) ==
  UNION {[1..k -> {<<kind, v[1], v[2]>> : kind \in kinds, v \in {<<"a", "b">>, <<"b", "a">>, <<"c", "b">>}}] :
           k \in 1..Length}

(* What a function reads and assigns, element by element. *)
Place(code, i, k) ==
  IF k \in DOMAIN code[i].args
  THEN <<code[code[code[i].args[k]].args[1]].ptr.name, code[code[i].args[k]].num>>
  ELSE <<code[i].ptr.name, 0>>
Accesses(code, op, k, p) == {i \in DOMAIN code : code[i].op = op /\ Place(code, i, k) = p}
Places(code, op, k) ==
  {Place(code, i, k) : i \in {j \in DOMAIN code : code[j].op = op}} \ {<<"x", 0>>}

(* A variable is assigned once, and read once before. *)
Supported(code) ==
  /\ \A p \in Places(code, "store", 2) : Cardinality(Accesses(code, "store", 2, p)) = 1
  /\ \A p \in Places(code, "load", 1) :
       \A i, j \in Accesses(code, "load", 1, p) :
         i < j => \E s \in Accesses(code, "store", 2, p) : s < j
  /\ \A kind \in {"get", "put"} : Cardinality({i \in DOMAIN code : code[i].op = kind}) <= 1

HasPhi(code) == \E i \in DOMAIN code : code[i].op \in {"phi", "select"}
HasVoidCall(code) == \E i \in DOMAIN code : code[i].op = "voidcall"

(* A value stored into a variable and from there stored again or put. *)
HasCopy(code) ==
  \E i, s \in DOMAIN code :
    /\ code[i].op \in {"store", "put"} /\ code[s].op = "store"
    /\ code[i].args[1] # 0 /\ code[s].args[1] # 0
    /\ code[code[i].args[1]].op = "load" /\ s < code[i].args[1]
    /\ Place(code, code[i].args[1], 1) = Place(code, s, 2)

(* Functions with a phi node or with a value that has two outputs are called *)
(* once, and so are those that call a function without a result.             *)
SupportedFunctions ==
  {[code |-> code, calls |-> IF HasPhi(code) \/ HasCopy(code) \/ HasVoidCall(code) THEN 1 ELSE 2] :
     code \in {c \in {Code(s) : s \in Statements({"copy", "set", "calc", "call", "void", "test", "array",
                                                 "get", "put", "sync", "cond", "select"})} : Supported(c)}}

(* b = a * b; c = a * c, as in Vq[14] = t * Vp[10]; Vy[4] = Vp[10] * Vx[0]. *)
ReadTwiceFunctions == {[code |-> Code(<<<<"calc", "b", "a">>, <<"calc", "c", "a">>>>), calls |-> 1]}

(* if (n != 0) a = b *)
IfFunctions == {[code |-> Code(<<<<"if", "a", "b">>>>), calls |-> 1]}

(* a = n != 0 ? b : 2, called twice *)
PhiFunctions == {[code |-> Code(<<<<"cond", "a", "b">>>>), calls |-> 2]}

(* b = a * b; c = b, called twice *)
CopyFunctions == {[code |-> Code(<<<<"calc", "b", "a">>, <<"copy", "c", "b">>>>), calls |-> 2]}

(* return a * 2, called twice *)
ReturnFunctions == {[code |-> <<Load("a"), Op("binop", <<1, 0>>), Op("ret", <<2>>)>>, calls |-> 2]}
=============================================================================
