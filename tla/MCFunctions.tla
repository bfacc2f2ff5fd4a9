----------------------------- MODULE MCFunctions -----------------------------
(***************************************************************************)
(* Small functions as clang would emit them without optimization: the      *)
(* parameters are stored into allocas, then follow statements over the     *)
(* globals "g1", "g2" and "n" and two pointer parameters, then a return.   *)
(***************************************************************************)
EXTENDS Integers, Sequences, SequencesExt

Instr(op, args, ptr, type, succs) ==
  [op |-> op, args |-> args, ptr |-> ptr, type |-> type, succs |-> succs]

Load(ptr) == Instr("load", <<>>, ptr, "real", <<>>)
Store(value, ptr) == Instr("store", value, ptr, "void", <<>>)
Br(to) == Instr("br", <<>>, "", "void", <<to>>)
CondBr(cond, then, else) == Instr("condbr", <<cond>>, "", "void", <<then, else>>)

(* A store through a pointer with a computed offset. *)
Offset(param, pointer, dst, b) ==
  <<Load(dst), Instr("load", <<param>>, pointer, "ptr", <<>>),
    Instr("load", <<>>, "n", "int", <<>>),
    Instr("binop", <<b + 3>>, "", "int", <<>>),
    Instr("getelementptr", <<b + 2, b + 4>>, "", "ptr", <<>>),
    Instr("store", <<b + 1, b + 5>>, "arrayidx", "void", <<>>)>>

(* The statements; b is the number of the instruction before them. *)
Statement(kind, dst, src, b) ==
  CASE kind = "copy" -> <<Load(src), Store(<<b + 1>>, dst)>>
    [] kind = "calc" ->   \* dst = src * dst
       <<Load(src), Load(dst), Instr("binop", <<b + 1, b + 2>>, "", "real", <<>>),
         Store(<<b + 3>>, dst)>>
    [] kind = "call" ->   \* dst = f(src, dst, src)
       <<Load(src), Load(dst), Load(src),
         Instr("call", <<b + 1, b + 2, b + 3>>, "", "real", <<>>),
         Store(<<b + 4>>, dst)>>
    [] kind = "sum" ->    \* dst = src + f(dst)
       <<Load(src), Load(dst), Instr("call", <<b + 2>>, "", "real", <<>>),
         Instr("binop", <<b + 1, b + 3>>, "", "real", <<>>), Store(<<b + 4>>, dst)>>
    [] kind = "inc" ->    \* dst = src++
       <<Load(src), Instr("binop", <<b + 1>>, "", "real", <<>>),
         Store(<<b + 2>>, src), Store(<<b + 1>>, dst)>>
    [] kind = "if" ->     \* if (src > 0) dst = src
       <<Load(src), Instr("cmp", <<b + 1>>, "", "int", <<>>),
         CondBr(b + 2, b + 4, b + 7),
         Load(src), Store(<<b + 4>>, dst), Br(b + 7)>>
    [] kind = "nestedif" ->   \* if (src > 0) if (dst > 0) dst = 0
       <<Load(src), Instr("cmp", <<b + 1>>, "", "int", <<>>),
         CondBr(b + 2, b + 4, b + 10),
         Load(dst), Instr("cmp", <<b + 4>>, "", "int", <<>>),
         CondBr(b + 5, b + 7, b + 9),
         Store(<<>>, dst), Br(b + 9), Br(b + 10)>>
    [] kind = "ifelse" ->   \* if (src > 0) dst = src else dst = 0
       <<Load(src), Instr("cmp", <<b + 1>>, "", "int", <<>>),
         CondBr(b + 2, b + 4, b + 7),
         Load(src), Store(<<b + 4>>, dst), Br(b + 9),
         Store(<<>>, dst), Br(b + 9)>>
    [] kind = "cond" ->   \* dst = src > 0 ? dst : 2
       <<Load(src), Instr("cmp", <<b + 1>>, "", "int", <<>>),
         CondBr(b + 2, b + 4, b + 6),
         Load(dst), Br(b + 7), Br(b + 7),
         Instr("phi", <<b + 4>>, "", "real", <<>>), Store(<<b + 7>>, dst)>>
    [] kind = "status" ->   \* status[0] = src * status[1]
       <<Load(src), Instr("load", <<1>>, "status.addr", "ptr", <<>>),
         Instr("getelementptr", <<b + 2>>, "", "ptr", <<>>),
         Instr("load", <<b + 3>>, "arrayidx", "real", <<>>),
         Instr("binop", <<b + 1, b + 4>>, "", "real", <<>>),
         Instr("load", <<1>>, "status.addr", "ptr", <<>>),
         Instr("getelementptr", <<b + 6>>, "", "ptr", <<>>),
         Instr("store", <<b + 5, b + 7>>, "arrayidx1", "void", <<>>)>>
    [] kind = "offset" ->   \* *(p + (n + 1)) = dst
       Offset(2, "p.addr", dst, b)
    [] kind = "statusoffset" ->   \* *(status + (n + 1)) = dst
       Offset(1, "status.addr", dst, b)

(* The parameters "status" and "p"; their allocas are instructions 1 and 2. *)
Parameters ==
  <<Instr("alloca", <<>>, "", "ptr", <<>>), Instr("alloca", <<>>, "", "ptr", <<>>),
    Instr("store", <<1>>, "status.addr", "void", <<>>),
    Instr("store", <<2>>, "p.addr", "void", <<>>)>>

UsesParameter(stmts) == \E k \in DOMAIN stmts : stmts[k][1] \in {"status", "offset", "statusoffset"}

(* The function made of the statements stmts, each a triple <<kind, destination, source>>. *)
MCFunction(stmts) ==
  FoldLeft(LAMBDA f, s : f \o Statement(s[1], s[2], s[3], Len(f)),
           IF UsesParameter(stmts) THEN Parameters ELSE <<>>, stmts)
  \o <<Instr("retvoid", <<>>, "", "void", <<>>)>>

MCFunctionsOf(kinds, length) ==
  UNION {{MCFunction(stmts) : stmts \in [1..n -> kinds \X {"g1", "g2"} \X {"g1"}]} :
           n \in 1..length}
=============================================================================
