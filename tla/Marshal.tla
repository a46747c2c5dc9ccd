------------------------------ MODULE Marshal ------------------------------
(***************************************************************************)
(* The send of a message to an Objective-C object: Cocoa_send puts the     *)
(* arguments into the two register files by the tokens ClassifyMethod has  *)
(* found, and the shim reads the result back (cocoa_natives.mm,            *)
(* objc_shim.m).                                                           *)
(*                                                                         *)
(* Of ClassifyMethod only what it promises is stated: each token is the    *)
(* one of a type measured right (Classify).  Abi models how it reads the   *)
(* encoding of a method, and implements this specification.  The reference *)
(* is the calling convention: where the callee reads argument i, and where *)
(* it leaves its result.                                                   *)
(***************************************************************************)
EXTENDS Integers, Sequences, FiniteSetsExt

CONSTANTS
  Methods,      \* the methods sent to: [ret |-> type, args |-> <<types>>]
  Layout(_)     \* what the calling convention looks at in a type

\* Whether it is void; is a struct, union or array; holds a union anywhere; has a
\* size; the bits of the floats it is made of only, or 0; the registers its parts
\* would take if each had one; and its bytes and alignment.
LayoutType ==
  [void : BOOLEAN, agg : BOOLEAN, union : BOOLEAN, sized : BOOLEAN, width : {0, 32, 64},
   regs : Nat \ {0}, size : Nat \ {0}, align : Nat \ {0}]

\* What a layout is: only an aggregate takes more than one register.
IsLayout(l) ==
  /\ l \in LayoutType
  /\ l.void => ~l.sized /\ ~l.agg
  /\ ~l.agg => l.regs = 1

ASSUME MarshalAssumption ==
  \A m \in Methods :
    /\ Len(m.args) \in Nat
    /\ DOMAIN m.args = 1 .. Len(m.args)
    /\ IsLayout(Layout(m.ret))
    /\ \A a \in DOMAIN m.args : IsLayout(Layout(m.args[a]))

VARIABLES
  method,           \* the method that is sent to
  ret, toks,        \* the tokens found
  phase,            \* "classify", "marshal", "done"
  at,               \* the argument that is marshalled next
  gpr, fpr,         \* the words put into x2.. and d0.. so far
  result            \* what the send gives back to Dart

marshalVars == <<method, ret, toks, phase, at, gpr, fpr, result>>

---------------------------------------------------------------------------
(* The calling convention.                                                 *)

\* How t travels: in n registers of the floats, in n of the integers, or, too
\* large for either, in memory its address points to.
Travel(t) ==
  LET l == Layout(t) IN
  IF l.void THEN [file |-> "none", n |-> 0]
  ELSE IF l.width # 0 /\ l.regs <= 4 THEN [file |-> "d", n |-> l.regs]
  ELSE IF ~l.agg THEN [file |-> "x", n |-> 1]
  ELSE [file |-> IF l.size <= 16 THEN "x" ELSE "mem", n |-> (l.size + 7) \div 8]

\* The words of the first a arguments of m that travel in one register file, in
\* order: word j of argument a is <<a, j>>.
StreamTo(m, file) ==
  LET words(a) == [j \in 1 .. Travel(m.args[a]).n |-> <<a, j>>]
      all[a \in 0 .. Len(m.args)] ==
        IF a = 0 THEN <<>>
        ELSE IF Travel(m.args[a]).file = file THEN all[a - 1] \o words(a) ELSE all[a - 1]
  IN  all
Stream(m, file) == StreamTo(m, file)[Len(m.args)]

\* What the fixed shape of the send can carry: six integer registers after self
\* and _cmd, eight float registers, nothing in memory.  Not carried either are
\* floats of four bytes, which the send writes and reads as doubles, and unions
\* of floats, whose members are counted as if they lay side by side.
Carried(t) ==
  /\ Layout(t).sized
  /\ Travel(t).file \in {"x", "d"}
  /\ Layout(t).width # 0 => Layout(t).width = 64 /\ ~Layout(t).union
InShape(m) ==
  /\ \A a \in DOMAIN m.args : Carried(m.args[a])
  /\ Layout(m.ret).void \/ Carried(m.ret)
  /\ Len(Stream(m, "x")) <= 6
  /\ Len(Stream(m, "d")) <= 8

---------------------------------------------------------------------------
(* Tokens (cocoa_abi.h, cocoa_abi.cc).                                     *)

\* TOK_HFA | k is [c |-> "h", k |-> k], TOK_INT | n is [c |-> "i", k |-> n].
Token == [c : {"g", "f", "v", "b", "s", "?", "*", "@", "h", "i"}, k : Nat]
Tok(c) == [c |-> c, k |-> 0]

\* Mutant of TokenOf: an aggregate of exactly two words is taken for a large one.
TokenOfBelow16(t, isRet) ==
  IF t.kind = "AGG" /\ t.hfaN \notin 1 .. 4 /\ t.size = 16 THEN Tok(IF isRet THEN "s" ELSE "b")
  ELSE IF t.kind = "AGG" /\ t.hfaN \in 1 .. 4 THEN [c |-> "h", k |-> t.hfaN]
  ELSE IF t.kind = "AGG" THEN [c |-> "i", k |-> (t.size + 7) \div 8]
  ELSE IF t.kind = "FLOAT" THEN Tok("f") ELSE IF t.kind = "VOID" THEN Tok("v") ELSE Tok("g")

TokenOf(t, isRet) ==
  CASE t.kind = "FLOAT"                         -> Tok("f")
    [] t.kind \in {"SCALAR", "PTR", "BITFIELD"} -> Tok("g")
    [] t.kind = "CSTR"                          -> Tok("*")
    [] t.kind = "OBJ"                           -> Tok("@")
    [] t.kind = "VOID"                          -> IF isRet THEN Tok("v") ELSE Tok("?")
    [] t.kind = "UNKNOWN"                       -> Tok("?")
    [] t.kind = "AGG" ->
         IF t.hfaN \in 1 .. 4 THEN [c |-> "h", k |-> t.hfaN]
         ELSE IF t.size = 0 THEN Tok("?")
         ELSE IF t.size <= 16 THEN [c |-> "i", k |-> (t.size + 7) \div 8]
         ELSE IF isRet THEN Tok("s") ELSE Tok("b")

\* What there is to measure of t, taken for a type of this kind.
Measured(kind, t) ==
  [kind |-> kind, size |-> Layout(t).size,
   hfaN |-> IF Layout(t).width # 0 THEN Layout(t).regs ELSE 0]
KindsOf(t) ==
  IF Layout(t).void THEN {"VOID"}
  ELSE IF Layout(t).agg THEN {"AGG"}
  ELSE IF Layout(t).width # 0 THEN {"FLOAT"}
  ELSE {"SCALAR", "PTR", "CSTR", "OBJ"}

\* The tokens r and ts are those of the types of m, each measured right.
Told(m, r, ts) ==
  /\ \E kind \in KindsOf(m.ret) : r = TokenOf(Measured(kind, m.ret), TRUE)
  /\ Len(ts) = Len(m.args)
  /\ \A a \in DOMAIN m.args :
       \E kind \in KindsOf(m.args[a]) : ts[a] = TokenOf(Measured(kind, m.args[a]), FALSE)

---------------------------------------------------------------------------
(* ClassifyMethod, as far as the send relies on it: it writes into ret and *)
(* toks as it goes, and when it is through with a method that the send can *)
(* carry the tokens are right.                                             *)

Unsent ==
  /\ method \in Methods
  /\ ret = Tok("?") /\ toks = <<>>
  /\ phase = "classify"
  /\ at = 1 /\ gpr = <<>> /\ fpr = <<>>
  /\ result = <<>>

Classify ==
  /\ phase = "classify"
  /\ ret' \in Token /\ toks' \in Seq(Token)
  /\ phase' \in {"classify", "marshal", "done"}
  /\ InShape(method) => phase' # "done" /\ (phase' = "marshal" => Told(method, ret', toks'))
  /\ UNCHANGED <<method, at, gpr, fpr, result>>

---------------------------------------------------------------------------
(* Cocoa_send: an argument a turn, then the send, then the result.         *)

Marshalling(cs) == phase = "marshal" /\ at <= Len(toks) /\ toks[at].c \in cs
Marshalled ==
  /\ at' = at + 1
  /\ UNCHANGED <<method, ret, toks, phase, result>>

\* The first k words of argument `at`, as many as the file still has room for.
Put(file, k, room) ==
  file \o [j \in 1 .. Min({k, room - Len(file)}) |-> <<at, j>>]

MarshalFloat ==
  /\ Marshalling({"f"})
  /\ fpr' = Put(fpr, 1, 8) /\ UNCHANGED gpr /\ Marshalled
MarshalHfa ==
  /\ Marshalling({"h"})
  /\ fpr' = Put(fpr, toks[at].k, 8) /\ UNCHANGED gpr /\ Marshalled
MarshalInts ==
  /\ Marshalling({"i"})
  /\ gpr' = Put(gpr, toks[at].k, 6) /\ UNCHANGED fpr /\ Marshalled
MarshalWord ==     \* an int, a bool, nil, an NSString or a C string; "b" too
  /\ Marshalling({"g", "*", "@", "?", "b"})
  /\ gpr' = Put(gpr, 1, 6) /\ UNCHANGED fpr /\ Marshalled

\* The kind of return the shim casts to.
RetKind ==
  CASE ret.c = "v"                  -> [file |-> "none", n |-> 0]
    [] ret.c = "f"                  -> [file |-> "d", n |-> 1]
    [] ret.c = "h"                  -> [file |-> "d", n |-> IF ret.k <= 2 THEN ret.k ELSE 4]
    [] ret.c = "i" /\ ret.k >= 2    -> [file |-> "x", n |-> 2]
    [] OTHER                        -> [file |-> "x", n |-> 1]

\* The callee leaves word j of its result in register j of the file it travels
\* in; whatever else the shim reads is not of the result (0).
Send ==
  /\ phase = "marshal" /\ at > Len(toks)
  /\ phase' = "done"
  /\ LET left == Travel(method.ret)
     IN  result' = [j \in 1 .. RetKind.n |->
                      IF RetKind.file = left.file /\ j <= left.n THEN j ELSE 0]
  /\ UNCHANGED <<method, ret, toks, at, gpr, fpr>>

MarshalNext ==
  \/ Classify
  \/ MarshalFloat \/ MarshalHfa \/ MarshalInts \/ MarshalWord
  \/ Send

MarshalSpec == Unsent /\ [][MarshalNext]_marshalVars

---------------------------------------------------------------------------
(* Properties.                                                             *)

\* Each word of each argument is where the callee reads it, nothing before it
\* and nothing left out (one token wrong shifts every later argument of its
\* register file), and the result is read from the registers the callee leaves
\* it in, all of it (Cocoa_send, macdart_objc_send; a result of three doubles
\* comes back as a list of four).
SendArrives ==
  phase = "done" /\ InShape(method) =>
    /\ gpr = Stream(method, "x") /\ fpr = Stream(method, "d")
    /\ Len(result) >= Travel(method.ret).n
    /\ \A j \in 1 .. Travel(method.ret).n : result[j] = j
============================================================================
