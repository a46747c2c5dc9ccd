-------------------------------- MODULE Abi --------------------------------
(***************************************************************************)
(* How ClassifyMethod finds the tokens: it reads the type encoding of the  *)
(* method (cocoa_abi.cc).  With the send of Marshal this is a whole send,  *)
(* and it implements Marshal: the tokens it finds are those of types       *)
(* measured right.                                                         *)
(*                                                                         *)
(* A type is a tree.  Its encoding, Encode(t), is a sequence of characters *)
(* [c, n]: a character of the text the Objective-C runtime gives, or one   *)
(* that stands for a run of digits ("num", of value n), a quoted name      *)
(* ("name"), the tag of a struct or union ("tag"), the signature of a      *)
(* block in angle brackets ("sig").  What the runtime writes and what the  *)
(* calling convention makes of a type are stated over the tree, as rules   *)
(* that Encode and Layout obey.                                            *)
(*                                                                         *)
(* ParseType, ParseAgg and ParseArray call each other; their calls are the *)
(* frames of `stack`, one step for each thing they take from the text.     *)
(***************************************************************************)
EXTENDS Marshal

CONSTANTS
  Types,        \* the types there are, and the types they are made of
  Encode(_)     \* the encoding of a type

---------------------------------------------------------------------------
(* Types.                                                                  *)

Prim(c)       == [k |-> "prim", c |-> c]
Pointer(t)    == [k |-> "ptr", e |-> t]
Struct(ts)    == [k |-> "struct", m |-> ts]
UnionOf(ts)   == [k |-> "union", m |-> ts]
Array(len, t) == [k |-> "array", len |-> len, e |-> t]
Const(t)      == [k |-> "const", e |-> t]
Bits(b)       == [k |-> "bits", b |-> b]
Object        == [k |-> "object"]     \* id with a class name
Block         == [k |-> "block"]
Opaque        == [k |-> "opaque"]     \* a struct known by name only

ScalarSize ==
  [c |-> 1, C |-> 1, B |-> 1, s |-> 2, S |-> 2, i |-> 4, I |-> 4,
   l |-> 8, L |-> 8, q |-> 8, Q |-> 8, f |-> 4, d |-> 8, D |-> 8]
Floats == {"f", "d", "D"}

\* Only a pointer or a qualifier comes before "?", the type of a function.
Known == Types \ {Prim("?")}

IsType(t) ==
  \/ t.k = "prim" /\ t = Prim(t.c) /\ t.c \in DOMAIN ScalarSize \union {"@", "#", "*", ":", "v", "?"}
  \/ t.k \in {"ptr", "const"} /\ t.e \in Types
  \/ t.k \in {"struct", "union"} /\ t.m \in Seq(Known) /\ t.m # <<>>
  \/ t.k = "array" /\ t.len \in Nat \ {0} /\ t.e \in Known
  \/ t.k = "bits" /\ t.b \in Nat
  \/ t.k \in {"object", "block", "opaque"}

---------------------------------------------------------------------------
(* What the runtime writes.                                                *)

Letters ==
  DOMAIN ScalarSize
    \union {"@", "#", "*", ":", "v", "?", "^", "{", "}", "(", ")", "[", "]", "=", "b", "r"}
    \union {"num", "name", "tag", "sig"}
Chars == [c : Letters, n : Nat]
Ch(c)  == [c |-> c, n |-> 0]
Num(n) == [c |-> "num", n |-> n]

Opener(t) == IF t.k = "struct" THEN "{" ELSE "("
Closer(t) == IF t.k = "struct" THEN "}" ELSE ")"

\* The text of t from its last k members on.
Members(t) ==
  LET text[k \in 0 .. Len(t.m)] ==
        IF k = 0 THEN <<Ch(Closer(t))>> ELSE Encode(t.m[Len(t.m) + 1 - k]) \o text[k - 1]
  IN  text

EncodingRule(t) ==
  Encode(t) =
    CASE t.k = "prim"   -> <<Ch(t.c)>>
      [] t.k = "ptr"    -> <<Ch("^")>> \o Encode(t.e)
      [] t.k \in {"struct", "union"} -> <<Ch(Opener(t)), Ch("tag"), Ch("=")>> \o Members(t)[Len(t.m)]
      [] t.k = "array"  -> <<Ch("["), Num(t.len)>> \o (Encode(t.e) \o <<Ch("]")>>)
      [] t.k = "const"  -> <<Ch("r")>> \o Encode(t.e)
      [] t.k = "bits"   -> <<Ch("b"), Num(t.b)>>
      [] t.k = "object" -> <<Ch("@"), Ch("name")>>
      [] t.k = "block"  -> <<Ch("@"), Ch("?"), Ch("sig")>>
      [] t.k = "opaque" -> <<Ch("{"), Ch("tag"), Ch("}")>>

\* A method's encoding is its result, self, _cmd and the arguments, each with a
\* number after it: the size of the frame, then the offsets in it.
Arity(m) == Len(m.args) + 3
TypeAt(m, i) ==
  CASE i = 1 -> m.ret [] i = 2 -> Prim("@") [] i = 3 -> Prim(":") [] OTHER -> m.args[i - 3]

\* The encoding of m from its last k types on.
Encoding(m) ==
  LET text[k \in 0 .. Arity(m)] ==
        IF k = 0 THEN <<>>
        ELSE Encode(TypeAt(m, Arity(m) + 1 - k)) \o (<<Num(8 * k)>> \o text[k - 1])
  IN  text

---------------------------------------------------------------------------
(* What the calling convention makes of a type.                            *)

RoundUp(x, a) == IF a <= 1 THEN x ELSE ((x + a - 1) \div a) * a

Simple(size) ==
  [void |-> FALSE, agg |-> FALSE, union |-> FALSE, sized |-> TRUE, width |-> 0,
   regs |-> 1, size |-> size, align |-> size]
Unsized == [Simple(8) EXCEPT !.sized = FALSE]

\* The bytes and the registers of the first i members of a struct.
StructEnd(t) ==
  LET end[i \in 0 .. Len(t.m)] ==
        IF i = 0 THEN 0
        ELSE RoundUp(end[i - 1], Layout(t.m[i]).align) + Layout(t.m[i]).size
  IN  end
StructRegs(t) ==
  LET sum[i \in 0 .. Len(t.m)] == IF i = 0 THEN 0 ELSE sum[i - 1] + Layout(t.m[i]).regs
  IN  sum

IsLargest(x, S) == x \in S /\ \A y \in S : y <= x

MembersRule(t) ==
  LET l == Layout(t)
      Of(i) == Layout(t.m[i])
  IN  /\ l.agg /\ ~l.void
      /\ l.sized <=> \A i \in DOMAIN t.m : Of(i).sized
      /\ l.union <=> t.k = "union" \/ \E i \in DOMAIN t.m : Of(i).union
      /\ \A w \in {32, 64} : l.width = w <=> \A i \in DOMAIN t.m : Of(i).width = w
      /\ IsLargest(l.align, {Of(i).align : i \in DOMAIN t.m})
      /\ t.k = "struct" => /\ l.size = RoundUp(StructEnd(t)[Len(t.m)], l.align)
                           /\ l.regs = StructRegs(t)[Len(t.m)]
      /\ t.k = "union" => \E size \in {Of(i).size : i \in DOMAIN t.m} :
                            /\ IsLargest(size, {Of(i).size : i \in DOMAIN t.m})
                            /\ l.size = RoundUp(size, l.align)

\* Neither void, nor a struct known by name only, nor a bit-field, which the
\* convention packs with its neighbours, has a size of its own.
LayoutRule(t) ==
  /\ IsLayout(Layout(t))
  /\ t.k = "prim" =>
       Layout(t) = CASE t.c \in Floats -> [Simple(ScalarSize[t.c]) EXCEPT !.width = 8 * ScalarSize[t.c]]
                     [] t.c \in DOMAIN ScalarSize \ Floats -> Simple(ScalarSize[t.c])
                     [] t.c = "v" -> [Unsized EXCEPT !.void = TRUE]
                     [] t.c = "?" -> Unsized
                     [] OTHER     -> Simple(8)
  /\ t.k \in {"ptr", "object", "block"} => Layout(t) = Simple(8)
  /\ t.k \in {"opaque", "bits"} => Layout(t) = Unsized
  /\ t.k = "const" => Layout(t) = Layout(t.e)
  /\ t.k \in {"struct", "union"} => MembersRule(t)
  /\ t.k = "array" =>
       LET l == Layout(t.e)
       IN  Layout(t) = [void |-> FALSE, agg |-> TRUE, union |-> l.union, sized |-> l.sized,
                        width |-> l.width, regs |-> t.len * l.regs,
                        size |-> t.len * RoundUp(l.size, l.align), align |-> l.align]

ASSUME AbiAssumption ==
  /\ \A t \in Types : IsType(t) /\ Encode(t) \in Seq(Chars) /\ EncodingRule(t) /\ LayoutRule(t)
  /\ Prim("@") \in Types /\ Prim(":") \in Types
  /\ \A m \in Methods : m.ret \in Known /\ m.args \in Seq(Known)

---------------------------------------------------------------------------
(* ClassifyMethod (cocoa_abi.cc).                                          *)

VARIABLES
  text,             \* what is left of the encoding of `method`
  idx,              \* types read: 0 is the result, 1 self, 2 _cmd
  stack,            \* the calls under way, each with the character that ends it
  got               \* the type that was read last, until it is used

abiVars == <<marshalVars, text, idx, stack, got>>

TI(kind, size) == [kind |-> kind, size |-> size, align |-> IF size = 0 THEN 1 ELSE size,
                   hfaW |-> 0, hfaN |-> 0]
UnknownType == TI("UNKNOWN", 0)
Nothing     == TI("NOTHING", 0)

ScalarInfo(c) ==
  IF c \in Floats
  THEN LET size == ScalarSize[c]
       IN  [kind |-> "FLOAT", size |-> size, align |-> size, hfaW |-> 8 * size, hfaN |-> 1]
  ELSE TI("SCALAR", ScalarSize[c])

\* Mutant of MergeHfa: floats of any width together.
MergeHfaAnyWidth(acc, f) == f.hfaN # 0

\* acc is what ParseAgg has gathered of the fields read so far; f goes with them
\* as a float if it is of floats, and of the same width.
MergeHfa(acc, f) == f.hfaN # 0 /\ (acc.n = 0 \/ acc.w = f.hfaW)

NoFields == [fields |-> 0, align |-> 1, size |-> 0, ok |-> TRUE, w |-> 0, n |-> 0]

AddField(acc, f, close) ==
  LET fa == IF f.align < 1 THEN 1 ELSE f.align
      ok == acc.ok /\ MergeHfa(acc, f)
  IN  [fields |-> acc.fields + 1,
       align  |-> IF fa > acc.align THEN fa ELSE acc.align,
       size   |-> IF close # ")" THEN RoundUp(acc.size, fa) + f.size
                  ELSE IF f.size > acc.size THEN f.size ELSE acc.size,
       ok     |-> ok,
       w      |-> IF ok THEN f.hfaW ELSE acc.w,
       n      |-> IF ok THEN acc.n + f.hfaN ELSE acc.n]

AggOf(acc) ==
  IF acc.fields = 0 THEN UnknownType
  ELSE [kind |-> "AGG", size |-> RoundUp(acc.size, acc.align), align |-> acc.align,
        hfaW |-> IF acc.ok THEN acc.w ELSE 0, hfaN |-> IF acc.ok THEN acc.n ELSE 0]

ArrayOf(len, elem) ==
  LET ea == IF elem.align < 1 THEN 1 ELSE elem.align
  IN  [kind |-> "AGG", size |-> RoundUp(elem.size, ea) * len, align |-> ea,
       hfaW |-> elem.hfaW, hfaN |-> elem.hfaN * len]

At(n)  == IF n <= Len(text) THEN text[n].c ELSE "end"
Eat(n) == text' = SubSeq(text, n + 1, Len(text))

Enter(close, len) == stack' = Append(stack, [close |-> close, len |-> len, acc |-> NoFields])
Top      == stack[Len(stack)]
Answer(t) == got' = t /\ stack' = SubSeq(stack, 1, Len(stack) - 1)
InFields == stack # <<>> /\ Top.close \in {"}", ")"}

AbiInit == Unsent /\ text = Encoding(method)[Arity(method)] /\ idx = 0 /\ stack = <<>> /\ got = Nothing

Parsing == phase = "classify" /\ UNCHANGED <<marshalVars, idx>>

\* What is passed over where a type may begin: qualifiers, the names of fields
\* and, between the types of the method, numbers.
Skipped ==
  {"r", "n", "N", "o", "O", "R", "V"} \union (IF InFields THEN {"name"} ELSE {})
    \union (IF stack = <<>> THEN {"num"} ELSE {})
Ending == IF InFields THEN {Top.close, "end"} ELSE IF stack = <<>> THEN {"end"} ELSE {}

Skip ==
  /\ Parsing /\ got = Nothing
  /\ At(1) \in Skipped /\ Eat(1)
  /\ UNCHANGED <<stack, got>>

\* ParseType is called.
AtType(cs) == Parsing /\ got = Nothing /\ At(1) \notin Skipped \union Ending /\ At(1) \in cs

OpenPointer == AtType({"^"}) /\ Enter("^", 0) /\ Eat(1) /\ UNCHANGED got
OpenFields ==
  /\ AtType({"{", "("}) /\ At(3) = "="
  /\ Enter(IF At(1) = "{" THEN "}" ELSE ")", 0) /\ Eat(3)
  /\ UNCHANGED got
NameOnly ==
  /\ AtType({"{", "("}) /\ At(3) # "="
  /\ Eat(IF At(3) = IF At(1) = "{" THEN "}" ELSE ")" THEN 3 ELSE 2)
  /\ got' = UnknownType /\ UNCHANGED stack
OpenArray ==
  /\ AtType({"["})
  /\ IF At(2) = "num" THEN Enter("]", text[2].n) /\ Eat(2) ELSE Enter("]", 0) /\ Eat(1)
  /\ UNCHANGED got

\* A type that is no more than a few characters: what it is, and how many.
LeafInfo ==
  LET c == At(1) IN
  CASE c \in DOMAIN ScalarSize -> ScalarInfo(c)
    [] c = "b" -> LET bits == IF At(2) = "num" THEN text[2].n ELSE 0
                  IN  [TI("BITFIELD", IF bits = 0 THEN 1 ELSE (bits + 7) \div 8) EXCEPT !.align = 1]
    [] c \in {"@", "#"} -> TI("OBJ", 8)
    [] c = "*" -> TI("CSTR", 8)
    [] c = ":" -> TI("PTR", 8)
    [] c = "v" -> TI("VOID", 0)
    [] OTHER   -> UnknownType
LeafLength ==
  CASE At(1) = "end" -> 0
    [] At(1) = "b" /\ At(2) = "num" -> 2
    [] At(1) = "@" /\ At(2) = "name" -> 2
    [] At(1) = "@" /\ At(2) = "?" -> IF At(3) = "sig" THEN 3 ELSE 2
    [] OTHER -> 1
Leaf ==
  /\ AtType({At(1)} \ {"^", "{", "(", "["})
  /\ got' = LeafInfo /\ Eat(LeafLength)
  /\ UNCHANGED stack

ClosePointer ==
  /\ Parsing /\ got # Nothing /\ stack # <<>> /\ Top.close = "^"
  /\ Answer(TI("PTR", 8)) /\ UNCHANGED text
CloseArray ==
  /\ Parsing /\ got # Nothing /\ stack # <<>> /\ Top.close = "]"
  /\ Answer(ArrayOf(Top.len, got)) /\ Eat(IF At(1) = "]" THEN 1 ELSE 0)
NextField ==
  /\ Parsing /\ got # Nothing /\ InFields
  /\ stack' = [stack EXCEPT ![Len(stack)].acc = AddField(@, got, Top.close)]
  /\ got' = Nothing /\ UNCHANGED text
CloseFields ==
  /\ Parsing /\ got = Nothing /\ InFields /\ At(1) \in Ending
  /\ Answer(AggOf(Top.acc)) /\ Eat(IF At(1) = "end" THEN 0 ELSE 1)

\* Back in ClassifyMethod, with a type, and at the end of the text.  (Its sixteen
\* tokens are more than the fourteen registers of a send.)
ReadType ==
  /\ phase = "classify" /\ got # Nothing /\ stack = <<>>
  /\ ret' = IF idx = 0 THEN TokenOf(got, TRUE) ELSE ret
  /\ toks' = IF idx >= 3 THEN Append(toks, TokenOf(got, FALSE)) ELSE toks
  /\ got' = Nothing /\ idx' = idx + 1
  /\ UNCHANGED <<method, phase, at, gpr, fpr, result, text, stack>>
ReadEnd ==
  /\ phase = "classify" /\ got = Nothing /\ stack = <<>> /\ At(1) = "end"
  /\ phase' = IF idx < 3 THEN "done" ELSE "marshal"
  /\ UNCHANGED <<method, ret, toks, at, gpr, fpr, result, text, idx, stack, got>>

ClassifyMethod ==
  \/ Skip
  \/ OpenPointer \/ OpenFields \/ NameOnly \/ OpenArray \/ Leaf
  \/ ClosePointer \/ CloseArray \/ NextField \/ CloseFields
  \/ ReadType \/ ReadEnd

CocoaSend ==
  /\ MarshalFloat \/ MarshalHfa \/ MarshalInts \/ MarshalWord \/ Send
  /\ UNCHANGED <<text, idx, stack, got>>

AbiNext == ClassifyMethod \/ CocoaSend

AbiSpec == AbiInit /\ [][AbiNext]_abiVars

---------------------------------------------------------------------------
(* Properties.                                                             *)

\* Whatever the nesting, padding, qualifiers and offsets of an encoding, when
\* ClassifyMethod comes to its end the tokens are those of the result and of the
\* arguments, each measured as the calling convention does; a method that the
\* send can carry is never refused (ClassifyMethod, ParseType, ParseAgg).
ClassifiesRight == MarshalSpec
============================================================================
