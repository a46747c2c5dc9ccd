------------------------------- MODULE MCAbi -------------------------------
(* Instance of Abi for TLC: the types the workspace's sends meet (Point,    *)
(* Rect and Range among them) and one of each way a layout can go wrong.    *)
EXTENDS Abi

RECURSIVE EncodeOf(_), EncodeAll(_)
EncodeAll(ts) == IF ts = <<>> THEN <<>> ELSE EncodeOf(ts[1]) \o EncodeAll(Tail(ts))
EncodeOf(t) ==
  CASE t.k = "prim"   -> <<Ch(t.c)>>
    [] t.k = "ptr"    -> <<Ch("^")>> \o EncodeOf(t.e)
    [] t.k \in {"struct", "union"} ->
         <<Ch(Opener(t)), Ch("tag"), Ch("=")>> \o EncodeAll(t.m) \o <<Ch(Closer(t))>>
    [] t.k = "array"  -> <<Ch("["), Num(t.len)>> \o EncodeOf(t.e) \o <<Ch("]")>>
    [] t.k = "const"  -> <<Ch("r")>> \o EncodeOf(t.e)
    [] t.k = "bits"   -> <<Ch("b"), Num(t.b)>>
    [] t.k = "object" -> <<Ch("@"), Ch("name")>>
    [] t.k = "block"  -> <<Ch("@"), Ch("?"), Ch("sig")>>
    [] t.k = "opaque" -> <<Ch("{"), Ch("tag"), Ch("}")>>

\* The widths of what t is made of, 0 for what is no float.
RECURSIVE Widths(_), LayoutOf(_)
Widths(t) ==
  CASE t.k \in {"struct", "union"} -> UNION {Widths(t.m[i]) : i \in DOMAIN t.m}
    [] t.k \in {"array", "const"}  -> Widths(t.e)
    [] t.k = "prim" /\ t.c \in Floats -> {8 * ScalarSize[t.c]}
    [] OTHER -> {0}
LayoutOf(t) ==
  CASE t.k = "prim" -> IF t.c \in Floats THEN [Simple(ScalarSize[t.c]) EXCEPT !.width = 8 * ScalarSize[t.c]]
                       ELSE IF t.c \in DOMAIN ScalarSize THEN Simple(ScalarSize[t.c])
                       ELSE IF t.c \in {"v", "?"} THEN [Unsized EXCEPT !.void = (t.c = "v")]
                       ELSE Simple(8)
    [] t.k \in {"ptr", "object", "block"} -> Simple(8)
    [] t.k \in {"opaque", "bits"} -> Unsized
    [] t.k = "const" -> LayoutOf(t.e)
    [] t.k = "array" ->
         LET l == LayoutOf(t.e)
         IN  [l EXCEPT !.void = FALSE, !.agg = TRUE, !.regs = t.len * @, !.size = t.len * RoundUp(@, l.align)]
    [] t.k \in {"struct", "union"} ->
         LET l == [i \in DOMAIN t.m |-> LayoutOf(t.m[i])]
             align == Max({l[i].align : i \in DOMAIN l})
             end[i \in 0 .. Len(l)] ==
               IF i = 0 THEN 0 ELSE RoundUp(end[i - 1], l[i].align) + l[i].size
         IN  [void |-> FALSE, agg |-> TRUE,
              union |-> t.k = "union" \/ \E i \in DOMAIN l : l[i].union,
              sized |-> \A i \in DOMAIN l : l[i].sized,
              width |-> IF Cardinality(Widths(t)) = 1 THEN CHOOSE w \in Widths(t) : TRUE ELSE 0,
              regs  |-> IF t.k = "struct" THEN MapThenSumSet(LAMBDA i : l[i].regs, DOMAIN l)
                        ELSE Max({l[i].regs : i \in DOMAIN l}),
              align |-> align,
              size  |-> RoundUp(IF t.k = "struct" THEN end[Len(l)] ELSE Max({l[i].size : i \in DOMAIN l}),
                                align)]

RECURSIVE Parts(_)
Parts(t) ==
  {t} \union CASE t.k \in {"struct", "union"} -> UNION {Parts(t.m[i]) : i \in DOMAIN t.m}
               [] t.k \in {"ptr", "array", "const"} -> Parts(t.e)
               [] OTHER -> {}

Point == Struct(<<Prim("d"), Prim("d")>>)
Rect  == Struct(<<Point, Point>>)
NSRange == Struct(<<Prim("Q"), Prim("Q")>>)

MCTypes ==
  {Prim(c) : c \in {"q", "i", "c", "d", "f", "*", "#", ":"}}
  \union {Object, Block, Pointer(Prim("v")), Pointer(Opaque), Const(Pointer(Const(Prim("c"))))}
  \union {Point, Rect, NSRange,
          Struct(<<Prim("c"), Prim("i")>>),                         \* padded inside
          Struct(<<Prim("q"), Prim("c")>>),                         \* padded at the end
          Struct(<<Struct(<<Prim("q"), Prim("c")>>), Prim("c")>>),  \* three words
          Struct(<<Prim("f"), Prim("d")>>),                         \* two widths
          Struct(<<Prim("d"), Prim("i")>>),                         \* not only floats
          Struct(<<Prim("f"), Prim("f")>>),
          Struct(<<Array(3, Prim("d"))>>),
          Struct(<<Array(2, Point)>>),
          Struct(<<Array(5, Prim("d"))>>),                          \* too many floats
          Struct(<<Array(3, Prim("i")), Prim("c")>>),
          Struct(<<Bits(3), Bits(9)>>),
          Struct(<<UnionOf(<<Prim("q"), Prim("d")>>), Pointer(Opaque)>>),
          UnionOf(<<Prim("d"), Prim("d")>>)}

AllTypes == UNION {Parts(t) : t \in MCTypes \union {Prim("@"), Prim(":"), Prim("v")}}

\* The layouts and the encodings, each found once.
Layouts   == [t \in AllTypes |-> LayoutOf(t)]
Encodings == [t \in AllTypes |-> EncodeOf(t)]
MCLayout(t) == Layouts[t]
MCEncode(t) == Encodings[t]

Few == {Prim("q"), Prim("d"), Point, Rect, NSRange}

MCMethods ==
  [ret : MCTypes \union {Prim("v")}, args : {<<>>} \union {<<t>> : t \in MCTypes}]
  \union [ret : {Prim("v")}, args : MCTypes \X MCTypes]
  \union [ret : {Prim("@")}, args : (Few \X Few \X Few) \union (Few \X Few \X Few \X Few)]
============================================================================
