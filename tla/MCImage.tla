------------------------------ MODULE MCImage ------------------------------
(***************************************************************************)
(* A small image: a class A, a variable x, and a name kw that is a Dart    *)
(* keyword (`var kw;` is a syntax error).                                  *)
(*   a1        a version of class A that loads                             *)
(*   bad       a text the parser refuses                                   *)
(*   usesA     a declaration (of x) that loads only where A is declared    *)
(*   nul, lit  `var x;` and `var x = 1;`                                   *)
(* The last batch declares x twice, as a getter and a setter of x do.      *)
(***************************************************************************)
EXTENDS Image

A == "A"
x == "x"
kw == "kw"
D(n, s) == [name |-> n, source |-> s]

MCNames == {A, x, kw}
MCClassNames == {A}
MCSources == {"a1", "bad", "usesA", "nul", "lit"}
MCVarSources == {"nul", "lit"}
MCLoadable ==
    {w \in [MCNames -> MCSources \cup {"none"}] :
        /\ w[kw] = "none"
        /\ \A n \in MCNames : w[n] # "bad"
        /\ w[x] = "usesA" => w[A] # "none"}
MCBatches ==
    {<<D(A, "a1")>>,
     <<D(A, "a1"), D(x, "usesA")>>, <<D(x, "lit"), D(A, "bad")>>,
     <<D(x, "lit"), D(x, "usesA")>>}

=============================================================================
