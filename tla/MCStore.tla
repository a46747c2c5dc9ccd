------------------------------ MODULE MCStore ------------------------------
(* Instance of Store for TLC: two programs, two declarations.                *)
EXTENDS Store, TLC

MCOrder == <<"Ball", "Court">>
MCSymmetry == Permutations(Programs) \union Permutations(Texts)
============================================================================
