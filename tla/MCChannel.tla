----------------------------- MODULE MCChannel -----------------------------
(* Two requests, and room for every respawn that they and the mishaps can    *)
(* cause, so the bound on generations never holds one back.                  *)
EXTENDS Channel

MCMaxGens == 1 + Cardinality(Requests) + MaxMishaps

\* Requests are alike: it is enough that a certain one is made first.  No fairness is
\* on making them.
First == CHOOSE r \in Requests : TRUE
MCInOrder == ask[First].st = "unsent" => \A r \in Requests : ask[r].st = "unsent"

=============================================================================
