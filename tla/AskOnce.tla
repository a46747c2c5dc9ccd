------------------------------ MODULE AskOnce ------------------------------
(***************************************************************************)
(* What ask() promises its callers, whatever happens to the language       *)
(* isolate: a request ends at most once, in one of three ways.             *)
(*   refused   it was never run                                            *)
(*   answered  it was run exactly once                                     *)
(*   gaveUp    it was run at most once, perhaps after the caller was told  *)
(***************************************************************************)
EXTENDS Naturals

CONSTANT Requests

VARIABLES outcome, runs

TypeOK ==
    /\ outcome \in [Requests -> {"unsent", "pending", "refused", "answered", "gaveUp"}]
    /\ runs \in [Requests -> 0..1]

Init ==
    /\ outcome = [r \in Requests |-> "unsent"]
    /\ runs = [r \in Requests |-> 0]

Settle(r, from, to) ==
    /\ outcome[r] = from
    /\ outcome' = [outcome EXCEPT ![r] = to]

Refuse(r) == Settle(r, "unsent", "refused") /\ UNCHANGED runs

Send(r) == Settle(r, "unsent", "pending") /\ UNCHANGED runs

Run(r) ==
    /\ outcome[r] \in {"pending", "gaveUp"}
    /\ runs[r] = 0
    /\ runs' = [runs EXCEPT ![r] = 1]
    /\ UNCHANGED outcome

Answer(r) ==
    /\ runs[r] = 1
    /\ Settle(r, "pending", "answered")
    /\ UNCHANGED runs

\* One event of the language isolate can end several requests at once: the caller
\* that waits for a restart and those that only learn of it.
GiveUp ==
    /\ \E R \in SUBSET {r \in Requests : outcome[r] = "pending"} :
          outcome' = [r \in Requests |-> IF r \in R THEN "gaveUp" ELSE outcome[r]]
    /\ UNCHANGED runs

Next ==
    \/ \E r \in Requests : Refuse(r) \/ Send(r) \/ Run(r) \/ Answer(r)
    \/ GiveUp

Spec == Init /\ [][Next]_<<outcome, runs>>

=============================================================================
