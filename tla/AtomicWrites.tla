--------------------------- MODULE AtomicWrites ---------------------------
(***************************************************************************)
(* What Db.exec promises the programs that write declarations, whoever     *)
(* else has the image open and whatever is refused, fails or crashes: a    *)
(* write happens at one instant of its call, or not at all.                *)
(*   done      (answered "") it happened, once                             *)
(*   refused   (answered "ERR: ...") it did not and will not               *)
(*   nothing   its program ended first: it may have happened, not later    *)
(***************************************************************************)
CONSTANTS Programs, Names, Texts, Null, NoRow

VARIABLES
  rows,             \* name -> [source, comment] or NoRow
  write             \* of each program: [is, of]

Writes == [op : {"upsert", "comment"}, name : Names, text : Texts] \union [op : {"delete"}, name : Names]

None == [is |-> "none"]

\* The row of a name after a write of it.
After(w, row) ==
  CASE w.op = "delete"  -> NoRow
    [] w.op = "upsert"  -> [source |-> w.text, comment |-> Null]
    [] w.op = "comment" -> IF row = NoRow THEN NoRow ELSE [source |-> row.source, comment |-> w.text]

Init == rows = [n \in Names |-> NoRow] /\ write = [p \in Programs |-> None]

Becomes(p, is, w) == write' = [write EXCEPT ![p] = [is |-> is, of |-> w]]

Free(p) == write[p].is \in {"none", "done", "refused"}

Call(p, w) == Free(p) /\ Becomes(p, "called", w) /\ UNCHANGED rows

\* Refused before it began.
Refuse(p, w) == Free(p) /\ Becomes(p, "refused", w) /\ UNCHANGED rows

Happen(p) ==
  /\ write[p].is = "called"
  /\ LET w == write[p].of IN
     /\ rows' = [n \in Names |-> IF n = w.name THEN After(w, rows[n]) ELSE rows[n]]
     /\ Becomes(p, "happened", w)

Answer(p) ==
  /\ \/ write[p].is = "happened" /\ Becomes(p, "done", write[p].of)
     \/ write[p].is = "called" /\ Becomes(p, "refused", write[p].of)
  /\ UNCHANGED rows

\* The program ends, or goes on to something else.
Leave(p) == write' = [write EXCEPT ![p] = None] /\ UNCHANGED rows

Next ==
  \E p \in Programs :
    \/ \E w \in Writes : Call(p, w) \/ Refuse(p, w)
    \/ Happen(p) \/ Answer(p) \/ Leave(p)

Spec == Init /\ [][Next]_<<rows, write>>
===========================================================================
