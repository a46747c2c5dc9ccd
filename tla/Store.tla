------------------------------- MODULE Store -------------------------------
(***************************************************************************)
(* The SQLite binding (sqlite_natives.cc, class Db of cocoa.dart) and the  *)
(* statements language.dart sends through it, when several programs have   *)
(* the image open: two launches of the workspace, or the isolate that was  *)
(* killed in a native call and the one that replaces it.                   *)
(*                                                                         *)
(* A native call prepares, binds, steps and finalizes; no lock is waited   *)
(* for (there is no busy timeout), and the caller sees "", "ERR: ...", a   *)
(* list or null.  SQLite itself is external: a rollback journal, so that   *)
(* one program writes while nobody reads.                                  *)
(***************************************************************************)
EXTENDS Naturals, Sequences, FiniteSets

CONSTANTS
  Programs,
  Order,            \* the names of declarations, in the order of ORDER BY name
  Texts,            \* sources and comments
  Null, NoRow,
  MaxCalls          \* bound: native calls after the boots

Names == {Order[i] : i \in DOMAIN Order}

\* name is the primary key of decls.
ASSUME StoreAssumption ==
  /\ Order \in Seq(Names)
  /\ \A i, j \in DOMAIN Order : Order[i] = Order[j] => i = j
  /\ MaxCalls \in Nat

VARIABLES
  columns,          \* of the table decls: "none", "old" (no comment), "new"
  rows,             \* name -> [source, comment]
  pc,               \* of each program: "down", "noimage", "idle", "write",
                    \*   "commit", "end", "stepped", "read"
  boot,             \* the statements of the boot it has still to send
  stmt,             \* the statement of its native call
  lock,             \* "none", "shared", "reserved", "exclusive"
  pages,            \* of each program: the rows as its write will leave them
  rc,             \* what sqlite3_step of its write came back with
  cursor,           \* the number of names its query has passed
  list,             \* the rows its query has pushed
  answer,           \* what its last native call returned
  calls,
  (* observation only *)
  seen,             \* the rows when its query read its first
  cut               \* SQLite refused a step of its query

writing == <<pages, rc>>
reading == <<cursor, list, seen, cut>>
vars == <<columns, rows, pc, boot, stmt, lock, writing, answer, calls, reading>>

---------------------------------------------------------------------------
(* The statements of language.dart.                                        *)

Create == [op |-> "create"]
Alter  == [op |-> "alter"]
All    == [op |-> "all"]            \* SELECT name, source ... ORDER BY name
Boot   == <<Create, Alter, All>>

Requests ==
  [op : {"upsert", "comment"}, name : Names, text : Texts] \union [op : {"delete", "one"}, name : Names]

Reads(s) == s.op \in {"all", "one"}

\* INSERT OR REPLACE names four columns: the comment goes.
Effect(s, r) ==
  CASE s.op = "upsert" -> [r EXCEPT ![s.name] = [source |-> s.text, comment |-> Null]]
    [] s.op = "comment" /\ r[s.name] # NoRow -> [r EXCEPT ![s.name].comment = s.text]
    [] s.op = "delete" -> [r EXCEPT ![s.name] = NoRow]
    [] OTHER -> r

\* sqlite3_prepare_v2 knows the tables and their columns.
Prepares(s) ==
  CASE s.op = "create" -> TRUE
    [] s.op = "alter" -> columns = "old"
    [] s.op \in {"comment", "one"} -> columns = "new"
    [] OTHER -> columns # "none"

Selected(s) == IF s.op = "one" THEN {s.name} ELSE Names

\* The row pushed: each cell is text, NULL becomes "".
Pushed(s, name) ==
  IF s.op = "all" THEN <<name, rows[name].source>>
  ELSE <<IF rows[name].comment = Null THEN "" ELSE rows[name].comment>>

---------------------------------------------------------------------------
Others(p, locks) == \E q \in Programs \ {p} : lock[q] \in locks

Init ==
  /\ columns \in {"none", "old", "new"}
  /\ rows = [n \in Names |-> NoRow]
  /\ pc = [p \in Programs |-> "down"]
  /\ boot = [p \in Programs |-> <<>>] /\ stmt = [p \in Programs |-> Create]
  /\ lock = [p \in Programs |-> "none"]
  /\ pages = [p \in Programs |-> rows] /\ rc = [p \in Programs |-> "DONE"]
  /\ cursor = [p \in Programs |-> 0] /\ list = [p \in Programs |-> <<>>]
  /\ answer = [p \in Programs |-> [of |-> "none"]]
  /\ calls = 0
  /\ seen = [p \in Programs |-> rows] /\ cut = [p \in Programs |-> FALSE]

\* Db.open; on handle 0 the isolate goes on without an image.
Open(p) ==
  /\ pc[p] = "down"
  /\ \/ pc' = [pc EXCEPT ![p] = "idle"] /\ boot' = [boot EXCEPT ![p] = Boot]
     \/ pc' = [pc EXCEPT ![p] = "noimage"] /\ UNCHANGED boot
  /\ UNCHANGED <<columns, rows, stmt, lock, writing, answer, calls, reading>>

\* What was in the memory of a native call means nothing afterwards.
Forget(p) ==
  /\ pages' = [pages EXCEPT ![p] = [n \in Names |-> NoRow]]
  /\ rc' = [rc EXCEPT ![p] = "DONE"]

\* The return of a native call: the statement is finalized.
Return(p, value) ==
  /\ pc' = [pc EXCEPT ![p] = "idle"]
  /\ lock' = [lock EXCEPT ![p] = "none"]
  /\ answer' = [answer EXCEPT ![p] = value]

\* Mutant of ExecReply: a lock that was not free passes for a success.
ExecReplyBusy(result) == IF result = "ERROR" THEN "ERR" ELSE ""

ExecReply(result) == IF result \in {"DONE", "ROW"} THEN "" ELSE "ERR"

\* Sqlite_exec and Sqlite_query up to the first step.  The tables are looked up
\* in the file, unless this connection has done so before.
Call(p, s) ==
  /\ pc[p] = "idle"
  /\ IF boot[p] # <<>> THEN s = Head(boot[p]) /\ boot' = [boot EXCEPT ![p] = Tail(@)] /\ calls' = calls
     ELSE s \in Requests /\ calls < MaxCalls /\ calls' = calls + 1 /\ boot' = boot
  /\ stmt' = [stmt EXCEPT ![p] = s]
  /\ cursor' = [cursor EXCEPT ![p] = 0] /\ list' = [list EXCEPT ![p] = <<>>]
  /\ cut' = [cut EXCEPT ![p] = FALSE]
  /\ \/ /\ Prepares(s)
        /\ pc' = [pc EXCEPT ![p] = IF Reads(s) THEN "read" ELSE "write"]
        /\ UNCHANGED <<lock, answer>>
     \/ /\ ~Prepares(s) \/ Others(p, {"exclusive"})
        /\ Return(p, IF Reads(s) THEN [of |-> "null"] ELSE [of |-> "exec", reply |-> "ERR"])
  /\ UNCHANGED <<columns, rows, writing, seen>>

---------------------------------------------------------------------------
(* sqlite3_step of a write: the reserved lock, the exclusive one, the end. *)
(* It comes back with a code, and the native with an answer.               *)

Step(p, next) == pc' = [pc EXCEPT ![p] = next] /\ UNCHANGED <<boot, stmt, answer, calls, reading>>

Stepped(p, result) == Step(p, "stepped") /\ rc' = [rc EXCEPT ![p] = result]

Refused(p, state, locks) ==
  /\ pc[p] = state /\ Others(p, locks)
  /\ Stepped(p, "BUSY")
  /\ UNCHANGED <<columns, rows, lock, pages>>

\* CREATE TABLE IF NOT EXISTS of a table there is; and the others, which change
\* their pages.
StepNothing(p) ==
  /\ pc[p] = "write" /\ ~Others(p, {"reserved", "exclusive"})
  /\ stmt[p] = Create /\ columns # "none"
  /\ Stepped(p, "DONE")
  /\ UNCHANGED <<columns, rows, lock, pages>>

StepWrite(p) ==
  /\ pc[p] = "write" /\ ~Others(p, {"reserved", "exclusive"})
  /\ stmt[p] = Create => columns = "none"
  /\ lock' = [lock EXCEPT ![p] = "reserved"]
  /\ pages' = [pages EXCEPT ![p] = Effect(stmt[p], rows)]
  /\ Step(p, "commit")
  /\ UNCHANGED <<columns, rows, rc>>

Commit(p) ==
  /\ pc[p] = "commit" /\ ~Others(p, {"shared"})
  /\ lock' = [lock EXCEPT ![p] = "exclusive"]
  /\ Step(p, "end")
  /\ UNCHANGED <<columns, rows, writing>>

\* The pages are written and the journal is deleted, or the disk is full and the
\* change rolled back.
EndCommit(p) ==
  /\ pc[p] = "end"
  /\ \/ /\ rows' = pages[p]
        /\ columns' = IF stmt[p] \in {Create, Alter} THEN "new" ELSE columns
        /\ Stepped(p, "DONE")
     \/ Stepped(p, "ERROR") /\ UNCHANGED <<columns, rows>>
  /\ lock' = [lock EXCEPT ![p] = "none"]
  /\ UNCHANGED pages

\* sqlite3_finalize, and the answer.
ExecReturn(p) ==
  /\ pc[p] = "stepped"
  /\ Return(p, [of |-> "exec", reply |-> ExecReply(rc[p])])
  /\ Forget(p)
  /\ UNCHANGED <<columns, rows, boot, stmt, calls, reading>>

---------------------------------------------------------------------------
(* The loop of Sqlite_query.                                               *)

Left(p) == {i \in DOMAIN Order : i > cursor[p] /\ Order[i] \in Selected(stmt[p]) /\ rows[Order[i]] # NoRow}

StepRow(p) ==
  /\ pc[p] = "read" /\ Left(p) # {} /\ ~Others(p, {"exclusive"})
  /\ lock' = [lock EXCEPT ![p] = "shared"]
  /\ LET i == CHOOSE i \in Left(p) : \A j \in Left(p) : i <= j
     IN  /\ cursor' = [cursor EXCEPT ![p] = i]
         /\ list' = [list EXCEPT ![p] = Append(@, Pushed(stmt[p], Order[i]))]
  /\ seen' = IF list[p] = <<>> THEN [seen EXCEPT ![p] = rows] ELSE seen
  /\ UNCHANGED <<columns, rows, pc, boot, stmt, writing, answer, calls, cut>>

QueryReturn(p) ==
  /\ Return(p, [of |-> "rows", rows |-> list[p]])
  /\ UNCHANGED <<columns, rows, boot, stmt, writing, cursor, list, calls>>

\* No row is left.
LastRow(p) ==
  /\ pc[p] = "read" /\ Left(p) = {} /\ ~Others(p, {"exclusive"})
  /\ QueryReturn(p)
  /\ seen' = IF list[p] = <<>> THEN [seen EXCEPT ![p] = rows] ELSE seen
  /\ UNCHANGED cut

\* Mutant of RowRefused: the loop runs until SQLITE_DONE; a statement that is
\* stepped again after an error starts from its first row.
RowRefusedRetry(p) ==
  /\ pc[p] = "read"
  /\ cursor' = [cursor EXCEPT ![p] = 0]
  /\ lock' = [lock EXCEPT ![p] = "none"]
  /\ cut' = [cut EXCEPT ![p] = TRUE]
  /\ UNCHANGED <<columns, rows, pc, boot, stmt, writing, list, answer, calls, seen>>

\* A step that is neither a row nor the end, a lock at the first or a read
\* error at any, ends the loop: the rows so far are the answer.
RowRefused(p) ==
  /\ pc[p] = "read"
  /\ QueryReturn(p)
  /\ seen' = IF list[p] = <<>> THEN [seen EXCEPT ![p] = rows] ELSE seen
  /\ cut' = [cut EXCEPT ![p] = TRUE]

---------------------------------------------------------------------------
\* The program ends wherever it stands, before SQLite's commit or between it and
\* the answer; nobody calls Db.close.  A change that was not committed is rolled
\* back by whoever opens the file next.
Crash(p) ==
  /\ pc[p] # "down" /\ calls < MaxCalls /\ calls' = calls + 1
  /\ pc' = [pc EXCEPT ![p] = "down"]
  /\ lock' = [lock EXCEPT ![p] = "none"]
  /\ boot' = [boot EXCEPT ![p] = <<>>]
  /\ Forget(p)
  /\ answer' = [answer EXCEPT ![p] = [of |-> "none"]] /\ stmt' = [stmt EXCEPT ![p] = Create]
  /\ list' = [list EXCEPT ![p] = <<>>] /\ cursor' = [cursor EXCEPT ![p] = 0]
  /\ cut' = [cut EXCEPT ![p] = FALSE]
  /\ UNCHANGED <<columns, rows, seen>>

Next ==
  \E p \in Programs :
    \/ Open(p) \/ (\E s \in {Create, Alter, All} \union Requests : Call(p, s))
    \/ Refused(p, "write", {"reserved", "exclusive"}) \/ Refused(p, "commit", {"shared"})
    \/ StepNothing(p) \/ StepWrite(p) \/ Commit(p) \/ EndCommit(p) \/ ExecReturn(p)
    \/ StepRow(p) \/ LastRow(p) \/ RowRefused(p)
    \/ Crash(p)

Spec == Init /\ [][Next]_vars

---------------------------------------------------------------------------
(* Properties.                                                             *)

\* A write as its program knows it: under way, answered, or neither.
WriteOf(p) ==
  LET is == CASE pc[p] \in {"write", "commit", "end"} -> "called"
              [] pc[p] = "stepped" -> IF rc[p] = "DONE" THEN "happened" ELSE "called"
              [] pc[p] = "idle" /\ answer[p].of = "exec" -> IF answer[p].reply = "" THEN "done" ELSE "refused"
              [] OTHER -> "none"
  IN  IF stmt[p].op \in {"upsert", "comment", "delete"} /\ is # "none" THEN [is |-> is, of |-> stmt[p]]
      ELSE [is |-> "none"]

Promise == INSTANCE AtomicWrites WITH write <- [p \in Programs |-> WriteOf(p)]

\* Each write of a declaration happens at one instant of its native call and on
\* the table the other programs' writes have left, if it is answered "", and not
\* at all if it is answered with an error; if its program ends first, between
\* SQLite's commit and the answer too, it has happened by then or never will
\* (Sqlite_exec).
WritesAreAtomic == Promise!Spec

\* The rows there are in a state r of the table, by their place in the order, and what
\* a query of all of them pushes for each.
There(r)  == {i \in DOMAIN Order : r[Order[i]] # NoRow}
Row(r, i) == <<Order[i], r[Order[i]].source>>

Has(q, x) == \E k \in DOMAIN q : q[k] = x

\* q is the first rows of r in their order, none twice and none left out.
FirstRows(q, r) ==
  /\ \A k \in DOMAIN q : \E i \in There(r) : q[k] = Row(r, i)
  /\ \A k, l \in DOMAIN q, i, j \in There(r) : q[k] = Row(r, i) /\ q[l] = Row(r, j) /\ k < l => i < j
  /\ \A i, j \in There(r) : i < j /\ Has(q, Row(r, j)) => Has(q, Row(r, i))

\* The list a query returns is the rows of one state of the table in their
\* order, all of them if SQLite refused no step, and otherwise the first ones:
\* never a row twice, never rows from before and after another program's write
\* (Sqlite_query).
RowsOfOneState ==
  \A p \in Programs : answer[p].of = "rows" /\ stmt[p] = All /\ pc[p] = "idle" =>
    /\ FirstRows(answer[p].rows, seen[p])
    /\ cut[p] \/ \A i \in There(seen[p]) : Has(answer[p].rows, Row(seen[p], i))
============================================================================
