--------------------------- MODULE NativesProofs ---------------------------
(***************************************************************************)
(* Proofs about the two native bindings.  Store, for any number of         *)
(* programs, names and texts: a write happens at one instant or not at all, *)
(* as it is answered if it is, and no other program writes under a query   *)
(* that has read its first row.  Marshal, for any methods and layouts: the words of a send   *)
(* that the fixed shape can carry arrive.  Abi, for any types: what is     *)
(* read from an encoding is what Marshal relies on.                        *)
(***************************************************************************)
EXTENDS Store, Abi, SequenceTheorems, WellFoundedInduction, NaturalsInduction, TLAPS

---------------------------------------------------------------------------
(* The writes.                                                             *)

Statements == {Create, Alter, All} \union Requests

Rows == [Names -> {NoRow} \union [source : Texts, comment : Texts \union {Null}]]

Typed ==
  /\ rows \in Rows
  /\ stmt \in [Programs -> Statements]
  /\ rc \in [Programs -> {"DONE", "BUSY", "ERROR"}]
  /\ DOMAIN pc = Programs /\ DOMAIN lock = Programs
  /\ DOMAIN answer = Programs /\ DOMAIN pages = Programs
  /\ \A p \in Programs : pc[p] = "down" => answer[p].of = "none"

Writing(p) == pc[p] \in {"commit", "end"}

\* Who is about to commit holds the file against the other writers, one at most.
Owning ==
  /\ \A p \in Programs : Writing(p) => lock[p] \in {"reserved", "exclusive"}
  /\ \A p, q \in Programs : Writing(p) /\ Writing(q) => p = q

\* So the pages it has changed are those of the table as it is.
Cached == \A p \in Programs : Writing(p) => pages[p] = Effect(stmt[p], rows)

Wholly == Typed /\ Owning /\ Cached

\* A statement changes rows to rows, and as the promise says: the row it names.
LEMMA EffectIs ==
  ASSUME NEW r \in Rows, NEW s \in Statements
  PROVE  /\ Effect(s, r) \in Rows
         /\ s \in Promise!Writes =>
              Effect(s, r) = [n \in Names |-> IF n = s.name THEN Promise!After(s, r[n]) ELSE r[n]]
         /\ s \notin Promise!Writes => Effect(s, r) = r
         /\ s \in Promise!Writes <=> s.op \in {"upsert", "comment", "delete"}
<1> DEFINE Upserts  == [op : {"upsert"}, name : Names, text : Texts]
           Comments == [op : {"comment"}, name : Names, text : Texts]
           Deletes  == [op : {"delete"}, name : Names]
           Ones == [op : {"one"}, name : Names]
<1>1. CASE s \in Upserts
  <2>1. s.op = "upsert" /\ s.name \in Names /\ s.text \in Texts /\ s \in Promise!Writes
    BY <1>1 DEF Promise!Writes
  <2>2. Effect(s, r) = [r EXCEPT ![s.name] = [source |-> s.text, comment |-> Null]]
    BY <2>1 DEF Effect
  <2>3. Promise!After(s, r[s.name]) = [source |-> s.text, comment |-> Null]
    BY <2>1 DEF Promise!After
  <2>4. Promise!After(s, r[s.name]) \in [source : Texts, comment : Texts \union {Null}]
    BY <2>1, <2>3
  <2>5. Effect(s, r) = [r EXCEPT ![s.name] = Promise!After(s, r[s.name])]
    BY <2>2, <2>3
  <2> QED  BY <2>1, <2>4, <2>5 DEF Rows
<1>2. CASE s \in Comments
  <2>1. s.op = "comment" /\ s.name \in Names /\ s.text \in Texts /\ s \in Promise!Writes
    BY <1>2 DEF Promise!Writes
  <2>2. CASE r[s.name] = NoRow
    <3>1. Effect(s, r) = r /\ Promise!After(s, r[s.name]) = NoRow
      BY <2>1, <2>2 DEF Effect, Promise!After
    <3> QED  BY <2>1, <2>2, <3>1 DEF Rows
  <2>3. CASE r[s.name] # NoRow
    <3>1. Effect(s, r) = [r EXCEPT ![s.name].comment = s.text]
      BY <2>1, <2>3 DEF Effect
    <3>2. Promise!After(s, r[s.name]) = [source |-> r[s.name].source, comment |-> s.text]
      BY <2>1, <2>3 DEF Promise!After
    <3>3. r[s.name] \in [source : Texts, comment : Texts \union {Null}]
      BY <2>1, <2>3 DEF Rows
    <3>4. [r[s.name] EXCEPT !.comment = s.text] = [source |-> r[s.name].source, comment |-> s.text]
      BY <3>3
    <3>5. Effect(s, r) = [r EXCEPT ![s.name] = Promise!After(s, r[s.name])]
      BY <3>1, <3>2, <3>4
    <3>6. Promise!After(s, r[s.name]) \in [source : Texts, comment : Texts \union {Null}]
      BY <2>1, <3>2, <3>3
    <3> QED  BY <2>1, <3>5, <3>6 DEF Rows
  <2> QED  BY <2>2, <2>3
<1>3. CASE s \in Deletes
  <2>1. s.op = "delete" /\ s.name \in Names /\ s \in Promise!Writes
    BY <1>3 DEF Promise!Writes
  <2>2. Effect(s, r) = [r EXCEPT ![s.name] = NoRow]
    BY <2>1 DEF Effect
  <2>3. Promise!After(s, r[s.name]) = NoRow
    BY <2>1 DEF Promise!After
  <2> QED  BY <2>1, <2>2, <2>3 DEF Rows
<1>4. CASE s \in Ones \union {Create, Alter, All}
  <2>1. s.op \in {"one", "create", "alter", "all"}
    BY <1>4 DEF Create, Alter, All
  <2>2. s \notin Promise!Writes
    BY <2>1 DEF Promise!Writes
  <2> QED  BY <2>1, <2>2 DEF Effect
<1>5. s \in Upserts \union Comments \union Deletes \union Ones \union {Create, Alter, All}
  <2>1. CASE s \in [op : {"upsert", "comment"}, name : Names, text : Texts]
    BY <2>1
  <2>2. CASE s \in [op : {"delete", "one"}, name : Names]
    BY <2>2
  <2> QED  BY <2>1, <2>2 DEF Statements, Requests
<1> QED  BY <1>1, <1>2, <1>3, <1>4, <1>5

LEMMA WhollyInit == Init => Wholly
  BY DEF Init, Wholly, Typed, Owning, Cached, Writing, Rows, Statements

LEMMA CallWhole ==
  ASSUME Wholly, NEW p \in Programs, NEW s \in Statements, Call(p, s)
  PROVE  Wholly'
<1> USE DEF Wholly, Typed, Owning, Cached, Writing
<1>1. /\ UNCHANGED <<rows, pages, rc>> /\ stmt' = [stmt EXCEPT ![p] = s] /\ pc[p] = "idle"
      /\ \E value, next : next \in {"idle", "read", "write"} /\ pc' = [pc EXCEPT ![p] = next]
      /\ \A q \in Programs \ {p} : lock'[q] = lock[q] /\ answer'[q] = answer[q]
      /\ DOMAIN lock' = Programs /\ DOMAIN answer' = Programs
  BY DEF Call, Return, writing
<1>2. PICK next \in {"idle", "read", "write"} : pc' = [pc EXCEPT ![p] = next]
  BY <1>1
<1>3. Typed'
  BY <1>1, <1>2
<1>4. \A q \in Programs : Writing(q)' => Writing(q) /\ q # p
  BY <1>1, <1>2
<1>5. Owning'
  BY <1>1, <1>4
<1>6. Cached'
  BY <1>1, <1>4
<1> QED  BY <1>3, <1>5, <1>6

LEMMA StepWriteWhole ==
  ASSUME Wholly, NEW p \in Programs, StepWrite(p)
  PROVE  Wholly'
<1>1. /\ UNCHANGED <<rows, stmt, answer, rc>> /\ pc[p] = "write" /\ pc' = [pc EXCEPT ![p] = "commit"]
      /\ lock' = [lock EXCEPT ![p] = "reserved"] /\ pages' = [pages EXCEPT ![p] = Effect(stmt[p], rows)]
      /\ \A q \in Programs \ {p} : lock[q] \notin {"reserved", "exclusive"}
  BY DEF StepWrite, Step, Others
<1>2. Typed'
  BY <1>1 DEF Wholly, Typed
<1>3. \A q \in Programs \ {p} : ~Writing(q)
  BY <1>1 DEF Wholly, Owning
<1>4. \A q \in Programs : Writing(q)' => q = p
  BY <1>1, <1>3 DEF Wholly, Typed, Writing
<1>5. Owning'
  BY <1>1, <1>4 DEF Owning, Wholly, Typed
<1>6. Cached'
  BY <1>1, <1>4 DEF Cached, Wholly, Typed
<1> QED  BY <1>2, <1>5, <1>6 DEF Wholly

\* A step after which its program does not write, and that leaves the rows alone.
LEMMA RestWhole ==
  ASSUME Wholly, NEW p \in Programs, NEW next, next \notin {"commit", "end"},
         pc' = [pc EXCEPT ![p] = next],
         \A q \in Programs \ {p} : /\ lock'[q] = lock[q] /\ stmt'[q] = stmt[q] /\ pages'[q] = pages[q]
                                   /\ answer'[q] = answer[q],
         Typed'
  PROVE  /\ Owning'
         /\ rows' = rows \/ Writing(p) => Cached'
<1>1. \A q \in Programs : Writing(q)' => Writing(q) /\ q # p
  BY DEF Wholly, Typed, Writing
<1>2. Owning'
  BY <1>1 DEF Wholly, Owning
<1>3. ASSUME rows' = rows \/ Writing(p) PROVE Cached'
  <2> SUFFICES ASSUME NEW q \in Programs, Writing(q)' PROVE pages'[q] = Effect(stmt'[q], rows')
    BY DEF Cached
  <2>1. rows' = rows
    BY <1>1, <1>3 DEF Wholly, Owning
  <2>2. pages[q] = Effect(stmt[q], rows)
    BY <1>1 DEF Wholly, Cached
  <2> QED  BY <1>1, <2>1, <2>2
<1> QED  BY <1>2, <1>3

LEMMA WhollyStep == Wholly /\ [Next]_vars => Wholly'
<1> SUFFICES ASSUME Wholly, [Next]_vars PROVE Wholly'
  OBVIOUS
<1>1. ASSUME NEW p \in Programs, Open(p) PROVE Wholly'
  <2>1. /\ UNCHANGED <<rows, stmt, rc, lock, pages, answer>>
        /\ \E next \in {"idle", "noimage"} : pc' = [pc EXCEPT ![p] = next]
    BY <1>1 DEF Open, writing
  <2>2. Typed'
    BY <2>1 DEF Wholly, Typed
  <2> QED  BY <2>1, <2>2, RestWhole DEF Wholly
<1>2. ASSUME NEW p \in Programs, NEW s \in Statements, Call(p, s) PROVE Wholly'
  BY <1>2, CallWhole
<1>3. ASSUME NEW p \in Programs, NEW state, NEW locks, Refused(p, state, locks) PROVE Wholly'
  <2>1. /\ UNCHANGED <<rows, stmt, lock, pages, answer>>
        /\ rc' = [rc EXCEPT ![p] = "BUSY"] /\ pc' = [pc EXCEPT ![p] = "stepped"]
    BY <1>3 DEF Refused, Stepped, Step
  <2>2. Typed'
    BY <2>1 DEF Wholly, Typed
  <2> QED  BY <2>1, <2>2, RestWhole DEF Wholly
<1>4. ASSUME NEW p \in Programs, StepNothing(p) PROVE Wholly'
  <2>1. /\ UNCHANGED <<rows, stmt, lock, pages, answer>>
        /\ rc' = [rc EXCEPT ![p] = "DONE"] /\ pc' = [pc EXCEPT ![p] = "stepped"]
    BY <1>4 DEF StepNothing, Stepped, Step
  <2>2. Typed'
    BY <2>1 DEF Wholly, Typed
  <2> QED  BY <2>1, <2>2, RestWhole DEF Wholly
<1>5. ASSUME NEW p \in Programs, StepWrite(p) PROVE Wholly'
  BY <1>5, StepWriteWhole
<1>6. ASSUME NEW p \in Programs, Commit(p) PROVE Wholly'
  <2>1. /\ UNCHANGED <<rows, stmt, rc, pages, answer>> /\ pc[p] = "commit"
        /\ pc' = [pc EXCEPT ![p] = "end"] /\ lock' = [lock EXCEPT ![p] = "exclusive"]
    BY <1>6 DEF Commit, Step, writing
  <2>2. Typed'
    BY <2>1 DEF Wholly, Typed
  <2>3. \A q \in Programs : Writing(q)' <=> Writing(q)
    BY <2>1 DEF Wholly, Typed, Writing
  <2>4. Owning'
    BY <2>1, <2>3 DEF Wholly, Owning, Typed
  <2>5. Cached'
    BY <2>1, <2>3 DEF Wholly, Cached
  <2> QED  BY <2>2, <2>4, <2>5 DEF Wholly
<1>7. ASSUME NEW p \in Programs, EndCommit(p) PROVE Wholly'
  <2>1. /\ UNCHANGED <<stmt, pages, answer>> /\ pc[p] = "end" /\ pc' = [pc EXCEPT ![p] = "stepped"]
        /\ lock' = [lock EXCEPT ![p] = "none"]
        /\ \E end \in {"DONE", "ERROR"} : rc' = [rc EXCEPT ![p] = end]
        /\ rows' = pages[p] \/ rows' = rows
    BY <1>7 DEF EndCommit, Stepped, Step
  <2>2. rows' \in Rows
    <3>1. pages[p] = Effect(stmt[p], rows) /\ stmt[p] \in Statements /\ rows \in Rows
      BY <2>1 DEF Wholly, Typed, Cached, Writing
    <3> QED  BY <2>1, <3>1, EffectIs
  <2>3. Typed'
    BY <2>1, <2>2 DEF Wholly, Typed
  <2> QED  BY <2>1, <2>3, RestWhole DEF Wholly, Writing, Typed
<1>8. ASSUME NEW p \in Programs, ExecReturn(p) PROVE Wholly'
  <2> DEFINE value == [of |-> "exec", reply |-> ExecReply(rc[p])]
  <2>1. /\ UNCHANGED <<rows, stmt>> /\ pc' = [pc EXCEPT ![p] = "idle"] /\ lock' = [lock EXCEPT ![p] = "none"]
        /\ pages' = [pages EXCEPT ![p] = [n \in Names |-> NoRow]] /\ rc' = [rc EXCEPT ![p] = "DONE"]
        /\ answer' = [answer EXCEPT ![p] = value]
    BY <1>8 DEF ExecReturn, Return, Forget
  <2> HIDE DEF value
  <2>2. Typed'
    BY <2>1 DEF Wholly, Typed
  <2> QED  BY <2>1, <2>2, RestWhole DEF Wholly, Typed
<1>9. ASSUME NEW p \in Programs, StepRow(p) PROVE Wholly'
  <2>1. /\ UNCHANGED <<rows, pc, stmt, rc, pages, answer>> /\ pc[p] = "read"
        /\ lock' = [lock EXCEPT ![p] = "shared"]
    BY <1>9 DEF StepRow, writing
  <2>2. Typed'
    BY <2>1 DEF Wholly, Typed
  <2>3. Owning' /\ Cached'
    BY <2>1 DEF Wholly, Typed, Owning, Cached, Writing
  <2> QED  BY <2>2, <2>3 DEF Wholly
<1>10. ASSUME NEW p \in Programs, LastRow(p) \/ RowRefused(p) PROVE Wholly'
  <2> DEFINE value == [of |-> "rows", rows |-> list[p]]
  <2>1. /\ UNCHANGED <<rows, stmt, rc, pages>> /\ pc' = [pc EXCEPT ![p] = "idle"]
        /\ lock' = [lock EXCEPT ![p] = "none"] /\ answer' = [answer EXCEPT ![p] = value]
    BY <1>10 DEF LastRow, RowRefused, QueryReturn, Return, writing
  <2> HIDE DEF value
  <2>2. Typed'
    BY <2>1 DEF Wholly, Typed
  <2> QED  BY <2>1, <2>2, RestWhole DEF Wholly, Typed
<1>11. ASSUME NEW p \in Programs, Crash(p) PROVE Wholly'
  <2>1. /\ UNCHANGED rows /\ pc' = [pc EXCEPT ![p] = "down"] /\ lock' = [lock EXCEPT ![p] = "none"]
        /\ pages' = [pages EXCEPT ![p] = [n \in Names |-> NoRow]] /\ rc' = [rc EXCEPT ![p] = "DONE"]
        /\ answer' = [answer EXCEPT ![p] = [of |-> "none"]] /\ stmt' = [stmt EXCEPT ![p] = Create]
    BY <1>11 DEF Crash, Forget
  <2>2. Typed'
    BY <2>1 DEF Wholly, Typed, Statements
  <2> QED  BY <2>1, <2>2, RestWhole DEF Wholly, Typed
<1>12. CASE UNCHANGED vars
  BY <1>12 DEF vars, writing, Wholly, Typed, Owning, Cached, Writing
<1> QED
  BY <1>1, <1>2, <1>3, <1>4, <1>5, <1>6, <1>7, <1>8, <1>9, <1>10, <1>11, <1>12 DEF Next, Statements

LEMMA OtherWrites ==
  ASSUME NEW q, pc'[q] = pc[q], stmt'[q] = stmt[q], rc'[q] = rc[q], answer'[q] = answer[q]
  PROVE  WriteOf(q)' = WriteOf(q)
  BY DEF WriteOf

\* What the promise says of program p after a step, when only p has done something.
LEMMA OnlyWriteOf ==
  ASSUME NEW p \in Programs, NEW is, NEW w, WriteOf(p)' = [is |-> is, of |-> w],
         \A q \in Programs \ {p} : pc'[q] = pc[q] /\ stmt'[q] = stmt[q] /\ rc'[q] = rc[q] /\ answer'[q] = answer[q]
  PROVE  Promise!Becomes(p, is, w)
<1>1. \A q \in Programs \ {p} : WriteOf(q)' = WriteOf(q)
  BY OtherWrites
<1>2. [q \in Programs |-> WriteOf(q)]' = [[q \in Programs |-> WriteOf(q)] EXCEPT ![p] = [is |-> is, of |-> w]]
  <2>1. [q \in Programs |-> WriteOf(q)]' = [q \in Programs |-> WriteOf(q)']
    OBVIOUS
  <2> QED  BY <1>1, <2>1
<1> QED  BY <1>2 DEF Promise!Becomes

LEMMA SameWrite ==
  ASSUME NEW p \in Programs, WriteOf(p)' = WriteOf(p),
         \A q \in Programs \ {p} : pc'[q] = pc[q] /\ stmt'[q] = stmt[q] /\ rc'[q] = rc[q] /\ answer'[q] = answer[q]
  PROVE  [q \in Programs |-> WriteOf(q)]' = [q \in Programs |-> WriteOf(q)]
<1>1. \A q \in Programs \ {p} : WriteOf(q)' = WriteOf(q)
  BY OtherWrites
<1> QED  BY <1>1

LEMMA LeftWrite ==
  ASSUME NEW p \in Programs, WriteOf(p)' = [is |-> "none"], rows' = rows,
         \A q \in Programs \ {p} : pc'[q] = pc[q] /\ stmt'[q] = stmt[q] /\ rc'[q] = rc[q] /\ answer'[q] = answer[q]
  PROVE  Promise!Leave(p)
<1>1. \A q \in Programs \ {p} : WriteOf(q)' = WriteOf(q)
  BY OtherWrites
<1>2. [q \in Programs |-> WriteOf(q)]' = [[q \in Programs |-> WriteOf(q)] EXCEPT ![p] = [is |-> "none"]]
  BY <1>1
<1> QED  BY <1>2 DEF Promise!Leave, Promise!None

Kept == UNCHANGED <<rows, [p \in Programs |-> WriteOf(p)]>>

\* The call of a statement is the call of a write or its refusal, or no write at all.
LEMMA CallSimulated ==
  ASSUME Wholly, NEW p \in Programs, NEW s \in Statements, Call(p, s)
  PROVE  \/ s \in Promise!Writes /\ (Promise!Call(p, s) \/ Promise!Refuse(p, s))
         \/ Promise!Leave(p)
<1>1. /\ rows' = rows /\ rc' = rc /\ stmt' = [stmt EXCEPT ![p] = s] /\ pc[p] = "idle"
      /\ \/ pc' = [pc EXCEPT ![p] = IF Reads(s) THEN "read" ELSE "write"] /\ answer' = answer
         \/ /\ pc' = [pc EXCEPT ![p] = "idle"]
            /\ answer' = [answer EXCEPT ![p] = IF Reads(s) THEN [of |-> "null"] ELSE [of |-> "exec", reply |-> "ERR"]]
  BY DEF Call, Return, writing
<1>2. \A q \in Programs \ {p} : pc'[q] = pc[q] /\ stmt'[q] = stmt[q] /\ rc'[q] = rc[q] /\ answer'[q] = answer[q]
  BY <1>1 DEF Wholly, Typed
<1>3. stmt'[p] = s /\ p \in DOMAIN pc /\ p \in DOMAIN answer
  BY <1>1 DEF Wholly, Typed
<1>4. (WriteOf(p)).is \in {"none", "done", "refused"}
  BY <1>1 DEF WriteOf
<1>5. Promise!Free(p)
  BY <1>4 DEF Promise!Free
<1>6. s \in Promise!Writes <=> s.op \in {"upsert", "comment", "delete"}
  BY EffectIs DEF Wholly, Typed
<1>7. CASE s \in Promise!Writes
  <2>1. ~Reads(s) /\ s.op \in {"upsert", "comment", "delete"}
    BY <1>6, <1>7 DEF Reads
  <2>2. CASE pc' = [pc EXCEPT ![p] = IF Reads(s) THEN "read" ELSE "write"]
    <3>1. pc'[p] = "write"
      BY <1>3, <2>1, <2>2
    <3>2. WriteOf(p)' = [is |-> "called", of |-> s]
      BY <1>3, <2>1, <3>1 DEF WriteOf
    <3> QED  BY <1>1, <1>2, <1>5, <1>7, <3>2, OnlyWriteOf DEF Promise!Call
  <2>3. CASE /\ pc' = [pc EXCEPT ![p] = "idle"]
             /\ answer' = [answer EXCEPT ![p] = IF Reads(s) THEN [of |-> "null"] ELSE [of |-> "exec", reply |-> "ERR"]]
    <3>1. pc'[p] = "idle" /\ answer'[p] = [of |-> "exec", reply |-> "ERR"]
      BY <1>3, <2>1, <2>3
    <3>2. answer'[p].of = "exec" /\ answer'[p].reply # ""
      BY <3>1
    <3>3. WriteOf(p)' = [is |-> "refused", of |-> s]
      BY <1>3, <2>1, <3>1, <3>2 DEF WriteOf
    <3> QED  BY <1>1, <1>2, <1>5, <1>7, <3>3, OnlyWriteOf DEF Promise!Refuse
  <2> QED  BY <1>1, <2>2, <2>3
<1>8. CASE s \notin Promise!Writes
  <2>1. WriteOf(p)' = [is |-> "none"]
    BY <1>3, <1>6, <1>8 DEF WriteOf
  <2> QED  BY <1>1, <1>2, <2>1, LeftWrite
<1> QED  BY <1>7, <1>8

\* SQLite's commit is the instant at which the write happens; a rollback is none.
LEMMA EndCommitSimulated ==
  ASSUME Wholly, NEW p \in Programs, EndCommit(p)
  PROVE  Promise!Happen(p) \/ Kept
<1> DEFINE w == stmt[p]
<1>1. /\ UNCHANGED <<stmt, answer>> /\ pc[p] = "end" /\ pc' = [pc EXCEPT ![p] = "stepped"]
      /\ \/ rows' = pages[p] /\ rc' = [rc EXCEPT ![p] = "DONE"]
         \/ rows' = rows /\ rc' = [rc EXCEPT ![p] = "ERROR"]
  BY DEF EndCommit, Stepped, Step
<1>2. \A q \in Programs \ {p} : pc'[q] = pc[q] /\ stmt'[q] = stmt[q] /\ rc'[q] = rc[q] /\ answer'[q] = answer[q]
  BY <1>1 DEF Wholly, Typed
<1>3. /\ stmt'[p] = w /\ pc'[p] = "stepped" /\ p \in DOMAIN rc /\ rows \in Rows /\ w \in Statements
      /\ pages[p] = Effect(w, rows)
  BY <1>1 DEF Wholly, Typed, Cached, Writing
<1>4. w \in Promise!Writes <=> w.op \in {"upsert", "comment", "delete"}
  BY <1>3, EffectIs
<1>5. CASE w \in Promise!Writes /\ rows' = pages[p] /\ rc' = [rc EXCEPT ![p] = "DONE"]
  <2>1. WriteOf(p) = [is |-> "called", of |-> w]
    BY <1>1, <1>4, <1>5 DEF WriteOf
  <2>2. rc'[p] = "DONE"
    BY <1>3, <1>5
  <2>3. WriteOf(p)' = [is |-> "happened", of |-> w]
    BY <1>3, <1>4, <1>5, <2>2 DEF WriteOf
  <2>4. Promise!Becomes(p, "happened", w)
    BY <1>2, <2>3, OnlyWriteOf
  <2>5. rows' = [n \in Names |-> IF n = w.name THEN Promise!After(w, rows[n]) ELSE rows[n]]
    BY <1>3, <1>5, EffectIs
  <2>6. (WriteOf(p)).is = "called" /\ (WriteOf(p)).of = w
    BY <2>1
  <2> HIDE DEF w
  <2> QED  BY <2>4, <2>5, <2>6 DEF Promise!Happen
<1>6. CASE w \in Promise!Writes /\ rows' = rows /\ rc' = [rc EXCEPT ![p] = "ERROR"]
  <2>1. rc'[p] = "ERROR"
    BY <1>3, <1>6
  <2>2. WriteOf(p) = [is |-> "called", of |-> w]
    BY <1>1, <1>4, <1>6 DEF WriteOf
  <2>3. WriteOf(p)' = [is |-> "called", of |-> w]
    BY <1>3, <1>4, <1>6, <2>1 DEF WriteOf
  <2> QED  BY <1>2, <1>6, <2>2, <2>3, SameWrite DEF Kept
<1>7. CASE w \notin Promise!Writes
  <2>1. rows' = rows
    BY <1>1, <1>3, <1>7, EffectIs
  <2>2. WriteOf(p)' = WriteOf(p)
    BY <1>3, <1>4, <1>7 DEF WriteOf
  <2> QED  BY <1>2, <2>1, <2>2, SameWrite DEF Kept
<1> QED  BY <1>1, <1>5, <1>6, <1>7

\* The native answers as SQLite has ended.
LEMMA ReturnSimulated ==
  ASSUME Wholly, NEW p \in Programs, ExecReturn(p)
  PROVE  Promise!Answer(p) \/ Kept
<1> DEFINE w == stmt[p]
<1>1. /\ UNCHANGED <<rows, stmt>> /\ pc[p] = "stepped" /\ pc' = [pc EXCEPT ![p] = "idle"]
      /\ rc' = [rc EXCEPT ![p] = "DONE"]
      /\ answer' = [answer EXCEPT ![p] = [of |-> "exec", reply |-> ExecReply(rc[p])]]
  BY DEF ExecReturn, Return, Forget
<1>2. \A q \in Programs \ {p} : pc'[q] = pc[q] /\ stmt'[q] = stmt[q] /\ rc'[q] = rc[q] /\ answer'[q] = answer[q]
  BY <1>1 DEF Wholly, Typed
<1>3. /\ stmt'[p] = w /\ pc'[p] = "idle" /\ rows \in Rows /\ w \in Statements
      /\ rc[p] \in {"DONE", "BUSY", "ERROR"} /\ p \in DOMAIN answer
  BY <1>1 DEF Wholly, Typed
<1>4. answer'[p].of = "exec" /\ answer'[p].reply = ExecReply(rc[p])
  <2>1. answer'[p] = [of |-> "exec", reply |-> ExecReply(rc[p])]
    BY <1>1, <1>3
  <2> QED  BY <2>1
<1>5. w \in Promise!Writes <=> w.op \in {"upsert", "comment", "delete"}
  BY <1>3, EffectIs
<1>6. CASE w \in Promise!Writes /\ rc[p] = "DONE"
  <2>1. WriteOf(p) = [is |-> "happened", of |-> w]
    BY <1>1, <1>5, <1>6 DEF WriteOf
  <2>2. answer'[p].reply = ""
    BY <1>4, <1>6 DEF ExecReply
  <2>3. WriteOf(p)' = [is |-> "done", of |-> w]
    BY <1>3, <1>4, <1>5, <1>6, <2>2 DEF WriteOf
  <2>4. Promise!Becomes(p, "done", w)
    BY <1>2, <2>3, OnlyWriteOf
  <2>5. (WriteOf(p)).is = "happened" /\ (WriteOf(p)).of = w
    BY <2>1
  <2> HIDE DEF w
  <2> QED  BY <1>1, <2>4, <2>5 DEF Promise!Answer
<1>7. CASE w \in Promise!Writes /\ rc[p] # "DONE"
  <2>1. WriteOf(p) = [is |-> "called", of |-> w]
    BY <1>1, <1>5, <1>7 DEF WriteOf
  <2>2. answer'[p].reply # ""
    BY <1>3, <1>4, <1>7 DEF ExecReply
  <2>3. WriteOf(p)' = [is |-> "refused", of |-> w]
    BY <1>3, <1>4, <1>5, <1>7, <2>2 DEF WriteOf
  <2>4. Promise!Becomes(p, "refused", w)
    BY <1>2, <2>3, OnlyWriteOf
  <2>5. (WriteOf(p)).is = "called" /\ (WriteOf(p)).of = w
    BY <2>1
  <2> HIDE DEF w
  <2> QED  BY <1>1, <2>4, <2>5 DEF Promise!Answer
<1>8. CASE w \notin Promise!Writes
  <2>1. WriteOf(p)' = WriteOf(p)
    BY <1>3, <1>5, <1>8 DEF WriteOf
  <2> QED  BY <1>1, <1>2, <2>1, SameWrite DEF Kept
<1> QED  BY <1>6, <1>7, <1>8

\* The other steps of a native call are none of the promise.
LEMMA RestSimulated ==
  ASSUME Wholly, NEW p \in Programs,
         \/ Open(p) \/ (\E state \in {"write", "commit"} : \E locks : Refused(p, state, locks))
         \/ StepNothing(p) \/ StepWrite(p) \/ Commit(p) \/ StepRow(p) \/ LastRow(p) \/ RowRefused(p)
  PROVE  Kept
<1> USE DEF Wholly, Typed
<1>1. rows' = rows
  BY DEF Open, Refused, StepNothing, StepWrite, Commit, StepRow, LastRow, RowRefused, QueryReturn
<1>2. WriteOf(p)' = WriteOf(p) /\ \A q \in Programs \ {p} : /\ pc'[q] = pc[q] /\ stmt'[q] = stmt[q] /\ rc'[q] = rc[q]
                                                           /\ answer'[q] = answer[q]
  <2>1. CASE Open(p)
    <3>1. /\ UNCHANGED <<stmt, rc, answer>> /\ pc[p] = "down" /\ answer[p].of = "none"
          /\ \E next \in {"idle", "noimage"} : pc' = [pc EXCEPT ![p] = next]
      BY <2>1 DEF Open, writing
    <3> QED  BY <3>1 DEF WriteOf
  <2>2. ASSUME NEW state \in {"write", "commit"}, NEW locks, Refused(p, state, locks)
        PROVE  WriteOf(p)' = WriteOf(p) /\ \A q \in Programs \ {p} : /\ pc'[q] = pc[q] /\ stmt'[q] = stmt[q] /\ rc'[q] = rc[q]
                                                                    /\ answer'[q] = answer[q]
    <3>1. /\ UNCHANGED <<stmt, answer>> /\ pc[p] \in {"write", "commit"} /\ pc' = [pc EXCEPT ![p] = "stepped"]
          /\ rc' = [rc EXCEPT ![p] = "BUSY"]
      BY <2>2 DEF Refused, Stepped, Step
    <3>2. pc'[p] = "stepped" /\ rc'[p] = "BUSY"
      BY <3>1
    <3>3. WriteOf(p)' = WriteOf(p)
      BY <3>1, <3>2 DEF WriteOf
    <3> QED  BY <3>1, <3>3
  <2>3. CASE StepNothing(p)
    <3>1. /\ UNCHANGED <<stmt, answer>> /\ pc' = [pc EXCEPT ![p] = "stepped"] /\ stmt[p] = Create
          /\ rc' = [rc EXCEPT ![p] = "DONE"]
      BY <2>3 DEF StepNothing, Stepped, Step
    <3>2. WriteOf(p)' = WriteOf(p)
      BY <3>1 DEF WriteOf, Create
    <3> QED  BY <3>1, <3>2
  <2>4. CASE StepWrite(p) \/ Commit(p)
    <3>1. /\ UNCHANGED <<stmt, answer, rc>> /\ pc[p] \in {"write", "commit"}
          /\ \E next \in {"commit", "end"} : pc' = [pc EXCEPT ![p] = next]
      BY <2>4 DEF StepWrite, Commit, Step, writing
    <3>2. pc'[p] \in {"commit", "end"}
      BY <3>1
    <3>3. WriteOf(p)' = WriteOf(p)
      BY <3>1, <3>2 DEF WriteOf
    <3> QED  BY <3>1, <3>3
  <2>5. CASE StepRow(p)
    BY <2>5 DEF StepRow, writing, WriteOf
  <2>6. CASE LastRow(p) \/ RowRefused(p)
    <3>1. /\ UNCHANGED <<stmt, rc>> /\ pc[p] = "read" /\ pc' = [pc EXCEPT ![p] = "idle"]
          /\ answer' = [answer EXCEPT ![p] = [of |-> "rows", rows |-> list[p]]]
      BY <2>6 DEF LastRow, RowRefused, QueryReturn, Return, writing
    <3>2. answer'[p] = [of |-> "rows", rows |-> list[p]] /\ pc'[p] = "idle"
      BY <3>1
    <3>3. answer'[p].of # "exec"
      BY <3>2
    <3>4. WriteOf(p)' = WriteOf(p)
      BY <3>1, <3>2, <3>3 DEF WriteOf
    <3> QED  BY <3>1, <3>4
  <2> QED  BY <2>1, <2>2, <2>3, <2>4, <2>5, <2>6
<1> QED  BY <1>1, <1>2, SameWrite DEF Kept

\* For any number of programs, names and texts, whoever refuses, fails or crashes, and
\* wherever: a write happens at one instant of its native call or not at all, and as it
\* is answered if it is (Sqlite_exec).
THEOREM WritesHappenOnce == Spec => WritesAreAtomic
<1>1. ASSUME Init PROVE Wholly /\ Promise!Init
  <2>1. Wholly
    BY <1>1, WhollyInit
  <2>2. \A p \in Programs : WriteOf(p) = [is |-> "none"]
    BY <1>1 DEF Init, WriteOf
  <2> QED  BY <1>1, <2>1, <2>2 DEF Init, Promise!Init, Promise!None
<1>2. ASSUME Wholly, [Next]_vars
      PROVE  [Promise!Next]_<<rows, [p \in Programs |-> WriteOf(p)]>>
  <2>1. ASSUME NEW p \in Programs, Crash(p) PROVE Promise!Leave(p)
    <3>1. /\ rows' = rows /\ pc' = [pc EXCEPT ![p] = "down"] /\ rc' = [rc EXCEPT ![p] = "DONE"]
          /\ answer' = [answer EXCEPT ![p] = [of |-> "none"]] /\ stmt' = [stmt EXCEPT ![p] = Create]
      BY <2>1 DEF Crash, Forget
    <3>2. pc'[p] = "down"
      BY <1>2, <3>1 DEF Wholly, Typed
    <3>3. WriteOf(p)' = [is |-> "none"]
      BY <3>2 DEF WriteOf
    <3> QED  BY <3>1, <3>3, LeftWrite
  <2>2. CASE UNCHANGED vars
    <3>1. UNCHANGED <<rows, pc, stmt, rc, answer>>
      BY <2>2 DEF vars, writing
    <3>2. \A p \in Programs : WriteOf(p)' = WriteOf(p)
      BY <3>1 DEF WriteOf
    <3> QED  BY <3>1, <3>2
  <2>3. ASSUME NEW p \in Programs, NEW s \in Statements, Call(p, s) PROVE Promise!Next
    BY <1>2, <2>3, CallSimulated DEF Promise!Next
  <2>4. ASSUME NEW p \in Programs, EndCommit(p) PROVE Promise!Next \/ Kept
    BY <1>2, <2>4, EndCommitSimulated DEF Promise!Next
  <2>5. ASSUME NEW p \in Programs, ExecReturn(p) PROVE Promise!Next \/ Kept
    BY <1>2, <2>5, ReturnSimulated DEF Promise!Next
  <2>6. ASSUME NEW p \in Programs, Crash(p) PROVE Promise!Next
    BY <2>1, <2>6 DEF Promise!Next
  <2>7. ASSUME NEW p \in Programs,
               \/ Open(p) \/ (\E state \in {"write", "commit"} : \E locks : Refused(p, state, locks))
               \/ StepNothing(p) \/ StepWrite(p) \/ Commit(p) \/ StepRow(p) \/ LastRow(p) \/ RowRefused(p)
        PROVE  Kept
    BY <1>2, <2>7, RestSimulated
  <2>8. Promise!Next \/ Kept \/ UNCHANGED vars
    BY <1>2, <2>3, <2>4, <2>5, <2>6, <2>7 DEF Next, Statements
  <2> QED  BY <2>2, <2>8 DEF Kept
<1> QED  BY <1>1, <1>2, WhollyStep, PTL DEF Spec, WritesAreAtomic, Promise!Spec

---------------------------------------------------------------------------
(* Locks.                                                                  *)

Shape ==
  /\ pc \in [Programs -> {"down", "noimage", "idle", "write", "commit", "end", "stepped", "read"}]
  /\ lock \in [Programs -> {"none", "shared", "reserved", "exclusive"}]
  /\ DOMAIN list = Programs /\ DOMAIN seen = Programs

\* Who is in the middle of a query holds the shared lock, who ends a write the
\* exclusive one, and then nobody else reads.
Locking ==
  /\ \A p \in Programs : pc[p] = "end" => lock[p] = "exclusive"
  /\ \A p \in Programs : pc[p] = "read" /\ list[p] # <<>> => lock[p] = "shared"
  /\ \A p, q \in Programs : p # q /\ pc[p] = "end" => lock[q] # "shared"

\* The rows that a query has begun to read are still those of the table.
OneState == \A p \in Programs : pc[p] = "read" /\ list[p] # <<>> => seen[p] = rows

Reading == Shape /\ Locking /\ OneState

\* A native call that returns frees its lock, and nobody's reading is disturbed
\* when the rows stay.
LEMMA ReturnKeeps ==
  ASSUME Reading, NEW p \in Programs, NEW value, Return(p, value),
         UNCHANGED <<rows, list>>,
         DOMAIN seen' = Programs, \A q \in Programs \ {p} : seen'[q] = seen[q]
  PROVE  Reading'
<1> USE DEF Reading, Shape, Locking, OneState, Return
<1>1. Shape'  OBVIOUS
<1>2. Locking'  OBVIOUS
<1>3. OneState'  OBVIOUS
<1> QED  BY <1>1, <1>2, <1>3

\* The write that ends has the file to itself.
LEMMA NobodyReads ==
  ASSUME Reading, NEW p \in Programs, pc[p] = "end", NEW q \in Programs, q # p
  PROVE  ~(pc[q] = "read" /\ list[q] # <<>>)
  BY DEF Reading, Locking

LEMMA ReadingStep == Reading /\ [Next]_vars => Reading'
<1> SUFFICES ASSUME Reading, [Next]_vars PROVE Reading'
  OBVIOUS
<1> USE DEF Reading, Shape, Locking, OneState
<1>1. ASSUME NEW p \in Programs, Open(p) PROVE Reading'
  BY <1>1 DEF Open, reading
<1>2. ASSUME NEW p \in Programs, NEW s, Call(p, s) PROVE Reading'
  BY <1>2 DEF Call, Return
<1>3. ASSUME NEW p \in Programs, NEW state, NEW locks, Refused(p, state, locks) PROVE Reading'
  BY <1>3 DEF Refused, Stepped, Step, reading
<1>4. ASSUME NEW p \in Programs, StepNothing(p) \/ StepWrite(p) PROVE Reading'
  <2>1. CASE StepNothing(p)
    BY <2>1 DEF StepNothing, Stepped, Step, reading
  <2>2. CASE StepWrite(p)
    BY <2>2 DEF StepWrite, Step, reading
  <2> QED  BY <1>4, <2>1, <2>2
<1>5. ASSUME NEW p \in Programs, Commit(p) PROVE Reading'
  BY <1>5 DEF Commit, Others, Step, reading
<1>6. ASSUME NEW p \in Programs, EndCommit(p) PROVE Reading'
  <2>1. /\ pc[p] = "end" /\ pc' = [pc EXCEPT ![p] = "stepped"] /\ lock' = [lock EXCEPT ![p] = "none"]
        /\ list' = list /\ seen' = seen
    BY <1>6 DEF EndCommit, Stepped, Step, reading
  <2>2. Shape'
    BY <2>1
  <2>3. Locking'
    BY <2>1
  <2>4. OneState'
    <3> SUFFICES ASSUME NEW q \in Programs, pc'[q] = "read", list'[q] # <<>> PROVE FALSE
      OBVIOUS
    <3> QED  BY <2>1, NobodyReads
  <2> QED  BY <2>2, <2>3, <2>4
<1>7. ASSUME NEW p \in Programs, StepRow(p) PROVE Reading'
  <2> USE <1>7 DEF StepRow, Others
  <2>1. Shape'  OBVIOUS
  <2>2. Locking'  OBVIOUS
  <2>3. OneState'  OBVIOUS
  <2> QED  BY <2>1, <2>2, <2>3
<1>8. ASSUME NEW p \in Programs, LastRow(p) \/ RowRefused(p) PROVE Reading'
  BY <1>8, ReturnKeeps DEF LastRow, RowRefused, QueryReturn
<1>9. ASSUME NEW p \in Programs, Crash(p) PROVE Reading'
  BY <1>9 DEF Crash
<1>10. ASSUME NEW p \in Programs, ExecReturn(p) PROVE Reading'
  BY <1>10, ReturnKeeps DEF ExecReturn, reading
<1>11. CASE UNCHANGED vars
  BY <1>11 DEF vars, reading
<1> QED
  BY <1>1, <1>2, <1>3, <1>4, <1>5, <1>6, <1>7, <1>8, <1>9, <1>10, <1>11 DEF Next

\* From its first row to its return, a query reads a table that no program
\* changes, for any number of programs (the loop of Sqlite_query).
THEOREM ReadsOneState == Spec => []OneState
<1>1. Init => Reading
  BY DEF Init, Reading, Shape, Locking, OneState
<1>2. Reading => OneState
  BY DEF Reading
<1> QED  BY <1>1, <1>2, ReadingStep, PTL DEF Spec

---------------------------------------------------------------------------
(* The list of a query.                                                    *)

\* A set of numbers that is not empty has a least one.
LEMMA Least ==
  ASSUME NEW S, S \subseteq Nat, S # {}
  PROVE  \E m \in S : \A n \in S : m <= n
<1>1. IsWellFoundedOn(OpToRel(<, Nat), Nat)
  BY NatLessThanWellFounded
<1>2. PICK m \in S : \A n \in S : ~(<<n, m>> \in OpToRel(<, Nat))
  BY <1>1, WFMin, Zenon
<1>3. ASSUME NEW n \in S PROVE m <= n
  <2>1. ~(n < m)
    BY <1>2, <1>3, Zenon DEF OpToRel
  <2> QED  BY <2>1
<1> QED  BY <1>3

\* What a query of all rows has pushed when it has passed c names.
Listed(q, r, c) ==
  /\ c \in Nat
  /\ q \in Seq({Row(r, i) : i \in {j \in There(r) : j <= c}})
  /\ \A k, l \in DOMAIN q, i, j \in There(r) : q[k] = Row(r, i) /\ q[l] = Row(r, j) /\ k < l => i < j
  /\ \A i \in There(r) : i <= c => Has(q, Row(r, i))

\* Two places of the order hold two rows.
LEMMA RowsDiffer ==
  ASSUME NEW r, NEW i \in DOMAIN Order, NEW j \in DOMAIN Order, Row(r, i) = Row(r, j)
  PROVE  i = j
<1>1. Order[i] = Order[j]
  BY DEF Row
<1> QED  BY <1>1, StoreAssumption

LEMMA Places == DOMAIN Order \subseteq Nat \ {0}
<1>1. DOMAIN Order = 1 .. Len(Order) /\ Len(Order) \in Nat
  BY StoreAssumption
<1> QED  BY <1>1

\* Before its first row a query has listed what there is of any state.
LEMMA NothingListed == \A r : Listed(<<>>, r, 0)
<1> SUFFICES ASSUME NEW r PROVE Listed(<<>>, r, 0)
  OBVIOUS
<1>1. <<>> \in Seq({Row(r, i) : i \in {j \in There(r) : j <= 0}}) /\ DOMAIN <<>> = {}
  OBVIOUS
<1>2. \A i \in There(r) : i \in Nat /\ i > 0
  BY Places DEF There
<1> QED  BY <1>1, <1>2 DEF Listed

\* The next row goes to the end of the list.
LEMMA NextListed ==
  ASSUME NEW q, NEW r, NEW c, Listed(q, r, c), NEW i \in There(r), i > c,
         \A j \in There(r) : j > c => i <= j
  PROVE  Listed(Append(q, Row(r, i)), r, i)
<1> DEFINE Passed(d) == {Row(r, j) : j \in {k \in There(r) : k <= d}}
           s == Append(q, Row(r, i))
<1>1. /\ There(r) \subseteq Nat \ {0} /\ There(r) \subseteq DOMAIN Order
      /\ i \in Nat /\ c \in Nat /\ q \in Seq(Passed(c))
  BY Places DEF Listed, There
<1>2. Passed(c) \subseteq Passed(i) /\ Row(r, i) \in Passed(i)
  BY <1>1
<1>3. s \in Seq(Passed(i)) /\ DOMAIN s = 1 .. Len(q) + 1 /\ Len(q) \in Nat /\ DOMAIN q = 1 .. Len(q)
      /\ s[Len(q) + 1] = Row(r, i) /\ \A k \in 1 .. Len(q) : s[k] = q[k]
  <2>1. q \in Seq(Passed(i))
    BY <1>1, <1>2
  <2> HIDE DEF Passed
  <2> QED  BY <1>2, <2>1, AppendProperties, LenProperties
<1> HIDE DEF s
<1>4. \A k \in DOMAIN q : \E j \in There(r) : j <= c /\ q[k] = Row(r, j)
  <2> SUFFICES ASSUME NEW k \in DOMAIN q PROVE q[k] \in Passed(c)
    OBVIOUS
  <2> HIDE DEF Passed
  <2> QED  BY <1>1, ElementOfSeq, <1>3
<1>5. ASSUME NEW k \in DOMAIN s, NEW l \in DOMAIN s, NEW j \in There(r), NEW h \in There(r),
             s[k] = Row(r, j), s[l] = Row(r, h), k < l
      PROVE  j < h
  <2>1. k \in DOMAIN q /\ s[k] = q[k]
    BY <1>3, <1>5
  <2>2. CASE l = Len(q) + 1
    <3>1. h = i
      BY <1>1, <1>3, <1>5, <2>2, RowsDiffer
    <3>2. j <= c
      BY <1>1, <1>4, <1>5, <2>1, RowsDiffer
    <3> QED  BY <1>1, <3>1, <3>2
  <2>3. CASE l # Len(q) + 1
    <3>1. l \in DOMAIN q /\ s[l] = q[l]
      BY <1>3, <1>5, <2>3
    <3> QED  BY <1>5, <2>1, <3>1 DEF Listed
  <2> QED  BY <2>2, <2>3
<1>6. ASSUME NEW j \in There(r), j <= i PROVE Has(s, Row(r, j))
  <2>1. CASE j <= c
    BY <1>3, <2>1 DEF Listed, Has
  <2>2. CASE j = i
    BY <1>3, <2>2 DEF Has
  <2> QED  BY <1>1, <1>6, <2>1, <2>2
<1> QED  BY <1>1, <1>3, <1>5, <1>6 DEF Listed, s

\* What is listed are the first rows, and all when nothing is left.
LEMMA ListedFirst ==
  ASSUME NEW q, NEW r, NEW c, Listed(q, r, c)
  PROVE  /\ FirstRows(q, r)
         /\ (\A i \in There(r) : i <= c) => \A i \in There(r) : Has(q, Row(r, i))
<1> DEFINE Passed == {Row(r, j) : j \in {k \in There(r) : k <= c}}
<1>1. \A k \in DOMAIN q : \E j \in There(r) : j <= c /\ q[k] = Row(r, j)
  <2> SUFFICES ASSUME NEW k \in DOMAIN q PROVE q[k] \in Passed
    OBVIOUS
  <2>1. q \in Seq(Passed)
    BY DEF Listed
  <2> HIDE DEF Passed
  <2> QED  BY <2>1, ElementOfSeq
<1>2. ASSUME NEW i \in There(r), NEW j \in There(r), i < j, Has(q, Row(r, j))
      PROVE  Has(q, Row(r, i))
  <2>1. There(r) \subseteq DOMAIN Order /\ There(r) \subseteq Nat /\ c \in Nat
    BY Places DEF There, Listed
  <2>2. j <= c
    BY <1>1, <1>2, <2>1, RowsDiffer DEF Has
  <2> QED  BY <1>2, <2>1, <2>2 DEF Listed
<1> QED  BY <1>1, <1>2 DEF Listed, FirstRows

\* A query that runs has listed the rows it has passed, of the state the table is in:
\* until its first row it has passed none, and afterwards nobody writes.
Listing ==
  /\ DOMAIN stmt = Programs /\ DOMAIN cursor = Programs /\ DOMAIN cut = Programs
  /\ DOMAIN answer = Programs
  /\ \A p \in Programs : pc[p] = "read" /\ stmt[p] = All =>
        /\ Listed(list[p], rows, cursor[p])
        /\ list[p] = <<>> => cursor[p] = 0

\* A query that returns has listed the first rows of the state it saw, and all of
\* them when none is left.
LEMMA Returned ==
  ASSUME Reading, Listing, NEW p \in Programs, pc[p] = "read", stmt[p] = All,
         NEW state, state = IF list[p] = <<>> THEN rows ELSE seen[p]
  PROVE  /\ FirstRows(list[p], state)
         /\ Left(p) = {} => \A i \in There(state) : Has(list[p], Row(state, i))
<1>1. state = rows
  BY DEF Reading, OneState
<1>2. Listed(list[p], rows, cursor[p])
  BY DEF Listing
<1>3. Left(p) = {} => \A i \in There(rows) : i <= cursor[p]
  <2>1. There(rows) \subseteq Nat /\ cursor[p] \in Nat
    BY <1>2, Places DEF There, Listed
  <2>2. \A i \in There(rows) : Order[i] \in Selected(stmt[p])
    BY DEF Selected, All, Names, There
  <2> QED  BY <2>1, <2>2 DEF Left, There
<1> QED  BY <1>1, <1>2, <1>3, ListedFirst

\* What a write that returns changes of its program, and of no other.
LEMMA ExecReturned ==
  ASSUME Shape, Listing, NEW p \in Programs, ExecReturn(p)
  PROVE  /\ UNCHANGED <<stmt, cursor, list, seen, cut>> /\ DOMAIN answer' = Programs
         /\ \A q \in Programs \ {p} : pc'[q] = pc[q] /\ answer'[q] = answer[q]
         /\ pc[p] = "stepped" /\ pc'[p] = "idle" /\ answer'[p].of = "exec"
<1> DEFINE value == [of |-> "exec", reply |-> ExecReply(rc[p])]
<1>1. value.of = "exec"
  OBVIOUS
<1> HIDE DEF value
<1>2. /\ pc' = [pc EXCEPT ![p] = "idle"] /\ answer' = [answer EXCEPT ![p] = value]
      /\ UNCHANGED <<stmt, cursor, list, seen, cut>> /\ pc[p] = "stepped"
  BY DEF ExecReturn, Return, value, reading
<1> QED  BY <1>1, <1>2 DEF Shape, Listing

LEMMA ListingStep ==
  ASSUME Wholly, Reading, Listing, RowsOfOneState, [Next]_vars
  PROVE  Listing' /\ RowsOfOneState'
<1> USE DEF Reading, Shape
<1>1. ASSUME NEW p \in Programs, Open(p) \/ Crash(p) PROVE Listing' /\ RowsOfOneState'
  <2>1. CASE Open(p)
    <3>1. /\ UNCHANGED <<rows, stmt, cursor, list, seen, cut, answer>> /\ pc[p] = "down"
          /\ \E next \in {"idle", "noimage"} : pc' = [pc EXCEPT ![p] = next]
      BY <2>1 DEF Open, reading
    <3>2. answer[p].of = "none"
      BY <3>1 DEF Wholly, Typed
    <3>3. Listing'
      BY <3>1 DEF Listing
    <3>4. RowsOfOneState'
      BY <3>1, <3>2 DEF RowsOfOneState
    <3> QED  BY <3>3, <3>4
  <2>2. CASE Crash(p)
    BY <2>2 DEF Crash, Listing, RowsOfOneState
  <2> QED  BY <1>1, <2>1, <2>2
<1>2. ASSUME NEW p \in Programs, NEW s, Call(p, s) PROVE Listing' /\ RowsOfOneState'
  <2>1. /\ \A q \in Programs \ {p} : /\ pc'[q] = pc[q] /\ stmt'[q] = stmt[q] /\ list'[q] = list[q]
                                     /\ cursor'[q] = cursor[q] /\ answer'[q] = answer[q] /\ cut'[q] = cut[q]
        /\ rows' = rows /\ seen' = seen /\ list'[p] = <<>> /\ cursor'[p] = 0
        /\ DOMAIN stmt' = Programs /\ DOMAIN cursor' = Programs /\ DOMAIN cut' = Programs
        /\ DOMAIN answer' = Programs
        /\ pc'[p] # "idle" \/ answer'[p].of # "rows"
    BY <1>2 DEF Call, Return, Listing
  <2> QED  BY <2>1, NothingListed DEF Listing, RowsOfOneState
<1>3. ASSUME NEW p \in Programs, pc[p] # "read",
             UNCHANGED <<rows, stmt, cursor, list, seen, cut>>,
             \A q \in Programs \ {p} : pc'[q] = pc[q] /\ answer'[q] = answer[q],
             DOMAIN answer' = Programs, pc'[p] # "read",
             pc'[p] # "idle" \/ answer'[p].of # "rows"
      PROVE  Listing' /\ RowsOfOneState'
  BY <1>3 DEF Listing, RowsOfOneState
<1>4. ASSUME NEW p \in Programs, NEW state, state # "read", NEW locks, Refused(p, state, locks)
      PROVE  Listing' /\ RowsOfOneState'
  BY <1>3, <1>4 DEF Refused, Stepped, Step, reading, Listing
<1>5. ASSUME NEW p \in Programs, StepNothing(p) \/ StepWrite(p) \/ Commit(p) PROVE Listing' /\ RowsOfOneState'
  <2>1. /\ pc[p] # "read" /\ UNCHANGED <<rows, stmt, cursor, list, seen, cut, answer>>
        /\ \E next \in {"stepped", "commit", "end"} : pc' = [pc EXCEPT ![p] = next]
    BY <1>5 DEF StepNothing, Stepped, StepWrite, Commit, Step, reading
  <2> QED  BY <1>3, <2>1 DEF Listing
<1>6. ASSUME NEW p \in Programs, ExecReturn(p) PROVE Listing' /\ RowsOfOneState'
  <2>1. rows' = rows
    BY <1>6 DEF ExecReturn
  <2> QED  BY <1>3, <1>6, <2>1, ExecReturned
<1>7. ASSUME NEW p \in Programs, EndCommit(p) PROVE Listing' /\ RowsOfOneState'
  <2>1. /\ UNCHANGED <<stmt, cursor, list, seen, cut, answer>> /\ pc[p] = "end"
        /\ pc' = [pc EXCEPT ![p] = "stepped"]
    BY <1>7 DEF EndCommit, Stepped, Step, reading
  <2>2. \A q \in Programs : pc'[q] = "read" => list[q] = <<>>
    BY <2>1, NobodyReads
  <2>3. \A q \in Programs : pc'[q] = "read" => pc[q] = "read"
    BY <2>1
  <2>4. Listing'
    BY <2>1, <2>2, <2>3, NothingListed DEF Listing
  <2>5. RowsOfOneState'
    BY <2>1 DEF RowsOfOneState
  <2> QED  BY <2>4, <2>5
<1>8. ASSUME NEW p \in Programs, StepRow(p) PROVE Listing' /\ RowsOfOneState'
  <2> DEFINE i == CHOOSE i \in Left(p) : \A j \in Left(p) : i <= j
  <2>1. /\ Left(p) # {} /\ pc[p] = "read" /\ DOMAIN cursor' = Programs
        /\ cursor'[p] = i /\ list'[p] = Append(list[p], Pushed(stmt[p], Order[i]))
        /\ \A q \in Programs \ {p} : /\ list'[q] = list[q] /\ cursor'[q] = cursor[q] /\ seen'[q] = seen[q]
        /\ UNCHANGED <<rows, pc, stmt, answer, cut>>
    BY <1>8 DEF StepRow, Listing
  <2> HIDE DEF i
  <2>2. i \in Left(p) /\ \A j \in Left(p) : i <= j
    <3>1. Left(p) \subseteq Nat
      BY Places DEF Left
    <3> QED  BY <2>1, <3>1, Least DEF i
  <2>3. ASSUME stmt[p] = All
        PROVE  Listed(list'[p], rows, cursor'[p]) /\ list'[p] # <<>>
    <3>1. i \in There(rows) /\ i > cursor[p] /\ \A j \in There(rows) : j > cursor[p] => i <= j
      <4>1. \A j \in There(rows) : Order[j] \in Selected(stmt[p])
        BY <2>3 DEF Selected, All, Names, There
      <4> QED  BY <2>2, <4>1 DEF Left, There
    <3>2. list'[p] = Append(list[p], Row(rows, i)) /\ Listed(list[p], rows, cursor[p])
      BY <2>1, <2>3 DEF Pushed, All, Row, Listing
    <3>3. Listed(list'[p], rows, i)
      BY <3>1, <3>2, NextListed
    <3>4. Has(list'[p], Row(rows, i))
      BY <3>1, <3>3, Places DEF Listed, There
    <3> QED  BY <2>1, <3>3, <3>4 DEF Has
  <2> QED  BY <2>1, <2>3 DEF Listing, RowsOfOneState
<1>9. ASSUME NEW p \in Programs, LastRow(p) \/ RowRefused(p) PROVE Listing' /\ RowsOfOneState'
  <2>1. /\ pc[p] = "read" /\ pc'[p] = "idle" /\ answer'[p] = [of |-> "rows", rows |-> list[p]]
        /\ \A q \in Programs \ {p} : /\ pc'[q] = pc[q] /\ answer'[q] = answer[q]
                                     /\ seen'[q] = seen[q] /\ cut'[q] = cut[q]
        /\ UNCHANGED <<rows, stmt, cursor, list>> /\ DOMAIN answer' = Programs /\ DOMAIN cut' = Programs
        /\ seen'[p] = IF list[p] = <<>> THEN rows ELSE seen[p]
        /\ cut'[p] \/ Left(p) = {}
    BY <1>9 DEF LastRow, RowRefused, QueryReturn, Return, Listing
  <2>2. Listing'
    BY <2>1 DEF Listing
  <2>3. stmt[p] = All => /\ FirstRows(list[p], seen'[p])
                         /\ cut'[p] \/ \A j \in There(seen'[p]) : Has(list[p], Row(seen'[p], j))
    BY <2>1, Returned
  <2> QED  BY <2>1, <2>2, <2>3 DEF RowsOfOneState
<1>10. CASE UNCHANGED vars
  BY <1>10 DEF vars, reading, Listing, RowsOfOneState
<1> QED
  BY <1>1, <1>2, <1>4, <1>5, <1>6, <1>7, <1>8, <1>9, <1>10 DEF Next

\* What a query of all rows returns is the first rows of one state of the table, in
\* their order, and all of them unless SQLite refused a step; for any number of
\* programs and names, whoever writes meanwhile (Sqlite_query).
THEOREM RowsAreOfOneState == Spec => []RowsOfOneState
<1>1. Init => Reading /\ Listing /\ RowsOfOneState
  BY DEF Init, Reading, Shape, Locking, OneState, Listing, RowsOfOneState
<1> QED  BY <1>1, WhollyInit, WhollyStep, ReadingStep, ListingStep, PTL DEF Spec

---------------------------------------------------------------------------
(* Marshal: streams of words.                                              *)

LEMMA Induction ==
  ASSUME NEW T, T \subseteq Nat, 0 \in T, \A n \in T : n + 1 \in T
  PROVE  Nat \subseteq T
<1> DEFINE Out == Nat \ T
<1> SUFFICES ASSUME Out # {} PROVE FALSE
  OBVIOUS
<1>1. PICK x \in Out : \A y \in Out : ~(<<y, x>> \in OpToRel(<, Nat))
  <2>1. Out \subseteq Nat
    OBVIOUS
  <2> HIDE DEF Out
  <2> QED  BY <2>1, NatLessThanWellFounded, WFMin, Zenon
<1>2. x \in Nat /\ x # 0 /\ x - 1 \in Nat /\ x - 1 < x /\ (x - 1) + 1 = x
  OBVIOUS
<1>3. <<x - 1, x>> \in OpToRel(<, Nat)
  BY <1>2, Zenon DEF OpToRel
<1>4. x - 1 \in T
  BY <1>1, <1>2, <1>3, Zenon
<1> QED  BY <1>2, <1>4

\* The stream f after argument a, from the one before it.
Words(m, a) == [j \in 1 .. Travel(m.args[a]).n |-> <<a, j>>]
NextStream(m, file, f, a) ==
  IF Travel(m.args[a]).file = file THEN f[a - 1] \o Words(m, a) ELSE f[a - 1]

LEMMA StreamToIs ==
  ASSUME NEW m \in Methods, NEW file
  PROVE  StreamTo(m, file) =
           [a \in 0 .. Len(m.args) |-> IF a = 0 THEN <<>> ELSE NextStream(m, file, StreamTo(m, file), a)]
<1> DEFINE N == Len(m.args)
           Part(f, k) == f = [a \in 0 .. k |-> IF a = 0 THEN <<>> ELSE NextStream(m, file, f, a)]
           T == {k \in Nat : \E f : Part(f, k)}
<1>0. N \in Nat
  BY MarshalAssumption
<1>1. 0 \in T
  <2> DEFINE f == [a \in 0 .. 0 |-> <<>>]
  <2>1. Part(f, 0)
    OBVIOUS
  <2> QED  BY <2>1
<1>2. ASSUME NEW k \in T PROVE k + 1 \in T
  <2>1. PICK f : Part(f, k)
    OBVIOUS
  <2> DEFINE g == [a \in 0 .. k + 1 |-> IF a = k + 1 THEN NextStream(m, file, f, k + 1) ELSE f[a]]
  <2>2. ASSUME NEW a \in 0 .. k + 1 PROVE g[a] = IF a = 0 THEN <<>> ELSE NextStream(m, file, g, a)
    <3>1. \A b \in 0 .. k : g[b] = f[b]
      OBVIOUS
    <3>2. a # 0 => NextStream(m, file, g, a) = NextStream(m, file, f, a)
      <4>1. a # 0 => g[a - 1] = f[a - 1]
        BY <3>1
      <4> HIDE DEF g
      <4> QED  BY <4>1 DEF NextStream
    <3>3. a # k + 1 => f[a] = IF a = 0 THEN <<>> ELSE NextStream(m, file, f, a)
      BY <2>1
    <3>4. g[a] = IF a = k + 1 THEN NextStream(m, file, f, k + 1) ELSE f[a]
      OBVIOUS
    <3> HIDE DEF g
    <3> QED  BY <3>2, <3>3, <3>4
  <2>3. Part(g, k + 1)
    BY <2>2
  <2>4. k + 1 \in Nat
    OBVIOUS
  <2> HIDE DEF Part, g
  <2> QED  BY <2>3, <2>4
<1>3. Nat \subseteq T
  <2> HIDE DEF T
  <2>1. T \subseteq Nat
    BY DEF T
  <2> QED  BY <1>1, <1>2, <2>1, Induction
<1>4. PICK f : Part(f, N)
  BY <1>0, <1>3
<1>5. StreamTo(m, file) = CHOOSE g : Part(g, N)
  BY DEF StreamTo, NextStream, Words
<1> HIDE DEF Part
<1>6. Part(StreamTo(m, file), N)
  BY <1>4, <1>5
<1> QED  BY <1>6 DEF Part

Word == Int \X Int

LEMMA WordsAre ==
  ASSUME NEW m \in Methods, NEW a \in DOMAIN m.args
  PROVE  /\ Travel(m.args[a]).n \in Nat
         /\ Words(m, a) \in Seq(Word)
         /\ Len(Words(m, a)) = Travel(m.args[a]).n
<1>1. Travel(m.args[a]).n \in Nat
  <2>1. Layout(m.args[a]) \in LayoutType
    BY MarshalAssumption DEF IsLayout
  <2> QED  BY <2>1 DEF Travel, LayoutType
<1>2. a \in Int
  BY MarshalAssumption
<1> HIDE DEF Travel
<1>3. \A j \in 1 .. Travel(m.args[a]).n : <<a, j>> \in Word
  BY <1>1, <1>2 DEF Word
<1> QED  BY <1>1, <1>3 DEF Words

\* The stream after argument a: that after the one before it, and its words.
LEMMA StreamSteps ==
  ASSUME NEW m \in Methods, NEW file
  PROVE  /\ StreamTo(m, file)[0] = <<>>
         /\ \A a \in 1 .. Len(m.args) :
              StreamTo(m, file)[a] = NextStream(m, file, StreamTo(m, file), a)
<1>1. Len(m.args) \in Nat
  BY MarshalAssumption
<1> DEFINE f == StreamTo(m, file)
<1>2. f = [a \in 0 .. Len(m.args) |-> IF a = 0 THEN <<>> ELSE NextStream(m, file, f, a)]
  BY StreamToIs
<1> HIDE DEF f
<1>3. f[0] = <<>> /\ \A a \in 1 .. Len(m.args) : f[a] = NextStream(m, file, f, a)
  BY <1>1, <1>2
<1> QED  BY <1>3 DEF f

LEMMA StreamsAre ==
  ASSUME NEW m \in Methods, NEW file
  PROVE  \A a \in 0 .. Len(m.args) : StreamTo(m, file)[a] \in Seq(Word)
<1> DEFINE f == StreamTo(m, file)
           T == {a \in Nat : a <= Len(m.args) => f[a] \in Seq(Word)}
<1>0. Len(m.args) \in Nat /\ DOMAIN m.args = 1 .. Len(m.args)
  BY MarshalAssumption
<1>1. f[0] = <<>> /\ \A a \in 1 .. Len(m.args) : f[a] = NextStream(m, file, f, a)
  BY StreamSteps
<1> HIDE DEF f
<1>2. 0 \in T
  <2>1. <<>> \in Seq(Word)
    OBVIOUS
  <2> QED  BY <1>1, <2>1
<1>3. ASSUME NEW a \in T PROVE a + 1 \in T
  <2> SUFFICES ASSUME a + 1 <= Len(m.args) PROVE f[a + 1] \in Seq(Word)
    OBVIOUS
  <2>1. a + 1 \in DOMAIN m.args /\ (a + 1) - 1 = a /\ f[a] \in Seq(Word)
    BY <1>0
  <2>2. Words(m, a + 1) \in Seq(Word)
    BY <2>1, WordsAre
  <2>3. f[a] \o Words(m, a + 1) \in Seq(Word)
    BY <2>1, <2>2, ConcatProperties
  <2> QED  BY <1>0, <1>1, <2>1, <2>3 DEF NextStream
<1>4. Nat \subseteq T
  <2> HIDE DEF T
  <2>1. T \subseteq Nat
    BY DEF T
  <2> QED  BY <1>2, <1>3, <2>1, Induction
<1> QED  BY <1>0, <1>4 DEF f

\* A stream only grows: what is put in so far fits where all of it does.
LEMMA StreamGrows ==
  ASSUME NEW m \in Methods, NEW file, NEW a \in 0 .. Len(m.args)
  PROVE  Len(StreamTo(m, file)[a]) <= Len(Stream(m, file))
<1> DEFINE f == StreamTo(m, file)
           N == Len(m.args)
           T == {k \in Nat : a + k <= N => Len(f[a]) <= Len(f[a + k])}
<1>0. N \in Nat /\ DOMAIN m.args = 1 .. N
  BY MarshalAssumption
<1>1. \A b \in 1 .. N : f[b] = NextStream(m, file, f, b)
  BY StreamSteps
<1>2. \A b \in 0 .. N : f[b] \in Seq(Word) /\ Len(f[b]) \in Nat
  BY StreamsAre, LenProperties
<1> HIDE DEF f
<1>3. 0 \in T
  BY <1>0, <1>2
<1>4. ASSUME NEW k \in T PROVE k + 1 \in T
  <2> SUFFICES ASSUME a + (k + 1) <= N PROVE Len(f[a]) <= Len(f[a + (k + 1)])
    OBVIOUS
  <2> DEFINE b == a + (k + 1)
  <2>1. b \in DOMAIN m.args /\ b - 1 = a + k /\ a + k \in 0 .. N /\ Len(f[a]) <= Len(f[a + k])
    BY <1>0
  <2>2. Words(m, b) \in Seq(Word)
    BY <2>1, WordsAre
  <2> HIDE DEF b
  <2>3. Len(f[a + k] \o Words(m, b)) = Len(f[a + k]) + Len(Words(m, b)) /\ Len(Words(m, b)) \in Nat
    BY <1>2, <2>1, <2>2, ConcatProperties, LenProperties
  <2>4. Len(f[b]) >= Len(f[a + k])
    <3>1. b \in 1 .. N
      BY <1>0, <2>1
    <3>2. f[b] \in {f[a + k] \o Words(m, b), f[a + k]}
      BY <1>1, <2>1, <3>1 DEF NextStream
    <3>3. CASE f[b] = f[a + k]
      BY <1>2, <2>1, <3>3
    <3>4. CASE f[b] = f[a + k] \o Words(m, b)
      BY <1>2, <2>1, <2>3, <3>4
    <3> QED  BY <3>2, <3>3, <3>4
  <2> QED  BY <1>0, <1>2, <2>1, <2>4 DEF b
<1>5. Nat \subseteq T
  <2> HIDE DEF T
  <2>1. T \subseteq Nat
    BY DEF T
  <2> QED  BY <1>3, <1>4, <2>1, Induction
<1>6. N - a \in T /\ a + (N - a) = N
  <2>1. N - a \in Nat /\ a + (N - a) = N
    BY <1>0
  <2> HIDE DEF T
  <2> QED  BY <1>5, <2>1
<1> QED  BY <1>6 DEF Stream, f

---------------------------------------------------------------------------
(* Marshal: tokens, and where they put the words.                          *)

\* The token tok tells how what travels as w does.
Tells(tok, w) ==
  \/ w.file = "none" /\ w.n = 0 /\ tok.c = "v"
  \/ w.file = "d" /\ w.n = 1 /\ tok.c = "f"
  \/ w.file = "d" /\ w.n \in 1 .. 4 /\ tok.c = "h" /\ tok.k = w.n
  \/ w.file = "x" /\ w.n \in 1 .. 2 /\ tok.c = "i" /\ tok.k = w.n
  \/ w.file = "x" /\ w.n = 1 /\ tok.c \in {"g", "*", "@"}

\* The token of a type measured right tells how it travels, unless it travels in
\* memory (TokenOf: the bounds of four floats and of sixteen bytes).
LEMMA TokenTells ==
  ASSUME NEW t, IsLayout(Layout(t)), Travel(t).file # "mem", NEW isRet, Layout(t).void => isRet,
         NEW kind \in KindsOf(t)
  PROVE  Tells(TokenOf(Measured(kind, t), isRet), Travel(t))
<1> DEFINE l == Layout(t)
           w == Travel(t)
           ti == Measured(kind, t)
           tok == TokenOf(ti, isRet)
<1>1. /\ l.void \in BOOLEAN /\ l.agg \in BOOLEAN /\ l.width \in {0, 32, 64}
      /\ l.regs \in Nat \ {0} /\ l.size \in Nat \ {0}
      /\ l.void => ~l.agg
      /\ ~l.agg => l.regs = 1
  BY DEF IsLayout, LayoutType
<1>2. ti.kind = kind /\ ti.size = l.size /\ ti.hfaN = IF l.width # 0 THEN l.regs ELSE 0
  BY DEF Measured
<1> HIDE DEF ti
<1>3. CASE l.void
  <2>1. kind = "VOID" /\ isRet
    BY <1>3 DEF KindsOf
  <2>2. tok.c = "v"
    BY <1>2, <2>1 DEF TokenOf, Tok
  <2> QED  BY <1>3, <2>2 DEF Tells, Travel, ti
<1>4. CASE l.agg
  <2>1. kind = "AGG" /\ ~l.void
    BY <1>1, <1>4 DEF KindsOf
  <2>2. tok = IF ti.hfaN \in 1 .. 4 THEN [c |-> "h", k |-> ti.hfaN]
              ELSE IF ti.size = 0 THEN Tok("?")
              ELSE IF ti.size <= 16 THEN [c |-> "i", k |-> (ti.size + 7) \div 8]
              ELSE IF isRet THEN Tok("s") ELSE Tok("b")
    BY <1>2, <2>1 DEF TokenOf
  <2> HIDE DEF tok
  <2>3. CASE l.width # 0 /\ l.regs <= 4
    <3>1. tok.c = "h" /\ tok.k = l.regs /\ l.regs \in 1 .. 4
      BY <1>1, <1>2, <2>2, <2>3
    <3>2. w.file = "d" /\ w.n = l.regs
      BY <2>1, <2>3 DEF Travel
    <3> QED  BY <3>1, <3>2 DEF Tells, tok, ti
  <2>4. CASE ~(l.width # 0 /\ l.regs <= 4)
    <3>1. w = [file |-> IF l.size <= 16 THEN "x" ELSE "mem", n |-> (l.size + 7) \div 8]
      BY <1>4, <2>1, <2>4 DEF Travel
    <3>2. l.size \in 1 .. 16 /\ w.file = "x" /\ w.n = (l.size + 7) \div 8
      BY <1>1, <3>1
    <3>3. (l.size + 7) \div 8 \in 1 .. 2
      BY <3>2
    <3>4. ti.hfaN \notin 1 .. 4 /\ ti.size # 0 /\ ti.size <= 16
      BY <1>1, <1>2, <2>4, <3>2
    <3>5. tok.c = "i" /\ tok.k = (l.size + 7) \div 8
      BY <1>2, <2>2, <3>4
    <3> QED  BY <3>2, <3>3, <3>5 DEF Tells, tok, ti
  <2> QED  BY <2>3, <2>4
<1>5. CASE ~l.void /\ ~l.agg /\ l.width # 0
  <2>1. kind = "FLOAT" /\ l.regs = 1
    BY <1>1, <1>5 DEF KindsOf
  <2>2. tok.c = "f"
    BY <1>2, <2>1 DEF TokenOf, Tok
  <2> QED  BY <1>5, <2>1, <2>2 DEF Tells, Travel, ti
<1>6. CASE ~l.void /\ ~l.agg /\ l.width = 0
  <2>1. kind \in {"SCALAR", "PTR", "CSTR", "OBJ"}
    BY <1>6 DEF KindsOf
  <2>2. tok.c \in {"g", "*", "@"}
    BY <1>2, <2>1 DEF TokenOf, Tok
  <2> QED  BY <1>6, <2>2 DEF Tells, Travel, ti
<1> QED  BY <1>1, <1>3, <1>4, <1>5, <1>6

\* With room for them, all words of an argument are put.
LEMMA PutFits ==
  ASSUME NEW file \in Seq(Word), NEW k \in Nat, NEW room \in Nat, Len(file) + k <= room
  PROVE  Put(file, k, room) = file \o [j \in 1 .. k |-> <<at, j>>]
<1>1. Len(file) \in Nat /\ room - Len(file) \in Nat /\ k <= room - Len(file)
  BY LenProperties
<1>2. Min({k, room - Len(file)}) = k
  BY <1>1 DEF Min
<1> QED  BY <1>2 DEF Put

---------------------------------------------------------------------------
(* Marshal: the words arrive.                                              *)

\* The words of the arguments before `at` are in the register files, and the
\* tokens are right.
Placed ==
  /\ Told(method, ret, toks)
  /\ at \in 1 .. Len(method.args) + 1
  /\ gpr = StreamTo(method, "x")[at - 1]
  /\ fpr = StreamTo(method, "d")[at - 1]

Sending ==
  /\ method \in Methods
  /\ phase = "classify" => at = 1 /\ gpr = <<>> /\ fpr = <<>>
  /\ phase = "marshal" /\ InShape(method) => Placed
  /\ SendArrives

\* What an argument that travels in fileX puts there is what the convention has
\* in its place; the stream of the other file stays.
LEMMA WordsPlaced ==
  ASSUME NEW fileX, NEW fileY, fileX # fileY, NEW room \in Nat,
         method \in Methods, at \in DOMAIN method.args,
         Len(Stream(method, fileX)) <= room,
         Travel(method.args[at]).file = fileX
  PROVE  /\ Put(StreamTo(method, fileX)[at - 1], Travel(method.args[at]).n, room)
              = StreamTo(method, fileX)[at]
         /\ StreamTo(method, fileY)[at - 1] = StreamTo(method, fileY)[at]
<1> DEFINE fX == StreamTo(method, fileX)
           fY == StreamTo(method, fileY)
           x == fX[at - 1]
           k == Travel(method.args[at]).n
<1>1. at \in 1 .. Len(method.args) /\ Len(method.args) \in Nat
  BY MarshalAssumption
<1>2. fX[at] = NextStream(method, fileX, fX, at) /\ fY[at] = NextStream(method, fileY, fY, at)
  BY <1>1, StreamSteps
<1>3. x \in Seq(Word)
  <2>1. at - 1 \in 0 .. Len(method.args)
    BY <1>1
  <2> QED  BY <2>1, StreamsAre
<1>4. Words(method, at) \in Seq(Word) /\ Len(Words(method, at)) = k /\ k \in Nat
  BY WordsAre
<1>5. Len(fX[at]) <= room /\ Len(fX[at]) \in Nat
  <2>1. at \in 0 .. Len(method.args)
    BY <1>1
  <2>2. Len(fX[at]) <= Len(Stream(method, fileX))
    BY <2>1, StreamGrows
  <2>3. Len(Stream(method, fileX)) \in Nat
    <3>1. Len(method.args) \in 0 .. Len(method.args)
      BY <1>1
    <3> QED  BY <3>1, StreamsAre, LenProperties DEF Stream
  <2>4. Len(fX[at]) \in Nat
    BY <2>1, StreamsAre, LenProperties
  <2> QED  BY <2>2, <2>3, <2>4
<1> HIDE DEF fX, fY
<1>6. fX[at] = x \o Words(method, at) /\ fY[at] = fY[at - 1]
  BY <1>2 DEF NextStream
<1> HIDE DEF x, k
<1>7. Len(fX[at]) = Len(x) + k
  BY <1>3, <1>4, <1>6, ConcatProperties
<1>8. Put(x, k, room) = x \o [j \in 1 .. k |-> <<at, j>>]
  BY <1>3, <1>4, <1>5, <1>7, PutFits
<1>9. Words(method, at) = [j \in 1 .. k |-> <<at, j>>]
  BY DEF Words, k
<1> QED  BY <1>6, <1>8, <1>9 DEF fX, fY, x, k

LEMMA ArgumentStep ==
  ASSUME Sending, phase = "marshal", InShape(method),
         MarshalFloat \/ MarshalHfa \/ MarshalInts \/ MarshalWord
  PROVE  Placed'
<1> DEFINE w == Travel(method.args[at])
           tok == toks[at]
<1>1. /\ Placed /\ method \in Methods /\ at <= Len(toks)
      /\ at' = at + 1 /\ method' = method /\ ret' = ret /\ toks' = toks /\ phase' = phase
  BY DEF Sending, MarshalFloat, MarshalHfa, MarshalInts, MarshalWord, Marshalling, Marshalled
<1>2. at \in DOMAIN method.args /\ Len(method.args) \in Nat /\ at \in 1 .. Len(method.args)
  BY <1>1, MarshalAssumption DEF Placed, Told
<1>3. Carried(method.args[at]) /\ Len(Stream(method, "x")) <= 6 /\ Len(Stream(method, "d")) <= 8
  BY <1>2 DEF InShape
<1>4. Tells(tok, w) /\ w.file \in {"x", "d"}
  <2>1. PICK kind \in KindsOf(method.args[at]) : tok = TokenOf(Measured(kind, method.args[at]), FALSE)
    BY <1>1, <1>2 DEF Placed, Told
  <2>2. ~Layout(method.args[at]).void
    BY <1>3 DEF Carried, Travel
  <2>3. w.file # "mem" /\ w.file \in {"x", "d"}
    BY <1>3 DEF Carried
  <2>4. IsLayout(Layout(method.args[at]))
    BY <1>1, <1>2, MarshalAssumption
  <2> QED  BY <2>1, <2>2, <2>3, <2>4, TokenTells
<1>5. w.n \in Nat
  BY <1>1, <1>2, WordsAre
<1> HIDE DEF w, tok
<1>6. \/ w.file = "d" /\ fpr' = Put(fpr, w.n, 8) /\ gpr' = gpr
      \/ w.file = "x" /\ gpr' = Put(gpr, w.n, 6) /\ fpr' = fpr
  <2>1. CASE MarshalFloat
    BY <2>1, <1>4 DEF MarshalFloat, Marshalling, Tells, tok
  <2>2. CASE MarshalHfa
    BY <2>2, <1>4 DEF MarshalHfa, Marshalling, Tells, tok
  <2>3. CASE MarshalInts
    BY <2>3, <1>4 DEF MarshalInts, Marshalling, Tells, tok
  <2>4. CASE MarshalWord
    BY <2>4, <1>4 DEF MarshalWord, Marshalling, Tells, tok
  <2> QED  BY <2>1, <2>2, <2>3, <2>4
<1>7. gpr' = StreamTo(method, "x")[at] /\ fpr' = StreamTo(method, "d")[at]
  <2>1. gpr = StreamTo(method, "x")[at - 1] /\ fpr = StreamTo(method, "d")[at - 1]
    BY <1>1 DEF Placed
  <2>2. CASE w.file = "d" /\ fpr' = Put(fpr, w.n, 8) /\ gpr' = gpr
    <3>1. /\ Put(StreamTo(method, "d")[at - 1], w.n, 8) = StreamTo(method, "d")[at]
          /\ StreamTo(method, "x")[at - 1] = StreamTo(method, "x")[at]
      <4>1. "d" # "x" /\ 8 \in Nat /\ Len(Stream(method, "d")) <= 8
        BY <1>3
      <4>2. Travel(method.args[at]).file = "d"
        BY <2>2 DEF w
      <4>3. method \in Methods /\ at \in DOMAIN method.args
        BY <1>1, <1>2
      <4>4. /\ Put(StreamTo(method, "d")[at - 1], Travel(method.args[at]).n, 8)
                 = StreamTo(method, "d")[at]
            /\ StreamTo(method, "x")[at - 1] = StreamTo(method, "x")[at]
        BY <4>1, <4>2, <4>3, WordsPlaced, Zenon
      <4> QED  BY <4>4 DEF w
    <3> QED  BY <2>1, <2>2, <3>1
  <2>3. CASE w.file = "x" /\ gpr' = Put(gpr, w.n, 6) /\ fpr' = fpr
    <3>1. /\ Put(StreamTo(method, "x")[at - 1], w.n, 6) = StreamTo(method, "x")[at]
          /\ StreamTo(method, "d")[at - 1] = StreamTo(method, "d")[at]
      <4>1. "x" # "d" /\ 6 \in Nat /\ Len(Stream(method, "x")) <= 6
        BY <1>3
      <4>2. Travel(method.args[at]).file = "x"
        BY <2>3 DEF w
      <4>3. method \in Methods /\ at \in DOMAIN method.args
        BY <1>1, <1>2
      <4>4. /\ Put(StreamTo(method, "x")[at - 1], Travel(method.args[at]).n, 6)
                 = StreamTo(method, "x")[at]
            /\ StreamTo(method, "d")[at - 1] = StreamTo(method, "d")[at]
        BY <4>1, <4>2, <4>3, WordsPlaced, Zenon
      <4> QED  BY <4>4 DEF w
    <3> QED  BY <2>1, <2>3, <3>1
  <2> QED  BY <1>6, <2>2, <2>3
<1>8. at' \in 1 .. Len(method.args) + 1 /\ at' - 1 = at
  BY <1>1, <1>2
<1>9. Told(method', ret', toks')
  BY <1>1 DEF Placed
<1> QED  BY <1>1, <1>7, <1>8, <1>9 DEF Placed

LEMMA SendStep == ASSUME Sending, Send PROVE SendArrives'
<1> SUFFICES ASSUME InShape(method)
             PROVE  /\ gpr = Stream(method, "x") /\ fpr = Stream(method, "d")
                    /\ Len(result') >= Travel(method.ret).n
                    /\ \A j \in 1 .. Travel(method.ret).n : result'[j] = j
  BY DEF Send, SendArrives
<1>1. Placed /\ method \in Methods /\ at > Len(toks)
  BY DEF Sending, Send
<1>2. Len(method.args) \in Nat /\ at = Len(method.args) + 1
  BY <1>1, MarshalAssumption DEF Placed, Told
<1>3. gpr = Stream(method, "x") /\ fpr = Stream(method, "d")
  <2>1. at - 1 = Len(method.args)
    BY <1>2
  <2> QED  BY <1>1, <2>1 DEF Placed, Stream
<1> DEFINE w == Travel(method.ret)
<1>4. Tells(ret, w)
  <2>1. PICK kind \in KindsOf(method.ret) : ret = TokenOf(Measured(kind, method.ret), TRUE)
    BY <1>1 DEF Placed, Told
  <2>2. w.file # "mem"
    BY DEF InShape, Carried, Travel
  <2>3. IsLayout(Layout(method.ret))
    BY <1>1, MarshalAssumption
  <2> QED  BY <2>1, <2>2, <2>3, TokenTells
<1> HIDE DEF w
<1>5. /\ w.n \in Nat /\ RetKind.n \in Nat /\ w.n <= RetKind.n
      /\ w.n > 0 => RetKind.file = w.file
  BY <1>4 DEF Tells, RetKind
<1>6. result' = [j \in 1 .. RetKind.n |-> IF RetKind.file = w.file /\ j <= w.n THEN j ELSE 0]
  BY DEF Send, w
<1> HIDE DEF RetKind
<1>7. Len(result') = RetKind.n /\ \A j \in 1 .. w.n : result'[j] = j
  BY <1>5, <1>6
<1> QED  BY <1>3, <1>5, <1>7 DEF w

LEMMA SendingStep == Sending /\ [MarshalNext]_marshalVars => Sending'
<1> SUFFICES ASSUME Sending, [MarshalNext]_marshalVars PROVE Sending'
  OBVIOUS
<1>1. CASE Classify
  <2>1. SendArrives'
    BY <1>1 DEF Classify, SendArrives, Sending
  <2>2. phase' = "marshal" /\ InShape(method) => Placed'
    <3> SUFFICES ASSUME phase' = "marshal", InShape(method) PROVE Placed'
      OBVIOUS
    <3>1. Told(method, ret', toks') /\ at' = 1 /\ gpr' = <<>> /\ fpr' = <<>> /\ method' = method
      BY <1>1 DEF Classify, Sending
    <3>2. at' - 1 = 0 /\ at' \in 1 .. Len(method.args) + 1
      BY <3>1, MarshalAssumption DEF Sending
    <3>3. method \in Methods
      BY DEF Sending
    <3>4. gpr' = StreamTo(method, "x")[0] /\ fpr' = StreamTo(method, "d")[0]
      BY <3>1, <3>3, StreamSteps
    <3> QED  BY <3>1, <3>2, <3>4 DEF Placed
  <2> QED  BY <1>1, <2>1, <2>2 DEF Classify, Sending
<1>2. CASE MarshalFloat \/ MarshalHfa \/ MarshalInts \/ MarshalWord
  <2>1. phase = "marshal" /\ phase' = phase /\ method' = method
    BY <1>2 DEF MarshalFloat, MarshalHfa, MarshalInts, MarshalWord, Marshalling, Marshalled
  <2>2. InShape(method) => Placed'
    BY <1>2, <2>1, ArgumentStep
  <2> QED  BY <2>1, <2>2 DEF Sending, SendArrives
<1>3. CASE Send
  BY <1>3, SendStep DEF Send, Sending
<1>4. CASE UNCHANGED marshalVars
  BY <1>4 DEF marshalVars, Sending, Placed, SendArrives
<1> QED  BY <1>1, <1>2, <1>3, <1>4 DEF MarshalNext

\* Whatever the methods and the layouts of their types, a send that the fixed
\* shape can carry puts every word of every argument where the callee reads it
\* and returns the whole result, if its types are measured right.
THEOREM WordsArrive == MarshalSpec => []SendArrives
<1>1. Unsent => Sending
  BY DEF Unsent, Sending, SendArrives
<1>2. Sending => SendArrives
  BY DEF Sending
<1> QED  BY <1>1, <1>2, SendingStep, PTL DEF MarshalSpec

---------------------------------------------------------------------------
(* Abi: what is defined by recursion over members or types.                *)

\* A value for each of 0 .. N, each made from the one before it.
Stages(g, N, S, first, step) ==
  g \in [0 .. N -> S] /\ g[0] = first /\ \A k \in 1 .. N : g[k] = step[<<k, g[k - 1]>>]

\* There is one for every step function.
LEMMA StagesExist ==
  ASSUME NEW N \in Nat, NEW S, NEW first \in S, NEW step \in [(1 .. N) \X S -> S]
  PROVE  \E g : Stages(g, N, S, first, step)
<1> DEFINE Part(g, n) == g \in [0 .. n -> S] /\ g[0] = first /\ \A k \in 1 .. n : g[k] = step[<<k, g[k - 1]>>]
           T == {n \in Nat : n <= N => \E g : Part(g, n)}
<1>1. 0 \in T
  <2>1. Part([k \in 0 .. 0 |-> first], 0)
    OBVIOUS
  <2> QED  BY <2>1
<1>2. ASSUME NEW n \in T PROVE n + 1 \in T
  <2> SUFFICES ASSUME n + 1 <= N PROVE \E g : Part(g, n + 1)
    OBVIOUS
  <2>1. PICK f : Part(f, n)
    OBVIOUS
  <2> DEFINE last == step[<<n + 1, f[n]>>]
             g == [k \in 0 .. n + 1 |-> IF k = n + 1 THEN last ELSE f[k]]
  <2>2. f \in [0 .. n -> S] /\ f[n] \in S /\ n + 1 \in 1 .. N
    BY <2>1
  <2>3. last \in S
    BY <2>2
  <2> HIDE DEF last
  <2>4. g \in [0 .. n + 1 -> S] /\ g[n + 1] = last /\ \A k \in 0 .. n : g[k] = f[k]
    BY <2>2, <2>3
  <2> HIDE DEF g
  <2>5. g[0] = first
    BY <2>1, <2>4
  <2>6. ASSUME NEW k \in 1 .. n + 1 PROVE g[k] = step[<<k, g[k - 1]>>]
    <3>1. CASE k = n + 1
      <4>1. k - 1 = n /\ n \in 0 .. n
        BY <3>1
      <4> QED  BY <3>1, <4>1, <2>4 DEF last
    <3>2. CASE k \in 1 .. n
      <4>1. k - 1 \in 0 .. n /\ k \in 0 .. n
        BY <3>2
      <4> QED  BY <3>2, <4>1, <2>1, <2>4
    <3> QED  BY <3>1, <3>2
  <2>7. Part(g, n + 1)
    BY <2>4, <2>5, <2>6
  <2> HIDE DEF Part
  <2> QED  BY <2>7
<1>3. Nat \subseteq T
  <2> HIDE DEF T
  <2>1. T \subseteq Nat
    BY DEF T
  <2> QED  BY <1>1, <1>2, <2>1, Induction
<1> HIDE DEF Part
<1>4. PICK g : Part(g, N)
  BY <1>3
<1> QED  BY <1>4 DEF Part, Stages

\* What holds at first and from one to the next holds of all.
LEMMA StagesIn ==
  ASSUME NEW N \in Nat, NEW S, NEW f, f[0] \in S, \A k \in 1 .. N : f[k - 1] \in S => f[k] \in S
  PROVE  \A k \in 0 .. N : f[k] \in S
<1> DEFINE T == {k \in Nat : k <= N => f[k] \in S}
<1>1. 0 \in T
  OBVIOUS
<1>2. ASSUME NEW k \in T PROVE k + 1 \in T
  <2> SUFFICES ASSUME k + 1 <= N PROVE f[k + 1] \in S
    OBVIOUS
  <2>1. k + 1 \in 1 .. N /\ (k + 1) - 1 = k /\ f[k] \in S
    OBVIOUS
  <2> QED  BY <2>1
<1>3. Nat \subseteq T
  <2> HIDE DEF T
  <2>1. T \subseteq Nat
    BY DEF T
  <2> QED  BY <1>1, <1>2, <2>1, Induction
<1> QED  BY <1>3

\* What the parser reads, and the types with members.
Text == Seq(Chars)

LEMMA TextsJoin ==
  ASSUME NEW a \in Text, NEW b \in Text, NEW c \in Text
  PROVE  (a \o b) \o c = a \o (b \o c)
BY ConcatAssociative DEF Text
HasFields(t) == t.k \in {"struct", "union"}

\* A type has a text, a layout and, in brackets, members that are types.
LEMMA TypesAre ==
  ASSUME NEW t \in Types
  PROVE  /\ Encode(t) \in Text /\ IsLayout(Layout(t)) /\ IsType(t)
         /\ HasFields(t) => /\ Len(t.m) \in Nat \ {0} /\ DOMAIN t.m = 1 .. Len(t.m)
                            /\ \A i \in 1 .. Len(t.m) : t.m[i] \in Known /\ t.m[i] \in Types
<1>1. Encode(t) \in Text /\ IsLayout(Layout(t)) /\ IsType(t)
  BY AbiAssumption DEF Text, LayoutRule
<1>2. HasFields(t) => t.m \in Seq(Known) /\ t.m # <<>>
  BY <1>1 DEF IsType, HasFields
<1>3. HasFields(t) => /\ Len(t.m) \in Nat \ {0} /\ DOMAIN t.m = 1 .. Len(t.m)
                      /\ \A i \in 1 .. Len(t.m) : t.m[i] \in Known
  BY <1>2
<1> QED  BY <1>1, <1>3 DEF Known

\* Letters and numbers are characters.
LEMMA CharsAre ==
  /\ \A c \in Letters : Ch(c) \in Chars /\ Ch(c).c = c
  /\ \A n \in Nat : Num(n) \in Chars /\ Num(n).c = "num" /\ Num(n).n = n
<1>1. ASSUME NEW c \in Letters PROVE Ch(c) \in Chars /\ Ch(c).c = c
  BY DEF Ch, Chars
<1>2. ASSUME NEW n \in Nat PROVE Num(n) \in Chars /\ Num(n).c = "num" /\ Num(n).n = n
  BY DEF Num, Chars, Letters
<1> QED  BY <1>1, <1>2

\* The text of the members: the closing bracket, and before it one member more.
LEMMA MembersAre ==
  ASSUME NEW t \in Types, HasFields(t)
  PROVE  /\ \A k \in 0 .. Len(t.m) : Members(t)[k] \in Text
         /\ Members(t)[0] = <<Ch(Closer(t))>>
         /\ \A k \in 1 .. Len(t.m) :
              Members(t)[k] = Encode(t.m[Len(t.m) + 1 - k]) \o Members(t)[k - 1]
<1> DEFINE N == Len(t.m)
           first == <<Ch(Closer(t))>>
           One(k, x) == Encode(t.m[Len(t.m) + 1 - k]) \o x
           step == [ks \in (1 .. N) \X Text |-> One(ks[1], ks[2])]
           Is(g) == g = [k \in 0 .. N |-> IF k = 0 THEN first ELSE One(k, g[k - 1])]
<1>1. N \in Nat
  BY TypesAre
<1>2. first \in Text
  <2>1. Ch(Closer(t)) \in Chars
    BY CharsAre DEF Closer, Letters
  <2> QED  BY <2>1 DEF Text
<1>3. \A k \in 1 .. N, x \in Text : One(k, x) \in Text
  <2>1. \A k \in 1 .. N : Len(t.m) + 1 - k \in 1 .. Len(t.m)
    BY <1>1
  <2>2. \A i \in 1 .. Len(t.m) : Encode(t.m[i]) \in Text
    BY TypesAre
  <2>3. \A k \in 1 .. N : Encode(t.m[Len(t.m) + 1 - k]) \in Text
    BY <2>1, <2>2
  <2> HIDE DEF N
  <2> QED  BY <2>3, ConcatProperties DEF Text
<1> HIDE DEF One, N, first
<1>4. step \in [(1 .. N) \X Text -> Text]
  BY <1>3
<1>5. \A k \in 1 .. N, x \in Text : step[<<k, x>>] = One(k, x)
  OBVIOUS
<1> HIDE DEF step
<1>6. PICK g : Stages(g, N, Text, first, step)
  BY <1>1, <1>2, <1>4, StagesExist, Zenon
<1>7. Is(g)
  <2>1. \A k \in 1 .. N : k - 1 \in 0 .. N
    BY <1>1
  <2>2. \A k \in 1 .. N : g[k] = One(k, g[k - 1])
    BY <1>5, <1>6, <2>1 DEF Stages
  <2>3. \A k \in 0 .. N : g[k] = IF k = 0 THEN first ELSE One(k, g[k - 1])
    BY <1>1, <1>6, <2>2 DEF Stages
  <2> QED  BY <1>6, <2>3 DEF Stages
<1>8. Members(t) = CHOOSE f : Is(f)
  BY DEF Members, One, N, first
<1>9. Is(Members(t))
  <2> HIDE DEF Is
  <2> QED  BY <1>7, <1>8
<1> DEFINE f == Members(t)
<1> HIDE DEF f
<1>10. f[0] = first /\ \A k \in 1 .. N : f[k] = One(k, f[k - 1])
  <2>1. f = [k \in 0 .. N |-> IF k = 0 THEN first ELSE One(k, f[k - 1])]
    BY <1>9 DEF f
  <2>2. \A k \in 0 .. N : f[k] = IF k = 0 THEN first ELSE One(k, f[k - 1])
    BY <2>1, Zenon
  <2>3. 0 \in 0 .. N /\ \A k \in 1 .. N : k \in 0 .. N /\ k # 0
    BY <1>1
  <2> QED  BY <2>2, <2>3, Zenon
<1>11. \A k \in 0 .. N : f[k] \in Text
  <2>1. \A k \in 1 .. N : f[k - 1] \in Text => f[k] \in Text
    BY <1>3, <1>10
  <2> QED  BY <1>1, <1>2, <1>10, <2>1, StagesIn
<1> QED  BY <1>10, <1>11 DEF f, N, One, first

\* The types of a method's encoding are its result, self, _cmd and its arguments.
LEMMA MethodsAre ==
  ASSUME NEW m \in Methods
  PROVE  /\ Len(m.args) \in Nat /\ DOMAIN m.args = 1 .. Len(m.args)
         /\ Arity(m) \in Nat /\ Arity(m) = Len(m.args) + 3
         /\ \A i \in 1 .. Arity(m) : TypeAt(m, i) \in Known /\ TypeAt(m, i) \in Types
         /\ TypeAt(m, 1) = m.ret
         /\ \A a \in DOMAIN m.args : TypeAt(m, a + 3) = m.args[a]
<1>1. m.ret \in Known /\ m.args \in Seq(Known) /\ Prim("@") \in Known /\ Prim(":") \in Known
  BY AbiAssumption DEF Known, Prim
<1>2. Len(m.args) \in Nat /\ DOMAIN m.args = 1 .. Len(m.args) /\ \A a \in DOMAIN m.args : m.args[a] \in Known
  BY <1>1
<1>3. Arity(m) \in Nat /\ Arity(m) = Len(m.args) + 3
  BY <1>2 DEF Arity
<1>4. TypeAt(m, 1) = m.ret /\ TypeAt(m, 2) = Prim("@") /\ TypeAt(m, 3) = Prim(":")
  BY DEF TypeAt
<1>5. \A a \in DOMAIN m.args : TypeAt(m, a + 3) = m.args[a]
  <2> TAKE a \in DOMAIN m.args
  <2>1. a + 3 \notin {1, 2, 3} /\ (a + 3) - 3 = a
    BY <1>2
  <2> QED  BY <2>1 DEF TypeAt
<1>6. \A i \in 1 .. Arity(m) : i \in {1, 2, 3} \/ \E a \in DOMAIN m.args : i = a + 3
  <2> TAKE i \in 1 .. Arity(m)
  <2>1. i \in {1, 2, 3} \/ (i - 3 \in DOMAIN m.args /\ i = (i - 3) + 3)
    BY <1>2, <1>3
  <2> QED  BY <2>1
<1> QED  BY <1>1, <1>2, <1>3, <1>4, <1>5, <1>6 DEF Known

\* The text of a method: one type more and the number after it.
LEMMA EncodingIs ==
  ASSUME NEW m \in Methods
  PROVE  /\ \A k \in 0 .. Arity(m) : Encoding(m)[k] \in Text
         /\ Encoding(m)[0] = <<>>
         /\ \A k \in 1 .. Arity(m) :
              Encoding(m)[k] = Encode(TypeAt(m, Arity(m) + 1 - k)) \o (<<Num(8 * k)>> \o Encoding(m)[k - 1])
<1> DEFINE N == Arity(m)
           first == <<>>
           One(k, x) == Encode(TypeAt(m, Arity(m) + 1 - k)) \o (<<Num(8 * k)>> \o x)
           step == [ks \in (1 .. N) \X Text |-> One(ks[1], ks[2])]
           Is(g) == g = [k \in 0 .. N |-> IF k = 0 THEN first ELSE One(k, g[k - 1])]
<1>1. N \in Nat
  BY MethodsAre
<1>2. first \in Text
  BY DEF Text
<1>3. \A k \in 1 .. N, x \in Text : One(k, x) \in Text
  <2>1. \A k \in 1 .. N : Arity(m) + 1 - k \in 1 .. Arity(m) /\ 8 * k \in Nat
    BY <1>1
  <2>2. \A k \in 1 .. N : Encode(TypeAt(m, Arity(m) + 1 - k)) \in Text /\ Num(8 * k) \in Chars
    BY <2>1, MethodsAre, TypesAre, CharsAre
  <2> HIDE DEF N
  <2>3. \A k \in 1 .. N, x \in Text : <<Num(8 * k)>> \o x \in Text
    BY <2>2 DEF Text
  <2> QED  BY <2>2, <2>3, ConcatProperties DEF Text
<1> HIDE DEF One, N, first
<1>4. step \in [(1 .. N) \X Text -> Text]
  BY <1>3
<1>5. \A k \in 1 .. N, x \in Text : step[<<k, x>>] = One(k, x)
  OBVIOUS
<1> HIDE DEF step
<1>6. PICK g : Stages(g, N, Text, first, step)
  BY <1>1, <1>2, <1>4, StagesExist, Zenon
<1>7. Is(g)
  <2>1. \A k \in 1 .. N : k - 1 \in 0 .. N
    BY <1>1
  <2>2. \A k \in 1 .. N : g[k] = One(k, g[k - 1])
    BY <1>5, <1>6, <2>1 DEF Stages
  <2>3. \A k \in 0 .. N : g[k] = IF k = 0 THEN first ELSE One(k, g[k - 1])
    BY <1>1, <1>6, <2>2 DEF Stages
  <2> QED  BY <1>6, <2>3 DEF Stages
<1>8. Encoding(m) = CHOOSE f : Is(f)
  BY DEF Encoding, One, N, first
<1>9. Is(Encoding(m))
  <2> HIDE DEF Is
  <2> QED  BY <1>7, <1>8
<1> DEFINE f == Encoding(m)
<1> HIDE DEF f
<1>10. f[0] = first /\ \A k \in 1 .. N : f[k] = One(k, f[k - 1])
  <2>1. f = [k \in 0 .. N |-> IF k = 0 THEN first ELSE One(k, f[k - 1])]
    BY <1>9 DEF f
  <2>2. \A k \in 0 .. N : f[k] = IF k = 0 THEN first ELSE One(k, f[k - 1])
    BY <2>1, Zenon
  <2>3. 0 \in 0 .. N /\ \A k \in 1 .. N : k \in 0 .. N /\ k # 0
    BY <1>1
  <2> QED  BY <2>2, <2>3, Zenon
<1>11. \A k \in 0 .. N : f[k] \in Text
  <2>1. \A k \in 1 .. N : f[k - 1] \in Text => f[k] \in Text
    BY <1>3, <1>10
  <2> QED  BY <1>1, <1>2, <1>10, <2>1, StagesIn
<1> QED  BY <1>10, <1>11 DEF f, N, One, first

\* Rounded up to an alignment a size is still one.
LEMMA RoundUpIs == \A x, a \in Nat : RoundUp(x, a) \in Nat
<1> SUFFICES ASSUME NEW x \in Nat, NEW a \in Nat, a > 1 PROVE ((x + a - 1) \div a) * a \in Nat
  BY DEF RoundUp
<1>1. (x + a - 1) \div a \in Nat
  OBVIOUS
<1> QED  BY <1>1

\* Where the first members of a struct end.
LEMMA StructEndIs ==
  ASSUME NEW t \in Types, HasFields(t)
  PROVE  /\ \A k \in 0 .. Len(t.m) : StructEnd(t)[k] \in Nat
         /\ StructEnd(t)[0] = 0
         /\ \A k \in 1 .. Len(t.m) :
              StructEnd(t)[k] = RoundUp(StructEnd(t)[k - 1], Layout(t.m[k]).align) + Layout(t.m[k]).size
<1> DEFINE N == Len(t.m)
           first == 0
           One(k, x) == RoundUp(x, Layout(t.m[k]).align) + Layout(t.m[k]).size
           step == [ks \in (1 .. N) \X Nat |-> One(ks[1], ks[2])]
           Is(g) == g = [k \in 0 .. N |-> IF k = 0 THEN first ELSE One(k, g[k - 1])]
<1>1. N \in Nat
  BY TypesAre
<1>2. first \in Nat
  OBVIOUS
<1>3. \A k \in 1 .. N, x \in Nat : One(k, x) \in Nat
  <2>1. \A i \in 1 .. N : Layout(t.m[i]) \in LayoutType
    BY TypesAre DEF IsLayout
  <2>2. \A i \in 1 .. N : /\ Layout(t.m[i]).size \in Nat /\ Layout(t.m[i]).align \in Nat
                         /\ Layout(t.m[i]).regs \in Nat
    BY <2>1 DEF LayoutType
  <2> HIDE DEF N
  <2>3. \A k \in 1 .. N, x \in Nat : RoundUp(x, Layout(t.m[k]).align) \in Nat
    BY <2>2, RoundUpIs
  <2> QED  BY <2>2, <2>3
<1> HIDE DEF One, N, first
<1>4. step \in [(1 .. N) \X Nat -> Nat]
  BY <1>3
<1>5. \A k \in 1 .. N, x \in Nat : step[<<k, x>>] = One(k, x)
  OBVIOUS
<1> HIDE DEF step
<1>6. PICK g : Stages(g, N, Nat, first, step)
  BY <1>1, <1>2, <1>4, StagesExist, Zenon
<1>7. Is(g)
  <2>1. \A k \in 1 .. N : k - 1 \in 0 .. N
    BY <1>1
  <2>2. \A k \in 1 .. N : g[k] = One(k, g[k - 1])
    BY <1>5, <1>6, <2>1 DEF Stages
  <2>3. \A k \in 0 .. N : g[k] = IF k = 0 THEN first ELSE One(k, g[k - 1])
    BY <1>1, <1>6, <2>2 DEF Stages
  <2> QED  BY <1>6, <2>3 DEF Stages
<1>8. StructEnd(t) = CHOOSE f : Is(f)
  BY DEF StructEnd, One, N, first
<1>9. Is(StructEnd(t))
  <2> HIDE DEF Is
  <2> QED  BY <1>7, <1>8
<1> DEFINE f == StructEnd(t)
<1> HIDE DEF f
<1>10. f[0] = first /\ \A k \in 1 .. N : f[k] = One(k, f[k - 1])
  <2>1. f = [k \in 0 .. N |-> IF k = 0 THEN first ELSE One(k, f[k - 1])]
    BY <1>9 DEF f
  <2>2. \A k \in 0 .. N : f[k] = IF k = 0 THEN first ELSE One(k, f[k - 1])
    BY <2>1, Zenon
  <2>3. 0 \in 0 .. N /\ \A k \in 1 .. N : k \in 0 .. N /\ k # 0
    BY <1>1
  <2> QED  BY <2>2, <2>3, Zenon
<1>11. \A k \in 0 .. N : f[k] \in Nat
  <2>1. \A k \in 1 .. N : f[k - 1] \in Nat => f[k] \in Nat
    BY <1>3, <1>10
  <2> QED  BY <1>1, <1>2, <1>10, <2>1, StagesIn
<1> QED  BY <1>10, <1>11 DEF f, N, One, first

\* How many registers they take.
LEMMA StructRegsIs ==
  ASSUME NEW t \in Types, HasFields(t)
  PROVE  /\ \A k \in 0 .. Len(t.m) : StructRegs(t)[k] \in Nat
         /\ StructRegs(t)[0] = 0
         /\ \A k \in 1 .. Len(t.m) : StructRegs(t)[k] = StructRegs(t)[k - 1] + Layout(t.m[k]).regs
<1> DEFINE N == Len(t.m)
           first == 0
           One(k, x) == x + Layout(t.m[k]).regs
           step == [ks \in (1 .. N) \X Nat |-> One(ks[1], ks[2])]
           Is(g) == g = [k \in 0 .. N |-> IF k = 0 THEN first ELSE One(k, g[k - 1])]
<1>1. N \in Nat
  BY TypesAre
<1>2. first \in Nat
  OBVIOUS
<1>3. \A k \in 1 .. N, x \in Nat : One(k, x) \in Nat
  <2>1. \A i \in 1 .. N : Layout(t.m[i]) \in LayoutType
    BY TypesAre DEF IsLayout
  <2>2. \A i \in 1 .. N : /\ Layout(t.m[i]).size \in Nat /\ Layout(t.m[i]).align \in Nat
                         /\ Layout(t.m[i]).regs \in Nat
    BY <2>1 DEF LayoutType
  <2> HIDE DEF N
  <2> QED  BY <2>2
<1> HIDE DEF One, N, first
<1>4. step \in [(1 .. N) \X Nat -> Nat]
  BY <1>3
<1>5. \A k \in 1 .. N, x \in Nat : step[<<k, x>>] = One(k, x)
  OBVIOUS
<1> HIDE DEF step
<1>6. PICK g : Stages(g, N, Nat, first, step)
  BY <1>1, <1>2, <1>4, StagesExist, Zenon
<1>7. Is(g)
  <2>1. \A k \in 1 .. N : k - 1 \in 0 .. N
    BY <1>1
  <2>2. \A k \in 1 .. N : g[k] = One(k, g[k - 1])
    BY <1>5, <1>6, <2>1 DEF Stages
  <2>3. \A k \in 0 .. N : g[k] = IF k = 0 THEN first ELSE One(k, g[k - 1])
    BY <1>1, <1>6, <2>2 DEF Stages
  <2> QED  BY <1>6, <2>3 DEF Stages
<1>8. StructRegs(t) = CHOOSE f : Is(f)
  BY DEF StructRegs, One, N, first
<1>9. Is(StructRegs(t))
  <2> HIDE DEF Is
  <2> QED  BY <1>7, <1>8
<1> DEFINE f == StructRegs(t)
<1> HIDE DEF f
<1>10. f[0] = first /\ \A k \in 1 .. N : f[k] = One(k, f[k - 1])
  <2>1. f = [k \in 0 .. N |-> IF k = 0 THEN first ELSE One(k, f[k - 1])]
    BY <1>9 DEF f
  <2>2. \A k \in 0 .. N : f[k] = IF k = 0 THEN first ELSE One(k, f[k - 1])
    BY <2>1, Zenon
  <2>3. 0 \in 0 .. N /\ \A k \in 1 .. N : k \in 0 .. N /\ k # 0
    BY <1>1
  <2> QED  BY <2>2, <2>3, Zenon
<1>11. \A k \in 0 .. N : f[k] \in Nat
  <2>1. \A k \in 1 .. N : f[k - 1] \in Nat => f[k] \in Nat
    BY <1>3, <1>10
  <2> QED  BY <1>1, <1>2, <1>10, <2>1, StagesIn
<1> QED  BY <1>10, <1>11 DEF f, N, One, first

---------------------------------------------------------------------------
(* Abi: types measured right.                                              *)

\* The characters of arithmetic types, and their sizes.
Scalars == {"c", "C", "B", "s", "S", "i", "I", "l", "L", "q", "Q", "f", "d", "D"}

LEMMA ScalarsAre ==
  /\ DOMAIN ScalarSize = Scalars
  /\ \A c \in Scalars \ Floats : ScalarSize[c] \in {1, 2, 4, 8}
  /\ ScalarSize["f"] = 4 /\ ScalarSize["d"] = 8 /\ ScalarSize["D"] = 8
<1>1. DOMAIN ScalarSize = Scalars
  BY Zenon DEF ScalarSize, Scalars
<1>2. ScalarSize["f"] = 4 /\ ScalarSize["d"] = 8 /\ ScalarSize["D"] = 8
  BY DEF ScalarSize
<1>3. \A c \in Scalars \ Floats : ScalarSize[c] \in {1, 2, 4, 8}
  BY DEF ScalarSize, Scalars, Floats
<1> QED  BY <1>1, <1>2, <1>3

\* What ParseType gives back.
Kinds == {"SCALAR", "FLOAT", "PTR", "CSTR", "OBJ", "AGG", "VOID", "BITFIELD", "UNKNOWN"}
TypeInfo == [kind : Kinds, size : Nat, align : Nat, hfaW : Nat, hfaN : Nat]

\* ti is t, measured right: of a type with no size only that it is void counts.
Right(ti, t) ==
  LET l == Layout(t) IN
  /\ ti \in TypeInfo
  /\ l.void => ti.kind = "VOID"
  /\ l.sized => /\ ti.kind \in KindsOf(t) /\ ti.size = l.size /\ ti.align = l.align
                /\ ti.hfaN > 0 <=> l.width # 0
                /\ l.width # 0 => ti.hfaW = l.width
                /\ l.width # 0 /\ ~l.union => ti.hfaN = l.regs

\* What TI makes of a kind and a size.
LEMMA TIIs ==
  \A kind \in Kinds, size \in Nat :
    /\ TI(kind, size) \in TypeInfo /\ TI(kind, size).kind = kind /\ TI(kind, size).size = size
    /\ TI(kind, size).align = IF size = 0 THEN 1 ELSE size
    /\ TI(kind, size).hfaN = 0
  BY DEF TI, TypeInfo

\* The layout of one word, and of what has no size.
LEMMA SimpleIs ==
  \A size : LET l == Simple(size) IN
    /\ l.void = FALSE /\ l.agg = FALSE /\ l.sized = TRUE /\ l.width = 0 /\ l.union = FALSE
    /\ l.size = size /\ l.align = size /\ l.regs = 1
  BY DEF Simple

LEMMA UnsizedIs == Unsized.sized = FALSE /\ Unsized.void = FALSE
  BY DEF Unsized, Simple

\* A type of one word.
LEMMA SimpleRight ==
  ASSUME NEW t, NEW size \in Nat \ {0}, Layout(t) = Simple(size),
         NEW kind \in {"SCALAR", "PTR", "CSTR", "OBJ"}
  PROVE  Right(TI(kind, size), t)
<1>1. kind \in KindsOf(t)
  BY SimpleIs DEF KindsOf
<1>2. kind \in Kinds
  BY DEF Kinds
<1> QED  BY <1>1, <1>2, SimpleIs, TIIs DEF Right

\* A type with no size that is not void.
LEMMA UnsizedRight ==
  ASSUME NEW t, ~Layout(t).sized, ~Layout(t).void, NEW ti \in TypeInfo
  PROVE  Right(ti, t)
  BY DEF Right

\* The layout of what is one character.
LEMMA PrimLayout ==
  ASSUME NEW t \in Types, t.k = "prim"
  PROVE  /\ t.c \in Scalars \union {"@", "#", "*", ":", "v", "?"}
         /\ t.c \in Floats => Layout(t) = [Simple(ScalarSize[t.c]) EXCEPT !.width = 8 * ScalarSize[t.c]]
         /\ t.c \in Scalars \ Floats => Layout(t) = Simple(ScalarSize[t.c])
         /\ t.c = "v" => Layout(t) = [Unsized EXCEPT !.void = TRUE]
         /\ t.c = "?" => Layout(t) = Unsized
         /\ t.c \in {"@", "#", "*", ":"} => Layout(t) = Simple(8)
<1>1. t.c \in Scalars \union {"@", "#", "*", ":", "v", "?"}
  BY TypesAre, ScalarsAre DEF IsType
<1>2. LayoutRule(t)
  BY AbiAssumption
<1>3. Layout(t) = CASE t.c \in Floats -> [Simple(ScalarSize[t.c]) EXCEPT !.width = 8 * ScalarSize[t.c]]
                    [] t.c \in Scalars \ Floats -> Simple(ScalarSize[t.c])
                    [] t.c = "v" -> [Unsized EXCEPT !.void = TRUE]
                    [] t.c = "?" -> Unsized
                    [] OTHER     -> Simple(8)
  BY <1>2, ScalarsAre, Zenon DEF LayoutRule
<1> QED  BY <1>1, <1>3 DEF Floats, Scalars

\* ScalarInfo measures each arithmetic type right.
LEMMA ScalarRight ==
  ASSUME NEW t \in Types, t.k = "prim", t.c \in Scalars
  PROVE  Right(ScalarInfo(t.c), t)
<1>1. CASE t.c \in Floats
  <2> DEFINE size == ScalarSize[t.c]
             ti == ScalarInfo(t.c)
             l == Layout(t)
  <2>1. size \in {4, 8}
    BY <1>1, ScalarsAre DEF Floats
  <2>2. l = [Simple(size) EXCEPT !.width = 8 * size]
    BY <1>1, PrimLayout
  <2> HIDE DEF size, l
  <2>3. /\ l.void = FALSE /\ l.agg = FALSE /\ l.width = 8 * size
        /\ l.size = size /\ l.align = size /\ l.regs = 1
    BY <2>2 DEF Simple
  <2>4. ti = [kind |-> "FLOAT", size |-> size, align |-> size, hfaW |-> 8 * size, hfaN |-> 1]
    BY <1>1, <2>1 DEF ScalarInfo, TI, size
  <2> HIDE DEF ti
  <2>5. KindsOf(t) = {"FLOAT"}
    BY <2>1, <2>3 DEF KindsOf, l
  <2>6. ti \in TypeInfo
    BY <2>1, <2>4 DEF TypeInfo, Kinds
  <2> QED  BY <2>1, <2>3, <2>4, <2>5, <2>6 DEF Right, l, ti
<1>2. CASE t.c \in Scalars \ Floats
  <2>1. ScalarSize[t.c] \in Nat \ {0} /\ Layout(t) = Simple(ScalarSize[t.c])
    BY <1>2, ScalarsAre, PrimLayout
  <2> QED  BY <1>2, <2>1, SimpleRight DEF ScalarInfo
<1> QED  BY <1>1, <1>2

\* What is read in one go is measured right.
LEMMA LeafRight ==
  ASSUME NEW t \in Types,
         \/ t.k = "prim" /\ At(1) = t.c
         \/ t.k = "bits" /\ At(1) = "b" /\ At(2) = "num" /\ text[2].n \in Nat
         \/ t.k \in {"object", "block"} /\ At(1) = "@"
  PROVE  Right(LeafInfo, t)
<1>0. LayoutRule(t)
  BY AbiAssumption
<1>1. CASE t.k = "bits" /\ At(1) = "b" /\ At(2) = "num" /\ text[2].n \in Nat
  <2> DEFINE size == IF text[2].n = 0 THEN 1 ELSE (text[2].n + 7) \div 8
  <2>1. Layout(t) = Unsized
    BY <1>0, <1>1, Zenon DEF LayoutRule
  <2>2. LeafInfo = [TI("BITFIELD", size) EXCEPT !.align = 1]
    BY <1>1, ScalarsAre DEF LeafInfo, Scalars
  <2>3. size \in Nat
    BY <1>1
  <2> HIDE DEF size
  <2>4. LeafInfo \in TypeInfo
    BY <2>2, <2>3 DEF TI, TypeInfo, Kinds
  <2> QED  BY <2>1, <2>4, UnsizedIs, UnsizedRight
<1>2. CASE t.k \in {"object", "block"} /\ At(1) = "@"
  <2>1. Layout(t) = Simple(8)
    BY <1>0, <1>2, Zenon DEF LayoutRule
  <2>2. LeafInfo = TI("OBJ", 8)
    BY <1>2, ScalarsAre DEF LeafInfo, Scalars
  <2> QED  BY <2>1, <2>2, SimpleRight
<1>3. CASE t.k = "prim" /\ At(1) = t.c /\ t.c \in Scalars
  <2>1. LeafInfo = ScalarInfo(t.c)
    BY <1>3, ScalarsAre DEF LeafInfo, Scalars
  <2> QED  BY <1>3, <2>1, ScalarRight
<1>4. CASE t.k = "prim" /\ At(1) = t.c /\ t.c \in {"@", "#", "*", ":"}
  <2>1. Layout(t) = Simple(8)
    BY <1>4, PrimLayout
  <2>2. LeafInfo \in {TI("OBJ", 8), TI("CSTR", 8), TI("PTR", 8)}
    BY <1>4, ScalarsAre DEF LeafInfo, Scalars
  <2> QED  BY <2>1, <2>2, SimpleRight
<1>5. CASE t.k = "prim" /\ At(1) = t.c /\ t.c = "v"
  <2>1. Layout(t) = [Unsized EXCEPT !.void = TRUE]
    BY <1>5, PrimLayout
  <2>2. Layout(t).void = TRUE /\ Layout(t).sized = FALSE
    BY <2>1 DEF Unsized, Simple
  <2>3. LeafInfo = TI("VOID", 0)
    BY <1>5, ScalarsAre DEF LeafInfo, Scalars
  <2>4. TI("VOID", 0) \in TypeInfo /\ TI("VOID", 0).kind = "VOID"
    BY TIIs DEF Kinds
  <2> QED  BY <2>2, <2>3, <2>4 DEF Right
<1>6. CASE t.k = "prim" /\ At(1) = t.c /\ t.c = "?"
  <2>1. Layout(t) = Unsized
    BY <1>6, PrimLayout
  <2>2. LeafInfo = TI("UNKNOWN", 0)
    BY <1>6, ScalarsAre DEF LeafInfo, Scalars, UnknownType
  <2>3. TI("UNKNOWN", 0) \in TypeInfo
    BY TIIs DEF Kinds
  <2> QED  BY <2>1, <2>2, <2>3, UnsizedIs, UnsizedRight
<1> QED  BY <1>1, <1>2, <1>3, <1>4, <1>5, <1>6, PrimLayout

---------------------------------------------------------------------------
(* Abi: what ParseAgg gathers of the members.                              *)

\* What ParseAgg gathers.
AccType == [fields : Nat, align : Nat, size : Nat, ok : BOOLEAN, w : Nat, n : Nat]

\* acc is what there is to gather of the first members of t.
Gathered(acc, t) ==
  LET Of(j) == Layout(t.m[j])
      past == 1 .. acc.fields
  IN  /\ acc \in AccType /\ acc.fields <= Len(t.m)
      /\ (\A j \in past : Of(j).sized) =>
           /\ acc.align >= 1 /\ \A j \in past : Of(j).align <= acc.align
           /\ acc.align = 1 \/ \E j \in past : Of(j).align = acc.align
           /\ t.k = "struct" => acc.size = StructEnd(t)[acc.fields]
           /\ t.k = "union" => /\ \A j \in past : Of(j).size <= acc.size
                               /\ acc.size = 0 \/ \E j \in past : Of(j).size = acc.size
           /\ acc.ok => /\ \A j \in past : Of(j).width # 0 /\ Of(j).width = acc.w
                        /\ acc.n > 0 <=> acc.fields > 0
                        /\ t.k = "struct" /\ (\A j \in past : ~Of(j).union) =>
                             acc.n = StructRegs(t)[acc.fields]
           /\ ~acc.ok => \A w \in {32, 64} : \E j \in past : Of(j).width # w

\* Before the first field.
LEMMA NoneGathered ==
  ASSUME NEW t \in Types, HasFields(t)
  PROVE  Gathered(NoFields, t)
<1>1. NoFields \in AccType /\ NoFields.fields = 0
  BY DEF NoFields, AccType
<1>2. Len(t.m) \in Nat
  BY TypesAre
<1>3. StructEnd(t)[0] = 0 /\ StructRegs(t)[0] = 0
  BY StructEndIs, StructRegsIs
<1>4. 1 .. 0 = {}
  OBVIOUS
<1> QED  BY <1>1, <1>2, <1>3, <1>4 DEF Gathered, NoFields

\* What the rules look at in the layout of a member.
LEMMA MemberLayout ==
  ASSUME NEW t \in Types, HasFields(t), NEW i \in 1 .. Len(t.m)
  PROVE  /\ Layout(t.m[i]).size \in Nat \ {0} /\ Layout(t.m[i]).align \in Nat \ {0}
         /\ Layout(t.m[i]).regs \in Nat \ {0} /\ Layout(t.m[i]).width \in {0, 32, 64}
         /\ Layout(t.m[i]).union \in BOOLEAN /\ Layout(t.m[i]).sized \in BOOLEAN
<1>1. Layout(t.m[i]) \in LayoutType
  BY TypesAre DEF IsLayout
<1> QED  BY <1>1 DEF LayoutType

\* One field more.
LEMMA NextGathered ==
  ASSUME NEW t \in Types, HasFields(t), NEW acc, Gathered(acc, t), acc.fields < Len(t.m),
         NEW f, Right(f, t.m[acc.fields + 1])
  PROVE  /\ Gathered(AddField(acc, f, Closer(t)), t)
         /\ AddField(acc, f, Closer(t)).fields = acc.fields + 1
<1> DEFINE i == acc.fields
           l == Layout(t.m[i + 1])
           fa == IF f.align < 1 THEN 1 ELSE f.align
           ok == acc.ok /\ MergeHfa(acc, f)
           new == AddField(acc, f, Closer(t))
           Of(j) == Layout(t.m[j])
<1>1. /\ i \in Nat /\ acc.align \in Nat /\ acc.size \in Nat /\ acc.ok \in BOOLEAN
      /\ acc.w \in Nat /\ acc.n \in Nat
  BY DEF Gathered, AccType
<1>2. i + 1 \in 1 .. Len(t.m) /\ Len(t.m) \in Nat
  BY <1>1, TypesAre
<1>3. /\ l.size \in Nat \ {0} /\ l.align \in Nat \ {0} /\ l.regs \in Nat \ {0} /\ l.width \in {0, 32, 64}
      /\ l.union \in BOOLEAN /\ l.sized \in BOOLEAN
  BY <1>2, MemberLayout
<1>4. f.size \in Nat /\ f.align \in Nat /\ f.hfaW \in Nat /\ f.hfaN \in Nat
  BY DEF Right, TypeInfo
<1>5. fa \in Nat /\ fa >= 1 /\ RoundUp(acc.size, fa) \in Nat /\ ok \in BOOLEAN
  <2>1. fa \in Nat /\ fa >= 1
    BY <1>4
  <2>2. ok \in BOOLEAN
    OBVIOUS
  <2> HIDE DEF fa, ok
  <2>3. RoundUp(acc.size, fa) \in Nat
    BY <1>1, <2>1, RoundUpIs
  <2> QED  BY <2>1, <2>2, <2>3
<1>6. Closer(t) # ")" <=> t.k = "struct"
  BY DEF Closer, HasFields
<1>7. /\ new.fields = i + 1
      /\ new.align = IF fa > acc.align THEN fa ELSE acc.align
      /\ new.size = IF t.k = "struct" THEN RoundUp(acc.size, fa) + f.size
                    ELSE IF f.size > acc.size THEN f.size ELSE acc.size
      /\ new.ok = ok
      /\ new.w = IF ok THEN f.hfaW ELSE acc.w
      /\ new.n = IF ok THEN acc.n + f.hfaN ELSE acc.n
      /\ new = [fields |-> new.fields, align |-> new.align, size |-> new.size, ok |-> new.ok,
               w |-> new.w, n |-> new.n]
  BY <1>6 DEF AddField
<1> HIDE DEF new, fa, ok
<1>8. new \in AccType /\ new.fields <= Len(t.m)
  <2>1. RoundUp(acc.size, fa) + f.size \in Nat
    BY <1>4, <1>5
  <2>9. acc.n + f.hfaN \in Nat
    BY <1>1, <1>4
  <2>8. i + 1 \in Nat
    BY <1>1
  <2>2. /\ new.fields \in Nat /\ new.align \in Nat /\ new.size \in Nat /\ new.ok \in BOOLEAN
        /\ new.w \in Nat /\ new.n \in Nat
    BY <1>1, <1>4, <1>5, <1>7, <2>1, <2>8, <2>9
  <2>3. new \in AccType
    BY <1>7, <2>2 DEF AccType
  <2> QED  BY <1>1, <1>2, <1>7, <2>3
<1>9. ASSUME \A j \in 1 .. i + 1 : Of(j).sized
      PROVE  /\ new.align >= 1 /\ \A j \in 1 .. i + 1 : Of(j).align <= new.align
             /\ new.align = 1 \/ \E j \in 1 .. i + 1 : Of(j).align = new.align
             /\ t.k = "struct" => new.size = StructEnd(t)[i + 1]
             /\ t.k = "union" => /\ \A j \in 1 .. i + 1 : Of(j).size <= new.size
                                 /\ new.size = 0 \/ \E j \in 1 .. i + 1 : Of(j).size = new.size
             /\ ok => /\ \A j \in 1 .. i + 1 : Of(j).width # 0 /\ Of(j).width = new.w
                      /\ new.n > 0 <=> i + 1 > 0
                      /\ t.k = "struct" /\ (\A j \in 1 .. i + 1 : ~Of(j).union) =>
                           new.n = StructRegs(t)[i + 1]
             /\ ~ok => \A w \in {32, 64} : \E j \in 1 .. i + 1 : Of(j).width # w
  <2>1. /\ l.sized /\ f.size = l.size /\ f.align = l.align
        /\ f.hfaN > 0 <=> l.width # 0
        /\ l.width # 0 => f.hfaW = l.width
        /\ l.width # 0 /\ ~l.union => f.hfaN = l.regs
    <3>1. l.sized
      BY <1>1, <1>9
    <3> QED  BY <3>1 DEF Right
  <2>2. \A j \in 1 .. i + 1 : j \in 1 .. i \/ j = i + 1
    BY <1>1
  <2>3. \A j \in 1 .. i : j \in 1 .. i + 1 /\ j \in 1 .. Len(t.m) /\ Of(j).sized
    BY <1>1, <1>2, <1>9
  <2>4. /\ acc.align >= 1 /\ \A j \in 1 .. i : Of(j).align <= acc.align
        /\ acc.align = 1 \/ \E j \in 1 .. i : Of(j).align = acc.align
        /\ t.k = "struct" => acc.size = StructEnd(t)[i]
        /\ t.k = "union" => /\ \A j \in 1 .. i : Of(j).size <= acc.size
                            /\ acc.size = 0 \/ \E j \in 1 .. i : Of(j).size = acc.size
        /\ acc.ok => /\ \A j \in 1 .. i : Of(j).width # 0 /\ Of(j).width = acc.w
                     /\ acc.n > 0 <=> i > 0
                     /\ t.k = "struct" /\ (\A j \in 1 .. i : ~Of(j).union) => acc.n = StructRegs(t)[i]
        /\ ~acc.ok => \A w \in {32, 64} : \E j \in 1 .. i : Of(j).width # w
    BY <2>3 DEF Gathered
  <2>5. \A j \in 1 .. i : /\ Of(j).size \in Nat /\ Of(j).align \in Nat /\ Of(j).width \in {0, 32, 64}
                         /\ Of(j).union \in BOOLEAN
    BY <2>3, MemberLayout
  <2>6. fa = l.align
    BY <1>3, <2>1 DEF fa
  <2>7. l = Of(i + 1) /\ i + 1 \in 1 .. i + 1
    BY <1>1
  <2> HIDE DEF Of, l
  <2>8. /\ new.align >= 1 /\ \A j \in 1 .. i + 1 : Of(j).align <= new.align
        /\ new.align = 1 \/ \E j \in 1 .. i + 1 : Of(j).align = new.align
    <3>1. new.align = IF l.align > acc.align THEN l.align ELSE acc.align
      BY <1>7, <2>6
    <3>2. new.align >= 1 /\ new.align >= acc.align /\ new.align >= l.align
      BY <1>1, <1>3, <2>4, <3>1
    <3>3. ASSUME NEW j \in 1 .. i + 1 PROVE Of(j).align <= new.align
      <4>1. CASE j \in 1 .. i
        <5>1. Of(j).align <= acc.align /\ Of(j).align \in Nat
          BY <2>4, <2>5, <4>1
        <5>2. new.align \in Nat
          BY <1>1, <1>3, <3>1
        <5> QED  BY <1>1, <3>2, <5>1, <5>2
      <4>2. CASE j = i + 1
        BY <2>7, <3>2, <4>2
      <4> QED  BY <2>2, <4>1, <4>2
    <3>4. new.align = 1 \/ \E j \in 1 .. i + 1 : Of(j).align = new.align
      <4>1. CASE new.align = l.align
        BY <2>7, <4>1
      <4>2. CASE new.align = acc.align
        BY <2>3, <2>4, <4>2
      <4> QED  BY <3>1, <4>1, <4>2
    <3> QED  BY <3>2, <3>3, <3>4
  <2>9. t.k = "struct" => new.size = StructEnd(t)[i + 1]
    <3>1. StructEnd(t)[i + 1] = RoundUp(StructEnd(t)[(i + 1) - 1], l.align) + l.size
      BY <1>2, StructEndIs DEF l
    <3>2. (i + 1) - 1 = i
      BY <1>1
    <3> QED  BY <1>7, <2>1, <2>4, <2>6, <3>1, <3>2
  <2>10. t.k = "union" => /\ \A j \in 1 .. i + 1 : Of(j).size <= new.size
                          /\ new.size = 0 \/ \E j \in 1 .. i + 1 : Of(j).size = new.size
    <3> SUFFICES ASSUME t.k = "union"
                 PROVE  /\ \A j \in 1 .. i + 1 : Of(j).size <= new.size
                        /\ new.size = 0 \/ \E j \in 1 .. i + 1 : Of(j).size = new.size
      OBVIOUS
    <3>1. new.size = IF l.size > acc.size THEN l.size ELSE acc.size
      BY <1>7, <2>1
    <3> QED  BY <1>1, <1>3, <2>2, <2>3, <2>4, <2>5, <2>7, <3>1
  <2>11. ASSUME ok
         PROVE  /\ \A j \in 1 .. i + 1 : Of(j).width # 0 /\ Of(j).width = new.w
                /\ new.n > 0 <=> i + 1 > 0
                /\ t.k = "struct" /\ (\A j \in 1 .. i + 1 : ~Of(j).union) => new.n = StructRegs(t)[i + 1]
    <3>1. acc.ok /\ f.hfaN > 0 /\ (acc.n = 0 \/ acc.w = f.hfaW)
      BY <1>4, <2>11 DEF ok, MergeHfa
    <3>2. l.width # 0 /\ f.hfaW = l.width /\ new.w = l.width /\ new.n = acc.n + f.hfaN
      BY <1>7, <2>1, <2>11, <3>1
    <3>3. \A j \in 1 .. i : Of(j).width # 0 /\ Of(j).width = l.width
      <4> TAKE j \in 1 .. i
      <4>1. i > 0 /\ acc.n > 0
        BY <1>1, <2>4, <3>1
      <4> QED  BY <1>1, <2>4, <3>1, <3>2, <4>1
    <3>4. \A j \in 1 .. i + 1 : Of(j).width # 0 /\ Of(j).width = new.w
      BY <2>2, <2>7, <3>2, <3>3
    <3>5. new.n > 0 /\ i + 1 > 0
      BY <1>1, <1>4, <3>1, <3>2
    <3>6. ASSUME t.k = "struct", \A j \in 1 .. i + 1 : ~Of(j).union PROVE new.n = StructRegs(t)[i + 1]
      <4>1. acc.n = StructRegs(t)[i] /\ ~l.union
        BY <2>3, <2>4, <2>7, <3>1, <3>6
      <4>2. StructRegs(t)[i + 1] = StructRegs(t)[(i + 1) - 1] + l.regs
        BY <1>2, StructRegsIs DEF l
      <4>3. (i + 1) - 1 = i
        BY <1>1
      <4> QED  BY <2>1, <3>2, <4>1, <4>2, <4>3
    <3> QED  BY <3>4, <3>5, <3>6
  <2>12. ASSUME ~ok PROVE \A w \in {32, 64} : \E j \in 1 .. i + 1 : Of(j).width # w
    <3>1. CASE ~acc.ok
      BY <2>3, <2>4, <3>1
    <3>2. CASE acc.ok /\ f.hfaN = 0
      <4>1. l.width = 0
        BY <1>4, <2>1, <3>2
      <4> QED  BY <2>7, <4>1
    <3>3. CASE acc.ok /\ f.hfaN # 0 /\ acc.n # 0 /\ acc.w # f.hfaW
      <4>1. l.width # 0 /\ f.hfaW = l.width
        BY <1>4, <2>1, <3>3
      <4>2. i > 0 /\ 1 \in 1 .. i /\ Of(1).width = acc.w
        BY <1>1, <2>4, <3>3
      <4> QED  BY <2>3, <2>7, <3>3, <4>1, <4>2
    <3> QED  BY <2>12, <3>1, <3>2, <3>3 DEF ok, MergeHfa
  <2> QED  BY <2>8, <2>9, <2>10, <2>11, <2>12 DEF Of
<1> QED  BY <1>7, <1>8, <1>9 DEF Gathered, new

\* All fields: the struct or union.
LEMMA FieldsRight ==
  ASSUME NEW t \in Types, HasFields(t), NEW acc, Gathered(acc, t), acc.fields = Len(t.m)
  PROVE  Right(AggOf(acc), t)
<1> DEFINE N == Len(t.m)
           l == Layout(t)
           Of(j) == Layout(t.m[j])
           ti == AggOf(acc)
<1>1. N \in Nat \ {0} /\ 1 \in 1 .. N /\ DOMAIN t.m = 1 .. N
  BY TypesAre
<1>2. /\ acc.align \in Nat /\ acc.size \in Nat /\ acc.ok \in BOOLEAN /\ acc.w \in Nat /\ acc.n \in Nat
  BY DEF Gathered, AccType
<1>3. /\ ti = [kind |-> "AGG", size |-> RoundUp(acc.size, acc.align), align |-> acc.align,
               hfaW |-> IF acc.ok THEN acc.w ELSE 0, hfaN |-> IF acc.ok THEN acc.n ELSE 0]
  BY <1>1 DEF AggOf
<1>4. RoundUp(acc.size, acc.align) \in Nat
  BY <1>2, RoundUpIs
<1> HIDE DEF ti
<1>5. ti \in TypeInfo
  BY <1>2, <1>3, <1>4 DEF TypeInfo, Kinds
<1>6. MembersRule(t)
  BY AbiAssumption, Zenon DEF LayoutRule, HasFields
<1>7. /\ l.agg /\ ~l.void
      /\ l.sized <=> \A i \in 1 .. N : Of(i).sized
      /\ l.union <=> t.k = "union" \/ \E i \in 1 .. N : Of(i).union
      /\ \A w \in {32, 64} : l.width = w <=> \A i \in 1 .. N : Of(i).width = w
      /\ \E i \in 1 .. N : l.align = Of(i).align
      /\ \A i \in 1 .. N : Of(i).align <= l.align
      /\ t.k = "struct" => /\ l.size = RoundUp(StructEnd(t)[N], l.align)
                           /\ l.regs = StructRegs(t)[N]
      /\ t.k = "union" => \E size : /\ \E i \in 1 .. N : size = Of(i).size
                                    /\ \A i \in 1 .. N : Of(i).size <= size
                                    /\ l.size = RoundUp(size, l.align)
  BY <1>1, <1>6 DEF MembersRule, IsLargest
<1>8. /\ l.width \in {0, 32, 64} /\ l.union \in BOOLEAN /\ l.sized \in BOOLEAN
      /\ l.align \in Nat \ {0} /\ l.regs \in Nat
  BY TypesAre DEF IsLayout, LayoutType
<1>9. \A i \in 1 .. N : /\ Of(i).size \in Nat \ {0} /\ Of(i).align \in Nat \ {0}
                        /\ Of(i).width \in {0, 32, 64}
  BY MemberLayout
<1>10. KindsOf(t) = {"AGG"}
  BY <1>7 DEF KindsOf
<1> SUFFICES ASSUME l.sized
             PROVE  /\ ti.kind \in KindsOf(t) /\ ti.size = l.size /\ ti.align = l.align
                    /\ ti.hfaN > 0 <=> l.width # 0
                    /\ l.width # 0 => ti.hfaW = l.width
                    /\ l.width # 0 /\ ~l.union => ti.hfaN = l.regs
  BY <1>5, <1>7 DEF Right, ti
<1>11. /\ acc.align >= 1 /\ \A j \in 1 .. N : Of(j).align <= acc.align
       /\ acc.align = 1 \/ \E j \in 1 .. N : Of(j).align = acc.align
       /\ t.k = "struct" => acc.size = StructEnd(t)[N]
       /\ t.k = "union" => /\ \A j \in 1 .. N : Of(j).size <= acc.size
                           /\ acc.size = 0 \/ \E j \in 1 .. N : Of(j).size = acc.size
       /\ acc.ok => /\ \A j \in 1 .. N : Of(j).width # 0 /\ Of(j).width = acc.w
                    /\ acc.n > 0 <=> N > 0
                    /\ t.k = "struct" /\ (\A j \in 1 .. N : ~Of(j).union) => acc.n = StructRegs(t)[N]
       /\ ~acc.ok => \A w \in {32, 64} : \E j \in 1 .. N : Of(j).width # w
  BY <1>7 DEF Gathered
<1> HIDE DEF Of, l, N
<1>12. acc.align = l.align
  <2>1. l.align <= acc.align
    BY <1>7, <1>11
  <2>2. acc.align <= l.align
    BY <1>2, <1>7, <1>8, <1>11
  <2> QED  BY <1>2, <1>8, <2>1, <2>2
<1>13. ti.size = l.size
  <2>1. CASE t.k = "struct"
    BY <2>1, <1>3, <1>7, <1>11, <1>12
  <2>2. CASE t.k = "union"
    <3>1. PICK size : /\ \E i \in 1 .. N : size = Of(i).size
                      /\ \A i \in 1 .. N : Of(i).size <= size
                      /\ l.size = RoundUp(size, l.align)
      BY <1>7, <2>2
    <3>2. size \in Nat /\ size <= acc.size
      BY <1>9, <1>11, <2>2, <3>1
    <3>3. acc.size <= size
      BY <1>2, <1>11, <2>2, <3>1, <3>2
    <3>4. size = acc.size
      BY <1>2, <3>2, <3>3
    <3> QED  BY <1>3, <1>12, <3>1, <3>4
  <2> QED  BY <2>1, <2>2 DEF HasFields
<1>14. CASE acc.ok
  <2>1. acc.w \in {32, 64} /\ l.width = acc.w
    BY <1>1, <1>7, <1>9, <1>11, <1>14
  <2>2. ti.hfaN = acc.n /\ ti.hfaW = acc.w /\ acc.n > 0
    BY <1>1, <1>3, <1>11, <1>14
  <2>3. ~l.union => acc.n = l.regs
    BY <1>7, <1>11, <1>14 DEF HasFields
  <2> QED  BY <1>3, <1>10, <1>12, <1>13, <2>1, <2>2, <2>3
<1>15. CASE ~acc.ok
  <2>1. l.width = 0
    BY <1>7, <1>8, <1>11, <1>15
  <2>2. ti.hfaN = 0
    BY <1>3, <1>15
  <2> QED  BY <1>3, <1>10, <1>12, <1>13, <2>1, <2>2
<1> QED  BY <1>14, <1>15

\* Products, which the prover does not do by itself.
LEMMA ProductOf == \A x, y \in Nat : x * y \in Nat /\ x * y = y * x /\ (x * y = 0 <=> x = 0 \/ y = 0)
  OBVIOUS

\* An array is measured right if its element is.
LEMMA ArrayRight ==
  ASSUME NEW t \in Types, t.k = "array", NEW e, Right(e, t.e)
  PROVE  Right(ArrayOf(t.len, e), t)
<1> DEFINE l == Layout(t)
           le == Layout(t.e)
           ea == IF e.align < 1 THEN 1 ELSE e.align
           ti == ArrayOf(t.len, e)
<1>1. t.len \in Nat \ {0} /\ t.e \in Types
  BY TypesAre DEF IsType, Known
<1>2. /\ le.size \in Nat \ {0} /\ le.align \in Nat \ {0} /\ le.regs \in Nat \ {0} /\ le.width \in {0, 32, 64}
      /\ le.union \in BOOLEAN /\ le.sized \in BOOLEAN
  BY <1>1, TypesAre DEF IsLayout, LayoutType
<1>3. l = [void |-> FALSE, agg |-> TRUE, union |-> le.union, sized |-> le.sized, width |-> le.width,
           regs |-> t.len * le.regs, size |-> t.len * RoundUp(le.size, le.align), align |-> le.align]
  <2>1. LayoutRule(t)
    BY AbiAssumption
  <2> QED  BY <2>1, Zenon DEF LayoutRule
<1>4. e.size \in Nat /\ e.align \in Nat /\ e.hfaW \in Nat /\ e.hfaN \in Nat
  BY DEF Right, TypeInfo
<1>5. ea \in Nat
  BY <1>4
<1>6. ti = [kind |-> "AGG", size |-> RoundUp(e.size, ea) * t.len, align |-> ea,
            hfaW |-> e.hfaW, hfaN |-> e.hfaN * t.len]
  BY DEF ArrayOf
<1>7. RoundUp(e.size, ea) \in Nat
  <2> HIDE DEF ea
  <2> QED  BY <1>4, <1>5, RoundUpIs
<1> HIDE DEF ti, l
<1>8. ti \in TypeInfo
  <2>1. RoundUp(e.size, ea) * t.len \in Nat /\ e.hfaN * t.len \in Nat
    BY <1>1, <1>4, <1>7, ProductOf
  <2> HIDE DEF ea
  <2> QED  BY <1>4, <1>5, <1>6, <2>1 DEF TypeInfo, Kinds
<1>9. KindsOf(t) = {"AGG"} /\ ~l.void
  BY <1>3 DEF KindsOf, l
<1>10. ASSUME l.sized
       PROVE  /\ ti.kind \in KindsOf(t) /\ ti.size = l.size /\ ti.align = l.align
              /\ ti.hfaN > 0 <=> l.width # 0
              /\ l.width # 0 => ti.hfaW = l.width
              /\ l.width # 0 /\ ~l.union => ti.hfaN = l.regs
  <2>1. /\ le.sized /\ e.size = le.size /\ e.align = le.align
        /\ e.hfaN > 0 <=> le.width # 0
        /\ le.width # 0 => e.hfaW = le.width
        /\ le.width # 0 /\ ~le.union => e.hfaN = le.regs
    <3>1. le.sized
      BY <1>3, <1>10
    <3> QED  BY <3>1 DEF Right
  <2>2. ea = le.align
    BY <1>2, <2>1
  <2> HIDE DEF ea, le
  <2>3. ti.size = l.size
    BY <1>1, <1>3, <1>6, <1>7, <2>1, <2>2, ProductOf
  <2>4. e.hfaN * t.len > 0 <=> e.hfaN > 0
    BY <1>1, <1>4, ProductOf
  <2>5. e.hfaN * t.len = t.len * e.hfaN
    BY <1>1, <1>4, ProductOf
  <2>6. l.width = le.width /\ l.union = le.union /\ l.regs = t.len * le.regs /\ l.align = le.align
    BY <1>3
  <2>7. ti.kind = "AGG" /\ ti.align = le.align /\ ti.hfaW = e.hfaW /\ ti.hfaN = e.hfaN * t.len
    BY <1>6, <2>2
  <2> QED  BY <1>9, <2>1, <2>3, <2>4, <2>5, <2>6, <2>7
<1> QED  BY <1>8, <1>9, <1>10 DEF Right, ti, l

\* A pointer is, whatever it points to.
LEMMA PointerRight ==
  ASSUME NEW t \in Types, t.k = "ptr"
  PROVE  Right(TI("PTR", 8), t)
<1>1. LayoutRule(t)
  BY AbiAssumption
<1>2. Layout(t) = Simple(8)
  BY <1>1, Zenon DEF LayoutRule
<1> QED  BY <1>2, SimpleRight

\* So is a struct known by name only, which has no size.
LEMMA OpaqueRight ==
  ASSUME NEW t \in Types, t.k = "opaque"
  PROVE  Right(UnknownType, t)
<1>1. LayoutRule(t)
  BY AbiAssumption
<1>2. Layout(t) = Unsized
  BY <1>1, Zenon DEF LayoutRule
<1>3. UnknownType \in TypeInfo
  BY TIIs DEF Kinds, UnknownType
<1> QED  BY <1>2, <1>3, UnsizedIs, UnsizedRight

---------------------------------------------------------------------------
(* Abi: what stands where in the text.                                     *)

\* The character in front, "end" at the end.
HeadOf(s) == IF s = <<>> THEN "end" ELSE s[1].c

\* The parser has characters before b.
LEMMA OneBefore ==
  ASSUME NEW x \in Chars, NEW b \in Text, text = <<x>> \o b
  PROVE  At(1) = x.c /\ At(2) = HeadOf(b) /\ (Eat(1) => text' = b)
<1>1. Len(text) = 1 + Len(b) /\ Len(b) \in Nat /\ text[1] = x /\ \A i \in 1 .. Len(b) : text[1 + i] = b[i]
  BY DEF Text
<1>2. At(2) = HeadOf(b)
  <2>1. CASE b = <<>>
    BY <2>1, <1>1 DEF At, HeadOf
  <2>2. CASE b # <<>>
    <3>1. Len(b) > 0 /\ text[2] = b[1]
      BY <2>2, <1>1 DEF Text
    <3> QED  BY <2>2, <3>1, <1>1 DEF At, HeadOf
  <2> QED  BY <2>1, <2>2
<1>3. SubSeq(text, 2, Len(text)) = b
  BY <1>1 DEF Text
<1>4. Eat(1) => text' = b
  BY <1>3 DEF Eat
<1> QED  BY <1>1, <1>2, <1>4 DEF At

\* Two and three characters before b.
LEMMA TwoBefore ==
  ASSUME NEW x \in Chars, NEW y \in Chars, NEW b \in Text, text = <<x, y>> \o b
  PROVE  /\ At(1) = x.c /\ At(2) = y.c /\ text[2] = y /\ At(3) = HeadOf(b)
         /\ Eat(1) => text' = <<y>> \o b
         /\ Eat(2) => text' = b
<1>1. Len(text) = 2 + Len(b) /\ Len(b) \in Nat /\ text[1] = x /\ text[2] = y
      /\ \A i \in 1 .. Len(b) : text[2 + i] = b[i]
  BY DEF Text
<1>2. At(3) = HeadOf(b)
  <2>1. CASE b = <<>>
    BY <2>1, <1>1 DEF At, HeadOf
  <2>2. CASE b # <<>>
    <3>1. Len(b) > 0 /\ text[3] = b[1]
      BY <2>2, <1>1 DEF Text
    <3> QED  BY <2>2, <3>1, <1>1 DEF At, HeadOf
  <2> QED  BY <2>1, <2>2
<1>3. SubSeq(text, 2 + 1, Len(text)) = b
  BY <1>1 DEF Text
<1>4. SubSeq(text, 1 + 1, Len(text)) = <<y>> \o b
  BY <1>1 DEF Text
<1>5. At(1) = x.c /\ At(2) = y.c
  <2>1. 1 <= Len(text) /\ 2 <= Len(text)
    BY <1>1
  <2> QED  BY <1>1, <2>1 DEF At
<1>6. (Eat(1) => text' = <<y>> \o b) /\ (Eat(2) => text' = b)
  BY <1>3, <1>4 DEF Eat
<1> QED  BY <1>1, <1>2, <1>5, <1>6

LEMMA ThreeBefore ==
  ASSUME NEW x \in Chars, NEW y \in Chars, NEW z \in Chars, NEW b \in Text, text = <<x, y, z>> \o b
  PROVE  /\ At(1) = x.c /\ At(2) = y.c /\ At(3) = z.c
         /\ Eat(3) => text' = b
<1>1. Len(text) = 3 + Len(b) /\ Len(b) \in Nat /\ text[1] = x /\ text[2] = y /\ text[3] = z
      /\ \A i \in 1 .. Len(b) : text[3 + i] = b[i]
  BY DEF Text
<1>2. SubSeq(text, 4, Len(text)) = b
  BY <1>1 DEF Text
<1>3. At(1) = x.c /\ At(2) = y.c /\ At(3) = z.c
  <2>1. 1 <= Len(text) /\ 2 <= Len(text) /\ 3 <= Len(text)
    BY <1>1
  <2> QED  BY <1>1, <2>1 DEF At
<1>4. Eat(3) => text' = b
  BY <1>2 DEF Eat
<1> QED  BY <1>3, <1>4

\* How the text of a type begins, and what is behind it.
LEMMA Starts ==
  ASSUME NEW c \in Types, NEW b \in Text
  PROVE  /\ c.k \in {"prim", "ptr", "struct", "union", "array", "const", "bits", "object", "block", "opaque"}
         /\ c.k = "prim"   => Encode(c) \o b = <<Ch(c.c)>> \o b
         /\ c.k = "ptr"    => Encode(c) \o b = <<Ch("^")>> \o (Encode(c.e) \o b)
         /\ c.k = "const"  => Encode(c) \o b = <<Ch("r")>> \o (Encode(c.e) \o b)
         /\ HasFields(c)   => Encode(c) \o b = <<Ch(Opener(c)), Ch("tag"), Ch("=")>>
                                                 \o (Members(c)[Len(c.m)] \o b)
         /\ c.k = "array"  => Encode(c) \o b = <<Ch("["), Num(c.len)>> \o (Encode(c.e) \o (<<Ch("]")>> \o b))
         /\ c.k = "bits"   => Encode(c) \o b = <<Ch("b"), Num(c.b)>> \o b
         /\ c.k = "object" => Encode(c) \o b = <<Ch("@"), Ch("name")>> \o b
         /\ c.k = "block"  => Encode(c) \o b = <<Ch("@"), Ch("?"), Ch("sig")>> \o b
         /\ c.k = "opaque" => Encode(c) \o b = <<Ch("{"), Ch("tag"), Ch("}")>> \o b
<1>1. EncodingRule(c) /\ IsType(c)
  BY AbiAssumption
<1>2. c.k \in {"prim", "ptr", "struct", "union", "array", "const", "bits", "object", "block", "opaque"}
  BY <1>1 DEF IsType
<1>3. CASE c.k = "prim"
  BY <1>1, <1>3 DEF EncodingRule, HasFields
<1>4. CASE c.k \in {"ptr", "const"}
  <2>1. Encode(c.e) \in Text
    BY <1>1, <1>4, TypesAre DEF IsType
  <2>2. Encode(c) = <<Ch(IF c.k = "ptr" THEN "^" ELSE "r")>> \o Encode(c.e)
    BY <1>1, <1>4 DEF EncodingRule
  <2>3. Ch(IF c.k = "ptr" THEN "^" ELSE "r") \in Chars
    BY CharsAre DEF Letters
  <2>4. Encode(c) \o b = <<Ch(IF c.k = "ptr" THEN "^" ELSE "r")>> \o (Encode(c.e) \o b)
    BY <2>1, <2>2, <2>3, ConcatAssociative DEF Text
  <2> QED  BY <1>4, <2>4 DEF HasFields
<1>5. CASE HasFields(c)
  <2>1. Len(c.m) \in 0 .. Len(c.m)
    BY <1>5, TypesAre
  <2>2. Members(c)[Len(c.m)] \in Text
    BY <1>5, <2>1, MembersAre
  <2>3. Encode(c) = <<Ch(Opener(c)), Ch("tag"), Ch("=")>> \o Members(c)[Len(c.m)]
    BY <1>1, <1>5 DEF EncodingRule, HasFields
  <2>4. Ch(Opener(c)) \in Chars /\ Ch("tag") \in Chars /\ Ch("=") \in Chars
    BY CharsAre DEF Letters, Opener
  <2>5. Encode(c) \o b = <<Ch(Opener(c)), Ch("tag"), Ch("=")>> \o (Members(c)[Len(c.m)] \o b)
    <3> DEFINE rest == Members(c)[Len(c.m)]
               head == <<Ch(Opener(c)), Ch("tag"), Ch("=")>>
    <3>1. head \in Text /\ rest \in Text /\ b \in Text
      BY <2>2, <2>4 DEF Text
    <3> HIDE DEF rest, head
    <3>2. (head \o rest) \o b = head \o (rest \o b)
      BY <3>1, TextsJoin, Zenon
    <3> QED  BY <2>3, <3>2 DEF rest, head
  <2> QED  BY <1>5, <2>5 DEF HasFields
<1>6. CASE c.k = "array"
  <2>1. Encode(c.e) \in Text /\ Num(c.len) \in Chars
    BY <1>1, <1>6, TypesAre, CharsAre DEF IsType, Known
  <2>2. Encode(c) = <<Ch("["), Num(c.len)>> \o (Encode(c.e) \o <<Ch("]")>>)
    BY <1>1, <1>6 DEF EncodingRule
  <2>3. Ch("[") \in Chars /\ Ch("]") \in Chars
    BY CharsAre DEF Letters
  <2>4. Encode(c.e) \o <<Ch("]")>> \in Text
    BY <2>1, <2>3 DEF Text
  <2>5. Encode(c) \o b = <<Ch("["), Num(c.len)>> \o ((Encode(c.e) \o <<Ch("]")>>) \o b)
    BY <2>1, <2>2, <2>3, <2>4, ConcatAssociative DEF Text
  <2>6. (Encode(c.e) \o <<Ch("]")>>) \o b = Encode(c.e) \o (<<Ch("]")>> \o b)
    BY <2>1, <2>3, ConcatAssociative DEF Text
  <2> QED  BY <1>6, <2>5, <2>6 DEF HasFields
<1>7. CASE c.k \in {"bits", "object", "block", "opaque"}
  BY <1>1, <1>7 DEF EncodingRule, HasFields
<1> QED  BY <1>2, <1>3, <1>4, <1>5, <1>6, <1>7 DEF HasFields

\* What is in front of a is in front of a and b.
LEMMA HeadIs ==
  ASSUME NEW a \in Text, a # <<>>, NEW b \in Text
  PROVE  HeadOf(a \o b) = a[1].c
<1>1. (a \o b)[1] = a[1] /\ a \o b # <<>>
  BY DEF Text
<1> QED  BY <1>1 DEF HeadOf

\* The first character of a type tells what sort of type it is.
First(c) ==
  CASE c.k = "prim"  -> c.c
    [] c.k = "ptr"   -> "^"
    [] c.k = "const" -> "r"
    [] HasFields(c)  -> Opener(c)
    [] c.k = "array" -> "["
    [] c.k = "bits"  -> "b"
    [] c.k \in {"object", "block"} -> "@"
    [] c.k = "opaque" -> "{"

\* No type begins as what may follow a type, and brackets begin only what they should.
LEMMA FirstIs ==
  ASSUME NEW c \in Types, NEW b \in Text
  PROVE  /\ HeadOf(Encode(c) \o b) = First(c)
         /\ First(c) \notin {"num", "name", "end", "}", ")", "n", "N", "o", "O", "R", "V"}
         /\ First(c) = "?" => c = Prim("?")
         /\ First(c) = "r" <=> c.k = "const"
         /\ First(c) = "^" <=> c.k = "ptr"
         /\ First(c) = "[" <=> c.k = "array"
         /\ First(c) \in {"{", "("} <=> HasFields(c) \/ c.k = "opaque"
<1>1. IsType(c)
  BY AbiAssumption
<1>2. c.k \in {"prim", "ptr", "struct", "union", "array", "const", "bits", "object", "block", "opaque"}
  BY Starts
<1>3. c.k = "prim" => c = Prim(c.c) /\ c.c \in Scalars \union {"@", "#", "*", ":", "v", "?"}
  BY <1>1, ScalarsAre DEF IsType
<1>4. HeadOf(Encode(c) \o b) = First(c)
  <2>1. Encode(c) \in Text
    BY TypesAre
  <2>2. Encode(c) # <<>> /\ Encode(c)[1].c = First(c)
    <3>1. EncodingRule(c)
      BY AbiAssumption
    <3>2. CASE c.k = "prim"
      <4>1. First(c) = c.c /\ Encode(c) = <<Ch(c.c)>>
        BY <3>1, <3>2 DEF EncodingRule, First, HasFields
      <4>2. Ch(c.c).c = c.c
        BY DEF Ch
      <4> QED  BY <4>1, <4>2
    <3>3. CASE c.k \in {"ptr", "const"}
      <4>1. Encode(c.e) \in Text
        BY <1>1, <3>3, TypesAre DEF IsType
      <4>2. Encode(c) = <<Ch(First(c))>> \o Encode(c.e)
        BY <3>1, <3>3 DEF EncodingRule, First, HasFields
      <4> QED  BY <4>1, <4>2 DEF Ch, Text
    <3>4. CASE HasFields(c)
      <4>1. Len(c.m) \in 0 .. Len(c.m)
        BY <3>4, TypesAre
      <4>2. Members(c)[Len(c.m)] \in Text
        BY <3>4, <4>1, MembersAre
      <4>3. Encode(c) = <<Ch(First(c)), Ch("tag"), Ch("=")>> \o Members(c)[Len(c.m)]
        BY <3>1, <3>4 DEF EncodingRule, First, HasFields
      <4> QED  BY <4>2, <4>3 DEF Ch, Text
    <3>5. CASE c.k = "array"
      <4>1. Encode(c.e) \in Text
        BY <1>1, <3>5, TypesAre DEF IsType, Known
      <4>2. Encode(c) = <<Ch(First(c)), Num(c.len)>> \o (Encode(c.e) \o <<Ch("]")>>)
        BY <3>1, <3>5 DEF EncodingRule, First, HasFields
      <4>3. Encode(c.e) \o <<Ch("]")>> \in Text
        <5>1. Ch("]") \in Chars
          BY CharsAre DEF Letters
        <5> QED  BY <4>1, <5>1 DEF Text
      <4> QED  BY <4>2, <4>3 DEF Ch, Text
    <3>6. CASE c.k \in {"bits", "object", "block", "opaque"}
      <4> DEFINE h == Ch(First(c))
      <4>1. \/ \E y : Encode(c) = <<h, y>>
            \/ \E y, z : Encode(c) = <<h, y, z>>
        BY <3>1, <3>6 DEF EncodingRule, First, HasFields
      <4>2. h.c = First(c)
        BY DEF Ch
      <4> HIDE DEF h
      <4>3. Encode(c) # <<>> /\ Encode(c)[1] = h
        BY <4>1
      <4> QED  BY <4>2, <4>3
    <3> QED  BY <1>2, <3>2, <3>3, <3>4, <3>5, <3>6 DEF HasFields
  <2> QED  BY <2>1, <2>2, HeadIs
<1>5. CASE c.k = "prim"
  BY <1>3, <1>4, <1>5 DEF First, Scalars, HasFields
<1>6. CASE c.k # "prim"
  BY <1>2, <1>4, <1>6 DEF First, HasFields, Opener
<1> QED  BY <1>5, <1>6

\* The token of a type measured right is the one the send relies on.
LEMMA RightToken ==
  ASSUME NEW t, IsLayout(Layout(t)), NEW ti, Right(ti, t), NEW isRet \in BOOLEAN,
         (isRet /\ Layout(t).void) \/ Carried(t)
  PROVE  \E kind \in KindsOf(t) : TokenOf(ti, isRet) = TokenOf(Measured(kind, t), isRet)
<1> DEFINE l == Layout(t)
           me == Measured(ti.kind, t)
<1>1. /\ l.void \in BOOLEAN /\ l.sized \in BOOLEAN /\ l.union \in BOOLEAN /\ l.width \in {0, 32, 64}
      /\ l.void => ~l.sized
      /\ ti.hfaN \in Nat
  BY DEF IsLayout, LayoutType, Right, TypeInfo
<1>2. me.kind = ti.kind /\ me.size = l.size /\ me.hfaN = IF l.width # 0 THEN l.regs ELSE 0
  BY DEF Measured
<1>3. CASE l.void
  <2>1. isRet /\ ti.kind = "VOID" /\ ti.kind \in KindsOf(t)
    BY <1>1, <1>3 DEF Carried, Right, KindsOf
  <2> HIDE DEF me
  <2>2. TokenOf(ti, isRet) = Tok("v") /\ TokenOf(me, isRet) = Tok("v")
    BY <1>2, <2>1 DEF TokenOf
  <2> QED  BY <2>1, <2>2 DEF me
<1>4. CASE ~l.void
  <2>1. l.sized /\ (l.width # 0 => ~l.union)
    BY <1>4 DEF Carried
  <2>2. ti.kind \in KindsOf(t) /\ ti.size = l.size /\ ti.hfaN = IF l.width # 0 THEN l.regs ELSE 0
    BY <1>1, <2>1 DEF Right
  <2> HIDE DEF me
  <2>3. TokenOf(ti, isRet) = TokenOf(me, isRet)
    BY <1>2, <2>2 DEF TokenOf
  <2> QED  BY <2>2, <2>3 DEF me
<1> QED  BY <1>3, <1>4

\* Every token is one the send knows.
LEMMA TokenIs ==
  ASSUME NEW ti \in TypeInfo, NEW isRet \in BOOLEAN
  PROVE  TokenOf(ti, isRet) \in Token
<1>1. ti.kind \in Kinds /\ ti.size \in Nat /\ ti.hfaN \in Nat
  BY DEF TypeInfo
<1>2. \A c \in {"g", "f", "v", "b", "s", "?", "*", "@"} : Tok(c) \in Token
  BY DEF Tok, Token
<1>3. (ti.size + 7) \div 8 \in Nat
  BY <1>1
<1>4. \A k \in Nat : [c |-> "h", k |-> k] \in Token /\ [c |-> "i", k |-> k] \in Token
  BY DEF Token
<1>5. CASE ti.kind = "AGG"
  <2>1. TokenOf(ti, isRet) \in {[c |-> "h", k |-> ti.hfaN], Tok("?"),
                                [c |-> "i", k |-> (ti.size + 7) \div 8], Tok("s"), Tok("b")}
    BY <1>5 DEF TokenOf
  <2> QED  BY <1>1, <1>2, <1>3, <1>4, <2>1
<1>6. CASE ti.kind # "AGG"
  <2>1. TokenOf(ti, isRet) \in {Tok("f"), Tok("g"), Tok("*"), Tok("@"), Tok("v"), Tok("?")}
    BY <1>1, <1>6 DEF TokenOf, Kinds
  <2> QED  BY <1>2, <2>1
<1> QED  BY <1>5, <1>6

---------------------------------------------------------------------------
(* Abi: where the parser stands.                                           *)

\* The calls on the stack.
Frame == [close : {"^", "]", "}", ")"}, len : Nat, acc : AccType]

\* The call s is about the type f.t, with the text f.k behind it.
About(f, s) ==
  /\ f.t \in Types /\ f.k \in Text /\ HeadOf(f.k) \notin {"?", "name"}
  /\ \/ f.t.k = "ptr" /\ s.close = "^"
     \/ f.t.k = "array" /\ s.close = "]" /\ s.len = f.t.len
     \/ HasFields(f.t) /\ s.close = Closer(f.t) /\ Gathered(s.acc, f.t)

\* In the innermost n calls of s, or in method m after i types, a type is due: is
\* one, which, and what is behind it.
IsDue(h, n, m, i, s) ==
  IF n = 0 THEN i \in 0 .. Arity(m) - 1
  ELSE HasFields(h[n].t) => s[n].acc.fields < Len(h[n].t.m)

\* Which type is due, and what is behind it.
Due(h, n, m, i, s) ==
  IF n = 0 THEN TypeAt(m, i + 1)
  ELSE IF HasFields(h[n].t) THEN h[n].t.m[s[n].acc.fields + 1]
  ELSE h[n].t.e
Behind(h, n, m, i, s) ==
  IF n = 0 THEN <<Num(8 * (Arity(m) - i))>> \o Encoding(m)[Arity(m) - i - 1]
  ELSE IF HasFields(h[n].t) THEN Members(h[n].t)[Len(h[n].t.m) - s[n].acc.fields - 1] \o h[n].k
  ELSE IF h[n].t.k = "array" THEN <<Ch("]")>> \o h[n].k
  ELSE h[n].k

\* Each call is about the type that is due where it was made.
Nested(h, m, i, s) ==
  \A n \in 1 .. Len(s) :
    /\ About(h[n], s[n])
    /\ IsDue(h, n - 1, m, i, s)
    /\ h[n].k = Behind(h, n - 1, m, i, s)
    /\ Layout(h[n].t) = Layout(Due(h, n - 1, m, i, s))

\* Five places to be: before the type that is due, or one it qualifies; after it;
\* at the end of the members; before a number between types; at the end.
BeforeType(h, m, i, s, g, x) ==
  /\ g = Nothing /\ IsDue(h, Len(s), m, i, s)
  /\ \E c \in Types : /\ Layout(c) = Layout(Due(h, Len(s), m, i, s))
                      /\ x = Encode(c) \o Behind(h, Len(s), m, i, s)
AfterType(h, m, i, s, g, x) ==
  /\ IsDue(h, Len(s), m, i, s)
  /\ Right(g, Due(h, Len(s), m, i, s))
  /\ x = Behind(h, Len(s), m, i, s)
AfterFields(h, s, g, x) ==
  /\ g = Nothing /\ s # <<>>
  /\ HasFields(h[Len(s)].t) /\ s[Len(s)].acc.fields = Len(h[Len(s)].t.m)
  /\ x = <<Ch(Closer(h[Len(s)].t))>> \o h[Len(s)].k
BeforeNumber(m, i, s, g, x) ==
  /\ g = Nothing /\ s = <<>> /\ i \in 1 .. Arity(m)
  /\ x = <<Num(8 * (Arity(m) + 1 - i))>> \o Encoding(m)[Arity(m) - i]
AtEnd(m, i, s, g, x) == g = Nothing /\ s = <<>> /\ i = Arity(m) /\ x = <<>>

\* The parser is in one of these places.
Somewhere(h, m, i, s, g, x) ==
  /\ Nested(h, m, i, s)
  /\ \/ BeforeType(h, m, i, s, g, x)
     \/ AfterType(h, m, i, s, g, x)
     \/ AfterFields(h, s, g, x)
     \/ BeforeNumber(m, i, s, g, x)
     \/ AtEnd(m, i, s, g, x)

\* A type that is due is one, and no text behind it is taken for a part of it.
LEMMA DueIs ==
  ASSUME NEW m \in Methods, NEW i, NEW s \in Seq(Frame), NEW h, Nested(h, m, i, s),
         NEW n \in 0 .. Len(s), IsDue(h, n, m, i, s)
  PROVE  /\ Due(h, n, m, i, s) \in Types
         /\ Behind(h, n, m, i, s) \in Text
         /\ HeadOf(Behind(h, n, m, i, s)) \notin {"?", "name"}
<1>1. CASE n = 0
  <2>1. i + 1 \in 1 .. Arity(m) /\ Arity(m) - i - 1 \in 0 .. Arity(m) /\ 8 * (Arity(m) - i) \in Nat
    BY <1>1, MethodsAre DEF IsDue
  <2>2. Due(h, n, m, i, s) \in Types
    BY <1>1, <2>1, MethodsAre DEF Due
  <2> DEFINE num == Num(8 * (Arity(m) - i))
             rest == Encoding(m)[Arity(m) - i - 1]
  <2>3. num \in Chars /\ num.c = "num" /\ rest \in Text
    BY <2>1, CharsAre, EncodingIs
  <2>4. Behind(h, n, m, i, s) = <<num>> \o rest
    BY <1>1 DEF Behind
  <2> HIDE DEF num, rest
  <2>5. <<num>> \in Text /\ <<num>> # <<>> /\ <<num>>[1] = num
    BY <2>3 DEF Text
  <2>6. HeadOf(<<num>> \o rest) = "num"
    BY <2>3, <2>5, HeadIs
  <2>7. <<num>> \o rest \in Text
    BY <2>3, <2>5 DEF Text
  <2> QED  BY <2>2, <2>4, <2>6, <2>7
<1> DEFINE t == h[n].t
           k == h[n].k
<1>2. CASE n \in 1 .. Len(s) /\ HasFields(t)
  <2> DEFINE j == s[n].acc.fields
  <2>1. t \in Types /\ k \in Text /\ HeadOf(k) \notin {"?", "name"} /\ Gathered(s[n].acc, t)
    BY <1>2 DEF Nested, About, HasFields
  <2>2. j \in Nat /\ j < Len(t.m)
    <3>1. j \in Nat
      BY <2>1 DEF Gathered, AccType
    <3>2. n # 0
      BY <1>2
    <3>3. j < Len(t.m)
      BY <1>2, <3>2 DEF IsDue
    <3> QED  BY <3>1, <3>3
  <2>3. Len(t.m) \in Nat /\ j + 1 \in 1 .. Len(t.m) /\ Len(t.m) - j - 1 \in 0 .. Len(t.m)
    <3>1. Len(t.m) \in Nat
      BY <1>2, <2>1, TypesAre
    <3>2. \A N, p \in Nat : p < N => p + 1 \in 1 .. N /\ N - p - 1 \in 0 .. N
      OBVIOUS
    <3> HIDE DEF j, t
    <3> QED  BY <2>2, <3>1, <3>2
  <2>4. n # 0
    BY <1>2
  <2>5. Due(h, n, m, i, s) = t.m[j + 1] /\ Behind(h, n, m, i, s) = Members(t)[Len(t.m) - j - 1] \o k
    BY <1>2, <2>4 DEF Due, Behind
  <2>6. t.m[j + 1] \in Types
    BY <1>2, <2>1, <2>3, TypesAre
  <2>7. Members(t)[Len(t.m) - j - 1] \in Text
    BY <1>2, <2>1, <2>3, MembersAre
  <2>8. HeadOf(Members(t)[Len(t.m) - j - 1] \o k) \notin {"?", "name"}
    <3>1. CASE Len(t.m) - j - 1 = 0
      <4>1. Members(t)[Len(t.m) - j - 1] = <<Ch(Closer(t))>>
        BY <1>2, <2>1, <3>1, MembersAre
      <4> DEFINE x == Ch(Closer(t))
      <4>2. x \in Chars /\ x.c = Closer(t) /\ Closer(t) \notin {"?", "name"}
        BY CharsAre DEF Letters, Closer
      <4> HIDE DEF x
      <4>3. HeadOf(<<x>> \o k) = x.c
        <5>1. <<x>> \in Text /\ <<x>> # <<>> /\ <<x>>[1] = x
          BY <4>2 DEF Text
        <5> QED  BY <2>1, <5>1, HeadIs
      <4> QED  BY <4>1, <4>2, <4>3 DEF x
    <3>2. CASE Len(t.m) - j - 1 # 0
      <4> DEFINE q == Len(t.m) - j - 1
                 c == t.m[Len(t.m) + 1 - q]
      <4>1. q \in 1 .. Len(t.m) /\ q - 1 \in 0 .. Len(t.m) /\ Len(t.m) + 1 - q \in 1 .. Len(t.m)
        <5>1. \A N, p \in Nat : p < N /\ N - p - 1 # 0 =>
                /\ N - p - 1 \in 1 .. N /\ N - p - 1 - 1 \in 0 .. N /\ N + 1 - (N - p - 1) \in 1 .. N
          OBVIOUS
        <5> HIDE DEF j, t
        <5> QED  BY <2>2, <2>3, <3>2, <5>1
      <4>2. c \in Known /\ c \in Types /\ Members(t)[q - 1] \in Text
        BY <1>2, <2>1, <4>1, TypesAre, MembersAre
      <4>3. Members(t)[q] = Encode(c) \o Members(t)[q - 1]
        BY <1>2, <2>1, <4>1, MembersAre
      <4> HIDE DEF q, c
      <4>4. Encode(c) \in Text
        BY <4>2, TypesAre
      <4>5. Members(t)[q] \o k = Encode(c) \o (Members(t)[q - 1] \o k)
        <5> DEFINE code == Encode(c)
                   rest == Members(t)[q - 1]
        <5>1. code \in Text /\ rest \in Text /\ k \in Text
          BY <2>1, <4>2, <4>4
        <5> HIDE DEF code, rest, k
        <5>2. (code \o rest) \o k = code \o (rest \o k)
          BY <5>1, TextsJoin, Zenon
        <5> QED  BY <4>3, <5>2 DEF code, rest
      <4>6. Members(t)[q - 1] \o k \in Text
        BY <2>1, <4>2 DEF Text
      <4>7. HeadOf(Members(t)[q] \o k) = First(c) /\ First(c) # "?" /\ First(c) # "name"
        BY <4>2, <4>5, <4>6, FirstIs DEF Known
      <4> QED  BY <4>7 DEF q
    <3> QED  BY <3>1, <3>2
  <2> HIDE DEF t, k, j
  <2>9. Members(t)[Len(t.m) - j - 1] \o k \in Text
    BY <2>1, <2>7 DEF Text
  <2> QED  BY <2>5, <2>6, <2>8, <2>9
<1>3. CASE n \in 1 .. Len(s) /\ ~HasFields(t)
  <2>1. t \in Types /\ k \in Text /\ HeadOf(k) \notin {"?", "name"} /\ t.k \in {"ptr", "array"}
    BY <1>3 DEF Nested, About
  <2>2. t.e \in Types
    BY <2>1, TypesAre DEF IsType, Known
  <2>3. n # 0
    BY <1>3
  <2>4. Due(h, n, m, i, s) = t.e
    BY <1>3, <2>3 DEF Due
  <2>5. CASE t.k = "ptr"
    BY <1>3, <2>1, <2>2, <2>3, <2>4, <2>5 DEF Behind
  <2>6. CASE t.k = "array"
    <3>1. Behind(h, n, m, i, s) = <<Ch("]")>> \o k
      BY <1>3, <2>3, <2>6 DEF Behind
    <3> DEFINE x == Ch("]")
    <3>2. x \in Chars /\ x.c = "]"
      BY CharsAre DEF Letters
    <3> HIDE DEF x
    <3>3. <<x>> \in Text /\ <<x>> # <<>> /\ <<x>>[1] = x
      BY <3>2 DEF Text
    <3>4. HeadOf(<<x>> \o k) = "]"
      BY <2>1, <3>2, <3>3, HeadIs
    <3>5. <<x>> \o k \in Text
      BY <2>1, <3>3 DEF Text
    <3> QED  BY <2>2, <2>4, <3>1, <3>4, <3>5 DEF x
  <2> QED  BY <2>1, <2>5, <2>6
<1> QED  BY <1>1, <1>2, <1>3

\* What is due in the outer calls depends on them only.
LEMMA SameOutside ==
  ASSUME NEW m, NEW i, NEW s, NEW s2, NEW h, NEW h2, NEW n,
         n # 0 => h2[n] = h[n] /\ s2[n] = s[n]
  PROVE  /\ IsDue(h2, n, m, i, s2) = IsDue(h, n, m, i, s)
         /\ Due(h2, n, m, i, s2) = Due(h, n, m, i, s)
         /\ Behind(h2, n, m, i, s2) = Behind(h, n, m, i, s)
  BY DEF IsDue, Due, Behind

\* A call about the type that is due.
LEMMA DeeperIs ==
  ASSUME NEW m, NEW i, NEW s \in Seq(Frame), NEW h, Nested(h, m, i, s), IsDue(h, Len(s), m, i, s),
         NEW f, NEW new \in Frame, About(f, new), f.k = Behind(h, Len(s), m, i, s),
         Layout(f.t) = Layout(Due(h, Len(s), m, i, s))
  PROVE  \E h2 : /\ Nested(h2, m, i, Append(s, new)) /\ h2[Len(s) + 1] = f
                 /\ Append(s, new) \in Seq(Frame) /\ Len(Append(s, new)) = Len(s) + 1
                 /\ Append(s, new)[Len(s) + 1] = new
<1> DEFINE N == Len(s)
           s2 == Append(s, new)
           h2 == [n \in 1 .. N + 1 |-> IF n = N + 1 THEN f ELSE h[n]]
<1>1. N \in Nat /\ s2 \in Seq(Frame) /\ Len(s2) = N + 1 /\ s2[N + 1] = new /\ \A n \in 1 .. N : s2[n] = s[n]
  BY AppendProperties
<1>2. h2[N + 1] = f /\ \A n \in 1 .. N : h2[n] = h[n]
  BY <1>1
<1> HIDE DEF s2, h2
<1>3. \A n \in 0 .. N : /\ IsDue(h2, n, m, i, s2) = IsDue(h, n, m, i, s)
                        /\ Due(h2, n, m, i, s2) = Due(h, n, m, i, s)
                        /\ Behind(h2, n, m, i, s2) = Behind(h, n, m, i, s)
  <2> TAKE n \in 0 .. N
  <2>1. n # 0 => h2[n] = h[n] /\ s2[n] = s[n]
    BY <1>1, <1>2
  <2> QED  BY <2>1, SameOutside
<1>4. ASSUME NEW n \in 1 .. N + 1
      PROVE  /\ About(h2[n], s2[n])
             /\ IsDue(h2, n - 1, m, i, s2)
             /\ h2[n].k = Behind(h2, n - 1, m, i, s2)
             /\ Layout(h2[n].t) = Layout(Due(h2, n - 1, m, i, s2))
  <2>1. CASE n \in 1 .. N
    <3>1. n - 1 \in 0 .. N /\ h2[n] = h[n] /\ s2[n] = s[n]
      BY <1>1, <1>2, <2>1
    <3> QED  BY <1>3, <2>1, <3>1 DEF Nested
  <2>2. CASE n = N + 1
    <3>1. n - 1 = N /\ N \in 0 .. N
      BY <1>1, <2>2
    <3> QED  BY <1>1, <1>2, <1>3, <2>2, <3>1
  <2> QED  BY <1>1, <2>1, <2>2
<1>5. Nested(h2, m, i, s2)
  BY <1>1, <1>4 DEF Nested
<1> QED  BY <1>1, <1>2, <1>5 DEF s2

\* The calls around the innermost one.
Outer(s) == SubSeq(s, 1, Len(s) - 1)

\* A call comes back with its type measured right.
LEMMA ShallowerIs ==
  ASSUME NEW m, NEW i, NEW s \in Seq(Frame), s # <<>>, NEW h, Nested(h, m, i, s),
         NEW g, Right(g, h[Len(s)].t), NEW x, x = h[Len(s)].k
  PROVE  Outer(s) \in Seq(Frame) /\ Somewhere(h, m, i, Outer(s), g, x)
<1> DEFINE N == Len(s)
           s2 == Outer(s)
<1>1. N \in Nat \ {0}
  OBVIOUS
<1>2. s2 \in Seq(Frame) /\ Len(s2) = N - 1 /\ \A n \in 1 .. N - 1 : s2[n] = s[n]
  <2> HIDE DEF s2
  <2>1. N - 1 \in 0 .. N /\ 1 \in 1 .. N + 1 /\ (N - 1) - 1 + 1 = N - 1
    BY <1>1
  <2>2. s2 = SubSeq(s, 1, N - 1)
    BY DEF s2, Outer
  <2>3. s2 \in Seq(Frame)
    BY <1>1, <2>1, <2>2
  <2>4. Len(s2) = N - 1
    BY <1>1, <2>1, <2>2
  <2>5. \A n \in 1 .. N - 1 : s2[n] = s[n]
    BY <1>1, <2>1, <2>2
  <2> QED  BY <2>3, <2>4, <2>5
<1> HIDE DEF s2, N
<1>3. \A n \in 0 .. N - 1 : /\ IsDue(h, n, m, i, s2) = IsDue(h, n, m, i, s)
                            /\ Due(h, n, m, i, s2) = Due(h, n, m, i, s)
                            /\ Behind(h, n, m, i, s2) = Behind(h, n, m, i, s)
  <2> TAKE n \in 0 .. N - 1
  <2>1. n # 0 => s2[n] = s[n]
    BY <1>1, <1>2
  <2> QED  BY <2>1, SameOutside
<1>4. Nested(h, m, i, s2)
  <2>1. ASSUME NEW n \in 1 .. N - 1
        PROVE  /\ About(h[n], s2[n])
               /\ IsDue(h, n - 1, m, i, s2)
               /\ h[n].k = Behind(h, n - 1, m, i, s2)
               /\ Layout(h[n].t) = Layout(Due(h, n - 1, m, i, s2))
    <3>1. n - 1 \in 0 .. N - 1 /\ n \in 1 .. N /\ s2[n] = s[n]
      BY <1>1, <1>2
    <3> QED  BY <1>3, <3>1 DEF Nested, N
  <2> QED  BY <1>2, <2>1 DEF Nested
<1>5. /\ IsDue(h, N - 1, m, i, s)
      /\ h[N].k = Behind(h, N - 1, m, i, s)
      /\ Layout(h[N].t) = Layout(Due(h, N - 1, m, i, s))
  <2>1. N \in 1 .. N
    BY <1>1
  <2> QED  BY <2>1 DEF Nested, N
<1>6. N - 1 \in 0 .. N - 1
  BY <1>1
<1>7. Right(g, Due(h, N - 1, m, i, s))
  BY <1>5 DEF Right, KindsOf, N
<1>8. AfterType(h, m, i, s2, g, x)
  BY <1>2, <1>3, <1>5, <1>6, <1>7 DEF AfterType, N
<1> QED  BY <1>2, <1>4, <1>8 DEF Somewhere, s2

\* The innermost call, if there is one.
LEMMA SomeCalls ==
  ASSUME NEW S, NEW s \in Seq(S), s # <<>>
  PROVE  Len(s) \in Nat \ {0} /\ Len(s) \in 1 .. Len(s)
  OBVIOUS

\* The members that are left after a of b.
LEMMA RestOf ==
  \A a, b \in Nat : a <= b /\ a # b =>
    /\ b - a \in 1 .. b /\ b - a - 1 \in 0 .. b /\ b + 1 - (b - a) = a + 1 /\ a < b /\ a + 1 \in 1 .. b
  OBVIOUS

\* Inside brackets, after some of the members.
LEMMA BetweenFields ==
  ASSUME NEW m, NEW i, NEW s \in Seq(Frame), s # <<>>, NEW h, Nested(h, m, i, s),
         HasFields(h[Len(s)].t), NEW x,
         x = Members(h[Len(s)].t)[Len(h[Len(s)].t.m) - s[Len(s)].acc.fields] \o h[Len(s)].k
  PROVE  Somewhere(h, m, i, s, Nothing, x)
<1> DEFINE n == Len(s)
           t == h[n].t
           k == h[n].k
           j == s[n].acc.fields
           N == Len(t.m)
<1>1. n \in Nat \ {0} /\ n \in 1 .. Len(s)
  <2> HIDE DEF t, k, j, N
  <2> QED  BY SomeCalls, Zenon
<1>2. t \in Types /\ k \in Text /\ Gathered(s[n].acc, t)
  BY <1>1 DEF Nested, About, HasFields
<1>3. j \in Nat /\ N \in Nat /\ j <= N
  BY <1>2, TypesAre DEF Gathered, AccType
<1>4. CASE j = N
  <2>1. N - j = 0
    BY <1>3, <1>4
  <2>2. Members(t)[N - j] = <<Ch(Closer(t))>>
    BY <1>2, <2>1, MembersAre
  <2> QED  BY <1>4, <2>2 DEF AfterFields, Somewhere
<1>5. CASE j # N
  <2> DEFINE q == N - j
  <2>1. q \in 1 .. N /\ q - 1 \in 0 .. N /\ N + 1 - q = j + 1 /\ N - j - 1 = q - 1
        /\ j < N /\ j + 1 \in 1 .. N
    <3> HIDE DEF j, N
    <3> QED  BY <1>3, <1>5, RestOf
  <2>2. Members(t)[q] = Encode(t.m[j + 1]) \o Members(t)[q - 1]
    BY <1>2, <2>1, MembersAre
  <2>3. t.m[j + 1] \in Types /\ Encode(t.m[j + 1]) \in Text /\ Members(t)[q - 1] \in Text
    BY <1>2, <2>1, TypesAre, MembersAre
  <2>4. Members(t)[q] \o k = Encode(t.m[j + 1]) \o (Members(t)[q - 1] \o k)
    <3> DEFINE a == Encode(t.m[j + 1])
               b == Members(t)[q - 1]
    <3>1. a \in Text /\ b \in Text /\ k \in Text
      BY <1>2, <2>3
    <3> HIDE DEF a, b, k
    <3>2. (a \o b) \o k = a \o (b \o k)
      BY <3>1, TextsJoin, Zenon
    <3> QED  BY <2>2, <3>2 DEF a, b
  <2>5. IsDue(h, n, m, i, s) /\ Due(h, n, m, i, s) = t.m[j + 1]
        /\ Behind(h, n, m, i, s) = Members(t)[q - 1] \o k
    BY <1>1, <2>1 DEF IsDue, Due, Behind
  <2>6. x = Encode(t.m[j + 1]) \o Behind(h, n, m, i, s)
    BY <2>4, <2>5
  <2> HIDE DEF t, k, j, N, q
  <2>7. BeforeType(h, m, i, s, Nothing, x)
    BY <2>3, <2>5, <2>6 DEF BeforeType
  <2> QED  BY <2>7 DEF Somewhere
<1> QED  BY <1>4, <1>5

\* Between the types of the method, with the number read.
LEMMA BetweenTypes ==
  ASSUME NEW m \in Methods, NEW i \in 0 .. Arity(m), NEW h
  PROVE  Somewhere(h, m, i, <<>>, Nothing, Encoding(m)[Arity(m) - i])
<1> DEFINE N == Arity(m)
           x == Encoding(m)[Arity(m) - i]
<1>1. N \in Nat
  BY MethodsAre
<1>2. Nested(h, m, i, <<>>)
  BY DEF Nested
<1>3. CASE i = N
  <2>1. N - i = 0
    BY <1>1, <1>3
  <2>2. x = <<>>
    BY <2>1, EncodingIs
  <2> QED  BY <1>2, <1>3, <2>2 DEF Somewhere, AtEnd
<1>4. CASE i # N
  <2>1. N - i \in 1 .. N /\ N + 1 - (N - i) = i + 1 /\ i \in 0 .. N - 1 /\ i + 1 \in 1 .. N
    <3> HIDE DEF N
    <3>1. i \in 0 .. N
      BY DEF N
    <3> QED  BY <1>1, <1>4, <3>1
  <2>2. x = Encode(TypeAt(m, i + 1)) \o (<<Num(8 * (N - i))>> \o Encoding(m)[N - i - 1])
    BY <2>1, EncodingIs
  <2>3. TypeAt(m, i + 1) \in Types
    BY <2>1, MethodsAre
  <2>4. Len(<<>>) = 0
    OBVIOUS
  <2>5. /\ IsDue(h, 0, m, i, <<>>) /\ Due(h, 0, m, i, <<>>) = TypeAt(m, i + 1)
        /\ Behind(h, 0, m, i, <<>>) = <<Num(8 * (N - i))>> \o Encoding(m)[N - i - 1]
    BY <2>1 DEF IsDue, Due, Behind
  <2> HIDE DEF x
  <2>6. BeforeType(h, m, i, <<>>, Nothing, x)
    BY <2>2, <2>3, <2>4, <2>5, Zenon DEF BeforeType
  <2> QED  BY <1>2, <2>6 DEF Somewhere, x
<1> QED  BY <1>3, <1>4

---------------------------------------------------------------------------
(* Abi: each step of the parser leads from one such place to another.      *)

\* The calls under way make sense of what has been read and of what has not.
Standing ==
  /\ method \in Methods /\ stack \in Seq(Frame)
  /\ \E h : Somewhere(h, method, idx, stack, got, text)

\* The innermost call.
LEMMA TopIs ==
  ASSUME stack \in Seq(Frame), stack # <<>>, NEW h, Nested(h, method, idx, stack)
  PROVE  LET t == h[Len(stack)].t IN
         /\ Len(stack) \in Nat \ {0}
         /\ About(h[Len(stack)], Top) /\ Top \in Frame /\ t \in Types /\ h[Len(stack)].k \in Text
         /\ InFields <=> HasFields(t)
         /\ HasFields(t) => Top.close = Closer(t) /\ Gathered(Top.acc, t)
         /\ Top.close = "^" <=> t.k = "ptr"
         /\ Top.close = "]" <=> t.k = "array"
         /\ t.k = "array" => Top.len = t.len
<1> DEFINE n == Len(stack)
<1>1. n \in Nat \ {0}
  OBVIOUS
<1>2. Top \in Frame /\ Top = stack[n]
  BY <1>1 DEF Top
<1>3. About(h[n], Top)
  BY <1>1, <1>2 DEF Nested
<1> HIDE DEF n
<1> QED  BY <1>1, <1>2, <1>3 DEF About, InFields, HasFields, Closer, n

\* The character the parser looks at.
LEMMA FirstAt == ASSUME text \in Text PROVE At(1) = HeadOf(text)
<1>1. CASE text = <<>>
  BY <1>1 DEF At, HeadOf
<1>2. CASE text # <<>>
  <2>1. 1 <= Len(text)
    BY <1>2 DEF Text
  <2> QED  BY <1>2, <2>1 DEF At, HeadOf
<1> QED  BY <1>1, <1>2

\* What is in front, in each of the five places.
LEMMA BeforeTypeIs ==
  ASSUME method \in Methods, stack \in Seq(Frame), NEW h, Nested(h, method, idx, stack),
         NEW c \in Types, IsDue(h, Len(stack), method, idx, stack),
         text = Encode(c) \o Behind(h, Len(stack), method, idx, stack)
  PROVE  /\ At(1) = First(c)
         /\ Behind(h, Len(stack), method, idx, stack) \in Text
         /\ HeadOf(Behind(h, Len(stack), method, idx, stack)) \notin {"?", "name"}
         /\ At(1) \notin Ending
<1> DEFINE K == Behind(h, Len(stack), method, idx, stack)
<1>1. Len(stack) \in 0 .. Len(stack)
  OBVIOUS
<1>2. K \in Text /\ HeadOf(K) \notin {"?", "name"}
  BY <1>1, DueIs
<1>3. Encode(c) \in Text
  BY TypesAre
<1> HIDE DEF K
<1>4. text \in Text
  BY <1>2, <1>3 DEF Text, K
<1>5. At(1) = First(c) /\ First(c) \notin {"end", "}", ")"}
  BY <1>2, <1>4, FirstAt, FirstIs DEF K
<1>6. At(1) \notin Ending
  BY <1>5 DEF Ending, InFields
<1> QED  BY <1>2, <1>5, <1>6 DEF K

\* At the end of the members their bracket is in front, and ends them.
LEMMA AfterFieldsIs ==
  ASSUME stack \in Seq(Frame), NEW h, Nested(h, method, idx, stack), AfterFields(h, stack, got, text)
  PROVE  /\ InFields /\ stack # <<>> /\ At(1) = Top.close
         /\ At(1) \in Ending /\ At(1) \notin Skipped
         /\ Eat(1) => text' = h[Len(stack)].k
<1>1. stack # <<>> /\ HasFields(h[Len(stack)].t)
  BY DEF AfterFields
<1>2. InFields /\ Top.close = Closer(h[Len(stack)].t) /\ h[Len(stack)].k \in Text
  BY <1>1, TopIs
<1> DEFINE x == Ch(Closer(h[Len(stack)].t))
<1>3. x \in Chars /\ x.c = Top.close /\ Top.close \in {"}", ")"}
  BY <1>2, CharsAre DEF Closer, Letters
<1>4. text = <<x>> \o h[Len(stack)].k
  BY DEF AfterFields
<1> HIDE DEF x
<1>5. At(1) = x.c /\ (Eat(1) => text' = h[Len(stack)].k)
  BY <1>2, <1>3, <1>4, OneBefore
<1> QED  BY <1>1, <1>2, <1>3, <1>5 DEF Ending, Skipped

\* Between types a number is in front, and is passed over.
LEMMA BeforeNumberIs ==
  ASSUME method \in Methods, BeforeNumber(method, idx, stack, got, text)
  PROVE  /\ At(1) = "num" /\ At(1) \in Skipped /\ At(1) \notin Ending
         /\ Eat(1) => text' = Encoding(method)[Arity(method) - idx]
<1>1. Arity(method) \in Nat /\ idx \in 1 .. Arity(method) /\ stack = <<>>
  BY MethodsAre DEF BeforeNumber
<1>2. Arity(method) - idx \in 0 .. Arity(method) /\ 8 * (Arity(method) + 1 - idx) \in Nat
  BY <1>1
<1> DEFINE x == Num(8 * (Arity(method) + 1 - idx))
           b == Encoding(method)[Arity(method) - idx]
<1>3. x \in Chars /\ x.c = "num" /\ b \in Text
  BY <1>2, CharsAre, EncodingIs
<1>4. text = <<x>> \o b
  BY DEF BeforeNumber
<1> HIDE DEF x, b
<1>5. At(1) = "num" /\ (Eat(1) => text' = b)
  BY <1>3, <1>4, OneBefore
<1> QED  BY <1>1, <1>5 DEF Skipped, Ending, InFields, b

\* At the end there is nothing.
LEMMA AtEndIs ==
  ASSUME AtEnd(method, idx, stack, got, text)
  PROVE  At(1) = "end" /\ At(1) \in Ending /\ At(1) \notin Skipped
<1>1. stack = <<>> /\ text = <<>>
  BY DEF AtEnd
<1>2. At(1) = "end"
  BY <1>1 DEF At
<1> QED  BY <1>1, <1>2 DEF Ending, Skipped, InFields

\* Nothing that is measured right is nothing.
LEMMA RightIsSome == \A t : ~Right(Nothing, t)
<1>1. Nothing.kind = "NOTHING"
  BY DEF Nothing, TI
<1> QED  BY <1>1 DEF Right, TypeInfo, Kinds

\* A type c in front where one is due, with K behind it.
InFront(h, c, K) ==
  /\ method \in Methods /\ stack \in Seq(Frame)
  /\ Nested(h, method, idx, stack) /\ IsDue(h, Len(stack), method, idx, stack)
  /\ c \in Types /\ c.k # "const" /\ Layout(c) = Layout(Due(h, Len(stack), method, idx, stack))
  /\ K = Behind(h, Len(stack), method, idx, stack) /\ K \in Text /\ HeadOf(K) \notin {"?", "name"}
  /\ text = Encode(c) \o K /\ At(1) = First(c)

\* Where ParseType is called there is a type.
LEMMA TypeInFront ==
  ASSUME Standing, got = Nothing, At(1) \notin Skipped \union Ending
  PROVE  \E h, c, K : InFront(h, c, K)
<1>1. PICK h : Somewhere(h, method, idx, stack, got, text)
  BY DEF Standing
<1>2. Nested(h, method, idx, stack) /\ method \in Methods /\ stack \in Seq(Frame)
  BY <1>1 DEF Somewhere, Standing
<1>3. ~AfterType(h, method, idx, stack, got, text)
  BY RightIsSome DEF AfterType
<1>4. ~AfterFields(h, stack, got, text)
  BY <1>2, AfterFieldsIs
<1>5. ~BeforeNumber(method, idx, stack, got, text) /\ ~AtEnd(method, idx, stack, got, text)
  BY <1>2, BeforeNumberIs, AtEndIs
<1>6. BeforeType(h, method, idx, stack, got, text)
  BY <1>1, <1>3, <1>4, <1>5 DEF Somewhere
<1> DEFINE K == Behind(h, Len(stack), method, idx, stack)
<1>7. PICK c \in Types : /\ Layout(c) = Layout(Due(h, Len(stack), method, idx, stack))
                         /\ text = Encode(c) \o K
  BY <1>6 DEF BeforeType
<1>8. IsDue(h, Len(stack), method, idx, stack)
  BY <1>6 DEF BeforeType
<1>9. At(1) = First(c) /\ K \in Text /\ HeadOf(K) \notin {"?", "name"}
  BY <1>2, <1>7, <1>8, BeforeTypeIs
<1>10. c.k # "const"
  <2>1. First(c) # "r"
    BY <1>9 DEF Skipped
  <2> QED  BY <1>9, <2>1, FirstIs
<1>11. InFront(h, c, K)
  BY <1>2, <1>7, <1>8, <1>9, <1>10 DEF InFront
<1> QED  BY <1>11

\* Once it is measured right the parser is behind it.
LEMMA MeasuredIs ==
  ASSUME NEW h, NEW c, NEW K, InFront(h, c, K), NEW g, Right(g, c)
  PROVE  Somewhere(h, method, idx, stack, g, K)
<1>1. Right(g, Due(h, Len(stack), method, idx, stack))
  BY DEF InFront, Right, KindsOf
<1> QED  BY <1>1 DEF InFront, AfterType, Somewhere

\* With a type read, it is the one that was due.
LEMMA TypeBehind ==
  ASSUME Standing, got # Nothing
  PROVE  \E h : Nested(h, method, idx, stack) /\ AfterType(h, method, idx, stack, got, text)
<1>1. PICK h : Somewhere(h, method, idx, stack, got, text)
  BY DEF Standing
<1> QED  BY <1>1 DEF Somewhere, BeforeType, AfterFields, BeforeNumber, AtEnd

\* A qualifier or a number is passed over: the type it qualifies has its layout (ParseType).
LEMMA SkipStep == ASSUME Standing, Skip PROVE Standing'
<1>1. PICK h : Somewhere(h, method, idx, stack, got, text)
  BY DEF Standing
<1>2. /\ Nested(h, method, idx, stack) /\ method \in Methods /\ stack \in Seq(Frame)
      /\ got = Nothing /\ At(1) \in Skipped /\ Eat(1)
      /\ method' = method /\ idx' = idx /\ stack' = stack /\ got' = got
  BY <1>1 DEF Somewhere, Standing, Skip, Parsing, marshalVars
<1>3. CASE BeforeType(h, method, idx, stack, got, text)
  <2> DEFINE K == Behind(h, Len(stack), method, idx, stack)
  <2>1. IsDue(h, Len(stack), method, idx, stack)
    BY <1>3 DEF BeforeType
  <2>2. PICK c \in Types : Layout(c) = Layout(Due(h, Len(stack), method, idx, stack)) /\ text = Encode(c) \o K
    BY <1>3 DEF BeforeType
  <2>3. At(1) = First(c) /\ K \in Text
    BY <1>2, <2>1, <2>2, BeforeTypeIs
  <2> HIDE DEF K
  <2>4. c.k = "const"
    <3>1. First(c) = "r"
      BY <1>2, <2>3, FirstIs DEF Skipped
    <3> QED  BY <2>3, <3>1, FirstIs
  <2>5. c.e \in Types
    BY <2>4, TypesAre DEF IsType
  <2>6. Layout(c.e) = Layout(c)
    <3>1. LayoutRule(c)
      BY AbiAssumption
    <3> QED  BY <2>4, <3>1, Zenon DEF LayoutRule
  <2>7. text' = Encode(c.e) \o K
    <3> DEFINE x == Ch("r")
               b == Encode(c.e) \o K
    <3>1. x \in Chars
      BY CharsAre DEF Letters
    <3>2. b \in Text
      BY <2>3, <2>5, TypesAre DEF Text
    <3>3. text = <<x>> \o b
      BY <2>2, <2>3, <2>4, Starts
    <3> HIDE DEF x, b
    <3>4. text' = b
      BY <1>2, <3>1, <3>2, <3>3, OneBefore
    <3> QED  BY <3>4 DEF b
  <2>8. BeforeType(h, method, idx, stack, Nothing, text')
    BY <2>1, <2>2, <2>5, <2>6, <2>7 DEF BeforeType, K
  <2> QED  BY <1>2, <2>8 DEF Standing, Somewhere
<1>4. CASE AfterType(h, method, idx, stack, got, text)
  BY <1>2, <1>4, RightIsSome DEF AfterType
<1>5. CASE AfterFields(h, stack, got, text)
  BY <1>2, <1>5, AfterFieldsIs
<1>6. CASE BeforeNumber(method, idx, stack, got, text)
  <2>1. text' = Encoding(method)[Arity(method) - idx] /\ stack = <<>> /\ idx \in 0 .. Arity(method)
    BY <1>2, <1>6, BeforeNumberIs DEF BeforeNumber
  <2>2. Somewhere(h, method, idx, <<>>, Nothing, text')
    BY <1>2, <2>1, BetweenTypes
  <2> QED  BY <1>2, <2>1, <2>2 DEF Standing
<1>7. CASE AtEnd(method, idx, stack, got, text)
  BY <1>2, <1>7, AtEndIs
<1> QED  BY <1>1, <1>3, <1>4, <1>5, <1>6, <1>7 DEF Somewhere

\* A call about the type c, with K behind it, made with `new`.
Inside(h, m, i, s, c, K, new) ==
  /\ Nested(h, m, i, s) /\ s \in Seq(Frame) /\ Len(s) \in Nat /\ Len(s) # 0 /\ s # <<>>
  /\ h[Len(s)].t = c /\ h[Len(s)].k = K /\ s[Len(s)] = new

\* Such a call is nested in the ones before it.
LEMMA CallIs ==
  ASSUME NEW m, NEW i, NEW s \in Seq(Frame), NEW h, Nested(h, m, i, s), IsDue(h, Len(s), m, i, s),
         NEW c, Layout(c) = Layout(Due(h, Len(s), m, i, s)),
         NEW K, K = Behind(h, Len(s), m, i, s),
         NEW new \in Frame, About([t |-> c, k |-> K], new)
  PROVE  \E h2 : Inside(h2, m, i, Append(s, new), c, K, new)
<1> DEFINE f == [t |-> c, k |-> K]
<1>1. f.t = c /\ f.k = K /\ About(f, new)
  OBVIOUS
<1> HIDE DEF f
<1>3. PICK h2 : /\ Nested(h2, m, i, Append(s, new)) /\ h2[Len(s) + 1] = f
                /\ Append(s, new) \in Seq(Frame) /\ Len(Append(s, new)) = Len(s) + 1
                /\ Append(s, new)[Len(s) + 1] = new
  BY <1>1, DeeperIs
<1> DEFINE s2 == Append(s, new)
<1>4. Len(s2) \in Nat /\ Len(s2) # 0 /\ s2 # <<>>
  <2>1. Len(s) \in Nat
    OBVIOUS
  <2>2. Len(s2) = Len(s) + 1
    BY <1>3
  <2> HIDE DEF s2
  <2> QED  BY <2>1, <2>2
<1>5. Inside(h2, m, i, s2, c, K, new)
  <2>1. Len(s2) = Len(s) + 1
    BY <1>3
  <2>2. Nested(h2, m, i, s2) /\ h2[Len(s2)] = f /\ s2[Len(s2)] = new /\ s2 \in Seq(Frame)
    BY <1>3, <2>1
  <2> HIDE DEF s2
  <2> QED  BY <1>1, <1>4, <2>2 DEF Inside
<1> QED  BY <1>5

\* A new call has gathered nothing.
LEMMA NoFieldsIs == NoFields \in AccType
  BY DEF NoFields, AccType

\* "^" begins a pointer; the type it points to is due (ParseType).
LEMMA OpenPointerStep == ASSUME Standing, OpenPointer PROVE Standing'
<1>1. /\ got = Nothing /\ At(1) \notin Skipped \union Ending /\ At(1) = "^" /\ Enter("^", 0) /\ Eat(1)
      /\ method' = method /\ idx' = idx /\ got' = got
  BY DEF OpenPointer, AtType, Parsing, marshalVars
<1>2. PICK h, c, K : InFront(h, c, K)
  BY <1>1, TypeInFront
<1> DEFINE new == [close |-> "^", len |-> 0, acc |-> NoFields]
<1>3. c \in Types /\ c.k = "ptr" /\ c.e \in Types
  <2>1. c \in Types /\ c.k = "ptr"
    BY <1>1, <1>2, FirstIs DEF InFront
  <2> QED  BY <2>1, TypesAre DEF IsType
<1>4. new \in Frame /\ new.close = "^" /\ stack' = Append(stack, new)
  BY <1>1, NoFieldsIs DEF Frame, Enter
<1> HIDE DEF new
<1>5. K \in Text /\ HeadOf(K) \notin {"?", "name"}
  BY <1>2 DEF InFront
<1>6. PICK h2 : Inside(h2, method, idx, Append(stack, new), c, K, new)
  <2>1. About([t |-> c, k |-> K], new)
    BY <1>3, <1>4, <1>5 DEF About
  <2> QED  BY <1>2, <1>4, <2>1, CallIs DEF InFront
<1>7. text' = Encode(c.e) \o K
  <2> DEFINE x == Ch("^")
             b == Encode(c.e) \o K
  <2>1. x \in Chars
    BY CharsAre DEF Letters
  <2>2. b \in Text
    BY <1>3, <1>5, TypesAre DEF Text
  <2>3. text = <<x>> \o b
    BY <1>2, <1>3, <1>5, Starts DEF InFront
  <2> HIDE DEF x, b
  <2>4. text' = b
    BY <1>1, <2>1, <2>2, <2>3, OneBefore
  <2> QED  BY <2>4 DEF b
<1>8. /\ IsDue(h2, Len(stack'), method, idx, stack')
      /\ Due(h2, Len(stack'), method, idx, stack') = c.e
      /\ Behind(h2, Len(stack'), method, idx, stack') = K
  BY <1>3, <1>4, <1>6 DEF IsDue, Due, Behind, HasFields, Inside
<1>9. BeforeType(h2, method, idx, stack', Nothing, text')
  BY <1>3, <1>7, <1>8 DEF BeforeType
<1> QED  BY <1>1, <1>2, <1>4, <1>6, <1>9 DEF Standing, Somewhere, Inside, InFront

\* "[" and a length begin an array; its element is due (ParseArray).
LEMMA OpenArrayStep == ASSUME Standing, OpenArray PROVE Standing'
<1>1. /\ got = Nothing /\ At(1) \notin Skipped \union Ending /\ At(1) = "["
      /\ At(2) = "num" => Enter("]", text[2].n) /\ Eat(2)
      /\ method' = method /\ idx' = idx /\ got' = got
  BY DEF OpenArray, AtType, Parsing, marshalVars
<1>2. PICK h, c, K : InFront(h, c, K)
  BY <1>1, TypeInFront
<1> DEFINE new == [close |-> "]", len |-> c.len, acc |-> NoFields]
<1>3. c \in Types /\ c.k = "array" /\ c.e \in Types /\ c.len \in Nat
  <2>1. c \in Types /\ c.k = "array"
    BY <1>1, <1>2, FirstIs DEF InFront
  <2> QED  BY <2>1, TypesAre DEF IsType, Known
<1>4. K \in Text /\ HeadOf(K) \notin {"?", "name"} /\ text = Encode(c) \o K
  BY <1>2 DEF InFront
<1>5. At(2) = "num" /\ text[2].n = c.len /\ (Eat(2) => text' = Encode(c.e) \o (<<Ch("]")>> \o K))
  <2> DEFINE x == Ch("[")
             y == Num(c.len)
             z == Ch("]")
             b == Encode(c.e) \o (<<z>> \o K)
  <2>1. x \in Chars /\ y \in Chars /\ y.c = "num" /\ y.n = c.len /\ z \in Chars
    BY <1>3, CharsAre DEF Letters
  <2>2. text = <<x, y>> \o b
    BY <1>3, <1>4, Starts
  <2> HIDE DEF x, y, z
  <2>3. b \in Text
    <3>1. <<z>> \o K \in Text
      BY <1>4, <2>1 DEF Text
    <3> QED  BY <1>3, <3>1, TypesAre DEF Text
  <2> HIDE DEF b
  <2>4. At(2) = y.c /\ text[2] = y /\ (Eat(2) => text' = b)
    BY <2>1, <2>2, <2>3, TwoBefore
  <2> QED  BY <2>1, <2>4 DEF b, z
<1>6. new \in Frame /\ new.close = "]" /\ new.len = c.len /\ stack' = Append(stack, new)
  BY <1>1, <1>3, <1>5, NoFieldsIs DEF Frame, Enter
<1> HIDE DEF new
<1>7. PICK h2 : Inside(h2, method, idx, Append(stack, new), c, K, new)
  <2>1. About([t |-> c, k |-> K], new)
    BY <1>3, <1>4, <1>6 DEF About
  <2> QED  BY <1>2, <1>6, <2>1, CallIs DEF InFront
<1>8. /\ IsDue(h2, Len(stack'), method, idx, stack')
      /\ Due(h2, Len(stack'), method, idx, stack') = c.e
      /\ Behind(h2, Len(stack'), method, idx, stack') = <<Ch("]")>> \o K
  BY <1>3, <1>6, <1>7 DEF IsDue, Due, Behind, HasFields, Inside
<1>9. BeforeType(h2, method, idx, stack', Nothing, text')
  BY <1>1, <1>3, <1>5, <1>8 DEF BeforeType
<1> QED  BY <1>1, <1>2, <1>6, <1>7, <1>9 DEF Standing, Somewhere, Inside, InFront

\* A bracket, a tag and "=" begin a struct or a union; its first member is due (ParseAgg).
LEMMA OpenFieldsStep == ASSUME Standing, OpenFields PROVE Standing'
<1>1. /\ got = Nothing /\ At(1) \notin Skipped \union Ending /\ At(1) \in {"{", "("} /\ At(3) = "="
      /\ Enter(IF At(1) = "{" THEN "}" ELSE ")", 0) /\ Eat(3)
      /\ method' = method /\ idx' = idx /\ got' = got
  BY DEF OpenFields, AtType, Parsing, marshalVars
<1>2. PICK h, c, K : InFront(h, c, K)
  BY <1>1, TypeInFront
<1>3. c \in Types /\ K \in Text /\ HeadOf(K) \notin {"?", "name"} /\ text = Encode(c) \o K /\ At(1) = First(c)
  BY <1>2 DEF InFront
<1>4. HasFields(c)
  <2>1. HasFields(c) \/ c.k = "opaque"
    BY <1>1, <1>3, FirstIs
  <2>2. CASE c.k = "opaque"
    <3> DEFINE x == Ch("{")
               y == Ch("tag")
               z == Ch("}")
    <3>1. x \in Chars /\ y \in Chars /\ z \in Chars /\ z.c = "}"
      BY CharsAre DEF Letters
    <3>2. text = <<x, y, z>> \o K
      BY <1>3, <2>2, Starts
    <3> HIDE DEF x, y, z
    <3>3. At(3) = "}"
      BY <1>3, <3>1, <3>2, ThreeBefore
    <3> QED  BY <1>1, <3>3
  <2> QED  BY <2>1, <2>2
<1> DEFINE new == [close |-> Closer(c), len |-> 0, acc |-> NoFields]
<1>5. (IF At(1) = "{" THEN "}" ELSE ")") = Closer(c)
  BY <1>3, <1>4 DEF First, HasFields, Opener, Closer
<1>6. new \in Frame /\ new.close = Closer(c) /\ new.acc = NoFields /\ stack' = Append(stack, new)
  BY <1>1, <1>5, NoFieldsIs DEF Frame, Enter, Closer
<1> HIDE DEF new
<1>7. PICK h2 : Inside(h2, method, idx, Append(stack, new), c, K, new)
  <2>1. Gathered(new.acc, c)
    BY <1>3, <1>4, <1>6, NoneGathered
  <2>2. About([t |-> c, k |-> K], new)
    BY <1>3, <1>4, <1>6, <2>1 DEF About
  <2> QED  BY <1>2, <1>6, <2>2, CallIs DEF InFront
<1>8. Len(c.m) \in Nat /\ Members(c)[Len(c.m)] \in Text
  <2>1. Len(c.m) \in Nat /\ Len(c.m) \in 0 .. Len(c.m)
    BY <1>3, <1>4, TypesAre
  <2> QED  BY <1>3, <1>4, <2>1, MembersAre
<1>9. text' = Members(c)[Len(c.m)] \o K
  <2> DEFINE x == Ch(Opener(c))
             y == Ch("tag")
             z == Ch("=")
             b == Members(c)[Len(c.m)] \o K
  <2>1. x \in Chars /\ y \in Chars /\ z \in Chars
    BY CharsAre DEF Letters, Opener
  <2>2. text = <<x, y, z>> \o b
    BY <1>3, <1>4, Starts
  <2>3. b \in Text
    BY <1>3, <1>8 DEF Text
  <2> HIDE DEF x, y, z, b
  <2>4. text' = b
    BY <1>1, <2>1, <2>2, <2>3, ThreeBefore
  <2> QED  BY <2>4 DEF b
<1>10. Somewhere(h2, method, idx, Append(stack, new), Nothing, text')
  <2> DEFINE s2 == Append(stack, new)
  <2>1. s2[Len(s2)].acc.fields = 0 /\ h2[Len(s2)].t = c /\ h2[Len(s2)].k = K
    BY <1>6, <1>7 DEF Inside, NoFields
  <2>2. s2 \in Seq(Frame) /\ s2 # <<>> /\ Nested(h2, method, idx, s2)
    BY <1>7 DEF Inside
  <2> HIDE DEF s2
  <2>3. Len(c.m) - 0 = Len(c.m)
    BY <1>8
  <2>4. Somewhere(h2, method, idx, s2, Nothing, text')
    BY <1>4, <1>9, <2>1, <2>2, <2>3, BetweenFields
  <2> QED  BY <2>4 DEF s2
<1> QED  BY <1>1, <1>2, <1>6, <1>7, <1>10 DEF Standing, Inside, InFront

\* Without "=" it is known by name only, and over (ParseAgg).
LEMMA NameOnlyStep == ASSUME Standing, NameOnly PROVE Standing'
<1>1. /\ got = Nothing /\ At(1) \notin Skipped \union Ending /\ At(1) \in {"{", "("} /\ At(3) # "="
      /\ Eat(IF At(3) = IF At(1) = "{" THEN "}" ELSE ")" THEN 3 ELSE 2)
      /\ method' = method /\ idx' = idx /\ stack' = stack /\ got' = UnknownType
  BY DEF NameOnly, AtType, Parsing, marshalVars
<1>2. PICK h, c, K : InFront(h, c, K)
  BY <1>1, TypeInFront
<1>3. c \in Types /\ K \in Text /\ text = Encode(c) \o K /\ At(1) = First(c)
  BY <1>2 DEF InFront
<1>4. c.k = "opaque"
  <2>1. HasFields(c) \/ c.k = "opaque"
    BY <1>1, <1>3, FirstIs
  <2>2. CASE HasFields(c)
    <3> DEFINE x == Ch(Opener(c))
               y == Ch("tag")
               z == Ch("=")
               b == Members(c)[Len(c.m)] \o K
    <3>1. x \in Chars /\ y \in Chars /\ z \in Chars /\ z.c = "="
      BY CharsAre DEF Letters, Opener
    <3>2. text = <<x, y, z>> \o b
      BY <1>3, <2>2, Starts
    <3>3. b \in Text
      <4>1. Len(c.m) \in 0 .. Len(c.m)
        BY <1>3, <2>2, TypesAre
      <4>2. Members(c)[Len(c.m)] \in Text
        BY <1>3, <2>2, <4>1, MembersAre
      <4> QED  BY <1>3, <4>2 DEF Text
    <3> HIDE DEF x, y, z, b
    <3>4. At(3) = "="
      BY <3>1, <3>2, <3>3, ThreeBefore
    <3> QED  BY <1>1, <3>4
  <2> QED  BY <2>1, <2>2
<1>5. text' = K
  <2> DEFINE x == Ch("{")
             y == Ch("tag")
             z == Ch("}")
  <2>1. x \in Chars /\ y \in Chars /\ z \in Chars /\ x.c = "{" /\ z.c = "}"
    BY CharsAre DEF Letters
  <2>2. text = <<x, y, z>> \o K
    BY <1>3, <1>4, Starts
  <2> HIDE DEF x, y, z
  <2>3. At(1) = "{" /\ At(3) = "}" /\ (Eat(3) => text' = K)
    BY <1>3, <2>1, <2>2, ThreeBefore
  <2> QED  BY <1>1, <2>3
<1>6. Right(UnknownType, c)
  BY <1>3, <1>4, OpaqueRight
<1>7. Somewhere(h, method, idx, stack, UnknownType, K)
  BY <1>2, <1>6, MeasuredIs
<1> QED  BY <1>1, <1>2, <1>5, <1>7 DEF Standing, InFront

\* Every other type is read at once, as many characters as it has (ParseType).
LEMMA LeafStep == ASSUME Standing, Leaf PROVE Standing'
<1>1. /\ got = Nothing /\ At(1) \notin Skipped \union Ending /\ At(1) \notin {"^", "{", "(", "["}
      /\ Eat(LeafLength) /\ got' = LeafInfo
      /\ method' = method /\ idx' = idx /\ stack' = stack
  BY DEF Leaf, AtType, Parsing, marshalVars
<1>2. PICK h, c, K : InFront(h, c, K)
  BY <1>1, TypeInFront
<1>3. c \in Types /\ c.k # "const" /\ K \in Text /\ HeadOf(K) \notin {"?", "name"}
      /\ text = Encode(c) \o K /\ At(1) = First(c)
  BY <1>2 DEF InFront
<1>4. c.k \in {"prim", "bits", "object", "block"}
  BY <1>1, <1>3, FirstIs, Starts DEF HasFields
<1>5. Right(LeafInfo, c) /\ text' = K
  <2>1. CASE c.k = "prim"
    <3>1. First(c) = c.c /\ c.c \in Scalars \union {"@", "#", "*", ":", "v", "?"}
      BY <1>3, <2>1, PrimLayout DEF First, HasFields
    <3>2. Right(LeafInfo, c)
      BY <1>3, <2>1, <3>1, LeafRight
    <3> DEFINE x == Ch(c.c)
    <3>3. x \in Chars
      BY <3>1, CharsAre, ScalarsAre DEF Letters
    <3>4. text = <<x>> \o K
      BY <1>3, <2>1, Starts
    <3> HIDE DEF x
    <3>5. At(2) = HeadOf(K) /\ (Eat(1) => text' = K)
      BY <1>3, <3>3, <3>4, OneBefore
    <3>6. LeafLength = 1
      BY <1>3, <3>1, <3>5 DEF LeafLength, Scalars
    <3> QED  BY <1>1, <3>2, <3>5, <3>6
  <2>2. CASE c.k = "bits"
    <3> DEFINE x == Ch("b")
               y == Num(c.b)
    <3>1. c.b \in Nat
      BY <1>3, <2>2, TypesAre DEF IsType
    <3>2. x \in Chars /\ y \in Chars /\ x.c = "b" /\ y.c = "num" /\ y.n = c.b
      BY <3>1, CharsAre DEF Letters
    <3>3. text = <<x, y>> \o K
      BY <1>3, <2>2, Starts
    <3> HIDE DEF x, y
    <3>4. At(1) = "b" /\ At(2) = "num" /\ text[2] = y /\ (Eat(2) => text' = K)
      <4>1. K \in Text
        BY <1>3
      <4>2. At(1) = x.c /\ At(2) = y.c /\ text[2] = y /\ (Eat(2) => text' = K)
        BY <3>2, <3>3, <4>1, TwoBefore
      <4> QED  BY <3>2, <4>2
    <3>5. LeafLength = 2
      BY <3>4 DEF LeafLength
    <3>6. text[2].n \in Nat
      BY <3>1, <3>2, <3>4
    <3>7. Right(LeafInfo, c)
      BY <1>3, <2>2, <3>4, <3>6, LeafRight
    <3> QED  BY <1>1, <3>4, <3>5, <3>7
  <2>3. CASE c.k = "object"
    <3> DEFINE x == Ch("@")
               y == Ch("name")
    <3>1. x \in Chars /\ y \in Chars /\ x.c = "@" /\ y.c = "name"
      BY CharsAre DEF Letters
    <3>2. text = <<x, y>> \o K
      BY <1>3, <2>3, Starts
    <3> HIDE DEF x, y
    <3>3. At(1) = "@" /\ At(2) = "name" /\ (Eat(2) => text' = K)
      <4>1. At(1) = x.c /\ At(2) = y.c /\ (Eat(2) => text' = K)
        <5>1. K \in Text
          BY <1>3
        <5> QED  BY ONLY <3>1, <3>2, <5>1, TwoBefore
      <4> QED  BY <3>1, <4>1
    <3>4. LeafLength = 2
      BY <3>3 DEF LeafLength
    <3>5. Right(LeafInfo, c)
      BY <1>3, <2>3, <3>3, LeafRight
    <3> QED  BY <1>1, <3>3, <3>4, <3>5
  <2>4. CASE c.k = "block"
    <3> DEFINE x == Ch("@")
               y == Ch("?")
               z == Ch("sig")
    <3>1. x \in Chars /\ y \in Chars /\ z \in Chars /\ x.c = "@" /\ y.c = "?" /\ z.c = "sig"
      BY CharsAre DEF Letters
    <3>2. text = <<x, y, z>> \o K
      BY <1>3, <2>4, Starts
    <3> HIDE DEF x, y, z
    <3>3. At(1) = "@" /\ At(2) = "?" /\ At(3) = "sig" /\ (Eat(3) => text' = K)
      BY <1>3, <3>1, <3>2, ThreeBefore
    <3>4. LeafLength = 3
      BY <3>3 DEF LeafLength
    <3>5. Right(LeafInfo, c)
      BY <1>3, <2>4, <3>3, LeafRight
    <3> QED  BY <1>1, <3>3, <3>4, <3>5
  <2> QED  BY <1>4, <2>1, <2>2, <2>3, <2>4
<1>6. Somewhere(h, method, idx, stack, LeafInfo, K)
  BY <1>2, <1>5, MeasuredIs
<1> QED  BY <1>1, <1>2, <1>5, <1>6 DEF Standing, InFront

\* Behind the type it points to a pointer is over, and is one word (ParseType).
LEMMA ClosePointerStep == ASSUME Standing, ClosePointer PROVE Standing'
<1>1. /\ got # Nothing /\ stack # <<>> /\ Top.close = "^"
      /\ got' = TI("PTR", 8) /\ stack' = Outer(stack) /\ text' = text
      /\ method' = method /\ idx' = idx /\ method \in Methods /\ stack \in Seq(Frame)
  BY DEF Standing, ClosePointer, Answer, Outer, Parsing, marshalVars
<1>2. PICK h : Nested(h, method, idx, stack) /\ AfterType(h, method, idx, stack, got, text)
  BY <1>1, TypeBehind
<1> DEFINE t == h[Len(stack)].t
<1>3. t \in Types /\ t.k = "ptr" /\ Len(stack) # 0
  BY <1>1, <1>2, TopIs
<1>4. text = h[Len(stack)].k
  BY <1>2, <1>3 DEF AfterType, Behind, HasFields
<1>5. Right(got', t)
  BY <1>1, <1>3, PointerRight
<1>6. Outer(stack) \in Seq(Frame) /\ Somewhere(h, method, idx, Outer(stack), got', text')
  BY <1>1, <1>2, <1>4, <1>5, ShallowerIs
<1> QED  BY <1>1, <1>6 DEF Standing

\* Behind its element an array is over, with its "]" (ParseArray).
LEMMA CloseArrayStep == ASSUME Standing, CloseArray PROVE Standing'
<1>1. /\ got # Nothing /\ stack # <<>> /\ Top.close = "]"
      /\ got' = ArrayOf(Top.len, got) /\ stack' = Outer(stack) /\ Eat(IF At(1) = "]" THEN 1 ELSE 0)
      /\ method' = method /\ idx' = idx /\ method \in Methods /\ stack \in Seq(Frame)
  BY DEF Standing, CloseArray, Answer, Outer, Parsing, marshalVars
<1>2. PICK h : Nested(h, method, idx, stack) /\ AfterType(h, method, idx, stack, got, text)
  BY <1>1, TypeBehind
<1> DEFINE t == h[Len(stack)].t
           k == h[Len(stack)].k
<1>3. t \in Types /\ t.k = "array" /\ k \in Text /\ Len(stack) # 0 /\ Top.len = t.len
  BY <1>1, <1>2, TopIs
<1>4. text = <<Ch("]")>> \o k /\ Right(got, t.e)
  BY <1>2, <1>3 DEF AfterType, Behind, Due, HasFields
<1>5. text' = k
  <2> DEFINE x == Ch("]")
  <2>1. x \in Chars /\ x.c = "]"
    BY CharsAre DEF Letters
  <2> HIDE DEF x, k
  <2>2. At(1) = x.c /\ (Eat(1) => text' = k)
    BY <1>3, <1>4, <2>1, OneBefore DEF x
  <2> QED  BY <1>1, <2>1, <2>2
<1>6. Right(got', t)
  BY <1>1, <1>3, <1>4, ArrayRight
<1>7. Outer(stack) \in Seq(Frame) /\ Somewhere(h, method, idx, Outer(stack), got', text')
  BY <1>1, <1>2, <1>5, <1>6, ShallowerIs
<1> QED  BY <1>1, <1>7 DEF Standing

\* Behind its last member a struct or a union is over, with its bracket (ParseAgg).
LEMMA CloseFieldsStep == ASSUME Standing, CloseFields PROVE Standing'
<1>1. /\ got = Nothing /\ InFields /\ At(1) \in Ending
      /\ got' = AggOf(Top.acc) /\ stack' = Outer(stack) /\ Eat(IF At(1) = "end" THEN 0 ELSE 1)
      /\ method' = method /\ idx' = idx /\ method \in Methods /\ stack \in Seq(Frame)
  BY DEF Standing, CloseFields, Answer, Outer, Parsing, marshalVars
<1>2. PICK h : Somewhere(h, method, idx, stack, got, text)
  BY DEF Standing
<1>3. Nested(h, method, idx, stack) /\ stack # <<>>
  BY <1>1, <1>2 DEF Somewhere, InFields
<1>4. AfterFields(h, stack, got, text)
  <2>1. ~AfterType(h, method, idx, stack, got, text)
    BY <1>1, RightIsSome DEF AfterType
  <2>2. ~BeforeNumber(method, idx, stack, got, text) /\ ~AtEnd(method, idx, stack, got, text)
    BY <1>3 DEF BeforeNumber, AtEnd
  <2>3. ~BeforeType(h, method, idx, stack, got, text)
    BY <1>1, <1>3, BeforeTypeIs DEF BeforeType
  <2> QED  BY <1>2, <2>1, <2>2, <2>3 DEF Somewhere
<1> DEFINE t == h[Len(stack)].t
<1>5. t \in Types /\ HasFields(t) /\ Gathered(Top.acc, t) /\ Top.acc.fields = Len(t.m)
  BY <1>1, <1>3, <1>4, TopIs DEF AfterFields, Top
<1>6. text' = h[Len(stack)].k
  <2>1. Top.close # "end" /\ At(1) = Top.close /\ (Eat(1) => text' = h[Len(stack)].k)
    BY <1>1, <1>3, <1>4, AfterFieldsIs DEF InFields
  <2> QED  BY <1>1, <2>1
<1>7. Right(got', t)
  BY <1>1, <1>5, FieldsRight
<1>8. Outer(stack) \in Seq(Frame) /\ Somewhere(h, method, idx, Outer(stack), got', text')
  BY <1>1, <1>3, <1>6, <1>7, ShallowerIs
<1> QED  BY <1>1, <1>8 DEF Standing

\* Behind a member it is gathered, and the next one or the bracket is in front (ParseAgg).
LEMMA NextFieldStep == ASSUME Standing, NextField PROVE Standing'
<1> DEFINE n == Len(stack)
<1>1. /\ got # Nothing /\ InFields /\ stack # <<>>
      /\ stack' = [stack EXCEPT ![n].acc = AddField(@, got, Top.close)]
      /\ got' = Nothing /\ text' = text
      /\ method' = method /\ idx' = idx /\ method \in Methods /\ stack \in Seq(Frame)
  BY DEF Standing, NextField, InFields, Parsing, marshalVars
<1>2. PICK h : Nested(h, method, idx, stack) /\ AfterType(h, method, idx, stack, got, text)
  BY <1>1, TypeBehind
<1> DEFINE t == h[n].t
           k == h[n].k
           j == stack[n].acc.fields
           acc == AddField(stack[n].acc, got, Top.close)
           new == [stack[n] EXCEPT !.acc = acc]
<1>3. /\ n \in Nat \ {0} /\ t \in Types /\ HasFields(t) /\ k \in Text /\ About(h[n], stack[n])
      /\ Top = stack[n] /\ stack[n] \in Frame /\ Top.close = Closer(t) /\ Gathered(stack[n].acc, t)
  BY <1>1, <1>2, TopIs DEF Top
<1>4. j < Len(t.m) /\ Right(got, t.m[j + 1]) /\ text = Members(t)[Len(t.m) - j - 1] \o k
  BY <1>2, <1>3 DEF AfterType, Behind, Due, IsDue
<1>5. Gathered(acc, t) /\ acc.fields = j + 1
  <2>1. acc = AddField(stack[n].acc, got, Closer(t))
    BY <1>3
  <2> DEFINE a == stack[n].acc
  <2>2. Gathered(a, t) /\ a.fields < Len(t.m) /\ Right(got, t.m[a.fields + 1])
    BY <1>3, <1>4
  <2> HIDE DEF a, acc, t
  <2>3. Gathered(AddField(a, got, Closer(t)), t) /\ AddField(a, got, Closer(t)).fields = a.fields + 1
    BY <1>3, <2>2, NextGathered
  <2> QED  BY <2>1, <2>3 DEF a
<1>6. new \in Frame /\ new.acc = acc /\ new.close = stack[n].close /\ new.len = stack[n].len
  <2>1. acc \in AccType
    BY <1>5 DEF Gathered
  <2> HIDE DEF acc
  <2> QED  BY <1>3, <2>1 DEF Frame
<1> HIDE DEF acc
<1>7. stack' \in Seq(Frame) /\ Len(stack') = n /\ stack'[n] = new
      /\ \A q \in 1 .. n - 1 : stack'[q] = stack[q]
  <2>1. stack' = [stack EXCEPT ![n] = new]
    BY <1>1 DEF acc
  <2> HIDE DEF new
  <2> QED  BY <1>1, <1>3, <1>6, <2>1
<1> HIDE DEF new
<1>8. About(h[n], new)
  BY <1>3, <1>5, <1>6 DEF About, HasFields
<1>9. Nested(h, method, idx, stack')
  <2> DEFINE s2 == stack'
  <2>1. \A q \in 0 .. n - 1 : /\ IsDue(h, q, method, idx, s2) = IsDue(h, q, method, idx, stack)
                              /\ Due(h, q, method, idx, s2) = Due(h, q, method, idx, stack)
                              /\ Behind(h, q, method, idx, s2) = Behind(h, q, method, idx, stack)
    <3> TAKE q \in 0 .. n - 1
    <3>1. q # 0 => s2[q] = stack[q]
      BY <1>3, <1>7
    <3> HIDE DEF s2
    <3> QED  BY <3>1, SameOutside
  <2>2. Len(s2) = n /\ s2[n] = new /\ \A q \in 1 .. n - 1 : s2[q] = stack[q]
    BY <1>7
  <2> HIDE DEF s2, n
  <2>3. ASSUME NEW q \in 1 .. n
        PROVE  /\ About(h[q], s2[q])
               /\ IsDue(h, q - 1, method, idx, s2)
               /\ h[q].k = Behind(h, q - 1, method, idx, s2)
               /\ Layout(h[q].t) = Layout(Due(h, q - 1, method, idx, s2))
    <3>1. q - 1 \in 0 .. n - 1 /\ (q = n \/ q \in 1 .. n - 1)
      BY <1>3
    <3>2. About(h[q], s2[q])
      BY <1>2, <1>8, <2>2, <3>1 DEF Nested, n
    <3> QED  BY <1>2, <2>1, <3>1, <3>2 DEF Nested, n
  <2>4. Nested(h, method, idx, s2)
    BY <2>2, <2>3 DEF Nested
  <2> QED  BY <2>4 DEF s2
<1>10. Somewhere(h, method, idx, stack', Nothing, text')
  <2> DEFINE s2 == stack'
             x == text'
  <2>1. s2 \in Seq(Frame) /\ s2 # <<>> /\ Len(s2) = n /\ Nested(h, method, idx, s2)
        /\ s2[n].acc.fields = j + 1
    BY <1>3, <1>5, <1>6, <1>7, <1>9
  <2>2. Len(t.m) \in Nat /\ j \in Nat
    BY <1>3, TypesAre DEF Gathered, AccType
  <2>3. Len(t.m) - j - 1 = Len(t.m) - (j + 1)
    <3>1. \A a, b \in Nat : a - b - 1 = a - (b + 1)
      OBVIOUS
    <3> HIDE DEF j, t
    <3> QED  BY <2>2, <3>1
  <2>4. x = Members(t)[Len(t.m) - (j + 1)] \o k
    BY <1>1, <1>4, <2>3
  <2> HIDE DEF s2, x, n
  <2>5. Somewhere(h, method, idx, s2, Nothing, x)
    BY <1>3, <2>1, <2>4, BetweenFields
  <2> QED  BY <2>5 DEF s2, x
<1> QED  BY <1>1, <1>7, <1>10 DEF Standing

---------------------------------------------------------------------------
(* Abi: the tokens found so far.                                           *)

\* The token tok is that of t, measured right.
TokenFor(tok, t, isRet) == \E kind \in KindsOf(t) : tok = TokenOf(Measured(kind, t), isRet)

\* The tokens of the types read so far; self and _cmd have none (ClassifyMethod).
ToldSoFar ==
  /\ method \in Methods /\ idx \in 0 .. Arity(method)
  /\ ret \in Token /\ toks \in Seq(Token)
  /\ Len(toks) = IF idx <= 3 THEN 0 ELSE idx - 3
  /\ InShape(method) =>
       /\ idx > 0 => TokenFor(ret, method.ret, TRUE)
       /\ \A a \in 1 .. Len(toks) : TokenFor(toks[a], method.args[a], FALSE)

\* A token more.
LEMMA TokenAdded ==
  ASSUME ToldSoFar, idx \in 0 .. Arity(method) - 1, Right(got, TypeAt(method, idx + 1)), ReadType
  PROVE  ToldSoFar' /\ ret' \in Token /\ toks' \in Seq(Token)
<1> DEFINE N == Arity(method)
           t == TypeAt(method, idx + 1)
<1>1. /\ ret' = IF idx = 0 THEN TokenOf(got, TRUE) ELSE ret
      /\ toks' = IF idx >= 3 THEN Append(toks, TokenOf(got, FALSE)) ELSE toks
      /\ method' = method /\ idx' = idx + 1
  BY DEF ReadType
<1>2. method \in Methods /\ N \in Nat /\ N = Len(method.args) + 3 /\ idx \in Nat
      /\ ret \in Token /\ toks \in Seq(Token)
      /\ Len(toks) = (IF idx <= 3 THEN 0 ELSE idx - 3)
  BY MethodsAre DEF ToldSoFar
<1>0. idx \in Nat /\ (idx >= 3 \/ idx < 3)
  <2>1. idx \in Nat
    BY <1>2
  <2> QED  BY <2>1
<1>3. got \in TypeInfo
  BY DEF Right
<1>4. TokenOf(got, TRUE) \in Token /\ TokenOf(got, FALSE) \in Token
  BY <1>3, TokenIs
<1>5. idx + 1 \in 1 .. N /\ idx + 1 \in 0 .. N
  BY <1>2
<1>6. t \in Types /\ IsLayout(Layout(t))
  BY <1>2, <1>5, MethodsAre, TypesAre
<1> DEFINE tok == TokenOf(got, FALSE)
<1>7. /\ ret' \in Token /\ toks' \in Seq(Token) /\ Len(toks') = (IF idx' <= 3 THEN 0 ELSE idx' - 3)
      /\ idx # 0 => ret' = ret
      /\ idx < 3 => toks' = toks
      /\ idx >= 3 => /\ Len(toks) \in Nat /\ Len(toks') = Len(toks) + 1 /\ toks'[Len(toks) + 1] = tok
                     /\ \A a \in 1 .. Len(toks) : toks'[a] = toks[a]
  <2>1. CASE idx >= 3
    <3>1. Len(toks) = idx - 3
      BY <1>2, <2>1
    <3>2. toks' = Append(toks, tok) /\ ret' = ret
      <4>1. idx # 0
        BY <1>0, <2>1
      <4> QED  BY <1>1, <2>1, <4>1
    <3> HIDE DEF tok
    <3>3. /\ Len(toks') = Len(toks) + 1 /\ toks' \in Seq(Token) /\ Len(toks) \in Nat
          /\ toks'[Len(toks) + 1] = tok /\ \A a \in 1 .. Len(toks) : toks'[a] = toks[a]
      <4>1. tok \in Token
        BY <1>4 DEF tok
      <4> QED  BY <1>2, <3>2, <4>1, AppendProperties
    <3>4. Len(toks') = (IF idx' <= 3 THEN 0 ELSE idx' - 3)
      BY <1>1, <1>2, <2>1, <3>1, <3>3
    <3> QED  BY <1>2, <2>1, <3>2, <3>3, <3>4
  <2>2. CASE idx < 3
    <3>1. toks' = toks /\ ~(idx >= 3) /\ Len(toks) = 0 /\ idx' <= 3
      <4>1. idx \in Nat /\ ~(idx >= 3) /\ idx <= 3 /\ idx + 1 <= 3
        BY <1>0, <2>2
      <4>2. toks' = toks
        BY <1>1, <4>1
      <4>3. Len(toks) = 0
        BY <1>2, <4>1
      <4> QED  BY <1>1, <4>1, <4>2, <4>3
    <3>2. ret' \in Token /\ (idx # 0 => ret' = ret)
      BY <1>1, <1>2, <1>4
    <3> QED  BY <1>2, <3>1, <3>2
  <2> QED  BY <1>0, <2>1, <2>2
<1>8. ASSUME InShape(method), idx = 0
      PROVE  TokenFor(ret', method.ret, TRUE)
  <2>1. t = method.ret
    BY <1>2, <1>8, MethodsAre
  <2>2. (TRUE /\ Layout(t).void) \/ Carried(t)
    BY <1>8, <2>1 DEF InShape
  <2>3. \E kind \in KindsOf(t) : TokenOf(got, TRUE) = TokenOf(Measured(kind, t), TRUE)
    <3> HIDE DEF t
    <3> QED  BY <1>6, <2>2, RightToken DEF t
  <2> QED  BY <1>1, <1>8, <2>1, <2>3 DEF TokenFor
<1>9. ASSUME InShape(method), idx >= 3
      PROVE  TokenFor(TokenOf(got, FALSE), method.args[Len(toks) + 1], FALSE)
  <2>1. Len(toks) + 1 = idx - 2 /\ idx - 2 \in 1 .. Len(method.args) /\ idx + 1 = (idx - 2) + 3
    BY <1>2, <1>9
  <2>2. t = method.args[idx - 2] /\ idx - 2 \in DOMAIN method.args
    BY <1>2, <2>1, MethodsAre
  <2>3. Carried(t)
    BY <1>9, <2>2 DEF InShape
  <2>4. \E kind \in KindsOf(t) : TokenOf(got, FALSE) = TokenOf(Measured(kind, t), FALSE)
    <3> HIDE DEF t
    <3> QED  BY <1>6, <2>3, RightToken DEF t
  <2> QED  BY <2>1, <2>2, <2>4 DEF TokenFor
<1>10. ASSUME InShape(method)
       PROVE  /\ TokenFor(ret', method.ret, TRUE)
              /\ \A a \in 1 .. Len(toks') : TokenFor(toks'[a], method.args[a], FALSE)
  <2>1. TokenFor(ret', method.ret, TRUE)
    <3>1. CASE idx = 0
      BY <1>8, <1>10, <3>1
    <3>2. CASE idx # 0
      <4>1. idx > 0
        BY <1>2, <3>2
      <4>2. TokenFor(ret, method.ret, TRUE)
        BY <1>10, <4>1 DEF ToldSoFar
      <4> QED  BY <1>7, <3>2, <4>2
    <3> QED  BY <3>1, <3>2
  <2>2. \A a \in 1 .. Len(toks) : TokenFor(toks[a], method.args[a], FALSE)
    BY <1>10 DEF ToldSoFar
  <2>3. ASSUME NEW a \in 1 .. Len(toks')
        PROVE  TokenFor(toks'[a], method.args[a], FALSE)
    <3>1. CASE idx >= 3
      <4>1. CASE a \in 1 .. Len(toks)
        BY <1>7, <2>2, <3>1, <4>1
      <4>2. CASE a \notin 1 .. Len(toks)
        <5>1. a = Len(toks) + 1
          BY <1>7, <3>1, <4>2
        <5> QED  BY <1>7, <1>9, <1>10, <3>1, <5>1
      <4> QED  BY <4>1, <4>2
    <3>2. CASE idx < 3
      <4>1. toks' = toks
        BY <1>7, <3>2
      <4> QED  BY <2>2, <4>1
    <3> QED  BY <1>0, <3>1, <3>2
  <2> QED  BY <2>1, <2>3
<1>11. idx' \in 0 .. Arity(method')
  BY <1>1, <1>5
<1>12. ToldSoFar'
  <2>1. InShape(method') => /\ TokenFor(ret', method'.ret, TRUE)
                            /\ \A a \in 1 .. Len(toks') : TokenFor(toks'[a], method'.args[a], FALSE)
    BY <1>1, <1>10
  <2> QED  BY <1>1, <1>2, <1>7, <1>11, <2>1 DEF ToldSoFar
<1> QED  BY <1>7, <1>12

\* Back in ClassifyMethod with a type.
LEMMA ReadTypeStep ==
  ASSUME Standing, ToldSoFar, ReadType
  PROVE  Standing' /\ ToldSoFar' /\ ret' \in Token /\ toks' \in Seq(Token)
<1>1. /\ got # Nothing /\ stack = <<>> /\ got' = Nothing /\ idx' = idx + 1
      /\ method' = method /\ text' = text /\ stack' = <<>> /\ method \in Methods
  BY DEF Standing, ReadType
<1>2. PICK h : AfterType(h, method, idx, stack, got, text)
  BY <1>1, TypeBehind
<1> DEFINE N == Arity(method)
<1>3. /\ idx \in 0 .. N - 1
      /\ Right(got, TypeAt(method, idx + 1))
      /\ text = <<Num(8 * (N - idx))>> \o Encoding(method)[N - idx - 1]
  <2>1. Len(stack) = 0
    BY <1>1
  <2> QED  BY <1>2, <2>1, Zenon DEF AfterType, IsDue, Due, Behind
<1>4. ToldSoFar' /\ ret' \in Token /\ toks' \in Seq(Token)
  BY <1>3, TokenAdded
<1>5. N \in Nat
  BY <1>1, MethodsAre
<1>6. idx + 1 \in 1 .. N /\ N + 1 - (idx + 1) = N - idx /\ N - (idx + 1) = N - idx - 1
  <2> HIDE DEF N
  <2> QED  BY <1>3, <1>5
<1>7. BeforeNumber(method, idx + 1, <<>>, Nothing, text)
  BY <1>3, <1>6 DEF BeforeNumber
<1>8. Nested(h, method, idx + 1, <<>>)
  BY DEF Nested
<1>9. Somewhere(h, method, idx + 1, <<>>, Nothing, text)
  BY <1>7, <1>8 DEF Somewhere
<1>10. <<>> \in Seq(Frame)
  OBVIOUS
<1> QED  BY <1>1, <1>4, <1>9, <1>10 DEF Standing

\* At the end every token is found.
LEMMA ReadEndStep ==
  ASSUME Standing, ToldSoFar, ReadEnd
  PROVE  phase' = "marshal" /\ (InShape(method) => Told(method, ret, toks))
<1>1. got = Nothing /\ stack = <<>> /\ At(1) = "end" /\ method \in Methods /\ stack \in Seq(Frame)
      /\ phase' = IF idx < 3 THEN "done" ELSE "marshal"
  BY DEF Standing, ReadEnd
<1>2. PICK h : Somewhere(h, method, idx, stack, got, text)
  BY DEF Standing
<1>3. AtEnd(method, idx, stack, got, text)
  <2>1. ~AfterType(h, method, idx, stack, got, text)
    BY <1>1, RightIsSome DEF AfterType
  <2>2. ~BeforeNumber(method, idx, stack, got, text)
    BY <1>1, BeforeNumberIs
  <2>3. ~AfterFields(h, stack, got, text)
    BY <1>1 DEF AfterFields
  <2>4. ~BeforeType(h, method, idx, stack, got, text)
    <3>1. "end" \in Ending
      BY <1>1 DEF Ending, InFields
    <3>2. Nested(h, method, idx, stack)
      BY <1>2 DEF Somewhere
    <3> QED  BY <1>1, <3>1, <3>2, BeforeTypeIs DEF BeforeType
  <2> QED  BY <1>2, <2>1, <2>2, <2>3, <2>4 DEF Somewhere
<1>4. idx = Len(method.args) + 3 /\ Len(method.args) \in Nat /\ DOMAIN method.args = 1 .. Len(method.args)
  BY <1>1, <1>3, MethodsAre DEF AtEnd
<1>5. phase' = "marshal" /\ Len(toks) = Len(method.args) /\ idx > 0
  BY <1>1, <1>4 DEF ToldSoFar
<1>6. InShape(method) => Told(method, ret, toks)
  BY <1>4, <1>5 DEF ToldSoFar, Told, TokenFor
<1> QED  BY <1>5, <1>6

---------------------------------------------------------------------------
(* Abi implements Marshal.                                                 *)

\* The inductive invariant: where the parser stands, and what it has told.
Classifying == phase = "classify" => Standing /\ ToldSoFar

\* What reads a part of a type leaves the tokens alone.
LEMMA ParserStep ==
  ASSUME Standing, phase = "classify",
         \/ Skip \/ OpenPointer \/ OpenFields \/ NameOnly \/ OpenArray \/ Leaf
         \/ ClosePointer \/ CloseArray \/ NextField \/ CloseFields
  PROVE  Standing' /\ UNCHANGED <<marshalVars, idx>>
<1>1. Standing'
  BY SkipStep, OpenPointerStep, OpenFieldsStep, NameOnlyStep, OpenArrayStep, LeafStep,
     ClosePointerStep, CloseArrayStep, NextFieldStep, CloseFieldsStep
<1>2. UNCHANGED <<marshalVars, idx>>
  BY DEF Skip, OpenPointer, OpenFields, NameOnly, OpenArray, Leaf, AtType, ClosePointer, CloseArray,
         NextField, CloseFields, Parsing
<1> QED  BY <1>1, <1>2

\* Each step keeps the invariant and is a step of Marshal, or none that Marshal sees.
LEMMA ClassifyingStep ==
  ASSUME Classifying, [AbiNext]_abiVars
  PROVE  Classifying' /\ [MarshalNext]_marshalVars
<1>1. CASE /\ phase = "classify"
           /\ \/ Skip \/ OpenPointer \/ OpenFields \/ NameOnly \/ OpenArray \/ Leaf
              \/ ClosePointer \/ CloseArray \/ NextField \/ CloseFields
  <2>1. Standing' /\ ToldSoFar /\ UNCHANGED <<marshalVars, idx>>
    BY <1>1, ParserStep DEF Classifying
  <2>2. ToldSoFar'
    BY <2>1 DEF ToldSoFar, marshalVars
  <2> QED  BY <2>1, <2>2 DEF Classifying
<1>2. CASE ReadType
  <2>1. Standing' /\ ToldSoFar' /\ ret' \in Token /\ toks' \in Seq(Token)
    BY <1>2, ReadTypeStep DEF Classifying, ReadType
  <2>2. Classify
    BY <1>2, <2>1 DEF Classify, ReadType
  <2> QED  BY <2>1, <2>2 DEF Classifying, MarshalNext
<1>3. CASE ReadEnd
  <2>1. phase' = "marshal" /\ (InShape(method) => Told(method, ret, toks)) /\ ToldSoFar
    BY <1>3, ReadEndStep DEF Classifying, ReadEnd
  <2>2. Classify
    BY <1>3, <2>1 DEF Classify, ReadEnd, ToldSoFar
  <2> QED  BY <2>1, <2>2 DEF Classifying, MarshalNext
<1>4. CASE CocoaSend
  <2>1. phase' # "classify"
    BY <1>4 DEF CocoaSend, MarshalFloat, MarshalHfa, MarshalInts, MarshalWord, Marshalling, Marshalled, Send
  <2> QED  BY <1>4, <2>1 DEF Classifying, CocoaSend, MarshalNext
<1>5. CASE UNCHANGED abiVars
  BY <1>5 DEF abiVars, marshalVars, Classifying, Standing, ToldSoFar
<1>6. ClassifyMethod => phase = "classify"
  BY DEF ClassifyMethod, Skip, OpenPointer, OpenFields, NameOnly, OpenArray, Leaf, AtType, ClosePointer,
         CloseArray, NextField, CloseFields, Parsing, ReadType, ReadEnd
<1> QED  BY <1>1, <1>2, <1>3, <1>4, <1>5, <1>6 DEF AbiNext, ClassifyMethod

\* The text of the method is in front, with its result due.
LEMMA AtFirst == AbiInit => Classifying /\ Unsent
<1> SUFFICES ASSUME AbiInit PROVE Classifying
  BY DEF AbiInit
<1>1. method \in Methods /\ ret = Tok("?") /\ toks = <<>>
      /\ text = Encoding(method)[Arity(method)] /\ idx = 0 /\ stack = <<>> /\ got = Nothing
  BY DEF AbiInit, Unsent
<1>2. Arity(method) \in Nat /\ Arity(method) - 0 = Arity(method) /\ 0 \in 0 .. Arity(method)
  BY <1>1, MethodsAre
<1>3. Standing
  <2>1. \A h : Somewhere(h, method, 0, <<>>, Nothing, Encoding(method)[Arity(method) - 0])
    BY <1>1, <1>2, BetweenTypes
  <2> QED  BY <1>1, <1>2, <2>1 DEF Standing
<1>4. ToldSoFar
  BY <1>1, <1>2 DEF ToldSoFar, Token, Tok
<1> QED  BY <1>3, <1>4 DEF Classifying

\* For any types and methods, however nested, padded and qualified: when ClassifyMethod comes
\* to its end the tokens are those of the result and of the arguments, each measured as the
\* calling convention does, and a method the send can carry is not refused.
THEOREM AbiImplementsMarshal == AbiSpec => ClassifiesRight
<1> USE DEF ClassifiesRight, MarshalSpec
<1>1. AbiInit => Classifying /\ Unsent
  BY AtFirst
<1>2. Classifying /\ [AbiNext]_abiVars => Classifying' /\ [MarshalNext]_marshalVars
  BY ClassifyingStep
<1> QED  BY <1>1, <1>2, PTL DEF AbiSpec

\* From the encoding to the registers and back, for any types and methods: each word of
\* each argument is where the callee reads it and all of the result is read, if the fixed
\* shape of the send can carry them (ClassifyMethod, Cocoa_send, macdart_objc_send).
THEOREM AbiWordsArrive == AbiSpec => []SendArrives
<1>1. ClassifiesRight => MarshalSpec
  BY DEF ClassifiesRight
<1> QED  BY <1>1, AbiImplementsMarshal, WordsArrive, PTL
==============================================================================
