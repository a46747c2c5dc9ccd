------------------------------- MODULE Image -------------------------------
(***************************************************************************)
(* The language isolate and the four places the user's source lives in:    *)
(*                                                                         *)
(*   decls    the mirror `_decls` in the isolate's memory                  *)
(*   rows     the SQLite image, table decls(name, source, comment)         *)
(*   scratch  the USER region of the scratch root file on disk             *)
(*   live     the declarations the VM runs: the last reload it accepted    *)
(*                                                                         *)
(* One action per effect that outlives a kill: a file write, a reload, a   *)
(* row.  The isolate can be killed between any two of them; changes of its *)
(* own memory are folded into the effect that follows.                     *)
(*                                                                         *)
(* Source: src/macdart/cocoa/workspace/language.dart (the handlers) and    *)
(* workspace.dart (spawn, kill and the launch of the program).             *)
(***************************************************************************)
EXTENDS Naturals, Sequences

CONSTANTS
    Names,        \* names of declarations
    ClassNames,   \* those the browser can select, and so comment on
    Sources,      \* source texts, after trimming
    VarSources,   \* the texts that start with "var <name>"
    Inits,        \* the texts a do-it writes back: `var <name>;` or `var <name> = <literal>;`
    VarNull,      \* the first of those, the bare declaration
    NoDecl,       \* no declaration of that name
    Loadable,     \* the sets of declarations the VM loads without an error
    Batches       \* the lists of declarations the UI sends in one request

World == [Names -> Sources \cup {NoDecl}]
Empty == [n \in Names |-> NoDecl]
Blank == [decls |-> Empty, rows |-> Empty, live |-> Empty]
Decl  == [name : Names, source : Sources \cup {NoDecl}]

ASSUME ImageAssumption ==
    /\ NoDecl \notin Sources
    /\ ClassNames \subseteq Names
    /\ VarNull \in Inits /\ Inits \subseteq VarSources /\ VarSources \subseteq Sources
    /\ Loadable \subseteq World
    /\ Empty \in Loadable              \* the template language.dart itself loads
    /\ Batches \subseteq Seq(Decl)

VARIABLES
    decls, rows, comment, scratch, live,
    pc,           \* where the isolate stands in the handler it runs
    op,           \* the request it serves
    batch,        \* the declarations of that request
    at,           \* index of the next declaration to write to the image
    prev,         \* what a refused accept puts back
    gRespawning,  \* a killed isolate is being replaced; a launch's first spawn is not guarded
    wedged,       \* the spawn failed: no isolate, and nothing starts one again
    (* observation only: no action reads them *)
    before,       \* decls, rows and live when the request arrived
    reply,        \* how the last request ended
    promised,     \* the sources the user may find saved under a name
    drift         \* names whose mirror and row may differ

data   == <<decls, rows, comment, scratch, live>>
job    == <<op, batch, at, prev>>
observ == <<before, reply, promised, drift>>
restart   == <<gRespawning, wedged>>
vars   == <<data, pc, job, restart, observ>>

-----------------------------------------------------------------------------
NamesOf(b) == {b[i].name : i \in DOMAIN b}

\* The names that b declares more than once: _declName gives a getter and the
\* setter of the same variable one name, and likewise two classes of one name.
Doubled(b) == {b[i].name : i \in {k \in DOMAIN b : \E j \in DOMAIN b : j # k /\ b[j].name = b[k].name}}

\* i is the index of the last declaration of n before position k
IsLastBefore(b, n, k, i) ==
    /\ i \in DOMAIN b /\ i < k /\ b[i].name = n
    /\ \A j \in DOMAIN b : (i < j /\ j < k) => b[j].name # n

\* what `_decls[n]` holds when the loop over b reaches position k
SourceBefore(w, b, n, k) ==
    IF \E i \in DOMAIN b : IsLastBefore(b, n, k, i)
    THEN b[CHOOSE i \in DOMAIN b : IsLastBefore(b, n, k, i)].source
    ELSE w[n]

\* `_decls[name] = s` for each declaration in turn
ApplyBatch(w, b) == [n \in Names |-> SourceBefore(w, b, n, Len(b) + 1)]

\* Mutant: remember what a name is set to instead of what it was.
PrevOfTooLate(w, b) == ApplyBatch(w, b)

\* `prev[name] = _decls[name]` is taken inside the same loop: the second
\* declaration of a name records the first one as "what was there"
PrevOf(w, b) ==
    [n \in Names |->
        IF \E i \in DOMAIN b : IsLastBefore(b, n, Len(b) + 1, i)
        THEN SourceBefore(w, b, n, CHOOSE i \in DOMAIN b : IsLastBefore(b, n, Len(b) + 1, i))
        ELSE w[n]]

TypeOK ==
    /\ decls \in World /\ rows \in World /\ scratch \in World
    /\ live \in Loadable
    /\ comment \in [Names -> BOOLEAN]
    /\ pc \in {"down", "boot", "bootReload", "idle", "reload", "restore", "reReload",
               "upsert", "declReload", "declWrite", "eval", "remember", "resetUpsert",
               "write", "finalReload"}
    /\ op \in {"none", "acceptMany", "acceptLive", "remove", "reset", "doit", "setcomment"}
    /\ batch \in Seq(Decl)
    /\ at \in 1..(Len(batch) + 1)
    /\ prev \in World
    /\ gRespawning \in BOOLEAN /\ wedged \in BOOLEAN
    /\ before \in [decls : World, rows : World, live : World]
    /\ reply \in {"none", "ok", "refused", "failed", "killed"}
    /\ promised \in [Names -> SUBSET (Sources \cup {NoDecl})]
    /\ drift \subseteq Names

Init ==
    /\ decls = Empty /\ rows = Empty /\ scratch = Empty /\ live = Empty
    /\ comment = [n \in Names |-> FALSE]
    /\ pc = "down"
    /\ op = "none" /\ batch = <<>> /\ at = 1 /\ prev = Empty
    /\ gRespawning = FALSE /\ wedged = FALSE
    /\ before = Blank
    /\ reply = "none"
    /\ promised = [n \in Names |-> {NoDecl}]
    /\ drift = {}

-----------------------------------------------------------------------------
(* Life of the isolate.                                                    *)

\* Isolate.spawnUri(gScratch): the child compiles the scratch file as the last
\* isolate left it.  When that fails the await in spawnLanguage throws and
\* gRespawning stays set, so no later request starts another isolate.
Spawn ==
    /\ pc = "down" /\ ~wedged
    /\ \/ /\ scratch \in Loadable
          /\ live' = scratch
          /\ pc' = "boot"
          /\ UNCHANGED wedged
       \/ /\ scratch \notin Loadable
          /\ wedged' = TRUE
          /\ UNCHANGED <<live, pc>>
    /\ UNCHANGED <<decls, rows, comment, scratch, job, gRespawning, observ>>

\* Mutant: keep the scratch file the isolate was spawned from.
LoadKeepsScratch ==
    /\ pc = "boot"
    /\ decls' = rows
    /\ drift' = {}
    /\ promised' = [n \in Names |-> {rows[n]}]
    /\ pc' = "bootReload"
    /\ UNCHANGED <<rows, comment, scratch, live, job, restart, before, reply>>

\* _loadFromImage reads every row and writes them to the scratch file ...
Load ==
    /\ pc = "boot"
    /\ decls' = rows
    /\ scratch' = rows
    /\ drift' = {}
    /\ promised' = [n \in Names |-> {rows[n]}]
    /\ pc' = "bootReload"
    /\ UNCHANGED <<rows, comment, live, job, restart, before, reply>>

\* ... and reloads; the result of that reload is dropped.  Then the handshake.
LoadReload ==
    /\ pc = "bootReload"
    /\ live' = IF scratch \in Loadable THEN scratch ELSE live
    /\ pc' = "idle"
    /\ gRespawning' = FALSE
    /\ UNCHANGED <<decls, rows, comment, scratch, job, wedged, observ>>

\* kill(IMMEDIATE) by respawnLanguage, from the watchdog or the Debug menu.  The
\* replacement itself is not replaced before its handshake; the isolate of the
\* launch is, since main() does not set gRespawning around its own spawn.
Kill ==
    /\ pc # "down" /\ ~gRespawning
    /\ gRespawning' = TRUE
    /\ pc' = "down"
    /\ decls' = Empty /\ live' = Empty
    /\ op' = "none" /\ batch' = <<>> /\ at' = 1 /\ prev' = Empty
    /\ reply' = "killed" /\ before' = Blank
    /\ UNCHANGED <<rows, comment, scratch, wedged, promised, drift>>

\* The program ends at any moment and is launched again: main() copies the
\* template over the scratch file.
Relaunch ==
    /\ pc' = "down"
    /\ decls' = Empty /\ live' = Empty /\ scratch' = Empty
    /\ op' = "none" /\ batch' = <<>> /\ at' = 1 /\ prev' = Empty
    /\ reply' = "killed" /\ before' = Blank
    /\ gRespawning' = FALSE /\ wedged' = FALSE
    /\ UNCHANGED <<rows, comment, promised, drift>>

-----------------------------------------------------------------------------
(* Requests.  Receive(o, b) is the common start, Answer(r) the reply.       *)

Receive(o, b) ==
    /\ pc = "idle"
    /\ op' = o
    /\ batch' = b
    /\ at' = 1
    /\ before' = [decls |-> decls, rows |-> rows, live |-> live]
    /\ reply' = "none"

Answer(r) ==
    /\ pc' = "idle"
    /\ reply' = r

\* INSERT OR REPLACE INTO decls(name, kind, category, source): the comment
\* column is not named, so a replaced row loses it.
Upsert(n, s) ==
    /\ rows' = [rows EXCEPT ![n] = s]
    /\ comment' = [comment EXCEPT ![n] = FALSE]

(* accept, acceptMany and acceptLive *)

\* Mutant: write the image before the reload.
AcceptBeginSaves(o, b) ==
    /\ o \in {"acceptMany", "acceptLive"}
    /\ Receive(o, b)
    /\ prev' = PrevOf(decls, b)
    /\ decls' = ApplyBatch(decls, b)
    /\ scratch' = decls'
    /\ rows' = IF o = "acceptMany" THEN ApplyBatch(rows, b) ELSE rows
    /\ pc' = "reload"
    /\ UNCHANGED <<comment, live, restart, promised, drift>>

AcceptBegin(o, b) ==
    /\ o \in {"acceptMany", "acceptLive"}
    /\ Receive(o, b)
    /\ prev' = PrevOf(decls, b)
    /\ decls' = ApplyBatch(decls, b)
    /\ scratch' = decls'
    /\ pc' = "reload"
    /\ UNCHANGED <<rows, comment, live, restart, promised, drift>>

AcceptReloaded ==
    /\ pc = "reload"
    /\ scratch \in Loadable
    /\ live' = scratch
    /\ prev' = Empty
    /\ \/ /\ op = "acceptMany"
          /\ pc' = "upsert"
          /\ promised' = [n \in Names |-> IF n \in NamesOf(batch)
                                          THEN promised[n] \cup {decls[n]}
                                          ELSE promised[n]]
          /\ UNCHANGED <<reply, drift>>
       \/ /\ op = "acceptLive"
          /\ Answer("ok")
          /\ drift' = drift \cup NamesOf(batch)
          /\ UNCHANGED promised
    /\ UNCHANGED <<decls, rows, comment, scratch, op, batch, at, restart, before>>

AcceptRefused ==
    /\ pc = "reload"
    /\ scratch \notin Loadable
    /\ pc' = "restore"
    /\ UNCHANGED <<data, job, restart, observ>>

\* put back what was there and write it out ...
AcceptRestore ==
    /\ pc = "restore"
    /\ decls' = prev
    /\ scratch' = decls'
    /\ prev' = Empty
    /\ drift' = drift \cup Doubled(batch)
    /\ pc' = "reReload"
    /\ UNCHANGED <<rows, comment, live, op, batch, at, restart, before, reply, promised>>

\* ... and reload that, whatever comes of it
AcceptReReload ==
    /\ pc = "reReload"
    /\ live' = IF scratch \in Loadable THEN scratch ELSE live
    /\ Answer("refused")
    /\ UNCHANGED <<decls, rows, comment, scratch, job, restart, before, promised, drift>>

AcceptUpsert ==
    /\ pc = "upsert" /\ at \in DOMAIN batch
    /\ LET n == batch[at].name IN
       /\ Upsert(n, decls[n])
       /\ drift' = drift \ {n}
    /\ at' = at + 1
    /\ UNCHANGED <<decls, scratch, live, pc, op, batch, prev, restart, before, reply, promised>>

\* Mutant: answer before the last row is written.
AcceptDoneEarly ==
    /\ pc = "upsert" /\ at >= Len(batch)
    /\ Answer("ok")
    /\ promised' = [n \in Names |-> IF n \in NamesOf(batch) THEN {decls[n]} ELSE promised[n]]
    /\ UNCHANGED <<data, job, restart, before, drift>>

AcceptDone ==
    /\ pc = "upsert" /\ at \notin DOMAIN batch
    /\ Answer("ok")
    /\ promised' = [n \in Names |-> IF n \in NamesOf(batch) THEN {decls[n]} ELSE promised[n]]
    /\ UNCHANGED <<data, job, restart, before, drift>>

(* remove and reset: the image is written first, and nothing is put back *)

\* Mutant: forget the row.
RemoveBeginKeepsRow(n) ==
    /\ Receive("remove", <<[name |-> n, source |-> NoDecl]>>)
    /\ decls' = [decls EXCEPT ![n] = NoDecl]
    /\ pc' = "write"
    /\ UNCHANGED <<rows, comment, scratch, live, prev, restart, promised, drift>>

RemoveBegin(n) ==
    /\ Receive("remove", <<[name |-> n, source |-> NoDecl]>>)
    /\ decls' = [decls EXCEPT ![n] = NoDecl]
    /\ Upsert(n, NoDecl)
    /\ promised' = [promised EXCEPT ![n] = {NoDecl}]
    /\ drift' = drift \ {n}
    /\ pc' = "write"
    /\ UNCHANGED <<scratch, live, prev, restart>>

\* `_decls.clear()`, but the rows of names that are not in the new list stay
ResetBegin(b) ==
    /\ Receive("reset", b)
    /\ decls' = Empty
    /\ drift' = {n \in Names : rows[n] # NoDecl}
    /\ pc' = "resetUpsert"
    /\ UNCHANGED <<rows, comment, scratch, live, prev, restart, promised>>

ResetUpsert ==
    /\ pc = "resetUpsert" /\ at \in DOMAIN batch
    /\ LET d == batch[at] IN
       /\ decls' = [decls EXCEPT ![d.name] = d.source]
       /\ Upsert(d.name, d.source)
       /\ promised' = [promised EXCEPT ![d.name] = {d.source}]
       /\ drift' = drift \ {d.name}
    /\ at' = at + 1
    /\ UNCHANGED <<scratch, live, pc, op, batch, prev, restart, before, reply>>

FinalWrite ==
    /\ \/ pc = "write"
       \/ pc = "resetUpsert" /\ at \notin DOMAIN batch
    /\ scratch' = decls
    /\ pc' = "finalReload"
    /\ UNCHANGED <<decls, rows, comment, live, job, restart, observ>>

FinalReload ==
    /\ pc = "finalReload"
    /\ IF scratch \in Loadable
       THEN live' = scratch /\ Answer("ok")
       ELSE UNCHANGED live /\ Answer("refused")
    /\ UNCHANGED <<decls, rows, comment, scratch, job, restart, before, promised, drift>>

(* do-it *)

\* `var n = e`, or `n = e` where the VM has no variable n
Undeclared(form, n) ==
    /\ decls[n] = NoDecl
    /\ form = "assign" => live[n] \notin VarSources

\* _declareWsVar: the declaration is saved before the VM has seen it
DoItDeclare(form, n, s) ==
    /\ Undeclared(form, n)
    /\ Receive("doit", <<[name |-> n, source |-> s]>>)
    /\ decls' = [decls EXCEPT ![n] = VarNull]
    /\ Upsert(n, VarNull)
    /\ promised' = [promised EXCEPT ![n] = @ \cup {VarNull}]
    /\ drift' = drift \ {n}
    /\ pc' = "declWrite"
    /\ UNCHANGED <<scratch, live, prev, restart>>

DoItKnown(form, n, s) ==
    /\ ~Undeclared(form, n)
    /\ Receive("doit", <<[name |-> n, source |-> s]>>)
    /\ pc' = "eval"
    /\ UNCHANGED <<data, prev, restart, promised, drift>>

DeclWrite ==
    /\ pc = "declWrite"
    /\ scratch' = decls
    /\ pc' = "declReload"
    /\ UNCHANGED <<decls, rows, comment, live, job, restart, observ>>

DeclReload ==
    /\ pc = "declReload"
    /\ \/ /\ scratch \in Loadable
          /\ live' = scratch
          /\ pc' = "eval"
          /\ UNCHANGED reply
       \/ /\ scratch \notin Loadable
          /\ Answer("refused")
          /\ UNCHANGED live
    /\ UNCHANGED <<decls, rows, comment, scratch, job, restart, before, promised, drift>>

\* wsEval(`n = e`): the right-hand side may throw, and n must be a variable
Eval ==
    /\ pc = "eval"
    /\ \/ /\ live[batch[1].name] \in VarSources
          /\ pc' = "remember"
          /\ UNCHANGED reply
       \/ Answer("failed")
    /\ UNCHANGED <<data, job, restart, before, promised, drift>>

\* _rememberWsValue: only a name whose mirror is a variable, and only a change
Remember ==
    /\ pc = "remember"
    /\ LET n == batch[1].name
           s == batch[1].source
       IN  IF decls[n] \in VarSources \ {s}
           THEN /\ decls' = [decls EXCEPT ![n] = s]
                /\ Upsert(n, s)
                /\ promised' = [promised EXCEPT ![n] = {s}]
                /\ drift' = drift \ {n}
           ELSE UNCHANGED <<decls, rows, comment, promised, drift>>
    /\ Answer("ok")
    /\ UNCHANGED <<scratch, live, job, restart, before>>

\* UPDATE decls SET comment: no effect without a row
SetComment(n) ==
    /\ Receive("setcomment", <<>>)
    /\ comment' = [comment EXCEPT ![n] = (rows[n] # NoDecl)]
    /\ UNCHANGED <<decls, rows, scratch, live, pc, prev, restart, promised, drift>>

-----------------------------------------------------------------------------
Life == Spawn \/ Load \/ LoadReload \/ Kill \/ Relaunch

Accept ==
    \/ \E o \in {"acceptMany", "acceptLive"}, b \in Batches : AcceptBegin(o, b)
    \/ AcceptReloaded \/ AcceptRefused \/ AcceptRestore \/ AcceptReReload
    \/ AcceptUpsert \/ AcceptDone

Replace ==
    \/ \E n \in Names : RemoveBegin(n)
    \/ \E b \in Batches : ResetBegin(b)
    \/ ResetUpsert \/ FinalWrite \/ FinalReload

DoIt ==
    \/ \E form \in {"var", "assign"}, n \in Names, s \in Inits :
          DoItDeclare(form, n, s) \/ DoItKnown(form, n, s)
    \/ DeclWrite \/ DeclReload \/ Eval \/ Remember

Next == Life \/ Accept \/ Replace \/ DoIt \/ \E n \in ClassNames : SetComment(n)

Spec == Init /\ [][Next]_vars

-----------------------------------------------------------------------------
(* Properties *)

\* A refused Accept (into the image or live only) writes no row, gives every name
\* that it declares once back the text that was there, and leaves the VM running
\* what it put back, or still what it ran if that does not load.  A name declared
\* twice gets its first new text instead, although the comment in _acceptMany says
\* "Put back what was there and reload that, so live and saved agree again."
RefusedAcceptRestores ==
    (pc = "idle" /\ op \in {"acceptMany", "acceptLive"} /\ reply = "refused") =>
        /\ rows = before.rows
        /\ \A n \in Names \ Doubled(batch) : decls[n] = before.decls[n]
        /\ live = IF decls \in Loadable THEN decls ELSE before.live

\* While it serves an accept, the isolate writes a row only with a source the VM
\* is running at that moment: never one it has not seen, or has refused.
ImageWrittenAfterReload ==
    [][\A n \in Names :
          (op' = "acceptMany" /\ rows'[n] # rows[n]) => rows'[n] = live[n]]_vars

\* Durability: a name's row holds the source last answered "accepted", unless a
\* later request reached the point of writing that name.  Kills and launches at
\* any step neither lose an acknowledged source nor bring back an older one.
SavedIsPromised == \A n \in Names : rows[n] \in promised[n]

\* Between requests the mirror is the image, except for names added live only, rows
\* that a reset left behind, and names that a refused accept declared twice: no
\* other way through the handlers leaves a name that the browser shows and the next
\* boot does not.
MirrorDriftAccounted ==
    pc = "idle" => \A n \in Names : decls[n] # rows[n] => n \in drift

\* A restarted isolate answers its first request with exactly the image in its
\* mirror, in the scratch file and, when the image loads, in the VM: nothing of
\* the killed isolate's declarations stays live.
BootRestoresImage ==
    [][(pc = "bootReload" /\ pc' = "idle") =>
          /\ decls' = rows /\ scratch' = rows
          /\ rows \in Loadable => live' = rows]_vars

\* What the comment on ask() says: the workspace can never wedge.
NeverWedged == ~wedged

=============================================================================
