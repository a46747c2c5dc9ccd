---------------------------- MODULE ImageProofs ----------------------------
(***************************************************************************)
(* What Image promises for every set of names and sources, every notion of *)
(* what the VM loads, and kills at any step.                               *)
(***************************************************************************)
EXTENDS Image, SequenceTheorems, TLAPS

-----------------------------------------------------------------------------
(* The loop over a batch *)

\* The elements of a batch are declarations.
LEMMA BatchElements ==
    ASSUME NEW b \in Seq(Decl)
    PROVE  /\ Len(b) \in Nat
           /\ DOMAIN b = 1..Len(b)
           /\ \A i \in DOMAIN b : b[i].name \in Names /\ b[i].source \in Sources \cup {NoDecl}
<1>1. b \in [1..Len(b) -> Decl] /\ DOMAIN b = 1..Len(b) /\ Len(b) \in Nat
  BY LenProperties
<1> QED  BY <1>1 DEF Decl

\* Accepting a batch yields a world again.
LEMMA ApplyBatchWorld ==
    ASSUME NEW w \in World, NEW b \in Seq(Decl)
    PROVE  ApplyBatch(w, b) \in World
<1>1. \A n \in Names : \A k : SourceBefore(w, b, n, k) \in Sources \cup {NoDecl}
  <2>1. \A i \in DOMAIN b : b[i].source \in Sources \cup {NoDecl}
    BY BatchElements
  <2> QED  BY <2>1 DEF SourceBefore, World
<1> QED  BY <1>1 DEF ApplyBatch, World

\* So does putting back what was there.
LEMMA PrevOfWorld ==
    ASSUME NEW w \in World, NEW b \in Seq(Decl)
    PROVE  PrevOf(w, b) \in World
<1>1. \A n \in Names : \A k : SourceBefore(w, b, n, k) \in Sources \cup {NoDecl}
  <2>1. \A i \in DOMAIN b : b[i].source \in Sources \cup {NoDecl}
    BY BatchElements
  <2> QED  BY <2>1 DEF SourceBefore, World
<1> QED  BY <1>1 DEF PrevOf, World

\* A batch changes only the names it declares.
LEMMA ApplyBatchElsewhere ==
    ASSUME NEW w \in World, NEW b \in Seq(Decl), NEW n \in Names, n \notin NamesOf(b)
    PROVE  ApplyBatch(w, b)[n] = w[n]
<1>1. ~ \E i \in DOMAIN b : IsLastBefore(b, n, Len(b) + 1, i)
  BY DEF IsLastBefore, NamesOf
<1> QED  BY <1>1 DEF ApplyBatch, SourceBefore

\* What is put back for a name that the batch declares once, or not at all, is what
\* was there.
LEMMA PrevOfOnce ==
    ASSUME NEW w \in World, NEW b \in Seq(Decl), NEW n \in Names \ Doubled(b)
    PROVE  PrevOf(w, b)[n] = w[n]
<1> DEFINE k == CHOOSE i \in DOMAIN b : IsLastBefore(b, n, Len(b) + 1, i)
<1>1. CASE \E i \in DOMAIN b : IsLastBefore(b, n, Len(b) + 1, i)
  <2>1. k \in DOMAIN b /\ b[k].name = n
    BY <1>1 DEF IsLastBefore
  <2> HIDE DEF k
  <2>2. \A j \in DOMAIN b : j # k => b[j].name # n
    BY <2>1 DEF Doubled
  <2>3. ~ \E i \in DOMAIN b : IsLastBefore(b, n, k, i)
    BY <2>1, <2>2, BatchElements DEF IsLastBefore
  <2>4. PrevOf(w, b)[n] = SourceBefore(w, b, n, k)
    BY <1>1 DEF PrevOf, k
  <2> QED  BY <2>3, <2>4 DEF SourceBefore
<1>2. CASE ~ \E i \in DOMAIN b : IsLastBefore(b, n, Len(b) + 1, i)
  BY <1>2 DEF PrevOf
<1> QED  BY <1>1, <1>2

-----------------------------------------------------------------------------
(* Typing *)

\* Which request is served where in the handlers, and the shape of its batch.
Shape ==
    /\ pc \in {"down", "boot", "bootReload"} => op = "none"
    /\ pc \in {"reload", "restore", "reReload"} => op \in {"acceptMany", "acceptLive"}
    /\ pc = "reload" => at = 1
    /\ pc = "upsert" => op = "acceptMany"
    /\ pc = "resetUpsert" => op = "reset"
    /\ pc \in {"write", "finalReload"} => op \in {"remove", "reset"}
    /\ pc \in {"declWrite", "declReload", "eval", "remember"} =>
          op = "doit" /\ Len(batch) = 1

Typing == TypeOK /\ Shape

\* The image of a first launch is a world.
LEMMA EmptyWorld == Empty \in World
  BY DEF Empty, World

\* The batch of an idle isolate that has served nothing.
LEMMA EmptyBatch == <<>> \in Seq(Decl) /\ Len(<<>>) = 0
  BY EmptySeq

\* Typing holds at the first launch.
LEMMA InitTyping == Init => Typing
<1>1. Init => TypeOK
  <2> SUFFICES ASSUME Init PROVE TypeOK
    OBVIOUS
  <2>1. /\ decls \in World /\ rows \in World /\ scratch \in World /\ prev \in World
        /\ before \in [decls : World, rows : World, live : World]
    BY EmptyWorld DEF Init, Blank
  <2>2. batch \in Seq(Decl) /\ at \in 1..(Len(batch) + 1)
    BY EmptyBatch DEF Init
  <2>3. promised \in [Names -> SUBSET (Sources \cup {NoDecl})]
    BY DEF Init
  <2> QED  BY <2>1, <2>2, <2>3, ImageAssumption DEF Init, TypeOK
<1>2. Init => Shape
  BY DEF Init, Shape
<1> QED  BY <1>1, <1>2 DEF Typing

\* Spawning, loading the image and killing keep Typing.
LEMMA LifeTyping == Typing /\ Life => Typing'
<1> SUFFICES ASSUME Typing PROVE Life => Typing'
  OBVIOUS
<1> USE EmptyWorld, EmptyBatch, ImageAssumption
        DEF Typing, TypeOK, Shape, data, job, restart, observ, Blank
<1>1. Spawn => Typing'        BY DEF Spawn
<1>2. Load => Typing'         BY DEF Load, World
<1>3. LoadReload => Typing'   BY DEF LoadReload
<1>4. Kill => Typing'         BY DEF Kill
<1>5. Relaunch => Typing'
  <2> SUFFICES ASSUME Relaunch PROVE Typing'
    OBVIOUS
  <2>1. batch' \in Seq(Decl) /\ at' \in 1..(Len(batch') + 1)
    BY DEF Relaunch
  <2>2. /\ decls' \in World /\ scratch' \in World /\ live' \in Loadable /\ prev' \in World
        /\ before' \in [decls : World, rows : World, live : World]
    BY DEF Relaunch
  <2> QED  BY <2>1, <2>2 DEF Relaunch
<1> QED  BY <1>1, <1>2, <1>3, <1>4, <1>5 DEF Life

\* Answering a request keeps the types of what it touches.
LEMMA AcceptTyping == Typing /\ Accept => Typing'
<1> SUFFICES ASSUME Typing PROVE Accept => Typing'
  OBVIOUS
<1> USE EmptyWorld, ImageAssumption
        DEF Typing, TypeOK, Shape, data, job, restart, observ, Answer, Upsert
<1>0. /\ Len(batch) \in Nat /\ DOMAIN batch = 1..Len(batch)
      /\ \A i \in DOMAIN batch : /\ batch[i].name \in Names
                                /\ batch[i].source \in Sources \cup {NoDecl}
      /\ \A n \in Names : decls[n] \in Sources \cup {NoDecl}
  BY BatchElements DEF World
<1>1. ASSUME NEW o, NEW b \in Batches, AcceptBegin(o, b) PROVE Typing'
  <2>1. b \in Seq(Decl) /\ Len(b) \in Nat
    BY BatchElements
  <2>2. ApplyBatch(decls, b) \in World /\ PrevOf(decls, b) \in World
    BY <2>1, ApplyBatchWorld, PrevOfWorld
  <2> QED  BY <1>1, <2>1, <2>2 DEF AcceptBegin, Receive
<1>2. AcceptReloaded => Typing'
  <2>1. NamesOf(batch) \subseteq Names
    BY <1>0 DEF NamesOf
  <2> QED  BY <1>0, <2>1 DEF AcceptReloaded
<1>3. AcceptRefused => Typing'   BY DEF AcceptRefused
<1>4. AcceptRestore => Typing'
  <2>1. Doubled(batch) \subseteq Names
    BY <1>0 DEF Doubled
  <2> QED  BY <2>1 DEF AcceptRestore
<1>5. AcceptReReload => Typing'  BY DEF AcceptReReload
<1>6. AcceptUpsert => Typing'    BY <1>0 DEF AcceptUpsert, World
<1>7. AcceptDone => Typing'      BY <1>0 DEF AcceptDone
<1> QED  BY <1>1, <1>2, <1>3, <1>4, <1>5, <1>6, <1>7 DEF Accept

\* Removing and resetting keep Typing.
LEMMA ReplaceTyping == Typing /\ Replace => Typing'
<1> SUFFICES ASSUME Typing PROVE Replace => Typing'
  OBVIOUS
<1> USE EmptyWorld, ImageAssumption
        DEF Typing, TypeOK, Shape, data, job, restart, observ, Answer, Upsert
<1>0. /\ Len(batch) \in Nat /\ DOMAIN batch = 1..Len(batch)
      /\ \A i \in DOMAIN batch : /\ batch[i].name \in Names
                                /\ batch[i].source \in Sources \cup {NoDecl}
  BY BatchElements
<1>1. ASSUME NEW n \in Names, RemoveBegin(n) PROVE Typing'
  <2>1. [name |-> n, source |-> NoDecl] \in Decl
    BY DEF Decl
  <2>2. batch' \in Seq(Decl) /\ Len(batch') = 1
    BY <1>1, <2>1 DEF RemoveBegin, Receive
  <2> QED  BY <1>1, <2>2 DEF RemoveBegin, Receive, World
<1>2. ASSUME NEW b \in Batches, ResetBegin(b) PROVE Typing'
  <2>1. b \in Seq(Decl) /\ Len(b) \in Nat
    BY BatchElements
  <2> QED  BY <1>2, <2>1 DEF ResetBegin, Receive
<1>3. ResetUpsert => Typing'  BY <1>0 DEF ResetUpsert, World
<1>4. FinalWrite => Typing'   BY DEF FinalWrite
<1>5. FinalReload => Typing'  BY DEF FinalReload
<1> QED  BY <1>1, <1>2, <1>3, <1>4, <1>5 DEF Replace

\* Evaluating and declaring workspace variables keep Typing.
LEMMA DoItTyping == Typing /\ DoIt => Typing'
<1> SUFFICES ASSUME Typing PROVE DoIt => Typing'
  OBVIOUS
<1> USE EmptyWorld, ImageAssumption
        DEF Typing, TypeOK, Shape, data, job, restart, observ, Answer, Upsert
<1>1. ASSUME NEW form, NEW n \in Names, NEW s \in Inits,
             DoItDeclare(form, n, s) \/ DoItKnown(form, n, s)
      PROVE  Typing'
  <2>1. [name |-> n, source |-> s] \in Decl
    BY DEF Decl
  <2>2. batch' = <<[name |-> n, source |-> s]>> /\ at' = 1
    BY <1>1 DEF DoItDeclare, DoItKnown, Receive
  <2>5. batch' \in Seq(Decl) /\ Len(batch') = 1
    BY <2>1, <2>2
  <2>3. CASE DoItDeclare(form, n, s)
    BY <2>2, <2>5, <2>3 DEF DoItDeclare, Receive, World
  <2>4. CASE DoItKnown(form, n, s)
    BY <2>2, <2>5, <2>4 DEF DoItKnown, Receive
  <2> QED  BY <1>1, <2>3, <2>4
<1>2. DeclWrite => Typing'   BY DEF DeclWrite
<1>3. DeclReload => Typing'  BY DEF DeclReload
<1>4. Eval => Typing'        BY DEF Eval
<1>5. Remember => Typing'
  <2> SUFFICES ASSUME Remember PROVE Typing'
    OBVIOUS
  <2> DEFINE n == batch[1].name
             s == batch[1].source
  <2>1. n \in Names /\ s \in Sources \cup {NoDecl}
    BY BatchElements DEF Remember
  <2>2. CASE decls[n] \in VarSources \ {s}
    <3>1. /\ decls' \in World /\ rows' \in World /\ comment' \in [Names -> BOOLEAN]
          /\ promised' \in [Names -> SUBSET (Sources \cup {NoDecl})]
          /\ drift' \subseteq Names
      <4> HIDE DEF n, s
      <4>1. /\ decls' = [decls EXCEPT ![n] = s] /\ rows' = [rows EXCEPT ![n] = s]
            /\ comment' = [comment EXCEPT ![n] = FALSE]
            /\ promised' = [promised EXCEPT ![n] = {s}]
            /\ drift' = drift \ {n}
        BY <2>2 DEF Remember, n, s
      <4> QED  BY <2>1, <4>1 DEF World
    <3> QED  BY <3>1 DEF Remember
  <2>3. CASE decls[n] \notin VarSources \ {s}
    BY <2>3 DEF Remember
  <2> QED  BY <2>2, <2>3
<1> QED  BY <1>1, <1>2, <1>3, <1>4, <1>5 DEF DoIt

\* The variables keep their types, and a handler is entered only for the requests
\* that the dispatch of the isolate sends there.
LEMMA TypingHolds == Spec => []Typing
<1>1. Typing /\ [Next]_vars => Typing'
  <2>1. ASSUME Typing, NEW n \in ClassNames, SetComment(n) PROVE Typing'
    BY <2>1, ImageAssumption DEF SetComment, Receive, restart, Typing, TypeOK, Shape
  <2>2. Typing /\ UNCHANGED vars => Typing'
    BY DEF vars, data, job, restart, observ, Typing, TypeOK, Shape
  <2> QED
    BY <2>1, <2>2, LifeTyping, AcceptTyping, ReplaceTyping, DoItTyping DEF Next
<1> QED  BY <1>1, InitTyping, PTL DEF Spec

\* Type correctness: in particular the VM runs only what it could load.
THEOREM TypeCorrect == Spec => []TypeOK
<1>1. Typing => TypeOK
  BY DEF Typing
<1> QED  BY <1>1, TypingHolds, PTL

-----------------------------------------------------------------------------
(* What is saved *)

\* Inductive form of SavedIsPromised: while the rows of an accept are written, the
\* VM runs the mirror, the promise covers it, and the rows before `at` hold it.
Saving ==
    /\ SavedIsPromised
    /\ pc \in {"reload", "bootReload"} => scratch = decls
    /\ pc = "bootReload" => decls = rows
    /\ pc = "upsert" =>
          /\ live = decls
          /\ \A n \in NamesOf(batch) : decls[n] \in promised[n]
          /\ \A i \in DOMAIN batch :
                i < at => rows[batch[i].name] = decls[batch[i].name]

\* A kill between two rows leaves each row at a promised source.
LEMMA SavingLife == Typing /\ Saving /\ Life => Saving'
<1> SUFFICES ASSUME Typing, Saving PROVE Life => Saving'
  OBVIOUS
<1> USE DEF Saving, SavedIsPromised, Typing, TypeOK, job, restart, observ
<1>1. Spawn => Saving'       BY DEF Spawn
<1>2. Load => Saving'        BY DEF Load
<1>3. LoadReload => Saving'  BY DEF LoadReload
<1>4. Kill => Saving'        BY DEF Kill
<1>5. Relaunch => Saving'    BY DEF Relaunch
<1> QED  BY <1>1, <1>2, <1>3, <1>4, <1>5 DEF Life

\* Accepting writes to a row only what it has just promised.
LEMMA SavingAccept == Typing /\ Saving /\ Accept => Saving'
<1> SUFFICES ASSUME Typing, Saving PROVE Accept => Saving'
  OBVIOUS
<1> USE DEF Saving, SavedIsPromised, Typing, TypeOK, data, job, restart, observ, Answer
<1>0. /\ Len(batch) \in Nat /\ DOMAIN batch = 1..Len(batch)
      /\ \A i \in DOMAIN batch : batch[i].name \in Names
  BY BatchElements
<1>1. ASSUME NEW o, NEW b \in Batches, AcceptBegin(o, b) PROVE Saving'
  BY <1>1 DEF AcceptBegin, Receive
<1>2. AcceptReloaded => Saving'
  <2> SUFFICES ASSUME AcceptReloaded PROVE Saving'
    OBVIOUS
  <2>1. CASE op = "acceptMany"
    <3>1. SavedIsPromised'
      BY <2>1 DEF AcceptReloaded
    <3>2. \A n \in NamesOf(batch) : decls[n] \in promised'[n]
      BY <2>1, <1>0 DEF AcceptReloaded, NamesOf
    <3>3. /\ pc' = "upsert" /\ live' = decls /\ at' = 1 /\ batch' = batch /\ decls' = decls
      BY <2>1 DEF AcceptReloaded, Shape
    <3> QED  BY <3>1, <3>2, <3>3, <1>0 DEF NamesOf
  <2>2. CASE op = "acceptLive"
    BY <2>2 DEF AcceptReloaded
  <2> QED  BY <2>1, <2>2 DEF AcceptReloaded
<1>3. AcceptRefused => Saving'   BY DEF AcceptRefused
<1>4. AcceptRestore => Saving'   BY DEF AcceptRestore
<1>5. AcceptReReload => Saving'  BY DEF AcceptReReload
<1>6. AcceptUpsert => Saving'
  <2> SUFFICES ASSUME AcceptUpsert PROVE Saving'
    OBVIOUS
  <2> DEFINE n == batch[at].name
  <2>1. /\ at \in DOMAIN batch /\ n \in Names /\ n \in NamesOf(batch)
        /\ rows' = [rows EXCEPT ![n] = decls[n]] /\ at' = at + 1
        /\ pc = "upsert" /\ UNCHANGED <<decls, live, pc, batch, promised>>
    BY <1>0 DEF AcceptUpsert, Upsert, NamesOf
  <2> HIDE DEF n
  <2>2. SavedIsPromised'
    BY <2>1 DEF World
  <2>3. ASSUME NEW i \in DOMAIN batch, i < at + 1
        PROVE  rows'[batch[i].name] = decls[batch[i].name]
    <3>1. CASE i = at
      BY <2>1, <3>1, <1>0 DEF World, n
    <3>2. CASE i < at
      BY <2>1, <3>2, <1>0 DEF World
    <3> QED  BY <2>3, <3>1, <3>2, <1>0
  <2> QED  BY <2>1, <2>2, <2>3 DEF NamesOf
<1>7. AcceptDone => Saving'
  <2> SUFFICES ASSUME AcceptDone PROVE Saving'
    OBVIOUS
  <2>1. \A i \in DOMAIN batch : rows[batch[i].name] = decls[batch[i].name]
    BY <1>0 DEF AcceptDone
  <2>2. \A n \in NamesOf(batch) : rows[n] = decls[n]
    BY <2>1 DEF NamesOf
  <2> QED  BY <2>2 DEF AcceptDone
<1> QED  BY <1>1, <1>2, <1>3, <1>4, <1>5, <1>6, <1>7 DEF Accept

\* Removing and resetting promise what they write.
LEMMA SavingReplace == Typing /\ Saving /\ Replace => Saving'
<1> SUFFICES ASSUME Typing, Saving PROVE Replace => Saving'
  OBVIOUS
<1> USE DEF Saving, SavedIsPromised, Typing, TypeOK, data, job, restart, observ, Answer, Upsert
<1>0. \A i \in DOMAIN batch : batch[i].name \in Names
  BY BatchElements
<1>1. ASSUME NEW n \in Names, RemoveBegin(n) PROVE Saving'
  BY <1>1 DEF RemoveBegin, Receive, World
<1>2. ASSUME NEW b \in Batches, ResetBegin(b) PROVE Saving'
  BY <1>2 DEF ResetBegin, Receive
<1>3. ResetUpsert => Saving'  BY <1>0 DEF ResetUpsert, World
<1>4. FinalWrite => Saving'   BY DEF FinalWrite
<1>5. FinalReload => Saving'  BY DEF FinalReload
<1> QED  BY <1>1, <1>2, <1>3, <1>4, <1>5 DEF Replace

\* So does a do-it.
LEMMA SavingDoIt == Typing /\ Saving /\ DoIt => Saving'
<1> SUFFICES ASSUME Typing, Saving PROVE DoIt => Saving'
  OBVIOUS
<1> USE DEF Saving, SavedIsPromised, Typing, TypeOK, data, job, restart, observ, Answer, Upsert
<1>1. ASSUME NEW form, NEW n \in Names, NEW s \in Inits,
             DoItDeclare(form, n, s) \/ DoItKnown(form, n, s)
      PROVE  Saving'
  <2>1. CASE DoItDeclare(form, n, s)
    BY <2>1 DEF DoItDeclare, Receive, World
  <2>2. CASE DoItKnown(form, n, s)
    BY <2>2 DEF DoItKnown, Receive
  <2> QED  BY <1>1, <2>1, <2>2
<1>2. DeclWrite => Saving'   BY DEF DeclWrite
<1>3. DeclReload => Saving'  BY DEF DeclReload
<1>4. Eval => Saving'        BY DEF Eval
<1>5. Remember => Saving'
  <2> SUFFICES ASSUME Remember PROVE Saving'
    OBVIOUS
  <2> DEFINE n == batch[1].name
             s == batch[1].source
  <2>1. CASE decls[n] \in VarSources \ {s}
    <3>1. /\ rows' = [rows EXCEPT ![n] = s] /\ promised' = [promised EXCEPT ![n] = {s}]
          /\ pc' = "idle"
      BY <2>1 DEF Remember
    <3> HIDE DEF n, s
    <3> QED  BY <3>1 DEF World
  <2>2. CASE decls[n] \notin VarSources \ {s}
    BY <2>2 DEF Remember
  <2> QED  BY <2>1, <2>2
<1> QED  BY <1>1, <1>2, <1>3, <1>4, <1>5 DEF DoIt

\* Saving holds in every state.
LEMMA SavingInvariant == Spec => []Saving
<1>1. Init => Saving
  BY DEF Init, Saving, SavedIsPromised, Empty
<1>2. Typing /\ Saving /\ [Next]_vars => Saving'
  <2>1. ASSUME Typing, Saving, NEW n \in ClassNames, SetComment(n) PROVE Saving'
    BY <2>1 DEF SetComment, Receive, Saving, SavedIsPromised
  <2>2. Saving /\ UNCHANGED vars => Saving'
    BY DEF vars, data, job, restart, observ, Saving, SavedIsPromised
  <2> QED
    BY <2>1, <2>2, SavingLife, SavingAccept, SavingReplace, SavingDoIt DEF Next
<1> QED  BY <1>1, <1>2, TypingHolds, PTL DEF Spec

\* An acknowledged source stays in the image through kills and launches at any step.
THEOREM Durability == Spec => []SavedIsPromised
  BY SavingInvariant, PTL DEF Saving

\* While it serves an accept, the isolate writes only rows the VM runs.
THEOREM WrittenAfterReload == Spec => ImageWrittenAfterReload
<1> DEFINE OnlyLive == \A n \in Names :
                         (op' = "acceptMany" /\ rows'[n] # rows[n]) => rows'[n] = live[n]
<1>1. ASSUME Typing, Saving, Next PROVE OnlyLive
  <2> USE <1>1 DEF Typing, TypeOK, Shape, data, job
  <2>1. CASE Life
    BY <2>1 DEF Life, Spawn, Load, LoadReload, Kill, Relaunch
  <2>2. CASE Accept
    <3>1. CASE AcceptUpsert
      <4> DEFINE k == batch[at].name
      <4>1. rows' = [rows EXCEPT ![k] = live[k]]
        BY <3>1 DEF AcceptUpsert, Upsert, Saving
      <4> HIDE DEF k
      <4> QED  BY <4>1 DEF World
    <3>2. CASE ~AcceptUpsert
      BY <2>2, <3>2 DEF Accept, AcceptBegin, Receive, AcceptReloaded, AcceptRefused,
                        AcceptRestore, AcceptReReload, AcceptDone
    <3> QED  BY <3>1, <3>2
  <2>3. CASE Replace
    BY <2>3 DEF Replace, RemoveBegin, ResetBegin, Receive, ResetUpsert, FinalWrite, FinalReload
  <2>4. CASE DoIt
    BY <2>4 DEF DoIt, DoItDeclare, DoItKnown, Receive, DeclWrite, DeclReload, Eval, Remember
  <2>5. CASE \E n \in ClassNames : SetComment(n)
    BY <2>5 DEF SetComment, Receive
  <2> QED  BY <2>1, <2>2, <2>3, <2>4, <2>5, <1>1 DEF Next
<1>2. Typing /\ Saving /\ [Next]_vars => [OnlyLive]_vars
  BY <1>1
<1>3. ImageWrittenAfterReload <=> [][OnlyLive]_vars
  BY DEF ImageWrittenAfterReload
<1> QED  BY <1>2, <1>3, TypingHolds, SavingInvariant, PTL DEF Spec

\* A restarted isolate serves its first request from exactly the image.
THEOREM BootRestores == Spec => BootRestoresImage
<1> DEFINE Restored == (pc = "bootReload" /\ pc' = "idle") =>
                          /\ decls' = rows /\ scratch' = rows
                          /\ rows \in Loadable => live' = rows
<1>1. ASSUME Typing, Saving, Next PROVE Restored
  <2>1. CASE LoadReload
    BY <2>1, <1>1 DEF LoadReload, Saving
  <2>2. CASE ~LoadReload
    BY <2>2, <1>1 DEF Next, Life, Spawn, Load, Kill, Relaunch,
         Accept, AcceptBegin, Receive, AcceptReloaded, AcceptRefused, AcceptRestore,
         AcceptReReload, AcceptUpsert, AcceptDone,
         Replace, RemoveBegin, ResetBegin, ResetUpsert, FinalWrite, FinalReload,
         DoIt, DoItDeclare, DoItKnown, DeclWrite, DeclReload, Eval, Remember, SetComment
  <2> QED  BY <2>1, <2>2
<1>2. Typing /\ Saving /\ [Next]_vars => [Restored]_vars
  BY <1>1
<1>3. BootRestoresImage <=> [][Restored]_vars
  BY DEF BootRestoresImage
<1> QED  BY <1>2, <1>3, TypingHolds, SavingInvariant, PTL DEF Spec

-----------------------------------------------------------------------------
(* What a refused accept puts back *)

\* Inductive form of RefusedAcceptRestores: until the old mirror is put back, `prev`
\* is what was there for every name declared once, and neither the image nor the VM
\* has changed.
Rollback ==
    /\ RefusedAcceptRestores
    /\ pc \in {"reload", "restore"} =>
          /\ \A n \in Names \ Doubled(batch) : prev[n] = before.decls[n]
          /\ rows = before.rows /\ live = before.live
    /\ pc = "reReload" =>
          /\ \A n \in Names \ Doubled(batch) : decls[n] = before.decls[n]
          /\ scratch = decls
          /\ rows = before.rows /\ live = before.live

\* An accept keeps what it needs to put the mirror back until it has answered.
LEMMA RollbackAccept == Typing /\ Rollback /\ Accept => Rollback'
<1> SUFFICES ASSUME Typing, Rollback PROVE Accept => Rollback'
  OBVIOUS
<1> USE DEF Rollback, RefusedAcceptRestores, data, job, restart, observ, Answer
<1>1. ASSUME NEW o, NEW b \in Batches, AcceptBegin(o, b) PROVE Rollback'
  <2>1. \A n \in Names \ Doubled(b) : PrevOf(decls, b)[n] = decls[n]
    BY PrevOfOnce, ImageAssumption DEF Typing, TypeOK
  <2> QED  BY <1>1, <2>1 DEF AcceptBegin, Receive
<1>2. AcceptReloaded => Rollback'  BY DEF AcceptReloaded
<1>3. AcceptRefused => Rollback'   BY DEF AcceptRefused
<1>4. AcceptRestore => Rollback'   BY DEF AcceptRestore
<1>5. AcceptReReload => Rollback'  BY DEF AcceptReReload
<1>6. AcceptUpsert => Rollback'    BY DEF AcceptUpsert
<1>7. AcceptDone => Rollback'      BY DEF AcceptDone
<1> QED  BY <1>1, <1>2, <1>3, <1>4, <1>5, <1>6, <1>7 DEF Accept

\* No other request touches what a refused accept must put back.
LEMMA RollbackOther == Typing /\ Rollback /\ Next /\ ~Accept => Rollback'
<1> SUFFICES ASSUME Typing, Rollback, Next, ~Accept PROVE Rollback'
  OBVIOUS
<1> USE DEF Typing, Shape, Rollback, RefusedAcceptRestores, data, job, restart, observ, Answer, Receive
<1>1. CASE Life
  BY <1>1 DEF Life, Spawn, Load, LoadReload, Kill, Relaunch
<1>2. CASE Replace
  BY <1>2 DEF Replace, RemoveBegin, ResetBegin, ResetUpsert, FinalWrite, FinalReload
<1>3. CASE DoIt
  BY <1>3 DEF DoIt, DoItDeclare, DoItKnown, DeclWrite, DeclReload, Eval, Remember
<1>4. CASE \E n \in ClassNames : SetComment(n)
  BY <1>4 DEF SetComment
<1> QED  BY <1>1, <1>2, <1>3, <1>4 DEF Next

\* A refused accept leaves no trace but in the names that it declared twice.
THEOREM RefusedRestores == Spec => []RefusedAcceptRestores
<1>1. Init => Rollback
  BY DEF Init, Rollback, RefusedAcceptRestores
<1>2. Typing /\ Rollback /\ [Next]_vars => Rollback'
  <2>1. Rollback /\ UNCHANGED vars => Rollback'
    BY DEF vars, data, job, restart, observ, Rollback, RefusedAcceptRestores
  <2> QED  BY <2>1, RollbackAccept, RollbackOther
<1>3. Rollback => RefusedAcceptRestores
  BY DEF Rollback
<1> QED  BY <1>1, <1>2, <1>3, TypingHolds, PTL DEF Spec

-----------------------------------------------------------------------------
(* Where mirror and image differ *)

\* Inductive form of MirrorDriftAccounted: an accept may differ from the image in the
\* names it has still to write, and what it would put back only in those it doubles.
Drifting ==
    /\ pc \notin {"down", "boot", "bootReload", "reload", "restore", "upsert"} =>
          \A n \in Names : decls[n] # rows[n] => n \in drift
    /\ pc \in {"reload", "restore"} =>
          /\ \A n \in Names : decls[n] # rows[n] => n \in drift \cup NamesOf(batch)
          /\ \A n \in Names : prev[n] # rows[n] => n \in drift \cup Doubled(batch)
    /\ pc = "upsert" =>
          \A n \in Names : decls[n] # rows[n] =>
             n \in drift \/ \E i \in DOMAIN batch : i >= at /\ batch[i].name = n

\* Loading the image makes the mirror equal to it.
LEMMA DriftingLife == Saving /\ Drifting /\ Life => Drifting'
<1> SUFFICES ASSUME Saving, Drifting PROVE Life => Drifting'
  OBVIOUS
<1> USE DEF Saving, Drifting, job, restart, observ
<1>1. Spawn => Drifting'       BY DEF Spawn
<1>2. Load => Drifting'        BY DEF Load
<1>3. LoadReload => Drifting'  BY DEF LoadReload
<1>4. Kill => Drifting'        BY DEF Kill
<1>5. Relaunch => Drifting'    BY DEF Relaunch
<1> QED  BY <1>1, <1>2, <1>3, <1>4, <1>5 DEF Life

\* An accept leaves behind only the drift it records.
LEMMA DriftingAccept == Typing /\ Drifting /\ Accept => Drifting'
<1> SUFFICES ASSUME Typing, Drifting PROVE Accept => Drifting'
  OBVIOUS
<1> USE DEF Drifting, data, job, restart, observ, Answer
<1>0. /\ Len(batch) \in Nat /\ DOMAIN batch = 1..Len(batch)
      /\ \A i \in DOMAIN batch : batch[i].name \in Names
  BY BatchElements DEF Typing, TypeOK
<1>1. ASSUME NEW o, NEW b \in Batches, AcceptBegin(o, b) PROVE Drifting'
  <2>1. b \in Seq(Decl)
    BY ImageAssumption
  <2>2. \A n \in Names \ Doubled(b) : PrevOf(decls, b)[n] = decls[n]
    BY <2>1, PrevOfOnce DEF Typing, TypeOK
  <2>3. \A n \in Names : n \notin NamesOf(b) => ApplyBatch(decls, b)[n] = decls[n]
    BY <2>1, ApplyBatchElsewhere DEF Typing, TypeOK
  <2> QED  BY <1>1, <2>2, <2>3 DEF AcceptBegin, Receive
<1>2. AcceptReloaded => Drifting'
  <2> SUFFICES ASSUME AcceptReloaded PROVE Drifting'
    OBVIOUS
  <2>1. ASSUME NEW n \in NamesOf(batch)
        PROVE  \E i \in DOMAIN batch : i >= at /\ batch[i].name = n
    <3>1. PICK i \in DOMAIN batch : batch[i].name = n
      BY DEF NamesOf
    <3>2. at = 1 /\ i >= 1
      BY <1>0 DEF AcceptReloaded, Typing, Shape
    <3> QED  BY <3>1, <3>2
  <2>2. pc = "reload" /\ UNCHANGED <<decls, rows, batch, at>>
    BY DEF AcceptReloaded
  <2>5. \A n \in Names : decls[n] # rows[n] => n \in drift \cup NamesOf(batch)
    BY <2>2
  <2>3. CASE pc' = "upsert" /\ UNCHANGED drift
    BY <2>1, <2>2, <2>5, <2>3
  <2>4. CASE pc' = "idle" /\ drift' = drift \cup NamesOf(batch)
    BY <2>2, <2>5, <2>4
  <2> QED  BY <2>3, <2>4 DEF AcceptReloaded
<1>3. AcceptRefused => Drifting'   BY DEF AcceptRefused
<1>4. AcceptRestore => Drifting'
  <2> SUFFICES ASSUME AcceptRestore PROVE Drifting'
    OBVIOUS
  <2>1. /\ pc = "restore" /\ pc' = "reReload" /\ decls' = prev /\ UNCHANGED rows
        /\ drift' = drift \cup Doubled(batch)
    BY DEF AcceptRestore
  <2>2. \A n \in Names : prev[n] # rows[n] => n \in drift \cup Doubled(batch)
    BY <2>1
  <2> QED  BY <2>1, <2>2
<1>5. AcceptReReload => Drifting'  BY DEF AcceptReReload
<1>6. AcceptUpsert => Drifting'
  <2> SUFFICES ASSUME AcceptUpsert PROVE Drifting'
    OBVIOUS
  <2> DEFINE k == batch[at].name
  <2>1. /\ at \in DOMAIN batch /\ k \in Names /\ rows' = [rows EXCEPT ![k] = decls[k]]
        /\ drift' = drift \ {k} /\ at' = at + 1 /\ pc = "upsert"
        /\ UNCHANGED <<decls, pc, batch>>
    BY <1>0 DEF AcceptUpsert, Upsert, Typing, TypeOK
  <2>2. ASSUME NEW n \in Names, decls[n] # rows'[n]
        PROVE  n \in drift' \/ \E i \in DOMAIN batch : i >= at + 1 /\ batch[i].name = n
    <3>1. n # k /\ decls[n] # rows[n]
      BY <2>1, <2>2 DEF World, Typing, TypeOK
    <3>2. CASE n \in drift
      BY <2>1, <3>1, <3>2
    <3>3. ASSUME NEW i \in DOMAIN batch, i >= at, batch[i].name = n
          PROVE  i >= at + 1
      BY <3>1, <3>3, <2>1, <1>0 DEF Typing, TypeOK
    <3> QED  BY <2>1, <3>1, <3>2, <3>3
  <2> QED  BY <2>1, <2>2
<1>7. AcceptDone => Drifting'
  BY <1>0 DEF AcceptDone, Typing, TypeOK
<1> QED  BY <1>1, <1>2, <1>3, <1>4, <1>5, <1>6, <1>7 DEF Accept

\* A reset records the rows that it does not delete.
LEMMA DriftingReplace == Typing /\ Drifting /\ Replace => Drifting'
<1> SUFFICES ASSUME Typing, Drifting PROVE Replace => Drifting'
  OBVIOUS
<1> USE DEF Typing, TypeOK, Drifting, data, job, restart, observ, Answer, Upsert
<1>1. ASSUME NEW n \in Names, RemoveBegin(n) PROVE Drifting'
  BY <1>1 DEF RemoveBegin, Receive, World
<1>2. ASSUME NEW b \in Batches, ResetBegin(b) PROVE Drifting'
  BY <1>2 DEF ResetBegin, Receive, Empty
<1>3. ResetUpsert => Drifting'
  BY BatchElements DEF ResetUpsert, World
<1>4. FinalWrite => Drifting'   BY DEF FinalWrite
<1>5. FinalReload => Drifting'  BY DEF FinalReload
<1> QED  BY <1>1, <1>2, <1>3, <1>4, <1>5 DEF Replace

\* A do-it writes mirror and row together.
LEMMA DriftingDoIt == Typing /\ Drifting /\ DoIt => Drifting'
<1> SUFFICES ASSUME Typing, Drifting PROVE DoIt => Drifting'
  OBVIOUS
<1> USE DEF Typing, TypeOK, Drifting, data, job, restart, observ, Answer, Upsert
<1>1. ASSUME NEW form, NEW n \in Names, NEW s \in Inits,
             DoItDeclare(form, n, s) \/ DoItKnown(form, n, s)
      PROVE  Drifting'
  <2>1. CASE DoItDeclare(form, n, s)
    BY <2>1 DEF DoItDeclare, Receive, World
  <2>2. CASE DoItKnown(form, n, s)
    BY <2>2 DEF DoItKnown, Receive
  <2> QED  BY <1>1, <2>1, <2>2
<1>2. DeclWrite => Drifting'   BY DEF DeclWrite
<1>3. DeclReload => Drifting'  BY DEF DeclReload
<1>4. Eval => Drifting'        BY DEF Eval
<1>5. Remember => Drifting'
  <2> SUFFICES ASSUME Remember PROVE Drifting'
    OBVIOUS
  <2> DEFINE n == batch[1].name
             s == batch[1].source
  <2>1. CASE decls[n] \in VarSources \ {s}
    <3>1. /\ decls' = [decls EXCEPT ![n] = s] /\ rows' = [rows EXCEPT ![n] = s]
          /\ drift' = drift \ {n} /\ pc = "remember" /\ pc' = "idle"
      BY <2>1 DEF Remember
    <3> HIDE DEF n, s
    <3> QED  BY <3>1 DEF World
  <2>2. CASE decls[n] \notin VarSources \ {s}
    BY <2>2 DEF Remember
  <2> QED  BY <2>1, <2>2
<1> QED  BY <1>1, <1>2, <1>3, <1>4, <1>5 DEF DoIt

\* Between requests the mirror differs from the image only where a live-only accept,
\* a reset or a refused accept that declares a name twice made it.
THEOREM DriftAccounted == Spec => []MirrorDriftAccounted
<1>1. Init => Drifting
  BY DEF Init, Drifting
<1>2. Typing /\ Saving /\ Drifting /\ [Next]_vars => Drifting'
  <2>1. ASSUME Drifting, NEW n \in ClassNames, SetComment(n) PROVE Drifting'
    BY <2>1 DEF SetComment, Receive, Drifting
  <2>2. Drifting /\ UNCHANGED vars => Drifting'
    BY DEF vars, data, job, restart, observ, Drifting
  <2> QED
    BY <2>1, <2>2, DriftingLife, DriftingAccept, DriftingReplace, DriftingDoIt DEF Next
<1>3. Drifting => MirrorDriftAccounted
  BY DEF Drifting, MirrorDriftAccounted
<1> QED  BY <1>1, <1>2, <1>3, TypingHolds, SavingInvariant, PTL DEF Spec

=============================================================================
