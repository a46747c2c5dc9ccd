--------------------------- MODULE ChannelProofs ---------------------------
(***************************************************************************)
(* What Channel promises for every set of requests, every deadline and     *)
(* every number of generations.                                            *)
(***************************************************************************)
EXTENDS Channel, FiniteSetTheorems, SequenceTheorems, TLAPS

-----------------------------------------------------------------------------
(* Generations *)

Alive == {"spawning", "booting", "running", "hung"}
ProcState == {"none", "spawning", "failed", "booting", "running", "hung", "dead"}

\* What the next respawn would kill.  Until a restart overtakes the launch it is the
\* newest generation, or nothing while the first spawn is under way; later the spawn
\* of the launch may have put the first isolate there.
Newest == gLangIsolate = gLangGen
Launch == gLangGen = 1 /\ gLangIsolate = None /\ proc[gLangGen] = "spawning"
Taken  == overtaken /\ gLangIsolate = 1 /\ Strays \subseteq {1}

\* What makes OneLanguageIsolate inductive: when a respawn can start, its kill reaches
\* the newest generation or the one stray there is, and generations beyond the newest
\* do not exist yet.
Lineage ==
    /\ gLangGen \in Gens /\ gLangIsolate \in Gens \cup {None} /\ gLang \in {None, gLangGen}
    /\ gRespawning \in BOOLEAN /\ ready \in BOOLEAN /\ overtaken \in BOOLEAN
    /\ proc \in [Gens -> ProcState]
    /\ killed \in [Gens -> BOOLEAN]
    /\ exits \subseteq {g \in Gens : proc[g] = "dead"}
    /\ \A g \in Gens : g > gLangGen => proc[g] = "none"
    /\ \A g \in Gens : g >= gLangGen => ~killed[g]
    /\ \A g \in Gens : proc[g] = "spawning" => ~killed[g] /\ (g = gLangGen \/ (g = 1 /\ overtaken))
    /\ \A g \in Gens : g = gLangIsolate => proc[g] # "spawning"
    /\ gLangIsolate = None => gLang = None /\ ~ready
    /\ ~overtaken => Strays = {}
    /\ \A g, h \in Strays : g = h
    /\ IF gRespawning
       THEN proc[gLangGen] \in {"spawning", "failed"} \/ Newest \/ Taken
       ELSE Newest \/ Launch \/ (Taken /\ proc[gLangGen] # "spawning")

\* A step of an isolate that has started, and a spawn that fails, keep the lineage:
\* neither adds a stray.
LEMMA LineageFrame ==
    ASSUME Lineage,
           UNCHANGED <<gLang, gLangGen, gLangIsolate, gRespawning, ready, overtaken, killed>>,
           proc' \in [Gens -> ProcState],
           exits' \subseteq {g \in Gens : proc'[g] = "dead"},
           \A g \in Gens :
              \/ proc'[g] = proc[g]
              \/ proc[g] \in {"booting", "running", "hung"} /\ proc'[g] \in {"running", "hung", "dead"}
              \/ ready /\ proc[g] = "spawning" /\ proc'[g] = "failed"
    PROVE  Lineage'
<1>1. Strays' \subseteq Strays
  BY DEF Strays, Lineage
<1>2. ~overtaken' => Strays' = {}
  BY <1>1 DEF Lineage
<1>3. \A g, h \in Strays' : g = h
  BY <1>1 DEF Lineage
<1>4. (Newest => Newest') /\ (Taken => Taken') /\ (Launch => Launch')
  BY <1>1 DEF Newest, Taken, Launch, Lineage
<1>5. IF gRespawning'
      THEN proc'[gLangGen'] \in {"spawning", "failed"} \/ Newest' \/ Taken'
      ELSE Newest' \/ Launch' \/ (Taken' /\ proc'[gLangGen'] # "spawning")
  BY <1>4 DEF Lineage
<1>6. /\ \A g \in Gens : g > gLangGen' => proc'[g] = "none"
      /\ \A g \in Gens : g >= gLangGen' => ~killed'[g]
      /\ \A g \in Gens : proc'[g] = "spawning" => ~killed'[g] /\ (g = gLangGen' \/ (g = 1 /\ overtaken'))
      /\ \A g \in Gens : g = gLangIsolate' => proc'[g] # "spawning"
      /\ gLangIsolate' = None => gLang' = None /\ ~ready'
  BY DEF Lineage
<1> QED  BY <1>2, <1>3, <1>5, <1>6 DEF Lineage

\* Starting a respawn keeps the lineage: it kills the newest generation, or the stray
\* in whose place the newest becomes one, or it overtakes the launch.
LEMMA StartRespawnLineage ==
    ASSUME Lineage, StartRespawn, exits' \subseteq exits
    PROVE  Lineage'
<1> DEFINE n == gLangGen + 1
<1>1. /\ gLangGen \in Nat \ {0} /\ n \in Gens /\ n # None /\ gLangIsolate \in Nat
      /\ proc[n] = "none" /\ ~killed[n] /\ gLangIsolate # n /\ ~gRespawning
      /\ Newest \/ Launch \/ (Taken /\ proc[gLangGen] # "spawning")
  BY ChannelAssumption DEF Lineage, StartRespawn, Newest, Launch, Taken, Gens, None
<1>2. /\ gLangGen' = n /\ gLang' = None /\ gRespawning' = TRUE
      /\ proc' = [proc EXCEPT ![n] = "spawning"]
      /\ killed' = [g \in Gens |-> killed[g] \/ g = gLangIsolate]
      /\ overtaken' = (overtaken \/ gLangIsolate = None)
      /\ UNCHANGED <<gLangIsolate, ready>>
  BY DEF StartRespawn
<1> HIDE DEF n
<1>3. /\ proc' \in [Gens -> ProcState] /\ proc'[n] = "spawning"
      /\ \A g \in Gens \ {n} : proc'[g] = proc[g]
  BY <1>1, <1>2 DEF Lineage, ProcState
<1>4. /\ killed' \in [Gens -> BOOLEAN]
      /\ \A g \in Gens : killed'[g] = (killed[g] \/ g = gLangIsolate)
  BY <1>2 DEF Lineage
<1>5. \A g \in Gens : g > n => g > gLangGen
  BY <1>1 DEF Gens, n
<1>6. \A g \in Gens : g >= n => g > gLangGen /\ g # gLangIsolate
  BY <1>1 DEF Newest, Launch, Taken, Gens, None, n
<1>7. \A g \in Strays' : g # gLangIsolate /\ (g \in Strays \/ g = gLangGen)
  BY <1>2, <1>3, <1>4 DEF Strays
<1>8. /\ \A g, h \in Strays' : g = h
      /\ ~overtaken' => Strays' = {}
  <2>1. CASE Newest
    BY <1>2, <1>7, <2>1 DEF Newest, Lineage
  <2>2. CASE Launch
    <3>1. \A g \in Gens : g # gLangGen => proc[g] = "none"
      BY <2>2 DEF Launch, Lineage, Gens
    <3>2. Strays = {}
      BY <3>1 DEF Strays
    <3> QED  BY <1>2, <1>7, <2>2, <3>2 DEF Launch
  <2>3. CASE Taken
    BY <1>2, <1>7, <2>3 DEF Taken
  <2> QED  BY <1>1, <2>1, <2>2, <2>3
<1>9. \A g \in Gens : proc'[g] = "spawning" => ~killed'[g] /\ (g = gLangGen' \/ (g = 1 /\ overtaken'))
  <2>1. ASSUME NEW g \in Gens, proc[g] = "spawning"
        PROVE  ~killed'[g] /\ g = 1 /\ overtaken'
    <3>1. ~killed[g] /\ g # gLangIsolate /\ (g = gLangGen \/ (g = 1 /\ overtaken))
      BY <2>1 DEF Lineage
    <3>2. g = gLangGen => Launch
      BY <1>1, <2>1, <3>1 DEF Newest
    <3> QED  BY <1>2, <1>4, <3>1, <3>2 DEF Launch
  <2>2. ~killed'[n]
    BY <1>1, <1>4
  <2>3. \A g \in Gens : proc'[g] = "spawning" => g = n \/ proc[g] = "spawning"
    BY <1>3
  <2>4. gLangGen' = n
    BY <1>2
  <2> QED  BY ONLY <2>1, <2>2, <2>3, <2>4
<1>10. exits' \subseteq {g \in Gens : proc'[g] = "dead"}
  BY <1>1, <1>3 DEF Lineage
<1>11. /\ \A g \in Gens : g > gLangGen' => proc'[g] = "none"
       /\ \A g \in Gens : g >= gLangGen' => ~killed'[g]
       /\ \A g \in Gens : g = gLangIsolate' => proc'[g] # "spawning"
       /\ gLangIsolate' = None => gLang' = None /\ ~ready'
  <2>1. \A g \in Gens : g > n => proc'[g] = "none"
    <3>1. \A g \in Gens : g > n => g # n
      BY <1>1 DEF Gens
    <3> QED  BY <1>3, <1>5, <3>1 DEF Lineage
  <2>2. \A g \in Gens : g >= n => ~killed'[g]
    BY <1>1, <1>4, <1>6 DEF Lineage, Gens
  <2>3. \A g \in Gens : g = gLangIsolate' => proc'[g] # "spawning"
    BY <1>1, <1>2, <1>3 DEF Lineage
  <2> QED  BY <1>2, <2>1, <2>2, <2>3 DEF Lineage
<1>12. proc'[gLangGen'] = "spawning" /\ gLangGen' \in Gens /\ overtaken' \in BOOLEAN
  BY <1>1, <1>2, <1>3 DEF Lineage
<1> QED  BY <1>2, <1>3, <1>4, <1>8, <1>9, <1>10, <1>11, <1>12 DEF Lineage

\* The end of a spawn keeps it: only that of the launch can come late, and what it
\* puts in gLangIsolate is then the stray.
LEMMA SpawnDoneLineage ==
    ASSUME Lineage, NEW g \in Gens, SpawnDone(g)
    PROVE  Lineage'
<1>1. /\ proc[g] = "spawning" /\ proc' = [proc EXCEPT ![g] = "booting"] /\ gLangIsolate' = g
      /\ UNCHANGED <<gLang, gLangGen, gRespawning, ready, overtaken, killed, exits>>
  BY DEF SpawnDone
<1>2. /\ proc' \in [Gens -> ProcState] /\ proc'[g] = "booting"
      /\ \A h \in Gens \ {g} : proc'[h] = proc[h]
  BY <1>1 DEF Lineage, ProcState
<1>3. Strays' = Strays
  BY <1>1, <1>2 DEF Strays
<1>4. g # None
  BY DEF Gens, None
<1>5. Newest' \/ (Taken' /\ g # gLangGen)
  <2>1. CASE g = gLangGen
    BY <1>1, <2>1 DEF Newest
  <2>2. CASE g # gLangGen
    <3>1. g = 1 /\ overtaken /\ g \in Strays
      BY <1>1, <2>2 DEF Lineage, Strays
    <3>2. Strays \subseteq {1}
      BY <3>1 DEF Lineage
    <3> QED  BY <1>1, <1>3, <2>2, <3>1, <3>2 DEF Taken
  <2> QED  BY <2>1, <2>2
<1>6. ~gRespawning /\ g # gLangGen => proc'[gLangGen'] # "spawning"
  <2>1. ASSUME ~gRespawning, g # gLangGen PROVE proc[gLangGen] # "spawning"
    <3>1. g \in Gens /\ proc[g] = "spawning" /\ g = 1
      BY <1>1, <2>1 DEF Lineage
    <3>2. ~Launch
      BY <2>1, <3>1 DEF Launch
    <3>3. Newest => proc[gLangGen] # "spawning"
      BY DEF Newest, Lineage
    <3> QED  BY <2>1, <3>2, <3>3 DEF Lineage
  <2> QED  BY <1>1, <1>2, <2>1 DEF Lineage
<1>7. exits' \subseteq {h \in Gens : proc'[h] = "dead"}
  BY <1>1, <1>2 DEF Lineage
<1>8. /\ \A h \in Gens : h > gLangGen' => proc'[h] = "none"
      /\ \A h \in Gens : h >= gLangGen' => ~killed'[h]
      /\ \A h \in Gens : proc'[h] = "spawning" => ~killed'[h] /\ (h = gLangGen' \/ (h = 1 /\ overtaken'))
      /\ \A h \in Gens : h = gLangIsolate' => proc'[h] # "spawning"
  BY <1>1, <1>2 DEF Lineage
<1>9. IF gRespawning'
      THEN proc'[gLangGen'] \in {"spawning", "failed"} \/ Newest' \/ Taken'
      ELSE Newest' \/ Launch' \/ (Taken' /\ proc'[gLangGen'] # "spawning")
  BY <1>1, <1>5, <1>6
<1>10. (~overtaken' => Strays' = {}) /\ \A h, k \in Strays' : h = k
  BY <1>1, <1>3 DEF Lineage
<1> QED  BY <1>1, <1>2, <1>4, <1>7, <1>8, <1>9, <1>10 DEF Lineage

\* So does a handshake: what is replaced next is the isolate that sent it.
LEMMA HandshakeLineage ==
    ASSUME Lineage, Handshake
    PROVE  Lineage'
<1>1. /\ proc[gLangGen] = "booting" /\ proc' = [proc EXCEPT ![gLangGen] = "running"]
      /\ gLang' = gLangGen /\ gRespawning' = FALSE /\ ready' \in BOOLEAN
      /\ UNCHANGED <<gLangGen, gLangIsolate, overtaken, killed, exits>>
  BY DEF Handshake, Lineage
<1>2. /\ proc' \in [Gens -> ProcState] /\ proc'[gLangGen] = "running"
      /\ \A h \in Gens \ {gLangGen} : proc'[h] = proc[h]
  BY <1>1 DEF Lineage, ProcState
<1>3. Strays' = Strays
  BY <1>1, <1>2 DEF Strays
<1>4. Newest \/ Taken
  BY <1>1 DEF Lineage, Launch
<1>5. Newest' \/ (Taken' /\ proc'[gLangGen'] # "spawning")
  BY <1>1, <1>2, <1>3, <1>4 DEF Newest, Taken
<1>6. gLangIsolate' # None
  BY <1>1, <1>4 DEF Newest, Taken, Lineage, Gens, None
<1>7. exits' \subseteq {h \in Gens : proc'[h] = "dead"}
  BY <1>1, <1>2 DEF Lineage
<1>8. /\ \A h \in Gens : h > gLangGen' => proc'[h] = "none"
      /\ \A h \in Gens : h >= gLangGen' => ~killed'[h]
      /\ \A h \in Gens : proc'[h] = "spawning" => ~killed'[h] /\ (h = gLangGen' \/ (h = 1 /\ overtaken'))
      /\ \A h \in Gens : h = gLangIsolate' => proc'[h] # "spawning"
  BY <1>1, <1>2 DEF Lineage
<1>9. (~overtaken' => Strays' = {}) /\ \A h, k \in Strays' : h = k
  BY <1>1, <1>3 DEF Lineage
<1> QED  BY <1>1, <1>2, <1>5, <1>6, <1>7, <1>8, <1>9 DEF Lineage

\* Lineage is inductive.
LEMMA LineageStep ==
    ASSUME Lineage, [Next]_vars
    PROVE  Lineage'
<1>1. ASSUME NEW g \in Gens, SpawnDone(g) PROVE Lineage'
  BY <1>1, SpawnDoneLineage
<1>2. ASSUME NEW g \in Gens, SpawnFails(g) PROVE Lineage'
  <2>1. /\ ready /\ proc[g] = "spawning" /\ proc' = [proc EXCEPT ![g] = "failed"]
        /\ UNCHANGED <<gLang, gLangGen, gLangIsolate, gRespawning, ready, overtaken, killed, exits>>
    BY <1>2 DEF SpawnFails, ui
  <2> QED  BY <2>1, LineageFrame DEF Lineage, ProcState
<1>3. CASE Handshake
  BY <1>3, HandshakeLineage
<1>4. CASE MenuRestart
  BY <1>4, StartRespawnLineage DEF MenuRestart
<1>5. ASSUME NEW g \in Gens, ExitNotice(g) PROVE Lineage'
  <2>1. CASE g = gLangGen
    BY <1>5, <2>1, StartRespawnLineage DEF ExitNotice
  <2>2. CASE g # gLangGen
    BY <1>5, <2>2, LineageFrame DEF ExitNotice, Lineage, ui, procs
  <2> QED  BY <2>1, <2>2
<1>6. ASSUME NEW r \in Requests,
             AskRefused(r) \/ Ask(r) \/ Deliver(r) \/ TickLost(r) \/ TickHeld(r) \/ TickWaits(r)
      PROVE Lineage'
  <2>1. UNCHANGED <<gLang, gLangGen, gLangIsolate, gRespawning, ready, overtaken, proc, killed, exits>>
    BY <1>6 DEF AskRefused, Ask, Deliver, TickLost, TickHeld, TickWaits, ui, procs
  <2> QED  BY <2>1, LineageFrame DEF Lineage
<1>7. ASSUME NEW r \in Requests, TickOverdue(r) PROVE Lineage'
  BY <1>7, StartRespawnLineage DEF TickOverdue
<1>8. CASE Stop \/ Continue \/ UNCHANGED vars
  <2>1. UNCHANGED <<gLang, gLangGen, gLangIsolate, gRespawning, ready, overtaken, proc, killed, exits>>
    BY <1>8 DEF Stop, Continue, vars, ui, procs
  <2> QED  BY <2>1, LineageFrame DEF Lineage
<1>9. ASSUME NEW g \in Gens, Serve(g) PROVE Lineage'
  <2>1. UNCHANGED <<gLang, gLangGen, gLangIsolate, gRespawning, ready, overtaken, proc, killed, exits>>
    BY <1>9 DEF Serve, ui
  <2> QED  BY <2>1, LineageFrame DEF Lineage
<1>10. ASSUME NEW g \in Gens, Hang(g) \/ Unheard(g) PROVE Lineage'
  <2>1. /\ proc[g] \in {"booting", "running"}
        /\ \E to \in {"running", "hung"} : proc' = [proc EXCEPT ![g] = to]
        /\ UNCHANGED <<gLang, gLangGen, gLangIsolate, gRespawning, ready, overtaken, killed, exits>>
    BY <1>10 DEF Hang, Unheard, Runs, ui
  <2> QED  BY <2>1, LineageFrame DEF Lineage, ProcState
<1>11. ASSUME NEW g \in Gens, Exit(g) \/ KillTakesEffect(g) PROVE Lineage'
  <2>1. /\ proc[g] \in {"booting", "running", "hung"} /\ proc' = [proc EXCEPT ![g] = "dead"]
        /\ exits' \subseteq exits \cup {g}
        /\ UNCHANGED <<gLang, gLangGen, gLangIsolate, gRespawning, ready, overtaken, killed>>
    BY <1>11 DEF Exit, KillTakesEffect, Dies, Runs, ui
  <2> QED  BY <2>1, LineageFrame DEF Lineage, ProcState
<1> QED
  BY <1>1, <1>2, <1>3, <1>4, <1>5, <1>6, <1>7, <1>8, <1>9, <1>10, <1>11
     DEF Next, Supervise, Isolate, Tick

\* Lineage holds in every state.
LEMMA LineageHolds == Spec => []Lineage
<1>1. ASSUME Init PROVE Lineage
  <2>1. 1 \in Gens /\ MaxGens \in Nat
    BY ChannelAssumption DEF Gens
  <2>2. \A g \in Gens : proc[g] = (IF g = 1 THEN "spawning" ELSE "none") /\ ~killed[g]
    BY <1>1 DEF Init
  <2>3. proc \in [Gens -> {"none", "spawning"}]
    BY <1>1, Zenon DEF Init
  <2>4. proc \in [Gens -> ProcState]
    BY <2>3 DEF ProcState
  <2>5. killed \in [Gens -> BOOLEAN]
    BY <1>1 DEF Init
  <2>6. /\ gLang = None /\ gLangGen = 1 /\ gLangIsolate = None /\ gRespawning = FALSE
        /\ ready = FALSE /\ overtaken = FALSE /\ exits = {}
    BY <1>1 DEF Init
  <2>7. Launch
    BY <2>1, <2>2, <2>6 DEF Launch
  <2>8. Strays = {}
    BY <2>2, <2>6 DEF Strays
  <2>9. \A g \in Gens : g > gLangGen => proc[g] = "none"
    BY <2>2, <2>6 DEF Gens
  <2>10. \A g \in Gens : proc[g] = "spawning" => g = gLangGen
    BY <2>2, <2>6
  <2>11. \A g \in Gens : g # gLangIsolate
    BY <2>6 DEF Gens, None
  <2>12. \A g \in Gens : ~killed[g]
    BY <2>2
  <2>13. exits \subseteq {g \in Gens : proc[g] = "dead"}
    BY <2>6
  <2>14. \A g, h \in Strays : g = h
    BY <2>8
  <2> QED
    BY ONLY <2>1, <2>4, <2>5, <2>6, <2>7, <2>8, <2>9, <2>10, <2>11, <2>12, <2>13, <2>14 DEF Lineage
<1> QED  BY <1>1, LineageStep, PTL DEF Spec

\* However restarts, exits and timeouts interleave, from the first spawn on: there is
\* one language isolate, and at most one more once a restart has overtaken the launch.
THEOREM OneIsolate == Spec => []OneLanguageIsolate
<1>1. Lineage => OneLanguageIsolate
  BY DEF Lineage, OneLanguageIsolate, Gens
<1> QED  BY <1>1, LineageHolds, PTL

-----------------------------------------------------------------------------
(* Requests *)

Flight == {r \in Requests : InFlight(r)}
Restarting == {r \in Requests : ask[r].st = "restarting"}

\* The requests as the UI keeps them, and their count.
Accounts ==
    /\ ask \in [Requests -> [st : AskState, gen : Gens \cup {None}, elapsed : 0..Timeout]]
    /\ stopped \in BOOLEAN
    /\ mishaps \in 0..MaxMishaps
    /\ gAskPending = Cardinality(Flight)

\* The sets that are counted are finite.
LEMMA FlightFinite ==
    /\ IsFiniteSet(Flight) /\ Cardinality(Flight) \in Nat
    /\ IsFiniteSet(Restarting) /\ Cardinality(Restarting) \in Nat
<1>1. Flight \subseteq Requests /\ Restarting \subseteq Requests
  BY DEF Flight, Restarting
<1> QED  BY <1>1, ChannelAssumption, FS_Subset, FS_CardinalityType

\* When requests neither start nor end, the count stands.
LEMMA NoRequestEnds ==
    ASSUME Accounts, UNCHANGED gAskPending, stopped' \in BOOLEAN, mishaps' \in 0..MaxMishaps,
           ask' \in [Requests -> [st : AskState, gen : Gens \cup {None}, elapsed : 0..Timeout]],
           \A r \in Requests : InFlight(r)' <=> InFlight(r)
    PROVE  Accounts'
<1>1. Flight' = Flight
  BY DEF Flight
<1> QED  BY <1>1 DEF Accounts

\* One request ends: the count goes down by one.
LEMMA OneEnds ==
    ASSUME Accounts, NEW r \in Requests, InFlight(r), NEW to \in AskState \ {"waiting", "restarting"},
           Ends(r, to), UNCHANGED <<stopped, mishaps>>
    PROVE  Accounts'
<1>1. ask' \in [Requests -> [st : AskState, gen : Gens \cup {None}, elapsed : 0..Timeout]]
  BY ChannelAssumption DEF Accounts, Ends, Idle
<1>2. Flight' = Flight \ {r}
  BY DEF Flight, InFlight, Ends, Idle, Accounts
<1>3. Cardinality(Flight') = Cardinality(Flight) - 1
  BY <1>2, FlightFinite, FS_RemoveElement DEF Flight
<1> QED  BY <1>1, <1>3 DEF Accounts, Ends

\* A respawn ends: every request that waits for it ends with it.
LEMMA RestartingEnd ==
    ASSUME Accounts, NEW to \in AskState \ {"waiting", "restarting"},
           EndRestarting(to), UNCHANGED stopped, mishaps' \in 0..MaxMishaps
    PROVE  Accounts'
<1>1. ask' \in [Requests -> [st : AskState, gen : Gens \cup {None}, elapsed : 0..Timeout]]
  <2>1. Idle(to) \in [st : AskState, gen : Gens \cup {None}, elapsed : 0..Timeout]
    BY ChannelAssumption DEF Idle
  <2> QED  BY <2>1 DEF Accounts, EndRestarting
<1>2. Flight' = Flight \ Restarting
  <2>1. ASSUME NEW r \in Requests
        PROVE  InFlight(r)' <=> (InFlight(r) /\ ask[r].st # "restarting")
    BY DEF InFlight, EndRestarting, Idle, Accounts
  <2> QED  BY <2>1 DEF Flight, Restarting
<1>3. Flight \cap Restarting = Restarting
  BY DEF Flight, Restarting, InFlight
<1>4. Cardinality(Flight') = Cardinality(Flight) - Cardinality(Restarting)
  <2>1. Cardinality(Flight \ Restarting) = Cardinality(Flight) - Cardinality(Flight \cap Restarting)
    BY FlightFinite, FS_Difference
  <2> QED  BY <1>2, <1>3, <2>1
<1> QED  BY <1>1, <1>4 DEF Accounts, EndRestarting, Restarting

\* Accounts is inductive.
LEMMA AccountsStep ==
    ASSUME Lineage, Accounts, [Next]_vars
    PROVE  Accounts'
<1>0. gLangGen \in Gens /\ Timeout \in Nat /\ MaxMishaps \in Nat
  BY ChannelAssumption DEF Lineage
<1>1. ASSUME NEW g \in Gens, SpawnDone(g) \/ Unheard(g) PROVE Accounts'
  BY <1>1, NoRequestEnds DEF SpawnDone, Unheard, ui, Accounts, InFlight
<1>2. ASSUME NEW g \in Gens, SpawnFails(g) PROVE Accounts'
  BY <1>0, <1>2, RestartingEnd DEF SpawnFails, Mishap, Accounts, ui, AskState
<1>3. CASE Handshake
  BY <1>3, RestartingEnd DEF Handshake, Accounts, AskState
<1>4. CASE MenuRestart
  <2>1. mishaps' \in 0..MaxMishaps
    BY <1>0, <1>4 DEF MenuRestart, Mishap, Accounts
  <2>2. stopped' = FALSE /\ UNCHANGED <<ask, gAskPending>>
    BY <1>4 DEF MenuRestart, StartRespawn
  <2> QED  BY <2>1, <2>2, NoRequestEnds DEF Accounts, InFlight
<1>5. ASSUME NEW g \in Gens, ExitNotice(g) PROVE Accounts'
  BY <1>5, NoRequestEnds DEF ExitNotice, StartRespawn, ui, Accounts, InFlight
<1>6. ASSUME NEW r \in Requests, AskRefused(r) PROVE Accounts'
  <2>1. Idle("refused") \in [st : AskState, gen : Gens \cup {None}, elapsed : 0..Timeout]
    BY <1>0 DEF Idle, AskState
  <2>2. ask' \in [Requests -> [st : AskState, gen : Gens \cup {None}, elapsed : 0..Timeout]]
    BY <1>6, <2>1 DEF AskRefused, Accounts
  <2>3. \A q \in Requests : InFlight(q)' <=> InFlight(q)
    BY <1>6 DEF AskRefused, InFlight, Idle, Accounts
  <2> QED  BY <1>6, <2>2, <2>3, NoRequestEnds DEF AskRefused, ui, Accounts
<1>7. ASSUME NEW r \in Requests, Ask(r) PROVE Accounts'
  <2>1. ask' \in [Requests -> [st : AskState, gen : Gens \cup {None}, elapsed : 0..Timeout]]
    BY <1>0, <1>7 DEF Ask, Accounts, AskState
  <2>2. Flight' = Flight \cup {r} /\ r \notin Flight
    BY <1>7 DEF Ask, Flight, InFlight, Accounts
  <2>3. Cardinality(Flight') = Cardinality(Flight) + 1
    BY <2>2, FlightFinite, FS_AddElement
  <2> QED  BY <1>7, <2>1, <2>3 DEF Ask, ui, Accounts
<1>8. ASSUME NEW r \in Requests, Deliver(r) PROVE Accounts'
  <2>1. CASE ask[r].st = "waiting"
    BY <1>8, <2>1, OneEnds DEF Deliver, InFlight, AskState, ui
  <2>2. CASE ask[r].st # "waiting"
    BY <1>8, <2>2, NoRequestEnds DEF Deliver, InFlight, ui, Accounts
  <2> QED  BY <2>1, <2>2
<1>9. ASSUME NEW r \in Requests, TickLost(r) PROVE Accounts'
  BY <1>9, OneEnds DEF TickLost, InFlight, AskState, ui
<1>10. ASSUME NEW r \in Requests, TickHeld(r) \/ TickWaits(r) PROVE Accounts'
  <2>1. ask' \in [Requests -> [st : AskState, gen : Gens \cup {None}, elapsed : 0..Timeout]]
    BY <1>0, <1>10 DEF TickHeld, TickWaits, Overdue, Accounts
  <2>2. \A q \in Requests : InFlight(q)' <=> InFlight(q)
    BY <1>10 DEF TickHeld, TickWaits, InFlight, Accounts
  <2> QED  BY <1>10, <2>1, <2>2, NoRequestEnds DEF TickHeld, TickWaits, ui, Accounts
<1>11. ASSUME NEW r \in Requests, TickOverdue(r) PROVE Accounts'
  <2>1. Idle("restarting") \in [st : AskState, gen : Gens \cup {None}, elapsed : 0..Timeout]
    BY <1>0 DEF Idle, AskState
  <2>2. ask' \in [Requests -> [st : AskState, gen : Gens \cup {None}, elapsed : 0..Timeout]]
    BY <1>11, <2>1 DEF TickOverdue, Accounts
  <2>3. \A q \in Requests : InFlight(q)' <=> InFlight(q)
    BY <1>11 DEF TickOverdue, InFlight, Idle, Accounts
  <2> QED  BY <1>11, <2>2, <2>3, NoRequestEnds DEF TickOverdue, StartRespawn, Accounts
<1>12. CASE Stop \/ Continue \/ UNCHANGED vars
  BY <1>12, NoRequestEnds DEF Stop, Continue, vars, ui, Accounts, InFlight
<1>13. ASSUME NEW g \in Gens, Serve(g) PROVE Accounts'
  BY <1>13, NoRequestEnds DEF Serve, ui, Accounts, InFlight
<1>14. ASSUME NEW g \in Gens, Hang(g) PROVE Accounts'
  BY <1>0, <1>14, NoRequestEnds DEF Hang, Mishap, ui, Accounts, InFlight
<1>15. ASSUME NEW g \in Gens, Exit(g) \/ KillTakesEffect(g) PROVE Accounts'
  BY <1>0, <1>15, NoRequestEnds DEF Exit, KillTakesEffect, Dies, Mishap, ui, Accounts, InFlight
<1> QED
  BY <1>1, <1>2, <1>3, <1>4, <1>5, <1>6, <1>7, <1>8, <1>9, <1>10, <1>11, <1>12, <1>13, <1>14, <1>15
     DEF Next, Supervise, Isolate, Tick

\* Accounts holds in every state.
LEMMA AccountsHold == Spec => []Accounts
<1>1. ASSUME Init PROVE Accounts
  <2>1. Idle("unsent") \in [st : AskState, gen : Gens \cup {None}, elapsed : 0..Timeout]
    BY ChannelAssumption DEF Idle, AskState
  <2>2. Flight = {}
    BY <1>1 DEF Init, Flight, InFlight, Idle
  <2>3. Cardinality(Flight) = 0
    BY <2>2, FS_EmptySet
  <2>4. ask \in [Requests -> [st : AskState, gen : Gens \cup {None}, elapsed : 0..Timeout]]
    BY <1>1, <2>1 DEF Init
  <2>5. stopped \in BOOLEAN /\ mishaps = 0 /\ gAskPending = 0
    BY <1>1 DEF Init
  <2> QED  BY <2>3, <2>4, <2>5, ChannelAssumption DEF Accounts
<1> QED  BY <1>1, LineageHolds, AccountsStep, PTL DEF Spec

\* gAskPending, which `settle` waits on, counts the requests in flight, however
\* they end.
THEOREM PendingCounts == Spec => []PendingIsInFlight
<1>1. Accounts => PendingIsInFlight
  BY DEF Accounts, PendingIsInFlight, Flight
<1> QED  BY <1>1, AccountsHold, PTL

\* No request has been sent while the first spawn is under way.
Quiet == gLangIsolate = None => \A r \in Requests : ask[r].st \in {"unsent", "refused"}

LEMMA QuietStep ==
    ASSUME Lineage, Accounts, Quiet, [Next]_vars
    PROVE  Quiet'
<1>1. ASSUME NEW g \in Gens, SpawnDone(g) PROVE Quiet'
  BY <1>1 DEF SpawnDone, Quiet, Gens, None
<1>2. ASSUME gLangIsolate' = gLangIsolate,
             \A r \in Requests : ask'[r].st = ask[r].st \/ ask[r].st \notin {"unsent", "refused"}
                                 \/ ask'[r].st = "refused" \/ gLang # None
      PROVE  Quiet'
  BY <1>2 DEF Quiet, Lineage
<1>3. ASSUME NEW g \in Gens, SpawnFails(g) PROVE Quiet'
  BY <1>2, <1>3 DEF SpawnFails, EndRestarting, ui, Accounts
<1>4. CASE Handshake
  BY <1>2, <1>4 DEF Handshake, EndRestarting, Accounts
<1>5. ASSUME NEW g \in Gens, ExitNotice(g) \/ Unheard(g) \/ Isolate(g) PROVE Quiet'
  BY <1>2, <1>5
     DEF ExitNotice, StartRespawn, Unheard, Isolate, Serve, Hang, Exit, KillTakesEffect, Dies, ui
<1>6. CASE MenuRestart \/ Stop \/ Continue \/ UNCHANGED vars
  BY <1>2, <1>6 DEF MenuRestart, StartRespawn, Stop, Continue, vars, ui
<1>7. ASSUME NEW r \in Requests, AskRefused(r) \/ Ask(r) \/ Deliver(r) PROVE Quiet'
  BY <1>2, <1>7 DEF AskRefused, Ask, Deliver, Ends, Idle, ui, Accounts
<1>8. ASSUME NEW r \in Requests, Tick(r) PROVE Quiet'
  BY <1>2, <1>8
     DEF Tick, TickLost, TickHeld, TickWaits, TickOverdue, StartRespawn, Ends, Idle, ui, Accounts
<1> QED  BY <1>1, <1>3, <1>4, <1>5, <1>6, <1>7, <1>8 DEF Next, Supervise

LEMMA QuietHolds == Spec => []Quiet
<1>1. Init => Quiet
  BY DEF Init, Quiet, Idle
<1> QED  BY <1>1, LineageHolds, AccountsHold, QuietStep, PTL DEF Spec

\* The watchdog replaces an isolate only for a fault of its own: it is dead, or a
\* request sent to it is overdue; anything else is the user's menu item.
THEOREM RespawnIsJustified == Spec => RespawnJustified
<1>1. ASSUME Lineage, Accounts, Quiet, [Next]_vars, gLangGen' # gLangGen PROVE Fault
  <2>1. CASE MenuRestart
    BY <2>1, <1>1, ChannelAssumption DEF MenuRestart, Mishap, Accounts, Fault
  <2>2. ASSUME NEW g \in Gens, ExitNotice(g) PROVE Fault
    BY <1>1, <2>2 DEF ExitNotice, Lineage, ui, Fault
  <2>3. ASSUME NEW r \in Requests, TickOverdue(r) PROVE Fault
    <3>1. killed'[gLangGen] \/ overtaken
      <4>1. Newest \/ Taken
        BY <1>1, <2>3 DEF TickOverdue, StartRespawn, Lineage, Launch, Quiet
      <4> QED  BY <1>1, <2>3, <4>1 DEF TickOverdue, StartRespawn, Lineage, Newest, Taken
    <3>2. ask'[r].st = "restarting"
      BY <1>1, <2>3 DEF TickOverdue, Accounts, Idle
    <3> QED  BY <2>3, <3>1, <3>2 DEF TickOverdue, Fault
  <2>4. ASSUME NEW r \in Requests,
               AskRefused(r) \/ Ask(r) \/ Deliver(r) \/ TickLost(r) \/ TickHeld(r) \/ TickWaits(r)
        PROVE  FALSE
    BY <1>1, <2>4 DEF AskRefused, Ask, Deliver, TickLost, TickHeld, TickWaits, ui
  <2>5. CASE Handshake \/ Stop \/ Continue \/ UNCHANGED vars
    BY <1>1, <2>5 DEF Handshake, Stop, Continue, vars, ui
  <2>7. ASSUME NEW g \in Gens, SpawnDone(g) \/ SpawnFails(g) \/ Unheard(g) PROVE FALSE
    BY <1>1, <2>7 DEF SpawnDone, SpawnFails, Unheard, ui
  <2>6. ASSUME NEW g \in Gens, Isolate(g) PROVE FALSE
    BY <1>1, <2>6 DEF Isolate, Serve, Hang, Exit, KillTakesEffect, Dies, ui
  <2> QED
    BY <1>1, <2>1, <2>2, <2>3, <2>4, <2>5, <2>6, <2>7 DEF Next, Supervise, Tick
<1>2. Lineage /\ Accounts /\ Quiet /\ [Next]_vars => [gLangGen' # gLangGen => Fault]_vars
  BY <1>1 DEF vars, ui
<1> QED  BY <1>2, LineageHolds, AccountsHold, QuietHolds, PTL DEF Spec, RespawnJustified

-----------------------------------------------------------------------------
(* The promise of ask() *)

\* r is the i-th message an isolate of generation g has yet to read.
Unread(g, i, r) == i \in 1..Len(inbox[g]) /\ inbox[g][i] = r

\* Where each request is.  It lies unread in one place at most, and then it was
\* sent and has not run; a reply under way is to one that ran.
Ledger ==
    /\ inbox \in [Gens -> Seq(Requests)]
    /\ replies \subseteq Requests
    /\ runs \in [Requests -> {0, 1}]
    /\ \A r \in Requests : \A g, h \in Gens : \A i, j \in Nat :
          Unread(g, i, r) /\ Unread(h, j, r) => g = h /\ i = j
    /\ \A r \in Requests : \A g \in Gens : \A i \in Nat :
          Unread(g, i, r) => runs[r] = 0 /\ ask[r].st \notin {"unsent", "refused", "answered"}
    /\ \A r \in Requests : ask[r].st \in {"unsent", "refused"} => runs[r] = 0
    /\ \A r \in Requests : ask[r].st = "answered" => runs[r] = 1
    /\ \A r \in replies : runs[r] = 1

\* The message at the head of an inbox is unread there; taking it shifts the others.
LEMMA TakeLedger ==
    ASSUME Ledger, NEW g \in Gens, Take(g), UNCHANGED ask,
           replies' \subseteq replies \cup {Head(inbox[g])}
    PROVE  /\ Head(inbox[g]) \in Requests
           /\ Unread(g, 1, Head(inbox[g]))
           /\ Ledger'
<1>0. /\ inbox[g] \in Seq(Requests) /\ inbox[g] # <<>>
      /\ Len(inbox[g]) \in Nat \ {0}
      /\ Head(inbox[g]) = inbox[g][1] /\ Head(inbox[g]) \in Requests
      /\ Tail(inbox[g]) \in Seq(Requests)
      /\ Len(Tail(inbox[g])) = Len(inbox[g]) - 1
      /\ \A i \in 1..(Len(inbox[g]) - 1) : Tail(inbox[g])[i] = inbox[g][i + 1]
  BY HeadTailProperties, EmptySeq, LenProperties DEF Ledger, Take
<1> PICK q \in Requests : q = Head(inbox[g])
  BY <1>0
<1>1. q = inbox[g][1]
  BY <1>0
<1>2. Unread(g, 1, q)
  BY <1>0, <1>1 DEF Unread
<1>3. /\ inbox' = [inbox EXCEPT ![g] = Tail(@)]
      /\ runs' = [runs EXCEPT ![q] = @ + 1]
  BY DEF Take
<1>4. ASSUME NEW r \in Requests, NEW h \in Gens, NEW i \in Nat, Unread(h, i, r)'
      PROVE  i # 0 /\ IF h = g THEN Unread(h, i + 1, r) ELSE Unread(h, i, r)
  <2>1. i \in 1..Len(inbox'[h]) /\ inbox'[h][i] = r
    BY <1>4 DEF Unread
  <2>2. CASE h = g
    <3>1. inbox'[h] = Tail(inbox[g])
      BY <1>3, <2>2 DEF Ledger
    <3> QED  BY <1>0, <1>1, <2>1, <2>2, <3>1 DEF Unread
  <2>3. CASE h # g
    <3>1. inbox'[h] = inbox[h]
      BY <1>3, <2>3 DEF Ledger
    <3> QED  BY <2>1, <2>3, <3>1 DEF Unread
  <2> QED  BY <2>2, <2>3
<1>5. \A h \in Gens, i \in Nat : ~Unread(h, i, q)'
  <2>1. ASSUME NEW h \in Gens, NEW i \in Nat, Unread(h, i, q)' PROVE FALSE
    <3>1. i # 0 /\ IF h = g THEN Unread(h, i + 1, q) ELSE Unread(h, i, q)
      BY <1>0, <1>1, <1>4, <2>1
    <3>2. CASE h = g
      <4>1. i + 1 = 1
        BY <1>0, <1>1, <1>2, <3>1, <3>2 DEF Ledger
      <4> QED  BY <3>1, <4>1
    <3>3. CASE h # g
      BY <1>0, <1>1, <1>2, <3>1, <3>3 DEF Ledger
    <3> QED  BY <3>2, <3>3
  <2> QED  BY <2>1
<1>6. runs[q] = 0 /\ ask[q].st \notin {"unsent", "refused", "answered"}
  BY <1>0, <1>1, <1>2 DEF Ledger
<1>7. /\ runs' \in [Requests -> {0, 1}]
      /\ \A r \in Requests : runs'[r] = IF r = q THEN 1 ELSE runs[r]
  BY <1>0, <1>1, <1>3, <1>6 DEF Ledger
<1>8. inbox' \in [Gens -> Seq(Requests)]
  BY <1>0, <1>1, <1>3 DEF Ledger
<1>9. \A r \in Requests : \A h, k \in Gens : \A i, j \in Nat :
         Unread(h, i, r)' /\ Unread(k, j, r)' => h = k /\ i = j
  <2>1. ASSUME NEW r \in Requests, NEW h \in Gens, NEW k \in Gens, NEW i \in Nat, NEW j \in Nat,
               Unread(h, i, r)', Unread(k, j, r)'
        PROVE  h = k /\ i = j
    <3>1. /\ IF h = g THEN Unread(h, i + 1, r) ELSE Unread(h, i, r)
          /\ IF k = g THEN Unread(k, j + 1, r) ELSE Unread(k, j, r)
      BY <1>4, <2>1
    <3>2. h = k
      <4>1. PICK a, b \in Nat : Unread(h, a, r) /\ Unread(k, b, r)
        BY <3>1
      <4> QED  BY <4>1 DEF Ledger
    <3>3. (h = g => i + 1 = j + 1) /\ (h # g => i = j)
      BY <3>1, <3>2 DEF Ledger
    <3> QED  BY <3>2, <3>3
  <2> QED  BY <2>1
<1>10. \A r \in Requests : \A h \in Gens : \A i \in Nat :
         Unread(h, i, r)' => runs'[r] = 0 /\ ask'[r].st \notin {"unsent", "refused", "answered"}
  <2>1. ASSUME NEW r \in Requests, NEW h \in Gens, NEW i \in Nat, Unread(h, i, r)'
        PROVE  runs'[r] = 0 /\ ask'[r].st \notin {"unsent", "refused", "answered"}
    <3>1. IF h = g THEN Unread(h, i + 1, r) ELSE Unread(h, i, r)
      BY <1>4, <2>1
    <3>2. runs[r] = 0 /\ ask[r].st \notin {"unsent", "refused", "answered"}
      BY <3>1 DEF Ledger
    <3>3. r # q
      BY <1>5, <2>1 DEF Unread
    <3> QED  BY <1>7, <3>2, <3>3
  <2> QED  BY <2>1
<1> QED  BY <1>0, <1>1, <1>2, <1>6, <1>7, <1>8, <1>9, <1>10 DEF Ledger

\* Requests that end, and messages that are lost, disturb no account of the others.
LEMMA LedgerFrame ==
    ASSUME Ledger, UNCHANGED runs, replies' \subseteq replies,
           inbox' \in [Gens -> Seq(Requests)],
           \A r \in Requests : \A g \in Gens : \A i \in Nat : Unread(g, i, r)' => Unread(g, i, r),
           \A r \in Requests : \/ ask'[r].st = ask[r].st
                               \/ /\ ask[r].st \notin {"unsent", "refused", "answered"}
                                  /\ ask'[r].st \notin {"unsent", "refused", "answered"}
                               \/ ask[r].st = "unsent" /\ ask'[r].st = "refused"
                               \/ r \in replies /\ ask'[r].st = "answered"
    PROVE  Ledger'
<1>1. \A r \in Requests : \A g \in Gens : \A i \in Nat : Unread(g, i, r) => r \notin replies
  BY DEF Ledger
<1>2. \A r \in Requests : \A g, h \in Gens : \A i, j \in Nat :
         Unread(g, i, r)' /\ Unread(h, j, r)' => g = h /\ i = j
  BY DEF Ledger
<1>3. \A r \in Requests : \A g \in Gens : \A i \in Nat :
         Unread(g, i, r)' => runs'[r] = 0 /\ ask'[r].st \notin {"unsent", "refused", "answered"}
  BY <1>1 DEF Ledger
<1>4. /\ \A r \in Requests : ask'[r].st \in {"unsent", "refused"} => runs'[r] = 0
      /\ \A r \in Requests : ask'[r].st = "answered" => runs'[r] = 1
      /\ \A r \in replies' : runs'[r] = 1
      /\ replies' \subseteq Requests /\ runs' \in [Requests -> {0, 1}]
  BY DEF Ledger
<1> QED  BY <1>2, <1>3, <1>4 DEF Ledger

\* Ledger is inductive.
LEMMA LedgerStep ==
    ASSUME Lineage, Accounts, Ledger, [Next]_vars
    PROVE  Ledger'
<1> USE DEF Unread
<1>1. CASE MenuRestart \/ Stop \/ Continue \/ UNCHANGED vars
  <2>1. UNCHANGED <<ask, inbox, replies, runs>>
    BY <1>1 DEF MenuRestart, StartRespawn, Stop, Continue, vars, procs
  <2> QED  BY <2>1, LedgerFrame DEF Ledger
<1>11. ASSUME NEW g \in Gens, SpawnDone(g) \/ Unheard(g) PROVE Ledger'
  <2>1. UNCHANGED <<ask, inbox, replies, runs>>
    BY <1>11 DEF SpawnDone, Unheard
  <2> QED  BY <2>1, LedgerFrame DEF Ledger
<1>2. CASE Handshake \/ \E g \in Gens : SpawnFails(g)
  <2>1. UNCHANGED <<inbox, replies, runs>>
    BY <1>2 DEF SpawnFails, Handshake
  <2>2. \A r \in Requests : \/ ask'[r] = ask[r]
                            \/ /\ ask[r].st = "restarting"
                               /\ ask'[r].st \in {"failed", "timedOut"}
    BY <1>2 DEF SpawnFails, Handshake, EndRestarting, Idle, Accounts
  <2> QED  BY <2>1, <2>2, LedgerFrame DEF Ledger
<1>3. ASSUME NEW g \in Gens, ExitNotice(g) PROVE Ledger'
  <2>1. UNCHANGED <<ask, inbox, replies, runs>>
    BY <1>3 DEF ExitNotice, StartRespawn, procs
  <2> QED  BY <2>1, LedgerFrame DEF Ledger
<1>4. ASSUME NEW r \in Requests, AskRefused(r) PROVE Ledger'
  <2>1. UNCHANGED <<inbox, replies, runs>>
    BY <1>4 DEF AskRefused, procs
  <2>2. \A p \in Requests : \/ ask'[p] = ask[p]
                            \/ ask[p].st = "unsent" /\ ask'[p].st = "refused"
    BY <1>4 DEF AskRefused, Idle, Accounts
  <2> QED  BY <2>1, <2>2, LedgerFrame DEF Ledger
<1>5. ASSUME NEW r \in Requests, Ask(r) PROVE Ledger'
  <2>1. /\ gLang \in Gens /\ inbox[gLang] \in Seq(Requests)
        /\ inbox' = [inbox EXCEPT ![gLang] = Append(@, r)]
        /\ ask[r].st = "unsent" /\ ask'[r].st = "waiting"
        /\ \A p \in Requests \ {r} : ask'[p] = ask[p]
        /\ UNCHANGED <<replies, runs>>
    BY <1>5 DEF Ask, Lineage, Ledger, Accounts, None
  <2>2. /\ Append(inbox[gLang], r) \in Seq(Requests)
        /\ Len(Append(inbox[gLang], r)) = Len(inbox[gLang]) + 1
        /\ \A i \in 1..Len(inbox[gLang]) : Append(inbox[gLang], r)[i] = inbox[gLang][i]
        /\ Append(inbox[gLang], r)[Len(inbox[gLang]) + 1] = r
        /\ Len(inbox[gLang]) \in Nat
    BY <2>1, AppendProperties, LenProperties
  <2>3. inbox' \in [Gens -> Seq(Requests)]
    BY <2>1, <2>2 DEF Ledger
  <2>4. \A p \in Requests : \A g \in Gens : \A i \in Nat :
           Unread(g, i, p)' => \/ Unread(g, i, p)
                               \/ p = r /\ g = gLang /\ i = Len(inbox[gLang]) + 1
    BY <2>1, <2>2 DEF Ledger
  <2>5. runs[r] = 0 /\ \A g \in Gens : \A i \in Nat : ~Unread(g, i, r)
    BY <2>1 DEF Ledger
  <2>6. \A p \in Requests : \A g, h \in Gens : \A i, j \in Nat :
           Unread(g, i, p)' /\ Unread(h, j, p)' => g = h /\ i = j
    BY <2>4, <2>5 DEF Ledger
  <2>7. \A p \in Requests : \A g \in Gens : \A i \in Nat :
           Unread(g, i, p)' => runs'[p] = 0 /\ ask'[p].st \notin {"unsent", "refused", "answered"}
    BY <2>1, <2>4, <2>5 DEF Ledger
  <2>8. /\ \A p \in Requests : ask'[p].st \in {"unsent", "refused"} => runs'[p] = 0
        /\ \A p \in Requests : ask'[p].st = "answered" => runs'[p] = 1
    BY <2>1 DEF Ledger
  <2> QED  BY <2>1, <2>3, <2>6, <2>7, <2>8 DEF Ledger
<1>6. ASSUME NEW r \in Requests, Deliver(r) PROVE Ledger'
  <2>1. UNCHANGED <<inbox, runs>> /\ replies' = replies \ {r} /\ r \in replies
    BY <1>6 DEF Deliver, procs
  <2>2. \A p \in Requests : \/ ask'[p] = ask[p]
                            \/ p \in replies /\ ask'[p].st = "answered"
    BY <1>6 DEF Deliver, Ends, Idle, Accounts
  <2> QED  BY <2>1, <2>2, LedgerFrame DEF Ledger
<1>7. ASSUME NEW r \in Requests, Tick(r) PROVE Ledger'
  <2>1. UNCHANGED <<inbox, runs, replies>>
    BY <1>7 DEF Tick, TickLost, TickHeld, TickWaits, TickOverdue, StartRespawn, procs
  <2>2. \A p \in Requests : \/ ask'[p].st = ask[p].st
                            \/ ask[p].st = "waiting" /\ ask'[p].st \in {"lost", "restarting"}
    BY <1>7 DEF Tick, TickLost, TickHeld, TickWaits, TickOverdue, Ends, Idle, Accounts
  <2> QED  BY <2>1, <2>2, LedgerFrame DEF Ledger
<1>8. ASSUME NEW g \in Gens, Serve(g) PROVE Ledger'
  BY <1>8, TakeLedger DEF Serve
<1>9. ASSUME NEW g \in Gens, Hang(g) PROVE Ledger'
  <2>1. CASE Take(g)
    BY <1>9, <2>1, TakeLedger DEF Hang
  <2>2. CASE UNCHANGED <<inbox, runs>>
    BY <1>9, <2>2, LedgerFrame DEF Hang, Ledger
  <2> QED  BY <1>9, <2>1, <2>2 DEF Hang
<1>10. ASSUME NEW g \in Gens, Exit(g) \/ KillTakesEffect(g) PROVE Ledger'
  <2>1. UNCHANGED <<ask, runs, replies>> /\ inbox' = [inbox EXCEPT ![g] = <<>>]
    BY <1>10 DEF Exit, KillTakesEffect, Dies
  <2>2. inbox' \in [Gens -> Seq(Requests)]
    BY <2>1, EmptySeq DEF Ledger
  <2>3. \A p \in Requests : \A h \in Gens : \A i \in Nat : Unread(h, i, p)' => Unread(h, i, p)
    BY <2>1, EmptySeq DEF Ledger
  <2> QED  BY <2>1, <2>2, <2>3, LedgerFrame
<1> QED
  BY <1>1, <1>2, <1>3, <1>4, <1>5, <1>6, <1>7, <1>8, <1>9, <1>10, <1>11 DEF Next, Supervise, Isolate

\* Ledger holds in every state.
LEMMA LedgerHolds == Spec => []Ledger
<1>1. ASSUME Init PROVE Ledger
  <2>1. /\ inbox = [g \in Gens |-> <<>>] /\ replies = {}
        /\ runs = [r \in Requests |-> 0]
        /\ \A r \in Requests : ask[r].st = "unsent"
    BY <1>1 DEF Init, Idle
  <2>2. \A g \in Gens, i \in Nat, r \in Requests : ~Unread(g, i, r)
    BY <2>1, EmptySeq DEF Unread
  <2>3. inbox \in [Gens -> Seq(Requests)]
    BY <2>1, EmptySeq
  <2> QED  BY <2>1, <2>2, <2>3 DEF Ledger
<1> QED  BY <1>1, LineageHolds, AccountsHold, LedgerStep, PTL DEF Spec

\* Type correctness, from the three invariants.
THEOREM TypeCorrect == Spec => []TypeOK
<1>1. ASSUME Lineage, Accounts, Ledger PROVE TypeOK
  <2>1. gLang \in Gens \cup {None} /\ exits \subseteq Gens
    BY <1>1 DEF Lineage
  <2>2. gAskPending \in Nat
    BY <1>1, FlightFinite DEF Accounts
  <2>3. runs \in [Requests -> Nat]
    BY <1>1 DEF Ledger
  <2> QED  BY <1>1, <2>1, <2>2, <2>3 DEF Lineage, ProcState, Accounts, Ledger, TypeOK
<1> QED  BY <1>1, LineageHolds, AccountsHold, LedgerHolds, PTL

\* What the states of a request mean to its caller.
LEMMA OutcomeCases ==
    /\ \A st \in {"waiting", "restarting"} : OutcomeOf(st) = "pending"
    /\ \A st \in {"lost", "timedOut", "failed"} : OutcomeOf(st) = "gaveUp"
    /\ \A st \in {"unsent", "refused", "answered"} : OutcomeOf(st) = st
BY DEF OutcomeOf

\* ask() keeps its promise: a request that is answered ran exactly once, one that was
\* refused never, and one given up at most once, whatever kills, restarts and late
\* replies do in between.
THEOREM AskKeepsPromise == Spec => KeepsPromise
<1> DEFINE outcome == [r \in Requests |-> OutcomeOf(ask[r].st)]
<1>1. ASSUME Init PROVE Promise!Init
  <2>1. \A r \in Requests : ask[r].st = "unsent"
    BY <1>1 DEF Init, Idle
  <2> QED  BY <1>1, <2>1, OutcomeCases DEF Init, Promise!Init
<1>2. ASSUME Lineage, Accounts, Ledger, [Next]_vars
      PROVE  [Promise!Next]_<<outcome, runs>>
  <2>0. ASSUME UNCHANGED runs, \A p \in Requests : OutcomeOf(ask'[p].st) = OutcomeOf(ask[p].st)
        PROVE  UNCHANGED <<outcome, runs>>
    BY <2>0
  <2>1. CASE MenuRestart \/ Stop \/ Continue \/ UNCHANGED vars
    BY <2>1 DEF MenuRestart, StartRespawn, Stop, Continue, vars
  <2>14. ASSUME NEW g \in Gens, SpawnDone(g) \/ Unheard(g) PROVE UNCHANGED <<outcome, runs>>
    BY <2>14 DEF SpawnDone, Unheard
  <2>2. CASE Handshake \/ \E g \in Gens : SpawnFails(g)
    <3>1. \A r \in Requests : IF r \in Restarting
                              THEN ask'[r].st \in {"failed", "timedOut"} ELSE ask'[r] = ask[r]
      BY <1>2, <2>2 DEF SpawnFails, Handshake, EndRestarting, Restarting, Idle, Accounts
    <3>2. Restarting \in SUBSET {r \in Requests : outcome[r] = "pending"}
      BY OutcomeCases DEF Restarting
    <3>3. outcome' = [r \in Requests |-> IF r \in Restarting THEN "gaveUp" ELSE outcome[r]]
      BY <3>1, OutcomeCases
    <3> QED  BY <2>2, <3>2, <3>3 DEF SpawnFails, Handshake, Promise!Next, Promise!GiveUp
  <2>3. ASSUME NEW g \in Gens, ExitNotice(g) PROVE UNCHANGED <<outcome, runs>>
    BY <2>3 DEF ExitNotice
  <2>4. ASSUME NEW r \in Requests, NEW from, NEW to,
               ask[r].st = from, ask'[r].st = to,
               \A p \in Requests \ {r} : ask'[p] = ask[p]
        PROVE  /\ outcome' = [outcome EXCEPT ![r] = OutcomeOf(to)]
               /\ outcome[r] = OutcomeOf(from)
    BY <2>4
  <2>5. ASSUME NEW r \in Requests, AskRefused(r) PROVE Promise!Refuse(r)
    <3>1. /\ ask[r].st = "unsent" /\ ask'[r].st = "refused"
          /\ \A p \in Requests \ {r} : ask'[p] = ask[p]
      BY <1>2, <2>5 DEF AskRefused, Idle, Accounts
    <3> QED  BY <2>4, <2>5, <3>1, OutcomeCases DEF AskRefused, Promise!Refuse, Promise!Settle
  <2>6. ASSUME NEW r \in Requests, Ask(r) PROVE Promise!Send(r)
    <3>1. /\ ask[r].st = "unsent" /\ ask'[r].st = "waiting"
          /\ \A p \in Requests \ {r} : ask'[p] = ask[p]
      BY <1>2, <2>6 DEF Ask, Accounts
    <3> QED  BY <2>4, <2>6, <3>1, OutcomeCases DEF Ask, Promise!Send, Promise!Settle
  <2>7. ASSUME NEW r \in Requests, Deliver(r)
        PROVE  Promise!Answer(r) \/ UNCHANGED <<outcome, runs>>
    <3>1. CASE ask[r].st = "waiting"
      <4>1. /\ ask'[r].st = "answered"
            /\ \A p \in Requests \ {r} : ask'[p] = ask[p]
        BY <1>2, <2>7, <3>1 DEF Deliver, Ends, Idle, Accounts
      <4>2. runs[r] = 1 /\ UNCHANGED runs
        BY <1>2, <2>7 DEF Deliver, Ledger
      <4> QED  BY <2>4, <3>1, <4>1, <4>2, OutcomeCases DEF Promise!Answer, Promise!Settle
    <3>2. CASE ask[r].st # "waiting"
      BY <2>7, <3>2 DEF Deliver
    <3> QED  BY <3>1, <3>2
  <2>8. ASSUME NEW r \in Requests, TickLost(r) PROVE Promise!GiveUp
    <3>1. /\ ask[r].st = "waiting" /\ ask'[r].st = "lost"
          /\ \A p \in Requests \ {r} : ask'[p] = ask[p]
      BY <1>2, <2>8 DEF TickLost, Ends, Idle, Accounts
    <3>2. outcome' = [p \in Requests |-> IF p \in {r} THEN "gaveUp" ELSE outcome[p]]
      BY <3>1, OutcomeCases
    <3>3. {r} \in SUBSET {p \in Requests : outcome[p] = "pending"}
      BY <3>1, OutcomeCases
    <3> QED  BY <2>8, <3>2, <3>3 DEF TickLost, Promise!GiveUp
  <2>9. ASSUME NEW r \in Requests, TickHeld(r) \/ TickWaits(r) \/ TickOverdue(r)
        PROVE  UNCHANGED <<outcome, runs>>
    <3>1. \A p \in Requests : \/ ask'[p].st = ask[p].st
                              \/ ask[p].st = "waiting" /\ ask'[p].st = "restarting"
      BY <1>2, <2>9 DEF TickHeld, TickWaits, TickOverdue, Idle, Accounts
    <3> QED  BY <2>0, <2>9, <3>1, OutcomeCases DEF TickHeld, TickWaits, TickOverdue
  <2>10. ASSUME NEW g \in Gens, Take(g), UNCHANGED ask, replies' \subseteq replies \cup {Head(inbox[g])}
        PROVE  Promise!Run(Head(inbox[g])) /\ Head(inbox[g]) \in Requests
    <3> DEFINE q == Head(inbox[g])
    <3>1. q \in Requests /\ Unread(g, 1, q)
      BY <1>2, <2>10, TakeLedger
    <3>2. runs[q] = 0 /\ ask[q].st \in {"waiting", "restarting", "lost", "timedOut", "failed"}
      BY <1>2, <3>1 DEF Ledger, Accounts, AskState
    <3>3. outcome[q] \in {"pending", "gaveUp"}
      BY <3>1, <3>2, OutcomeCases
    <3>4. runs' = [runs EXCEPT ![q] = 1]
      BY <1>2, <2>10, <3>1, <3>2 DEF Take, Ledger
    <3> QED  BY <2>10, <3>1, <3>2, <3>3, <3>4 DEF Promise!Run
  <2>11. ASSUME NEW g \in Gens, Serve(g) PROVE Promise!Run(Head(inbox[g])) /\ Head(inbox[g]) \in Requests
    BY <2>10, <2>11 DEF Serve
  <2>12. ASSUME NEW g \in Gens, Hang(g)
         PROVE  \/ Promise!Run(Head(inbox[g])) /\ Head(inbox[g]) \in Requests
                \/ UNCHANGED <<outcome, runs>>
    BY <2>10, <2>12 DEF Hang
  <2>13. ASSUME NEW g \in Gens, Exit(g) \/ KillTakesEffect(g) PROVE UNCHANGED <<outcome, runs>>
    BY <2>13 DEF Exit, KillTakesEffect, Dies
  <2> HIDE DEF outcome
  <2> QED
    BY <2>1, <2>2, <2>3, <2>5, <2>6, <2>7, <2>8, <2>9, <2>11, <2>12, <2>13, <2>14, <1>2
       DEF Next, Supervise, Isolate, Tick, Promise!Next
<1> QED
  BY <1>1, <1>2, LineageHolds, AccountsHold, LedgerHolds, PTL DEF Spec, KeepsPromise, Promise!Spec

=============================================================================
