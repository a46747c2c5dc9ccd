------------------------------ MODULE Channel ------------------------------
(***************************************************************************)
(* The request channel between the UI isolate and the language isolate,    *)
(* with the watchdog that replaces a language isolate that does not answer.*)
(*                                                                         *)
(* UI isolate: ask() sends a request on gLang and polls a periodic tick;   *)
(* the tick ends the request when the isolate was replaced under it, and   *)
(* replaces the isolate when the request is overdue.  respawnLanguage()    *)
(* kills the isolate it holds and spawns the next generation.              *)
(* Language isolates: one per generation, each with a FIFO inbox; one may  *)
(* run user code that never returns, or end by itself.  A kill is a        *)
(* message: the isolate runs on until it takes effect.                     *)
(*                                                                         *)
(* The launch spawns the first isolate outside respawnLanguage(), with the *)
(* menu already there: a restart may overtake it.                          *)
(*                                                                         *)
(* One action per message or timer callback of the UI isolate (with the    *)
(* microtasks it starts) and per message of a language isolate.            *)
(*                                                                         *)
(* Source: src/macdart/cocoa/workspace/workspace.dart 1376-1618 and main() *)
(* (4823-4860), and the loop of language.dart 43-88.                       *)
(***************************************************************************)
EXTENDS Naturals, Sequences, FiniteSets

CONSTANTS
    Requests,     \* the calls of ask(), each made once
    Timeout,      \* ticks before a request is overdue (_kDoitTimeout)
    MaxMishaps,   \* bound on hangs, exits, failed spawns and menu restarts
    MaxGens       \* bound on generations of the language isolate

ASSUME ChannelAssumption ==
    /\ IsFiniteSet(Requests)
    /\ Timeout \in Nat /\ MaxMishaps \in Nat
    /\ MaxGens \in Nat \ {0}

Gens == 1..MaxGens
None == 0         \* null, for a reference to an isolate

VARIABLES
    (* UI isolate *)
    gLang,        \* the generation whose port requests are sent to, or None
    gLangGen,     \* the newest generation
    gLangIsolate, \* the generation respawnLanguage() would kill
    gRespawning,
    gAskPending,
    stopped,      \* the debugger holds the language isolate stopped
    ready,        \* main() has got past its own spawn (wsUiReady)
    ask,          \* state of each request
    (* language isolates and the messages under way *)
    proc, inbox, killed,
    replies,      \* requests whose reply is on its way to the UI
    exits,        \* generations whose exit notice is on its way
    mishaps,      \* number of mishaps so far
    (* observation only: no action reads them *)
    runs,         \* how often each request was run
    overtaken     \* a respawn began while the first spawn was under way

ui     == <<gLang, gLangGen, gLangIsolate, gRespawning, stopped, ready, overtaken>>
procs  == <<proc, inbox, killed>>
vars   == <<ui, gAskPending, ask, procs, replies, exits, mishaps, runs>>

AskState == {"unsent", "waiting", "restarting", "refused", "answered", "lost", "timedOut", "failed"}
\* The deadline and the generation are locals of _ask(): gone when it has returned.
Idle(st) == [st |-> st, gen |-> None, elapsed |-> 0]
InFlight(r) == ask[r].st \in {"waiting", "restarting"}

TypeOK ==
    /\ gLang \in Gens \cup {None} /\ gLangGen \in Gens /\ gLangIsolate \in Gens \cup {None}
    /\ gRespawning \in BOOLEAN /\ stopped \in BOOLEAN
    /\ ready \in BOOLEAN /\ overtaken \in BOOLEAN
    /\ gAskPending \in Nat
    /\ ask \in [Requests -> [st : AskState, gen : Gens \cup {None}, elapsed : 0..Timeout]]
    /\ proc \in [Gens -> {"none", "spawning", "failed", "booting", "running", "hung", "dead"}]
    /\ inbox \in [Gens -> Seq(Requests)]
    /\ killed \in [Gens -> BOOLEAN]
    /\ replies \subseteq Requests /\ exits \subseteq Gens
    /\ mishaps \in 0..MaxMishaps
    /\ runs \in [Requests -> Nat]

\* main() awaits the spawn of the first isolate; gRespawning is not set.
Init ==
    /\ gLang = None /\ gLangGen = 1 /\ gLangIsolate = None
    /\ gRespawning = FALSE /\ stopped = FALSE
    /\ ready = FALSE /\ overtaken = FALSE
    /\ gAskPending = 0
    /\ ask = [r \in Requests |-> Idle("unsent")]
    /\ proc = [g \in Gens |-> IF g = 1 THEN "spawning" ELSE "none"]
    /\ inbox = [g \in Gens |-> <<>>]
    /\ killed = [g \in Gens |-> FALSE]
    /\ replies = {} /\ exits = {}
    /\ mishaps = 0
    /\ runs = [r \in Requests |-> 0]

Mishap ==
    /\ mishaps < MaxMishaps
    /\ mishaps' = mishaps + 1

-----------------------------------------------------------------------------
(* UI isolate: replacing the language isolate                              *)

\* Mutant: no check of gRespawning.
StartRespawnTwice ==
    /\ gLangGen < MaxGens
    /\ gRespawning' = TRUE
    /\ gLang' = None
    /\ stopped' = FALSE
    /\ killed' = [g \in Gens |-> killed[g] \/ g = gLangIsolate]
    /\ overtaken' = (overtaken \/ gLangIsolate = None)
    /\ gLangGen' = gLangGen + 1
    /\ proc' = [proc EXCEPT ![gLangGen + 1] = "spawning"]
    /\ UNCHANGED <<gLangIsolate, ready, inbox>>

\* Mutant: hand the unread requests to the next generation.
StartRespawnRequeues ==
    /\ ~gRespawning
    /\ gLangGen < MaxGens
    /\ gRespawning' = TRUE
    /\ gLang' = None
    /\ stopped' = FALSE
    /\ killed' = [g \in Gens |-> killed[g] \/ g = gLangIsolate]
    /\ overtaken' = (overtaken \/ gLangIsolate = None)
    /\ gLangGen' = gLangGen + 1
    /\ proc' = [proc EXCEPT ![gLangGen + 1] = "spawning"]
    /\ inbox' = [inbox EXCEPT ![gLangGen + 1] = inbox[gLangGen]]
    /\ UNCHANGED <<gLangIsolate, ready>>

\* The part of respawnLanguage() up to the await of spawnUri: kill what
\* gLangIsolate refers to, if anything, forget a pause, open the next generation.
StartRespawn ==
    /\ ~gRespawning
    /\ gLangGen < MaxGens
    /\ gRespawning' = TRUE
    /\ gLang' = None
    /\ stopped' = FALSE
    /\ killed' = [g \in Gens |-> killed[g] \/ g = gLangIsolate]
    /\ overtaken' = (overtaken \/ gLangIsolate = None)
    /\ gLangGen' = gLangGen + 1
    /\ proc' = [proc EXCEPT ![gLangGen + 1] = "spawning"]
    /\ UNCHANGED <<gLangIsolate, ready, inbox>>

\* The caller that waits in respawnLanguage() goes on: its await returns or throws.
EndRestarting(to) ==
    /\ ask' = [r \in Requests |-> IF ask[r].st = "restarting"
                                  THEN Idle(to) ELSE ask[r]]
    /\ gAskPending' = gAskPending - Cardinality({r \in Requests : ask[r].st = "restarting"})

\* An await of spawnUri ends.  Normally the newest generation's; that of the launch,
\* when it was overtaken, may end at any time and then takes gLangIsolate for itself.
SpawnDone(g) ==
    /\ proc[g] = "spawning"
    /\ proc' = [proc EXCEPT ![g] = "booting"]
    /\ gLangIsolate' = g
    /\ UNCHANGED <<gLang, gLangGen, gRespawning, stopped, ready, overtaken, gAskPending, ask,
                   inbox, killed, replies, exits, mishaps, runs>>

\* spawnUri completes with an error: nothing catches it, gRespawning stays set.
\* Before wsUiReady() the host ends the program instead, which ends this model too.
SpawnFails(g) ==
    /\ ready
    /\ proc[g] = "spawning"
    /\ Mishap
    /\ proc' = [proc EXCEPT ![g] = "failed"]
    /\ EndRestarting("failed")
    /\ UNCHANGED <<ui, inbox, killed, replies, exits, runs>>

\* The newest isolate has loaded the image and sent its port: respawnLanguage() ends,
\* or main() goes on.
Handshake ==
    /\ proc[gLangGen] = "booting"
    /\ proc' = [proc EXCEPT ![gLangGen] = "running"]
    /\ gLang' = gLangGen
    /\ gRespawning' = FALSE
    /\ ready' = (ready \/ gLangGen = 1)
    /\ EndRestarting("timedOut")
    /\ UNCHANGED <<gLangGen, gLangIsolate, stopped, overtaken, inbox, killed, replies, exits,
                   mishaps, runs>>

\* An older isolate sends its port to a ReceivePort that the next spawn has closed:
\* no one hears it, and the await in main() never ends.
Unheard(g) ==
    /\ proc[g] = "booting" /\ g # gLangGen
    /\ proc' = [proc EXCEPT ![g] = "running"]
    /\ UNCHANGED <<ui, gAskPending, ask, inbox, killed, replies, exits, mishaps, runs>>

\* Mutant: the listener remembers the generation before the increment.
ExitNoticeOffByOne(g) ==
    /\ g \in exits
    /\ ~(g + 1 = gLangGen /\ gRespawning)
    /\ exits' = exits \ {g}
    /\ IF g + 1 = gLangGen THEN StartRespawn ELSE UNCHANGED <<ui, procs>>
    /\ UNCHANGED <<gAskPending, ask, replies, mishaps, runs>>

\* The exit listener is installed after the handshake; it ignores an isolate that
\* has been replaced or is being replaced.
ExitNotice(g) ==
    /\ g \in exits
    /\ ~(g = gLangGen /\ gRespawning)
    /\ exits' = exits \ {g}
    /\ IF g = gLangGen THEN StartRespawn ELSE UNCHANGED <<ui, procs>>
    /\ UNCHANGED <<gAskPending, ask, replies, mishaps, runs>>

\* Debug menu, "Restart Language Isolate".
MenuRestart ==
    /\ Mishap
    /\ StartRespawn
    /\ UNCHANGED <<gAskPending, ask, replies, exits, runs>>

-----------------------------------------------------------------------------
(* UI isolate: requests                                                    *)

AskRefused(r) ==
    /\ ask[r].st = "unsent"
    /\ gLang = None \/ stopped
    /\ ask' = [ask EXCEPT ![r] = Idle("refused")]
    /\ UNCHANGED <<ui, gAskPending, procs, replies, exits, mishaps, runs>>

Ask(r) ==
    /\ ask[r].st = "unsent"
    /\ gLang # None /\ ~stopped
    /\ ask' = [ask EXCEPT ![r] = [st |-> "waiting", gen |-> gLangGen, elapsed |-> 0]]
    /\ gAskPending' = gAskPending + 1
    /\ inbox' = [inbox EXCEPT ![gLang] = Append(@, r)]
    /\ UNCHANGED <<ui, proc, killed, replies, exits, mishaps, runs>>

\* Mutant: the decrement is not in a finally.
EndsUncounted(r, to) ==
    /\ ask' = [ask EXCEPT ![r] = Idle(to)]
    /\ UNCHANGED gAskPending

Ends(r, to) ==
    /\ ask' = [ask EXCEPT ![r] = Idle(to)]
    /\ gAskPending' = gAskPending - 1

Deliver(r) ==
    /\ r \in replies
    /\ replies' = replies \ {r}
    /\ IF ask[r].st = "waiting" THEN Ends(r, "answered") ELSE UNCHANGED <<ask, gAskPending>>
    /\ UNCHANGED <<ui, procs, exits, mishaps, runs>>

(* the periodic tick of a request that waits *)

Overdue(r) == ask[r].elapsed = Timeout

\* Mutant: leave a request whose isolate was replaced to its reply.
TickLostIgnored(r) ==
    /\ ask[r].st = "waiting"
    /\ ask[r].gen # gLangGen
    /\ UNCHANGED vars

TickLost(r) ==
    /\ ask[r].st = "waiting"
    /\ ask[r].gen # gLangGen
    /\ Ends(r, "lost")
    /\ UNCHANGED <<ui, procs, replies, exits, mishaps, runs>>

TickHeld(r) ==
    /\ ask[r].st = "waiting" /\ ask[r].gen = gLangGen
    /\ stopped
    /\ ask[r].elapsed # 0
    /\ ask' = [ask EXCEPT ![r].elapsed = 0]
    /\ UNCHANGED <<ui, gAskPending, procs, replies, exits, mishaps, runs>>

TickWaits(r) ==
    /\ ask[r].st = "waiting" /\ ask[r].gen = gLangGen
    /\ ~stopped /\ ~Overdue(r)
    /\ ask' = [ask EXCEPT ![r].elapsed = @ + 1]
    /\ UNCHANGED <<ui, gAskPending, procs, replies, exits, mishaps, runs>>

\* Mutant: no check of the generation the request was sent to.
TickOverdueAnyGen(r) ==
    /\ ask[r].st = "waiting"
    /\ ~stopped /\ Overdue(r)
    /\ StartRespawn
    /\ ask' = [ask EXCEPT ![r] = Idle("restarting")]
    /\ UNCHANGED <<gAskPending, replies, exits, mishaps, runs>>

TickOverdue(r) ==
    /\ ask[r].st = "waiting" /\ ask[r].gen = gLangGen
    /\ ~stopped /\ Overdue(r)
    /\ StartRespawn
    /\ ask' = [ask EXCEPT ![r] = Idle("restarting")]
    /\ UNCHANGED <<gAskPending, replies, exits, mishaps, runs>>

Tick(r) == TickLost(r) \/ TickHeld(r) \/ TickWaits(r) \/ TickOverdue(r)

\* The debugger stops the isolate at a breakpoint, and continues it.
Stop ==
    /\ gLang # None /\ ~stopped
    /\ proc[gLang] \in {"running", "hung"}
    /\ stopped' = TRUE
    /\ UNCHANGED <<gLang, gLangGen, gLangIsolate, gRespawning, ready, overtaken, gAskPending, ask,
                   procs, replies, exits, mishaps, runs>>

Continue ==
    /\ stopped
    /\ stopped' = FALSE
    /\ UNCHANGED <<gLang, gLangGen, gLangIsolate, gRespawning, ready, overtaken, gAskPending, ask,
                   procs, replies, exits, mishaps, runs>>

-----------------------------------------------------------------------------
(* Language isolates                                                       *)

Runs(g) == proc[g] = "running" /\ ~(stopped /\ g = gLangGen)

Take(g) ==
    /\ inbox[g] # <<>>
    /\ inbox' = [inbox EXCEPT ![g] = Tail(@)]
    /\ runs' = [runs EXCEPT ![Head(inbox[g])] = @ + 1]

Serve(g) ==
    /\ Runs(g)
    /\ Take(g)
    /\ replies' = replies \cup {Head(inbox[g])}
    /\ UNCHANGED <<ui, gAskPending, ask, proc, killed, exits, mishaps>>

\* A request that never returns, or user code on a timer of its own.
Hang(g) ==
    /\ Runs(g)
    /\ Mishap
    /\ Take(g) \/ UNCHANGED <<inbox, runs>>
    /\ proc' = [proc EXCEPT ![g] = "hung"]
    /\ UNCHANGED <<ui, gAskPending, ask, killed, replies, exits>>

\* What it had not read is lost with it.  Its end is listened for after the handshake
\* only (a notice of an isolate no one heard would be ignored as an older one's).
Dies(g) ==
    /\ proc' = [proc EXCEPT ![g] = "dead"]
    /\ inbox' = [inbox EXCEPT ![g] = <<>>]
    /\ exits' = IF proc[g] = "booting" THEN exits ELSE exits \cup {g}
    /\ UNCHANGED <<ui, gAskPending, ask, killed, replies, runs>>

\* The isolate ends by itself, before its handshake or after.
Exit(g) ==
    /\ Runs(g) \/ proc[g] = "booting"
    /\ Mishap
    /\ Dies(g)

KillTakesEffect(g) ==
    /\ killed[g]
    /\ proc[g] \in {"booting", "running", "hung"}
    /\ Dies(g)
    /\ UNCHANGED mishaps

-----------------------------------------------------------------------------
Supervise ==
    \/ Handshake \/ MenuRestart
    \/ \E g \in Gens : SpawnDone(g) \/ SpawnFails(g) \/ Unheard(g) \/ ExitNotice(g)

Isolate(g) == Serve(g) \/ Hang(g) \/ Exit(g) \/ KillTakesEffect(g)

Next ==
    \/ Supervise
    \/ \E r \in Requests : Ask(r) \/ AskRefused(r) \/ Deliver(r) \/ Tick(r)
    \/ Stop \/ Continue
    \/ \E g \in Gens : Isolate(g)

\* Timers and messages of the UI isolate are served, a spawn ends, a kill takes
\* effect, and an isolate that is not hung serves its inbox.  Nothing makes the
\* user ask, restart, stop or continue.
Fairness ==
    /\ WF_vars(Handshake)
    /\ \A g \in Gens : WF_vars(SpawnDone(g)) /\ WF_vars(Unheard(g))
    /\ \A r \in Requests : WF_vars(Tick(r)) /\ WF_vars(Deliver(r))
    /\ \A g \in Gens : WF_vars(ExitNotice(g)) /\ WF_vars(KillTakesEffect(g)) /\ WF_vars(Serve(g))

Spec == Init /\ [][Next]_vars /\ Fairness

-----------------------------------------------------------------------------
(* Properties *)

\* A respawn, or the launch, ended without an isolate: the spawn failed or the isolate
\* died before its handshake.
Stranded == gLang = None /\ proc[gLangGen] \in {"failed", "dead"}

\* The watchdog's kill goes to the isolate that is at fault: unless the user asked
\* for the restart, the generation replaced is dead, or it is the one that a request
\* now overdue was sent to, and that is the one killed, unless the first spawn took
\* gLangIsolate back.  "timing out 6 seconds later
\* would respawn the REPLACEMENT for a crime it didn't commit" (workspace.dart 1479).
Fault ==
    \/ proc[gLangGen] = "dead"
    \/ \E r \in Requests : /\ ask[r].st = "waiting" /\ ask'[r].st = "restarting"
                           /\ ask[r].gen = gLangGen /\ Overdue(r)
                           /\ killed'[gLangGen] \/ overtaken
    \/ mishaps' # mishaps
RespawnJustified == [][gLangGen' # gLangGen => Fault]_vars

\* Isolates besides the newest that live and that nothing has told to die.
Strays == {g \in Gens : /\ proc[g] \in {"spawning", "booting", "running", "hung"}
                        /\ g # gLangGen /\ ~killed[g]}

\* However restarts, exits and timeouts interleave, there is one language isolate,
\* the newest, which no one has told to die and which alone is sent requests - unless
\* a restart overtook the launch: then there may be one more, never two, although
\* respawnLanguage() says "Kill the (possibly hung) language isolate and start a fresh
\* one."
OneLanguageIsolate ==
    /\ ~overtaken => Strays = {}
    /\ \A g, h \in Strays : g = h
    /\ ~killed[gLangGen]
    /\ gLang \in {None, gLangGen}

\* gAskPending, which scripts wait on through `settle`, counts the requests in
\* flight: no way for a request to end leaves it behind.
PendingIsInFlight == gAskPending = Cardinality({r \in Requests : InFlight(r)})

\* Every request ends, even when the isolate hangs, dies or is replaced, unless the
\* debugger stops the isolate or a respawn is stranded.
EveryAskEnds ==
    \A r \in Requests : InFlight(r) ~> (~InFlight(r) \/ stopped \/ Stranded)

\* A language isolate that is gone, because it ended by itself or was killed, is
\* replaced by one that lives, unless the respawn is stranded.
Gone == gLang = None \/ proc[gLang] = "dead"
LanguageComesBack == Gone ~> (~Gone \/ Stranded)

\* Each request ends as AskOnce promises.
OutcomeOf(st) ==
    CASE st \in {"waiting", "restarting"} -> "pending"
      [] st \in {"lost", "timedOut", "failed"} -> "gaveUp"
      [] OTHER -> st

Promise == INSTANCE AskOnce WITH outcome <- [r \in Requests |-> OutcomeOf(ask[r].st)]
KeepsPromise == Promise!Spec

=============================================================================
