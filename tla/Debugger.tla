------------------------------ MODULE Debugger ------------------------------
(***************************************************************************)
(* The debugger's view of a stopped isolate, and what hangs on it.         *)
(*                                                                         *)
(* The UI isolate talks to the VM service over one WebSocket.  Each call   *)
(* is answered; the Debug stream brings Pause and Resume events over the   *)
(* same socket.  From these the UI keeps gDbgPaused, which refuses         *)
(* requests to the stopped isolate, and gDebugHold, which keeps the        *)
(* watchdog from killing it.  A breakpoint may have a condition: it is     *)
(* evaluated after the stop, and a stop whose condition is false is        *)
(* resumed without a trace.                                                *)
(*                                                                         *)
(* The frames of one read are handled in one go; what awaits their replies *)
(* goes on after the last of them, before any other event of the UI.       *)
(*                                                                         *)
(* Source: src/macdart/cocoa/workspace/workspace.dart 2342-3037, with      *)
(* 1394-1404, 1520-1551, 1594-1618 and 1755-1756.  The names below say     *)
(* Debug, as UiProofs extends both this module and UiPump.                 *)
(***************************************************************************)
EXTENDS Naturals, Sequences

CONSTANTS
    MaxStops,     \* bound on the stops at breakpoints
    MaxActs       \* bound on what the user does

ASSUME DebuggerAssumption == MaxStops \in Nat /\ MaxActs \in Nat

Demo == 0         \* an isolate that is not the language isolate

\* What stops the isolate: a breakpoint without a condition, or with one whose value
\* is true, false, or neither (it throws, or is not a bool).
Plain == "plain"
Conditions == {"true", "false", "broken"}

VARIABLES
    (* the language isolate *)
    gen,          \* its generation
    armed,        \* the generation whose breakpoints are armed
    stopped,      \* it is stopped
    stop, hit,    \* the number of the last stop, and what it was at
    booting,      \* a respawn has not finished
    (* the socket *)
    calls, wire,
    (* UI isolate *)
    replies,      \* what goes on once the frames of this read are handled
    target,       \* gLangIsolateId: a generation of the language isolate, or Demo
    gDbgPaused, gDebugHold,
    shown,        \* the last stop shown in the Debug tab
    verb,         \* a socket verb that runs user code (askDeferrable)
    acts,         \* bound: acts of the user and of the driver
    (* notes for the properties; no guard reads them *)
    strayed,      \* the debugger was attached elsewhere
    lent,         \* holds the driver took (dbghold) and has not given back
    robbed,       \* a release took a hold that was another's
    drift         \* "ghost": the pause is one of an isolate that was killed before it was read
                  \* "undone": a pause was lifted while its isolate stood at it

notes     == <<strayed, lent, robbed, drift>>
isolate   == <<gen, armed, stopped, stop, hit, booting>>
view      == <<target, gDbgPaused, gDebugHold, shown>>
debugVars == <<isolate, calls, wire, replies, view, verb, acts, notes>>

gDbgIsLang == target # Demo

Call  == [do : {"resume", "skip", "judge", "getVM"}, to : Nat, stop : Nat]
Frame == [of : {"Pause", "Resume"}, gen : Nat, stop : Nat, hit : Conditions \cup {Plain}]
         \cup [of : {"resumed"}] \cup [of : {"judged"}, stop : Nat, value : Conditions]
         \cup [of : {"vm"}, gen : Nat]

DebugTypeOK ==
    /\ gen \in Nat /\ armed \in 1..gen /\ stopped \in BOOLEAN /\ booting \in BOOLEAN
    /\ stop \in 0..MaxStops /\ hit \in Conditions \cup {Plain}
    /\ calls \in Seq(Call) /\ wire \in Seq(Frame) /\ replies \in Seq(Frame)
    /\ target \in 0..gen
    /\ gDbgPaused \in BOOLEAN /\ gDebugHold \in 0..(MaxActs + 1)
    /\ shown \in 0..stop
    /\ verb \in {"idle", "running", "answered"}
    /\ acts \in 0..MaxActs
    /\ strayed \in BOOLEAN /\ lent \in 0..MaxActs /\ robbed \in BOOLEAN /\ drift \in {"none", "ghost", "undone"}

\* Attached to the language isolate, listening to its Debug stream.
DebugInit ==
    /\ gen = 1 /\ armed = 1 /\ stopped = FALSE /\ stop = 0 /\ hit = Plain /\ booting = FALSE
    /\ calls = <<>> /\ wire = <<>> /\ replies = <<>>
    /\ target = 1 /\ gDbgPaused = FALSE /\ gDebugHold = 0 /\ shown = 0
    /\ verb = "idle"
    /\ acts = 0 /\ strayed = FALSE /\ lent = 0 /\ robbed = FALSE /\ drift = "none"

-----------------------------------------------------------------------------
(* VM service and language isolate *)

\* A new generation has no breakpoints until the debugger follows it.
Hit(h) ==
    /\ ~stopped /\ ~booting /\ armed = gen
    /\ stop < MaxStops
    /\ stopped' = TRUE /\ stop' = stop + 1 /\ hit' = h
    /\ wire' = Append(wire, [of |-> "Pause", gen |-> gen, stop |-> stop', hit |-> h])
    /\ UNCHANGED <<gen, armed, booting, calls, replies, view, verb, acts, notes>>

VerbEnds ==
    /\ verb = "running" /\ ~stopped /\ ~booting
    /\ verb' = "answered"
    /\ UNCHANGED <<isolate, calls, wire, replies, view, acts, notes>>

\* The reply comes before the event.  A call to an isolate that is not stopped, or
\* is gone, is answered with an error, which dbgResume does not look at.
ServeResume ==
    /\ calls # <<>> /\ Head(calls).do \in {"resume", "skip"}
    /\ LET c == Head(calls)
           reply == IF c.do = "resume" THEN <<[of |-> "resumed"]>> ELSE <<>>
       IN  IF c.to = gen /\ stopped
           THEN /\ stopped' = FALSE
                /\ wire' = wire \o reply \o <<[of |-> "Resume", gen |-> gen, stop |-> stop, hit |-> hit]>>
           ELSE /\ wire' = wire \o reply
                /\ UNCHANGED stopped
    /\ calls' = Tail(calls)
    /\ UNCHANGED <<gen, armed, stop, hit, booting, replies, view, verb, acts, notes>>

\* In the frame of another stop the expression may have any value.
ServeJudge ==
    /\ calls # <<>> /\ Head(calls).do = "judge"
    /\ LET c == Head(calls) IN
       \E v \in IF c.to # gen \/ ~stopped THEN {"broken"}
                ELSE IF c.stop = stop THEN {hit} ELSE Conditions :
          wire' = Append(wire, [of |-> "judged", stop |-> c.stop, value |-> v])
    /\ calls' = Tail(calls)
    /\ UNCHANGED <<isolate, replies, view, verb, acts, notes>>

ServeGetVM ==
    /\ calls # <<>> /\ Head(calls).do = "getVM"
    /\ wire' = Append(wire, [of |-> "vm", gen |-> gen])
    /\ calls' = Tail(calls)
    /\ UNCHANGED <<isolate, replies, view, verb, acts, notes>>

Booted ==
    /\ booting
    /\ booting' = FALSE
    /\ calls' = IF gDbgIsLang THEN Append(calls, [do |-> "getVM", to |-> 0, stop |-> 0]) ELSE calls
    /\ UNCHANGED <<gen, armed, stopped, stop, hit, wire, replies, view, verb, acts, notes>>

-----------------------------------------------------------------------------
(* UI isolate *)

\* debugRelease(), never below zero
Release(h) == IF h > 0 THEN h - 1 ELSE 0

\* Mutant: the waiting verb is not told.
SurfaceTripsNoGate(s) ==
    /\ shown' = IF s > shown THEN s ELSE shown
    /\ UNCHANGED verb

\* A stop the user is to see: the socket verb that waits is answered and the stack
\* is shown, as it is by then: a late call never brings an earlier stop back.
Surface(s) ==
    /\ shown' = IF s > shown THEN s ELSE shown
    /\ verb' = IF gDbgIsLang /\ verb = "running" THEN "answered" ELSE verb

ReceivePause ==
    /\ wire # <<>> /\ Head(wire).of = "Pause"
    /\ wire' = Tail(wire)
    /\ LET e == Head(wire) IN
       IF e.gen # target
       THEN UNCHANGED <<calls, view, verb, drift>>
       ELSE /\ gDbgPaused' = TRUE
            /\ drift' = IF e.gen = gen THEN "none" ELSE "ghost"
            /\ gDebugHold' = IF ~gDbgPaused /\ gDbgIsLang THEN gDebugHold + 1 ELSE gDebugHold
            /\ IF e.hit \in Conditions
               THEN /\ calls' = Append(calls, [do |-> "judge", to |-> target, stop |-> e.stop])
                    /\ UNCHANGED <<shown, verb>>
               ELSE /\ Surface(e.stop)
                    /\ UNCHANGED calls
            /\ UNCHANGED target
    /\ UNCHANGED <<isolate, replies, acts, strayed, lent, robbed>>

ReceiveResume ==
    /\ wire # <<>> /\ Head(wire).of = "Resume"
    /\ wire' = Tail(wire)
    /\ IF Head(wire).gen = target /\ gDbgPaused
       THEN /\ gDbgPaused' = FALSE
            /\ gDebugHold' = IF gDbgIsLang THEN Release(gDebugHold) ELSE gDebugHold
       ELSE UNCHANGED <<gDbgPaused, gDebugHold>>
    /\ drift' = IF Head(wire).gen = target THEN "none" ELSE drift
    /\ UNCHANGED <<isolate, calls, replies, target, shown, verb, acts, strayed, lent, robbed>>

ReceiveReply ==
    /\ wire # <<>> /\ Head(wire).of \in {"resumed", "judged", "vm"}
    /\ wire' = Tail(wire)
    /\ replies' = Append(replies, Head(wire))
    /\ UNCHANGED <<isolate, calls, view, verb, acts, notes>>

\* dbgResume after its await
AfterResume ==
    /\ replies # <<>> /\ Head(replies).of = "resumed"
    /\ replies' = Tail(replies)
    /\ gDbgPaused' = FALSE
    /\ gDebugHold' = IF gDbgPaused THEN Release(gDebugHold) ELSE gDebugHold
    /\ drift' = IF gDbgPaused THEN (IF stopped THEN "undone" ELSE "none") ELSE drift
    /\ UNCHANGED <<isolate, calls, wire, target, shown, verb, acts, strayed, lent, robbed>>

\* Mutant: a condition that is false is not resumed.
AfterJudgeFalseStays ==
    /\ replies # <<>> /\ Head(replies).of = "judged" /\ Head(replies).value = "false"
    /\ replies' = Tail(replies)
    /\ gDbgPaused' = FALSE
    /\ gDebugHold' = IF gDbgIsLang THEN Release(gDebugHold) ELSE gDebugHold
    /\ UNCHANGED <<isolate, calls, wire, target, shown, verb, acts, notes>>

\* _dbgMaybeConditionalPause after its await, the condition false: resume silently.
\* The hold goes whether or not Continue or a restart has lifted the pause already.
AfterJudgeFalse ==
    /\ replies # <<>> /\ Head(replies).of = "judged" /\ Head(replies).value = "false"
    /\ replies' = Tail(replies)
    /\ gDbgPaused' = FALSE
    /\ gDebugHold' = IF gDbgIsLang THEN Release(gDebugHold) ELSE gDebugHold
    /\ calls' = Append(calls, [do |-> "skip", to |-> target, stop |-> 0])
    /\ robbed' = (robbed \/ (~gDbgPaused /\ gDbgIsLang /\ gDebugHold > 0))
    /\ drift' = "none"
    /\ UNCHANGED <<isolate, wire, target, shown, verb, acts, strayed, lent>>

\* Mutant: a condition that throws stops without saying so.
AfterJudgeStopsQuietly ==
    /\ replies # <<>> /\ Head(replies).of = "judged" /\ Head(replies).value # "false"
    /\ replies' = Tail(replies)
    /\ IF Head(replies).value = "true" THEN Surface(Head(replies).stop) ELSE UNCHANGED <<shown, verb>>
    /\ UNCHANGED <<isolate, calls, wire, target, gDbgPaused, gDebugHold, acts, notes>>

\* ... true, or neither: a broken condition stops, or it would be a dead breakpoint
AfterJudgeStops ==
    /\ replies # <<>> /\ Head(replies).of = "judged" /\ Head(replies).value # "false"
    /\ replies' = Tail(replies)
    /\ Surface(Head(replies).stop)
    /\ UNCHANGED <<isolate, calls, wire, target, gDbgPaused, gDebugHold, acts, notes>>

\* vmsResolveTarget and dbgReResolve: the debugger follows the language isolate and
\* arms its breakpoints there
AfterGetVM ==
    /\ replies # <<>> /\ Head(replies).of = "vm"
    /\ replies' = Tail(replies)
    /\ target' = Head(replies).gen /\ armed' = target'
    /\ UNCHANGED <<gen, stopped, stop, hit, booting, calls, wire, gDbgPaused, gDebugHold, shown, verb, acts, notes>>

\* The events below are other messages of the UI isolate: they find no reply left.

Act ==
    /\ replies = <<>>
    /\ acts < MaxActs
    /\ acts' = acts + 1

\* The Continue and step buttons, and the verb dbgstep: whether stopped or not.
Continue ==
    /\ Act
    /\ calls' = Append(calls, [do |-> "resume", to |-> target, stop |-> 0])
    /\ UNCHANGED <<isolate, wire, replies, view, verb, notes>>

\* dbgAttach changes what the debugger listens to, and nothing else it knows.
Attach(t) ==
    /\ Act
    /\ t # target
    /\ target' = t
    /\ armed' = IF t = Demo THEN armed ELSE t
    /\ strayed' = TRUE
    /\ UNCHANGED <<gen, stopped, stop, hit, booting, calls, wire, replies, gDbgPaused, gDebugHold, shown, verb>>
    /\ UNCHANGED <<lent, robbed, drift>>

\* The driver's verbs dbghold and dbgrelease work on the same counter.
DriverHold ==
    /\ Act
    /\ gDebugHold' = gDebugHold + 1
    /\ lent' = lent + 1
    /\ UNCHANGED <<isolate, calls, wire, replies, target, gDbgPaused, shown, verb, strayed, robbed, drift>>

DriverRelease ==
    /\ Act
    /\ gDebugHold' = Release(gDebugHold)
    /\ lent' = Release(lent)
    /\ robbed' = (robbed \/ (lent = 0 /\ gDebugHold > 0))
    /\ UNCHANGED <<isolate, calls, wire, replies, target, gDbgPaused, shown, verb, strayed, drift>>

VerbStart ==
    /\ replies = <<>>
    /\ verb = "idle"
    /\ verb' = IF booting \/ (gDbgPaused /\ gDbgIsLang) THEN "answered" ELSE "running"
    /\ UNCHANGED <<isolate, calls, wire, replies, view, acts, notes>>

\* Mutant: forget the pause and keep the hold.
RespawnKeepsHold ==
    /\ ~booting
    /\ booting' = TRUE
    /\ gen' = gen + 1 /\ stopped' = FALSE
    /\ gDbgPaused' = FALSE
    /\ verb' = IF verb = "running" THEN "answered" ELSE verb
    /\ drift' = "none"
    /\ UNCHANGED <<armed, stop, hit, calls, wire, replies, target, gDebugHold, shown, strayed, lent, robbed>>

\* respawnLanguage with dbgForgetPause; a request under way is told at its next tick
Respawn ==
    /\ ~booting
    /\ booting' = TRUE
    /\ gen' = gen + 1 /\ stopped' = FALSE
    /\ gDbgPaused' = FALSE
    /\ gDebugHold' = IF gDbgPaused THEN Release(gDebugHold) ELSE gDebugHold
    /\ verb' = IF verb = "running" THEN "answered" ELSE verb
    /\ drift' = "none"
    /\ UNCHANGED <<armed, stop, hit, calls, wire, replies, target, shown, strayed, lent, robbed>>

MenuRestart == Act /\ Respawn

\* The watchdog: the verb is overdue, and the clock is not held.
Timeout ==
    /\ replies = <<>>
    /\ verb = "running"
    /\ gDebugHold = 0
    /\ Respawn
    /\ UNCHANGED acts

-----------------------------------------------------------------------------
Service      == ServeResume \/ ServeJudge \/ ServeGetVM
ReceiveFrame == ReceivePause \/ ReceiveResume \/ ReceiveReply
GoOn         == AfterResume \/ AfterJudgeFalse \/ AfterJudgeStops \/ AfterGetVM

DebugNext ==
    \/ \E h \in Conditions \cup {Plain} : Hit(h)
    \/ VerbEnds
    \/ Service \/ ReceiveFrame \/ GoOn
    \/ Continue \/ (\E t \in {Demo, gen} : Attach(t)) \/ MenuRestart
    \/ DriverHold \/ DriverRelease
    \/ VerbStart \/ Timeout \/ Booted

\* The service answers, the UI isolate handles what arrives and its timer, a respawn
\* ends.  Nothing makes user code end or the user press a button.
DebugFairness ==
    /\ WF_debugVars(Service) /\ WF_debugVars(ReceiveFrame) /\ WF_debugVars(GoOn)
    /\ WF_debugVars(Timeout) /\ WF_debugVars(Booted)

DebugSpec == DebugInit /\ [][DebugNext]_debugVars /\ DebugFairness

-----------------------------------------------------------------------------
(* Properties.  They speak of a debugger that stays on the language isolate: after
   Attach to another isolate neither variable is brought up to date. *)

\* Every call is answered, every frame and reply handled.
Settled == calls = <<>> /\ wire = <<>> /\ replies = <<>> /\ ~booting

\* What is left of a stop once everything is settled is the truth: the watchdog is
\* held exactly while the isolate stands at a breakpoint, on top of what the driver
\* holds, whichever of the four places that lift a pause ran, in whatever order.
\* There are two ways to miss it, and no third.
\*   undone  the reply to a resume, its Resume event and the next Pause are read at
\*           once, and the reply lifts the pause of that next stop: "the watchdog clock
\*           must stay stopped until user code is genuinely running again" (dbgResume)
\*   ghost   a killed isolate's Pause is read after dbgForgetPause: "The pause died
\*           with its isolate" (respawnLanguage)
\* A hold that was another's is out of the reckoning.
HoldIsStop ==
    Settled /\ ~strayed /\ ~robbed =>
        \/ gDebugHold = lent + IF stopped THEN 1 ELSE 0
        \/ drift = "undone" /\ stopped /\ gDebugHold = lent
        \/ drift = "ghost" /\ ~stopped /\ gDebugHold = lent + 1

\* A stop whose condition is false ends without the user.
SkippedStopEnds ==
    \A s \in 1..MaxStops :
        (stopped /\ stop = s /\ hit = "false") ~> (~stopped \/ stop # s \/ strayed)

\* Any other stop is shown, unless it is over first: a broken condition is not a
\* silently dead breakpoint.
OtherStopShows ==
    \A s \in 1..MaxStops :
        (stopped /\ stop = s /\ hit # "false") ~> (shown >= s \/ ~stopped \/ stop # s \/ strayed)

\* A socket verb that runs user code is answered, although the code may run for ever
\* or stand at a breakpoint for ever: the one connection is never parked, unless the
\* driver itself stops the watchdog's clock.
VerbAnswered == (verb = "running") ~> (verb = "answered" \/ strayed \/ lent > 0)

=============================================================================
