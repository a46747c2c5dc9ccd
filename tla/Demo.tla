-------------------------------- MODULE Demo --------------------------------
(***************************************************************************)
(* A demo: a program in an isolate of its own, whose draw lists the UI     *)
(* isolate replays.                                                        *)
(*                                                                         *)
(* Every run opens a port (three in the code, opened and closed together), *)
(* spawns the isolate, and reads what it sends.  A demo either pushes      *)
(* frames at its own rate or is invited: it sends the UI a control port,   *)
(* and answers each tick on it with one frame.  The pacer refuses to paint *)
(* until the last paint's own cost has elapsed; what comes earlier is      *)
(* dropped, and with a frame that is dropped no further tick is scheduled. *)
(* A game opens the Metal pane, which stands in for the canvas until the   *)
(* demo is stopped.                                                        *)
(*                                                                         *)
(* Time is counted in units of kMinDrawGapMs; it passes by Elapse.         *)
(*                                                                         *)
(* Source: src/macdart/cocoa/workspace/workspace.dart 3039-3430.           *)
(***************************************************************************)
EXTENDS Naturals, Sequences, FiniteSets

CONSTANTS
    MaxRuns,     \* bound on how often a demo is started
    MaxQueue,    \* bound on the frames a pushing demo has under way
    MaxCost,     \* bound on what one paint costs
    Kinds        \* the kinds of demo there are to start

ASSUME DemoAssumption ==
    /\ MaxRuns \in Nat /\ MaxQueue \in Nat /\ MaxCost \in Nat
    /\ Kinds \subseteq {"push", "pull", "game"}

Runs   == 1..MaxRuns
Cost   == 0..MaxCost
MinGap == 1                                     \* kMinDrawGapMs
Period == 2                                     \* kPullPeriodMs
Larger(a, b) == IF a > b THEN a ELSE b

\* Mutant: the next invitation minds the period only.
WaitPeriodOnly(c) == IF Period > c THEN Period - c ELSE 0

\* How long after a paint of cost c the next paint is due, and the next tick is sent.
Gap(c)  == Larger(c, MinGap)
Wait(c) == Larger(IF Period > c THEN Period - c ELSE 0, Gap(c))

VARIABLES
    (* the isolates *)
    runs, kind,   \* the runs so far, and what each one started
    iso,          \* the isolate of each run
    ticks,        \* invitations each has not answered
    (* UI isolate *)
    inbox,        \* what arrived on the port of each run
    gDemoTitle,   \* the run whose ports are open, 0 when idle
    gDemoIso,     \* the run whose isolate Stop kills, 0 for none
    gDemoCtl,     \* the run whose control port it is, 0 for none
    pane,         \* the run that put up the Metal pane, 0 when gGpMode is false
    watching, capture,  \* the Demos tab is shown; plain keys go to the demo
    due,          \* time left until a paint is allowed
    timers,       \* the invitations scheduled
    (* bookkeeping *)
    overlapped,   \* a run was started while another was loading
    spoilt        \* the runs that sent a frame nobody can render

demos  == <<runs, kind>>
screen == <<pane, watching, capture>>
pacer  == <<due, timers>>
marks  == <<overlapped, spoilt>>
vars   == <<demos, iso, ticks, inbox, gDemoTitle, gDemoIso, gDemoCtl, screen, pacer, marks>>

Message == {"port", "gpopen", "frame", "bad", "exit"}

TypeOK ==
    /\ runs \in 0..MaxRuns /\ kind \in [Runs -> Kinds \cup {"none"}]
    /\ iso \in [Runs -> {"none", "loading", "live", "running", "gone"}]
    /\ ticks \in [Runs -> 0..1]
    /\ \A r \in Runs : inbox[r] \in Seq(Message)
    /\ gDemoTitle \in 0..runs /\ gDemoIso \in 0..runs /\ gDemoCtl \in {0, gDemoTitle}
    /\ pane \in 0..runs
    /\ watching \in BOOLEAN /\ capture \in BOOLEAN
    /\ due \in 0..Larger(MaxCost, MinGap)
    /\ timers \subseteq [ctl : Runs, left : 0..Larger(MaxCost, Period)]
    /\ overlapped \in BOOLEAN /\ spoilt \subseteq 1..runs

Init ==
    /\ runs = 0 /\ kind = [r \in Runs |-> "none"]
    /\ iso = [r \in Runs |-> "none"] /\ ticks = [r \in Runs |-> 0]
    /\ inbox = [r \in Runs |-> <<>>]
    /\ gDemoTitle = 0 /\ gDemoIso = 0 /\ gDemoCtl = 0
    /\ pane = 0 /\ watching = FALSE /\ capture = FALSE
    /\ due = 0 /\ timers = {}
    /\ overlapped = FALSE /\ spoilt = {}

-----------------------------------------------------------------------------
(* Stop and start *)

\* Mutant: the handle is dropped and nothing killed.
KilledNone == iso

\* The isolates after the one Stop knows of is killed.  That the kill takes a moment
\* shows nowhere: what the demo still sends, it sends to a closed port.
Killed == IF gDemoIso = 0 THEN iso ELSE [iso EXCEPT ![gDemoIso] = "gone"]

\* Mutant: the pane stays up.
LeavePaneNot == UNCHANGED pane

ForgetCtl == gDemoCtl' = 0
LeavePane == pane' = 0                          \* gpLeave

\* stopDemo: kill, close the ports with what is queued on them, forget the control
\* port, take the pane down.  t is the run that starts with it, or 0.
StopDemo(t, isolates) ==
    /\ iso' = isolates
    /\ gDemoIso' = 0 /\ gDemoTitle' = t
    /\ inbox' = [r \in Runs |-> <<>>]
    /\ due' = 0
    /\ ForgetCtl /\ LeavePane

\* runDemoAt up to its await
RunDemo(k) ==
    /\ runs < MaxRuns
    /\ runs' = runs + 1 /\ kind' = [kind EXCEPT ![runs'] = k]
    /\ StopDemo(runs', [Killed EXCEPT ![runs'] = "loading"])
    /\ watching' = TRUE /\ capture' = TRUE
    /\ overlapped' = (overlapped \/ \E r \in Runs : iso[r] = "loading")
    /\ UNCHANGED <<ticks, timers, spoilt>>

\* The spawn is complete: whatever has happened since, this is the isolate now.
SpawnDone(r) ==
    /\ iso[r] = "loading"
    /\ iso' = [iso EXCEPT ![r] = "live"]
    /\ gDemoIso' = r
    /\ UNCHANGED <<demos, ticks, inbox, gDemoTitle, gDemoCtl, screen, pacer, marks>>

\* The program does not load: stopDemo, whichever demo that stops.
SpawnFails(r) ==
    /\ iso[r] = "loading"
    /\ StopDemo(0, [Killed EXCEPT ![r] = "gone"])
    /\ capture' = FALSE
    /\ UNCHANGED <<demos, ticks, watching, timers, marks>>

Stop ==
    /\ gDemoTitle # 0 \/ gDemoIso # 0
    /\ StopDemo(0, Killed)
    /\ capture' = FALSE
    /\ UNCHANGED <<demos, ticks, watching, timers, marks>>

\* Mutant: the keyboard stays with the demo when the tab is left.
SwitchTabKeepsKeys ==
    /\ watching' = ~watching
    /\ capture' = (capture \/ (watching' /\ gDemoTitle # 0))
    /\ UNCHANGED <<demos, iso, ticks, inbox, gDemoTitle, gDemoIso, gDemoCtl, pane, pacer, marks>>

\* to the Demos tab, or away from it
SwitchTab ==
    /\ watching' = ~watching
    /\ capture' = (watching' /\ gDemoTitle # 0)
    /\ UNCHANGED <<demos, iso, ticks, inbox, gDemoTitle, gDemoIso, gDemoCtl, pane, pacer, marks>>

-----------------------------------------------------------------------------
(* The demo *)

\* What is sent to a closed port is lost.
Send(r, msgs) == inbox' = IF gDemoTitle = r THEN [inbox EXCEPT ![r] = @ \o msgs] ELSE inbox

\* A demo that is invited sends its control port first; a game then asks for the pane.
Greeting(k) == CASE k = "push" -> <<>>
                 [] k = "game" -> <<"port", "gpopen">>
                 [] OTHER      -> <<"port">>

Begin(r) ==
    /\ iso[r] = "live"
    /\ iso' = [iso EXCEPT ![r] = "running"]
    /\ Send(r, Greeting(kind[r]))
    /\ UNCHANGED <<demos, ticks, gDemoTitle, gDemoIso, gDemoCtl, screen, pacer, marks>>

Push(r) ==
    /\ iso[r] = "running" /\ kind[r] = "push"
    /\ Len(inbox[r]) < MaxQueue
    /\ Send(r, <<"frame">>)
    /\ UNCHANGED <<demos, iso, ticks, gDemoTitle, gDemoIso, gDemoCtl, screen, pacer, marks>>

\* One tick, one frame.  The pane reports what it cannot do; the canvas throws.
Answer(r, m) ==
    /\ iso[r] = "running" /\ ticks[r] > 0
    /\ m = "bad" => kind[r] = "pull"
    /\ ticks' = [ticks EXCEPT ![r] = @ - 1]
    /\ Send(r, <<m>>)
    /\ UNCHANGED <<demos, iso, gDemoTitle, gDemoIso, gDemoCtl, screen, pacer, marks>>

Exits(r) ==
    /\ iso[r] = "running"
    /\ iso' = [iso EXCEPT ![r] = "gone"]
    /\ Send(r, <<"exit">>)
    /\ UNCHANGED <<demos, ticks, gDemoTitle, gDemoIso, gDemoCtl, screen, pacer, marks>>

-----------------------------------------------------------------------------
(* The UI isolate reads what the demo sent *)

Read(r, m) ==
    /\ inbox[r] # <<>> /\ Head(inbox[r]) = m
    /\ inbox' = [inbox EXCEPT ![r] = Tail(@)]

TakePort(r) ==
    /\ Read(r, "port")
    /\ gDemoCtl' = r
    /\ ticks' = [ticks EXCEPT ![r] = @ + 1]
    /\ UNCHANGED <<demos, iso, gDemoTitle, gDemoIso, screen, pacer, marks>>

\* gpopen is setup and not a frame: it takes none of the paint budget.
TakeGpopen(r) ==
    /\ Read(r, "gpopen") /\ pane = 0
    /\ pane' = r
    /\ UNCHANGED <<demos, iso, ticks, gDemoTitle, gDemoIso, gDemoCtl, watching, capture, pacer, marks>>

\* Painted, and the next frame invited.
Paint(r, cost) ==
    /\ Read(r, "frame") /\ due = 0
    /\ due' = Gap(cost)
    /\ timers' = IF gDemoCtl = 0 THEN timers ELSE timers \cup {[ctl |-> gDemoCtl, left |-> Wait(cost)]}
    /\ UNCHANGED <<demos, iso, ticks, gDemoTitle, gDemoIso, gDemoCtl, screen, marks>>

\* Early: dropped.
Drop(r) ==
    /\ \E m \in {"frame", "bad"} : Read(r, m)
    /\ due > 0
    /\ UNCHANGED <<demos, iso, ticks, gDemoTitle, gDemoIso, gDemoCtl, screen, pacer, marks>>

\* The renderer throws: onDemoMsg drops the message, and nothing is invited.
Throws(r) ==
    /\ Read(r, "bad") /\ due = 0
    /\ spoilt' = spoilt \cup {r}
    /\ UNCHANGED <<demos, iso, ticks, gDemoTitle, gDemoIso, gDemoCtl, screen, pacer, overlapped>>

TakeExit(r) ==
    /\ Read(r, "exit")
    /\ gDemoIso' = 0
    /\ UNCHANGED <<demos, iso, ticks, gDemoTitle, gDemoCtl, screen, pacer, marks>>

-----------------------------------------------------------------------------
(* Time *)

Elapse ==
    /\ due > 0 \/ \E t \in timers : t.left > 0
    /\ due' = IF due > 0 THEN due - 1 ELSE 0
    /\ timers' = {[t EXCEPT !.left = IF @ > 0 THEN @ - 1 ELSE 0] : t \in timers}
    /\ UNCHANGED <<demos, iso, ticks, inbox, gDemoTitle, gDemoIso, gDemoCtl, screen, marks>>

\* Mutant: the tick goes to the demo it was scheduled for, stopped or not.
InviteUnguarded(t) ==
    /\ t \in timers /\ t.left = 0
    /\ timers' = timers \ {t}
    /\ ticks' = [ticks EXCEPT ![t.ctl] = 1]
    /\ UNCHANGED <<demos, iso, inbox, gDemoTitle, gDemoIso, gDemoCtl, screen, due, marks>>

\* A timer may fire late.
Invite(t) ==
    /\ t \in timers /\ t.left = 0
    /\ timers' = timers \ {t}
    /\ ticks' = IF gDemoCtl = t.ctl THEN [ticks EXCEPT ![t.ctl] = @ + 1] ELSE ticks
    /\ UNCHANGED <<demos, iso, inbox, gDemoTitle, gDemoIso, gDemoCtl, screen, due, marks>>

-----------------------------------------------------------------------------
Next ==
    \/ \E k \in Kinds : RunDemo(k)
    \/ Stop \/ SwitchTab \/ Elapse
    \/ \E r \in Runs :
          \/ SpawnDone(r) \/ SpawnFails(r)
          \/ Begin(r) \/ Push(r) \/ Exits(r)
          \/ \E m \in {"frame", "bad"} : Answer(r, m)
          \/ TakePort(r) \/ TakeGpopen(r) \/ TakeExit(r)
          \/ \E c \in Cost : Paint(r, c)
          \/ Drop(r) \/ Throws(r)
    \/ \E t \in timers : Invite(t)

Spec == Init /\ [][Next]_vars

-----------------------------------------------------------------------------
(* Properties *)

Alive(r) == iso[r] \in {"live", "running"}

\* Stop can kill every demo isolate there is, unless two runs were loading at once.
HandleKept == ~overlapped => \A r \in Runs : Alive(r) => gDemoIso = r

\* The invitations scheduled for a run, and its frames that wait.
TimersOf(r) == {t \in timers : t.ctl = r}
FramesOf(r) == {i \in DOMAIN inbox[r] : inbox[r][i] \in {"frame", "bad"}}

\* The invitations of a demo go round and round, one at a time: a timer, a tick or a
\* frame, never none of them and never two.  So a demo that is invited is never early
\* and none of its frames is dropped (the frame that throws ends it).
LoopTurns ==
    \A r \in Runs : gDemoCtl = r /\ iso[r] = "running" /\ r \notin spoilt =>
        ticks[r] + Cardinality(TimersOf(r)) + Cardinality(FramesOf(r)) = 1

\* No tick reaches a demo that is no longer the one on show.
TickForOwner == [][\A r \in Runs : ticks'[r] > ticks[r] => gDemoTitle = r]_vars

\* The Metal pane belongs to the demo that opened it: the next demo finds the canvas.
PaneIsOwners == pane \in {0, gDemoTitle}

\* Plain keys are kept from the workspace just while a demo is on show in its tab.
KeysFollow == capture <=> (watching /\ gDemoTitle # 0)

=============================================================================
