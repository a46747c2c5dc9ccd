----------------------------- MODULE AppSurface -----------------------------
(***************************************************************************)
(* A user's app: it runs in the language isolate and describes its widgets *)
(* by commands, from which the UI isolate makes the views.                 *)
(*                                                                         *)
(* The language isolate serves the requests to run, stop and rebuild the   *)
(* app and the events of its widgets, one at a time; a timer of the app    *)
(* changes widgets on its own.  What one message or timer did to the       *)
(* surface is pushed as one batch, before the reply.  Pushes and replies   *)
(* reach the UI isolate in the order they were sent.  The UI isolate       *)
(* applies a batch and keeps it, to restore the views when the window is   *)
(* rebuilt.                                                                *)
(*                                                                         *)
(* The widgets an app describes are abstracted to one, with the app that   *)
(* made it and the version of the app's state it shows.                    *)
(*                                                                         *)
(* Source: src/macdart/cocoa/workspace/language.dart 616-786, and          *)
(* workspace.dart 3598-3930 with 1594-1606 and 4080-4125.                  *)
(***************************************************************************)
EXTENDS Naturals, Sequences

CONSTANTS
    Apps,         \* the classes with a build method
    Quitters,     \* those whose stop() cancels their timer
    None,         \* no app
    MaxActs,      \* bound on what the user, and the watchdog, do
    MaxVersion    \* bound on the changes an app makes to its state

ASSUME AppAssumption ==
    /\ Quitters \subseteq Apps
    /\ None \notin Apps /\ Apps \cap {"stop", "build", "event"} = {}
    /\ MaxActs \in Nat /\ MaxVersion \in Nat

Blank == [by |-> None, version |-> 0]
View  == {Blank} \cup [by : Apps, version : 0..MaxVersion]

\* A request is named by what it asks for; a Run by the class.  One of a kind is
\* under way at a time.
Requests == Apps \cup {"stop", "build", "event"}

VARIABLES
    (* language isolate *)
    app,          \* the class of _app, None when nothing runs
    version,      \* its state
    described,    \* what its commands so far describe
    leftTicking,  \* stopped apps whose timer runs on
    inbox,
    (* under way to the UI isolate *)
    wire,
    (* UI isolate *)
    up,           \* gLang is set
    stopped,      \* the debugger holds the language isolate stopped
    gAppName,     \* the class the UI believes to run
    views,        \* what the window shows
    gAppSpec,     \* what a rebuild of the window would show
    asked,        \* the requests under way
    (* bookkeeping *)
    acts, crossed, amiss

language == <<app, version, described, leftTicking, inbox>>
window   == <<views, gAppSpec>>
marks    == <<acts, crossed, amiss>>
vars     == <<language, wire, up, stopped, gAppName, window, asked, marks>>

\* clear; add, with the view it makes; set, with the change
Clear == [op |-> "clear", view |-> Blank]
Add(v) == [op |-> "add", view |-> v]
Set(v) == [op |-> "set", view |-> v]
Command == {Clear} \cup [op : {"add", "set"}, view : View]

Push(cmds, by) == [of |-> "push", cmds |-> cmds, by |-> by]
Reply(r, ok, v) == [of |-> "reply", to |-> r, ok |-> ok, version |-> v]
Dead == [of |-> "nothing"]      \* a message whose port has been closed

Pushes     == {i \in DOMAIN wire : wire[i].of = "push"}
Replies(r) == {i \in DOMAIN wire : wire[i].of = "reply" /\ wire[i].to = r}
Closed(ports) == [i \in DOMAIN wire |-> IF i \in ports THEN Dead ELSE wire[i]]

TypeOK ==
    /\ app \in Apps \cup {None} /\ version \in 0..MaxVersion /\ described \in View
    /\ leftTicking \subseteq Apps
    /\ \A i \in DOMAIN inbox : inbox[i] \in [request : Requests, from : Apps \cup {None}]
    /\ \A i \in DOMAIN wire :
          \/ wire[i] \in [of : {"push"}, cmds : Seq(Command), by : Apps]
          \/ wire[i] \in [of : {"reply"}, to : Requests, ok : BOOLEAN, version : 0..MaxVersion]
          \/ wire[i] = Dead
    /\ up \in BOOLEAN /\ stopped \in BOOLEAN
    /\ gAppName \in Apps \cup {None}
    /\ views \in View /\ gAppSpec \in View
    /\ asked \in [Requests -> {"no", "sent", "stale"}]
    /\ acts \in 0..MaxActs /\ crossed \in BOOLEAN /\ amiss \in BOOLEAN

Init ==
    /\ app = None /\ version = 0 /\ described = Blank /\ leftTicking = {} /\ inbox = <<>>
    /\ wire = <<>>
    /\ up = TRUE /\ stopped = FALSE
    /\ gAppName = None /\ views = Blank /\ gAppSpec = Blank
    /\ asked = [r \in Requests |-> "no"]
    /\ acts = 0 /\ crossed = FALSE /\ amiss = FALSE

\* A Run or a Stop is under way.
Changing == \E r \in Apps \cup {"stop"} : asked[r] # "no"

\* What the user does at any time.
Act(crosses) ==
    /\ acts < MaxActs
    /\ acts' = acts + 1
    /\ crossed' = (crossed \/ (crosses /\ Changing))

-----------------------------------------------------------------------------
(* Commands *)

\* A widget that is not there cannot be changed.
Apply(view, c) ==
    CASE c.op = "clear" -> Blank
      [] c.op = "add"   -> c.view
      [] c.op = "set"   -> IF view = Blank THEN Blank ELSE c.view

ApplyAll(view, cmds) ==
    LET shown[n \in 0..Len(cmds)] == IF n = 0 THEN view ELSE Apply(shown[n - 1], cmds[n])
    IN  shown[Len(cmds)]

-----------------------------------------------------------------------------
(* Language isolate *)

Takes(kind) ==
    /\ inbox # <<>> /\ ~stopped
    /\ Head(inbox).request \in kind
    /\ inbox' = Tail(inbox)

\* What _appStop sends: the surface is cleared, whatever stop() did.
Farewell == IF app = None THEN <<>> ELSE <<Push(<<Clear>>, app)>>
StillTicking == leftTicking \cup ({app} \ (Quitters \cup {None}))

UiUntouched == UNCHANGED <<up, stopped, gAppName, window, asked, marks>>

\* No such class in the image: nothing has been stopped yet.
ServeRunUnknown ==
    /\ Takes(Apps)
    /\ wire' = Append(wire, Reply(Head(inbox).request, FALSE, 0))
    /\ UNCHANGED <<app, version, described, leftTicking>>
    /\ UiUntouched

\* The constructor throws: the app before is stopped, and none runs.
ServeRunNotMade ==
    /\ Takes(Apps)
    /\ app' = None /\ version' = 0 /\ described' = Blank
    /\ leftTicking' = StillTicking
    /\ wire' = wire \o Farewell \o <<Reply(Head(inbox).request, FALSE, 0)>>
    /\ UiUntouched

\* build() describes the app, or throws before it has.
ServeRun(ok) ==
    /\ Takes(Apps)
    /\ LET a == Head(inbox).request
           v == [by |-> a, version |-> 0]
           cmds == IF ok THEN <<Clear, Add(v)>> ELSE <<Clear>>
       IN  /\ app' = a /\ version' = 0
           /\ described' = ApplyAll(Blank, cmds)
           /\ wire' = wire \o Farewell \o <<Push(cmds, a), Reply(a, ok, 0)>>
    /\ leftTicking' = StillTicking
    /\ UiUntouched

ServeStop ==
    /\ Takes({"stop"})
    /\ app' = None /\ version' = 0 /\ described' = Blank
    /\ leftTicking' = StillTicking
    /\ wire' = wire \o Farewell \o <<Reply("stop", TRUE, 0)>>
    /\ UiUntouched

\* The instance is kept, and with it its state.
ServeBuild(ok) ==
    /\ Takes({"build"})
    /\ IF app = None
       THEN /\ ~ok
            /\ wire' = Append(wire, Reply("build", FALSE, 0))
            /\ UNCHANGED described
       ELSE LET v == [by |-> app, version |-> version]
                cmds == IF ok THEN <<Clear, Add(v)>> ELSE <<Clear>>
            IN  /\ described' = ApplyAll(described, cmds)
                /\ wire' = wire \o <<Push(cmds, app), Reply("build", ok, 0)>>
    /\ UNCHANGED <<app, version, leftTicking>>
    /\ UiUntouched

\* No app, or no handler since the surface was cleared.
ServeEventIgnored ==
    /\ Takes({"event"})
    /\ app = None \/ described = Blank
    /\ wire' = Append(wire, Reply("event", FALSE, 0))
    /\ UNCHANGED <<app, version, described, leftTicking>>
    /\ UiUntouched

\* Mutant: the reply is sent before what the handler did to the surface.
ServeEventReplyFirst ==
    /\ Takes({"event"})
    /\ app # None /\ described # Blank /\ version < MaxVersion
    /\ version' = version + 1
    /\ described' = [by |-> app, version |-> version']
    /\ wire' = wire \o <<Reply("event", TRUE, version'), Push(<<Set(described')>>, app)>>
    /\ UNCHANGED <<app, leftTicking>>
    /\ UiUntouched

ServeEvent ==
    /\ Takes({"event"})
    /\ app # None /\ described # Blank /\ version < MaxVersion
    /\ version' = version + 1
    /\ described' = [by |-> app, version |-> version']
    /\ wire' = wire \o <<Push(<<Set(described')>>, app), Reply("event", TRUE, version')>>
    /\ UNCHANGED <<app, leftTicking>>
    /\ UiUntouched

\* A timer of the app that runs, ...
Tick ==
    /\ app # None /\ ~stopped /\ version < MaxVersion
    /\ version' = version + 1
    /\ LET v == [by |-> app, version |-> version'] IN
       /\ described' = Apply(described, Set(v))
       /\ wire' = Append(wire, Push(<<Set(v)>>, app))
    /\ UNCHANGED <<app, leftTicking, inbox>>
    /\ UiUntouched

\* ... or of one that was stopped: its surface still has the port.
TickOfStopped(a) ==
    /\ a \in leftTicking /\ ~stopped
    /\ \A i \in Pushes : wire[i].by # a
    /\ wire' = Append(wire, Push(<<Set([by |-> a, version |-> 0])>>, a))
    /\ UNCHANGED language
    /\ UiUntouched

-----------------------------------------------------------------------------
(* UI isolate: requests *)

CanAsk == up /\ ~stopped

\* ask(): what is sent, or refused at once.
Ask(r) ==
    /\ asked[r] = "no"
    /\ IF CanAsk
       THEN /\ asked' = [asked EXCEPT ![r] = "sent"]
            /\ inbox' = Append(inbox, [request |-> r, from |-> gAppName])
       ELSE UNCHANGED <<asked, inbox>>
    /\ UNCHANGED <<app, version, described, leftTicking, wire, up, stopped>>

AppRun(a) ==
    /\ Act(TRUE)
    /\ Ask(a)
    /\ IF CanAsk THEN UNCHANGED <<gAppName, amiss>> ELSE gAppName' = None /\ amiss' = TRUE
    /\ UNCHANGED window

ClearViews == views' = Blank /\ gAppSpec' = Blank

AppStop ==
    /\ gAppName # None
    /\ Act(TRUE)
    /\ Ask("stop")
    /\ gAppName' = None
    /\ IF CanAsk THEN UNCHANGED <<window, amiss>> ELSE ClearViews /\ amiss' = TRUE

\* After an Accept, and when the pane was resized.
AppRebuild ==
    /\ gAppName # None
    /\ Act(FALSE)
    /\ Ask("build")
    /\ UNCHANGED <<gAppName, window, amiss>>

AppFire ==
    /\ gAppName # None /\ views # Blank
    /\ Act(TRUE)
    /\ Ask("event")
    /\ UNCHANGED <<gAppName, window, amiss>>

\* rebuildUi tears the views down and replays what was kept.
RebuildUi ==
    /\ Act(TRUE)
    /\ views' = IF gAppName = None THEN Blank ELSE gAppSpec
    /\ UNCHANGED <<language, wire, up, stopped, gAppName, gAppSpec, asked, amiss>>

(* UI isolate: what arrives *)

\* Mutant: a change is shown and not kept.
TakePushUnkept ==
    /\ wire # <<>> /\ Head(wire).of = "push"
    /\ wire' = Tail(wire)
    /\ views' = ApplyAll(views, Head(wire).cmds)
    /\ gAppSpec' = ApplyAll(gAppSpec, SelectSeq(Head(wire).cmds, LAMBDA c : c.op # "set"))
    /\ UNCHANGED <<language, up, stopped, gAppName, asked, marks>>

TakePush ==
    /\ wire # <<>> /\ Head(wire).of = "push"
    /\ wire' = Tail(wire)
    /\ views' = ApplyAll(views, Head(wire).cmds)
    /\ gAppSpec' = ApplyAll(gAppSpec, Head(wire).cmds)
    /\ UNCHANGED <<language, up, stopped, gAppName, asked, marks>>

\* Mutant: a Run that failed leaves the name of the app before.
EndsKeepsName(r, ok) ==
    /\ asked' = [asked EXCEPT ![r] = "no"]
    /\ gAppName' = IF r \in Apps /\ ok THEN r ELSE gAppName
    /\ amiss' = IF r \notin Apps THEN amiss ELSE ~ok
    /\ IF r = "stop" THEN ClearViews ELSE UNCHANGED window
    /\ UNCHANGED <<language, up, stopped, acts, crossed>>

\* What awaits the answer goes on: the rest of appRun and appStop.
Ends(r, ok) ==
    /\ asked' = [asked EXCEPT ![r] = "no"]
    /\ gAppName' = IF r \notin Apps THEN gAppName ELSE IF ok THEN r ELSE None
    /\ amiss' = IF r \notin Apps THEN amiss ELSE ~ok
    /\ IF r = "stop" THEN ClearViews ELSE UNCHANGED window
    /\ UNCHANGED <<language, up, stopped, acts, crossed>>

TakeReply ==
    /\ wire # <<>> /\ Head(wire).of = "reply"
    /\ wire' = Tail(wire)
    /\ Ends(Head(wire).to, Head(wire).ok)

\* Nobody listens any more.
TakeDead ==
    /\ wire # <<>> /\ Head(wire) = Dead
    /\ wire' = Tail(wire)
    /\ UNCHANGED <<language, up, stopped, gAppName, window, asked, marks>>

\* The isolate it was sent to is gone: the next tick of ask() says so, and a reply
\* that comes later finds its port closed.
Lost(r) ==
    /\ asked[r] = "stale"
    /\ wire' = Closed(Replies(r))
    /\ Ends(r, FALSE)

-----------------------------------------------------------------------------
(* Respawn and debugger *)

\* Mutants: the app's views outlive its isolate; so does its name.
AppOnRespawnKeepsViews == gAppName' = None /\ UNCHANGED window
AppOnRespawnKeepsName == ClearViews /\ UNCHANGED gAppName

AppOnRespawn ==
    IF gAppName = None
    THEN UNCHANGED <<gAppName, window>>
    ELSE gAppName' = None /\ ClearViews

\* The port of the old isolate's pushes is closed; those of its replies are not.
Respawn ==
    /\ up
    /\ Act(TRUE)
    /\ up' = FALSE /\ stopped' = FALSE
    /\ app' = None /\ version' = 0 /\ described' = Blank /\ leftTicking' = {} /\ inbox' = <<>>
    /\ wire' = Closed(Pushes)
    /\ asked' = [r \in Requests |-> IF asked[r] = "sent" THEN "stale" ELSE asked[r]]
    /\ AppOnRespawn
    /\ UNCHANGED amiss

\* The killed isolate runs until the kill takes effect.
ServeLate(r, ok) ==
    /\ asked[r] = "stale"
    /\ Replies(r) = {}
    /\ wire' = Append(wire, Reply(r, ok, 0))
    /\ UNCHANGED <<language, up, stopped, gAppName, window, asked, marks>>

Handshake ==
    /\ ~up
    /\ up' = TRUE
    /\ UNCHANGED <<language, wire, stopped, gAppName, window, asked, marks>>

Pause ==
    /\ up /\ ~stopped
    /\ Act(FALSE)
    /\ stopped' = TRUE
    /\ UNCHANGED <<language, wire, up, gAppName, window, asked, amiss>>

Continue ==
    /\ stopped
    /\ stopped' = FALSE
    /\ UNCHANGED <<language, wire, up, gAppName, window, asked, marks>>

-----------------------------------------------------------------------------
Serve ==
    \/ ServeRunUnknown \/ ServeRunNotMade \/ ServeStop
    \/ \E ok \in BOOLEAN : ServeRun(ok) \/ ServeBuild(ok)
    \/ ServeEventIgnored \/ ServeEvent

Next ==
    \/ Serve
    \/ Tick \/ \E a \in Apps : TickOfStopped(a)
    \/ (\E a \in Apps : AppRun(a)) \/ AppStop \/ AppRebuild \/ AppFire \/ RebuildUi
    \/ TakePush \/ TakeReply \/ TakeDead \/ \E r \in Requests : Lost(r)
    \/ Respawn \/ (\E r \in Requests, ok \in BOOLEAN : ServeLate(r, ok)) \/ Handshake
    \/ Pause \/ Continue

Spec == Init /\ [][Next]_vars

-----------------------------------------------------------------------------
(* Properties.  Two kinds of behaviour are set apart by them.  In a `crossed` one a
   Run or a Stop was under way when the user ran, stopped or clicked something else,
   rebuilt the window, or the isolate was replaced.  What is `amiss` is that the last
   Run failed or a Stop was refused, and the UI has forgotten an app that may run.
   WindowShowsApp also needs that no stopped app goes on ticking. *)

Quiet == inbox = <<>> /\ wire = <<>> /\ \A r \in Requests : asked[r] = "no"

\* When nothing is under way and the UI shows an app as running, it is the one that
\* runs, and the window shows what that app last described: through timers, events,
\* Accepts, rebuilds of the window and restarts.
WindowShowsApp ==
    (Quiet /\ ~crossed /\ leftTicking = {} /\ gAppName # None) => app = gAppName /\ views = described

\* When nothing is under way and no app is shown as running, none runs and none of
\* its widgets is left: late pushes do not bring them back.
IdleIsBlank ==
    (Quiet /\ ~crossed /\ ~amiss /\ gAppName = None) => app = None /\ views = Blank

\* A rebuild of the window at any moment would bring back what it shows: what is kept
\* and what is shown are changed together.
RebuildRestores == (~crossed /\ gAppName # None) => views = gAppSpec

\* "a click's visible effect never lags its acknowledgement" (language.dart 83).
EffectBeforeReply ==
    [][(/\ wire # <<>> /\ Head(wire).of = "reply" /\ wire' = Tail(wire)
        /\ Head(wire).to = "event" /\ Head(wire).ok /\ asked["event"] = "sent"
        /\ ~crossed /\ gAppName # None)
       => views.by = gAppName /\ views.version >= Head(wire).version]_vars

\* A click reaches the app on whose widget it was made, or none.
EventForItsApp ==
    (~crossed /\ inbox # <<>> /\ Head(inbox).request = "event")
        => app \in {Head(inbox).from, None}

=============================================================================
