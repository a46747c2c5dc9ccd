------------------------------ MODULE UiPump ------------------------------
(***************************************************************************)
(* Thread 0 of the workspace (cocoa/cocoa_host.mm): AppKit's run loop, the *)
(* source through which messages to the UI isolate are drained, the reload *)
(* of the UI that the isolate asks the host for (workspace_natives.cc),    *)
(* and the window that is built again after one (workspace.dart).          *)
(*                                                                         *)
(* Dart_HandleMessages is the VM's: it handles messages until none is left *)
(* and then reports whether one of them threw.  AppKit runs no second      *)
(* source and calls into Dart only where the run loop is running: at the   *)
(* bottom of the stack, or in the modal loop of a file panel.              *)
(***************************************************************************)
EXTENDS Naturals, Sequences, FiniteSets

CONSTANTS
  MaxEvents,        \* bound: events of the user, and throwing messages
  MaxClock,         \* bound: the clock of the storm backstop
  StormN, StormTime \* _kStormN rebuilds within _kStormMs are a storm

ASSUME PumpAssumption ==
  /\ MaxEvents \in Nat /\ MaxClock \in Nat
  /\ StormN \in Nat \ {0} /\ StormTime \in Nat \ {0}

\* What a click or a menu item may do: repaint, open a file panel, ask for a
\* reload of the UI, rebuild the window.
Bodies == {"paint", "panel", "reload", "rebuild"}

VARIABLES
  signalled,        \* g_pump_source is signalled
  stack,            \* what runs on thread 0 above the run loop: "pump", "panel"
  phase,            \* how far PumpPerform is: "messages", "reload", "again"
  pending,          \* g_pending
  failed,           \* a message of this drain threw
  ready,            \* g_ui_ready
  requested,        \* g_ui_reload_requested
  status,           \* g_ui_reload_status: "", "ok", "ERR"
  queue,            \* the messages to the UI isolate
  tasks,            \* _evPending: id -> body
  nextEv,           \* _evNext
  up,               \* gWindow exists
  recent, clock,    \* the attempts of _rebuildTimes, and the time
  built,            \* observation: the attempts that were allowed
  halted            \* exit(70)

vars == <<signalled, stack, phase, pending, failed, ready, requested, status,
          queue, tasks, nextEv, up, recent, clock, built, halted>>
host == <<stack, phase, pending, failed, halted>>
window == <<up, recent, built>>

InPump == \E i \in DOMAIN stack : stack[i] = "pump"
Top == IF stack = <<>> THEN "loop" ELSE stack[Len(stack)]
RunLoopRuns == ~halted /\ Top \in {"loop", "panel"}
Pumping(ph) == ~halted /\ Top = "pump" /\ phase = ph

Init ==
  /\ signalled = TRUE
  /\ stack = <<>> /\ phase = "messages" /\ pending = FALSE /\ failed = FALSE
  /\ ready = FALSE /\ requested = FALSE /\ status = ""
  /\ queue = <<[k |-> "main"]>> /\ tasks = <<>> /\ nextEv = 1
  /\ up = FALSE /\ recent = {} /\ clock = 0 /\ built = {}
  /\ halted = FALSE

---------------------------------------------------------------------------
(* Messages to the UI isolate; NotifyUi runs on the sender's thread.       *)

\* Mutant of NotifyUi: a sender leaves it to the pump that is running.
NotifyUiOutside == signalled' = IF InPump THEN signalled ELSE TRUE

NotifyUi == signalled' = TRUE

Send(m) == queue' = Append(queue, m) /\ NotifyUi

\* The metrics timer: its next message is posted when the last was handled.
TimerTick ==
  /\ ~halted /\ ready /\ \A i \in DOMAIN queue : queue[i].k # "tick"
  /\ Send([k |-> "tick"])
  /\ UNCHANGED <<host, window, ready, requested, status, tasks, nextEv, clock>>

\* A message from another thread whose handler is going to throw: a reply, a
\* timer or a service request that does not pass through `defer`.
OtherThread ==
  /\ ~halted /\ nextEv <= MaxEvents
  /\ Send([k |-> "throws"])
  /\ nextEv' = nextEv + 1
  /\ UNCHANGED <<host, window, ready, requested, status, tasks, clock>>

\* Mutant of Event: the handler runs in AppKit's callback.
EventInline(b) ==
  /\ RunLoopRuns /\ up /\ nextEv <= MaxEvents
  /\ nextEv' = nextEv + 1
  /\ stack' = IF b = "panel" THEN Append(stack, "panel") ELSE stack
  /\ UNCHANGED <<signalled, phase, pending, failed, halted, window, ready, requested, status,
                 queue, tasks, clock>>

\* AppKit calls the action of a view of the window; defer(body).
Event(b) ==
  /\ RunLoopRuns /\ up /\ nextEv <= MaxEvents
  /\ nextEv' = nextEv + 1
  /\ tasks' = [id \in DOMAIN tasks \union {nextEv} |-> IF id = nextEv THEN b ELSE tasks[id]]
  /\ Send([k |-> "deferred", id |-> nextEv])
  /\ UNCHANGED <<host, window, ready, requested, status, clock>>

Elapse ==
  /\ clock < MaxClock /\ clock' = clock + 1
  /\ UNCHANGED <<signalled, host, window, ready, requested, status, queue, tasks, nextEv>>

---------------------------------------------------------------------------
(* PumpPerform.  The run loop clears the signal before it calls it.        *)

Perform ==
  /\ signalled /\ RunLoopRuns
  /\ signalled' = FALSE
  /\ IF InPump
     THEN pending' = TRUE /\ UNCHANGED <<stack, phase, failed>>
     ELSE /\ stack' = Append(stack, "pump")
          /\ pending' = FALSE /\ phase' = "messages" /\ failed' = FALSE
  /\ UNCHANGED <<halted, window, ready, requested, status, queue, tasks, nextEv, clock>>

\* Dart_HandleMessages has returned.  An error before the window is up ends
\* the program, one after it is logged.
Drained ==
  /\ Pumping("messages") /\ queue = <<>>
  /\ IF failed /\ ~ready THEN halted' = TRUE /\ UNCHANGED phase
     ELSE phase' = "reload" /\ UNCHANGED halted
  /\ UNCHANGED <<signalled, stack, pending, failed, window, ready, requested, status,
                 queue, tasks, nextEv, clock>>

\* Mutant of Reload: the flag is cleared when the reload has succeeded.
ReloadKeepsRequest ==
  /\ Pumping("reload")
  /\ phase' = "again"
  /\ IF requested THEN status' \in {"ok", "ERR"} ELSE UNCHANGED status
  /\ requested' = (requested /\ status' = "ERR")
  /\ UNCHANGED <<signalled, stack, pending, failed, halted, window, ready,
                 queue, tasks, nextEv, clock>>

\* PerformUiReload: ReloadSources succeeds, or is cancelled and changes nothing.
Reload ==
  /\ Pumping("reload")
  /\ phase' = "again"
  /\ IF requested THEN status' \in {"ok", "ERR"} ELSE UNCHANGED status
  /\ requested' = FALSE
  /\ UNCHANGED <<signalled, stack, pending, failed, halted, window, ready,
                 queue, tasks, nextEv, clock>>

PumpAgain ==
  /\ Pumping("again")
  /\ phase' = "messages"
  /\ IF pending THEN pending' = FALSE /\ failed' = FALSE /\ UNCHANGED stack
     ELSE stack' = SubSeq(stack, 1, Len(stack) - 1) /\ UNCHANGED <<pending, failed>>
  /\ UNCHANGED <<signalled, halted, window, ready, requested, status, queue, tasks, nextEv, clock>>

---------------------------------------------------------------------------
(* The natives of the UI isolate that speak to the host.                   *)

WorkspaceRequestUiReload == requested' = TRUE /\ NotifyUi
WorkspaceUiReady         == ready' = TRUE
WorkspaceUiReloadStatus  == status' = ""

---------------------------------------------------------------------------
(* The handlers of the UI isolate.                                         *)

Receive(kind) == Pumping("messages") /\ queue # <<>> /\ Head(queue).k = kind
Taken == queue' = Tail(queue) /\ UNCHANGED signalled
TakenAndSent(m) == queue' = Append(Tail(queue), m) /\ NotifyUi

Throws ==
  /\ Receive("throws")
  /\ failed' = TRUE
  /\ Taken
  /\ UNCHANGED <<stack, phase, pending, halted, window, ready, requested, status, tasks, nextEv, clock>>

\* main() up to its await of the language isolate; it may throw.
Main ==
  /\ Receive("main")
  /\ \/ up' = TRUE /\ UNCHANGED failed /\ TakenAndSent([k |-> "spawned"])
     \/ up' \in BOOLEAN /\ failed' = TRUE /\ Taken
  /\ UNCHANGED <<stack, phase, pending, halted, recent, built, ready, requested, status,
                 tasks, nextEv, clock>>

\* The rest of main(), to wsUiReady(); it may throw as well.
MainGoesOn ==
  /\ Receive("spawned")
  /\ Taken
  /\ \/ WorkspaceUiReady /\ UNCHANGED failed
     \/ failed' = TRUE /\ UNCHANGED ready
  /\ UNCHANGED <<stack, phase, pending, halted, window, requested, status, tasks, nextEv, clock>>

\* An attempt to rebuild the window: the nth of its time.
Attempt == [at |-> clock, nth |-> Cardinality({a \in recent : a.at = clock}) + 1]

\* _rebuildAllowed: the attempts of the last StormTime, this one included.
Recent == {a \in recent : clock - a.at < StormTime} \union {Attempt}

\* Mutant of Allowed: the bound is tested before this attempt is counted.
AllowedOneMore == Cardinality(Recent) - 1 <= StormN

Allowed == Cardinality(Recent) <= StormN

\* rebuildUi(): an attempt counts whether it is allowed or not.
RebuildUi ==
  /\ recent' = Recent
  /\ built' = IF Allowed THEN built \union {Attempt} ELSE built
  /\ UNCHANGED up

\* Mutant of RebuiltTasks: the rebuild drops what waits for the old window.
RebuiltTasksDropped(rest) == <<>>

\* disposeCallbacks drops the tickets of the old views, not the bodies deferred.
RebuiltTasks(rest) == rest

\* The poll of the metrics tick takes the outcome of a reload.
Tick ==
  /\ Receive("tick")
  /\ Taken
  /\ WorkspaceUiReloadStatus
  /\ IF status = "ok" /\ up THEN RebuildUi /\ tasks' = RebuiltTasks(tasks)
     ELSE UNCHANGED <<window, tasks>>
  /\ UNCHANGED <<host, ready, requested, nextEv, clock>>

Forget(id) == [i \in DOMAIN tasks \ {id} |-> tasks[i]]

\* The listener of initEvents.  A reload is asked for when the compile check is
\* back, the panel is opened from a timer; what a body throws is caught.
Deferred ==
  /\ Receive("deferred")
  /\ LET id == Head(queue).id IN
     IF id \notin DOMAIN tasks THEN Taken /\ UNCHANGED <<tasks, window>>
     ELSE /\ IF tasks[id] \in {"panel", "reload"}
             THEN TakenAndSent([k |-> IF tasks[id] = "panel" THEN "panel" ELSE "checked"])
             ELSE Taken
          /\ IF tasks[id] = "rebuild"
             THEN tasks' = RebuiltTasks(Forget(id)) /\ RebuildUi
             ELSE tasks' = Forget(id) /\ UNCHANGED window
  /\ UNCHANGED <<host, ready, requested, status, nextEv, clock>>

\* The end of reloadUi(): refused by the compile check, or asked of the host.
Checked ==
  /\ Receive("checked")
  /\ queue' = Tail(queue)
  /\ \/ WorkspaceRequestUiReload
     \/ UNCHANGED <<requested, signalled>>
  /\ UNCHANGED <<host, window, ready, status, tasks, nextEv, clock>>

\* runModal(): the run loop runs again, above the handler.
OpenPanel ==
  /\ Receive("panel")
  /\ Taken
  /\ stack' = Append(stack, "panel")
  /\ UNCHANGED <<phase, pending, failed, halted, window, ready, requested, status, tasks, nextEv, clock>>

ClosePanel ==
  /\ ~halted /\ Top = "panel"
  /\ stack' = SubSeq(stack, 1, Len(stack) - 1)
  /\ UNCHANGED <<signalled, phase, pending, failed, halted, window, ready, requested, status,
                 queue, tasks, nextEv, clock>>

Handle == Throws \/ Main \/ MainGoesOn \/ Tick \/ Deferred \/ Checked \/ OpenPanel
Pump   == Drained \/ Reload \/ PumpAgain

\* exit(70), and the events of the user used up, are ends of the model.
Next ==
  \/ TimerTick \/ OtherThread \/ Elapse
  \/ \E b \in Bodies : Event(b)
  \/ Perform \/ Handle \/ Pump \/ ClosePanel

\* The run loop runs, a pump goes on, a panel is closed in the end.  The timer
\* waits 250 ms before it fires again, so that a drain is not kept going by it
\* for ever: strong fairness of Drained.
Fairness ==
  /\ WF_vars(Perform) /\ WF_vars(Handle) /\ WF_vars(Reload \/ PumpAgain)
  /\ SF_vars(Drained) /\ WF_vars(ClosePanel)

Spec == Init /\ [][Next]_vars
FairSpec == Spec /\ Fairness

---------------------------------------------------------------------------
(* Properties.                                                             *)

Kinds == {"main", "spawned", "tick", "throws", "deferred", "checked", "panel"}

\* The variables have their types; PumpPerform is never on the stack twice, and
\* nothing but a file panel runs above it.
TypeOK ==
  /\ signalled \in BOOLEAN /\ pending \in BOOLEAN /\ failed \in BOOLEAN
  /\ ready \in BOOLEAN /\ requested \in BOOLEAN /\ up \in BOOLEAN /\ halted \in BOOLEAN
  /\ stack \in {<<>>, <<"pump">>, <<"pump", "panel">>}
  /\ phase \in {"messages", "reload", "again"}
  /\ status \in {"", "ok", "ERR"}
  /\ \A i \in DOMAIN queue : queue[i].k \in Kinds
  /\ nextEv \in Nat /\ clock \in Nat
  /\ \A id \in DOMAIN tasks : tasks[id] \in Bodies

\* The code of the UI is exchanged only with no Dart frame on thread 0: not
\* under a handler, nor under the modal loop of a panel that a handler opened
\* (cocoa_host.mm, g_ui_reload_requested).
NoReloadUnderFrames == phase = "reload" => stack = <<"pump">>

\* No wakeup is lost, though the run loop clears the signal first and a nested
\* PumpPerform handles nothing: while a message waits, the source is signalled
\* or a pump is going to look; a request for a reload likewise.
WakeupKept ==
  ~halted =>
    /\ queue # <<>> => signalled \/ (InPump /\ (pending \/ phase = "messages"))
    /\ requested => signalled \/ (InPump /\ (pending \/ phase \in {"messages", "reload"}))

\* Every click waits for its turn exactly once: the bodies deferred are those
\* of the messages still queued, whatever was rebuilt or thrown in between.
ClicksKept ==
  /\ \A i \in DOMAIN queue : queue[i].k = "deferred" => queue[i].id \in DOMAIN tasks
  /\ \A id \in DOMAIN tasks : \E i \in DOMAIN queue : queue[i].k = "deferred" /\ queue[i].id = id
  /\ \A i, j \in DOMAIN queue :
       queue[i].k = "deferred" /\ queue[j].k = "deferred" /\ queue[i].id = queue[j].id => i = j

\* Within StormTime the window is rebuilt at most StormN times, by reloads and
\* by the menu together.
NoStorm ==
  \A t \in 0 .. MaxClock : Cardinality({a \in built : t <= a.at /\ a.at < t + StormTime}) <= StormN

\* A reload that was asked for is carried out or cancelled, as long as the
\* program runs; a panel that is open puts it off.
RequestServed == requested ~> (~requested \/ halted)
===========================================================================
