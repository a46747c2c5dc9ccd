# The MACDART workspace, specified

TLA+ models of the workspace under `src/macdart/cocoa`, TLC configurations that check them
on small instances, and TLAPS proofs of the results that matter most for every instance.

MACDART is the Dart 1.24.3 VM ported to macOS with a native Cocoa workspace on top of it. The
program is a Smalltalk-like environment: the user writes declarations, they are compiled into a
living isolate, and a SQLite file - the image - keeps them. Its correctness is about *who holds
which version of what*: an isolate that may hang or be killed, a file it was compiled from, a
database, a debugger that stops it, a demo that draws on the window of another isolate - and, under
the isolates, the native code on the main thread: the pump, the bridge to Objective-C, the game
pane on the GPU, the synthesiser, the SQLite binding.

Contents: [system](#the-system) · [modules](#the-modules) · [runs](#the-runs) ·
[fairness](#fairness) · [proofs](#what-is-proved) · [findings](#where-the-code-and-its-comments-differ) ·
[not modelled](#what-is-not-modelled) · [plan](#plan).

Paths below are relative to `src/macdart/cocoa`.

## The system

One process runs the VM. Its isolates share no memory; they exchange messages. AppKit's main
thread runs the UI isolate through a pump; every other isolate runs on a thread of the VM's pool.

| component | code | state it keeps | operations |
|---|---|---|---|
| Image | `workspace/language.dart` | `_decls`, the SQLite rows, the scratch root file, the declarations the VM runs | accept, accept live, remove, workspace variables, reset, boot, reload |
| Request channel, watchdog | `workspace/workspace.dart` 1376-1618, 4823-4860 | `gLang`, `gLangGen`, `gLangIsolate`, `gRespawning`, `gAskPending`, the deadline of each request | launch, `ask`, tick, respawn, exit notice |
| Debugger | `workspace/workspace.dart` 2342-3037 | `gDbgPaused`, `gDebugHold`, `gLangIsolateId`, `gDbgBreaks`, calls under way on the service socket | pause, resume, step, conditional stop, attach, the driver's hold, breakpoints |
| Demos | `workspace/workspace.dart` 3039-3430 | `gDemoIso`, `gDemoTitle`, `gDemoCtl`, `gGpMode`, the pacer's clock, key capture | run, stop, paint, invite, switch tab |
| App surface | `workspace/language.dart` 616-786, `workspace.dart` 3598-3987 | the app's widget tree, the commands kept for a rebuild, the widgets on screen, events under way | run app, push, fire, stop, restart, rebuild |
| UI pump | `cocoa_host.mm`, `workspace_natives.cc` 105-128 | the run loop's signal, `g_in_pump`, `g_pending`, the reload request, its one-slot status | notify, perform, reload, poll |
| Callbacks | `cocoa_callbacks.mm`, `cocoa.dart`, `workspace.dart` 60-100 | tickets, deferred bodies, held keys | send from AppKit, defer, dispose |
| UI rebuild | `workspace/workspace.dart` 4059-4210 | the times of rebuilds, the recovery copy | rebuild, poll |
| Objective-C bridge | `cocoa_abi.cc`, `cocoa_natives.mm`, `objc_shim.m` | a method's tokens; retain counts against finalizable wrappers | classify, marshal, send; wrap, init, finalize |
| Game pane | `gamepane/gp_engine.mm`, `gp_natives.mm` | slots with CPU and GPU copies and dirty bits, the frame's command buffer, three buffers of the direct pane, sprites, the tune | open, draw, blit, swap, frame |
| Synthesiser | `gamepane/gp_synth.cc`, `gp_natives.mm` 315-357 | the shared generator, the sound slots | render, burst, normalise, define, play |
| SQLite binding | `sqlite_natives.cc` | the connection; the locks and rows are SQLite's | open, exec, query |
| Compile gate | `workspace/workspace.dart` 4289-4560 | the check of one text by a spawned compiler | check, guarded accept |
| Help | `workspace/workspace.dart` 3443-3596, `workspace/help/indexer.dart` | the query and its results | search, open |
| Demos, apps, tests, port scripts | `workspace/demos`, `workspace/apps`, `../tcl`, `../test`, `../port` | - | - |

How they interact:

```
 socket ─verbs──► UI isolate ──ask (SendPort, FIFO)──► language isolate ──► SQLite image
                   ▲  │  │  ◄──replies, app pushes───      │  ▲ kill, spawn   scratch file
        AppKit ────┘  │  └─WebSocket─► VM service ──pause/resume──┘
     (pump, callbacks)│                                    
                      └─ticks─► demo isolate ──frames──► UI isolate ──► canvas or Metal pane
```

What is hard in it, and what makes each part right:

* **Image.** One Accept is a write of the scratch file, a reload that may be refused, and one row
  per declaration; the watchdog may kill the isolate between any two. Right means: a refused
  Accept leaves no trace, an acknowledged source is never lost, what boots is what was saved.
* **Channel.** A reply may arrive after the deadline, an exit notice may arrive during a respawn, a
  kill takes effect late. Right means: each request ends exactly once, the isolate killed is the one
  at fault, there is never a second language isolate (but for a restart during
  the launch), and a dead one comes back.
* **Debugger.** An isolate stopped at a breakpoint looks to the watchdog exactly like one that
  hangs. Right means: once all is read, the hold is up just while the isolate is stopped, whatever order the
  replies and events of the service came in; a false condition never strands the isolate, a true or broken
  one is never silent; the socket that could press Continue is never parked.
* **Demos.** A demo outlives its load, its ports and its successor. Right means: Stop kills it,
  nothing it left behind reaches the next demo, and its frame loop neither stalls nor doubles.
* **App surface.** The two isolates each believe something about which app runs. Right means that
  the window shows what the app last described, after every stop, restart and rebuild.
* **Pump, callbacks, rebuild.** The run loop clears a signal before it calls; a handler may open a
  modal panel, which runs the loop again; the code that asks for a reload stands on the stack that a
  reload must not find. Right means: no wakeup and no click is lost, code is exchanged only under an
  empty stack, a request is served, and a window that fails is not rebuilt for ever.
* **Bridge.** One misread struct shifts every later argument of its register file. Right means
  that each word arrives where the callee looks for it.
* **Game pane.** A picture exists twice and the GPU works on its copy later. Right means that a slot
  believed clean is clean, whatever was drawn, blitted and swapped, and that the game never writes
  what the GPU reads.
* **Synthesiser.** One generator serves many sounds and everything adds up. Right means: the same
  command sounds the same, and nothing clips.
* **SQLite.** A second program may hold the lock at any step, and the first may end at any. Right means:
  a write happens once or not at all, as its answer says, and a list of rows is that of one moment.

`PROJECT.json` lists the hazards at their lines, with the properties that cover each.

## The modules

```
Image ◄── MCImage            AskOnce ◄── Channel ◄── MCChannel
  ▲                                        ▲
  └── ImageProofs                          └── ChannelProofs
Debugger ◄── MCDebugger      Demo ◄── MCDemo      AppSurface ◄── MCAppSurface
  ▲                           ▲                     ▲
  │                           └── DemoProofs        └── AppProofs
  ├── UiProofs
  ▼                          GpPane ◄── MCGpPane  Synth ◄── MCSynth
UiPump ◄── MCUiPump           ▲                     ▲
                              └── GpPaneProofs      └── SynthProofs
AtomicWrites ◄── Store ◄── MCStore     Marshal ◄── Abi ◄── MCAbi
                   ▲                                ▲
                   └───────── NativesProofs ────────┘
```

A name in a module is the name in the code wherever TLA+ allows it. Actions are cut where the
code can be interrupted: at an `await`, at the end of a message or timer callback, and, in the
language isolate, which a kill interrupts anywhere, at every effect that outlives the kill.

### Image

`decls` is the mirror `_decls`, `rows` and `comment` the columns of the table `decls`, `scratch`
the USER region of the scratch root file, `live` the declarations of the last reload the VM
accepted. A *world* maps each name to a source or to `NoDecl`; the constant `Loadable` is the set
of worlds the VM loads, so "the VM refuses this text" depends on all declarations at once, as it
does in the VM. `pc`, `op`, `batch`, `at` and `prev` are the program counter and the locals of the
handler that runs.

| actions | code (`language.dart` unless noted) |
|---|---|
| `Spawn`, `Kill`, `Relaunch` | `spawnLanguage`, `respawnLanguage`, `main` in `workspace.dart` 1560-1618, 4830-4853 |
| `Load`, `LoadReload` | `_loadFromImage` and the reload in `main` |
| `AcceptBegin` … `AcceptDone` | `_acceptMany`, and `_accept` with its live-only form |
| `RemoveBegin`, `ResetBegin`, `ResetUpsert`, `FinalWrite`, `FinalReload` | `_remove`, `_reset` |
| `DoItDeclare`, `DoItKnown`, `DeclWrite`, `DeclReload`, `Eval`, `Remember` | `_declareWsVar`, `_doIt`, `_rememberWsValue` |
| `SetComment` | the `setcomment` command |

`promised` and `drift` are observations that no action reads: the sources an owner may expect to
find saved under a name, and the names whose mirror and row differ although nothing was lost: added
live only, left behind by a reset, or declared twice by a refused Accept. `prev` is computed by `PrevOf` just as the loop does
it: a second declaration of one name in one batch remembers the first one, not what was there. Such a batch is legal:
`_declName` gives a getter and its setter one name. `Doubled(batch)` is the set of those names, the exception of `RefusedAcceptRestores`.

### AskOnce and Channel

`AskOnce` is what `ask()` promises a caller: a request that was refused never ran, one that was
answered ran exactly once, one that was given up ran at most once, perhaps after the caller was
told. `Channel` implements it: `ask[r]` is the state of one call of `_ask` with its locals (the
generation it was sent to and the ticks since), `proc`, `inbox` and `killed` are the language
isolates of all generations, `replies` and `exits` the messages under way to the UI. The
deadline tick has four outcomes, one action each (`TickLost`, `TickHeld`, `TickWaits`,
`TickOverdue`). `Init` is the launch: `main()` awaits the spawn of the first isolate, which `gRespawning` does not guard,
with the window and its menu up; the socket's verbs come only after it. A `MenuRestart` may therefore overtake the launch
(`overtaken`): it finds no isolate to kill, and closes the port the first one answers on, so that its
handshake is `Unheard` and `main()` never goes on (`ready` stays `FALSE`). A respawn is three steps (`StartRespawn`, `SpawnDone`, `Handshake`) because the
code awaits twice, and everything else may happen at the awaits; an isolate may end before its handshake, when nobody
listens for its exit yet. `Promise == INSTANCE AskOnce
WITH …` is the refinement mapping: both ways of waiting are `pending`, and lost, timed out and
failed are `gaveUp`.

`stopped` stands for the debugger's hold together with the isolate it holds. The cases in which
the two disagree are the subject of `Debugger`; to the channel, a hold dropped too early is an
isolate that hangs.

### Debugger

The VM service is `calls` (requests it has not served) and `wire` (frames on their way back, in
order). A reply completes a future, and what awaits it runs only when all frames of the same read
have been handled: `replies` holds the completed futures, and the user, timers and a restart find it
empty. `target` is `gLangIsolateId`, a generation of the language isolate or `Demo`; `gDbgIsLang`
is derived from it. Stops are numbered, so a property can speak of one stop. Each stop carries
what the condition of its breakpoint would say: `Plain`, `"true"`, `"false"`, or `"broken"` for an
expression that throws or is not a bool. `armed` is the generation whose breakpoints are armed: a
new isolate has none until `dbgReResolve`. The driver's verbs `dbghold` and `dbgrelease` count on the same `gDebugHold`. No action reads
the notes `strayed` (attached elsewhere), `lent` (holds of the driver), `robbed` (a release took a hold that was another's)
and `drift` (which of the two known ways has led pause and stop apart). The specification is `DebugSpec`,
with `DebugInit` and `DebugNext`: one module of proofs, `UiProofs`, extends both this module and `UiPump`, and a name means one thing in it.

| actions | code (`workspace.dart`) |
|---|---|
| `ReceivePause`, `ReceiveResume`, `ReceiveReply` | `onVmsEvent`, with `_dbgHold` and `debugRelease`; the completers of `vmsCall` |
| `AfterJudgeFalse`, `AfterJudgeStops` | `_dbgMaybeConditionalPause` after its await |
| `Continue`, `AfterResume` | `dbgResume` before and after its await |
| `Attach`, `AfterGetVM` | `dbgAttach`, `vmsResolveTarget` |
| `DriverHold`, `DriverRelease` | the verbs `dbghold`, `dbgrelease` |
| `VerbStart`, `VerbEnds`, `Timeout` | `askDeferrable`, and the watchdog of `ask` |
| `Respawn`, `MenuRestart`, `Booted` | `respawnLanguage` with `dbgForgetPause` |

### Demo

One record of a *run* stands for a call of `runDemoAt`: its isolate, the messages on its ports
(`inbox`; the three ports are opened and closed together), the invitations it has not answered
(`ticks`). Time is in units of `kMinDrawGapMs` (15 ms), so the pull period of 33 ms is 2; `due` is
what is left until a paint is allowed, `timers` the scheduled invitations. A paint may cost
less than the period, or more, and the pacer's two waits (`Gap`, `Wait`) are computed from it as in
`drawDue` and `invitePull`. A kill is immediate: what the demo still sends, it sends to a port
that is closed, so the delay shows nowhere.

### AppSurface

The language isolate's side is `app` (the class of `_app`; the surface comes and goes with it),
`version` (the state of the instance) and `described` (what its commands so far describe); the UI's
side is `gAppName`, `views` and `gAppSpec`. What an app describes is abstracted to one widget, with
the app that made it and the version it shows: enough to tell an old view from a new one and one
app's from another's. `gAppSpec`, a list of commands in the code, is represented by what
replaying it shows. `wire` carries pushes and replies in the order they were sent, which is the order in which
one isolate's messages reach another; commands issued in one message or timer are one push, because
`flush` runs before the reply, or in the microtask at the end of a timer. Closing a port turns what is still on its way
to it into a `Dead` message, which is taken and has no effect (`Closed`, `TakeDead`).

| actions | code |
|---|---|
| `ServeRun…`, `ServeStop`, `ServeBuild`, `ServeEvent…` | `_appRun`, `_appStop`, `_appBuild`, `_appEvent` in `language.dart` |
| `Tick`, `TickOfStopped` | `AppSurface._cmd` from a timer; of an app whose optional `stop()` left it running |
| `AppRun`, `AppStop`, `AppRebuild`, `AppFire` with `Ends` | the functions of the same names in `workspace.dart`, before and after their await |
| `TakePush`, `RebuildUi` | `onAppPush`, `appApply`; `rebuildUi` with `appRematerialise` |
| `Respawn`, `ServeLate`, `Lost`, `Handshake` | `respawnLanguage` with `appOnRespawn`; the port of pushes is closed, the ports of replies are not |

A run or rebuild may fail at three places: the class is not in the image, the constructor throws,
`build()` throws. The restart of the isolate is free to happen at any time; `Channel` says when it does.

### UiPump

Thread 0. `stack` is what runs on it above the run loop: `PumpPerform`, and a file panel that a
handler opened, which runs the loop again. `Perform` is a call by the run loop, which has cleared
`signalled` before: at the bottom it starts a drain, re-entered it only notes `pending`. `phase`
is how far the outer one is: handling messages, serving a reload, signalling itself again.
`queue` holds the messages of the UI isolate; `NotifyUi` runs at every send, on any thread.
`tasks` is `_evPending`, the bodies that `defer` took out of AppKit's callbacks; `recent` is
`_rebuildTimes`, as a set: an attempt is its time and how many there were at that time before. `built`, the attempts that were allowed, is an observation.

| actions | code |
|---|---|
| `Perform`, `Drained`, `Reload`, `PumpAgain` | `PumpPerform`, `PerformUiReload` in `cocoa_host.mm` |
| `Main`, `MainGoesOn`, `Throws` | the UI isolate's `main`; a message that throws, fatal until `wsUiReady` |
| `Event`, `Deferred` | `defer` and the listener of `initEvents` in `workspace.dart` |
| `Checked`, `Tick` | `reloadUi` after its compile check; `pollUiReload`, which takes the one-slot status and rebuilds |
| `OpenPanel`, `ClosePanel` | `runModal` from a timer |

`Dart_HandleMessages` is taken to drain to the end even when a message throws. Two reloads between
two polls leave one status; the second overwrites the first, as in the code.

### GpPane

`buffers` are the CPU mirrors, `textures` which texture each slot has (a swap exchanges them),
`texels` what the textures hold. `encoded` is the frame's command buffer, `submitted` what the GPU
has not done yet: `replaceRegion` and the game write at once, kernels run when `GpuStep` comes to
them. One row of pixels with one-bit colours stands for a world: the second dimension repeats the
first, and one bit is what each blit mode computes on its own. A blit may be between any two slots and may name any numbers, a clear
a source too. Within one slot the loop over the mirror reads what it has just written (`Blitted`, from the left), while the
threads of the kernel come in any order (`Outcomes`, `GpuRace`). A native call (`Cocoa_gpApply`) is
not interrupted, but the GPU runs beside it, so its commands are actions of their own.
`crossed` and `torn` are observations: the textures that an upload reached before a kernel that
the mirror had already had (see `pane_mirror`), and those that a kernel within one texture left otherwise than the mirror.

### Synth

All presets and effects of `gp_synth.cc`, frame by frame, with levels as integers
(`Unit` of them are 1.0) and scaled-down rates. `Preset` gives the effect each command builds,
`AddOscillator` and `MixFrame` are the loop of `render`, `TapFrame` is the echo in place,
`BurstFrame` is `noise_burst` with its pink and brown filters. `session` is the generator
that lives as long as the program; a noisy preset of the code that has a seed of its own has
`OwnGenerator`. `tanh` is abstracted to its saturation, `sin` is a table.

### Marshal and Abi

`Marshal` is a send: `Cocoa_send` (`MarshalFloat`, `MarshalHfa`, `MarshalInts`, `MarshalWord`) fills the two register
files from the tokens, an argument a step; `Send` is the shim. Of `ClassifyMethod` it states only what a send relies on (`Classify`,
`Told`): each token is the one `TokenOf` gives for a type measured right. The reference is the arm64 calling convention stated over the
layout of the types (`Travel`, `Stream`), which never looks at a token. `InShape` names the sends the fixed shape of the shim can carry.
Outside it, quietly: floats of four bytes are written and read as doubles, a union of floats is counted member by member, large structs are
passed as 0, words beyond six integer or eight float registers are dropped. (The first line of `objc_shim.m` says "marshals ANY send".)

`Abi` is `ClassifyMethod` itself, on the text of a method's encoding, and implements `Marshal` (`ClassifiesRight`). A type is a
tree; its text `Encode(t)` and its layout `Layout(t)` are constants that obey a rule for each sort of type (`EncodingRule`, what the
Objective-C runtime writes; `LayoutRule`, what the convention makes of it). `ParseType`, `ParseAgg` and `ParseArray` call each other; the
calls under way are the frames of `stack`, and a step is what one of them takes from the text:

| actions | code (`cocoa_abi.cc`) |
|---|---|
| `Skip` | `SkipQuals`, the names of fields, the numbers between types (23-31, 76-82, 181) |
| `OpenPointer`, `ClosePointer` | `^` in `ParseType`, before and after the type it points to (124) |
| `OpenFields`, `NameOnly`, `NextField`, `CloseFields` | `ParseAgg` with `MergeHfa` (50-103) |
| `OpenArray`, `CloseArray` | `ParseArray` (105-116) |
| `Leaf` | the rest of `ParseType` (125-147) |
| `ReadType`, `ReadEnd` | the loop of `ClassifyMethod` (178-192) |

Neither `void`, nor a struct known by name only, nor a bit-field, which the convention packs with its neighbours while `ParseAgg` gives
it bytes of its own, has a size in `Layout`; nothing is promised of what holds one by value.

### Store

Two programs that have one image open: two launches, or a killed isolate's process and its successor. A
native call of `sqlite_natives.cc` is cut where SQLite takes or waits for a lock, and where the file changes: `Call` prepares and binds;
`StepNothing`, or `StepWrite` (the reserved lock; `pages` are the rows as the write will leave them), `Commit` (the
exclusive one) and `EndCommit` (journal deleted, or rolled back when the disk is full) are one `sqlite3_step` of a write;
`ExecReturn` finalizes and answers by the code in `rc`. `StepRow`, `LastRow`, `RowRefused` are the loop of a
query. `Refused` is `SQLITE_BUSY` (no busy timeout is set). `Crash` ends a program anywhere, between SQLite's commit and the
answer too: then a write shows that nobody was told of. SQLite itself is external, with a rollback journal.

`AtomicWrites` is what `Db.exec` promises: a write happens at one instant of its call, on what the writes before it left,
or not at all; `""` means that it did, an error that it did not, and if its program ends first, it has happened by then or
never will. `Promise == INSTANCE AtomicWrites WITH write <- …` is the refinement mapping.

## The runs

Every bound is a constant of a `.cfg` or a definition of the MC module. State counts are of
distinct states.

| run | checks | states |
|---|---|---|
| `image` | `RefusedAcceptRestores`, `SavedIsPromised`, `MirrorDriftAccounted`, `ImageWrittenAfterReload`, `BootRestoresImage` | 1,091,003 |
| `image_wedge` | finds `NeverWedged` violated | - |
| `channel` | `OneLanguageIsolate`, `PendingIsInFlight`, `RespawnJustified`, `EveryAskEnds`, `LanguageComesBack`, `KeepsPromise` | 229,274 |
| `debugger` | `HoldIsStop`, `SkippedStopEnds`, `OtherStopShows`, `VerbAnswered` | 196,345 |
| `demo` | `HandleKept`, `LoopTurns`, `PaneIsOwners`, `KeysFollow`, `TickForOwner` | 254,982 |
| `app` | `WindowShowsApp`, `IdleIsBlank`, `RebuildRestores`, `EventForItsApp`, `EffectBeforeReply` | 2,321,876 |
| `pump` | `NoReloadUnderFrames`, `WakeupKept`, `ClicksKept`, `NoStorm`, `RequestServed` | 174,420 |
| `pane` | `SlotsAgree`, `BlitExact` | 379,631 |
| `pane_mirror` | finds `MirrorTruthful` violated | - |
| `synth` | `Repeatable`, `NeverClips` | 868,209 |
| `abi` | `SendArrives`, `ClassifiesRight` | 79,781 |
| `store` | `WritesAreAtomic`, `RowsOfOneState` | 225,583 |

`TypeOK` of a module states the types of its variables; for `Image` and `Channel` it is proved, and the
runs spend their properties on what a type cannot say.

**image.** Three names - a class, a variable, a name that is a Dart keyword - and five sources: a
class that loads, a text that never does, one that loads only where the class is declared, and
the two forms a workspace variable is written back in. Four batches: a good one, two declarations of which the second
depends on the first, two of which the second is refused, and one that declares a name twice and may be refused. With these every action fires, every row write can be the one a kill follows, and the
`Loadable` sets are not closed under removal, so a saved world that no longer loads is reached. Time
is not bounded: kills and relaunches may come any number of times. What a third declaration in a
batch adds to the interleaving of a kill with two row writes is covered by the proofs.

**channel.** From the launch on: two requests, a deadline of one tick, two mishaps (a hang, an exit, a failed spawn, a
restart from the menu), and as many generations as those can use up (`MCMaxGens`), so the bound
never holds a respawn back. Two requests are the least in which one is overdue while
another is in the inbox, and both are overdue at the same generation; two mishaps the least in
which the isolate started after one meets another. The requests are alike, so
it is enough to look at the behaviours in which a certain one is made first (`MCInOrder`, a CONSTRAINT); no fairness is on making a request, so
this cuts no behaviour that liveness is about. The liveness properties exempt what is `Stranded`: after a failed spawn,
or an end before the handshake, nothing starts another isolate.

**debugger.** Two stops and two acts, of the user or the driver: enough for a stop that follows a resume at once,
for a resume that meets a condition under evaluation, and for a restart or a change of target in
between. The properties exempt a debugger that was attached elsewhere (`strayed`), because
`dbgAttach` brings neither the pause nor the hold up to date; that is listed as a hazard. `HoldIsStop` compares the hold with the
isolate itself, and not with the other flag of the UI: with nothing left to read, the hold is what the driver lent and one more exactly at a stop. It
names the two ways in which the code misses that ([below](#where-the-code-and-its-comments-differ)); without either the run fails. It
makes no claim once a release has taken somebody else's hold (`robbed`).

**demo.** Three runs of any kind, so the third can find what an overlap of the first two left
behind; paint costs from nothing to more than the pull period. `LoopTurns` exempts a demo that
sent a frame the canvas cannot render (`spoilt`): a frame that throws schedules no invitation.
`HandleKept` exempts runs that were started while another was loading; what the load window does to
the handle is described [below](#where-the-code-and-its-comments-differ).

**app.** Two apps, one of which has no `stop()`, five acts (of the user, the debugger or the watchdog),
two changes of an app's state, and one request of a kind under way at a time. Five acts
are run, use, replace, stop and rebuild, in any order and overlap. The properties set two kinds of
behaviour apart. In a `crossed` one a Run or Stop was still under way when another command, a rebuild of the
window or a restart came: there the code gives no guarantee - a late answer to Stop clears the
window of the app started since. In an `amiss` one the UI has forgotten an app that runs, because a Run failed after the
app was made.

**pump.** Four events (clicks that paint, open a panel, ask for a reload or rebuild the window, and
messages that throw), a clock of two units and a storm of two rebuilds within two. Four is the least in which a
panel is open, a click waits above it, a reload is asked for below it and a third rebuild is refused; a
clock of two lets a rebuild leave the window of the backstop.

**pane.** Three pixels, the two screens and one asset slot, twelve blits - every mode, cut at the left of the
source, at the left of the destination, at the right of either, wholly outside, within one slot to either side and onto itself, a clear with a
source left of the world and one right of it - and five draws,
three commands over four frames, indexed or direct. Three commands are a draw, a blit and a swap in any order; the GPU may lag
behind by all four frames. `pane_mirror` checks the slots without the exception for crossed uploads.

**synth.** Eighteen commands and five effects given directly, at a hundred frames a second and at most 0.08 s; three sounds in two slots, so a noise
may come between two sounds that should be the same. The effects add up four oscillators, echo with a delay shorter
than, equal to and longer than the sound, distort, and run to the bound of duration. The generator has twelve bits.

**abi.** Twenty-nine types - scalars, pointers, objects, blocks, qualified and nested pointers, structs padded inside and at the end, with
two widths, with arrays, bit fields and unions - each as result and as argument, all pairs of them, and three and four
arguments of five types, which fill a register file. `MCAbi` computes `Encode` and `Layout` by recursion over the tree, and TLC checks that they obey
the rules the proofs assume (`AbiAssumption`).

**store.** Two programs, two declarations, two texts, three calls or crashes after the boots, of old, new and missing tables.
Two programs are enough for each way one lock refuses another, two rows for a query that is cut between them. Programs and texts are
symmetric: no property here is a liveness property.

Deadlock is checked in the image and demo runs, and not in the others
(`CHECK_DEADLOCK FALSE`): there the system may rest for good, when all requests have ended, the
bounded acts are used up, or the isolate stands at a breakpoint nobody continues.

## Fairness

`Channel`, `Debugger` and `UiPump` have liveness properties. Fairness is weak, with one exception, per request or
per isolate, and only on what the program's own scheduler owes:

* the UI isolate's event loop serves every message and every periodic timer (`Tick`, `Deliver`,
  `ExitNotice`; `Receive`, `GoOn`, `Timeout`): they are Dart timers and ports, drained by the pump;
* a spawn that does not fail ends (`SpawnDone`, `Handshake`, `Unheard`, `Booted`);
* a kill takes effect (`KillTakesEffect`): `kill(IMMEDIATE)` interrupts even a loop;
* the run loop calls a source that is signalled, the pump goes through its phases, a message that is
  first in the queue is handled, a panel is closed some time (`Perform`, `Handle`, `Reload`, `PumpAgain`,
  `ClosePanel`). Strong fairness is on `Drained` alone: the metrics timer puts a message into the queue
  while others are handled, but waits 250 ms before the next, so the queue is empty again and again
  and a drain does not go on for ever;
* an isolate that is not hung serves its inbox (`Serve`), and the VM service answers (`Service`).

There is none on the user (asking, stopping, continuing, restarting), none on user code ending
(`VerbEnds`), none on mishaps. `EveryAskEnds` and `LanguageComesBack` therefore hold although
user code may hang at any moment, and they name their exceptions: a request waits as long as the
debugger keeps the isolate stopped, which is intended, and for ever after a respawn is `Stranded`,
which is not (see the findings).

## What is proved

The eight modules of proofs prove the following for all values of the constants that satisfy the
assumptions of their modules (`ImageAssumption`, `ChannelAssumption`, `DebuggerAssumption`, `DemoAssumption`,
`AppAssumption`, `PumpAssumption`, `PaneAssumption`, `SynthAssumption`, `StoreAssumption`, `MarshalAssumption`, `AbiAssumption`).
With the liveness properties set aside, every property of every passing run is among them.

| theorem | statement |
|---|---|
| `ImageProofs!TypeCorrect` | `Spec => []TypeOK` |
| `ImageProofs!Durability` | `Spec => []SavedIsPromised` |
| `ImageProofs!WrittenAfterReload` | `Spec => ImageWrittenAfterReload` |
| `ImageProofs!BootRestores` | `Spec => BootRestoresImage` |
| `ImageProofs!RefusedRestores` | `Spec => []RefusedAcceptRestores` |
| `ImageProofs!DriftAccounted` | `Spec => []MirrorDriftAccounted` |
| `ChannelProofs!OneIsolate` | `Spec => []OneLanguageIsolate` |
| `ChannelProofs!PendingCounts` | `Spec => []PendingIsInFlight` |
| `ChannelProofs!RespawnIsJustified` | `Spec => RespawnJustified` |
| `ChannelProofs!TypeCorrect` | `Spec => []TypeOK` |
| `ChannelProofs!AskKeepsPromise` | `Spec => KeepsPromise`, that is, `Channel` implements `AskOnce` |
| `UiProofs!HoldFollowsStop` | `DebugSpec => []HoldIsStop` |
| `DemoProofs!PaneIsItsOwners` | `Spec => []PaneIsOwners` |
| `DemoProofs!KeysFollowDemo` | `Spec => []KeysFollow` |
| `DemoProofs!HandleIsKept` | `Spec => []HandleKept` |
| `DemoProofs!TicksForOwner` | `Spec => TickForOwner` |
| `DemoProofs!LoopTurnsOnce` | `Spec => []LoopTurns` |
| `AppProofs!WindowShows` | `Spec => []WindowShowsApp` |
| `AppProofs!NothingLeft` | `Spec => []IdleIsBlank` |
| `AppProofs!RebuildsRestore` | `Spec => []RebuildRestores` |
| `AppProofs!ClicksReachTheirApp` | `Spec => []EventForItsApp` |
| `AppProofs!EffectsComeFirst` | `Spec => EffectBeforeReply` |
| `UiProofs!ReloadsBare` | `Spec => []NoReloadUnderFrames` |
| `UiProofs!NoWakeupLost` | `Spec => []WakeupKept` |
| `UiProofs!ClicksAreKept` | `Spec => []ClicksKept` |
| `UiProofs!RebuildsDoNotStorm` | `Spec => []NoStorm` |
| `NativesProofs!WritesHappenOnce` | `Spec => WritesAreAtomic`, that is, `Store` implements `AtomicWrites` |
| `NativesProofs!ReadsOneState` | `Spec => []OneState`: the rows a query has begun to read stay |
| `NativesProofs!RowsAreOfOneState` | `Spec => []RowsOfOneState` |
| `NativesProofs!WordsArrive` | `MarshalSpec => []SendArrives` |
| `NativesProofs!AbiImplementsMarshal` | `AbiSpec => ClassifiesRight`, that is, `Abi` implements `Marshal` |
| `NativesProofs!AbiWordsArrive` | `AbiSpec => []SendArrives` |
| `GpPaneProofs!BlitsAreExact` | `Spec => BlitExact` |
| `GpPaneProofs!RaceNeedsThreeFrames` | `Spec => [](DirectBuffersFree \/ Len(submitted) >= kBuffers)`: the game gets a buffer the GPU is still to read only with three frames under way |
| `GpPaneProofs!SlotsAgreeAlways` | `Spec => []SlotsAgree` |
| `SynthProofs!NothingClips` | `Spec => []NeverClips` |
| `SynthProofs!SoundsRepeat` | `Spec => []Repeatable` |

Assumptions. `ImageAssumption` says that "no declaration" is not a source, that a do-it writes back
variable declarations only, that the empty world loads (the template itself does), and that a
batch is a finite list. Nothing is assumed of `Loadable` beyond that: the theorems hold for any
language in which a set of declarations either loads or does not. `ChannelAssumption` says that
requests are finitely many and the bounds are natural numbers; `MaxGens` may be so small that it
holds a respawn back, which costs liveness but no theorem. `DebuggerAssumption`
says only that the bounds are natural numbers, `DemoAssumption` that they are and that the kinds are
those there are; `PumpAssumption` that the bounds are natural numbers and the two of the storm are not 0.
`AppAssumption` says that no app is called `None` or like another request, and that those with a `stop()` are apps;
`StoreAssumption` that the order of the rows names each declaration once, `name` being the primary key of the table.
`PaneAssumption` says that a blit names two slots, or one twice, and whole numbers. `SynthAssumption` says that rates and the generator's
constants are positive where the code divides by them, the sine is within full scale, effects have their
fields in range, and a sound asked for has one of the thirteen names with whole numbers for its arguments.
`MarshalAssumption` says that the types of a method have layouts, and `AbiAssumption` that the types are closed under what they are made of and that
`Encode` and `Layout` obey their rules: these are recursion equations over the tree, so for finite types they leave no choice.

The arguments. None of the invariants is inductive as it stands.

* *Image.* `Typing` adds to the types which request is served where (`Shape`). `Saving` says why
  a kill between two rows does no harm: while rows are written the VM runs the mirror, the promise
  already covers every name of the batch, and the rows before `at` hold it. `Rollback` says that
  until the mirror is put back, `prev` is what was there, but for names declared twice (the lemma `PrevOfOnce`), and
  neither image nor VM has moved. `Drifting` says that during an accept
  mirror and image may differ in the names still to be written, and that what would be put back
  does not.
* *Channel.* `Lineage` is the invariant of supervision: `gLangIsolate`, which the next respawn
  kills, is the newest generation whenever a respawn can start; generations beyond it do not exist;
  every other living one has been told to die. A respawn that overtakes the launch adds one exception, the first
  isolate: it may come to live beside the newest, or take `gLangIsolate` back and leave the newest beyond the reach of
  the next kill; either way there is at most one isolate that nobody will end. `Quiet`: until the first spawn is done no request is sent, so none is charged to it. `Accounts` is the count of requests in flight, with
  the cardinality lemmas for one that ends and for all that wait for a restart. `Ledger` says where
  each request is: unread in at most one inbox and then it has not run; a reply under way
  is to one that ran; a refused one has not run. From the three the step simulation follows, each
  step of `Channel` being a step of `AskOnce` or a stutter.

* *Demo.* `Ports`: only the run on show has messages waiting, and only it can hold the control port
  and the pane; so whatever is read from a port concerns the demo on show. `Handles`: without an
  overlap only the last run can be loading or alive, and an exit waiting to be read is that of
  an isolate that is gone; without that part `TakeExit` could clear the handle of one that lives.
  `Loop` is the invariant of the invitations. `Turn` names the three places one can be - a tick the demo owes a
  frame for, a timer, a frame that waits - and says for each that the paint will be allowed (`due`) by the time the
  frame comes: this is the inequality `Gap(c) <= Wait(c)` between the two waits the pacer computes. `Early`, `Pushing`
  and `Greets` say that the first invitation finds nothing already under way.

* *AppSurface.* `Queued`: a request under way is in the inbox or has its reply on the wire, once. `Steady`, which
  holds until something is crossed, has six parts: at most one Run or Stop is under way and a Stop forgets the app
  at once (`OneChange`); what a reply on the wire says of the app still holds, and behind the reply to a Stop only
  messages that make no widget follow (`Answered`); UI and isolate agree on the app between changes (`Agreed`); a click in the
  inbox is ahead of the next change (`Clicked`), which is `EventForItsApp`; what is kept is what is shown, or the next Run
  clears both before its answer (`Recorded`); an idle UI has only `Barren` messages on the way (`Empty`).
  `Outlook` relates the window to what is still on the wire: there is a sequence of views, from what is shown now, one for each
  message (`Leads`), that ends in what the app describes (`Shown`), and at a reply to a click it is what the click
  did. A message that is sent makes the sequence longer by what it does, one that is taken removes its first view; when the wire
  is empty its only member is both what is shown and what is described, which is `WindowShowsApp`, and
  when the reply to a click is first, `EffectBeforeReply`.

* *Debugger.* `HoldIsStop` compares what the UI counts with an isolate two queues away. `Holding`: until the user attaches
  elsewhere or somebody's hold is taken, the hold is what the driver lent and one more while the pause is up. That leaves the pause
  and the stop. `Order`: answers to `getVM` arrive in the order of the generations. `Follow`: breakpoints are armed where the debugger is, or
  the answer that will take it there is on its way; so an event of the isolate that runs is never passed over. `Told`: the last event of this
  isolate on the wire says whether it stands or runs; `Agree`: with no news on the wire the pause says so itself, unless `drift` names why not, or the
  resume of a false condition is under way. With nothing left to read, `Agree` and `Holding` are `HoldIsStop`.
  `Typing` carries the fact that no frame on the socket, read or unread, is of the isolate `Demo`, which
  only `Attach` makes the target.

* *UiPump.* The stack is empty, the pump, or the pump below a panel, and a panel is opened only while
  messages are handled: so a reload finds no handler. For wakeups the invariant follows the signal: it is
  raised by the send, cleared by the call that has it looked at, and a re-entered call leaves `pending` to
  the outer one, which signals again at its end. Clicks are kept by one fact more, that ids
  are given out once and are below `_evNext`. `Calm` says that no stretch of `StormTime`, past or
  present, holds more than `StormN` rebuilds, and why the next one can be added: whatever was built within `StormTime` of now is
  still remembered, so `Allowed` has counted it, and an attempt differs from those remembered (`AttemptIsNew`), so it is counted too.

* *Store.* `Wholly`: who is about to commit holds a lock that only one program can hold (`Owning`), so nobody else has written since
  it changed its pages, and they are its effect on the table as it is (`Cached`). The step simulation follows: the success of
  `EndCommit` is `Happen` (a statement changes the row it names, `EffectIs`), `ExecReturn` is `Answer`, a crash or the next
  call `Leave`s, and the steps of reads and of the tables' own statements are stutters. `ReadsOneState` needs `Locking`:
  who has read a row holds the shared lock, who is about to change the rows the exclusive one, and the two
  exclude each other. `Listing` adds that a running query has listed exactly the rows its cursor has passed, in their order,
  of the state the table is in; before its first row it has passed none, so another program's write changes nothing for it.

* *GpPane.* `ClippedExactly` compares, pixel by pixel, the clipped rectangle with the one asked for: cutting
  the left edges keeps where the rectangle ends and how far source and destination are apart, and the
  minimum of three cuts the right ones; within one slot the row is found pixel by pixel from the left (`RowIs`, by induction). `Turns` says that the frames under way were rendered from the
  three buffers in turn and that the game's is next; so a frame that reads the game's buffer has two
  after it. For the slots, `Run` is what the textures hold after a list of operations; induction over the length shows what one
  operation more at its end does (`RunLast`), that carrying out the first changes nothing (`RunFirst`), and that a texture
  it does not write stays and one it does not touch can be exchanged beforehand (`RunKeeps`, `RunApart`). With `Paired` - slots have textures of their own - `Agreed` is then kept by each
  action: a draw makes its slot dirty, an upload makes texture and mirror equal or, with work pending on it, is
  recorded in `crossed`, a blit does to the mirror what it will do to the texture, and a kernel that comes out otherwise is recorded,
  with all that is still to be blitted, in `torn` (`RaceAgrees`).

* *Synth.* `Numeric` says what a sound is computed from is numbers, and `Built` that each preset is, step by step
  of its recipe; `Registers` then has every sum an integer. `Rendering`: samples are numbered from 0, and a tap starts at
  least one frame in, so what it reads at `i - delay` it wrote before. `Peaked`: the peak bounds the
  absolute value of all samples it has passed, so dividing by it (`QuotientBound`, `ScaledDown`) leaves none
  beyond `Unit`; a sound is put in a slot only then (`Slotted`). `Following` says of the rendering under way, and of what each slot
  holds, that it is reached from the sound asked for and the generator's state at its beginning by a trace of `Follow`, a function that reads nothing
  else; two traces of one sound agree state by state (`SameTrace`, by induction), so they end alike.

* *Marshal.* `Sending`: after the arguments before `at` each register file holds the words of those that travel in it, in order, and no
  more than the shape has room for. The streams are functions of the number of arguments (`StreamToIs`), each a beginning of the
  whole (`StreamGrows`), so a stream that fits in the end fits all the way (`PutFits`) and nothing is cut off. `TokenTells` compares the token
  of a type measured right with how the type travels, case by case; `SendStep` the return kind with where the callee leaves the result.

* *Abi.* `Classifying` says where the parser can be. There is a list of types, one for each call on the stack (`Nested`): a
  call is about the type that is due where it was made, and the text it will leave is the text behind that type there. Below the innermost call the parser
  is in one of five places (`Somewhere`): before the type that is due, or before the one it qualifies; behind it, with it measured right; before the closing
  bracket with all members read; before a number between types; at the end. Each action leads from one such place to another, and
  takes the text it should because no text behind a type begins with a character that could belong to it (`DueIs`; the "?" of a
  function type comes only behind a pointer or a qualifier, or "@?" would be a block). `Gathered` is what `ParseAgg` knows after some of the members:
  where they end (`StructEnd`), the largest alignment, and whether all are floats of one width, and how many; `NextGathered` adds a
  member, `FieldsRight` and `ArrayRight` turn it into the layout of the whole. `ToldSoFar` collects the tokens, and `ReadEnd` finds all of them: the refinement of
  `Marshal`, each step of the parser being a `Classify` or a stutter.

Model-checked only: the liveness properties (`EveryAskEnds`, `LanguageComesBack`,
`SkippedStopEnds`, `OtherStopShows`, `VerbAnswered`, `RequestServed`), since fairness and `ENABLED` are beyond the
prover. No module under a proof declares an
operator recursive: a loop is stated with quantifiers, as a function of how many steps it has made (`ApplyAll`,
`Run`, `StreamTo`), or, where functions of the code call each other, with a stack and a step for each thing they take; what is recursive over trees is a constant with
a rule, computed in `MCAbi`. Of such a function the proofs show that it exists, by induction on a *set* of numbers: the lemma `Induction` of the
modules that need it takes the least number outside the set (`WFMin` of the library, with the well-foundedness of
`<` on `Nat`), since the library's induction theorems proper take an operator for a parameter and cannot be used.

## Where the code and its comments differ

Two runs show, by a shortest behaviour, that the program does not do what a comment says of it.

* `image_wedge`: a respawn compiles the scratch file the killed isolate left. If that holds a refused
  text, the spawn fails, `gRespawning` stays set, and nothing starts an isolate until the
  next launch (workspace.dart 1595-1607), although "the workspace can never wedge" (1377-1379).
* `pane_mirror`: a blit is encoded for later and its destination is taken for clean at once
  (gp_engine.mm 707-760); a draw on its source or destination later in the same frame is uploaded before the GPU
  comes to the blit, and texture and mirror differ for good, although "mirror == GPU afterwards and pget
  stays truthful" (gp_engine.h 131-135).

Others are noted without a run; the models have the behaviour, and where a property would meet it, it says
that it sets it apart. The first six are exceptions that `RefusedAcceptRestores`, `OneLanguageIsolate`, `HoldIsStop` (two), `BlitExact` and
`SlotsAgree` name: each of them fails without its exception, which is how the behaviour was confirmed.

* A batch that declares a name twice, a getter and its setter, remembers the first of the two as what was there
  (language.dart 202, 349-356); when it is refused, that one is put back, although "Put back what was there" (210-211).
* A restart from the menu while `main()` awaits its first spawn finds nothing to kill
  (workspace.dart 1599, 4838), and two language isolates live on, although `respawnLanguage` is to "Kill the (possibly hung) language
  isolate" (1590). And `main()` waits for a port that is closed (1562): the service extensions, the metrics and `wsUiReady` never come.
* When the reply to `resume`, the `Resume` event and the next `Pause` come in one
  read, what `dbgResume` does after its await (workspace.dart 2839) lowers the hold of the new stop: the watchdog counts against an
  isolate at a breakpoint, although its "clock must stay stopped until user code is genuinely running again" (2837-2838).
* A `Pause` of the killed isolate that is read after `dbgForgetPause` raises pause and hold again, and no `Resume`
  follows it, although `respawnLanguage` means to leave no "ghost pause over a corpse" (workspace.dart 1600-1603).
* A clear that names a source left of the world clears less than its rectangle, for
  its destination has been moved (gp_engine.mm 694) before the code says that "clear has no source" (698).
* A blit within one slot leaves on the GPU what the order of its threads makes of it, and in the mirror
  what a loop from the left does (gp_engine.mm 736-760), although both are "the SAME op" (gp_engine.h 132).
* Nothing waits for the GPU (gp_engine.mm 1211), so with three frames under way the game writes a buffer that one of them reads
  (`DirectBuffersFree` does not hold), although "the CPU never writes a buffer the GPU is still reading" (gp_engine.h 240-241).
* `_declareWsVar` saves a workspace variable before the reload that may refuse it
  (language.dart 148-149), although `_acceptMany` explains why the image "must never keep source
  the VM has just refused" (208-211). `kw = 1` with a keyword for a name does it, and every later
  reload is refused with it.
* `INSERT OR REPLACE` without the column `comment` drops the class comment each time
  the class is accepted (language.dart 187, 571).
* A condition that proves false lowers the hold even when Continue or a restart has lifted the pause meanwhile: a hold the
  driver took is gone then (workspace.dart 2901; `robbed`).
* Stop during the load of a demo finds no handle; the spawn then completes and the demo runs on, its ports closed and
  nothing of it in the window, until a second Stop, or the next run, kills it by the handle that has come since
  (workspace.dart 3318, 3333, 3047). Only when two loads overlap is a handle overwritten, and that isolate beyond reach.
* `appRun` takes every error for "nothing runs" (workspace.dart 3850). When `build()` threw, or
  when the class asked for is gone while another app runs, an app does run; Stop and Accept no longer reach
  it, although APP_PANE_PLAN.md 231 says it "is still there to be fixed and re-Accepted", and
  workspace.dart 3613 that `gAppName` is "null when idle".
* A push carries its generation and nobody looks at it (workspace.dart 3694), although
  "stale pushes from a stopped app are dropped" (language.dart 31).
* workspace_natives.cc 63-69 says that after a cancelled
  reload "the workspace restart[s] the isolate"; it reports the error and does not. workspace.dart
  2886-2888 says that nothing else notices a stop whose condition is evaluated; `ask()` refuses
  requests for that one round trip, as `gDbgPaused` is up.
* `Db.exec` tells a refused write from a stored one, and language.dart drops the answer (187, 262, 581).
  A boot that meets another program's lock takes no rows, or the first few, for the whole image; when its
  `ALTER TABLE` is the statement refused, the column `comment` is missing until the next one.
* The comment on `initEvents` (workspace.dart) calls an uncaught throw fatal; after `wsUiReady` cocoa_host.mm survives it.
  A deferred body may run after the rebuild of the window it was clicked in.
* The sends that `Marshal` leaves outside `InShape`; a negative result of 32 bits comes back
  without its sign; a result of three doubles comes back as a list of four.

Hazards known and without a property: a rebuild of the window loses what was typed into a field
(workspace.dart 3691); a late answer to Stop clears the window of the app started since (3899); `dbgAttach`
leaves pause and hold as they were (2474); `dbgReResolve` awaits while it walks `gDbgBreaks` (2560); two
reloads between two polls leave one status (cocoa_host.mm 76); the recovery copy is read from disk
six seconds after the launch (workspace.dart 4147); a sprite with bad art shifts the ids of those after it (gp_natives.mm
210); `init` that replaces its receiver (cocoa_natives.mm 178).

## What is not modelled

* Text: tokenising, formatting, lint, highlighting, the browser's outline. String work
  without state to interleave.
* Floating point: layout, drawing; in `Synth`, rounding below one part in `Unit`.
* AppKit, Metal, SQLite and the VM themselves. They appear as what the code sees of them: a reload
  is accepted or refused as a whole, a queue of the GPU is done in order, a statement of SQLite waits for no lock, events come in order.
  `Image` takes SQLite to accept every write; `Store` has the refusals.
* In `GpPane`: palette, scroll, sprites, text, the shader, tunes, full screen, lines, circles and discs (they are
  points and rectangles), a layer that has no drawable.
  Most of `gp_engine.h` declares what is left out.
* In `Synth`: playing, the MIDI file. In `Marshal` and `Abi`: retain counts, the selector made from Dart's argument names, text with a NUL, a call with fewer
  arguments than the method has, methods of more than sixteen arguments (`max_args`).
  In `UiPump`: the table of tickets, the recovery copy; `wsEval`, `wsReload` and `wsVmStats` (workspace_natives.cc 38-103) put an error
  into a string, and their effects are in `Image`.
* `port/macdart_browser_stubs.cc` (empty tables) and `cocoa_natives.h` (declarations) have no behaviour.
* Reading commands of the language isolate, and metrics: they change nothing.
* In `Debugger`: the list of breakpoints with its anchors and ids, stack and variables, and a lost
  socket. In `AppSurface`: text the user types (a rebuild of the window loses it), several widgets, commands the UI cannot apply, the list of
  classes. In `Demo`: draw commands, full screen, a rebuild of the window under a running demo.
* The example programs, the Tcl client, the port scripts and the build.

## Plan

Done: `Image`, `AskOnce`/`Channel`, `Demo`, `UiPump`, `Store`, `GpPane` and `Synth` with their proofs, the
pause and hold half of `Debugger` and `AppSurface` with theirs, `Marshal` and `Abi` with theirs.

1. **Breakpoints**, into `Debugger`: `gDbgBreaks` against the VM's list across re-resolution, clear
   and respawn; a lost service socket.
2. **Proofs**: the types of `Demo`, `UiPump`, `AppSurface` and `GpPane`, which no run checks yet; four-byte floats and large structs in
   `Marshal`, should the shim come to carry them.
3. **Composition** of the compile gate with `Image` (the check of an Accept against the commit), and of `Store` with
   `Image` (a boot that meets a lock).
4. **CocoaRefs**: the balance of retains across `init` and finalizers.
5. The MIDI file of `GpMusic` and sprite ids, into `GpPane`.
