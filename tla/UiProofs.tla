---------------------------- MODULE UiProofs ----------------------------
(***************************************************************************)
(* Proofs about what the UI isolate does with its events.  Of UiPump: the  *)
(* UI is reloaded with no Dart frame on thread 0, no wakeup is lost, every *)
(* click waits for its turn exactly once, and rebuilds do not storm.  Of   *)
(* Debugger, for any number of stops, restarts and acts of the user: the   *)
(* watchdog is held while the isolate is stopped, with two exceptions.     *)
(***************************************************************************)
EXTENDS UiPump, Debugger, SequenceTheorems, FiniteSetTheorems, TLAPS

Stacks == {<<>>, <<"pump">>, <<"pump", "panel">>}

StackOK ==
  /\ stack \in Stacks
  /\ phase \in {"messages", "reload", "again"}
  /\ phase # "messages" => stack = <<"pump">>

\* A message has an id if it is a deferred body.
Messages == [k : Kinds \ {"deferred"}] \union [k : {"deferred"}, id : Nat]

Activations == {"pump", "panel"}

\* A stack is known by its length and its elements.
LEMMA PumpOnly ==
  ASSUME NEW s \in Seq(Activations), Len(s) = 1, s[1] = "pump"
  PROVE  s = <<"pump">>
<1> DEFINE t == <<"pump">>
<1>1. t \in Seq(Activations) /\ Len(t) = 1 /\ t[1] = "pump"
  BY DEF Activations
<1> HIDE DEF t
<1>2. s = t
  BY <1>1, SeqEqual
<1> QED
  BY <1>2 DEF t

LEMMA PanelOnPump ==
  ASSUME NEW s \in Seq(Activations), Len(s) = 2, s[1] = "pump", s[2] = "panel"
  PROVE  s = <<"pump", "panel">>
<1> DEFINE t == <<"pump", "panel">>
<1>1. t \in Seq(Activations) /\ Len(t) = 2 /\ t[1] = "pump" /\ t[2] = "panel"
  BY DEF Activations
<1> HIDE DEF t
<1>2. \A i \in 1 .. Len(s) : s[i] = t[i]
  BY <1>1
<1>3. s = t
  BY <1>1, <1>2, SeqEqual
<1> QED
  BY <1>3 DEF t

LEMMA PushPanel ==
  ASSUME NEW s, s = <<"pump">>
  PROVE  Append(s, "panel") = <<"pump", "panel">>
<1> DEFINE c == Append(s, "panel")
<1>1. s \in Seq(Activations) /\ Len(s) = 1 /\ s[1] = "pump" /\ "panel" \in Activations
  BY DEF Activations
<1>2. c \in Seq(Activations) /\ Len(c) = 2 /\ c[1] = "pump" /\ c[2] = "panel"
  BY <1>1, AppendProperties
<1> HIDE DEF c
<1>3. c = <<"pump", "panel">>
  BY <1>2, PanelOnPump
<1> QED
  BY <1>3 DEF c

LEMMA PopPanel ==
  ASSUME NEW s, s = <<"pump", "panel">>
  PROVE  SubSeq(s, 1, Len(s) - 1) = <<"pump">>
<1> DEFINE c == SubSeq(s, 1, Len(s) - 1)
<1>1. s \in Seq(Activations) /\ Len(s) = 2 /\ s[1] = "pump"
  BY DEF Activations
<1>2. c \in Seq(Activations) /\ Len(c) = 1 /\ c[1] = "pump"
  BY <1>1, SubSeqProperties
<1> HIDE DEF c
<1>3. c = <<"pump">>
  BY <1>2, PumpOnly
<1> QED
  BY <1>3 DEF c

\* What the tests and the changes of the stack come to, for each stack there is.
LEMMA StackFacts ==
  ASSUME NEW s \in Stacks
  PROVE  /\ (\E i \in DOMAIN s : s[i] = "pump") <=> s # <<>>
         /\ s # <<>> => /\ s[Len(s)] = "pump" <=> s = <<"pump">>
                        /\ s[Len(s)] = "panel" <=> s = <<"pump", "panel">>
         /\ s = <<>> => Append(s, "pump") = <<"pump">>
         /\ s = <<"pump">> => Append(s, "panel") = <<"pump", "panel">>
         /\ s = <<"pump">> => SubSeq(s, 1, Len(s) - 1) = <<>>
         /\ s = <<"pump", "panel">> => SubSeq(s, 1, Len(s) - 1) = <<"pump">>
<1>1. CASE s = <<>>
  BY <1>1
<1>2. CASE s = <<"pump">>
  <2>1. Append(s, "panel") = <<"pump", "panel">>
    BY <1>2, PushPanel
  <2>2. SubSeq(s, 1, Len(s) - 1) = <<>>
    BY <1>2, SubSeqEmpty
  <2>3. s # <<>> /\ s # <<"pump", "panel">> /\ DOMAIN s = {1} /\ Len(s) = 1 /\ s[1] = "pump"
    BY <1>2
  <2> QED
    BY <1>2, <2>1, <2>2, <2>3
<1>3. CASE s = <<"pump", "panel">>
  <2>1. SubSeq(s, 1, Len(s) - 1) = <<"pump">>
    BY <1>3, PopPanel
  <2>2. s # <<>> /\ s # <<"pump">> /\ DOMAIN s = {1, 2} /\ Len(s) = 2 /\ s[1] = "pump" /\ s[2] = "panel"
    BY <1>3
  <2> QED
    BY <1>3, <2>1, <2>2
<1> QED
  BY <1>1, <1>2, <1>3 DEF Stacks

\* Top and InPump in a state whose stack is one of these.
LEMMA TopFacts ==
  ASSUME StackOK
  PROVE  /\ InPump <=> stack # <<>>
         /\ Top = "loop" <=> stack = <<>>
         /\ Top = "pump" <=> stack = <<"pump">>
         /\ Top = "panel" <=> stack = <<"pump", "panel">>
BY StackFacts DEF InPump, Top, StackOK, Stacks

LEMMA StackInit == Init => StackOK
BY DEF Init, StackOK, Stacks

\* Only PumpPerform, a panel and its end change the stack.
LEMMA StackStep ==
  ASSUME StackOK, [Next]_vars
  PROVE  StackOK'
<1> USE DEF StackOK
<1>1. CASE Perform
  <2>1. CASE InPump
    BY <1>1, <2>1 DEF Perform
  <2>2. CASE ~InPump
    <3>1. stack = <<>>
      BY <2>2, TopFacts
    <3>2. stack' = <<"pump">> /\ phase' = "messages"
      BY <1>1, <2>2, <3>1, StackFacts DEF Perform
    <3> QED
      BY <3>2 DEF Stacks
  <2> QED
    BY <2>1, <2>2
<1>2. CASE Drained
  BY <1>2, TopFacts DEF Drained, Pumping
<1>3. CASE Reload
  BY <1>3, TopFacts DEF Reload, Pumping
<1>4. CASE PumpAgain
  <2>1. stack = <<"pump">>
    BY <1>4, TopFacts DEF PumpAgain, Pumping
  <2>2. stack' \in {stack, <<>>} /\ phase' = "messages"
    BY <1>4, <2>1, StackFacts DEF PumpAgain
  <2> QED
    BY <2>1, <2>2 DEF Stacks
<1>5. CASE OpenPanel
  <2>1. stack = <<"pump">> /\ phase = "messages"
    BY <1>5, TopFacts DEF OpenPanel, Receive, Pumping
  <2>2. stack' = <<"pump", "panel">> /\ phase' = phase
    BY <1>5, <2>1, StackFacts DEF OpenPanel
  <2> QED
    BY <2>1, <2>2 DEF Stacks
<1>6. CASE ClosePanel
  <2>1. stack = <<"pump", "panel">>
    BY <1>6, TopFacts DEF ClosePanel
  <2>2. stack' = <<"pump">> /\ phase' = phase
    BY <1>6, <2>1, StackFacts DEF ClosePanel
  <2> QED
    BY <2>1, <2>2 DEF Stacks
<1>7. CASE UNCHANGED <<stack, phase>>
  BY <1>7
<1>8. ASSUME TimerTick \/ OtherThread \/ Elapse \/ (\E b \in Bodies : Event(b))
             \/ Throws \/ Main \/ MainGoesOn \/ Tick \/ Deferred \/ Checked \/ UNCHANGED vars
      PROVE  UNCHANGED <<stack, phase>>
  BY <1>8 DEF TimerTick, OtherThread, Elapse, Event, Throws, Main, MainGoesOn, Tick, Deferred,
              Checked, vars, host
<1> QED
  BY <1>1, <1>2, <1>3, <1>4, <1>5, <1>6, <1>7, <1>8 DEF Next, Handle, Pump

LEMMA StackInvariant == Spec => []StackOK
BY StackInit, StackStep, PTL DEF Spec

\* The UI isolate's code is exchanged only while PumpPerform alone is on the
\* stack of thread 0 (PerformUiReload, cocoa_host.mm).
THEOREM ReloadsBare == Spec => []NoReloadUnderFrames
<1>1. StackOK => NoReloadUnderFrames
  BY DEF StackOK, NoReloadUnderFrames
<1> QED
  BY <1>1, StackInvariant, PTL

---------------------------------------------------------------------------
(* Wakeups.                                                                *)

\* The two halves of WakeupKept, with the running program or not.
Looked(phases) == signalled \/ (stack # <<>> /\ (pending \/ phase \in phases))
Awake ==
  /\ signalled \in BOOLEAN /\ pending \in BOOLEAN
  /\ ~halted => /\ queue # <<>> => Looked({"messages"})
                /\ requested => Looked({"messages", "reload"})

LEMMA AwakeInit == Init => Awake
BY DEF Init, Awake, Looked

LEMMA AwakeStep ==
  ASSUME StackOK, Awake, [Next]_vars
  PROVE  Awake'
<1> USE DEF Awake, Looked
<1>1. CASE TimerTick \/ OtherThread \/ (\E b \in Bodies : Event(b))
  BY <1>1 DEF TimerTick, OtherThread, Event, Send, NotifyUi, host
<1>2. CASE Elapse \/ UNCHANGED vars
  BY <1>2 DEF Elapse, vars, host
<1>3. CASE Perform
  <2>1. CASE InPump
    BY <1>3, <2>1, TopFacts DEF Perform
  <2>2. CASE ~InPump
    <3>1. stack' = <<"pump">> /\ phase' = "messages"
      BY <1>3, <2>2, TopFacts, StackFacts DEF Perform, StackOK
    <3> QED
      BY <1>3, <2>2, <3>1 DEF Perform
  <2> QED
    BY <2>1, <2>2
<1>4. CASE Drained
  BY <1>4 DEF Drained
<1>5. CASE Reload
  BY <1>5 DEF Reload, Pumping
<1>6. CASE PumpAgain
  <2>1. stack = <<"pump">> /\ phase = "again" /\ ~halted
    BY <1>6, TopFacts DEF PumpAgain, Pumping
  <2>2. CASE pending
    BY <1>6, <2>1, <2>2 DEF PumpAgain
  <2>3. CASE ~pending
    BY <1>6, <2>1, <2>3 DEF PumpAgain
  <2> QED
    BY <2>2, <2>3
<1>7. CASE Handle
  <2>1. stack = <<"pump">> /\ phase = "messages" /\ ~halted
    BY <1>7, TopFacts DEF Handle, Throws, Main, MainGoesOn, Tick, Deferred, Checked, OpenPanel,
                          Receive, Pumping
  <2>2. phase' = phase /\ pending' = pending /\ signalled' \in BOOLEAN
    <3>1. Taken \/ (\E m : TakenAndSent(m)) => signalled' \in BOOLEAN
      BY DEF Taken, TakenAndSent, NotifyUi
    <3>2. CASE Throws \/ MainGoesOn \/ OpenPanel
      BY <3>1, <3>2 DEF Throws, MainGoesOn, OpenPanel, host
    <3>3. CASE Main
      BY <3>1, <3>3 DEF Main
    <3>4. CASE Tick
      BY <3>1, <3>4 DEF Tick, host
    <3>5. CASE Deferred
      <4>1. Taken \/ (\E m : TakenAndSent(m))
        BY <3>5 DEF Deferred
      <4> QED
        BY <3>1, <3>5, <4>1 DEF Deferred, host
    <3>6. CASE Checked
      BY <3>6 DEF Checked, WorkspaceRequestUiReload, NotifyUi, host
    <3> QED
      BY <1>7, <3>2, <3>3, <3>4, <3>5, <3>6 DEF Handle
  <2>3. stack' # <<>>
    <3>1. CASE OpenPanel
      <4>1. stack' = <<"pump", "panel">>
        BY <2>1, <3>1, StackFacts DEF OpenPanel, StackOK
      <4> QED
        BY <4>1
    <3>2. CASE ~OpenPanel
      <4>1. stack' = stack
        BY <1>7, <3>2 DEF Handle, Throws, Main, MainGoesOn, Tick, Deferred, Checked, host
      <4> QED
        BY <2>1, <4>1
    <3> QED
      BY <3>1, <3>2
  <2> QED
    BY <2>1, <2>2, <2>3
<1>8. CASE ClosePanel
  <2>1. stack = <<"pump", "panel">> /\ stack' = <<"pump">>
    BY <1>8, TopFacts, StackFacts DEF ClosePanel, StackOK
  <2> QED
    BY <1>8, <2>1 DEF ClosePanel
<1> QED
  BY <1>1, <1>2, <1>3, <1>4, <1>5, <1>6, <1>7, <1>8 DEF Next, Pump

\* While a message or a request for a reload waits, the source is signalled or
\* a pump is going to look (NotifyUi, PumpPerform).
THEOREM NoWakeupLost == Spec => []WakeupKept
<1>1. Init => StackOK /\ Awake
  BY StackInit, AwakeInit
<1>2. StackOK /\ Awake /\ [Next]_vars => (StackOK /\ Awake)'
  BY StackStep, AwakeStep
<1>3. StackOK /\ Awake => WakeupKept
  BY TopFacts DEF Awake, Looked, WakeupKept
<1> QED
  BY <1>1, <1>2, <1>3, PTL DEF Spec
---------------------------------------------------------------------------
(* Deferred clicks.                                                        *)

\* The bodies of the messages in q are those in D, each once.
Waits(q, D) ==
  /\ \A i \in DOMAIN q : q[i].k = "deferred" => q[i].id \in D
  /\ \A id \in D : \E i \in DOMAIN q : q[i].k = "deferred" /\ q[i].id = id
  /\ \A i, j \in DOMAIN q :
       q[i].k = "deferred" /\ q[j].k = "deferred" /\ q[i].id = q[j].id => i = j

\* A message that is no body changes nothing at the end of the queue.
LEMMA AppendOther ==
  ASSUME NEW q \in Seq(Messages), NEW D, Waits(q, D), NEW m \in Messages, m.k # "deferred"
  PROVE  Append(q, m) \in Seq(Messages) /\ Waits(Append(q, m), D)
<1> DEFINE r == Append(q, m)
<1>1. /\ r \in Seq(Messages) /\ Len(r) = Len(q) + 1
      /\ \A i \in 1 .. Len(q) : r[i] = q[i]
      /\ r[Len(q) + 1] = m
  BY AppendProperties
<1>2. DOMAIN q = 1 .. Len(q) /\ DOMAIN r = 1 .. Len(q) + 1 /\ Len(q) \in Nat
  BY <1>1
<1> HIDE DEF r
<1>3. Waits(r, D)
  BY <1>1, <1>2 DEF Waits
<1> QED
  BY <1>1, <1>3 DEF r

\* A new body at the end of the queue.
LEMMA AppendBody ==
  ASSUME NEW q \in Seq(Messages), NEW D, Waits(q, D), NEW n \in Nat, n \notin D
  PROVE  LET m == [k |-> "deferred", id |-> n]
         IN  Append(q, m) \in Seq(Messages) /\ Waits(Append(q, m), D \union {n})
<1> DEFINE m == [k |-> "deferred", id |-> n]
           r == Append(q, m)
<1>1. m \in Messages /\ m.k = "deferred" /\ m.id = n
  BY DEF Messages
<1> HIDE DEF m
<1>2. /\ r \in Seq(Messages) /\ Len(r) = Len(q) + 1
      /\ \A i \in 1 .. Len(q) : r[i] = q[i]
      /\ r[Len(q) + 1] = m
  BY <1>1, AppendProperties
<1>3. DOMAIN q = 1 .. Len(q) /\ DOMAIN r = 1 .. Len(q) + 1 /\ Len(q) \in Nat
  BY <1>2
<1> HIDE DEF r
<1>4. Waits(r, D \union {n})
  BY <1>1, <1>2, <1>3 DEF Waits
<1> QED
  BY <1>2, <1>4 DEF r, m

\* The head of the queue is taken, and if it is a body it waits no longer.
LEMMA TakeHead ==
  ASSUME NEW q \in Seq(Messages), NEW D, Waits(q, D), q # <<>>
  PROVE  /\ Tail(q) \in Seq(Messages)
         /\ Head(q).k # "deferred" => Waits(Tail(q), D)
         /\ Head(q).k = "deferred" => Waits(Tail(q), D \ {Head(q).id})
<1> DEFINE r == Tail(q)
<1>1. /\ r \in Seq(Messages) /\ Len(r) = Len(q) - 1
      /\ \A i \in 1 .. Len(r) : r[i] = q[i + 1]
  BY HeadTailProperties
<1>2. Head(q) = q[1] /\ Len(q) \in Nat /\ Len(q) >= 1
  BY EmptySeq
<1>3. DOMAIN q = 1 .. Len(q) /\ DOMAIN r = 1 .. Len(q) - 1
  BY <1>1
<1> HIDE DEF r
<1>4. \A i \in DOMAIN r : i + 1 \in DOMAIN q /\ r[i] = q[i + 1]
  BY <1>1, <1>2, <1>3
<1>5. \A i \in DOMAIN q : i = 1 \/ (i - 1 \in DOMAIN r /\ q[i] = r[i - 1])
  BY <1>1, <1>2, <1>3
<1>6. \A i, j \in DOMAIN r :
        r[i].k = "deferred" /\ r[j].k = "deferred" /\ r[i].id = r[j].id => i = j
  <2> SUFFICES ASSUME NEW i \in DOMAIN r, NEW j \in DOMAIN r,
                      r[i].k = "deferred", r[j].k = "deferred", r[i].id = r[j].id
               PROVE  i = j
    OBVIOUS
  <2>1. i + 1 = j + 1
    BY <1>4 DEF Waits
  <2> QED
    BY <2>1, <1>3
<1>7. ASSUME NEW i \in DOMAIN r, r[i].k = "deferred"
      PROVE  r[i].id \in D /\ (Head(q).k = "deferred" => r[i].id # Head(q).id)
  <2>1. i + 1 \in DOMAIN q /\ r[i] = q[i + 1] /\ 1 \in DOMAIN q /\ i + 1 # 1
    BY <1>2, <1>3, <1>4
  <2> QED
    BY <1>2, <1>7, <2>1 DEF Waits
<1>8. ASSUME NEW id \in D, Head(q).k = "deferred" => id # Head(q).id
      PROVE  \E i \in DOMAIN r : r[i].k = "deferred" /\ r[i].id = id
  <2>1. PICK i \in DOMAIN q : q[i].k = "deferred" /\ q[i].id = id
    BY DEF Waits
  <2>2. i # 1
    BY <1>2, <1>8, <2>1
  <2>3. i - 1 \in DOMAIN r /\ q[i] = r[i - 1]
    BY <1>5, <2>2
  <2> QED
    BY <2>1, <2>3
<1>9. Head(q).k # "deferred" => Waits(r, D)
  BY <1>6, <1>7, <1>8 DEF Waits
<1>10. Head(q).k = "deferred" => Waits(r, D \ {Head(q).id})
  BY <1>6, <1>7, <1>8 DEF Waits
<1> QED
  BY <1>1, <1>9, <1>10 DEF r

ClickInv ==
  /\ queue \in Seq(Messages)
  /\ nextEv \in Nat
  /\ \A id \in DOMAIN tasks : id \in Nat /\ id < nextEv
  /\ Waits(queue, DOMAIN tasks)
LEMMA ClickInit == Init => ClickInv
<1> SUFFICES ASSUME Init PROVE ClickInv
  OBVIOUS
<1> DEFINE m == [k |-> "main"]
<1>1. m \in Messages /\ m.k # "deferred"
  BY DEF Messages, Kinds
<1>2. queue = <<m>> /\ tasks = <<>> /\ nextEv = 1
  BY DEF Init
<1> HIDE DEF m
<1>3. queue \in Seq(Messages) /\ DOMAIN queue = {1} /\ queue[1] = m
  BY <1>1, <1>2
<1>4. DOMAIN tasks = {}
  BY <1>2
<1> QED
  BY <1>1, <1>2, <1>3, <1>4 DEF ClickInv, Waits

\* The messages that are sent beside the bodies.
LEMMA PlainMessages ==
  \A kind \in Kinds \ {"deferred"} : [k |-> kind] \in Messages /\ [k |-> kind].k # "deferred"
BY DEF Messages

\* The handlers but for a body's: the head goes, a plain message may come.
LEMMA PlainHandler ==
  ASSUME ClickInv, queue # <<>>, Head(queue).k # "deferred",
         UNCHANGED <<tasks, nextEv>>,
         queue' = Tail(queue) \/ \E kind \in Kinds \ {"deferred"} :
                                   queue' = Append(Tail(queue), [k |-> kind])
  PROVE  ClickInv'
<1>1. Tail(queue) \in Seq(Messages) /\ Waits(Tail(queue), DOMAIN tasks)
  BY TakeHead DEF ClickInv
<1>2. queue' \in Seq(Messages) /\ Waits(queue', DOMAIN tasks)
  BY <1>1, AppendOther, PlainMessages
<1> QED
  BY <1>2 DEF ClickInv

\* The listener of initEvents: the body runs and is forgotten.
LEMMA DeferredStep ==
  ASSUME ClickInv, Deferred
  PROVE  ClickInv'
<1> DEFINE id == Head(queue).id
           rest == DOMAIN tasks \ {id}
<1>1. queue # <<>> /\ Head(queue).k = "deferred"
  BY DEF Deferred, Receive
<1>2. Tail(queue) \in Seq(Messages) /\ Waits(Tail(queue), rest)
  BY <1>1, TakeHead DEF ClickInv
<1>3. id \in DOMAIN tasks
  <2>1. 1 \in DOMAIN queue /\ queue[1] = Head(queue)
    BY <1>1, EmptySeq DEF ClickInv
  <2> QED
    BY <1>1, <2>1 DEF ClickInv, Waits
<1>4. tasks' = Forget(id) /\ nextEv' = nextEv
  BY <1>3 DEF Deferred, RebuiltTasks
<1>5. DOMAIN tasks' = rest
  BY <1>4 DEF Forget
<1>6. queue' = Tail(queue) \/ \E kind \in Kinds \ {"deferred"} : queue' = Append(Tail(queue), [k |-> kind])
  <2>1. "panel" \in Kinds \ {"deferred"} /\ "checked" \in Kinds \ {"deferred"}
    BY DEF Kinds
  <2>2. \/ queue' = Tail(queue)
        \/ queue' = Append(Tail(queue), [k |-> IF tasks[id] = "panel" THEN "panel" ELSE "checked"])
    BY <1>3 DEF Deferred, Taken, TakenAndSent
  <2> QED
    BY <2>1, <2>2
<1>7. queue' \in Seq(Messages) /\ Waits(queue', rest)
  BY <1>2, <1>6, AppendOther, PlainMessages
<1> QED
  BY <1>4, <1>5, <1>7 DEF ClickInv

LEMMA ClickStep ==
  ASSUME ClickInv, [Next]_vars
  PROVE  ClickInv'
<1>1. CASE TimerTick \/ OtherThread
  <2>1. \E kind \in Kinds \ {"deferred"} : queue' = Append(queue, [k |-> kind])
    BY <1>1 DEF TimerTick, OtherThread, Send, Kinds
  <2>2. queue' \in Seq(Messages) /\ Waits(queue', DOMAIN tasks)
    BY <2>1, AppendOther, PlainMessages DEF ClickInv
  <2>3. tasks' = tasks /\ nextEv' \in Nat /\ nextEv' >= nextEv
    BY <1>1 DEF TimerTick, OtherThread, ClickInv
  <2> QED
    BY <2>2, <2>3 DEF ClickInv
<1>2. CASE \E b \in Bodies : Event(b)
  <2>1. nextEv \in Nat /\ nextEv \notin DOMAIN tasks
    BY DEF ClickInv
  <2>2. queue' = Append(queue, [k |-> "deferred", id |-> nextEv]) /\ nextEv' = nextEv + 1
    BY <1>2 DEF Event, Send
  <2>3. DOMAIN tasks' = DOMAIN tasks \union {nextEv}
    BY <1>2 DEF Event
  <2>4. queue' \in Seq(Messages) /\ Waits(queue', DOMAIN tasks \union {nextEv})
    BY <2>1, <2>2, AppendBody DEF ClickInv
  <2> QED
    BY <2>1, <2>2, <2>3, <2>4 DEF ClickInv
<1>3. CASE Elapse \/ Perform \/ Pump \/ ClosePanel \/ UNCHANGED vars
  <2>1. UNCHANGED <<queue, tasks, nextEv>>
    BY <1>3 DEF Elapse, Perform, Pump, Drained, Reload, PumpAgain, ClosePanel, vars
  <2> QED
    BY <2>1 DEF ClickInv
<1>4. CASE Throws \/ MainGoesOn \/ Checked \/ OpenPanel
  <2>1. /\ queue # <<>> /\ Head(queue).k # "deferred"
        /\ queue' = Tail(queue) /\ UNCHANGED <<tasks, nextEv>>
    BY <1>4 DEF Throws, MainGoesOn, Checked, OpenPanel, Receive, Taken
  <2> QED
    BY <2>1, PlainHandler
<1>5. CASE Main
  <2>1. queue # <<>> /\ Head(queue).k # "deferred" /\ UNCHANGED <<tasks, nextEv>>
    BY <1>5 DEF Main, Receive
  <2>2. queue' = Tail(queue) \/ queue' = Append(Tail(queue), [k |-> "spawned"])
    BY <1>5 DEF Main, Taken, TakenAndSent
  <2> QED
    BY <2>1, <2>2, PlainHandler DEF Kinds
<1>6. CASE Tick
  <2>1. queue # <<>> /\ Head(queue).k # "deferred" /\ queue' = Tail(queue)
    BY <1>6 DEF Tick, Receive, Taken
  <2>2. UNCHANGED <<tasks, nextEv>>
    BY <1>6 DEF Tick, RebuiltTasks
  <2> QED
    BY <2>1, <2>2, PlainHandler
<1>7. CASE Deferred
  BY <1>7, DeferredStep
<1> QED
  BY <1>1, <1>2, <1>3, <1>4, <1>5, <1>6, <1>7 DEF Next, Handle

\* The bodies deferred are those of the messages queued, each once, so that a
\* click is neither lost nor run twice by a rebuild, a throw or a reload
\* (defer, initEvents, rebuildUi).
THEOREM ClicksAreKept == Spec => []ClicksKept
<1>1. ClickInv => ClicksKept
  BY DEF ClickInv, Waits, ClicksKept
<1> QED
  BY <1>1, ClickInit, ClickStep, PTL DEF Spec

---------------------------------------------------------------------------
(* The storm backstop.                                                     *)

Within(t) == {a \in built : t <= a.at /\ a.at < t + StormTime}

Now == {a \in recent : a.at = clock}

\* What was allowed and can still count against a rebuild is remembered; and no
\* stretch of StormTime, past or present, holds more than StormN of them.
Calm ==
  /\ clock \in Nat
  /\ IsFiniteSet(recent) /\ IsFiniteSet(built)
  /\ \A a \in recent \union built : a.at \in Nat /\ a.at <= clock
  /\ \A a \in Now : a.nth \in Nat /\ a.nth <= Cardinality(Now)
  /\ \A a \in built : clock - a.at < StormTime => a \in recent
  /\ \A t \in Nat : Cardinality(Within(t)) <= StormN

\* The number of an attempt sets it apart from those remembered, so that Allowed
\* counts every one.
LEMMA AttemptIsNew ==
  ASSUME Calm
  PROVE  /\ Cardinality(Now) \in Nat
         /\ Attempt = [at |-> clock, nth |-> Cardinality(Now) + 1]
         /\ Attempt \notin recent
<1>1. Cardinality(Now) \in Nat
  <2>1. IsFiniteSet(Now)
    BY FS_Subset DEF Calm, Now
  <2> QED  BY <2>1, FS_CardinalityType
<1>2. Attempt = [at |-> clock, nth |-> Cardinality(Now) + 1]
  BY DEF Attempt, Now
<1>3. \A a \in Now : a.nth # Cardinality(Now) + 1
  BY <1>1 DEF Calm
<1> QED  BY <1>1, <1>2, <1>3 DEF Now

\* One attempt: every stretch that reaches up to now lies in what _rebuildTimes keeps.
LEMMA RebuildCalm ==
  ASSUME Calm, RebuildUi, clock' = clock
  PROVE  Calm'
<1> USE DEF Calm
<1>1. Attempt.at = clock /\ StormTime \in Nat \ {0} /\ StormN \in Nat
  BY PumpAssumption DEF Attempt
<1>2. recent' = Recent /\ built' = (IF Allowed THEN built \union {Attempt} ELSE built)
  BY DEF RebuildUi
<1>3. IsFiniteSet(Recent)
  <2>1. IsFiniteSet({a \in recent : clock - a.at < StormTime})
    BY FS_Subset
  <2> QED  BY <2>1, FS_AddElement DEF Recent
<1>4. IsFiniteSet(built')
  BY <1>2, FS_AddElement
<1>5. \A a \in Recent \union built' : a.at \in Nat /\ a.at <= clock
  BY <1>1, <1>2 DEF Recent
<1>6. \A a \in built' : clock - a.at < StormTime => a \in Recent
  BY <1>1, <1>2 DEF Recent
<1>7. ASSUME NEW t \in Nat PROVE Cardinality(Within(t)') <= StormN
  <2>1. CASE Allowed /\ t <= clock /\ clock < t + StormTime
    <3>1. Within(t)' \subseteq Recent
      <4> SUFFICES ASSUME NEW a \in built', t <= a.at PROVE a \in Recent
        BY DEF Within
      <4>1. clock - a.at < StormTime
        BY <1>1, <1>5, <2>1
      <4> QED  BY <1>6, <4>1
    <3>2. Cardinality(Within(t)') <= Cardinality(Recent) /\ Cardinality(Within(t)') \in Nat
      BY <1>3, <3>1, FS_Subset, FS_CardinalityType
    <3>3. Cardinality(Recent) \in Nat /\ Cardinality(Recent) <= StormN
      BY <1>3, <2>1, FS_CardinalityType DEF Allowed
    <3> QED  BY <1>1, <3>2, <3>3
  <2>2. CASE ~(Allowed /\ t <= clock /\ clock < t + StormTime)
    <3>1. Within(t)' = Within(t)
      BY <1>1, <1>2, <2>2 DEF Within
    <3> QED  BY <3>1
  <2> QED  BY <2>1, <2>2
<1>8. \A a \in Now' : a.nth \in Nat /\ a.nth <= Cardinality(Now')
  <2>1. Now' = Now \union {Attempt} /\ Attempt \notin Now /\ IsFiniteSet(Now)
    <3>1. Now' = {a \in Recent : a.at = clock}
      BY <1>2 DEF Now
    <3>2. \A a \in Now : clock - a.at < StormTime
      BY <1>1 DEF Now
    <3>3. Now' = Now \union {Attempt}
      BY <1>1, <3>1, <3>2 DEF Now, Recent
    <3>4. Attempt \notin Now
      BY AttemptIsNew DEF Now
    <3>5. IsFiniteSet(Now)
      BY FS_Subset DEF Now
    <3> QED  BY <3>3, <3>4, <3>5
  <2>2. Cardinality(Now') = Cardinality(Now) + 1 /\ Cardinality(Now) \in Nat
    BY <2>1, AttemptIsNew, FS_AddElement
  <2>3. Attempt.nth = Cardinality(Now') /\ Attempt.nth \in Nat
    BY <2>2, AttemptIsNew
  <2>4. \A a \in Now : a.nth \in Nat /\ a.nth <= Cardinality(Now')
    BY <2>2
  <2> QED  BY <2>1, <2>2, <2>3, <2>4
<1> QED  BY <1>2, <1>3, <1>4, <1>5, <1>6, <1>7, <1>8

LEMMA CalmStep == ASSUME Calm, [Next]_vars PROVE Calm'
<1>1. CASE Elapse
  <2>1. clock' = clock + 1 /\ UNCHANGED <<recent, built>>
    BY <1>1 DEF Elapse, window
  <2>2. \A t : Within(t)' = Within(t)
    BY <2>1 DEF Within
  <2>3. Now' = {}
    BY <2>1 DEF Calm, Now
  <2> QED  BY <2>1, <2>2, <2>3, PumpAssumption DEF Calm
<1>2. CASE UNCHANGED <<recent, built, clock>>
  BY <1>2 DEF Calm, Within, Now
<1>3. CASE Tick \/ Deferred
  <2>1. clock' = clock /\ (RebuildUi \/ UNCHANGED <<recent, built>>)
    BY <1>3 DEF Tick, Deferred, window
  <2> QED  BY <1>2, <2>1, RebuildCalm
<1>4. ASSUME TimerTick \/ OtherThread \/ (\E b \in Bodies : Event(b)) \/ Perform \/ Pump \/ ClosePanel
             \/ Throws \/ Main \/ MainGoesOn \/ Checked \/ OpenPanel \/ UNCHANGED vars
      PROVE  UNCHANGED <<recent, built, clock>>
  BY <1>4 DEF TimerTick, OtherThread, Event, Perform, Pump, Drained, Reload, PumpAgain, ClosePanel,
              Throws, Main, MainGoesOn, Checked, OpenPanel, vars, window
<1> QED  BY <1>1, <1>2, <1>3, <1>4 DEF Next, Handle

\* Within StormTime the window is rebuilt at most StormN times, by reloads and by the
\* menu together, for any bound and any stretch of time (_rebuildAllowed).
THEOREM RebuildsDoNotStorm == Spec => []NoStorm
<1>1. Init => Calm
  <2>1. IsFiniteSet({}) /\ Cardinality({}) = 0
    BY FS_EmptySet
  <2>2. Init => \A t : Within(t) = {}
    BY DEF Init, Within
  <2> SUFFICES ASSUME Init PROVE Calm
    OBVIOUS
  <2>3. recent = {} /\ built = {} /\ clock = 0 /\ \A t : Within(t) = {}
    BY <2>2 DEF Init
  <2>4. \A t \in Nat : Cardinality(Within(t)) <= StormN
    BY <2>1, <2>3, PumpAssumption
  <2> QED  BY <2>1, <2>3, <2>4 DEF Calm, Now
<1>2. Calm => NoStorm
  BY PumpAssumption DEF Calm, NoStorm, Within
<1> QED  BY <1>1, <1>2, CalmStep, PTL DEF Spec


---------------------------------------------------------------------------
(* What is under way.                                                      *)

\* What a stop is at.
Hits == Conditions \cup {Plain}

\* The frames on the socket.  No isolate is called Demo there: only Attach makes
\* that the target.
Sent ==
  [of : {"Pause", "Resume"}, gen : Nat, stop : Nat, hit : Hits]
    \cup [of : {"resumed"}] \cup [of : {"judged"}, stop : Nat, value : Hits]
    \cup [of : {"vm"}, gen : Nat \ {Demo}]

Typing ==
  /\ gen \in Nat \ {Demo} /\ target \in Nat
  /\ stop \in Nat /\ hit \in Hits
  /\ calls \in Seq(Call) /\ wire \in Seq(Sent) /\ replies \in Seq(Sent)

\* A queue that is read or grows stays one.
LEMMA Queue ==
  ASSUME NEW S, NEW q \in Seq(S)
  PROVE  /\ q # <<>> => Head(q) \in S /\ Tail(q) \in Seq(S)
         /\ \A x \in S : Append(q, x) \in Seq(S)
  BY HeadTailProperties, AppendProperties

LEMMA TypingStep == Typing /\ [DebugNext]_debugVars => Typing'
<1> SUFFICES ASSUME Typing, [DebugNext]_debugVars PROVE Typing'
  OBVIOUS
<1> USE DEF Typing, Demo
<1>1. ASSUME NEW h \in Hits, Hit(h) PROVE Typing'
  <2>1. [of |-> "Pause", gen |-> gen, stop |-> stop', hit |-> h] \in Sent
    BY <1>1 DEF Hit, Sent
  <2>2. wire' \in Seq(Sent)
    BY <1>1, <2>1, Queue DEF Hit
  <2> QED  BY <1>1, <2>2 DEF Hit, view
<1>2. CASE VerbEnds
  BY <1>2 DEF VerbEnds, isolate, view
<1>3. CASE ServeResume
  <2> DEFINE resume == [of |-> "Resume", gen |-> gen, stop |-> stop, hit |-> hit]
             reply == IF Head(calls).do = "resume" THEN <<[of |-> "resumed"]>> ELSE <<>>
  <2>1. Tail(calls) \in Seq(Call)
    BY <1>3, Queue DEF ServeResume
  <2>2. <<resume>> \in Seq(Sent) /\ reply \in Seq(Sent)
    <3>1. resume \in Sent /\ [of |-> "resumed"] \in Sent
      BY DEF Sent
    <3> QED  BY <3>1
  <2>3. wire' = wire \o reply \o <<resume>> \/ wire' = wire \o reply
    BY <1>3 DEF ServeResume
  <2> HIDE DEF resume, reply
  <2>4. wire' \in Seq(Sent)
    <3>1. wire \o reply \in Seq(Sent)
      BY <2>2, ConcatProperties
    <3>2. (wire \o reply) \o <<resume>> \in Seq(Sent)
      BY <3>1, <2>2, ConcatProperties
    <3> QED  BY <2>3, <3>1, <3>2
  <2> QED  BY <1>3, <2>1, <2>4 DEF ServeResume, view
<1>4. CASE ServeJudge
  <2>1. Head(calls) \in Call /\ Tail(calls) \in Seq(Call)
    BY <1>4, Queue DEF ServeJudge
  <2>2. PICK v \in Hits :
          wire' = Append(wire, [of |-> "judged", stop |-> Head(calls).stop, value |-> v])
    BY <1>4 DEF ServeJudge, Hits, Conditions
  <2>3. [of |-> "judged", stop |-> Head(calls).stop, value |-> v] \in Sent
    BY <2>1 DEF Call, Sent
  <2>4. wire' \in Seq(Sent)
    BY <2>2, <2>3, Queue
  <2> QED  BY <1>4, <2>1, <2>4 DEF ServeJudge, isolate, view
<1>5. CASE ServeGetVM
  <2>1. Tail(calls) \in Seq(Call)
    BY <1>5, Queue DEF ServeGetVM
  <2>2. [of |-> "vm", gen |-> gen] \in Sent
    BY DEF Sent
  <2>3. wire' \in Seq(Sent)
    BY <1>5, <2>2, Queue DEF ServeGetVM
  <2> QED  BY <1>5, <2>1, <2>3 DEF ServeGetVM, isolate, view
<1>6. CASE Booted
  <2>1. [do |-> "getVM", to |-> 0, stop |-> 0] \in Call
    BY DEF Call
  <2>2. calls' \in Seq(Call)
    BY <1>6, <2>1, Queue DEF Booted
  <2> QED  BY <1>6, <2>2 DEF Booted, view
<1>7. CASE ReceivePause
  <2>1. Head(wire) \in Sent /\ Tail(wire) \in Seq(Sent)
    BY <1>7, Queue DEF ReceivePause
  <2>2. [do |-> "judge", to |-> target, stop |-> Head(wire).stop] \in Call
    BY <1>7, <2>1 DEF ReceivePause, Sent, Call
  <2>3. calls' \in Seq(Call) /\ target' = target
    BY <1>7, <2>2, Queue DEF ReceivePause, view
  <2> QED  BY <1>7, <2>1, <2>3 DEF ReceivePause, isolate
<1>8. CASE ReceiveResume
  BY <1>8, Queue DEF ReceiveResume, isolate
<1>9. CASE ReceiveReply
  <2>1. Head(wire) \in Sent /\ Tail(wire) \in Seq(Sent)
    BY <1>9, Queue DEF ReceiveReply
  <2>2. replies' \in Seq(Sent)
    BY <1>9, <2>1, Queue DEF ReceiveReply
  <2> QED  BY <1>9, <2>1, <2>2 DEF ReceiveReply, isolate, view
<1>10. CASE AfterResume \/ AfterJudgeStops
  BY <1>10, Queue DEF AfterResume, AfterJudgeStops, isolate
<1>11. CASE AfterJudgeFalse
  <2>1. [do |-> "skip", to |-> target, stop |-> 0] \in Call
    BY DEF Call
  <2>2. calls' \in Seq(Call)
    BY <1>11, <2>1, Queue DEF AfterJudgeFalse
  <2> QED  BY <1>11, <2>2, Queue DEF AfterJudgeFalse, isolate
<1>12. CASE AfterGetVM
  <2>1. Head(replies) \in Sent /\ Tail(replies) \in Seq(Sent)
    BY <1>12, Queue DEF AfterGetVM
  <2>2. Head(replies).gen \in Nat
    BY <1>12, <2>1 DEF AfterGetVM, Sent
  <2> QED  BY <1>12, <2>1, <2>2 DEF AfterGetVM
<1>13. CASE Continue
  <2>1. [do |-> "resume", to |-> target, stop |-> 0] \in Call
    BY DEF Call
  <2>2. calls' \in Seq(Call)
    BY <1>13, <2>1, Queue DEF Continue
  <2> QED  BY <1>13, <2>2 DEF Continue, isolate, view
<1>14. ASSUME NEW t \in {Demo, gen}, Attach(t) PROVE Typing'
  BY <1>14 DEF Attach
<1>15. CASE MenuRestart \/ Timeout \/ DriverHold \/ DriverRelease
  BY <1>15 DEF MenuRestart, Timeout, Respawn, DriverHold, DriverRelease, isolate
<1>16. CASE VerbStart
  BY <1>16 DEF VerbStart, isolate, view
<1>17. CASE UNCHANGED debugVars
  BY <1>17 DEF debugVars, isolate, view
<1> QED
  BY <1>1, <1>2, <1>3, <1>4, <1>5, <1>6, <1>7, <1>8, <1>9, <1>10, <1>11, <1>12, <1>13, <1>14, <1>15, <1>16,
     <1>17 DEF DebugNext, Service, ReceiveFrame, GoOn, Hits

---------------------------------------------------------------------------
(* The hold.                                                               *)

\* Until the user attaches elsewhere or a hold is taken from its owner, the hold is
\* the driver's and, while the pause is known, the debugger's.
Holding ==
  /\ ~strayed => gDbgIsLang
  /\ lent \in Nat
  /\ ~strayed /\ ~robbed => gDebugHold = lent + IF gDbgPaused THEN 1 ELSE 0

LEMMA HoldingStep == Typing /\ Holding /\ [DebugNext]_debugVars => Holding'
<1> SUFFICES ASSUME Typing, Holding, [DebugNext]_debugVars PROVE Holding'
  OBVIOUS
<1> USE DEF Holding, gDbgIsLang, Demo, notes
<1>1. ASSUME NEW h \in Hits, Hit(h) PROVE Holding'
  BY <1>1 DEF Hit, view
<1>2. CASE VerbEnds \/ ServeResume \/ ServeJudge \/ ServeGetVM \/ Booted \/ VerbStart \/ ReceiveReply \/ Continue
  BY <1>2 DEF VerbEnds, ServeResume, ServeJudge, ServeGetVM, Booted, VerbStart, ReceiveReply, Continue, view
<1>3. CASE ReceivePause
  BY <1>3 DEF ReceivePause, view
<1>4. CASE ReceiveResume
  BY <1>4 DEF ReceiveResume, Release
<1>5. CASE AfterResume \/ AfterJudgeFalse
  <2>1. CASE AfterResume
    BY <1>5, <2>1 DEF AfterResume, Release
  <2>2. CASE AfterJudgeFalse
    <3>1. ~strayed' /\ ~robbed' => ~strayed /\ ~robbed /\ (gDbgPaused \/ ~(gDebugHold > 0))
      BY <2>2 DEF AfterJudgeFalse
    <3>2. gDbgPaused' = FALSE /\ lent' = lent /\ target' = target /\ strayed' = strayed
          /\ gDebugHold' = IF gDbgIsLang THEN Release(gDebugHold) ELSE gDebugHold
      BY <2>2 DEF AfterJudgeFalse
    <3> QED  BY <3>1, <3>2 DEF Release
  <2> QED  BY <1>5, <2>1, <2>2
<1>6. CASE AfterJudgeStops
  BY <1>6 DEF AfterJudgeStops
<1>7. CASE AfterGetVM
  <2>1. Head(replies) \in Sent
    BY <1>7, Queue DEF AfterGetVM, Typing
  <2>2. Head(replies).gen # 0
    BY <1>7, <2>1 DEF AfterGetVM, Sent
  <2> QED  BY <1>7, <2>2 DEF AfterGetVM
<1>8. ASSUME NEW t \in {Demo, gen}, Attach(t) PROVE Holding'
  BY <1>8 DEF Attach
<1>9. CASE MenuRestart \/ Timeout
  BY <1>9 DEF MenuRestart, Timeout, Respawn, Release
<1>10. CASE DriverHold \/ DriverRelease
  <2>1. CASE DriverHold
    BY <2>1 DEF DriverHold
  <2>2. CASE DriverRelease
    <3>1. ~strayed' /\ ~robbed' => ~strayed /\ ~robbed /\ (lent # 0 \/ ~(gDebugHold > 0))
      BY <2>2 DEF DriverRelease
    <3>2. /\ gDebugHold' = Release(gDebugHold) /\ lent' = Release(lent)
          /\ gDbgPaused' = gDbgPaused /\ target' = target /\ strayed' = strayed
      BY <2>2 DEF DriverRelease
    <3> QED  BY <3>1, <3>2 DEF Release
  <2> QED  BY <1>10, <2>1, <2>2
<1>11. CASE UNCHANGED debugVars
  BY <1>11 DEF debugVars, view
<1> QED
  BY <1>1, <1>2, <1>3, <1>4, <1>5, <1>6, <1>7, <1>8, <1>9, <1>10, <1>11
     DEF DebugNext, Service, ReceiveFrame, GoOn, Hits

---------------------------------------------------------------------------
(* What follows what on the socket.                                        *)

\* An element of a queue that grew is an old one or the new one.
LEMMA Grown ==
  ASSUME NEW S, NEW q \in Seq(S), NEW x \in S
  PROVE  /\ Append(q, x) \in Seq(S) /\ Len(Append(q, x)) = Len(q) + 1
         /\ \A i \in 1..Len(q) : Append(q, x)[i] = q[i]
         /\ Append(q, x)[Len(q) + 1] = x
  BY AppendProperties

\* An element of a queue that was read is the next one of the queue before.
LEMMA Shrunk ==
  ASSUME NEW S, NEW q \in Seq(S), q # <<>>
  PROVE  /\ Tail(q) \in Seq(S) /\ Len(q) \in Nat \ {0} /\ Len(Tail(q)) = Len(q) - 1
         /\ \A i \in 1..Len(Tail(q)) : i + 1 \in 1..Len(q) /\ Tail(q)[i] = q[i + 1]
         /\ Head(q) = q[1]
  BY HeadTailProperties, EmptySeq

\* What the service sends on a resume comes after everything it sent before.
LEMMA Resumed ==
  ASSUME Typing, ServeResume
  PROVE  /\ Len(wire) \in Nat /\ Len(wire') \in Nat /\ Len(wire) <= Len(wire')
         /\ \A i \in 1..Len(wire) : wire'[i] = wire[i]
         /\ \A i \in (Len(wire) + 1)..Len(wire') :
              \/ wire'[i].of = "resumed"
              \/ wire'[i].of = "Resume" /\ wire'[i].gen = gen /\ Head(calls).to = gen /\ stopped
         /\ Head(calls).to = gen /\ stopped =>
              /\ stopped' = FALSE
              /\ Len(wire') > Len(wire) /\ wire'[Len(wire')].of = "Resume" /\ wire'[Len(wire')].gen = gen
         /\ ~(Head(calls).to = gen /\ stopped) => stopped' = stopped
<1> DEFINE resume == [of |-> "Resume", gen |-> gen, stop |-> stop, hit |-> hit]
           told == [of |-> "resumed"]
           reply == IF Head(calls).do = "resume" THEN <<told>> ELSE <<>>
<1>1. wire \in Seq(Sent)
  BY DEF Typing
<1>2. resume \in Sent /\ told \in Sent
  BY DEF Sent, Typing
<1>3. resume.of = "Resume" /\ resume.gen = gen /\ told.of = "resumed"
  OBVIOUS
<1>4. \/ Head(calls).to = gen /\ stopped /\ stopped' = FALSE /\ wire' = wire \o reply \o <<resume>>
      \/ ~(Head(calls).to = gen /\ stopped) /\ stopped' = stopped /\ wire' = wire \o reply
  BY DEF ServeResume
<1>5. reply = <<told>> \/ reply = <<>>
  OBVIOUS
<1> HIDE DEF resume, told, reply
<1>6. \A q \in Seq(Sent), x \in Sent : q \o <<x>> = Append(q, x)
  OBVIOUS
<1>7. \A q \in Seq(Sent) : q \o <<>> = q
  OBVIOUS
<1>8. wire \o reply = Append(wire, told) \/ wire \o reply = wire
  BY <1>1, <1>2, <1>5, <1>6, <1>7
<1>9. wire \o reply \in Seq(Sent)
  BY <1>1, <1>2, <1>8, Grown
<1>10. (wire \o reply) \o <<resume>> = Append(wire \o reply, resume)
  BY <1>2, <1>6, <1>9
<1>11. PICK q : q = wire \o reply
  OBVIOUS
<1>12. /\ Len(wire) \in Nat /\ Len(q) \in Nat /\ Len(wire) <= Len(q) /\ Len(q) <= Len(wire) + 1
       /\ \A i \in 1..Len(wire) : q[i] = wire[i]
       /\ \A i \in (Len(wire) + 1)..Len(q) : q[i].of = "resumed"
  <2>1. CASE q = wire
    BY <1>1, <2>1
  <2>2. CASE q = Append(wire, told)
    BY <1>1, <1>2, <1>3, <2>2, Grown
  <2> QED  BY <1>8, <1>11, <2>1, <2>2
<1>13. /\ Len(Append(q, resume)) = Len(q) + 1
       /\ \A i \in 1..Len(q) : Append(q, resume)[i] = q[i]
       /\ Append(q, resume)[Len(q) + 1] = resume
  BY <1>2, <1>9, <1>11, Grown
<1>14. CASE wire' = q /\ ~(Head(calls).to = gen /\ stopped) /\ stopped' = stopped
  BY <1>12, <1>14
<1>15. CASE wire' = Append(q, resume) /\ Head(calls).to = gen /\ stopped /\ stopped' = FALSE
  <2>1. Len(wire') = Len(q) + 1 /\ wire'[Len(q) + 1] = resume
    BY <1>13, <1>15
  <2>2. \A i \in 1..Len(wire) : wire'[i] = wire[i]
    BY <1>12, <1>13, <1>15
  <2>3. \A i \in (Len(wire) + 1)..Len(wire') :
          wire'[i].of = "resumed" \/ (wire'[i].of = "Resume" /\ wire'[i].gen = gen)
    <3>1. \A i \in (Len(wire) + 1)..Len(q) : i \in 1..Len(q) /\ wire'[i] = q[i]
      BY <1>12, <1>13, <1>15
    <3> SUFFICES ASSUME NEW i \in (Len(wire) + 1)..Len(wire')
                 PROVE  wire'[i].of = "resumed" \/ (wire'[i].of = "Resume" /\ wire'[i].gen = gen)
      OBVIOUS
    <3>2. i \in (Len(wire) + 1)..Len(q) \/ i = Len(q) + 1
      BY <1>12, <2>1
    <3> QED  BY <1>3, <1>12, <2>1, <3>1, <3>2
  <2>4. Len(wire') \in Nat /\ Len(wire') > Len(wire) /\ wire'[Len(wire')] = resume
    BY <1>12, <2>1
  <2>5. \A i \in (Len(wire) + 1)..Len(wire') :
          \/ wire'[i].of = "resumed"
          \/ wire'[i].of = "Resume" /\ wire'[i].gen = gen /\ Head(calls).to = gen /\ stopped
    BY <1>15, <2>3
  <2>6. wire'[Len(wire')].of = "Resume" /\ wire'[Len(wire')].gen = gen
    BY <1>3, <2>4
  <2>7. Len(wire) \in Nat /\ Len(wire) <= Len(wire')
    BY <1>12, <2>4
  <2> HIDE DEF resume
  <2> QED  BY <1>15, <2>2, <2>4, <2>5, <2>6, <2>7
<1> QED  BY <1>4, <1>10, <1>11, <1>14, <1>15
---------------------------------------------------------------------------
(* The debugger follows the isolate.                                       *)

Vms(q) == {i \in 1..Len(q) : q[i].of = "vm"}

Ascending(q) == \A i, j \in Vms(q) : i < j => q[i].gen <= q[j].gen
Below(q, g)  == \A i \in Vms(q) : q[i].gen <= g
Above(q, g)  == \A i \in Vms(q) : q[i].gen >= g

\* The answers to getVM arrive in the order of the generations they name, and none
\* is behind the one the debugger is on.
Order ==
  /\ target <= gen
  /\ Below(wire, gen) /\ Below(replies, gen)
  /\ Ascending(wire) /\ Ascending(replies)
  /\ \A i \in Vms(replies), j \in Vms(wire) : replies[i].gen <= wire[j].gen
  /\ ~strayed => Above(wire, target) /\ Above(replies, target)

\* What is read from a queue leaves the rest of its order.
LEMMA OrderShrunk ==
  ASSUME NEW q \in Seq(Sent), q # <<>>, NEW g \in Nat
  PROVE  /\ \A i \in Vms(Tail(q)) : i + 1 \in Vms(q) /\ Tail(q)[i] = q[i + 1] /\ Tail(q)[i].gen \in Nat
         /\ Ascending(q) => Ascending(Tail(q))
         /\ Below(q, g) => Below(Tail(q), g)
         /\ Above(q, g) => Above(Tail(q), g)
         /\ Ascending(q) /\ Head(q).of = "vm" => Above(Tail(q), Head(q).gen)
<1>1. \A i \in Vms(Tail(q)) : i + 1 \in Vms(q) /\ Tail(q)[i] = q[i + 1]
  BY Shrunk DEF Vms
<1>2. \A i \in Vms(q) : q[i] \in Sent /\ i \in Nat
  BY DEF Vms
<1>3. \A i \in Vms(q) : q[i].gen \in Nat
  BY <1>2 DEF Sent, Vms
<1>4. \A i \in Vms(Tail(q)) : Tail(q)[i].gen \in Nat /\ i \in Nat /\ i + 1 > 1
  BY <1>1, <1>3, Shrunk DEF Vms
<1>5. Head(q).of = "vm" => 1 \in Vms(q) /\ Head(q) = q[1]
  BY Shrunk DEF Vms
<1>6. Ascending(q) => Ascending(Tail(q))
  <2> SUFFICES ASSUME Ascending(q), NEW i \in Vms(Tail(q)), NEW j \in Vms(Tail(q)), i < j
               PROVE  Tail(q)[i].gen <= Tail(q)[j].gen
    BY DEF Ascending
  <2>1. i + 1 < j + 1
    BY <1>4
  <2> QED  BY <1>1, <2>1 DEF Ascending
<1>7. Below(q, g) => Below(Tail(q), g)
  BY <1>1 DEF Below
<1>8. Above(q, g) => Above(Tail(q), g)
  BY <1>1 DEF Above
<1>9. Ascending(q) /\ Head(q).of = "vm" => Above(Tail(q), Head(q).gen)
  <2> SUFFICES ASSUME Ascending(q), Head(q).of = "vm", NEW i \in Vms(Tail(q))
               PROVE  Tail(q)[i].gen >= Head(q).gen
    BY DEF Above
  <2>1. q[1].gen <= q[i + 1].gen
    BY <1>1, <1>4, <1>5 DEF Ascending
  <2> QED  BY <1>1, <1>3, <1>5, <2>1
<1> QED  BY <1>1, <1>4, <1>6, <1>7, <1>8, <1>9

\* Nothing that is not an answer to getVM matters to the order.
LEMMA OrderOther ==
  ASSUME NEW q \in Seq(Sent), NEW r, NEW g, NEW n \in Nat, Len(q) \in Nat, Len(r) = n, Len(q) <= n,
         \A i \in 1..Len(q) : r[i] = q[i],
         \A i \in (Len(q) + 1)..n : r[i].of # "vm"
  PROVE  /\ \A i \in Vms(r) : i \in Vms(q) /\ r[i] = q[i]
         /\ Ascending(q) => Ascending(r)
         /\ Below(q, g) => Below(r, g)
         /\ Above(q, g) => Above(r, g)
<1>1. \A i \in Vms(r) : i \in Vms(q) /\ r[i] = q[i]
  <2> SUFFICES ASSUME NEW i \in Vms(r) PROVE i \in Vms(q) /\ r[i] = q[i]
    OBVIOUS
  <2>1. i \in 1..n /\ r[i].of = "vm"
    BY DEF Vms
  <2>2. i \in 1..Len(q) \/ i \in (Len(q) + 1)..n
    BY <2>1
  <2> QED  BY <2>1, <2>2 DEF Vms
<1> QED  BY <1>1 DEF Ascending, Below, Above

\* An answer that names a generation no lower than those before it.
LEMMA OrderGrown ==
  ASSUME NEW q \in Seq(Sent), NEW x \in Sent, x.of = "vm", NEW g \in Nat, Below(q, x.gen)
  PROVE  /\ \A i \in Vms(Append(q, x)) : (i \in Vms(q) /\ Append(q, x)[i] = q[i]) \/ Append(q, x)[i] = x
         /\ Ascending(q) => Ascending(Append(q, x))
         /\ Below(q, g) /\ x.gen <= g => Below(Append(q, x), g)
         /\ Above(q, g) /\ x.gen >= g => Above(Append(q, x), g)
<1> DEFINE r == Append(q, x)
<1>1. /\ Len(q) \in Nat /\ Len(r) = Len(q) + 1 /\ r[Len(q) + 1] = x
      /\ \A i \in 1..Len(q) : r[i] = q[i]
  BY Grown
<1> HIDE DEF r
<1>2. x.gen \in Nat
  BY DEF Sent
<1>3. \A i \in Vms(r) : (i \in Vms(q) /\ r[i] = q[i]) \/ (i = Len(q) + 1 /\ r[i] = x)
  <2> SUFFICES ASSUME NEW i \in Vms(r)
               PROVE  (i \in Vms(q) /\ r[i] = q[i]) \/ (i = Len(q) + 1 /\ r[i] = x)
    OBVIOUS
  <2>1. i \in 1..(Len(q) + 1) /\ r[i].of = "vm"
    BY <1>1 DEF Vms
  <2>2. i \in 1..Len(q) \/ i = Len(q) + 1
    BY <1>1, <2>1
  <2> QED  BY <1>1, <2>1, <2>2 DEF Vms
<1>4. \A i \in Vms(q) : i \in 1..Len(q)
  BY DEF Vms
<1>5. Ascending(q) => Ascending(r)
  <2> SUFFICES ASSUME Ascending(q), NEW i \in Vms(r), NEW j \in Vms(r), i < j
               PROVE  r[i].gen <= r[j].gen
    BY DEF Ascending
  <2>1. CASE j \in Vms(q) /\ r[j] = q[j]
    <3>1. i # Len(q) + 1
      BY <1>1, <1>4, <2>1
    <3> QED  BY <1>3, <2>1, <3>1 DEF Ascending
  <2>2. CASE r[j] = x /\ r[i] = x
    BY <1>2, <2>2
  <2>3. CASE r[j] = x /\ i \in Vms(q) /\ r[i] = q[i]
    BY <2>3 DEF Below
  <2> QED  BY <1>3, <2>1, <2>2, <2>3
<1>6. Below(q, g) /\ x.gen <= g => Below(r, g)
  BY <1>3 DEF Below
<1>7. Above(q, g) /\ x.gen >= g => Above(r, g)
  BY <1>3 DEF Above
<1>8. \A i \in Vms(r) : (i \in Vms(q) /\ r[i] = q[i]) \/ r[i] = x
  BY <1>3
<1> QED  BY <1>5, <1>6, <1>7, <1>8 DEF r

LEMMA OtherGrown ==
  ASSUME NEW q \in Seq(Sent), NEW x \in Sent, x.of # "vm", NEW g
  PROVE  /\ \A i \in Vms(Append(q, x)) : i \in Vms(q) /\ Append(q, x)[i] = q[i]
         /\ Ascending(q) => Ascending(Append(q, x))
         /\ Below(q, g) => Below(Append(q, x), g)
         /\ Above(q, g) => Above(Append(q, x), g)
<1> DEFINE r == Append(q, x)
<1>1. /\ Len(q) \in Nat /\ Len(r) = Len(q) + 1 /\ r[Len(q) + 1] = x
      /\ \A i \in 1..Len(q) : r[i] = q[i]
  BY Grown
<1> HIDE DEF r
<1>2. \A i \in (Len(q) + 1)..(Len(q) + 1) : i = Len(q) + 1
  BY <1>1
<1>3. \A i \in (Len(q) + 1)..(Len(q) + 1) : r[i].of # "vm"
  BY <1>1, <1>2
<1>4. Len(q) + 1 \in Nat /\ Len(q) <= Len(q) + 1
  BY <1>1
<1> QED  BY <1>1, <1>3, <1>4, OrderOther DEF r

\* The order survives what leaves the target and the isolate's generation alone.
LEMMA OrderKept ==
  ASSUME Order, gen' = gen, target' = target, strayed' = strayed,
         \A i \in Vms(wire') : i \in Vms(wire) /\ wire'[i] = wire[i], replies' = replies
  PROVE  Order'
  BY DEF Order, Ascending, Below, Above

LEMMA OrderStep == Typing /\ Order /\ [DebugNext]_debugVars => Order'
<1> SUFFICES ASSUME Typing, Order, [DebugNext]_debugVars PROVE Order'
  OBVIOUS
<1>0. gen \in Nat /\ target \in Nat /\ wire \in Seq(Sent) /\ replies \in Seq(Sent) /\ calls \in Seq(Call)
  BY DEF Typing
<1>1. ASSUME NEW h \in Hits, Hit(h) PROVE Order'
  <2>1. [of |-> "Pause", gen |-> gen, stop |-> stop', hit |-> h] \in Sent
    <3>1. stop' \in Nat
      BY <1>1 DEF Hit, Typing
    <3> QED  BY <1>0, <3>1 DEF Sent
  <2>2. \A i \in Vms(wire') : i \in Vms(wire) /\ wire'[i] = wire[i]
    BY <1>0, <1>1, <2>1, OtherGrown DEF Hit
  <2> QED  BY <1>1, <2>2, OrderKept DEF Hit, view, notes
<1>2. CASE VerbEnds \/ Booted \/ VerbStart \/ Continue \/ AfterJudgeStops \/ AfterResume \/ AfterJudgeFalse
  <2>1. /\ gen' = gen /\ target' = target /\ strayed' = strayed /\ wire' = wire
        /\ replies' = replies \/ (replies # <<>> /\ replies' = Tail(replies))
    BY <1>2 DEF VerbEnds, Booted, VerbStart, Continue, AfterJudgeStops, AfterResume, AfterJudgeFalse,
                isolate, view, notes
  <2>2. CASE replies' = replies
    BY <2>1, <2>2, OrderKept
  <2>3. CASE replies # <<>> /\ replies' = Tail(replies)
    <3>1. /\ \A i \in Vms(replies') : i + 1 \in Vms(replies) /\ replies'[i] = replies[i + 1]
          /\ Ascending(replies) => Ascending(replies')
          /\ Below(replies, gen) => Below(replies', gen)
          /\ Above(replies, target) => Above(replies', target)
      BY <1>0, <2>3, OrderShrunk
    <3> QED  BY <2>1, <3>1 DEF Order, Below, Above, Ascending
  <2> QED  BY <2>1, <2>2, <2>3
<1>3. CASE ServeResume
  <2>1. \A i \in Vms(wire') : i \in Vms(wire) /\ wire'[i] = wire[i]
    <3>1. /\ Len(wire) \in Nat /\ Len(wire') \in Nat /\ Len(wire) <= Len(wire')
          /\ \A i \in 1..Len(wire) : wire'[i] = wire[i]
          /\ \A i \in (Len(wire) + 1)..Len(wire') : wire'[i].of # "vm"
      BY <1>3, Resumed
    <3> QED  BY <1>0, <3>1, OrderOther
  <2> QED  BY <1>3, <2>1, OrderKept DEF ServeResume, view, notes
<1>4. CASE ServeJudge
  <2>1. PICK v \in Hits : wire' = Append(wire, [of |-> "judged", stop |-> Head(calls).stop, value |-> v])
    BY <1>4 DEF ServeJudge, Hits, Conditions, Typing
  <2>2. Head(calls) \in Call
    BY <1>0, <1>4, Queue DEF ServeJudge
  <2>3. [of |-> "judged", stop |-> Head(calls).stop, value |-> v] \in Sent
    BY <2>2 DEF Call, Sent
  <2>4. \A i \in Vms(wire') : i \in Vms(wire) /\ wire'[i] = wire[i]
    BY <1>0, <2>1, <2>3, OtherGrown
  <2> QED  BY <1>4, <2>4, OrderKept DEF ServeJudge, isolate, view, notes
<1>5. CASE ServeGetVM
  <2> DEFINE x == [of |-> "vm", gen |-> gen]
  <2>1. x \in Sent /\ x.of = "vm" /\ x.gen = gen
    BY DEF Sent, Typing
  <2>2. /\ wire' = Append(wire, x) /\ replies' = replies /\ target' = target /\ gen' = gen
        /\ strayed' = strayed
    BY <1>5 DEF ServeGetVM, isolate, view, notes
  <2> HIDE DEF x
  <2>3. /\ \A i \in Vms(wire') : (i \in Vms(wire) /\ wire'[i] = wire[i]) \/ wire'[i] = x
        /\ Ascending(wire) => Ascending(wire')
        /\ Below(wire, gen) => Below(wire', gen)
        /\ Above(wire, target) /\ gen >= target => Above(wire', target)
    <3>1. Below(wire, x.gen)
      BY <2>1 DEF Order
    <3>2. /\ \A i \in Vms(Append(wire, x)) :
               (i \in Vms(wire) /\ Append(wire, x)[i] = wire[i]) \/ Append(wire, x)[i] = x
          /\ Ascending(wire) => Ascending(Append(wire, x))
          /\ Below(wire, gen) /\ x.gen <= gen => Below(Append(wire, x), gen)
          /\ Above(wire, target) /\ x.gen >= target => Above(Append(wire, x), target)
      BY <1>0, <2>1, <3>1, OrderGrown
    <3>3. x.gen <= gen /\ (gen >= target => x.gen >= target)
      BY <1>0, <2>1
    <3> QED  BY <2>2, <3>2, <3>3
  <2>4. \A i \in Vms(replies), j \in Vms(wire') : replies[i].gen <= wire'[j].gen
    BY <2>1, <2>3 DEF Order, Below
  <2>5. gen >= target
    BY <1>0 DEF Order
  <2> QED  BY <2>2, <2>3, <2>4, <2>5 DEF Order, Above, Below, Ascending
<1>6. CASE ReceivePause \/ ReceiveResume
  <2>1. /\ wire # <<>> /\ wire' = Tail(wire) /\ replies' = replies /\ target' = target /\ gen' = gen
        /\ strayed' = strayed
    BY <1>6 DEF ReceivePause, ReceiveResume, isolate, view
  <2>2. /\ \A i \in Vms(wire') : i + 1 \in Vms(wire) /\ wire'[i] = wire[i + 1]
        /\ Ascending(wire) => Ascending(wire')
        /\ Below(wire, gen) => Below(wire', gen)
        /\ Above(wire, target) => Above(wire', target)
    BY <1>0, <2>1, OrderShrunk
  <2> QED  BY <2>1, <2>2 DEF Order, Below, Above, Ascending
<1>7. CASE ReceiveReply
  <2> DEFINE x == Head(wire)
  <2>1. /\ wire # <<>> /\ wire' = Tail(wire) /\ replies' = Append(replies, x) /\ target' = target
        /\ gen' = gen /\ strayed' = strayed
    BY <1>7 DEF ReceiveReply, isolate, view, notes
  <2>2. x \in Sent /\ x = wire[1] /\ 1 \in 1..Len(wire)
    BY <1>0, <2>1, Shrunk
  <2>3. /\ \A i \in Vms(wire') : i + 1 \in Vms(wire) /\ wire'[i] = wire[i + 1]
        /\ Ascending(wire) => Ascending(wire')
        /\ Below(wire, gen) => Below(wire', gen)
        /\ Above(wire, target) => Above(wire', target)
        /\ Ascending(wire) /\ x.of = "vm" => Above(wire', x.gen)
    BY <1>0, <2>1, OrderShrunk
  <2> HIDE DEF x
  <2>4. CASE x.of # "vm"
    <3>1. /\ \A i \in Vms(replies') : i \in Vms(replies) /\ replies'[i] = replies[i]
          /\ Ascending(replies) => Ascending(replies')
          /\ Below(replies, gen) => Below(replies', gen)
          /\ Above(replies, target) => Above(replies', target)
      BY <1>0, <2>1, <2>2, <2>4, OtherGrown
    <3>2. \A i \in Vms(replies'), j \in Vms(wire') : replies'[i].gen <= wire'[j].gen
      BY <2>3, <3>1 DEF Order
    <3> QED  BY <2>1, <2>3, <3>1, <3>2 DEF Order
  <2>5. CASE x.of = "vm"
    <3>1. 1 \in Vms(wire)
      BY <2>2, <2>5 DEF Vms
    <3>2. Below(replies, x.gen) /\ x.gen <= gen /\ (~strayed => x.gen >= target) /\ x.gen \in Nat
      BY <2>2, <2>5, <3>1 DEF Order, Below, Above, Sent
    <3>3. /\ \A i \in Vms(replies') : (i \in Vms(replies) /\ replies'[i] = replies[i]) \/ replies'[i] = x
          /\ Ascending(replies) => Ascending(replies')
          /\ Below(replies, gen) => Below(replies', gen)
          /\ Above(replies, target) /\ x.gen >= target => Above(replies', target)
      BY <1>0, <2>1, <2>2, <2>5, <3>2, OrderGrown
    <3>4. \A i \in Vms(replies'), j \in Vms(wire') : replies'[i].gen <= wire'[j].gen
      <4> SUFFICES ASSUME NEW i \in Vms(replies'), NEW j \in Vms(wire')
                   PROVE  replies'[i].gen <= wire'[j].gen
        OBVIOUS
      <4>1. j + 1 \in Vms(wire) /\ wire'[j] = wire[j + 1]
        BY <2>3
      <4>2. wire'[j].gen >= x.gen
        BY <2>3, <2>5 DEF Above, Order
      <4>3. wire[j + 1] \in Sent /\ wire[j + 1].of = "vm"
        BY <1>0, <4>1 DEF Vms
      <4>4. wire'[j].gen \in Nat
        BY <4>1, <4>3 DEF Sent
      <4> QED  BY <3>2, <3>3, <4>1, <4>2, <4>4 DEF Order
    <3> QED  BY <2>1, <2>3, <3>2, <3>3, <3>4 DEF Order, Above, Below, Ascending
  <2> QED  BY <2>4, <2>5
<1>8. CASE AfterGetVM
  <2>1. /\ replies # <<>> /\ replies' = Tail(replies) /\ Head(replies).of = "vm" /\ wire' = wire
        /\ gen' = gen /\ target' = Head(replies).gen /\ strayed' = strayed
    BY <1>8 DEF AfterGetVM, notes
  <2>2. Head(replies) = replies[1] /\ 1 \in Vms(replies)
    BY <1>0, <2>1, Shrunk DEF Vms
  <2>3. /\ \A i \in Vms(replies') : i + 1 \in Vms(replies) /\ replies'[i] = replies[i + 1]
        /\ Ascending(replies) => Ascending(replies')
        /\ Below(replies, gen) => Below(replies', gen)
        /\ Ascending(replies) => Above(replies', target')
    BY <1>0, <2>1, OrderShrunk
  <2>4. target' <= gen
    BY <2>1, <2>2 DEF Order, Below
  <2>5. Above(wire', target')
    <3>1. \A j \in Vms(wire) : replies[1].gen <= wire[j].gen
      BY <2>2 DEF Order
    <3>2. \A j \in Vms(wire) : wire[j] \in Sent /\ wire[j].of = "vm"
      BY <1>0 DEF Vms
    <3>3. replies[1] \in Sent /\ replies[1].of = "vm"
      BY <1>0, <2>2 DEF Vms
    <3>4. replies[1].gen \in Nat /\ \A j \in Vms(wire) : wire[j].gen \in Nat
      BY <3>2, <3>3 DEF Sent
    <3> QED  BY <2>1, <2>2, <3>1, <3>4 DEF Above
  <2> QED  BY <2>1, <2>3, <2>4, <2>5 DEF Order, Below, Ascending
<1>9. ASSUME NEW t \in {Demo, gen}, Attach(t) PROVE Order'
  <2>1. target' \in {0, gen} /\ gen' = gen /\ wire' = wire /\ replies' = replies /\ strayed' = TRUE
    BY <1>9 DEF Attach, Demo
  <2>2. target' <= gen
    BY <1>0, <2>1
  <2> QED  BY <2>1, <2>2 DEF Order, Below, Ascending
<1>10. CASE MenuRestart \/ Timeout
  <2>1. gen' = gen + 1 /\ target' = target /\ wire' = wire /\ replies' = replies /\ strayed' = strayed
    BY <1>10 DEF MenuRestart, Timeout, Respawn
  <2>2. \A q \in Seq(Sent) : Below(q, gen) => Below(q, gen + 1)
    <3> SUFFICES ASSUME NEW q \in Seq(Sent), Below(q, gen), NEW i \in Vms(q) PROVE q[i].gen <= gen + 1
      BY DEF Below
    <3>1. q[i] \in Sent /\ q[i].of = "vm"
      BY DEF Vms
    <3>2. q[i].gen \in Nat
      BY <3>1 DEF Sent
    <3> QED  BY <1>0, <3>2 DEF Below
  <2>3. target <= gen + 1
    BY <1>0 DEF Order
  <2> QED  BY <1>0, <2>1, <2>2, <2>3 DEF Order, Ascending, Above
<1>11. CASE DriverHold \/ DriverRelease
  BY <1>11, OrderKept DEF DriverHold, DriverRelease, isolate
<1>12. CASE UNCHANGED debugVars
  BY <1>12, OrderKept DEF debugVars, isolate, view, notes
<1> QED
  BY <1>1, <1>2, <1>3, <1>4, <1>5, <1>6, <1>7, <1>8, <1>9, <1>10, <1>11, <1>12
     DEF DebugNext, Service, ReceiveFrame, GoOn, Hits

\* Until the user attaches elsewhere, breakpoints are armed where the debugger is, and
\* a debugger that is behind is on its way to the isolate.
Coming ==
  \/ booting
  \/ \E i \in 1..Len(calls) : calls[i].do = "getVM"
  \/ \E i \in Vms(wire) : wire[i].gen = gen
  \/ \E i \in Vms(replies) : replies[i].gen = gen

Follow ==
  ~strayed =>
    /\ armed = target
    /\ stopped => target = gen
    /\ target # gen => Coming

\* A read passes over one element of a queue.
LEMMA PassedOver ==
  ASSUME NEW S, NEW q \in Seq(S), q # <<>>, NEW i \in 1..Len(q), i # 1
  PROVE  i - 1 \in 1..Len(Tail(q)) /\ Tail(q)[i - 1] = q[i]
<1>1. i - 1 \in 1..Len(Tail(q))
  BY Shrunk
<1>2. Tail(q)[i - 1] = q[(i - 1) + 1] /\ (i - 1) + 1 = i
  BY <1>1, Shrunk
<1> QED  BY <1>1, <1>2

LEMMA FollowStep == Typing /\ Holding /\ Order /\ Follow /\ [DebugNext]_debugVars => Follow'
<1> SUFFICES ASSUME Typing, Holding, Order, Follow, [DebugNext]_debugVars, ~strayed' PROVE Follow'
  BY DEF Follow
<1>0. gen \in Nat /\ target \in Nat /\ wire \in Seq(Sent) /\ replies \in Seq(Sent) /\ calls \in Seq(Call)
  BY DEF Typing
<1>1. ASSUME NEW h \in Hits, Hit(h) PROVE Follow'
  BY <1>1 DEF Hit, Follow, view, notes
<1>2. CASE VerbEnds \/ VerbStart \/ DriverHold \/ DriverRelease \/ UNCHANGED debugVars
  BY <1>2 DEF VerbEnds, VerbStart, DriverHold, DriverRelease, debugVars, isolate, view, notes, Follow, Coming
<1>3. CASE Continue
  <2>1. [do |-> "resume", to |-> target, stop |-> 0] \in Call
    BY <1>0 DEF Call
  <2>2. Len(calls') = Len(calls) + 1 /\ \A i \in 1..Len(calls) : calls'[i] = calls[i]
    BY <1>0, <1>3, <2>1, Grown DEF Continue
  <2>3. Len(calls) \in Nat
    BY <1>0
  <2> QED  BY <1>3, <2>2, <2>3 DEF Continue, isolate, view, notes, Follow, Coming
<1>4. CASE ServeResume \/ ServeJudge
  <2>1. Head(calls) = calls[1] /\ Head(calls).do # "getVM" /\ calls # <<>> /\ calls' = Tail(calls)
    BY <1>0, <1>4, Shrunk DEF ServeResume, ServeJudge
  <2>2. (\E i \in 1..Len(calls) : calls[i].do = "getVM") => \E i \in 1..Len(calls') : calls'[i].do = "getVM"
    BY <1>0, <2>1, PassedOver
  <2>3. \A i \in 1..Len(wire) : i \in 1..Len(wire') /\ wire'[i] = wire[i]
    <3>1. CASE ServeResume
      BY <3>1, Resumed
    <3>2. CASE ServeJudge
      <4>1. PICK v \in Hits : wire' = Append(wire, [of |-> "judged", stop |-> Head(calls).stop, value |-> v])
        BY <3>2 DEF ServeJudge, Hits, Conditions, Typing
      <4>2. Head(calls) \in Call
        BY <1>0, <2>1, Queue
      <4>3. [of |-> "judged", stop |-> Head(calls).stop, value |-> v] \in Sent
        BY <4>2 DEF Call, Sent
      <4> QED  BY <1>0, <4>1, <4>3, Grown
    <3> QED  BY <1>4, <3>1, <3>2
  <2>4. /\ gen' = gen /\ target' = target /\ armed' = armed /\ booting' = booting /\ replies' = replies
        /\ strayed' = strayed /\ (stopped' => stopped)
    BY <1>4 DEF ServeResume, ServeJudge, isolate, view, notes
  <2> QED  BY <2>2, <2>3, <2>4 DEF Follow, Coming, Vms
<1>5. CASE ServeGetVM
  <2>1. [of |-> "vm", gen |-> gen] \in Sent
    BY DEF Sent, Typing
  <2>2. Len(wire') \in 1..Len(wire') /\ wire'[Len(wire')] = [of |-> "vm", gen |-> gen]
    BY <1>0, <1>5, <2>1, Grown DEF ServeGetVM
  <2>3. Len(wire') \in Vms(wire') /\ wire'[Len(wire')].gen = gen
    BY <2>2 DEF Vms
  <2> QED  BY <1>5, <2>3 DEF ServeGetVM, isolate, view, notes, Follow, Coming
<1>6. CASE Booted
  <2>1. gDbgIsLang
    BY <1>6 DEF Booted, Holding, notes
  <2>2. [do |-> "getVM", to |-> 0, stop |-> 0] \in Call
    BY DEF Call
  <2>3. calls' = Append(calls, [do |-> "getVM", to |-> 0, stop |-> 0])
    BY <1>6, <2>1 DEF Booted
  <2>4. Len(calls') \in 1..Len(calls') /\ calls'[Len(calls')].do = "getVM"
    BY <1>0, <2>2, <2>3, Grown
  <2> QED  BY <1>6, <2>4 DEF Booted, view, notes, Follow, Coming
<1>7. CASE ReceivePause \/ ReceiveResume
  <2>1. Head(wire) = wire[1] /\ Head(wire).of # "vm" /\ wire # <<>> /\ wire' = Tail(wire)
    BY <1>0, <1>7, Shrunk DEF ReceivePause, ReceiveResume
  <2>2. (\E i \in Vms(wire) : wire[i].gen = gen) => \E i \in Vms(wire') : wire'[i].gen = gen
    BY <1>0, <2>1, PassedOver DEF Vms
  <2>3. \A i \in 1..Len(calls) : i \in 1..Len(calls') /\ calls'[i] = calls[i]
    <3>1. CASE calls' = calls
      BY <3>1
    <3>2. CASE ReceivePause /\ calls' = Append(calls, [do |-> "judge", to |-> target, stop |-> Head(wire).stop])
      <4>1. Head(wire) \in Sent
        BY <1>0, <2>1, Queue
      <4>2. [do |-> "judge", to |-> target, stop |-> Head(wire).stop] \in Call
        BY <1>0, <3>2, <4>1 DEF ReceivePause, Sent, Call
      <4> QED  BY <1>0, <3>2, <4>2, Grown
    <3> QED  BY <1>7, <3>1, <3>2 DEF ReceivePause, ReceiveResume
  <2> QED  BY <1>7, <2>2, <2>3 DEF ReceivePause, ReceiveResume, isolate, view, Follow, Coming
<1>8. CASE ReceiveReply
  <2> DEFINE x == Head(wire)
  <2>1. x = wire[1] /\ x \in Sent /\ wire # <<>> /\ wire' = Tail(wire) /\ replies' = Append(replies, x)
    BY <1>0, <1>8, Shrunk, Queue DEF ReceiveReply
  <2> HIDE DEF x
  <2>2. /\ \A i \in 1..Len(replies) : i \in 1..Len(replies') /\ replies'[i] = replies[i]
        /\ Len(replies') \in 1..Len(replies') /\ replies'[Len(replies')] = x
    BY <1>0, <2>1, Grown
  <2>3. (\E i \in Vms(wire) : wire[i].gen = gen)
          => (\E i \in Vms(wire') : wire'[i].gen = gen) \/ (\E i \in Vms(replies') : replies'[i].gen = gen)
    <3> SUFFICES ASSUME NEW i \in Vms(wire), wire[i].gen = gen
                 PROVE  \/ \E j \in Vms(wire') : wire'[j].gen = gen
                        \/ \E j \in Vms(replies') : replies'[j].gen = gen
      OBVIOUS
    <3>1. i \in 1..Len(wire) /\ wire[i].of = "vm"
      BY DEF Vms
    <3>2. CASE i = 1
      <4>1. Len(replies') \in Vms(replies')
        BY <2>1, <2>2, <3>1, <3>2 DEF Vms
      <4> QED  BY <2>1, <2>2, <3>2, <4>1
    <3>3. CASE i # 1
      <4>1. i - 1 \in 1..Len(wire') /\ wire'[i - 1] = wire[i]
        BY <1>0, <2>1, <3>1, <3>3, PassedOver
      <4> QED  BY <3>1, <4>1 DEF Vms
    <3> QED  BY <3>2, <3>3
  <2>4. (\E i \in Vms(replies) : replies[i].gen = gen) => \E i \in Vms(replies') : replies'[i].gen = gen
    BY <2>2 DEF Vms
  <2> QED  BY <1>8, <2>3, <2>4 DEF ReceiveReply, isolate, view, notes, Follow, Coming
<1>9. CASE AfterResume \/ AfterJudgeFalse \/ AfterJudgeStops \/ AfterGetVM
  <2>1. Head(replies) = replies[1] /\ replies # <<>> /\ replies' = Tail(replies)
    BY <1>0, <1>9, Shrunk DEF AfterResume, AfterJudgeFalse, AfterJudgeStops, AfterGetVM
  <2>2. \A i \in Vms(replies) : i # 1 => i - 1 \in Vms(replies') /\ replies'[i - 1] = replies[i]
    BY <1>0, <2>1, PassedOver DEF Vms
  <2>3. CASE AfterGetVM
    <3>1. /\ Head(replies).of = "vm" /\ target' = Head(replies).gen /\ armed' = target' /\ gen' = gen
          /\ stopped' = stopped /\ booting' = booting /\ calls' = calls /\ wire' = wire /\ strayed' = strayed
      BY <2>3 DEF AfterGetVM, notes
    <3>2. 1 \in Vms(replies) /\ replies[1] \in Sent
      BY <1>0, <2>1, <3>1, Shrunk DEF Vms
    <3>3. target' \in Nat /\ target' <= gen /\ target' >= target
      BY <2>1, <3>1, <3>2 DEF Order, Below, Above, Sent
    <3>4. stopped => target' = gen
      BY <1>0, <3>1, <3>3 DEF Follow
    <3>5. target' # gen => target # gen
      BY <1>0, <3>3
    <3>6. target' # gen => Coming'
      <4> SUFFICES ASSUME target' # gen PROVE Coming'
        OBVIOUS
      <4>1. Coming
        BY <3>1, <3>5 DEF Follow
      <4>2. \A i \in Vms(replies) : replies[i].gen = gen => i # 1
        BY <2>1, <3>1
      <4> QED  BY <2>2, <3>1, <4>1, <4>2 DEF Coming
    <3> QED  BY <3>1, <3>4, <3>6 DEF Follow
  <2>4. CASE AfterResume \/ AfterJudgeFalse \/ AfterJudgeStops
    <3>1. Head(replies).of # "vm"
      BY <2>4 DEF AfterResume, AfterJudgeFalse, AfterJudgeStops
    <3>2. (\E i \in Vms(replies) : replies[i].gen = gen) => \E i \in Vms(replies') : replies'[i].gen = gen
      BY <2>1, <2>2, <3>1 DEF Vms
    <3>3. \A i \in 1..Len(calls) : i \in 1..Len(calls') /\ calls'[i] = calls[i]
      <4>1. [do |-> "skip", to |-> target, stop |-> 0] \in Call
        BY <1>0 DEF Call
      <4>2. calls' = calls \/ calls' = Append(calls, [do |-> "skip", to |-> target, stop |-> 0])
        BY <2>4 DEF AfterResume, AfterJudgeFalse, AfterJudgeStops
      <4> QED  BY <1>0, <4>1, <4>2, Grown
    <3>4. /\ gen' = gen /\ target' = target /\ armed' = armed /\ booting' = booting /\ wire' = wire
          /\ strayed' = strayed /\ stopped' = stopped
      BY <2>4 DEF AfterResume, AfterJudgeFalse, AfterJudgeStops, isolate, notes
    <3> QED  BY <3>2, <3>3, <3>4 DEF Follow, Coming
  <2> QED  BY <1>9, <2>3, <2>4
<1>10. ASSUME NEW t \in {Demo, gen}, Attach(t) PROVE Follow'
  BY <1>10 DEF Attach
<1>11. CASE MenuRestart \/ Timeout
  BY <1>11 DEF MenuRestart, Timeout, Respawn, Follow, Coming
<1> QED
  BY <1>1, <1>2, <1>3, <1>4, <1>5, <1>6, <1>7, <1>8, <1>9, <1>10, <1>11
     DEF DebugNext, Service, ReceiveFrame, GoOn, Hits

---------------------------------------------------------------------------
(* The hold and the stop.                                                  *)

\* The events on the socket that tell of generation g, and what the last one says.
News(q, g) == {k \in 1..Len(q) : q[k].of \in {"Pause", "Resume"} /\ q[k].gen = g}

Tells(q, g, word) == \A k \in News(q, g) : (\A j \in News(q, g) : j <= k) => q[k].of = word
UpTo(q, g) == \A k \in 1..Len(q) : q[k].of \in {"Pause", "Resume"} => q[k].gen <= g

StopWord == IF stopped THEN "Pause" ELSE "Resume"

\* What the UI isolate knows of a stop when no news of it is under way.
Agree ==
  \/ gDbgPaused <=> stopped
  \/ drift = "ghost" /\ gDbgPaused /\ ~stopped
  \/ drift = "undone" /\ ~gDbgPaused /\ stopped
  \/ ~gDbgPaused /\ stopped /\ \E i \in 1..Len(calls) : calls[i].do = "skip" /\ calls[i].to = gen

Told ==
  /\ UpTo(wire, gen)
  /\ ~strayed =>
       /\ Tells(wire, gen, StopWord)
       /\ target # gen => ~stopped /\ News(wire, gen) = {} /\ (gDbgPaused => drift = "ghost")
       /\ target = gen /\ News(wire, gen) = {} => Agree

LEMMA NewsShrunk ==
  ASSUME NEW q \in Seq(Sent), q # <<>>, NEW g \in Nat, NEW word
  PROVE  /\ UpTo(q, g) => UpTo(Tail(q), g)
         /\ Tells(q, g, word) => Tells(Tail(q), g, word)
         /\ News(q, g) = {} => News(Tail(q), g) = {}
         /\ News(Tail(q), g) = {} /\ News(q, g) # {} /\ Tells(q, g, word) =>
              Head(q).of = word /\ Head(q).of \in {"Pause", "Resume"} /\ Head(q).gen = g
<1>1. \A k \in News(Tail(q), g) : k + 1 \in News(q, g) /\ Tail(q)[k] = q[k + 1] /\ k \in Nat
  BY Shrunk DEF News
<1>2. \A k \in News(q, g) : k # 1 => k - 1 \in News(Tail(q), g) /\ k \in Nat
  BY PassedOver DEF News
<1>3. UpTo(q, g) => UpTo(Tail(q), g)
  BY Shrunk DEF UpTo
<1>4. Tells(q, g, word) => Tells(Tail(q), g, word)
  <2> SUFFICES ASSUME Tells(q, g, word), NEW k \in News(Tail(q), g), \A j \in News(Tail(q), g) : j <= k
               PROVE  Tail(q)[k].of = word
    BY DEF Tells
  <2>1. \A j \in News(q, g) : j <= k + 1
    <3> SUFFICES ASSUME NEW j \in News(q, g) PROVE j <= k + 1
      OBVIOUS
    <3>1. CASE j = 1
      BY <1>1, <3>1
    <3>2. CASE j # 1
      BY <1>1, <1>2, <3>2
    <3> QED  BY <3>1, <3>2
  <2> QED  BY <1>1, <2>1 DEF Tells
<1>5. News(q, g) = {} => News(Tail(q), g) = {}
  BY <1>1
<1>6. News(Tail(q), g) = {} /\ News(q, g) # {} /\ Tells(q, g, word) =>
        Head(q).of = word /\ Head(q).of \in {"Pause", "Resume"} /\ Head(q).gen = g
  <2> SUFFICES ASSUME News(Tail(q), g) = {}, News(q, g) # {}, Tells(q, g, word)
               PROVE  Head(q).of = word /\ Head(q).of \in {"Pause", "Resume"} /\ Head(q).gen = g
    OBVIOUS
  <2>1. News(q, g) = {1}
    BY <1>2
  <2>2. q[1].of = word
    BY <2>1 DEF Tells
  <2>3. q[1].of \in {"Pause", "Resume"} /\ q[1].gen = g
    BY <2>1 DEF News
  <2> QED  BY <2>2, <2>3, Shrunk
<1> QED  BY <1>3, <1>4, <1>5, <1>6

\* What is no event changes no news.
LEMMA NewsOther ==
  ASSUME NEW q \in Seq(Sent), NEW r, NEW g, NEW word, Len(q) \in Nat, Len(r) \in Nat, Len(q) <= Len(r),
         \A i \in 1..Len(q) : r[i] = q[i],
         \A i \in (Len(q) + 1)..Len(r) : r[i].of \notin {"Pause", "Resume"}
  PROVE  /\ News(r, g) = News(q, g)
         /\ UpTo(q, g) => UpTo(r, g)
         /\ Tells(q, g, word) => Tells(r, g, word)
<1>1. \A i \in 1..Len(r) : i \in 1..Len(q) \/ i \in (Len(q) + 1)..Len(r)
  OBVIOUS
<1>2. \A i \in 1..Len(q) : i \in 1..Len(r)
  OBVIOUS
<1>3. News(r, g) = News(q, g)
  BY <1>1, <1>2 DEF News
<1>4. \A k \in News(q, g) : r[k] = q[k]
  BY DEF News
<1>5. UpTo(q, g) => UpTo(r, g)
  BY <1>1 DEF UpTo
<1>6. Tells(q, g, word) => Tells(r, g, word)
  BY <1>3, <1>4 DEF Tells
<1> QED  BY <1>3, <1>5, <1>6

\* The last event has the last word.
LEMMA NewsLast ==
  ASSUME NEW r, NEW g, Len(r) \in Nat \ {0}, r[Len(r)].of \in {"Pause", "Resume"}, r[Len(r)].gen = g
  PROVE  Len(r) \in News(r, g) /\ Tells(r, g, r[Len(r)].of)
<1>1. Len(r) \in News(r, g)
  BY DEF News
<1>2. \A k \in News(r, g) : k \in 1..Len(r)
  BY DEF News
<1>3. \A k \in News(r, g) : Len(r) <= k => k = Len(r)
  BY <1>2
<1> QED  BY <1>1, <1>3 DEF Tells

\* The news keeps its truth where the stop, the target and the knowledge of the pause
\* stay as they are and no call to skip a stop is taken away.
LEMMA ToldKept ==
  ASSUME Told, gen' = gen, target' = target, strayed' = strayed, stopped' = stopped,
         gDbgPaused' = gDbgPaused, drift' = drift,
         UpTo(wire, gen) => UpTo(wire', gen),
         Tells(wire, gen, StopWord) => Tells(wire', gen, StopWord),
         News(wire', gen) = {} <=> News(wire, gen) = {},
         (stopped /\ \E i \in 1..Len(calls) : calls[i].do = "skip" /\ calls[i].to = gen)
           => \E i \in 1..Len(calls') : calls'[i].do = "skip" /\ calls'[i].to = gen
  PROVE  Told'
<1>1. StopWord' = StopWord
  BY DEF StopWord
<1>2. Agree => Agree'
  BY DEF Agree
<1> QED  BY <1>1, <1>2 DEF Told

LEMMA ToldStep == Typing /\ Order /\ Follow /\ Told /\ [DebugNext]_debugVars => Told'
<1> SUFFICES ASSUME Typing, Order, Follow, Told, [DebugNext]_debugVars PROVE Told'
  OBVIOUS
<1>0. gen \in Nat /\ target \in Nat /\ wire \in Seq(Sent) /\ replies \in Seq(Sent) /\ calls \in Seq(Call)
  BY DEF Typing
<1>1. ASSUME NEW h \in Hits, Hit(h) PROVE Told'
  <2> DEFINE x == [of |-> "Pause", gen |-> gen, stop |-> stop', hit |-> h]
  <2>1. stop' \in Nat
    BY <1>1 DEF Hit, Typing
  <2>2. x \in Sent /\ x.of = "Pause" /\ x.gen = gen
    BY <1>0, <2>1 DEF Sent
  <2>3. wire' = Append(wire, x) /\ gen' = gen /\ target' = target /\ strayed' = strayed /\ stopped' = TRUE
        /\ armed = gen
    BY <1>1 DEF Hit, view, notes
  <2> HIDE DEF x
  <2>4. /\ Len(wire) \in Nat /\ Len(wire') = Len(wire) + 1 /\ wire'[Len(wire')] = x
        /\ \A i \in 1..Len(wire) : wire'[i] = wire[i]
    BY <1>0, <2>2, <2>3, Grown
  <2>5. Len(wire') \in News(wire', gen) /\ Tells(wire', gen, "Pause")
    BY <2>2, <2>4, NewsLast
  <2>6. UpTo(wire', gen)
    <3> SUFFICES ASSUME NEW k \in 1..Len(wire'), wire'[k].of \in {"Pause", "Resume"} PROVE wire'[k].gen <= gen
      BY DEF UpTo
    <3>1. k \in 1..Len(wire) \/ k = Len(wire')
      BY <2>4
    <3> QED  BY <1>0, <2>2, <2>4, <3>1 DEF Told, UpTo
  <2>7. StopWord' = "Pause"
    BY <2>3 DEF StopWord
  <2>8. ~strayed => target = gen
    BY <2>3 DEF Follow
  <2> QED  BY <2>3, <2>5, <2>6, <2>7, <2>8 DEF Told
<1>2. CASE VerbEnds \/ VerbStart \/ DriverHold \/ DriverRelease \/ AfterJudgeStops \/ UNCHANGED debugVars
  <2>1. /\ gen' = gen /\ target' = target /\ strayed' = strayed /\ stopped' = stopped
        /\ gDbgPaused' = gDbgPaused /\ drift' = drift /\ wire' = wire /\ calls' = calls
    BY <1>2 DEF VerbEnds, VerbStart, DriverHold, DriverRelease, AfterJudgeStops, debugVars, isolate, view, notes
  <2> QED  BY <2>1, ToldKept
<1>3. CASE Continue \/ Booted
  <2>1. /\ gen' = gen /\ target' = target /\ strayed' = strayed /\ stopped' = stopped
        /\ gDbgPaused' = gDbgPaused /\ drift' = drift /\ wire' = wire
    BY <1>3 DEF Continue, Booted, isolate, view, notes
  <2>2. \A i \in 1..Len(calls) : i \in 1..Len(calls') /\ calls'[i] = calls[i]
    <3>1. /\ [do |-> "resume", to |-> target, stop |-> 0] \in Call
          /\ [do |-> "getVM", to |-> 0, stop |-> 0] \in Call
      BY <1>0 DEF Call
    <3>2. \/ calls' = calls \/ calls' = Append(calls, [do |-> "resume", to |-> target, stop |-> 0])
          \/ calls' = Append(calls, [do |-> "getVM", to |-> 0, stop |-> 0])
      BY <1>3 DEF Continue, Booted
    <3> QED  BY <1>0, <3>1, <3>2, Grown
  <2> QED  BY <2>1, <2>2, ToldKept
<1>4. CASE ServeResume
  <2>1. /\ gen' = gen /\ target' = target /\ strayed' = strayed /\ gDbgPaused' = gDbgPaused /\ drift' = drift
        /\ calls # <<>> /\ calls' = Tail(calls)
    BY <1>4 DEF ServeResume, view, notes
  <2>2. CASE Head(calls).to = gen /\ stopped
    <3>1. stopped' = FALSE /\ wire'[Len(wire')].of = "Resume" /\ wire'[Len(wire')].gen = gen
          /\ Len(wire') \in Nat \ {0}
      <4>1. Len(wire) \in Nat /\ Len(wire') \in Nat /\ Len(wire') > Len(wire)
        BY <1>4, <2>2, Resumed
      <4>2. stopped' = FALSE /\ wire'[Len(wire')].of = "Resume" /\ wire'[Len(wire')].gen = gen
        BY <1>4, <2>2, Resumed
      <4> QED  BY <4>1, <4>2
    <3>2. Len(wire') \in News(wire', gen) /\ Tells(wire', gen, "Resume")
      BY <3>1, NewsLast
    <3>3. UpTo(wire', gen)
      <4> SUFFICES ASSUME NEW k \in 1..Len(wire'), wire'[k].of \in {"Pause", "Resume"} PROVE wire'[k].gen <= gen
        BY DEF UpTo
      <4>1. k \in 1..Len(wire) \/ k \in (Len(wire) + 1)..Len(wire')
        BY <1>4, Resumed
      <4>2. CASE k \in 1..Len(wire)
        <5>1. wire'[k] = wire[k]
          BY <1>4, <4>2, Resumed
        <5> QED  BY <4>2, <5>1 DEF Told, UpTo
      <4>3. CASE k \in (Len(wire) + 1)..Len(wire')
        <5>1. wire'[k].gen = gen
          BY <1>4, <4>3, Resumed
        <5> QED  BY <1>0, <5>1
      <4> QED  BY <4>1, <4>2, <4>3
    <3>4. StopWord' = "Resume"
      BY <3>1 DEF StopWord
    <3>5. ~strayed => target = gen
      BY <2>2 DEF Follow
    <3> QED  BY <2>1, <3>2, <3>3, <3>4, <3>5 DEF Told
  <2>3. CASE ~(Head(calls).to = gen /\ stopped)
    <3>1. /\ Len(wire) \in Nat /\ Len(wire') \in Nat /\ Len(wire) <= Len(wire')
          /\ \A i \in 1..Len(wire) : wire'[i] = wire[i]
          /\ \A i \in (Len(wire) + 1)..Len(wire') : wire'[i].of = "resumed"
          /\ stopped' = stopped
      BY <1>4, <2>3, Resumed
    <3>2. /\ News(wire', gen) = News(wire, gen)
          /\ UpTo(wire, gen) => UpTo(wire', gen)
          /\ Tells(wire, gen, StopWord) => Tells(wire', gen, StopWord)
      BY <1>0, <3>1, NewsOther
    <3>3. (stopped /\ \E i \in 1..Len(calls) : calls[i].do = "skip" /\ calls[i].to = gen)
            => \E i \in 1..Len(calls') : calls'[i].do = "skip" /\ calls'[i].to = gen
      <4> SUFFICES ASSUME stopped, NEW i \in 1..Len(calls), calls[i].do = "skip", calls[i].to = gen
                   PROVE  \E j \in 1..Len(calls') : calls'[j].do = "skip" /\ calls'[j].to = gen
        OBVIOUS
      <4>1. i # 1
        BY <1>0, <2>1, <2>3, Shrunk
      <4> QED  BY <1>0, <2>1, <4>1, PassedOver
    <3> QED  BY <2>1, <3>1, <3>2, <3>3, ToldKept
  <2> QED  BY <2>2, <2>3
<1>5. CASE ServeJudge \/ ServeGetVM
  <2>1. /\ gen' = gen /\ target' = target /\ strayed' = strayed /\ gDbgPaused' = gDbgPaused /\ drift' = drift
        /\ stopped' = stopped /\ calls # <<>> /\ calls' = Tail(calls) /\ Head(calls).do # "skip"
    BY <1>5 DEF ServeJudge, ServeGetVM, isolate, view, notes
  <2>2. PICK x \in Sent : wire' = Append(wire, x) /\ x.of \notin {"Pause", "Resume"}
    <3>1. CASE ServeJudge
      <4>1. PICK v \in Hits : wire' = Append(wire, [of |-> "judged", stop |-> Head(calls).stop, value |-> v])
        BY <3>1 DEF ServeJudge, Hits, Conditions, Typing
      <4>2. Head(calls) \in Call
        BY <1>0, <2>1, Queue
      <4>3. [of |-> "judged", stop |-> Head(calls).stop, value |-> v] \in Sent
        BY <4>2 DEF Call, Sent
      <4> QED  BY <4>1, <4>3
    <3>2. CASE ServeGetVM
      <4>1. [of |-> "vm", gen |-> gen] \in Sent
        BY DEF Sent, Typing
      <4> QED  BY <3>2, <4>1 DEF ServeGetVM
    <3> QED  BY <1>5, <3>1, <3>2
  <2>3. /\ Len(wire) \in Nat /\ Len(wire') = Len(wire) + 1 /\ wire'[Len(wire) + 1] = x
        /\ \A i \in 1..Len(wire) : wire'[i] = wire[i]
    BY <1>0, <2>2, Grown
  <2>4. \A i \in (Len(wire) + 1)..Len(wire') : wire'[i].of \notin {"Pause", "Resume"}
    <3>1. \A i \in (Len(wire) + 1)..Len(wire') : i = Len(wire) + 1
      BY <2>3
    <3> QED  BY <2>2, <2>3, <3>1
  <2>5. /\ News(wire', gen) = News(wire, gen)
        /\ UpTo(wire, gen) => UpTo(wire', gen)
        /\ Tells(wire, gen, StopWord) => Tells(wire', gen, StopWord)
    <3>1. Len(wire') \in Nat /\ Len(wire) <= Len(wire')
      BY <2>3
    <3> QED  BY <1>0, <2>3, <2>4, <3>1, NewsOther
  <2>6. (\E i \in 1..Len(calls) : calls[i].do = "skip" /\ calls[i].to = gen)
          => \E i \in 1..Len(calls') : calls'[i].do = "skip" /\ calls'[i].to = gen
    <3> SUFFICES ASSUME NEW i \in 1..Len(calls), calls[i].do = "skip", calls[i].to = gen
                 PROVE  \E j \in 1..Len(calls') : calls'[j].do = "skip" /\ calls'[j].to = gen
      OBVIOUS
    <3>1. i # 1
      BY <1>0, <2>1, Shrunk
    <3>2. i - 1 \in 1..Len(calls') /\ calls'[i - 1] = calls[i]
      BY <1>0, <2>1, <3>1, PassedOver
    <3> QED  BY <3>2
  <2> QED  BY <2>1, <2>5, <2>6, ToldKept
<1>6. CASE ReceivePause \/ ReceiveResume \/ ReceiveReply
  <2> DEFINE e == Head(wire)
  <2>1. wire # <<>> /\ wire' = Tail(wire) /\ gen' = gen /\ target' = target /\ strayed' = strayed
        /\ stopped' = stopped
    BY <1>6 DEF ReceivePause, ReceiveResume, ReceiveReply, isolate, view, notes
  <2>2. e = wire[1] /\ 1 \in 1..Len(wire)
    BY <1>0, <2>1, Shrunk
  <2> HIDE DEF e
  <2>3. /\ UpTo(wire, gen) => UpTo(wire', gen)
        /\ Tells(wire, gen, StopWord) => Tells(wire', gen, StopWord)
        /\ News(wire, gen) = {} => News(wire', gen) = {}
        /\ News(wire', gen) = {} /\ News(wire, gen) # {} /\ Tells(wire, gen, StopWord) =>
             e.of = StopWord /\ e.of \in {"Pause", "Resume"} /\ e.gen = gen
    BY <1>0, <2>1, NewsShrunk DEF e
  <2>4. StopWord' = StopWord
    BY <2>1 DEF StopWord
  <2>5. CASE (e.of \notin {"Pause", "Resume"} \/ e.gen # target)
             /\ gDbgPaused' = gDbgPaused /\ drift' = drift /\ calls' = calls
    <3>1. Agree => Agree'
      BY <2>1, <2>5 DEF Agree
    <3>2. ~strayed /\ target = gen /\ News(wire', gen) = {} => News(wire, gen) = {}
      BY <2>3, <2>5 DEF Told
    <3> QED  BY <2>1, <2>3, <2>4, <2>5, <3>1, <3>2 DEF Told
  <2>6. CASE e.of = "Pause" /\ e.gen = target /\ gDbgPaused' = TRUE
             /\ drift' = IF e.gen = gen THEN "none" ELSE "ghost"
    <3>1. ~strayed /\ target = gen /\ News(wire', gen) = {} => Agree'
      <4> SUFFICES ASSUME ~strayed, target = gen, News(wire', gen) = {} PROVE Agree'
        OBVIOUS
      <4>1. 1 \in News(wire, gen)
        BY <2>2, <2>6 DEF News
      <4>2. StopWord = "Pause"
        BY <2>3, <2>6, <4>1 DEF Told
      <4> QED  BY <2>1, <2>6, <4>2 DEF StopWord, Agree
    <3> QED  BY <2>1, <2>3, <2>4, <2>6, <3>1 DEF Told
  <2>7. CASE e.of = "Resume" /\ e.gen = target /\ ~gDbgPaused'
    <3>1. ~strayed /\ target = gen /\ News(wire', gen) = {} => Agree'
      <4> SUFFICES ASSUME ~strayed, target = gen, News(wire', gen) = {} PROVE Agree'
        OBVIOUS
      <4>1. 1 \in News(wire, gen)
        BY <2>2, <2>7 DEF News
      <4>2. StopWord = "Resume"
        BY <2>3, <2>7, <4>1 DEF Told
      <4> QED  BY <2>1, <2>7, <4>2 DEF StopWord, Agree
    <3> QED  BY <2>1, <2>3, <2>4, <2>7, <3>1 DEF Told
  <2> QED  BY <1>6, <2>5, <2>6, <2>7 DEF ReceivePause, ReceiveResume, ReceiveReply, view, notes, e
<1>7. CASE AfterResume
  <2>1. /\ gen' = gen /\ target' = target /\ strayed' = strayed /\ stopped' = stopped /\ wire' = wire
        /\ gDbgPaused' = FALSE /\ calls' = calls
        /\ drift' = IF gDbgPaused THEN (IF stopped THEN "undone" ELSE "none") ELSE drift
    BY <1>7 DEF AfterResume, isolate
  <2>2. Agree => Agree'
    BY <2>1 DEF Agree
  <2>3. StopWord' = StopWord
    BY <2>1 DEF StopWord
  <2> QED  BY <2>1, <2>2, <2>3 DEF Told
<1>8. CASE AfterJudgeFalse
  <2>1. /\ gen' = gen /\ target' = target /\ strayed' = strayed /\ stopped' = stopped /\ wire' = wire
        /\ gDbgPaused' = FALSE /\ calls' = Append(calls, [do |-> "skip", to |-> target, stop |-> 0])
    BY <1>8 DEF AfterJudgeFalse, isolate
  <2>2. [do |-> "skip", to |-> target, stop |-> 0] \in Call
    BY <1>0 DEF Call
  <2>3. Len(calls') \in 1..Len(calls') /\ calls'[Len(calls')] = [do |-> "skip", to |-> target, stop |-> 0]
    BY <1>0, <2>1, <2>2, Grown
  <2>4. target = gen => Agree'
    BY <2>1, <2>3 DEF Agree
  <2>5. StopWord' = StopWord
    BY <2>1 DEF StopWord
  <2> QED  BY <2>1, <2>4, <2>5 DEF Told
<1>9. CASE AfterGetVM
  <2>1. /\ gen' = gen /\ strayed' = strayed /\ stopped' = stopped /\ wire' = wire /\ calls' = calls
        /\ gDbgPaused' = gDbgPaused /\ drift' = drift /\ target' = Head(replies).gen
        /\ replies # <<>> /\ Head(replies).of = "vm"
    BY <1>9 DEF AfterGetVM, notes
  <2>2. Head(replies) = replies[1] /\ 1 \in Vms(replies) /\ Head(replies) \in Sent
    BY <1>0, <2>1, Shrunk, Queue DEF Vms
  <2>3. ~strayed => target' \in Nat /\ target' <= gen /\ target' >= target
    BY <2>1, <2>2 DEF Order, Below, Above, Sent
  <2>4. ~strayed /\ target = gen => target' = gen
    BY <1>0, <2>3
  <2>5. StopWord' = StopWord /\ (Agree => Agree')
    BY <2>1 DEF StopWord, Agree
  <2>6. ~strayed /\ target # gen => Agree'
    BY <2>1 DEF Told, Agree
  <2> QED  BY <2>1, <2>4, <2>5, <2>6 DEF Told
<1>10. ASSUME NEW t \in {Demo, gen}, Attach(t) PROVE Told'
  BY <1>10 DEF Attach, Told
<1>11. CASE MenuRestart \/ Timeout
  <2>1. gen' = gen + 1 /\ target' = target /\ wire' = wire /\ stopped' = FALSE /\ gDbgPaused' = FALSE
        /\ strayed' = strayed
    BY <1>11 DEF MenuRestart, Timeout, Respawn
  <2>2. \A k \in 1..Len(wire) : wire[k].of \in {"Pause", "Resume"} => wire[k].gen \in Nat /\ wire[k].gen <= gen
    BY <1>0 DEF Told, UpTo, Sent
  <2>3. UpTo(wire', gen') /\ News(wire', gen') = {}
    BY <1>0, <2>1, <2>2 DEF UpTo, News
  <2>4. target # gen + 1
    BY <1>0 DEF Order
  <2> QED  BY <2>1, <2>3, <2>4 DEF Told, Tells
<1> QED
  BY <1>1, <1>2, <1>3, <1>4, <1>5, <1>6, <1>7, <1>8, <1>9, <1>10, <1>11
     DEF DebugNext, Service, ReceiveFrame, GoOn, Hits

\* Once everything is settled the watchdog is held exactly while the isolate stands at a
\* breakpoint, on top of the driver's holds, for any number of stops, restarts and acts,
\* but for a stop whose pause the reply to a resume undid and a pause that was read after
\* its isolate was killed (onVmsEvent, dbgResume, dbgForgetPause).
THEOREM HoldFollowsStop == DebugSpec => []HoldIsStop
<1> DEFINE Inv == Typing /\ Holding /\ Order /\ Follow /\ Told
<1>1. DebugInit => Inv
  <2> SUFFICES ASSUME DebugInit PROVE Inv
    OBVIOUS
  <2>1. Typing /\ Holding
    BY DEF DebugInit, Typing, Holding, gDbgIsLang, Demo, Hits
  <2>2. Vms(wire) = {} /\ Vms(replies) = {} /\ \A g : News(wire, g) = {}
    BY DEF DebugInit, Vms, News
  <2>3. Order
    BY <2>2 DEF DebugInit, Order, Below, Above, Ascending
  <2>4. Follow /\ Agree
    BY DEF DebugInit, Follow, Agree
  <2>5. Told
    BY <2>2, <2>4 DEF DebugInit, Told, UpTo, Tells
  <2> QED  BY <2>1, <2>3, <2>4, <2>5
<1>2. Inv /\ [DebugNext]_debugVars => Inv'
  BY TypingStep, HoldingStep, OrderStep, FollowStep, ToldStep
<1>3. Inv => HoldIsStop
  <2> SUFFICES ASSUME Inv, Settled, ~strayed, ~robbed
               PROVE  \/ gDebugHold = lent + IF stopped THEN 1 ELSE 0
                      \/ drift = "undone" /\ stopped /\ gDebugHold = lent
                      \/ drift = "ghost" /\ ~stopped /\ gDebugHold = lent + 1
    BY DEF HoldIsStop
  <2>1. 1..Len(calls) = {} /\ Vms(wire) = {} /\ Vms(replies) = {} /\ News(wire, gen) = {} /\ ~booting
    BY DEF Settled, Vms, News
  <2>2. target = gen
    BY <2>1 DEF Follow, Coming
  <2>3. Agree
    BY <2>1, <2>2 DEF Told
  <2>4. gDebugHold = (lent + IF gDbgPaused THEN 1 ELSE 0) /\ lent \in Nat
    BY DEF Holding
  <2> QED  BY <2>1, <2>3, <2>4 DEF Agree
<1> QED  BY <1>1, <1>2, <1>3, PTL DEF DebugSpec
============================================================================
