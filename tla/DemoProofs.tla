----------------------------- MODULE DemoProofs -----------------------------
(***************************************************************************)
(* What Demo keeps together for any number of runs, any queue and any cost *)
(* of a paint: the ports, the Metal pane, the keyboard, the ticks and the  *)
(* handle of the isolate.                                                  *)
(***************************************************************************)
EXTENDS Demo, SequenceTheorems, FiniteSetTheorems, TLAPS

-----------------------------------------------------------------------------
(* Ports *)

\* Only the run on show has messages waiting, and only it can have the control port
\* and the pane.  This is what makes the properties of the screen inductive: a port
\* is read after it was opened and before it is closed.
Ports ==
    /\ runs \in Nat
    /\ gDemoTitle \in {0, runs}
    /\ inbox \in [Runs -> Seq(Message)]
    /\ \A r \in Runs : inbox[r] # <<>> => gDemoTitle = r
    /\ gDemoCtl \in {0, gDemoTitle}
    /\ pane \in {0, gDemoTitle}
    /\ capture \in BOOLEAN /\ watching \in BOOLEAN
    /\ ticks \in [Runs -> Nat]
    /\ KeysFollow

\* What is sent reaches the port of the run on show, or none.
LEMMA SendPorts ==
    ASSUME NEW r \in Runs, NEW msgs \in Seq(Message), Send(r, msgs),
           inbox \in [Runs -> Seq(Message)], \A q \in Runs : inbox[q] # <<>> => gDemoTitle = q
    PROVE  /\ inbox' \in [Runs -> Seq(Message)]
           /\ \A q \in Runs : inbox'[q] # <<>> => gDemoTitle = q
<1>1. inbox[r] \o msgs \in Seq(Message)
  OBVIOUS
<1>2. CASE gDemoTitle = r
  <2>1. inbox' = [inbox EXCEPT ![r] = inbox[r] \o msgs]
    BY <1>2 DEF Send
  <2> QED  BY <2>1, <1>1, <1>2
<1>3. CASE gDemoTitle # r
  BY <1>3 DEF Send
<1> QED  BY <1>2, <1>3

\* Reading takes a message from the port of the run on show.
LEMMA ReadPorts ==
    ASSUME NEW r \in Runs, NEW m, Read(r, m),
           inbox \in [Runs -> Seq(Message)], \A q \in Runs : inbox[q] # <<>> => gDemoTitle = q
    PROVE  /\ gDemoTitle = r
           /\ inbox' \in [Runs -> Seq(Message)]
           /\ \A q \in Runs : inbox'[q] # <<>> => gDemoTitle = q
<1>1. inbox[r] \in Seq(Message) /\ inbox[r] # <<>>
  BY DEF Read
<1>2. Tail(inbox[r]) \in Seq(Message)
  BY <1>1
<1>3. inbox' = [inbox EXCEPT ![r] = Tail(inbox[r])]
  BY DEF Read
<1> QED  BY <1>1, <1>2, <1>3

\* Closing the ports empties them.
LEMMA NoMessages == /\ [r \in Runs |-> <<>>] \in [Runs -> Seq(Message)]
                    /\ \A r \in Runs : [q \in Runs |-> <<>>][r] = <<>>
<1>1. <<>> \in Seq(Message)
  BY EmptySeq
<1> QED  BY <1>1

\* What a demo greets with is a sequence of messages, none of them its exit.
LEMMA Greetings ==
    ASSUME NEW k
    PROVE  /\ Greeting(k) \in Seq(Message)
           /\ \A i \in DOMAIN Greeting(k) : Greeting(k)[i] # "exit"
<1>1. <<>> \in Seq(Message) /\ <<"port">> \in Seq(Message) /\ <<"port", "gpopen">> \in Seq(Message)
  BY DEF Message
<1> QED  BY <1>1 DEF Greeting

\* Ports is inductive.
LEMMA PortsStep == ASSUME Ports, [Next]_vars PROVE Ports'
<1> USE DEF Ports, KeysFollow, demos, screen, pacer, marks, LeavePane, ForgetCtl
<1>1. ASSUME NEW k \in Kinds, RunDemo(k) PROVE Ports'
  <2>1. runs' = runs + 1 /\ runs' # 0 /\ gDemoTitle' = runs'
    BY <1>1 DEF RunDemo, StopDemo
  <2> QED  BY <1>1, <2>1, NoMessages DEF RunDemo, StopDemo
<1>2. CASE Stop
  BY <1>2, NoMessages DEF Stop, StopDemo
<1>3. CASE SwitchTab
  BY <1>3 DEF SwitchTab
<1>4. CASE Elapse
  BY <1>4 DEF Elapse
<1>5. ASSUME NEW r \in Runs, SpawnDone(r) PROVE Ports'
  BY <1>5 DEF SpawnDone
<1>6. ASSUME NEW r \in Runs, SpawnFails(r) PROVE Ports'
  BY <1>6, NoMessages DEF SpawnFails, StopDemo
<1>7. ASSUME NEW r \in Runs, Begin(r) \/ Push(r) \/ Exits(r) \/ \E m \in {"frame", "bad"} : Answer(r, m)
      PROVE  Ports'
  <2>1. PICK msgs \in Seq(Message) : Send(r, msgs)
    <3>1. <<"frame">> \in Seq(Message) /\ <<"exit">> \in Seq(Message) /\ <<"bad">> \in Seq(Message)
      BY DEF Message
    <3>2. CASE Push(r)
      BY <3>1, <3>2 DEF Push
    <3>3. CASE Exits(r)
      BY <3>1, <3>3 DEF Exits
    <3>4. ASSUME NEW m \in {"frame", "bad"}, Answer(r, m) PROVE \E msgs \in Seq(Message) : Send(r, msgs)
      <4>1. Send(r, <<m>>) /\ <<m>> \in Seq(Message)
        BY <3>1, <3>4 DEF Answer
      <4> QED  BY <4>1
    <3>5. CASE Begin(r)
      BY <3>5, Greetings DEF Begin
    <3> QED  BY <1>7, <3>2, <3>3, <3>4, <3>5
  <2>2. UNCHANGED <<runs, gDemoTitle, gDemoCtl, screen>> /\ ticks' \in [Runs -> Nat]
    BY <1>7 DEF Begin, Push, Exits, Answer
  <2>3. /\ inbox' \in [Runs -> Seq(Message)]
        /\ \A q \in Runs : inbox'[q] # <<>> => gDemoTitle = q
    <3>1. inbox \in [Runs -> Seq(Message)] /\ \A q \in Runs : inbox[q] # <<>> => gDemoTitle = q
      OBVIOUS
    <3> QED  BY ONLY <2>1, <3>1, SendPorts
  <2>4. runs' = runs /\ gDemoTitle' = gDemoTitle /\ gDemoCtl' = gDemoCtl /\ pane' = pane
        /\ watching' = watching /\ capture' = capture
    BY ONLY <2>2 DEF screen
  <2>5. Ports
    OBVIOUS
  <2> QED  BY ONLY <2>2, <2>3, <2>4, <2>5 DEF Ports, KeysFollow
<1> HIDE DEF Ports, LeavePane, ForgetCtl
<1>8. /\ inbox \in [Runs -> Seq(Message)] /\ \A q \in Runs : inbox[q] # <<>> => gDemoTitle = q
      /\ ticks \in [Runs -> Nat] /\ Ports
  BY DEF Ports
<1>9. ASSUME NEW r \in Runs, NEW m, Read(r, m)
       PROVE  /\ gDemoTitle = r
              /\ inbox' \in [Runs -> Seq(Message)]
              /\ \A q \in Runs : inbox'[q] # <<>> => gDemoTitle = q
  BY ONLY <1>8, <1>9, ReadPorts
<1>10. ASSUME NEW r \in Runs, TakePort(r) PROVE Ports'
  <2>1. gDemoTitle = r /\ inbox' \in [Runs -> Seq(Message)] /\ \A q \in Runs : inbox'[q] # <<>> => gDemoTitle = q
    BY <1>10, <1>9 DEF TakePort
  <2> QED  BY ONLY <1>10, <1>8, <2>1 DEF TakePort, Ports, KeysFollow, demos, screen
<1>11. ASSUME NEW r \in Runs, TakeGpopen(r) PROVE Ports'
  <2>1. gDemoTitle = r /\ inbox' \in [Runs -> Seq(Message)] /\ \A q \in Runs : inbox'[q] # <<>> => gDemoTitle = q
    BY <1>11, <1>9 DEF TakeGpopen
  <2> QED  BY ONLY <1>11, <1>8, <2>1 DEF TakeGpopen, Ports, KeysFollow, demos, screen
<1>12. ASSUME NEW r \in Runs, TakeExit(r) \/ Drop(r) \/ Throws(r) \/ \E c \in Cost : Paint(r, c)
       PROVE  Ports'
  <2>1. PICK m : Read(r, m)
    BY <1>12 DEF TakeExit, Drop, Throws, Paint
  <2>2. UNCHANGED <<runs, gDemoTitle, gDemoCtl, screen>> /\ ticks' \in [Runs -> Nat]
    BY <1>12, <1>8 DEF TakeExit, Drop, Throws, Paint
  <2>3. inbox' \in [Runs -> Seq(Message)] /\ \A q \in Runs : inbox'[q] # <<>> => gDemoTitle = q
    BY <1>9, <2>1
  <2> QED  BY ONLY <1>8, <2>2, <2>3 DEF Ports, KeysFollow, screen
<1>13. ASSUME NEW t \in timers, Invite(t) PROVE Ports'
  <2>1. ticks' \in [Runs -> Nat]
    <3>1. ticks' = ticks \/ \E c : ticks' = [ticks EXCEPT ![c] = ticks[c] + 1]
      BY <1>13 DEF Invite
    <3>2. ASSUME NEW c, ticks' = [ticks EXCEPT ![c] = ticks[c] + 1] PROVE ticks' \in [Runs -> Nat]
      <4>1. CASE c \in Runs
        BY <1>8, <3>2, <4>1
      <4>2. CASE c \notin Runs
        BY <1>8, <3>2, <4>2
      <4> QED  BY <4>1, <4>2
    <3> QED  BY <1>8, <3>1, <3>2
  <2>2. UNCHANGED <<runs, gDemoTitle, gDemoCtl, inbox, screen>>
    BY <1>13 DEF Invite
  <2> QED  BY ONLY <1>8, <2>1, <2>2 DEF Ports, KeysFollow, screen
<1>14. CASE UNCHANGED vars
  BY ONLY <1>14, <1>8 DEF vars, demos, screen, Ports, KeysFollow
<1> QED
  BY <1>1, <1>2, <1>3, <1>4, <1>5, <1>6, <1>7, <1>10, <1>11, <1>12, <1>13, <1>14 DEF Next

\* Ports is an invariant.
LEMMA PortsHold == Spec => []Ports
<1>1. ASSUME Init PROVE Ports
  <2>1. inbox \in [Runs -> Seq(Message)] /\ (\A r \in Runs : inbox[r] = <<>>)
    BY <1>1, NoMessages DEF Init
  <2>2. ticks \in [Runs -> Nat]
    BY <1>1 DEF Init
  <2>3. runs = 0 /\ gDemoTitle = 0 /\ gDemoCtl = 0 /\ pane = 0 /\ capture = FALSE /\ watching = FALSE
    BY <1>1, Zenon DEF Init
  <2>4. KeysFollow
    BY <2>3, Zenon DEF KeysFollow
  <2>5. runs \in Nat /\ gDemoTitle \in {0, runs} /\ gDemoCtl \in {0, gDemoTitle} /\ pane \in {0, gDemoTitle}
    BY <2>3, SMT
  <2>6. capture \in BOOLEAN /\ watching \in BOOLEAN
    BY <2>3, Zenon
  <2>7. \A r \in Runs : inbox[r] # <<>> => gDemoTitle = r
    BY <2>1, Zenon
  <2> QED  BY <2>1, <2>2, <2>4, <2>5, <2>6, <2>7, Zenon DEF Ports
<1> QED  BY <1>1, PortsStep, PTL DEF Spec

-----------------------------------------------------------------------------
(* The handle of the isolate *)

\* Unless two runs were loading at once, only the last run can be loading or alive,
\* and the handle is that of the one alive.  An exit is read from a run that is gone,
\* and from the port of the last run, so nothing that lives loses its handle by it.
Handles ==
    /\ iso \in [Runs -> {"none", "loading", "live", "running", "gone"}]
    /\ gDemoIso \in {0} \cup Runs
    /\ overlapped \in BOOLEAN
    /\ \A r \in Runs : \A i \in DOMAIN inbox[r] : inbox[r][i] = "exit" => iso[r] = "gone"
    /\ ~overlapped => \A r \in Runs : /\ iso[r] = "loading" \/ Alive(r) => r = runs
                                      /\ Alive(r) => gDemoIso = r

\* Messages that are no exit leave every port as the invariant wants it.
LEMMA SendHandles ==
    ASSUME NEW r \in Runs, NEW msgs \in Seq(Message), Send(r, msgs), Ports, Handles,
           \A q \in Runs : iso[q] = "gone" => iso'[q] = "gone",
           \A i \in DOMAIN msgs : msgs[i] = "exit" => iso'[r] = "gone"
    PROVE  \A q \in Runs : \A i \in DOMAIN inbox'[q] : inbox'[q][i] = "exit" => iso'[q] = "gone"
<1>1. CASE gDemoTitle = r
  <2>1. inbox' = [inbox EXCEPT ![r] = inbox[r] \o msgs] /\ inbox[r] \in Seq(Message)
    BY <1>1 DEF Send, Ports
  <2>2. ASSUME NEW i \in DOMAIN (inbox[r] \o msgs), (inbox[r] \o msgs)[i] = "exit"
        PROVE  iso'[r] = "gone"
    <3>1. CASE i <= Len(inbox[r])
      BY <2>1, <2>2, <3>1 DEF Handles
    <3>2. CASE i > Len(inbox[r])
      BY <2>1, <2>2, <3>2
    <3> QED  BY <2>1, <2>2, <3>1, <3>2
  <2>3. \A q \in Runs : inbox'[q] = IF q = r THEN inbox[r] \o msgs ELSE inbox[q]
    BY <2>1 DEF Ports
  <2> QED  BY <2>2, <2>3 DEF Handles
<1>2. CASE gDemoTitle # r
  BY <1>2 DEF Send, Handles
<1> QED  BY <1>1, <1>2

\* Nor does a message that is taken.
LEMMA ReadHandles ==
    ASSUME NEW r \in Runs, NEW m, Read(r, m), Ports, Handles, UNCHANGED iso
    PROVE  /\ \A q \in Runs : \A i \in DOMAIN inbox'[q] : inbox'[q][i] = "exit" => iso'[q] = "gone"
           /\ m = "exit" => iso[r] = "gone"
<1>1. inbox[r] \in Seq(Message) /\ inbox[r] # <<>> /\ m = inbox[r][1]
  BY DEF Read, Ports
<1>2. \A i \in DOMAIN Tail(inbox[r]) : Tail(inbox[r])[i] = inbox[r][i + 1] /\ i + 1 \in DOMAIN inbox[r]
  BY <1>1
<1>3. \A q \in Runs : inbox'[q] = IF q = r THEN Tail(inbox[r]) ELSE inbox[q]
  BY DEF Read, Ports
<1>4. 1 \in DOMAIN inbox[r]
  BY <1>1
<1>5. \A i \in DOMAIN Tail(inbox[r]) : Tail(inbox[r])[i] = "exit" => iso[r] = "gone"
  BY <1>2 DEF Handles
<1>6. m = "exit" => iso[r] = "gone"
  BY <1>1, <1>4 DEF Handles
<1> QED  BY <1>3, <1>5, <1>6 DEF Handles

\* What Stop leaves: the isolate of the handle gone, the others as they were.
LEMMA KilledIs ==
    ASSUME Handles
    PROVE  /\ Killed \in [Runs -> {"none", "loading", "live", "running", "gone"}]
           /\ \A r \in Runs : Killed[r] = IF r = gDemoIso THEN "gone" ELSE iso[r]
BY DEF Killed, Handles, Runs

\* Handles is inductive, given Ports.
LEMMA HandlesStep == ASSUME Ports, Handles, [Next]_vars PROVE Handles'
<1> USE DEF demos, screen, pacer, marks
<1>1. ASSUME NEW k \in Kinds, RunDemo(k) PROVE Handles'
  <2>1. /\ iso' = [Killed EXCEPT ![runs + 1] = "loading"] /\ gDemoIso' = 0 /\ runs' = runs + 1
        /\ inbox' = [r \in Runs |-> <<>>] /\ runs + 1 \in Runs
        /\ overlapped' = (overlapped \/ \E r \in Runs : iso[r] = "loading")
    BY <1>1, DemoAssumption DEF RunDemo, StopDemo, Ports, Runs
  <2>2. \A r \in Runs : iso'[r] = IF r = runs + 1 THEN "loading" ELSE Killed[r]
    BY <2>1, KilledIs
  <2>3. iso' \in [Runs -> {"none", "loading", "live", "running", "gone"}]
    BY <2>1, KilledIs
  <2>4. ~overlapped' => \A r \in Runs : r # runs + 1 => iso'[r] \in {"none", "gone"}
    BY <2>1, <2>2, KilledIs DEF Handles, Alive
  <2> QED  BY <2>1, <2>2, <2>3, <2>4 DEF Handles, Alive
<1>2. ASSUME Stop \/ \E r \in Runs : SpawnFails(r) PROVE Handles'
  <2>1. PICK isolates : /\ StopDemo(0, isolates) /\ UNCHANGED <<runs, overlapped>>
                        /\ isolates = Killed
                           \/ \E r \in Runs : isolates = [Killed EXCEPT ![r] = "gone"]
    BY <1>2 DEF Stop, SpawnFails
  <2>2. /\ iso' \in [Runs -> {"none", "loading", "live", "running", "gone"}]
        /\ \A r \in Runs : iso'[r] \in {Killed[r], "gone"}
    BY <2>1, KilledIs DEF StopDemo
  <2>3. gDemoIso' = 0 /\ inbox' = [r \in Runs |-> <<>>]
    BY <2>1 DEF StopDemo
  <2> QED  BY <2>1, <2>2, <2>3, KilledIs DEF Handles, Alive
<1>3. CASE SwitchTab \/ Elapse \/ \E t \in timers : Invite(t)
  BY <1>3 DEF SwitchTab, Elapse, Invite, Handles, Alive
<1>4. ASSUME NEW r \in Runs, SpawnDone(r) PROVE Handles'
  BY <1>4 DEF SpawnDone, Handles, Alive
<1>5. ASSUME NEW r \in Runs, Begin(r) \/ Push(r) \/ Exits(r) \/ \E m \in {"frame", "bad"} : Answer(r, m)
      PROVE  Handles'
  <2>1. /\ UNCHANGED <<runs, gDemoIso, overlapped>>
        /\ \/ iso' = iso
           \/ iso[r] = "live" /\ iso' = [iso EXCEPT ![r] = "running"]
           \/ iso' = [iso EXCEPT ![r] = "gone"]
    BY <1>5 DEF Begin, Push, Exits, Answer
  <2> DEFINE Fits(msgs) == Send(r, msgs) /\ \A i \in DOMAIN msgs : msgs[i] = "exit" => iso'[r] = "gone"
  <2>2. \E msgs \in Seq(Message) : Fits(msgs)
    <3>1. <<"frame">> \in Seq(Message) /\ <<"exit">> \in Seq(Message) /\ <<"bad">> \in Seq(Message)
      BY DEF Message
    <3>2. CASE Push(r)
      <4>1. Fits(<<"frame">>)
        BY <3>2 DEF Push
      <4> HIDE DEF Fits
      <4> QED  BY <3>1, <4>1
    <3>3. CASE Exits(r)
      <4>1. Fits(<<"exit">>)
        BY <3>3 DEF Exits, Handles
      <4> HIDE DEF Fits
      <4> QED  BY <3>1, <4>1
    <3>4. ASSUME NEW m \in {"frame", "bad"}, Answer(r, m) PROVE \E msgs \in Seq(Message) : Fits(msgs)
      <4>1. <<m>> \in Seq(Message) /\ Fits(<<m>>)
        BY <3>1, <3>4 DEF Answer
      <4> HIDE DEF Fits
      <4> QED  BY <4>1
    <3>5. CASE Begin(r)
      <4>1. Greeting(kind[r]) \in Seq(Message) /\ Fits(Greeting(kind[r]))
        BY <3>5, Greetings DEF Begin
      <4> HIDE DEF Fits
      <4> QED  BY <4>1
    <3> QED  BY <1>5, <3>2, <3>3, <3>4, <3>5
  <2>3. \A q \in Runs : \A i \in DOMAIN inbox'[q] : inbox'[q][i] = "exit" => iso'[q] = "gone"
    <3>1. \A q \in Runs : iso[q] = "gone" => iso'[q] = "gone"
      BY <2>1 DEF Handles
    <3> QED  BY <2>2, <3>1, SendHandles
  <2> QED  BY <2>1, <2>3 DEF Handles, Alive
<1>6. ASSUME NEW r \in Runs, TakeExit(r) PROVE Handles'
  <2>1. gDemoTitle = r /\ iso[r] = "gone"
    BY <1>6, ReadPorts, ReadHandles DEF TakeExit, Ports
  <2>2. r = runs
    BY <2>1 DEF Ports, Runs
  <2>3. \A q \in Runs : \A i \in DOMAIN inbox'[q] : inbox'[q][i] = "exit" => iso'[q] = "gone"
    BY <1>6, ReadHandles DEF TakeExit
  <2> QED  BY <1>6, <2>1, <2>2, <2>3 DEF TakeExit, Handles, Alive
<1>7. ASSUME NEW r \in Runs,
             TakePort(r) \/ TakeGpopen(r) \/ Drop(r) \/ Throws(r) \/ \E c \in Cost : Paint(r, c)
      PROVE  Handles'
  <2>1. (\E m : Read(r, m)) /\ UNCHANGED <<runs, iso, gDemoIso, overlapped>>
    BY <1>7 DEF TakePort, TakeGpopen, Drop, Throws, Paint
  <2>2. \A q \in Runs : \A i \in DOMAIN inbox'[q] : inbox'[q][i] = "exit" => iso'[q] = "gone"
    BY <2>1, ReadHandles
  <2> QED  BY <2>1, <2>2 DEF Handles, Alive
<1>8. CASE UNCHANGED vars
  BY <1>8 DEF vars, Handles, Alive
<1> QED  BY <1>1, <1>2, <1>3, <1>4, <1>5, <1>6, <1>7, <1>8 DEF Next

-----------------------------------------------------------------------------
(* The loop of invitations *)

\* The places where frames wait in q.
Frames(q) == {i \in DOMAIN q : q[i] \in {"frame", "bad"}}
Holds(q, m) == \E i \in DOMAIN q : q[i] = m

\* A message more at the end.
LEMMA SendFrames ==
    ASSUME NEW q \in Seq(Message), NEW m \in Message
    PROVE  /\ q \o <<m>> \in Seq(Message)
           /\ m \in {"frame", "bad"} /\ Frames(q) = {} => Frames(q \o <<m>>) = {Len(q) + 1}
           /\ m \notin {"frame", "bad"} => Frames(q \o <<m>>) = Frames(q)
           /\ m # "port" /\ ~Holds(q, "port") => ~Holds(q \o <<m>>, "port")
<1> DEFINE s == q \o <<m>>
<1>1. /\ s \in Seq(Message) /\ Len(s) = Len(q) + 1 /\ s[Len(q) + 1] = m
      /\ \A i \in 1 .. Len(q) : s[i] = q[i]
  OBVIOUS
<1>2. Len(q) \in Nat /\ DOMAIN q = 1 .. Len(q) /\ DOMAIN s = 1 .. Len(q) + 1
  BY <1>1
<1> HIDE DEF s
<1>3. \A i \in DOMAIN s : i = Len(q) + 1 \/ i \in DOMAIN q
  BY <1>2
<1>4. /\ m \in {"frame", "bad"} /\ Frames(q) = {} => Frames(s) = {Len(q) + 1}
      /\ m \notin {"frame", "bad"} => Frames(s) = Frames(q)
  BY <1>1, <1>2, <1>3 DEF Frames
<1>5. m # "port" /\ ~Holds(q, "port") => ~Holds(s, "port")
  BY <1>1, <1>2, <1>3 DEF Holds
<1> QED  BY <1>1, <1>4, <1>5 DEF s

\* A message less at the front.
LEMMA ReadFrames ==
    ASSUME NEW q \in Seq(Message), q # <<>>
    PROVE  /\ Frames(q) = {} => Frames(Tail(q)) = {} /\ Head(q) \notin {"frame", "bad"}
           /\ \A i \in DOMAIN q : Frames(q) = {i} =>
                IF Head(q) \in {"frame", "bad"} THEN Frames(Tail(q)) = {}
                ELSE i - 1 \in DOMAIN Tail(q) /\ Frames(Tail(q)) = {i - 1}
           /\ ~Holds(q, "port") => ~Holds(Tail(q), "port") /\ Head(q) # "port"
<1> DEFINE s == Tail(q)
<1>1. /\ Len(q) \in Nat /\ Len(q) >= 1 /\ DOMAIN q = 1 .. Len(q) /\ Head(q) = q[1]
      /\ DOMAIN s = 1 .. Len(q) - 1 /\ \A i \in 1 .. Len(q) - 1 : s[i] = q[i + 1]
  BY HeadTailProperties, EmptySeq
<1> HIDE DEF s
<1>2. \A i \in DOMAIN s : i + 1 \in DOMAIN q /\ i + 1 # 1 /\ s[i] = q[i + 1]
  BY <1>1
<1>3. 1 \in DOMAIN q
  BY <1>1
<1>4. Frames(q) = {} => Frames(s) = {} /\ Head(q) \notin {"frame", "bad"}
  BY <1>1, <1>2, <1>3 DEF Frames
<1>5. ASSUME NEW i \in DOMAIN q, Frames(q) = {i}
      PROVE  IF Head(q) \in {"frame", "bad"} THEN Frames(s) = {}
             ELSE i - 1 \in DOMAIN s /\ Frames(s) = {i - 1}
  <2>1. CASE Head(q) \in {"frame", "bad"}
    <3>1. i = 1
      BY <1>1, <1>3, <1>5, <2>1 DEF Frames
    <3>2. ASSUME NEW j \in Frames(s) PROVE FALSE
      <4>1. j + 1 \in Frames(q) /\ j + 1 # 1
        BY <1>2, <3>2 DEF Frames
      <4> QED  BY <4>1, <3>1, <1>5
    <3> QED  BY <2>1, <3>2
  <2>2. CASE Head(q) \notin {"frame", "bad"}
    <3>1. i # 1 /\ q[i] \in {"frame", "bad"}
      BY <1>1, <1>5, <2>2 DEF Frames
    <3>2. i - 1 \in DOMAIN s /\ s[i - 1] = q[i]
      BY <1>1, <3>1
    <3>3. ASSUME NEW j \in Frames(s) PROVE j = i - 1
      <4>1. j \in Nat /\ j + 1 \in Frames(q)
        BY <1>1, <1>2, <3>3 DEF Frames
      <4> QED  BY <4>1, <1>5, <1>1
    <3>4. Frames(s) = {i - 1}
      BY <3>1, <3>2, <3>3 DEF Frames
    <3> QED  BY <2>2, <3>2, <3>4
  <2> QED  BY <2>1, <2>2
<1>6. ~Holds(q, "port") => ~Holds(s, "port") /\ Head(q) # "port"
  BY <1>1, <1>2, <1>3 DEF Holds
<1> QED  BY <1>4, <1>5, <1>6 DEF s

\* The next invitation is never due before the next paint is allowed.
LEMMA WaitsForGap ==
    ASSUME NEW c \in Cost
    PROVE  Gap(c) \in Nat /\ Wait(c) \in Nat /\ Gap(c) <= Wait(c)
BY DemoAssumption DEF Cost, Gap, Wait, Larger, MinGap, Period

Typed ==
    /\ due \in Nat /\ timers \subseteq [ctl : Nat, left : Nat]
    /\ DOMAIN kind = Runs
    /\ gDemoIso <= runs /\ \A r \in Runs : r > runs => iso[r] = "none"

\* A run that has not begun has sent nothing and is invited by nobody.
Early ==
    \A r \in Runs : iso[r] \in {"none", "loading", "live"} =>
        /\ ticks[r] = 0 /\ TimersOf(r) = {} /\ inbox[r] = <<>> /\ gDemoCtl # r
        /\ gDemoTitle = r => due = 0

\* A demo that pushes sends no port.
Pushing == \A r \in Runs : kind[r] = "push" => ~Holds(inbox[r], "port") /\ gDemoCtl # r

\* Until its port is taken, a demo that is to be invited has sent its greeting only.
Greets ==
    \A r \in Runs : gDemoTitle = r /\ iso[r] = "running" /\ kind[r] # "push" /\ gDemoCtl = 0 =>
        inbox[r] = Greeting(kind[r]) /\ ticks[r] = 0 /\ TimersOf(r) = {} /\ due = 0

\* Whose turn it is, with a paint that is allowed before the next frame can come.
Turn(r) ==
    \/ ticks[r] = 1 /\ TimersOf(r) = {} /\ Frames(inbox[r]) = {} /\ due = 0
    \/ ticks[r] = 0 /\ (\E t \in timers : TimersOf(r) = {t} /\ due <= t.left) /\ Frames(inbox[r]) = {}
    \/ ticks[r] = 0 /\ TimersOf(r) = {} /\ (\E i \in DOMAIN inbox[r] : Frames(inbox[r]) = {i}) /\ due = 0

Invited ==
    \A r \in Runs : gDemoCtl = r /\ iso[r] = "running" =>
        ~Holds(inbox[r], "port") /\ (r \notin spoilt => Turn(r))

Loop == Typed /\ Early /\ Pushing /\ Greets /\ Invited

\* What a greeting holds: the port first, no frame, no second port.
LEMMA GreetingHolds ==
    ASSUME NEW k
    PROVE  /\ k = "push" => ~Holds(Greeting(k), "port")
           /\ k # "push" => /\ Head(Greeting(k)) = "port"
                            /\ Frames(Tail(Greeting(k))) = {} /\ ~Holds(Tail(Greeting(k)), "port")
<1>1. CASE k = "push"
  <2>1. Greeting(k) = <<>>
    BY <1>1 DEF Greeting
  <2> QED  BY <1>1, <2>1 DEF Holds
<1>2. CASE k = "game"
  <2>1. Greeting(k) = <<"port", "gpopen">>
    BY <1>2 DEF Greeting
  <2>2. Head(Greeting(k)) = "port" /\ Tail(Greeting(k)) = <<"gpopen">>
    BY <2>1
  <2>3. DOMAIN <<"gpopen">> = {1} /\ <<"gpopen">>[1] = "gpopen"
    OBVIOUS
  <2>4. Frames(<<"gpopen">>) = {} /\ ~Holds(<<"gpopen">>, "port")
    BY <2>3 DEF Holds, Frames
  <2> QED  BY <1>2, <2>2, <2>4
<1>3. CASE k \notin {"push", "game"}
  <2>1. Greeting(k) = <<"port">>
    BY <1>3 DEF Greeting
  <2>2. Head(Greeting(k)) = "port" /\ Tail(Greeting(k)) = <<>>
    BY <2>1
  <2> QED  BY <1>3, <2>2 DEF Holds, Frames
<1> QED  BY <1>1, <1>2, <1>3

\* What is sent reaches one port at most, that of the run on show.
LEMMA SendIs ==
    ASSUME Ports, NEW r \in Runs, NEW msgs, Send(r, msgs)
    PROVE  \A q \in Runs : inbox'[q] = IF q = r /\ gDemoTitle = r THEN inbox[r] \o msgs ELSE inbox[q]
BY DEF Send, Ports

\* What is read comes from the port of the run on show, whose isolate has begun.
LEMMA ReadIs ==
    ASSUME Ports, Handles, Early, NEW r \in Runs, NEW m, Read(r, m)
    PROVE  /\ gDemoTitle = r /\ inbox[r] \in Seq(Message) /\ inbox[r] # <<>> /\ Head(inbox[r]) = m
           /\ \A q \in Runs : inbox'[q] = IF q = r THEN Tail(inbox[r]) ELSE inbox[q]
           /\ iso[r] \in {"running", "gone"}
           /\ gDemoCtl \in {0, r}
<1>1. /\ gDemoTitle = r /\ inbox[r] \in Seq(Message) /\ inbox[r] # <<>> /\ Head(inbox[r]) = m
  BY ReadPorts DEF Ports, Read
<1>2. \A q \in Runs : inbox'[q] = IF q = r THEN Tail(inbox[r]) ELSE inbox[q]
  BY DEF Ports, Read
<1>3. iso[r] \in {"running", "gone"}
  BY <1>1 DEF Handles, Early
<1> QED  BY <1>1, <1>2, <1>3 DEF Ports

LEMMA LoopStep == ASSUME Ports, Handles, Loop, [Next]_vars PROVE Loop'
<1> USE DEF demos, screen, pacer, marks
<1>a. 0 \notin Runs
  BY DEF Runs
<1>1. ASSUME NEW k \in Kinds, RunDemo(k) PROVE Loop'
  <2> DEFINE n == runs + 1
  <2>1. /\ n \in Runs /\ runs' = n /\ gDemoTitle' = n /\ gDemoIso' = 0 /\ gDemoCtl' = 0 /\ due' = 0
        /\ iso' = [Killed EXCEPT ![n] = "loading"]
        /\ inbox' = [r \in Runs |-> <<>>] /\ UNCHANGED <<ticks, timers, spoilt>>
        /\ DOMAIN kind' = Runs
    BY <1>1, DemoAssumption DEF RunDemo, StopDemo, Ports, Runs, ForgetCtl, Loop, Typed
  <2>2. \A r \in Runs : iso'[r] = IF r = n THEN "loading" ELSE IF r = gDemoIso THEN "gone" ELSE iso[r]
    BY <2>1, KilledIs
  <2>3. Typed'
    BY <2>1, <2>2 DEF Loop, Typed, Ports, Runs
  <2>4. Early'
    BY <2>1, <2>2, <1>a DEF Loop, Typed, Early, TimersOf, Ports, Runs
  <2>5. Pushing'
    BY <2>1, <1>a DEF Pushing, Holds
  <2>6. Greets'
    BY <2>1, <2>2 DEF Greets
  <2>7. Invited'
    BY <2>1, <1>a DEF Invited
  <2> QED  BY <2>3, <2>4, <2>5, <2>6, <2>7 DEF Loop
<1>2. ASSUME Stop \/ \E r \in Runs : SpawnFails(r) PROVE Loop'
  <2>1. PICK isolates : /\ StopDemo(0, isolates) /\ UNCHANGED <<demos, ticks, timers, spoilt>>
                        /\ isolates = Killed
                           \/ \E r \in Runs : iso[r] = "loading" /\ isolates = [Killed EXCEPT ![r] = "gone"]
    BY <1>2 DEF Stop, SpawnFails
  <2>2. /\ \A r \in Runs : iso'[r] = iso[r] \/ (iso'[r] = "gone" /\ (r = gDemoIso \/ iso[r] = "loading"))
        /\ inbox' = [r \in Runs |-> <<>>] /\ gDemoTitle' = 0 /\ gDemoIso' = 0 /\ gDemoCtl' = 0 /\ due' = 0
    BY <2>1, KilledIs DEF StopDemo, ForgetCtl
  <2>3. Typed'
    BY <2>1, <2>2 DEF Loop, Typed, Ports, Runs
  <2>4. Early'
    BY <2>1, <2>2, <1>a DEF Loop, Early, TimersOf
  <2>5. Pushing' /\ Greets' /\ Invited'
    BY <2>1, <2>2, <1>a DEF Pushing, Greets, Invited, Holds
  <2> QED  BY <2>3, <2>4, <2>5 DEF Loop
<1>3. ASSUME NEW r \in Runs, SpawnDone(r) PROVE Loop'
  <2>1. /\ iso[r] = "loading" /\ gDemoIso' = r
        /\ \A q \in Runs : iso'[q] = IF q = r THEN "live" ELSE iso[q]
        /\ UNCHANGED <<runs, kind, ticks, inbox, gDemoTitle, gDemoCtl, due, timers, spoilt>>
    BY <1>3 DEF SpawnDone, Handles
  <2>2. Typed'
    BY <2>1 DEF Loop, Typed, Ports, Runs
  <2>3. Early' /\ Pushing' /\ Greets' /\ Invited'
    BY <2>1 DEF Loop, Early, Pushing, Greets, Invited, Turn, TimersOf
  <2> QED  BY <2>2, <2>3 DEF Loop
<1>4. CASE SwitchTab \/ UNCHANGED vars
  BY <1>4 DEF SwitchTab, vars, Loop, Typed, Early, Pushing, Greets, Invited, Turn, TimersOf
<1>5. ASSUME NEW r \in Runs, Begin(r) PROVE Loop'
  <2>1. /\ iso[r] = "live" /\ \A q \in Runs : iso'[q] = IF q = r THEN "running" ELSE iso[q]
        /\ UNCHANGED <<runs, kind, ticks, gDemoTitle, gDemoIso, gDemoCtl, due, timers, spoilt>>
    BY <1>5 DEF Begin, Handles
  <2>2. inbox[r] = <<>> /\ ticks[r] = 0 /\ TimersOf(r) = {} /\ gDemoCtl # r /\ (gDemoTitle = r => due = 0)
    BY <2>1 DEF Loop, Early
  <2>3. \A q \in Runs : inbox'[q] = IF q = r /\ gDemoTitle = r THEN Greeting(kind[r]) ELSE inbox[q]
    <3>1. inbox[r] \o Greeting(kind[r]) = Greeting(kind[r])
      BY <2>2, Greetings
    <3> QED  BY <1>5, <3>1, SendIs DEF Begin
  <2>4. Typed'
    BY <2>1 DEF Loop, Typed
  <2>5. Early'
    BY <2>1, <2>3 DEF Loop, Early, TimersOf
  <2>6. Pushing'
    BY <2>1, <2>3, GreetingHolds DEF Loop, Pushing
  <2>7. Greets'
    BY <2>1, <2>2, <2>3 DEF Loop, Greets, TimersOf
  <2>8. Invited'
    BY <2>1, <2>2, <2>3 DEF Loop, Invited, Turn, TimersOf
  <2> QED  BY <2>4, <2>5, <2>6, <2>7, <2>8 DEF Loop
<1>6. ASSUME NEW r \in Runs, Push(r) PROVE Loop'
  <2>1. /\ iso[r] = "running" /\ kind[r] = "push"
        /\ UNCHANGED <<runs, kind, iso, ticks, gDemoTitle, gDemoIso, gDemoCtl, due, timers, spoilt>>
    BY <1>6 DEF Push
  <2>2. /\ \A q \in Runs : q # r => inbox'[q] = inbox[q]
        /\ inbox'[r] = inbox[r] \/ inbox'[r] = inbox[r] \o <<"frame">>
    BY <1>6, SendIs DEF Push
  <2>3. ~Holds(inbox'[r], "port") /\ gDemoCtl # r
    BY <2>1, <2>2, SendFrames DEF Loop, Pushing, Ports, Message
  <2> QED
    BY <2>1, <2>2, <2>3 DEF Loop, Typed, Early, Pushing, Greets, Invited, Turn, TimersOf
<1>7. ASSUME NEW r \in Runs, NEW m \in {"frame", "bad"}, Answer(r, m) PROVE Loop'
  <2>1. /\ iso[r] = "running" /\ ticks[r] > 0
        /\ \A q \in Runs : ticks'[q] = IF q = r THEN ticks[r] - 1 ELSE ticks[q]
        /\ UNCHANGED <<runs, kind, iso, gDemoTitle, gDemoIso, gDemoCtl, due, timers, spoilt>>
    BY <1>7 DEF Answer, Ports
  <2>2. \A q \in Runs : inbox'[q] = IF q = r /\ gDemoTitle = r THEN inbox[r] \o <<m>> ELSE inbox[q]
    BY <1>7, SendIs DEF Answer
  <2>3. inbox[r] \in Seq(Message) /\ m \in Message /\ m # "port"
    BY DEF Ports, Message
  <2>4. ~Holds(inbox[r], "port") => ~Holds(inbox'[r], "port")
    BY <2>2, <2>3, SendFrames
  <2>5. Typed' /\ Early' /\ Pushing'
    BY <2>1, <2>2, <2>4 DEF Loop, Typed, Early, Pushing, TimersOf
  <2>6. Greets'
    BY <2>1, <2>2 DEF Loop, Greets, TimersOf
  <2>7. ASSUME gDemoCtl = r, r \notin spoilt PROVE Turn(r)'
    <3>1. Turn(r) /\ gDemoTitle = r
      BY <2>1, <2>7, <1>a DEF Loop, Invited, Ports
    <3>2. ticks[r] = 1 /\ TimersOf(r) = {} /\ Frames(inbox[r]) = {} /\ due = 0
      BY <2>1, <3>1 DEF Turn
    <3>3. inbox'[r] = inbox[r] \o <<m>> /\ Frames(inbox'[r]) = {Len(inbox[r]) + 1}
      BY <2>2, <2>3, <3>1, <3>2, SendFrames
    <3>4. Len(inbox[r]) + 1 \in DOMAIN inbox'[r]
      BY <3>3 DEF Frames
    <3> QED  BY <2>1, <3>2, <3>3, <3>4 DEF Turn, TimersOf
  <2>8. Invited'
    BY <2>1, <2>2, <2>4, <2>7 DEF Loop, Invited, Turn, TimersOf
  <2> QED  BY <2>5, <2>6, <2>8 DEF Loop
<1>8. ASSUME NEW r \in Runs, Exits(r) PROVE Loop'
  <2>1. /\ iso[r] = "running" /\ \A q \in Runs : iso'[q] = IF q = r THEN "gone" ELSE iso[q]
        /\ UNCHANGED <<runs, kind, ticks, gDemoTitle, gDemoIso, gDemoCtl, due, timers, spoilt>>
    BY <1>8 DEF Exits, Handles
  <2>2. /\ \A q \in Runs : q # r => inbox'[q] = inbox[q]
        /\ inbox'[r] = inbox[r] \/ inbox'[r] = inbox[r] \o <<"exit">>
    BY <1>8, SendIs DEF Exits
  <2>3. ~Holds(inbox[r], "port") => ~Holds(inbox'[r], "port")
    BY <2>2, SendFrames DEF Ports, Message
  <2>4. Typed' /\ Early' /\ Pushing'
    <3>1. Typed'
      BY <2>1 DEF Loop, Typed
    <3>2. Early'
      BY <2>1, <2>2 DEF Loop, Early, TimersOf
    <3> QED  BY <2>1, <2>2, <2>3, <3>1, <3>2 DEF Loop, Pushing
  <2>5. Greets' /\ Invited'
    BY <2>1, <2>2 DEF Loop, Greets, Invited, Turn, TimersOf
  <2> QED  BY <2>4, <2>5 DEF Loop
<1>9. ASSUME NEW r \in Runs, TakePort(r) PROVE Loop'
  <2>1. /\ gDemoTitle = r /\ inbox[r] \in Seq(Message) /\ inbox[r] # <<>> /\ Head(inbox[r]) = "port"
        /\ \A q \in Runs : inbox'[q] = IF q = r THEN Tail(inbox[r]) ELSE inbox[q]
        /\ iso[r] \in {"running", "gone"} /\ gDemoCtl \in {0, r}
    BY <1>9, ReadIs DEF TakePort, Loop
  <2>2. /\ gDemoCtl' = r /\ \A q \in Runs : ticks'[q] = IF q = r THEN ticks[r] + 1 ELSE ticks[q]
        /\ UNCHANGED <<runs, kind, iso, gDemoTitle, gDemoIso, due, timers, spoilt>>
    BY <1>9 DEF TakePort, Ports
  <2>3. Holds(inbox[r], "port")
    BY <2>1, ReadFrames
  <2>4. kind[r] # "push"
    BY <2>3 DEF Loop, Pushing
  <2>5. ASSUME iso[r] = "running" PROVE ~Holds(inbox'[r], "port") /\ Turn(r)'
    <3>1. gDemoCtl = 0
      BY <2>1, <2>3, <2>5 DEF Loop, Invited
    <3>2. inbox[r] = Greeting(kind[r]) /\ ticks[r] = 0 /\ TimersOf(r) = {} /\ due = 0
      BY <2>1, <2>4, <2>5, <3>1 DEF Loop, Greets
    <3>3. Frames(inbox'[r]) = {} /\ ~Holds(inbox'[r], "port")
      BY <2>1, <2>4, <3>2, GreetingHolds
    <3> QED  BY <2>2, <3>2, <3>3 DEF Turn, TimersOf
  <2>6. Typed' /\ Early'
    BY <2>1, <2>2 DEF Loop, Typed, Early, TimersOf
  <2>7. Pushing'
    BY <2>1, <2>2, <2>4 DEF Loop, Pushing
  <2>8. Greets' /\ Invited'
    BY <2>1, <2>2, <2>5, <1>a DEF Greets, Invited
  <2> QED  BY <2>6, <2>7, <2>8 DEF Loop
<1>10. ASSUME NEW r \in Runs, TakeGpopen(r) \/ TakeExit(r) PROVE Loop'
  <2>1. PICK m \in {"gpopen", "exit"} : Read(r, m)
    BY <1>10 DEF TakeGpopen, TakeExit
  <2>2. /\ gDemoTitle = r /\ inbox[r] \in Seq(Message) /\ inbox[r] # <<>> /\ Head(inbox[r]) = m
        /\ \A q \in Runs : inbox'[q] = IF q = r THEN Tail(inbox[r]) ELSE inbox[q]
        /\ iso[r] \in {"running", "gone"}
    BY <2>1, ReadIs DEF Loop
  <2>3. /\ UNCHANGED <<runs, kind, iso, ticks, gDemoTitle, gDemoCtl, due, timers, spoilt>>
        /\ gDemoIso' \in {0, gDemoIso}
    BY <1>10 DEF TakeGpopen, TakeExit
  <2>4. ~Holds(inbox[r], "port") => ~Holds(inbox'[r], "port")
    BY <2>2, ReadFrames
  <2>5. Typed' /\ Early' /\ Pushing'
    BY <2>2, <2>3, <2>4 DEF Loop, Typed, Early, Pushing, TimersOf, Ports
  <2>6. Greets'
    BY <2>1, <2>2, <2>3, GreetingHolds DEF Loop, Greets
  <2>7. ASSUME Turn(r) PROVE Turn(r)'
    <3>1. Frames(inbox[r]) = {} => Frames(inbox'[r]) = {}
      BY <2>2, ReadFrames
    <3>2. (\E i \in DOMAIN inbox[r] : Frames(inbox[r]) = {i})
            => (\E i \in DOMAIN inbox'[r] : Frames(inbox'[r]) = {i})
      <4>1. Head(inbox[r]) \notin {"frame", "bad"} /\ inbox'[r] = Tail(inbox[r])
        BY <2>1, <2>2
      <4> HIDE DEF Frames
      <4>2. ASSUME NEW i \in DOMAIN inbox[r], Frames(inbox[r]) = {i}
            PROVE  i - 1 \in DOMAIN inbox'[r] /\ Frames(inbox'[r]) = {i - 1}
        BY <2>2, <4>1, <4>2, ReadFrames
      <4> QED  BY <4>2
    <3> QED  BY <2>3, <2>7, <3>1, <3>2 DEF Turn, TimersOf
  <2>8. Invited'
    BY <2>2, <2>3, <2>4, <2>7 DEF Loop, Invited, Turn, TimersOf
  <2> QED  BY <2>5, <2>6, <2>8 DEF Loop
<1>11. ASSUME NEW r \in Runs, NEW m \in {"frame", "bad"}, Read(r, m),
              Drop(r) \/ Throws(r) \/ \E c \in Cost : Paint(r, c)
       PROVE  Loop'
  <2>1. /\ gDemoTitle = r /\ inbox[r] \in Seq(Message) /\ inbox[r] # <<>> /\ Head(inbox[r]) = m
        /\ \A q \in Runs : inbox'[q] = IF q = r THEN Tail(inbox[r]) ELSE inbox[q]
        /\ iso[r] \in {"running", "gone"} /\ gDemoCtl \in {0, r}
    BY <1>11, ReadIs DEF Loop
  <2>2. UNCHANGED <<runs, kind, iso, ticks, gDemoTitle, gDemoIso, gDemoCtl>> /\ spoilt \subseteq spoilt'
    BY <1>11 DEF Drop, Throws, Paint
  <2>3. ~Holds(inbox[r], "port") => ~Holds(inbox'[r], "port")
    BY <2>1, ReadFrames
  <2>4. ~(iso[r] = "running" /\ kind[r] # "push" /\ gDemoCtl = 0)
    BY <2>1, GreetingHolds DEF Loop, Greets
  <2>5. ASSUME gDemoCtl = r, iso[r] = "running", r \notin spoilt
        PROVE  /\ ticks[r] = 0 /\ TimersOf(r) = {} /\ due = 0
               /\ Frames(inbox'[r]) = {}
    <3>1. Turn(r)
      BY <2>5 DEF Loop, Invited
    <3>2. Frames(inbox[r]) # {}
      BY <2>1, ReadFrames
    <3>3. PICK i \in DOMAIN inbox[r] : Frames(inbox[r]) = {i}
      BY <3>1, <3>2 DEF Turn
    <3>4. Frames(inbox'[r]) = {}
      BY <2>1, <3>3, ReadFrames
    <3> QED  BY <3>1, <3>2, <3>4 DEF Turn
  <2> DEFINE Goal == /\ due' \in Nat /\ timers' \subseteq [ctl : Nat, left : Nat]
                     /\ \A q \in Runs : q # r => TimersOf(q)' = TimersOf(q)
                     /\ gDemoCtl = r /\ iso[r] = "running" /\ r \notin spoilt' => Turn(r)'
  <2>6. Goal
    <3>1. CASE Drop(r)
      <4>1. due > 0 /\ due' = due /\ timers' = timers /\ spoilt' = spoilt
        BY <3>1 DEF Drop
      <4> QED  BY <4>1, <2>5 DEF Loop, Typed, TimersOf
    <3>2. CASE Throws(r)
      <4>1. r \in spoilt' /\ due' = due /\ timers' = timers
        BY <3>2 DEF Throws
      <4> QED  BY <4>1 DEF Loop, Typed, TimersOf
    <3>3. ASSUME NEW c \in Cost, Paint(r, c) PROVE Goal
      <4> DEFINE t == [ctl |-> gDemoCtl, left |-> Wait(c)]
      <4>1. due' = Gap(c) /\ timers' = (IF gDemoCtl = 0 THEN timers ELSE timers \cup {t}) /\ spoilt' = spoilt
        BY <3>3 DEF Paint
      <4>2. Gap(c) \in Nat /\ Wait(c) \in Nat /\ Gap(c) <= Wait(c)
        BY WaitsForGap
      <4>3. due' \in Nat /\ timers' \subseteq [ctl : Nat, left : Nat]
        BY <2>1, <4>1, <4>2 DEF Loop, Typed, Runs
      <4>4. \A q \in Runs : q # r => TimersOf(q)' = TimersOf(q)
        BY <2>1, <4>1 DEF TimersOf
      <4>5. ASSUME gDemoCtl = r, iso[r] = "running", r \notin spoilt' PROVE Turn(r)'
        <5>1. ticks[r] = 0 /\ TimersOf(r) = {} /\ Frames(inbox'[r]) = {}
          BY <2>5, <4>1, <4>5
        <5>2. TimersOf(r)' = {t} /\ t \in timers' /\ due' <= t.left
          BY <4>1, <4>2, <4>5, <5>1, <1>a DEF TimersOf
        <5> QED  BY <2>2, <5>1, <5>2 DEF Turn
      <4> QED  BY <4>3, <4>4, <4>5
    <3> QED  BY <1>11, <3>1, <3>2, <3>3
  <2>7. Typed' /\ Early' /\ Pushing'
    BY <2>1, <2>2, <2>3, <2>6 DEF Loop, Typed, Early, Pushing
  <2>8. Greets'
    BY <2>1, <2>2, <2>4 DEF Loop, Greets
  <2>9. Invited'
    BY <2>1, <2>2, <2>3, <2>6, <1>a DEF Loop, Invited
  <2> QED  BY <2>7, <2>8, <2>9 DEF Loop
<1>12. CASE Elapse
  <2> DEFINE Later(t) == [t EXCEPT !.left = IF @ > 0 THEN @ - 1 ELSE 0]
  <2>1. /\ due' = (IF due > 0 THEN due - 1 ELSE 0) /\ timers' = {Later(t) : t \in timers}
        /\ UNCHANGED <<runs, kind, iso, ticks, inbox, gDemoTitle, gDemoIso, gDemoCtl, spoilt>>
    BY <1>12 DEF Elapse
  <2>2. \A t \in timers : /\ Later(t) \in [ctl : Nat, left : Nat] /\ Later(t).ctl = t.ctl
                          /\ Later(t).left = IF t.left > 0 THEN t.left - 1 ELSE 0
                          /\ t.left \in Nat
    BY DEF Loop, Typed
  <2> HIDE DEF Later
  <2>3. Typed' /\ (due = 0 => due' = 0)
    BY <2>1, <2>2 DEF Loop, Typed
  <2>4. \A q \in Runs : TimersOf(q) = {} => TimersOf(q)' = {}
    BY <2>1, <2>2 DEF TimersOf
  <2>5. ASSUME NEW q \in Runs, NEW t \in timers, TimersOf(q) = {t}, due <= t.left
        PROVE  Later(t) \in timers' /\ TimersOf(q)' = {Later(t)} /\ due' <= Later(t).left
    <3>1. TimersOf(q)' = {Later(t)}
      BY <2>1, <2>2, <2>5 DEF TimersOf
    <3>2. due' <= Later(t).left
      BY <2>1, <2>2, <2>5 DEF Loop, Typed
    <3> QED  BY <2>1, <3>1, <3>2
  <2>6. \A q \in Runs : Turn(q) => Turn(q)'
    BY <2>1, <2>3, <2>4, <2>5 DEF Turn
  <2>7. Early' /\ Pushing' /\ Greets' /\ Invited'
    BY <2>1, <2>3, <2>4, <2>6 DEF Loop, Early, Pushing, Greets, Invited
  <2> QED  BY <2>3, <2>7 DEF Loop
<1>13. ASSUME NEW t \in timers, Invite(t) PROVE Loop'
  <2>1. /\ t.left = 0 /\ timers' = timers \ {t}
        /\ UNCHANGED <<runs, kind, iso, inbox, gDemoTitle, gDemoIso, gDemoCtl, due, spoilt>>
    BY <1>13 DEF Invite
  <2>2. \A q \in Runs : ticks'[q] = IF q = t.ctl /\ gDemoCtl = q THEN ticks[q] + 1 ELSE ticks[q]
    BY <1>13 DEF Invite, Ports
  <2>3. \A q \in Runs : /\ TimersOf(q)' = TimersOf(q) \ {t}
                        /\ t \in TimersOf(q) <=> t.ctl = q
    BY <2>1 DEF TimersOf
  <2>4. Typed' /\ Early' /\ Pushing' /\ Greets'
    BY <2>1, <2>2, <2>3 DEF Loop, Typed, Early, Pushing, Greets
  <2>5. ASSUME NEW q \in Runs, gDemoCtl = q, Turn(q) PROVE Turn(q)'
    <3>1. CASE t.ctl = q
      <4>1. ticks[q] = 0 /\ TimersOf(q) = {t} /\ due <= t.left /\ Frames(inbox[q]) = {}
        BY <2>3, <2>5, <3>1 DEF Turn
      <4>2. due = 0
        BY <2>1, <4>1 DEF Loop, Typed
      <4>3. ticks'[q] = 1 /\ TimersOf(q)' = {}
        BY <2>2, <2>3, <2>5, <3>1, <4>1
      <4> QED  BY <2>1, <4>1, <4>2, <4>3 DEF Turn
    <3>2. CASE t.ctl # q
      <4>1. ticks'[q] = ticks[q] /\ TimersOf(q)' = TimersOf(q)
        BY <2>2, <2>3, <3>2
      <4>2. \A u \in timers : TimersOf(q) = {u} => u \in timers'
        BY <2>1, <2>3, <3>2
      <4> QED  BY <2>1, <2>5, <4>1, <4>2 DEF Turn
    <3> QED  BY <3>1, <3>2
  <2>6. Invited'
    BY <2>1, <2>5 DEF Loop, Invited
  <2> QED  BY <2>4, <2>6 DEF Loop
<1>14. ASSUME NEW r \in Runs, Drop(r) \/ Throws(r) \/ \E c \in Cost : Paint(r, c)
       PROVE  \E m \in {"frame", "bad"} : Read(r, m)
  BY <1>14 DEF Drop, Throws, Paint
<1> QED
  BY <1>1, <1>2, <1>3, <1>4, <1>5, <1>6, <1>7, <1>8, <1>9, <1>10, <1>11, <1>12, <1>13, <1>14 DEF Next

-----------------------------------------------------------------------------
(* Theorems *)

\* The Metal pane belongs to the demo on show.
THEOREM PaneIsItsOwners == Spec => []PaneIsOwners
<1>1. Ports => PaneIsOwners
  BY DEF Ports, PaneIsOwners
<1> QED  BY <1>1, PortsHold, PTL

\* Plain keys are captured just while a demo is on show in its tab.
THEOREM KeysFollowDemo == Spec => []KeysFollow
<1>1. Ports => KeysFollow
  BY DEF Ports
<1> QED  BY <1>1, PortsHold, PTL

\* Every handle of a running isolate is kept, and a run that has not begun has sent nothing.
LEMMA HandlesInit == Init => Handles
<1>1. Init => (\A r \in Runs : inbox[r] = <<>> /\ DOMAIN inbox[r] = {} /\ iso[r] = "none")
  BY DEF Init
<1> QED  BY <1>1 DEF Init, Handles, Alive

\* Stop can kill every demo isolate there is, unless two runs were loading at once.
THEOREM HandleIsKept == Spec => []HandleKept
<1>2. Handles => HandleKept
  BY DEF Handles, HandleKept
<1> QED  BY <1>2, PortsHold, HandlesInit, HandlesStep, PTL DEF Spec

\* The invitations of a demo go round one at a time: a demo that is invited has one
\* timer, one tick or one frame under way, until a frame of its own throws.
THEOREM LoopTurnsOnce == Spec => []LoopTurns
<1>1. Init => Loop
  <2>1. Init => (\A r \in Runs : inbox[r] = <<>> /\ iso[r] = "none" /\ ticks[r] = 0)
    BY DEF Init
  <2>2. ~Holds(<<>>, "port")
    BY DEF Holds
  <2>3. Init => Typed /\ Early /\ 0 \notin Runs
    BY <2>1 DEF Init, Typed, Early, TimersOf, Runs
  <2> QED  BY <2>1, <2>2, <2>3 DEF Init, Loop, Pushing, Greets, Invited
<1>2. Loop => LoopTurns
  <2> SUFFICES ASSUME Loop, NEW r \in Runs, gDemoCtl = r, iso[r] = "running", r \notin spoilt
               PROVE  ticks[r] + Cardinality(TimersOf(r)) + Cardinality(FramesOf(r)) = 1
    BY DEF LoopTurns
  <2>1. Turn(r) /\ FramesOf(r) = Frames(inbox[r])
    BY DEF Loop, Invited, FramesOf, Frames
  <2>2. Cardinality({}) = 0
    BY FS_EmptySet
  <2>3. CASE ticks[r] = 1 /\ TimersOf(r) = {} /\ FramesOf(r) = {}
    BY <2>2, <2>3
  <2>4. ASSUME NEW t, ticks[r] = 0, TimersOf(r) = {t}, FramesOf(r) = {}
        PROVE  ticks[r] + Cardinality(TimersOf(r)) + Cardinality(FramesOf(r)) = 1
    <3>1. Cardinality(TimersOf(r)) = 1
      BY <2>4, FS_Singleton
    <3> QED  BY <2>2, <2>4, <3>1
  <2>5. ASSUME NEW i, ticks[r] = 0, TimersOf(r) = {}, FramesOf(r) = {i}
        PROVE  ticks[r] + Cardinality(TimersOf(r)) + Cardinality(FramesOf(r)) = 1
    <3>1. Cardinality(FramesOf(r)) = 1
      BY <2>5, FS_Singleton
    <3> QED  BY <2>2, <2>5, <3>1
  <2>6. \/ ticks[r] = 1 /\ TimersOf(r) = {} /\ FramesOf(r) = {}
        \/ ticks[r] = 0 /\ FramesOf(r) = {} /\ \E t : TimersOf(r) = {t}
        \/ ticks[r] = 0 /\ TimersOf(r) = {} /\ \E i : FramesOf(r) = {i}
    BY <2>1 DEF Turn
  <2> QED  BY <2>3, <2>4, <2>5, <2>6
<1>3. Ports /\ Handles /\ Loop /\ [Next]_vars => Loop'
  BY LoopStep
<1>4. Ports /\ Handles /\ [Next]_vars => Handles'
  BY HandlesStep
<1> QED  BY <1>1, <1>2, <1>3, <1>4, PortsHold, HandlesInit, PTL DEF Spec

\* No tick reaches a demo that is no longer the one on show.
THEOREM TicksForOwner == Spec => TickForOwner
<1>1. ASSUME Ports, [Next]_vars PROVE [\A r \in Runs : ticks'[r] > ticks[r] => gDemoTitle = r]_vars
  <2>1. SUFFICES ASSUME Next, NEW r \in Runs, ticks'[r] > ticks[r] PROVE gDemoTitle = r
    BY <1>1
  <2>2. ticks \in [Runs -> Nat]
    BY <1>1 DEF Ports
  <2>3. ASSUME NEW q \in Runs, TakePort(q) PROVE gDemoTitle = r
    <3>1. q = r
      BY <2>1, <2>2, <2>3 DEF TakePort
    <3> QED  BY <1>1, <2>3, <3>1, ReadPorts DEF TakePort, Ports
  <2>4. ASSUME NEW t \in timers, Invite(t) PROVE gDemoTitle = r
    BY <1>1, <2>1, <2>2, <2>4 DEF Invite, Ports, Runs
  <2>5. ASSUME NEW q \in Runs, NEW m \in {"frame", "bad"}, Answer(q, m) PROVE FALSE
    BY <2>1, <2>2, <2>5 DEF Answer
  <2>6. ticks' # ticks
    BY <2>1, <2>2
  <2> QED
    BY <2>1, <2>3, <2>4, <2>5, <2>6
       DEF Next, RunDemo, Stop, SwitchTab, Elapse, SpawnDone, SpawnFails, Begin, Push, Exits,
           TakeGpopen, TakeExit, Paint, Drop, Throws
<1> QED  BY <1>1, PortsHold, PTL DEF Spec, TickForOwner

=============================================================================
