----------------------------- MODULE AppProofs -----------------------------
(***************************************************************************)
(* Proofs about AppSurface, for any apps, any number of acts of the user   *)
(* and of changes of an app's state: what the window shows is what the app *)
(* described.                                                              *)
(***************************************************************************)
EXTENDS AppSurface, SequenceTheorems, WellFoundedInduction, NaturalsInduction, TLAPS

---------------------------------------------------------------------------
(* What is under way.                                                      *)

Changers == Apps \cup {"stop"}
Widget   == [by : Apps, version : Nat]

Messages ==
  [of : {"push"}, cmds : {<<Clear>>} \cup {<<Clear, Add(v)>> : v \in Widget} \cup {<<Set(v)>> : v \in Widget},
   by : Apps]
    \cup [of : {"reply"}, to : Requests, ok : BOOLEAN, version : Nat] \cup {Dead}
Questions == [request : Requests, from : Apps \cup {None}]

Clears(m)      == m.of = "push" /\ (m.cmds = <<Clear>> \/ \E v \in Widget : m.cmds = <<Clear, Add(v)>>)
Barren(m)      == m.of = "push" => m.cmds = <<Clear>> \/ \E v \in Widget : m.cmds = <<Set(v)>>
RunOk(m)       == m.of = "reply" /\ m.to \in Apps /\ m.ok
ChangeReply(m) == m.of = "reply" /\ m.to \in Changers
EventOk(m)     == m.of = "reply" /\ m.to = "event" /\ m.ok /\ asked["event"] = "sent"

Typed ==
  /\ app \in Apps \cup {None} /\ version \in Nat /\ leftTicking \subseteq Apps
  /\ inbox \in Seq(Questions) /\ wire \in Seq(Messages)
  /\ gAppName \in Apps \cup {None}
  /\ asked \in [Requests -> {"no", "sent", "stale"}]

\* A request under way is in the inbox or has its reply on the wire, once.
Queued ==
  /\ \A i \in DOMAIN inbox : asked[inbox[i].request] = "sent"
  /\ \A i, j \in DOMAIN inbox : inbox[i].request = inbox[j].request => i = j
  /\ \A i \in DOMAIN wire : wire[i].of = "reply" => asked[wire[i].to] # "no"
  /\ \A i, j \in DOMAIN wire : wire[i].of = "reply" /\ wire[j].of = "reply" /\ wire[i].to = wire[j].to => i = j
  /\ \A i \in DOMAIN wire, j \in DOMAIN inbox : wire[i].of = "reply" => wire[i].to # inbox[j].request

LEMMA Names ==
  /\ None \notin Apps /\ "stop" \notin Apps /\ "build" \notin Apps /\ "event" \notin Apps
  /\ "build" \notin Changers /\ "event" \notin Changers /\ Changers \subseteq Requests
  BY AppAssumption DEF Changers, Requests

LEMMA MessageIs ==
  ASSUME NEW m \in Messages
  PROVE  /\ m.of \in {"push", "reply", "nothing"}
         /\ m.of = "push" => \/ m.cmds = <<Clear>> \/ (\E v \in Widget : m.cmds = <<Clear, Add(v)>>)
                             \/ (\E v \in Widget : m.cmds = <<Set(v)>>)
         /\ m.of = "reply" => m.to \in Requests /\ m.ok \in BOOLEAN /\ m.version \in Nat
         /\ m.of = "nothing" <=> m = Dead
  BY DEF Messages, Dead

LEMMA ClearIs ==
  ASSUME NEW a \in Apps
  PROVE  /\ Push(<<Clear>>, a) \in Messages /\ Push(<<Clear>>, a).of = "push" /\ Clears(Push(<<Clear>>, a))
         /\ Barren(Push(<<Clear>>, a))
  BY DEF Push, Messages, Clears, Barren

LEMMA AddIs ==
  ASSUME NEW a \in Apps, NEW v \in Widget
  PROVE  /\ Push(<<Clear, Add(v)>>, a) \in Messages /\ Push(<<Clear, Add(v)>>, a).of = "push"
         /\ Clears(Push(<<Clear, Add(v)>>, a))
  BY DEF Push, Messages, Clears

LEMMA SetIs ==
  ASSUME NEW a \in Apps, NEW v \in Widget
  PROVE  /\ Push(<<Set(v)>>, a) \in Messages /\ Push(<<Set(v)>>, a).of = "push"
         /\ Barren(Push(<<Set(v)>>, a)) /\ ~Clears(Push(<<Set(v)>>, a))
<1>1. Set(v).op # Clear.op
  BY DEF Set, Clear
<1>2. \A u \in Widget : <<Set(v)>> # <<Clear, Add(u)>> /\ <<Set(v)>> # <<Clear>>
  <2> SUFFICES ASSUME NEW u \in Widget PROVE <<Set(v)>> # <<Clear, Add(u)>> /\ <<Set(v)>> # <<Clear>>
    OBVIOUS
  <2> QED  BY <1>1
<1>3. Push(<<Set(v)>>, a) = [of |-> "push", cmds |-> <<Set(v)>>, by |-> a]
  BY DEF Push
<1> QED  BY <1>2, <1>3 DEF Messages, Clears, Barren

LEMMA ReplyIs ==
  ASSUME NEW r \in Requests, NEW ok \in BOOLEAN, NEW v \in Nat
  PROVE  /\ Reply(r, ok, v) \in Messages /\ Reply(r, ok, v).of = "reply"
         /\ Reply(r, ok, v).to = r /\ Reply(r, ok, v).ok = ok /\ Reply(r, ok, v).version = v
  BY DEF Reply, Messages

LEMMA DeadIs == Dead \in Messages /\ Dead.of = "nothing"
  BY DEF Dead, Messages

\* What is put behind the wire, what is taken from its head, what a closed port does.
LEMMA Behind ==
  ASSUME NEW S, NEW q \in Seq(S), NEW t \in Seq(S)
  PROVE  /\ q \o t \in Seq(S) /\ Len(q \o t) = Len(q) + Len(t)
         /\ \A i \in DOMAIN q : i \in DOMAIN (q \o t) /\ (q \o t)[i] = q[i]
         /\ \A i \in DOMAIN (q \o t) : \/ i \in DOMAIN q
                                     \/ \E k \in 1 .. Len(t) : i = Len(q) + k /\ (q \o t)[i] = t[k]
         /\ DOMAIN q = 1 .. Len(q) /\ Len(q) \in Nat /\ Len(t) \in Nat /\ DOMAIN (q \o t) = 1 .. Len(q) + Len(t)
         /\ \A k \in 1 .. Len(t) : (q \o t)[Len(q) + k] = t[k]
  OBVIOUS

LEMMA AtHead ==
  ASSUME NEW S, NEW q \in Seq(S), q # <<>>
  PROVE  /\ Head(q) = q[1] /\ 1 \in DOMAIN q /\ q[1] \in S /\ DOMAIN q = 1 .. Len(q) /\ Len(q) \in Nat \ {0}
         /\ Tail(q) \in Seq(S) /\ Len(Tail(q)) = Len(q) - 1 /\ DOMAIN Tail(q) = 1 .. Len(q) - 1
         /\ \A i \in DOMAIN Tail(q) : i + 1 \in DOMAIN q /\ Tail(q)[i] = q[i + 1] /\ i >= 1
  OBVIOUS

LEMMA ClosedIs ==
  ASSUME wire \in Seq(Messages), NEW ports
  PROVE  /\ Closed(ports) \in Seq(Messages) /\ Len(Closed(ports)) = Len(wire) /\ DOMAIN Closed(ports) = DOMAIN wire
         /\ \A i \in DOMAIN wire : Closed(ports)[i] = (IF i \in ports THEN Dead ELSE wire[i])
<1>1. Len(wire) \in Nat /\ DOMAIN wire = 1 .. Len(wire) /\ \A i \in 1 .. Len(wire) : wire[i] \in Messages
  OBVIOUS
<1>2. Dead \in Messages
  BY DeadIs
<1> QED  BY <1>1, <1>2 DEF Closed

---------------------------------------------------------------------------
(* What the steps do to the queues.                                        *)

UiSame == UNCHANGED <<up, stopped, gAppName, views, gAppSpec, asked, acts, crossed, amiss>>

\* Request r is served: pushes and its reply, t, go behind the wire.
Answers(r, t) ==
  /\ inbox # <<>> /\ r = Head(inbox).request /\ inbox' = Tail(inbox)
  /\ t \in Seq(Messages) /\ Len(t) \in 1 .. 3 /\ wire' = wire \o t
  /\ \A i \in 1 .. Len(t) - 1 : t[i].of = "push"
  /\ t[Len(t)].of = "reply" /\ t[Len(t)].to = r
  /\ UiSame
  /\ r \notin Changers => app' = app /\ leftTicking' = leftTicking /\ (app = None => Len(t) = 1)
  /\ RunOk(t[Len(t)]) => app' = r /\ Len(t) >= 2 /\ Clears(t[Len(t) - 1])
  /\ r = "stop" => app' = None
  /\ app' \in Apps \cup {None} /\ version' \in Nat /\ leftTicking' \subseteq Apps

\* A timer's push.
Ticks(m) ==
  /\ inbox' = inbox /\ app' = app /\ leftTicking' = leftTicking /\ version' \in Nat /\ UiSame
  /\ m \in Messages /\ wire' = wire \o <<m>>
  /\ m.of = "push" /\ Barren(m) /\ ~Clears(m)

LEMMA FarewellIs ==
  ASSUME Typed
  PROVE  /\ Farewell \in Seq(Messages) /\ Len(Farewell) \in 0 .. 1 /\ (app = None => Farewell = <<>>)
         /\ \A i \in 1 .. Len(Farewell) : Farewell[i].of = "push"
         /\ StillTicking \subseteq Apps
<1>1. StillTicking \subseteq Apps
  BY DEF Typed, StillTicking
<1>2. CASE app = None
  BY <1>1, <1>2 DEF Farewell
<1>3. CASE app # None
  <2>1. app \in Apps
    BY <1>3 DEF Typed
  <2>2. Farewell = <<Push(<<Clear>>, app)>> /\ Push(<<Clear>>, app) \in Messages /\ Push(<<Clear>>, app).of = "push"
    BY <1>3, <2>1, ClearIs DEF Farewell
  <2> QED  BY <1>1, <1>3, <2>2
<1> QED  BY <1>2, <1>3

LEMMA ServeIs ==
  ASSUME Typed, Serve
  PROVE  \E r, t : Answers(r, t)
<1>1. inbox # <<>> /\ inbox' = Tail(inbox)
  BY DEF Serve, ServeRunUnknown, ServeRunNotMade, ServeStop, ServeRun, ServeBuild, ServeEventIgnored, ServeEvent, Takes
<1> DEFINE r == Head(inbox).request
<1>2. r \in Requests
  <2>1. Head(inbox) \in Questions
    BY <1>1, AtHead DEF Typed
  <2> QED  BY <2>1 DEF Questions
<1>3. UiSame
  BY DEF Serve, ServeRunUnknown, ServeRunNotMade, ServeStop, ServeRun, ServeBuild, ServeEventIgnored, ServeEvent,
         UiUntouched, UiSame, window, marks
<1>4. r \in Apps => r \notin {"stop", "build", "event"}
  BY Names
<1>10. r = Head(inbox).request
  OBVIOUS
<1> HIDE DEF r
<1>5. CASE ServeRunUnknown \/ ServeEventIgnored
  <2> DEFINE m == Reply(r, FALSE, 0)
             t == <<m>>
  <2>1. /\ wire' = Append(wire, m) /\ app' = app /\ leftTicking' = leftTicking /\ version' = version
        /\ r \in Apps \cup {"event"}
    BY <1>5 DEF ServeRunUnknown, ServeEventIgnored, Takes, r
  <2>2. m \in Messages /\ m.of = "reply" /\ m.to = r /\ ~m.ok
    BY <1>2 DEF Reply, Messages
  <2> HIDE DEF m
  <2>3. t \in Seq(Messages) /\ Len(t) = 1 /\ t[1] = m /\ wire' = wire \o t
    BY <2>1, <2>2, AppendIsConcat DEF Typed
  <2> HIDE DEF t
  <2>4. app' \in Apps \cup {None} /\ version' \in Nat /\ leftTicking' \subseteq Apps
    BY <2>1 DEF Typed
  <2>5. ~RunOk(t[Len(t)]) /\ t[Len(t)].of = "reply" /\ t[Len(t)].to = r
    BY <2>2, <2>3 DEF RunOk
  <2>6. r # "stop"
    BY <2>1, Names
  <2>7. Len(t) \in 1 .. 3 /\ \A i \in 1 .. Len(t) - 1 : t[i].of = "push"
    BY <2>3
  <2>9. Answers(r, t)
    BY <1>1, <1>3, <1>10, <2>1, <2>3, <2>4, <2>5, <2>6, <2>7 DEF Answers
  <2> QED  BY <2>9
<1>6. CASE ServeRunNotMade \/ ServeStop
  <2> DEFINE m == Reply(r, r = "stop", 0)
             f == Farewell
             t == f \o <<m>>
  <2>f. f \in Seq(Messages) /\ Len(f) \in 0 .. 1 /\ \A i \in 1 .. Len(f) : f[i].of = "push"
    BY FarewellIs
  <2>g. app' \in Apps \cup {None} /\ version' \in Nat /\ leftTicking' \subseteq Apps
    BY <1>6, FarewellIs DEF ServeRunNotMade, ServeStop
  <2>1. /\ wire' = wire \o Farewell \o <<m>> /\ app' = None /\ leftTicking' = StillTicking /\ version' = 0
        /\ r \in Changers
    BY <1>4, <1>6 DEF ServeRunNotMade, ServeStop, Takes, Changers, r
  <2>2. m \in Messages /\ m.of = "reply" /\ m.to = r /\ (m.ok => r = "stop")
    BY <1>2 DEF Reply, Messages
  <2> HIDE DEF m, f
  <2>3. /\ t \in Seq(Messages) /\ Len(t) = Len(f) + 1 /\ t[Len(t)] = m
        /\ \A i \in 1 .. Len(f) : t[i] = f[i]
    BY <2>2, <2>f
  <2>4. wire' = wire \o t
    BY <2>1, <2>2, <2>f DEF Typed, f
  <2> HIDE DEF t
  <2>5. ~RunOk(t[Len(t)]) /\ t[Len(t)].of = "reply" /\ t[Len(t)].to = r
    BY <1>4, <2>2, <2>3 DEF RunOk
  <2>6. Len(t) \in 1 .. 3 /\ \A i \in 1 .. Len(t) - 1 : t[i].of = "push"
    BY <2>3, <2>f
  <2>7. Answers(r, t)
    BY <1>1, <1>3, <1>10, <2>1, <2>g, <2>3, <2>4, <2>5, <2>6 DEF Answers
  <2> QED  BY <2>7
<1>7. ASSUME NEW ok \in BOOLEAN, ServeRun(ok) PROVE \E t : Answers(r, t)
  <2> DEFINE v == [by |-> r, version |-> 0]
             p == Push(IF ok THEN <<Clear, Add(v)>> ELSE <<Clear>>, r)
             m == Reply(r, ok, 0)
             u == <<p, m>>
             f == Farewell
             t == f \o u
  <2>f. f \in Seq(Messages) /\ Len(f) \in 0 .. 1 /\ \A i \in 1 .. Len(f) : f[i].of = "push"
    BY FarewellIs
  <2>1. /\ wire' = wire \o Farewell \o u /\ app' = r /\ leftTicking' = StillTicking /\ version' = 0
        /\ r \in Apps
    BY <1>7 DEF ServeRun, Takes, r
  <2>2. m \in Messages /\ m.of = "reply" /\ m.to = r
    BY <1>2 DEF Reply, Messages
  <2>3. p \in Messages /\ p.of = "push" /\ Clears(p)
    <3>1. v \in Widget
      BY <2>1 DEF Widget
    <3> HIDE DEF v
    <3> QED  BY <2>1, <3>1, AddIs, ClearIs
  <2> HIDE DEF m, p
  <2>4. u \in Seq(Messages) /\ Len(u) = 2 /\ u[1] = p /\ u[2] = m
    BY <2>2, <2>3
  <2> HIDE DEF u, f
  <2>5. /\ t \in Seq(Messages) /\ Len(t) = Len(f) + 2 /\ t[Len(f) + 2] = m /\ t[Len(f) + 1] = p
        /\ \A i \in 1 .. Len(f) : t[i] = f[i]
    <3>1. u \in Seq(Messages) /\ f \in Seq(Messages)
      BY <2>4, <2>f
    <3>2. /\ f \o u \in Seq(Messages) /\ Len(f \o u) = Len(f) + Len(u) /\ DOMAIN f = 1 .. Len(f)
          /\ \A i \in DOMAIN f : (f \o u)[i] = f[i]
          /\ \A k \in 1 .. Len(u) : (f \o u)[Len(f) + k] = u[k]
      BY ONLY <3>1, Behind
    <3> QED  BY <2>4, <3>2
  <2>6. wire' = wire \o t
    BY <2>1, <2>4, <2>f DEF Typed, f
  <2> HIDE DEF t
  <2>7. Len(t) \in 1 .. 3 /\ \A i \in 1 .. Len(t) - 1 : t[i].of = "push"
    BY <2>3, <2>5, <2>f
  <2>8. t[Len(t)] = m /\ Len(t) - 1 = Len(f) + 1 /\ Len(t) >= 2
    BY <2>5, <2>f
  <2>9. app' \in Apps \cup {None} /\ version' \in Nat /\ leftTicking' \subseteq Apps /\ r \in Changers /\ r # "stop"
    BY <1>4, <2>1, FarewellIs DEF Changers
  <2>10. Answers(r, t)
    BY <1>1, <1>3, <1>10, <2>1, <2>2, <2>3, <2>5, <2>6, <2>7, <2>8, <2>9 DEF Answers
  <2> QED  BY <2>10
<1>8. ASSUME NEW ok \in BOOLEAN, ServeBuild(ok) PROVE \E t : Answers(r, t)
  <2>1. r = "build" /\ app' = app /\ leftTicking' = leftTicking /\ version' = version
    BY <1>8 DEF ServeBuild, Takes, r
  <2>2. CASE app = None
    <3> DEFINE m == Reply("build", FALSE, 0)
               t == <<m>>
    <3>1. wire' = Append(wire, m)
      BY <1>8, <2>2 DEF ServeBuild
    <3>2. m \in Messages /\ m.of = "reply" /\ m.to = r /\ ~m.ok
      BY <1>2, <2>1 DEF Reply, Messages
    <3> HIDE DEF m
    <3>3. t \in Seq(Messages) /\ Len(t) = 1 /\ t[1] = m /\ wire' = wire \o t
      BY <3>1, <3>2, AppendIsConcat DEF Typed
    <3> HIDE DEF t
    <3>4. ~RunOk(t[Len(t)]) /\ t[Len(t)].of = "reply" /\ t[Len(t)].to = r
      BY <3>2, <3>3 DEF RunOk
    <3>5. Len(t) \in 1 .. 3 /\ \A i \in 1 .. Len(t) - 1 : t[i].of = "push"
      BY <3>3
    <3>6. app' \in Apps \cup {None} /\ version' \in Nat /\ leftTicking' \subseteq Apps
      BY <2>1 DEF Typed
    <3>7. Answers(r, t)
      BY <1>1, <1>3, <1>10, <2>1, <3>3, <3>4, <3>5, <3>6 DEF Answers
    <3> QED  BY <3>7
  <2>3. CASE app # None
    <3> DEFINE v == [by |-> app, version |-> version]
               p == Push(IF ok THEN <<Clear, Add(v)>> ELSE <<Clear>>, app)
               m == Reply("build", ok, 0)
               t == <<p, m>>
    <3>1. wire' = wire \o t
      BY <1>8, <2>3 DEF ServeBuild
    <3>2. p \in Messages /\ p.of = "push"
      <4>1. v \in Widget /\ app \in Apps
        BY <2>3 DEF Widget, Typed
      <4> HIDE DEF v
      <4> QED  BY <4>1, AddIs, ClearIs
    <3>3. m \in Messages /\ m.of = "reply" /\ m.to = "build"
      BY <1>2, <2>1 DEF Reply, Messages
    <3> HIDE DEF p, m
    <3>4. t \in Seq(Messages) /\ Len(t) = 2 /\ t[1] = p /\ t[2] = m
      BY <3>2, <3>3
    <3> HIDE DEF t
    <3>5. ~RunOk(t[Len(t)]) /\ t[Len(t)].of = "reply" /\ t[Len(t)].to = r
      BY <2>1, <3>3, <3>4, Names DEF RunOk
    <3>6. Len(t) \in 1 .. 3 /\ \A i \in 1 .. Len(t) - 1 : t[i].of = "push"
      BY <3>2, <3>4
    <3>7. app' \in Apps \cup {None} /\ version' \in Nat /\ leftTicking' \subseteq Apps
      BY <2>1 DEF Typed
    <3>8. Answers(r, t)
      BY <1>1, <1>3, <1>10, <2>1, <2>3, <3>1, <3>4, <3>5, <3>6, <3>7 DEF Answers
    <3> QED  BY <3>8
  <2> QED  BY <2>2, <2>3
<1>9. CASE ServeEvent
  <2> DEFINE v == [by |-> app, version |-> version + 1]
             p == Push(<<Set(v)>>, app)
             m == Reply("event", TRUE, version + 1)
             t == <<p, m>>
  <2>1. /\ wire' = wire \o t /\ r = "event" /\ app' = app /\ leftTicking' = leftTicking /\ version' = version + 1
        /\ app # None
    BY <1>9 DEF ServeEvent, Takes, r
  <2>2. p \in Messages /\ p.of = "push"
    <3>1. v \in Widget /\ app \in Apps
      BY <2>1 DEF Widget, Typed
    <3> HIDE DEF v
    <3> QED  BY <3>1, SetIs
  <2>3. m \in Messages /\ m.of = "reply" /\ m.to = "event" /\ version + 1 \in Nat
    BY <1>2, <2>1 DEF Reply, Messages, Typed
  <2> HIDE DEF p, m
  <2>4. t \in Seq(Messages) /\ Len(t) = 2 /\ t[1] = p /\ t[2] = m
    BY <2>2, <2>3
  <2> HIDE DEF t
  <2>5. ~RunOk(t[Len(t)]) /\ t[Len(t)].of = "reply" /\ t[Len(t)].to = r
    BY <2>1, <2>3, <2>4, Names DEF RunOk
  <2>6. Len(t) \in 1 .. 3 /\ \A i \in 1 .. Len(t) - 1 : t[i].of = "push"
    BY <2>2, <2>4
  <2>7. app' \in Apps \cup {None} /\ version' \in Nat /\ leftTicking' \subseteq Apps
    BY <2>1, <2>3 DEF Typed
  <2>8. Answers(r, t)
    BY <1>1, <1>3, <1>10, <2>1, <2>4, <2>5, <2>6, <2>7 DEF Answers
  <2> QED  BY <2>8
<1> QED  BY <1>5, <1>6, <1>7, <1>8, <1>9 DEF Serve

LEMMA TickIs ==
  ASSUME Typed, Tick \/ \E a \in Apps : TickOfStopped(a)
  PROVE  \E m : Ticks(m)
<1>1. UiSame
  BY DEF Tick, TickOfStopped, UiUntouched, UiSame, window, marks
<1>3. CASE Tick
  <2> DEFINE v == [by |-> app, version |-> version + 1]
             m == Push(<<Set(v)>>, app)
  <2>1. /\ wire' = Append(wire, m) /\ inbox' = inbox /\ app' = app /\ leftTicking' = leftTicking
        /\ version' = version + 1 /\ app # None
    BY <1>3 DEF Tick
  <2>2. v \in Widget /\ app \in Apps /\ version + 1 \in Nat
    BY <2>1 DEF Widget, Typed
  <2> HIDE DEF v
  <2>3. m \in Messages /\ m.of = "push" /\ Barren(m) /\ ~Clears(m)
    BY <2>2, SetIs
  <2> HIDE DEF m
  <2>4. wire' = wire \o <<m>>
    BY <2>1, <2>3, AppendIsConcat DEF Typed
  <2> QED  BY <1>1, <2>1, <2>2, <2>3, <2>4 DEF Ticks
<1>4. ASSUME NEW a \in Apps, TickOfStopped(a) PROVE \E m : Ticks(m)
  <2> DEFINE v == [by |-> a, version |-> 0]
             m == Push(<<Set(v)>>, a)
  <2>1. /\ wire' = Append(wire, m) /\ inbox' = inbox /\ app' = app /\ leftTicking' = leftTicking
        /\ version' = version
    BY <1>4 DEF TickOfStopped, language
  <2>2. v \in Widget
    BY DEF Widget
  <2> HIDE DEF v
  <2>3. m \in Messages /\ m.of = "push" /\ Barren(m) /\ ~Clears(m)
    BY <2>2, SetIs
  <2> HIDE DEF m
  <2>4. wire' = wire \o <<m>>
    BY <2>1, <2>3, AppendIsConcat DEF Typed
  <2> QED  BY <1>1, <2>1, <2>3, <2>4 DEF Ticks, Typed
<1> QED  BY <1>3, <1>4

\* What the user asks for is sent, or refused at once.
Asks(r) ==
  /\ r \in Requests /\ asked[r] = "no" /\ asked' = [asked EXCEPT ![r] = "sent"]
  /\ inbox' = Append(inbox, [request |-> r, from |-> gAppName])
  /\ r \notin Apps => gAppName # None
  /\ gAppName' = IF r = "stop" THEN None ELSE gAppName
  /\ ~crossed' => ~crossed /\ (r # "build" => ~Changing)
  /\ UNCHANGED <<app, version, described, leftTicking, wire, views, gAppSpec, amiss>>

Refused(r) ==
  /\ r \in Requests
  /\ gAppName' = IF r \in Changers THEN None ELSE gAppName
  /\ IF r \in Changers THEN amiss' ELSE amiss' = amiss
  /\ ~crossed' => ~crossed /\ (r # "build" => ~Changing)
  /\ IF r = "stop" THEN ClearViews ELSE UNCHANGED <<views, gAppSpec>>
  /\ UNCHANGED <<app, version, described, leftTicking, inbox, wire, asked>>

Stays ==
  /\ UNCHANGED <<app, version, described, leftTicking, inbox, wire, gAppName, views, gAppSpec, asked, amiss>>
  /\ ~crossed' => ~crossed

LEMMA AskIs ==
  ASSUME AppStop \/ AppRebuild \/ AppFire \/ \E a \in Apps : AppRun(a)
  PROVE  (\E r : Asks(r)) \/ \E r : Refused(r)
<1>1. ASSUME NEW a \in Apps, AppRun(a) PROVE (\E r : Asks(r)) \/ \E r : Refused(r)
  <2>1. a \in Requests /\ a \in Changers /\ a # "stop" /\ a # "build"
    BY Names DEF Requests, Changers
  <2>2. CASE CanAsk
    <3>1. Asks(a)
      BY <1>1, <2>1, <2>2 DEF AppRun, Ask, Act, Asks, window
    <3> QED  BY <3>1
  <2>3. CASE ~CanAsk
    <3>1. Refused(a)
      BY <1>1, <2>1, <2>3 DEF AppRun, Ask, Act, Refused, window
    <3> QED  BY <3>1
  <2> QED  BY <2>2, <2>3
<1>2. CASE AppStop
  <2>1. "stop" \in Requests /\ "stop" \in Changers /\ "stop" \notin Apps
    BY Names DEF Requests, Changers
  <2>2. CASE CanAsk
    <3>1. Asks("stop")
      BY <1>2, <2>1, <2>2 DEF AppStop, Ask, Act, Asks, window
    <3> QED  BY <3>1
  <2>3. CASE ~CanAsk
    <3>1. Refused("stop")
      BY <1>2, <2>1, <2>3 DEF AppStop, Ask, Act, Refused
    <3> QED  BY <3>1
  <2> QED  BY <2>2, <2>3
<1>3. ASSUME NEW r, (r = "build" /\ AppRebuild) \/ (r = "event" /\ AppFire)
      PROVE  (\E q : Asks(q)) \/ \E q : Refused(q)
  <2>1. r \in Requests /\ r \notin Changers /\ r \notin Apps /\ r # "stop"
    BY <1>3, Names DEF Requests, Changers
  <2>2. CASE CanAsk
    <3>1. Asks(r)
      BY <1>3, <2>1, <2>2 DEF AppRebuild, AppFire, Ask, Act, Asks, window
    <3> QED  BY <3>1
  <2>3. CASE ~CanAsk
    <3>1. Refused(r)
      BY <1>3, <2>1, <2>3 DEF AppRebuild, AppFire, Ask, Act, Refused, window
    <3> QED  BY <3>1
  <2> QED  BY <2>2, <2>3
<1> QED  BY <1>1, <1>2, <1>3

\* Whatever happens is one of these.
LEMMA Steps ==
  ASSUME Typed, [Next]_vars
  PROVE  \/ (\E r, t : Answers(r, t)) \/ (\E m : Ticks(m))
         \/ (\E r : Asks(r)) \/ (\E r : Refused(r)) \/ RebuildUi
         \/ TakePush \/ TakeReply \/ TakeDead \/ (\E r \in Requests : Lost(r))
         \/ Respawn \/ (\E r \in Requests, ok \in BOOLEAN : ServeLate(r, ok)) \/ Stays
<1>1. CASE Serve
  BY <1>1, ServeIs
<1>2. CASE Tick \/ \E a \in Apps : TickOfStopped(a)
  BY <1>2, TickIs
<1>3. CASE AppStop \/ AppRebuild \/ AppFire \/ \E a \in Apps : AppRun(a)
  BY <1>3, AskIs
<1>4. CASE Handshake \/ Pause \/ Continue \/ UNCHANGED vars
  <2>1. ASSUME Handshake \/ Continue PROVE Stays
    BY <2>1 DEF Handshake, Continue, Stays, language, window, marks
  <2>2. ASSUME Pause PROVE Stays
    BY <2>2 DEF Pause, Act, Stays, language, window
  <2>3. ASSUME UNCHANGED vars PROVE Stays
    BY <2>3 DEF vars, Stays, language, window, marks
  <2> QED  BY <1>4, <2>1, <2>2, <2>3
<1> QED  BY <1>1, <1>2, <1>3, <1>4 DEF Next

LEMMA TypedStep == Typed /\ [Next]_vars => Typed'
<1> SUFFICES ASSUME Typed, [Next]_vars PROVE Typed'
  OBVIOUS
<1>1. ASSUME NEW r, NEW t, Answers(r, t) PROVE Typed'
  <2>1. inbox' \in Seq(Questions) /\ wire' \in Seq(Messages)
    BY <1>1, AtHead, Behind DEF Answers, Typed
  <2> QED  BY <1>1, <2>1 DEF Answers, Typed, UiSame
<1>2. ASSUME NEW m, Ticks(m) PROVE Typed'
  <2>1. wire' \in Seq(Messages)
    BY <1>2 DEF Ticks, Typed
  <2> QED  BY <1>2, <2>1 DEF Ticks, Typed, UiSame
<1>3. ASSUME NEW r, Asks(r) PROVE Typed'
  <2>1. [request |-> r, from |-> gAppName] \in Questions
    BY <1>3 DEF Asks, Typed, Questions
  <2>2. inbox' \in Seq(Questions)
    BY <1>3, <2>1 DEF Asks, Typed
  <2>3. asked' \in [Requests -> {"no", "sent", "stale"}]
    BY <1>3 DEF Asks, Typed
  <2> QED  BY <1>3, <2>2, <2>3 DEF Asks, Typed
<1>4. ASSUME NEW r, Refused(r) PROVE Typed'
  BY <1>4 DEF Refused, Typed
<1>5. CASE RebuildUi \/ Stays
  BY <1>5 DEF RebuildUi, Stays, Typed, language
<1>6. CASE TakePush \/ TakeDead
  <2>1. wire # <<>> /\ wire' = Tail(wire)
    BY <1>6 DEF TakePush, TakeDead
  <2>2. wire' \in Seq(Messages)
    BY <2>1, AtHead DEF Typed
  <2> QED  BY <1>6, <2>2 DEF TakePush, TakeDead, Typed, language
<1>7. ASSUME NEW r \in Requests, NEW ok \in BOOLEAN, Ends(r, ok), wire' \in Seq(Messages) PROVE Typed'
  <2>1. asked' \in [Requests -> {"no", "sent", "stale"}]
    BY <1>7 DEF Ends, Typed
  <2> QED  BY <1>7, <2>1 DEF Ends, Typed, language
<1>8. CASE TakeReply
  <2>1. wire' \in Seq(Messages) /\ Head(wire) \in Messages /\ Head(wire).of = "reply"
    BY <1>8, AtHead DEF TakeReply, Typed
  <2> QED  BY <1>7, <1>8, <2>1, MessageIs DEF TakeReply
<1>9. ASSUME NEW r \in Requests, Lost(r) PROVE Typed'
  BY <1>7, <1>9, ClosedIs DEF Lost, Typed
<1>10. CASE Respawn
  <2>1. wire' \in Seq(Messages) /\ inbox' \in Seq(Questions)
    BY <1>10, ClosedIs DEF Respawn, Typed
  <2>2. asked' \in [Requests -> {"no", "sent", "stale"}]
    BY <1>10 DEF Respawn, Typed
  <2>3. gAppName' \in Apps \cup {None}
    BY <1>10 DEF Respawn, AppOnRespawn, Typed
  <2> QED  BY <1>10, <2>1, <2>2, <2>3 DEF Respawn, Typed
<1>11. ASSUME NEW r \in Requests, NEW ok \in BOOLEAN, ServeLate(r, ok) PROVE Typed'
  <2>1. Reply(r, ok, 0) \in Messages
    BY ReplyIs
  <2>2. wire' \in Seq(Messages)
    BY <1>11, <2>1 DEF ServeLate, Typed
  <2> QED  BY <1>11, <2>2 DEF ServeLate, Typed, language
<1> QED  BY <1>1, <1>2, <1>3, <1>4, <1>5, <1>6, <1>8, <1>9, <1>10, <1>11, Steps

---------------------------------------------------------------------------
(* The queues.                                                             *)

\* Behind what was on the wire come the pushes of the turn, and last its reply.
LEMMA AnswerWire ==
  ASSUME Typed, NEW r, NEW t, Answers(r, t)
  PROVE  /\ DOMAIN wire = 1 .. Len(wire) /\ DOMAIN wire' = 1 .. Len(wire') /\ Len(wire) \in Nat /\ Len(wire') \in Nat
         /\ Len(wire) < Len(wire') /\ (Len(t) = 1 => Len(wire') = Len(wire) + 1)
         /\ \A i \in DOMAIN wire : i \in DOMAIN wire' /\ wire'[i] = wire[i]
         /\ \A i \in DOMAIN wire' : i \in DOMAIN wire \/ i = Len(wire') \/ wire'[i].of = "push"
         /\ wire'[Len(wire')] = t[Len(t)]
         /\ wire'[Len(wire')].of = "reply" /\ wire'[Len(wire')].to = r
         /\ RunOk(wire'[Len(wire')]) => /\ Len(wire') - 1 \in DOMAIN wire' /\ Clears(wire'[Len(wire') - 1])
<1>1. wire \in Seq(Messages) /\ t \in Seq(Messages) /\ wire' = wire \o t /\ Len(t) \in 1 .. 3
  BY DEF Answers, Typed
<1>2. /\ wire \o t \in Seq(Messages) /\ Len(wire \o t) = Len(wire) + Len(t)
      /\ \A i \in DOMAIN wire : i \in DOMAIN (wire \o t) /\ (wire \o t)[i] = wire[i]
      /\ \A i \in DOMAIN (wire \o t) : \/ i \in DOMAIN wire
                                       \/ \E k \in 1 .. Len(t) : i = Len(wire) + k /\ (wire \o t)[i] = t[k]
      /\ DOMAIN wire = 1 .. Len(wire) /\ Len(wire) \in Nat /\ Len(t) \in Nat
      /\ DOMAIN (wire \o t) = 1 .. Len(wire) + Len(t)
      /\ \A k \in 1 .. Len(t) : (wire \o t)[Len(wire) + k] = t[k]
  BY ONLY <1>1, Behind
<1>3. /\ Len(wire') = Len(wire) + Len(t)
      /\ \A i \in DOMAIN wire : i \in DOMAIN wire' /\ wire'[i] = wire[i]
      /\ \A i \in DOMAIN wire' : i \in DOMAIN wire \/ \E k \in 1 .. Len(t) : i = Len(wire) + k /\ wire'[i] = t[k]
      /\ DOMAIN wire' = 1 .. Len(wire) + Len(t)
      /\ \A k \in 1 .. Len(t) : wire'[Len(wire) + k] = t[k]
  BY ONLY <1>1, <1>2
<1>9. Len(wire) \in Nat /\ Len(t) \in {1, 2, 3} /\ Len(wire') = Len(wire) + Len(t)
  BY ONLY <1>1, <1>2, <1>3
<1>4. wire'[Len(wire')] = t[Len(t)]
  <2>1. Len(t) \in 1 .. Len(t)
    BY ONLY <1>9
  <2> QED  BY <1>3, <1>9, <2>1
<1>5. t[Len(t)].of = "reply" /\ t[Len(t)].to = r /\ \A k \in 1 .. Len(t) - 1 : t[k].of = "push"
  BY DEF Answers
<1>6. \A i \in DOMAIN wire' : i \in DOMAIN wire \/ i = Len(wire') \/ wire'[i].of = "push"
  <2> SUFFICES ASSUME NEW i \in DOMAIN wire', i \notin DOMAIN wire, i # Len(wire') PROVE wire'[i].of = "push"
    OBVIOUS
  <2>1. PICK k \in 1 .. Len(t) : i = Len(wire) + k /\ wire'[i] = t[k]
    BY <1>3
  <2>2. k \in 1 .. Len(t) - 1
    <3>1. k # Len(t)
      BY <1>9, <2>1
    <3> QED  BY ONLY <1>9, <3>1, k \in 1 .. Len(t)
  <2> QED  BY <1>5, <2>1, <2>2
<1>7. RunOk(wire'[Len(wire')]) => /\ Len(wire') - 1 \in DOMAIN wire' /\ Clears(wire'[Len(wire') - 1])
  <2> SUFFICES ASSUME RunOk(t[Len(t)]) PROVE /\ Len(wire') - 1 \in DOMAIN wire' /\ Clears(wire'[Len(wire') - 1])
    BY <1>4
  <2>1. Len(t) >= 2 /\ Clears(t[Len(t) - 1])
    BY DEF Answers
  <2>2. Len(t) - 1 \in 1 .. Len(t) /\ Len(wire) + (Len(t) - 1) = Len(wire') - 1
    BY ONLY <1>9, <2>1
  <2>3. wire'[Len(wire) + (Len(t) - 1)] = t[Len(t) - 1]
    BY <1>3, <2>2
  <2>4. wire'[Len(wire') - 1] = t[Len(t) - 1]
    BY <2>2, <2>3
  <2>5. Len(wire') - 1 \in DOMAIN wire'
    BY <1>3, <1>9, <2>1
  <2> QED  BY <2>1, <2>4, <2>5
<1>8. Len(wire) < Len(wire') /\ (Len(t) = 1 => Len(wire') = Len(wire) + 1) /\ Len(wire') \in Nat
  <2>1. Len(wire') \in Nat /\ Len(wire) < Len(wire')
    BY ONLY <1>9
  <2> QED  BY ONLY <1>9, <2>1
<1> QED  BY <1>2, <1>3, <1>4, <1>5, <1>6, <1>7, <1>8, <1>9

\* One message more.
LEMMA OneMore ==
  ASSUME Typed, NEW m \in Messages, wire' = Append(wire, m) \/ wire' = wire \o <<m>>
  PROVE  /\ DOMAIN wire = 1 .. Len(wire) /\ DOMAIN wire' = 1 .. Len(wire) + 1 /\ Len(wire) \in Nat
         /\ \A i \in DOMAIN wire : i \in DOMAIN wire' /\ wire'[i] = wire[i]
         /\ \A i \in DOMAIN wire' : i \in DOMAIN wire \/ (i = Len(wire) + 1 /\ wire'[i] = m)
         /\ wire'[Len(wire) + 1] = m /\ Len(wire') = Len(wire) + 1
<1>1. wire \in Seq(Messages) /\ wire' = Append(wire, m)
  BY AppendIsConcat DEF Typed
<1>2. /\ DOMAIN wire = 1 .. Len(wire) /\ Len(wire) \in Nat /\ Len(wire') = Len(wire) + 1
      /\ \A i \in 1 .. Len(wire) : wire'[i] = wire[i]
      /\ wire'[Len(wire) + 1] = m /\ DOMAIN wire' = 1 .. Len(wire) + 1
  BY <1>1
<1>3. \A i \in 1 .. Len(wire) + 1 : i \in 1 .. Len(wire) \/ i = Len(wire) + 1
  BY <1>2
<1> QED  BY <1>2, <1>3

\* The first message is gone.
LEMMA OneLess ==
  ASSUME Typed, wire # <<>>, wire' = Tail(wire)
  PROVE  /\ Head(wire) = wire[1] /\ 1 \in DOMAIN wire /\ wire[1] \in Messages /\ Len(wire) \in Nat \ {0}
         /\ DOMAIN wire = 1 .. Len(wire) /\ DOMAIN wire' = 1 .. Len(wire) - 1 /\ Len(wire') = Len(wire) - 1
         /\ \A i \in DOMAIN wire' : i \in Nat /\ i >= 1 /\ i + 1 \in DOMAIN wire /\ wire'[i] = wire[i + 1]
  BY AtHead DEF Typed

LEMMA OneAsked ==
  ASSUME Typed, NEW r, Asks(r)
  PROVE  /\ DOMAIN inbox = 1 .. Len(inbox) /\ DOMAIN inbox' = 1 .. Len(inbox) + 1 /\ Len(inbox) \in Nat
         /\ \A i \in DOMAIN inbox : i \in DOMAIN inbox' /\ inbox'[i] = inbox[i] /\ inbox[i].request \in Requests
         /\ \A i \in DOMAIN inbox' :
               i \in DOMAIN inbox \/ (i = Len(inbox) + 1 /\ inbox'[i] = [request |-> r, from |-> gAppName])
<1> DEFINE q == [request |-> r, from |-> gAppName]
<1>1. inbox \in Seq(Questions) /\ inbox' = Append(inbox, q)
  BY DEF Asks, Typed
<1> HIDE DEF q
<1>2. /\ DOMAIN inbox = 1 .. Len(inbox) /\ Len(inbox) \in Nat
      /\ \A i \in 1 .. Len(inbox) : inbox'[i] = inbox[i] /\ inbox[i] \in Questions
      /\ inbox'[Len(inbox) + 1] = q /\ DOMAIN inbox' = 1 .. Len(inbox) + 1
  BY <1>1
<1>3. \A i \in 1 .. Len(inbox) + 1 : i \in 1 .. Len(inbox) \/ i = Len(inbox) + 1
  BY <1>2
<1>4. \A x \in Questions : x.request \in Requests
  BY DEF Questions
<1> QED  BY <1>2, <1>3, <1>4 DEF q

LEMMA OneServed ==
  ASSUME Typed, NEW r, NEW t, Answers(r, t)
  PROVE  /\ 1 \in DOMAIN inbox /\ inbox[1].request = r /\ inbox[1].from \in Apps \cup {None} /\ r \in Requests
         /\ \A i \in DOMAIN inbox' : i \in Nat /\ i >= 1 /\ i + 1 \in DOMAIN inbox /\ inbox'[i] = inbox[i + 1]
         /\ DOMAIN inbox = 1 .. Len(inbox)
<1>1. inbox # <<>> /\ inbox \in Seq(Questions) /\ inbox' = Tail(inbox) /\ r = Head(inbox).request
  BY DEF Answers, Typed
<1>2. /\ Head(inbox) = inbox[1] /\ 1 \in DOMAIN inbox /\ inbox[1] \in Questions /\ DOMAIN inbox = 1 .. Len(inbox)
      /\ DOMAIN Tail(inbox) = 1 .. Len(inbox) - 1
      /\ \A i \in DOMAIN Tail(inbox) : i + 1 \in DOMAIN inbox /\ Tail(inbox)[i] = inbox[i + 1] /\ i >= 1
  BY ONLY <1>1, AtHead
<1>3. \A x \in Questions : x.request \in Requests /\ x.from \in Apps \cup {None}
  BY DEF Questions
<1> QED  BY <1>1, <1>2, <1>3

LEMMA Asker ==
  ASSUME Typed, NEW i \in DOMAIN inbox
  PROVE  inbox[i].request \in Requests /\ inbox[i].from \in Apps \cup {None}
<1>1. inbox[i] \in Questions
  BY DEF Typed
<1> QED  BY <1>1 DEF Questions

LEMMA QueuedStep == Typed /\ Queued /\ [Next]_vars => Queued'
<1> SUFFICES ASSUME Typed, Queued, [Next]_vars PROVE Queued'
  OBVIOUS
<1>1. ASSUME NEW r, NEW t, Answers(r, t) PROVE Queued'
  <2>1. asked[r] = "sent" /\ \A i \in DOMAIN wire : wire[i].of = "reply" => wire[i].to # r
    BY <1>1, OneServed DEF Queued
  <2>2. \A i \in DOMAIN inbox' : inbox'[i].request # r
    <3> SUFFICES ASSUME NEW i \in DOMAIN inbox', inbox'[i].request = r PROVE FALSE
      OBVIOUS
    <3>1. i + 1 = 1
      BY <1>1, OneServed DEF Queued
    <3> QED  BY <1>1, <3>1, OneServed
  <2>3. \A i, j \in DOMAIN inbox' : inbox'[i].request = inbox'[j].request => i = j
    <3> SUFFICES ASSUME NEW i \in DOMAIN inbox', NEW j \in DOMAIN inbox', inbox'[i].request = inbox'[j].request PROVE i = j
      OBVIOUS
    <3>1. i + 1 = j + 1
      BY <1>1, OneServed DEF Queued
    <3> QED  BY <1>1, <3>1, OneServed
  <2>4. asked' = asked
    BY <1>1 DEF Answers, UiSame
  <2>5. \A i \in DOMAIN wire' : wire'[i].of = "reply" =>
            \/ i \in DOMAIN wire /\ wire'[i] = wire[i]
            \/ i = Len(wire') /\ wire'[i].to = r
    BY <1>1, AnswerWire
  <2> QED  BY <1>1, <2>1, <2>2, <2>3, <2>4, <2>5, OneServed DEF Queued
<1>2. ASSUME NEW m, Ticks(m) PROVE Queued'
  <2>1. \A i \in DOMAIN wire' : wire'[i].of = "reply" => i \in DOMAIN wire /\ wire'[i] = wire[i]
    BY <1>2, OneMore DEF Ticks
  <2> QED  BY <1>2, <2>1 DEF Ticks, UiSame, Queued
<1>3. ASSUME NEW r, Asks(r) PROVE Queued'
  <2>1. wire' = wire /\ asked[r] = "no" /\ r \in Requests
    BY <1>3 DEF Asks
  <2>2. asked'[r] = "sent" /\ \A q \in Requests : q # r => asked'[q] = asked[q]
    BY <1>3 DEF Asks, Typed
  <2>3. (\A i \in DOMAIN inbox : inbox[i].request # r) /\ \A i \in DOMAIN wire : wire[i].of = "reply" => wire[i].to # r
    BY <2>1 DEF Queued
  <2>4. \A i \in DOMAIN wire : wire[i].of = "reply" => wire[i].to \in Requests
    BY MessageIs DEF Typed
  <2>5. \A i \in DOMAIN inbox' : \/ i \in DOMAIN inbox /\ inbox'[i] = inbox[i] /\ inbox[i].request \in Requests
                                 \/ i = Len(inbox) + 1 /\ inbox'[i].request = r
    BY <1>3, OneAsked
  <2> QED  BY <2>1, <2>2, <2>3, <2>4, <2>5 DEF Queued
<1>4. ASSUME NEW r, Refused(r) PROVE Queued'
  BY <1>4 DEF Refused, Queued
<1>5. CASE RebuildUi \/ Stays
  BY <1>5 DEF RebuildUi, Stays, Queued, language
<1>6. CASE TakePush \/ TakeDead
  <2>1. wire # <<>> /\ wire' = Tail(wire) /\ inbox' = inbox /\ asked' = asked
    BY <1>6 DEF TakePush, TakeDead, language
  <2> QED  BY <2>1, OneLess DEF Queued
<1>7. CASE TakeReply
  <2> DEFINE r == Head(wire).to
  <2>1. wire # <<>> /\ wire' = Tail(wire) /\ inbox' = inbox /\ asked' = [asked EXCEPT ![r] = "no"]
    BY <1>7 DEF TakeReply, Ends, language
  <2>2. r \in Requests /\ wire[1].of = "reply" /\ wire[1].to = r
    BY <1>7, <2>1, OneLess, MessageIs DEF TakeReply
  <2> HIDE DEF r
  <2>3. \A q \in Requests : q # r => asked'[q] = asked[q]
    BY <2>1 DEF Typed
  <2>4. \A i \in DOMAIN wire' : wire'[i].of = "reply" => wire'[i].to # r /\ wire'[i].to \in Requests
    <3> SUFFICES ASSUME NEW i \in DOMAIN wire', wire'[i].of = "reply" PROVE wire'[i].to # r /\ wire'[i].to \in Requests
      OBVIOUS
    <3>1. i + 1 \in DOMAIN wire /\ wire'[i] = wire[i + 1] /\ i + 1 # 1 /\ 1 \in DOMAIN wire
      BY <2>1, OneLess
    <3>2. wire[i + 1] \in Messages
      BY <3>1 DEF Typed
    <3> QED  BY <2>2, <3>1, <3>2, MessageIs DEF Queued
  <2>5. \A i \in DOMAIN inbox : inbox[i].request # r /\ inbox[i].request \in Requests
    BY <2>1, <2>2, OneLess, Asker DEF Queued
  <2> QED  BY <2>1, <2>3, <2>4, <2>5, OneLess DEF Queued
<1>8. ASSUME NEW r \in Requests, Lost(r) PROVE Queued'
  <2>1. inbox' = inbox /\ asked' = [asked EXCEPT ![r] = "no"] /\ asked[r] = "stale" /\ wire' = Closed(Replies(r))
    BY <1>8 DEF Lost, Ends, language
  <2>2. \A q \in Requests : q # r => asked'[q] = asked[q]
    BY <2>1 DEF Typed
  <2>3. \A i \in DOMAIN inbox : inbox[i].request # r /\ inbox[i].request \in Requests
    BY <2>1, Asker DEF Queued
  <2>4. \A i \in DOMAIN wire' : wire'[i].of = "reply" =>
             i \in DOMAIN wire /\ wire'[i] = wire[i] /\ wire[i].to # r /\ wire[i].to \in Requests
    <3> SUFFICES ASSUME NEW i \in DOMAIN wire', wire'[i].of = "reply"
                 PROVE  i \in DOMAIN wire /\ wire'[i] = wire[i] /\ wire[i].to # r /\ wire[i].to \in Requests
      OBVIOUS
    <3>1. i \in DOMAIN wire /\ wire'[i] = IF i \in Replies(r) THEN Dead ELSE wire[i]
      BY <2>1, ClosedIs DEF Typed
    <3>2. i \notin Replies(r)
      BY <3>1, DeadIs
    <3>3. wire[i] \in Messages
      BY <3>1 DEF Typed
    <3> QED  BY <3>1, <3>2, <3>3, MessageIs DEF Replies
  <2> QED  BY <2>1, <2>2, <2>3, <2>4 DEF Queued
<1>9. CASE Respawn
  <2>1. inbox' = <<>> /\ wire' = Closed(Pushes)
    BY <1>9 DEF Respawn
  <2>2. \A q \in Requests : asked[q] # "no" => asked'[q] # "no"
    BY <1>9 DEF Respawn, Typed
  <2>3. \A i \in DOMAIN wire' : wire'[i].of = "reply" => i \in DOMAIN wire /\ wire'[i] = wire[i] /\ wire[i].to \in Requests
    <3> SUFFICES ASSUME NEW i \in DOMAIN wire', wire'[i].of = "reply"
                 PROVE  i \in DOMAIN wire /\ wire'[i] = wire[i] /\ wire[i].to \in Requests
      OBVIOUS
    <3>1. i \in DOMAIN wire /\ wire'[i] = IF i \in Pushes THEN Dead ELSE wire[i]
      BY <2>1, ClosedIs DEF Typed
    <3>2. i \notin Pushes
      BY <3>1, DeadIs
    <3>3. wire[i] \in Messages
      BY <3>1 DEF Typed
    <3> QED  BY <3>1, <3>2, <3>3, MessageIs
  <2> QED  BY <2>1, <2>2, <2>3 DEF Queued
<1>10. ASSUME NEW r \in Requests, NEW ok \in BOOLEAN, ServeLate(r, ok) PROVE Queued'
  <2> DEFINE m == Reply(r, ok, 0)
  <2>1. wire' = Append(wire, m) /\ asked' = asked /\ inbox' = inbox /\ asked[r] = "stale" /\ Replies(r) = {}
    BY <1>10 DEF ServeLate, language
  <2>2. m \in Messages /\ m.of = "reply" /\ m.to = r
    BY ReplyIs
  <2> HIDE DEF m
  <2>3. \A i \in DOMAIN wire' : (i \in DOMAIN wire /\ wire'[i] = wire[i]) \/ (i = Len(wire) + 1 /\ wire'[i] = m)
    <3>1. wire' = Append(wire, m)
      BY <2>1
    <3>2. /\ \A i \in DOMAIN wire : wire'[i] = wire[i]
          /\ \A i \in DOMAIN wire' : i \in DOMAIN wire \/ (i = Len(wire) + 1 /\ wire'[i] = m)
      BY ONLY Typed, <2>2, <3>1, OneMore
    <3> QED  BY <3>2
  <2>4. \A i \in DOMAIN wire : wire[i].of = "reply" => wire[i].to # r
    BY <2>1 DEF Replies
  <2>5. \A i \in DOMAIN inbox : inbox[i].request # r
    BY <2>1 DEF Queued
  <2> QED  BY <2>1, <2>2, <2>3, <2>4, <2>5 DEF Queued
<1> QED  BY <1>1, <1>2, <1>3, <1>4, <1>5, <1>6, <1>7, <1>8, <1>9, <1>10, Steps

---------------------------------------------------------------------------
(* What holds as long as nothing is crossed.                               *)

\* At most one Run or Stop is under way, and a Stop forgets the app at once.
OneChange ==
  /\ \A r \in Changers : asked[r] # "stale"
  /\ \A r, q \in Changers : asked[r] # "no" /\ asked[q] # "no" => r = q
  /\ asked["stop"] # "no" => gAppName = None

\* What a reply on the wire says of the app still holds; behind the reply to a Stop
\* there is nothing that makes a widget, and behind that to a Run no other's click.
Answered ==
  \A i \in DOMAIN wire :
    /\ RunOk(wire[i]) => app = wire[i].to
    /\ wire[i].of = "reply" /\ wire[i].to = "stop" => app = None /\ \A j \in DOMAIN wire : j > i => Barren(wire[j])
    /\ ChangeReply(wire[i]) => \A j \in DOMAIN wire : j > i => ~EventOk(wire[j])

Agreed == ~Changing /\ gAppName # None => app = gAppName

\* A click in the inbox is ahead of the next Run or Stop.
Clicked ==
  \A i \in DOMAIN inbox : inbox[i].request = "event" =>
    /\ inbox[i].from # None /\ app \in {inbox[i].from, None} /\ gAppName \in {inbox[i].from, None}
    /\ \A j \in DOMAIN inbox : j < i => inbox[j].request \notin Changers
    /\ \A j \in DOMAIN wire : ~ChangeReply(wire[j])

\* What is kept is what is shown, or will be when the app is known to run.
Recorded ==
  \/ views = gAppSpec
  \/ gAppName = None /\ \A i \in DOMAIN wire : RunOk(wire[i]) => \E j \in DOMAIN wire : j < i /\ Clears(wire[j])

Empty ==
  ~amiss /\ gAppName = None /\ ~Changing => app = None /\ views = Blank /\ \A i \in DOMAIN wire : Barren(wire[i])

Steady == OneChange /\ Answered /\ Agreed /\ Clicked /\ Recorded /\ Empty

LEMMA AtRest ==
  ASSUME Typed, Queued, ~Changing
  PROVE  /\ \A i \in DOMAIN wire : ~ChangeReply(wire[i]) /\ ~RunOk(wire[i])
         /\ \A i \in DOMAIN inbox : inbox[i].request \notin Changers
         /\ \A r \in Changers : asked[r] = "no"
<1>1. \A r \in Changers : asked[r] = "no"
  BY DEF Changing, Changers
<1> QED  BY <1>1 DEF Queued, ChangeReply, RunOk, Changers

\* A dead message does nothing; a reply has no effect on the widgets.
LEMMA DeadDoesNothing ==
  /\ ~RunOk(Dead) /\ ~ChangeReply(Dead) /\ Barren(Dead) /\ ~Clears(Dead) /\ ~EventOk(Dead) /\ ~EventOk(Dead)'
  BY DEF Dead, RunOk, ChangeReply, Barren, Clears, EventOk

LEMMA ReplyIsBarren ==
  ASSUME NEW m, m.of # "push"
  PROVE  Barren(m) /\ ~Clears(m)
  BY DEF Barren, Clears

LEMMA SteadyServe ==
  ASSUME Typed, Queued, Steady, NEW r, NEW t, Answers(r, t)
  PROVE  Steady'
<1> DEFINE n == Len(wire')
<1>1. /\ n \in DOMAIN wire' /\ n \notin DOMAIN wire /\ n \in Nat
      /\ \A i \in DOMAIN wire : i \in Nat /\ i < n /\ i \in DOMAIN wire' /\ wire'[i] = wire[i]
      /\ \A i \in DOMAIN wire' : i \in DOMAIN wire \/ i = n \/ (wire'[i].of = "push" /\ i \in Nat)
      /\ wire'[n] = t[Len(t)] /\ wire'[n].of = "reply" /\ wire'[n].to = r
      /\ RunOk(wire'[n]) => n - 1 \in DOMAIN wire' /\ Clears(wire'[n - 1])
      /\ \A i \in DOMAIN wire', j \in DOMAIN wire : i \notin DOMAIN wire => j < i
      /\ \A i \in DOMAIN wire' : i <= n
      /\ Len(t) = 1 => \A i \in DOMAIN wire' : i \in DOMAIN wire \/ i = n
  BY AnswerWire
<1> HIDE DEF n
<1>2. /\ asked' = asked /\ gAppName' = gAppName /\ views' = views /\ gAppSpec' = gAppSpec /\ amiss' = amiss
      /\ r \notin Changers => app' = app /\ (app = None => Len(t) = 1)
      /\ RunOk(wire'[n]) => app' = r
      /\ r = "stop" => app' = None
  BY <1>1 DEF Answers, UiSame
<1>3. asked[r] = "sent" /\ r \in Requests /\ inbox[1].request = r /\ 1 \in DOMAIN inbox
  BY OneServed DEF Queued
<1>4. r \in Changers => Changing /\ \A i \in DOMAIN wire : ~ChangeReply(wire[i])
  <2> SUFFICES ASSUME r \in Changers PROVE Changing /\ \A i \in DOMAIN wire : ~ChangeReply(wire[i])
    OBVIOUS
  <2>1. Changing
    BY <1>3 DEF Changing, Changers
  <2>2. ASSUME NEW i \in DOMAIN wire, ChangeReply(wire[i]) PROVE FALSE
    BY <1>3, <2>2 DEF ChangeReply, Queued, Steady, OneChange
  <2> QED  BY <2>1, <2>2
<1>5. Changing' <=> Changing
  BY <1>2 DEF Changing
<1>6. OneChange'
  BY <1>2 DEF Steady, OneChange
<1>7. Answered'
  <2> SUFFICES ASSUME NEW i \in DOMAIN wire'
               PROVE  /\ RunOk(wire'[i]) => app' = wire'[i].to
                      /\ wire'[i].of = "reply" /\ wire'[i].to = "stop"
                           => app' = None /\ \A j \in DOMAIN wire' : j > i => Barren(wire'[j])
                      /\ ChangeReply(wire'[i]) => \A j \in DOMAIN wire' : j > i => ~EventOk(wire[j])'
    BY DEF Answered
  <2>1. CASE i = n
    <3>1. \A j \in DOMAIN wire' : ~(j > n)
      BY <1>1
    <3> QED  BY <1>1, <1>2, <2>1, <3>1
  <2>2. CASE i \in DOMAIN wire
    <3>1. CASE ~ChangeReply(wire[i])
      BY <1>1, <2>2, <3>1, Names DEF ChangeReply, RunOk, Changers
    <3>2. CASE ChangeReply(wire[i])
      <4>1. r \notin Changers /\ app' = app
        BY <1>2, <1>4, <2>2, <3>2
      <4>2. r # "event"
        BY <1>3, <2>2, <3>2 DEF Steady, Clicked
      <4>3. RunOk(wire'[i]) => app' = wire'[i].to
        BY <1>1, <2>2, <4>1 DEF Steady, Answered
      <4>4. wire'[i].of = "reply" /\ wire'[i].to = "stop" => app' = None /\ \A j \in DOMAIN wire' : j > i => Barren(wire'[j])
        <5> SUFFICES ASSUME wire[i].of = "reply", wire[i].to = "stop"
                     PROVE  app = None /\ \A j \in DOMAIN wire' : j > i => Barren(wire'[j])
          BY <1>1, <2>2, <4>1
        <5>1. app = None /\ \A j \in DOMAIN wire : j > i => Barren(wire[j])
          BY <2>2 DEF Steady, Answered
        <5>2. Len(t) = 1 /\ Barren(wire'[n])
          BY <1>1, <1>2, <4>1, <5>1, ReplyIsBarren
        <5> QED  BY <1>1, <5>1, <5>2
      <4>5. \A j \in DOMAIN wire' : j > i => ~EventOk(wire[j])'
        <5> SUFFICES ASSUME NEW j \in DOMAIN wire', j > i PROVE ~EventOk(wire[j])'
          OBVIOUS
        <5>1. CASE j \in DOMAIN wire
          <6>1. ~EventOk(wire[j])
            BY <2>2, <3>2, <5>1 DEF Steady, Answered
          <6> QED  BY <1>1, <1>2, <5>1, <6>1 DEF EventOk
        <5>2. CASE j \notin DOMAIN wire
          BY <1>1, <4>2, <5>2 DEF EventOk
        <5> QED  BY <5>1, <5>2
      <4> QED  BY <4>3, <4>4, <4>5
    <3> QED  BY <3>1, <3>2
  <2>3. CASE i \notin DOMAIN wire /\ i # n
    BY <1>1, <2>3 DEF RunOk, ChangeReply
  <2> QED  BY <2>1, <2>2, <2>3
<1>8. Agreed'
  BY <1>2, <1>4, <1>5 DEF Steady, Agreed
<1>9. Clicked'
  <2> SUFFICES ASSUME NEW i \in DOMAIN inbox', inbox'[i].request = "event"
               PROVE  /\ inbox'[i].from # None /\ app' \in {inbox'[i].from, None} /\ gAppName' \in {inbox'[i].from, None}
                      /\ \A j \in DOMAIN inbox' : j < i => inbox'[j].request \notin Changers
                      /\ \A j \in DOMAIN wire' : ~ChangeReply(wire'[j])
    BY DEF Clicked
  <2>1. /\ i \in Nat /\ i >= 1 /\ i + 1 \in DOMAIN inbox /\ inbox'[i] = inbox[i + 1]
        /\ \A j \in DOMAIN inbox' : j \in Nat /\ j + 1 \in DOMAIN inbox /\ inbox'[j] = inbox[j + 1]
    BY OneServed
  <2>2. /\ inbox[i + 1].from # None /\ app \in {inbox[i + 1].from, None} /\ gAppName \in {inbox[i + 1].from, None}
        /\ \A j \in DOMAIN inbox : j < i + 1 => inbox[j].request \notin Changers
        /\ \A j \in DOMAIN wire : ~ChangeReply(wire[j])
    BY <2>1 DEF Steady, Clicked
  <2>3. r \notin Changers
    BY <1>3, <2>1, <2>2
  <2>4. \A j \in DOMAIN wire' : ~ChangeReply(wire'[j])
    BY <1>1, <2>2, <2>3 DEF ChangeReply
  <2>5. \A j \in DOMAIN inbox' : j < i => inbox'[j].request \notin Changers
    BY <2>1, <2>2
  <2> QED  BY <1>2, <2>1, <2>2, <2>3, <2>4, <2>5
<1>10. Recorded'
  <2>1. CASE views = gAppSpec
    BY <1>2, <2>1 DEF Recorded
  <2>2. CASE gAppName = None /\ \A i \in DOMAIN wire : RunOk(wire[i]) => \E j \in DOMAIN wire : j < i /\ Clears(wire[j])
    <3>1. ASSUME NEW i \in DOMAIN wire', RunOk(wire'[i]) PROVE \E j \in DOMAIN wire' : j < i /\ Clears(wire'[j])
      <4>1. CASE i \in DOMAIN wire
        BY <1>1, <2>2, <3>1, <4>1
      <4>2. CASE i = n
        <5>1. n - 1 < n
          BY <1>1
        <5> QED  BY <1>1, <3>1, <4>2, <5>1
      <4> QED  BY <1>1, <3>1, <4>1, <4>2 DEF RunOk
    <3> QED  BY <1>2, <2>2, <3>1 DEF Recorded
  <2> QED  BY <2>1, <2>2 DEF Steady, Recorded
<1>11. Empty'
  <2> SUFFICES ASSUME ~amiss, gAppName = None, ~Changing
               PROVE  app' = None /\ views = Blank /\ \A i \in DOMAIN wire' : Barren(wire'[i])
    BY <1>2, <1>5 DEF Empty
  <2>1. app = None /\ views = Blank /\ \A i \in DOMAIN wire : Barren(wire[i])
    BY DEF Steady, Empty
  <2>2. app' = app /\ Len(t) = 1 /\ Barren(wire'[n])
    BY <1>1, <1>2, <1>4, <2>1, ReplyIsBarren
  <2> QED  BY <1>1, <2>1, <2>2
<1> QED  BY <1>6, <1>7, <1>8, <1>9, <1>10, <1>11 DEF Steady

\* A message that is no changer's reply comes behind the others.
LEMMA SteadyOneMore ==
  ASSUME Typed, Queued, Steady, NEW m \in Messages, wire' = wire \o <<m>> \/ wire' = Append(wire, m),
         Barren(m), ~ChangeReply(m), ~RunOk(m), ~EventOk(m),
         UNCHANGED <<inbox, app, asked, gAppName, views, gAppSpec, amiss>>
  PROVE  Steady'
<1> DEFINE n == Len(wire) + 1
<1>1. /\ n \in DOMAIN wire' /\ wire'[n] = m /\ n \notin DOMAIN wire
      /\ \A i \in DOMAIN wire : i < n /\ i \in DOMAIN wire' /\ wire'[i] = wire[i]
      /\ \A i \in DOMAIN wire' : i \in DOMAIN wire \/ i = n
      /\ \A i, j \in DOMAIN wire' : j \in DOMAIN wire \/ (j = n /\ (j > i => i \in DOMAIN wire))
  BY OneMore
<1> HIDE DEF n
<1>2. OneChange' /\ Agreed'
  BY DEF Steady, OneChange, Agreed, Changing
<1>3. Answered'
  <2> SUFFICES ASSUME NEW i \in DOMAIN wire'
               PROVE  /\ RunOk(wire'[i]) => app' = wire'[i].to
                      /\ wire'[i].of = "reply" /\ wire'[i].to = "stop"
                           => app' = None /\ \A j \in DOMAIN wire' : j > i => Barren(wire'[j])
                      /\ ChangeReply(wire'[i]) => \A j \in DOMAIN wire' : j > i => ~EventOk(wire[j])'
    BY DEF Answered
  <2>1. CASE i = n
    BY <1>1, <2>1 DEF ChangeReply, RunOk, Changers
  <2>2. CASE i \in DOMAIN wire
    BY <1>1, <2>2 DEF Steady, Answered, EventOk
  <2> QED  BY <1>1, <2>1, <2>2
<1>4. Clicked'
  BY <1>1 DEF Steady, Clicked
<1>5. Recorded'
  BY <1>1 DEF Steady, Recorded
<1>6. Empty'
  BY <1>1 DEF Steady, Empty, Changing
<1> QED  BY <1>2, <1>3, <1>4, <1>5, <1>6 DEF Steady

LEMMA SteadyTick ==
  ASSUME Typed, Queued, Steady, NEW m, Ticks(m)
  PROVE  Steady'
<1>1. m \in Messages /\ ~ChangeReply(m) /\ ~RunOk(m) /\ ~EventOk(m) /\ Barren(m)
  BY DEF Ticks, ChangeReply, RunOk, EventOk
<1> QED  BY <1>1, SteadyOneMore DEF Ticks, UiSame

LEMMA SteadyLate ==
  ASSUME Typed, Queued, Steady, NEW r \in Requests, NEW ok \in BOOLEAN, ServeLate(r, ok)
  PROVE  Steady'
<1> DEFINE m == Reply(r, ok, 0)
<1>1. m \in Messages /\ m.of = "reply" /\ m.to = r
  BY ReplyIs
<1>2. asked[r] = "stale" /\ wire' = Append(wire, m) /\ UNCHANGED <<inbox, app, asked, gAppName, views, gAppSpec, amiss>>
  BY DEF ServeLate, language, window, marks
<1> HIDE DEF m
<1>3. r \notin Changers
  BY <1>2 DEF Steady, OneChange
<1>4. Barren(m) /\ ~ChangeReply(m) /\ ~RunOk(m) /\ ~EventOk(m)
  BY <1>1, <1>2, <1>3 DEF Barren, ChangeReply, RunOk, EventOk, Changers
<1> QED  BY <1>1, <1>2, <1>4, SteadyOneMore

LEMMA SteadyAsk ==
  ASSUME Typed, Queued, Steady, NEW r, Asks(r), ~crossed'
  PROVE  Steady'
<1>1. /\ r \in Requests /\ asked[r] = "no" /\ asked'[r] = "sent" /\ \A q \in Requests : q # r => asked'[q] = asked[q]
      /\ gAppName' = (IF r = "stop" THEN None ELSE gAppName) /\ (r \notin Apps => gAppName # None)
      /\ r # "build" => ~Changing
      /\ UNCHANGED <<app, wire, views, gAppSpec, amiss>>
  BY DEF Asks, Typed
<1>2. "build" \notin Changers /\ "event" \notin Changers /\ Changers \subseteq Requests /\ "event" \notin Apps
      /\ "stop" \in Changers /\ "build" \notin Apps /\ "event" \in Requests
  BY Names DEF Changers, Requests
<1>3. r # "build" => \A q \in Changers : asked[q] = "no"
  BY <1>1, AtRest
<1>4. r # "build" => \A i \in DOMAIN wire : ~ChangeReply(wire[i]) /\ ~RunOk(wire[i])
  BY <1>1, AtRest
<1>5. OneChange'
  <2>1. CASE r = "build"
    BY <1>1, <1>2, <2>1 DEF Steady, OneChange
  <2>2. CASE r # "build"
    BY <1>1, <1>2, <1>3, <2>2 DEF OneChange
  <2> QED  BY <2>1, <2>2
<1>6. Answered'
  <2>1. CASE r = "build"
    <3>1. asked'["event"] = asked["event"]
      BY <1>1, <1>2, <2>1
    <3> QED  BY <1>1, <3>1 DEF Steady, Answered, EventOk
  <2>2. CASE r # "build"
    BY <1>1, <1>2, <1>4, <2>2 DEF Answered, ChangeReply, Changers
  <2> QED  BY <2>1, <2>2
<1>7. IF r \in Changers THEN Changing' ELSE Changing' <=> Changing
  <2>1. CASE r \in Changers
    BY <1>1, <2>1 DEF Changing, Changers
  <2>2. CASE r \notin Changers
    BY <1>1, <1>2, <2>2 DEF Changing, Changers
  <2> QED  BY <2>1, <2>2
<1>8. Agreed'
  BY <1>1, <1>2, <1>7 DEF Steady, Agreed
<1>9. Clicked'
  <2> SUFFICES ASSUME NEW i \in DOMAIN inbox', inbox'[i].request = "event"
               PROVE  /\ inbox'[i].from # None /\ app' \in {inbox'[i].from, None} /\ gAppName' \in {inbox'[i].from, None}
                      /\ \A j \in DOMAIN inbox' : j < i => inbox'[j].request \notin Changers
                      /\ \A j \in DOMAIN wire' : ~ChangeReply(wire'[j])
    BY DEF Clicked
  <2>0. /\ DOMAIN inbox = 1 .. Len(inbox) /\ Len(inbox) \in Nat
        /\ \A j \in DOMAIN inbox : j \in DOMAIN inbox' /\ inbox'[j] = inbox[j]
        /\ \A j \in DOMAIN inbox' :
              j \in DOMAIN inbox \/ (j = Len(inbox) + 1 /\ inbox'[j] = [request |-> r, from |-> gAppName])
    BY OneAsked
  <2>1. CASE i \in DOMAIN inbox
    <3>1. \A j \in DOMAIN inbox' : j < i => j \in DOMAIN inbox
      BY <2>0, <2>1
    <3> QED  BY <1>1, <2>0, <2>1, <3>1 DEF Steady, Clicked
  <2>2. CASE i = Len(inbox) + 1 /\ inbox'[i] = [request |-> r, from |-> gAppName]
    <3>1. r = "event" /\ gAppName # None /\ gAppName' = gAppName /\ app = gAppName /\ inbox'[i].from = gAppName
      BY <1>1, <1>2, <2>2 DEF Steady, Agreed
    <3>2. \A j \in DOMAIN inbox' : j < i => inbox'[j].request \notin Changers
      <4>1. \A j \in DOMAIN inbox : inbox[j].request \notin Changers
        BY <1>1, <3>1, AtRest
      <4> QED  BY <2>0, <2>2, <4>1
    <3>3. \A j \in DOMAIN wire' : ~ChangeReply(wire'[j])
      BY <1>1, <1>4, <3>1
    <3> QED  BY <1>1, <3>1, <3>2, <3>3
  <2> QED  BY <2>0, <2>1, <2>2
<1>10. Recorded'
  BY <1>1 DEF Steady, Recorded
<1>11. Empty'
  BY <1>1, <1>2, <1>7 DEF Steady, Empty
<1> QED  BY <1>5, <1>6, <1>8, <1>9, <1>10, <1>11 DEF Steady

LEMMA SteadyRefused ==
  ASSUME Typed, Steady, NEW r, Refused(r)
  PROVE  Steady'
<1>1. /\ UNCHANGED <<app, inbox, wire, asked>> /\ (gAppName' = None \/ gAppName' = gAppName)
      /\ IF r \in Changers THEN amiss' ELSE amiss' = amiss /\ gAppName' = gAppName
      /\ (views' = views /\ gAppSpec' = gAppSpec) \/ (r = "stop" /\ views' = gAppSpec')
      /\ "stop" \in Changers
  BY DEF Refused, ClearViews, Changers
<1>2. OneChange' /\ Agreed'
  BY <1>1 DEF Steady, OneChange, Agreed, Changing
<1>3. Answered' /\ Clicked'
  BY <1>1 DEF Steady, Answered, EventOk, Clicked
<1>4. Recorded'
  BY <1>1 DEF Steady, Recorded
<1>5. Empty'
  BY <1>1 DEF Steady, Empty, Changing
<1> QED  BY <1>2, <1>3, <1>4, <1>5 DEF Steady

LEMMA SteadyRebuildUi ==
  ASSUME Typed, Queued, Steady, RebuildUi, ~crossed'
  PROVE  Steady'
<1>1. /\ UNCHANGED <<app, inbox, wire, asked, gAppName, gAppSpec, amiss>>
      /\ views' = (IF gAppName = None THEN Blank ELSE gAppSpec) /\ ~Changing
  BY DEF RebuildUi, Act, language
<1>2. OneChange' /\ Agreed'
  BY <1>1 DEF Steady, OneChange, Agreed, Changing
<1>3. Answered' /\ Clicked'
  BY <1>1 DEF Steady, Answered, EventOk, Clicked
<1>4. Recorded'
  BY <1>1, AtRest DEF Recorded
<1>5. Empty'
  BY <1>1 DEF Steady, Empty, Changing
<1> QED  BY <1>2, <1>3, <1>4, <1>5 DEF Steady

LEMMA SteadyStays ==
  ASSUME Steady, Stays
  PROVE  Steady'
<1> USE DEF Stays
<1>1. OneChange' /\ Agreed'
  BY DEF Steady, OneChange, Agreed, Changing
<1>2. Answered' /\ Clicked'
  BY DEF Steady, Answered, EventOk, Clicked
<1>3. Recorded' /\ Empty'
  BY DEF Steady, Recorded, Empty, Changing
<1> QED  BY <1>1, <1>2, <1>3 DEF Steady

\* What the commands of a push make of the views.
LEMMA AppliedOne ==
  ASSUME NEW x, NEW c
  PROVE  ApplyAll(x, <<c>>) = Apply(x, c)
<1> DEFINE q == <<c>>
           F(f) == f = [n \in 0 .. Len(q) |-> IF n = 0 THEN x ELSE Apply(f[n - 1], q[n])]
           g == [n \in 0 .. 1 |-> IF n = 0 THEN x ELSE Apply(x, c)]
           h == CHOOSE f : F(f)
<1>1. Len(q) = 1 /\ q[1] = c
  OBVIOUS
<1>2. ApplyAll(x, q) = h[Len(q)]
  BY DEF ApplyAll
<1> HIDE DEF q
<1>3. F(g)
  <2>1. \A n \in 0 .. 1 : g[n] = IF n = 0 THEN x ELSE Apply(g[n - 1], q[n])
    <3>1. g[0] = x /\ g[1] = Apply(x, c) /\ 1 - 1 = 0
      OBVIOUS
    <3>2. \A n \in 0 .. 1 : n = 0 \/ n = 1
      OBVIOUS
    <3> HIDE DEF g
    <3> QED  BY <1>1, <3>1, <3>2
  <2>2. \A n \in 0 .. 1 : g[n] = IF n = 0 THEN x ELSE Apply(x, c)
    OBVIOUS
  <2>3. g = [n \in 0 .. 1 |-> g[n]]
    OBVIOUS
  <2> HIDE DEF g
  <2>4. [n \in 0 .. 1 |-> g[n]] = [n \in 0 .. 1 |-> IF n = 0 THEN x ELSE Apply(g[n - 1], q[n])]
    BY <2>1
  <2> QED  BY <1>1, <2>3, <2>4
<1>4. F(h)
  <2> HIDE DEF g, F
  <2> QED  BY <1>3
<1> HIDE DEF h
<1>5. h[0] = x /\ h[1] = Apply(h[0], q[1])
  BY <1>1, <1>4
<1> QED  BY <1>1, <1>2, <1>5 DEF q

LEMMA AppliedTwo ==
  ASSUME NEW x, NEW c, NEW d
  PROVE  ApplyAll(x, <<c, d>>) = Apply(Apply(x, c), d)
<1> DEFINE q == <<c, d>>
           F(f) == f = [n \in 0 .. Len(q) |-> IF n = 0 THEN x ELSE Apply(f[n - 1], q[n])]
           g == [n \in 0 .. 2 |-> IF n = 0 THEN x ELSE IF n = 1 THEN Apply(x, c) ELSE Apply(Apply(x, c), d)]
           h == CHOOSE f : F(f)
<1>1. Len(q) = 2 /\ q[1] = c /\ q[2] = d
  OBVIOUS
<1>2. ApplyAll(x, q) = h[Len(q)]
  BY DEF ApplyAll
<1> HIDE DEF q
<1>3. F(g)
  <2>1. \A n \in 0 .. 2 : g[n] = IF n = 0 THEN x ELSE Apply(g[n - 1], q[n])
    <3>1. g[0] = x /\ g[1] = Apply(x, c) /\ g[2] = Apply(Apply(x, c), d) /\ 1 - 1 = 0 /\ 2 - 1 = 1
      OBVIOUS
    <3>2. \A n \in 0 .. 2 : n = 0 \/ n = 1 \/ n = 2
      OBVIOUS
    <3> HIDE DEF g
    <3> QED  BY <1>1, <3>1, <3>2
  <2>3. g = [n \in 0 .. 2 |-> g[n]]
    OBVIOUS
  <2> HIDE DEF g
  <2>4. [n \in 0 .. 2 |-> g[n]] = [n \in 0 .. 2 |-> IF n = 0 THEN x ELSE Apply(g[n - 1], q[n])]
    BY <2>1
  <2> QED  BY <1>1, <2>3, <2>4
<1>4. F(h)
  <2> HIDE DEF g, F
  <2> QED  BY <1>3
<1> HIDE DEF h
<1>5. h[0] = x /\ h[1] = Apply(h[0], q[1]) /\ h[2] = Apply(h[1], q[2])
  BY <1>1, <1>4
<1> QED  BY <1>1, <1>2, <1>5 DEF q

LEMMA AppliedIs ==
  ASSUME NEW x, NEW v
  PROVE  /\ ApplyAll(x, <<Clear>>) = Blank /\ ApplyAll(x, <<Clear, Add(v)>>) = v
         /\ ApplyAll(x, <<Set(v)>>) = (IF x = Blank THEN Blank ELSE v)
         /\ Apply(x, Set(v)) = (IF x = Blank THEN Blank ELSE v)
<1>1. \A y : Apply(y, Clear) = Blank
  BY DEF Apply, Clear
<1>2. \A y : Apply(y, Add(v)) = v
  BY DEF Apply, Add
<1>3. \A y : Apply(y, Set(v)) = IF y = Blank THEN Blank ELSE v
  BY DEF Apply, Set
<1>4. ApplyAll(x, <<Clear, Add(v)>>) = Apply(Apply(x, Clear), Add(v))
  BY AppliedTwo
<1>5. ApplyAll(x, <<Clear>>) = Apply(x, Clear) /\ ApplyAll(x, <<Set(v)>>) = Apply(x, Set(v))
  BY AppliedOne
<1> QED  BY <1>1, <1>2, <1>3, <1>4, <1>5

\* The message at the head is taken: what is said of the rest stays true.
LEMMA RestIs ==
  ASSUME Typed, Steady, wire # <<>>, wire' = Tail(wire), app' = app, asked'["event"] \in {asked["event"], "no"}
  PROVE  Answered' /\ \A i \in DOMAIN wire' : i + 1 \in DOMAIN wire /\ wire'[i] = wire[i + 1]
<1>1. /\ \A i \in DOMAIN wire' : i \in Nat /\ i + 1 \in DOMAIN wire /\ wire'[i] = wire[i + 1]
  BY OneLess
<1> SUFFICES ASSUME NEW i \in DOMAIN wire'
             PROVE  /\ RunOk(wire'[i]) => app' = wire'[i].to
                    /\ wire'[i].of = "reply" /\ wire'[i].to = "stop"
                         => app' = None /\ \A j \in DOMAIN wire' : j > i => Barren(wire'[j])
                    /\ ChangeReply(wire'[i]) => \A j \in DOMAIN wire' : j > i => ~EventOk(wire[j])'
  BY <1>1 DEF Answered
<1>2. i \in Nat /\ i + 1 \in DOMAIN wire /\ wire'[i] = wire[i + 1]
  BY <1>1
<1>3. \A j \in DOMAIN wire' : j > i => j + 1 \in DOMAIN wire /\ j + 1 > i + 1 /\ wire'[j] = wire[j + 1]
  BY <1>1
<1>4. \A m : m.of = "reply" /\ m.to = "event" /\ m.ok /\ asked'["event"] = "sent" => EventOk(m)
  BY DEF EventOk
<1>5. ASSUME NEW j \in DOMAIN wire', j > i, EventOk(wire[j])' PROVE EventOk(wire[j + 1])
  BY <1>3, <1>4, <1>5 DEF EventOk
<1> QED  BY <1>2, <1>3, <1>5 DEF Steady, Answered

LEMMA SteadyTakePush ==
  ASSUME Typed, Queued, Steady, TakePush
  PROVE  Steady'
<1>1. /\ wire # <<>> /\ wire' = Tail(wire) /\ wire[1].of = "push" /\ wire[1] \in Messages /\ 1 \in DOMAIN wire
      /\ views' = ApplyAll(views, wire[1].cmds) /\ gAppSpec' = ApplyAll(gAppSpec, wire[1].cmds)
      /\ UNCHANGED <<app, inbox, asked, gAppName, amiss>>
  BY OneLess DEF TakePush, language, marks
<1>2. \A i \in DOMAIN wire' : i \in Nat /\ i >= 1 /\ i + 1 \in DOMAIN wire /\ wire'[i] = wire[i + 1]
  BY <1>1, OneLess
<1>3. Answered'
  BY <1>1, RestIs
<1>4. OneChange' /\ Agreed' /\ Clicked'
  BY <1>1, <1>2 DEF Steady, OneChange, Agreed, Clicked, Changing
<1>5. Recorded'
  <2>1. CASE Clears(wire[1])
    <3>1. views' = gAppSpec'
      <4>1. CASE wire[1].cmds = <<Clear>>
        BY <1>1, <4>1, AppliedIs
      <4>2. ASSUME NEW v \in Widget, wire[1].cmds = <<Clear, Add(v)>> PROVE views' = gAppSpec'
        <5>1. ApplyAll(views, <<Clear, Add(v)>>) = v /\ ApplyAll(gAppSpec, <<Clear, Add(v)>>) = v
          BY AppliedIs
        <5> QED  BY <1>1, <4>2, <5>1
      <4> QED  BY <2>1, <4>1, <4>2 DEF Clears
    <3> QED  BY <3>1 DEF Recorded
  <2>2. CASE ~Clears(wire[1])
    <3>1. CASE views = gAppSpec
      BY <1>1, <3>1 DEF Recorded
    <3>2. CASE gAppName = None /\ \A i \in DOMAIN wire : RunOk(wire[i]) => \E j \in DOMAIN wire : j < i /\ Clears(wire[j])
      <4>1. ASSUME NEW i \in DOMAIN wire', RunOk(wire'[i]) PROVE \E j \in DOMAIN wire' : j < i /\ Clears(wire'[j])
        <5>1. PICK j \in DOMAIN wire : j < i + 1 /\ Clears(wire[j])
          BY <1>2, <3>2, <4>1
        <5>2. j # 1
          BY <2>2, <5>1
        <5>3. j - 1 \in DOMAIN wire' /\ j - 1 < i /\ (j - 1) + 1 = j
          BY <1>1, <1>2, <5>1, <5>2, OneLess
        <5> QED  BY <1>2, <5>1, <5>3
      <4> QED  BY <1>1, <3>2, <4>1 DEF Recorded
    <3> QED  BY <3>1, <3>2 DEF Steady, Recorded
  <2> QED  BY <2>1, <2>2
<1>6. Empty'
  <2> SUFFICES ASSUME ~amiss, gAppName = None, ~Changing
               PROVE  app = None /\ views' = Blank /\ \A i \in DOMAIN wire' : Barren(wire'[i])
    BY <1>1 DEF Empty, Changing
  <2>1. app = None /\ views = Blank /\ \A i \in DOMAIN wire : Barren(wire[i])
    BY DEF Steady, Empty
  <2>2. views' = Blank
    <3>1. CASE wire[1].cmds = <<Clear>>
      BY <1>1, <3>1, AppliedIs
    <3>2. ASSUME NEW v \in Widget, wire[1].cmds = <<Set(v)>> PROVE views' = Blank
      <4>1. ApplyAll(Blank, <<Set(v)>>) = Blank
        BY AppliedIs
      <4> QED  BY <1>1, <2>1, <3>2, <4>1
    <3> QED  BY <1>1, <2>1, <3>1, <3>2 DEF Barren
  <2> QED  BY <1>2, <2>1, <2>2
<1> QED  BY <1>3, <1>4, <1>5, <1>6 DEF Steady

LEMMA SteadyTakeDead ==
  ASSUME Typed, Queued, Steady, TakeDead
  PROVE  Steady'
<1>1. /\ wire # <<>> /\ wire' = Tail(wire) /\ wire[1] = Dead /\ 1 \in DOMAIN wire
      /\ UNCHANGED <<app, inbox, asked, gAppName, amiss, views, gAppSpec>>
  BY OneLess DEF TakeDead, language, window, marks
<1>2. \A i \in DOMAIN wire' : i \in Nat /\ i >= 1 /\ i + 1 \in DOMAIN wire /\ wire'[i] = wire[i + 1]
  BY <1>1, OneLess
<1>3. Answered'
  BY <1>1, RestIs
<1>4. OneChange' /\ Agreed' /\ Clicked'
  BY <1>1, <1>2 DEF Steady, OneChange, Agreed, Clicked, Changing
<1>5. Recorded'
  <2>1. CASE views = gAppSpec
    BY <1>1, <2>1 DEF Recorded
  <2>2. CASE gAppName = None /\ \A i \in DOMAIN wire : RunOk(wire[i]) => \E j \in DOMAIN wire : j < i /\ Clears(wire[j])
    <3>1. ASSUME NEW i \in DOMAIN wire', RunOk(wire'[i]) PROVE \E j \in DOMAIN wire' : j < i /\ Clears(wire'[j])
      <4>1. PICK j \in DOMAIN wire : j < i + 1 /\ Clears(wire[j])
        BY <1>2, <2>2, <3>1
      <4>2. j # 1
        BY <1>1, <4>1, DeadDoesNothing
      <4>3. j - 1 \in DOMAIN wire' /\ j - 1 < i /\ (j - 1) + 1 = j
        BY <1>1, <1>2, <4>1, <4>2, OneLess
      <4> QED  BY <1>2, <4>1, <4>3
    <3> QED  BY <1>1, <2>2, <3>1 DEF Recorded
  <2> QED  BY <2>1, <2>2 DEF Steady, Recorded
<1>6. Empty'
  BY <1>1, <1>2 DEF Steady, Empty, Changing
<1> QED  BY <1>3, <1>4, <1>5, <1>6 DEF Steady

LEMMA SteadyTakeReply ==
  ASSUME Typed, Queued, Steady, TakeReply
  PROVE  Steady'
<1> DEFINE r == wire[1].to
           ok == wire[1].ok
<1>1. /\ wire # <<>> /\ wire' = Tail(wire) /\ wire[1].of = "reply" /\ wire[1] \in Messages /\ 1 \in DOMAIN wire
      /\ asked' = [asked EXCEPT ![r] = "no"]
      /\ gAppName' = (IF r \notin Apps THEN gAppName ELSE IF ok THEN r ELSE None)
      /\ amiss' = (IF r \notin Apps THEN amiss ELSE ~ok)
      /\ IF r = "stop" THEN views' = Blank /\ gAppSpec' = Blank ELSE views' = views /\ gAppSpec' = gAppSpec
      /\ app' = app /\ inbox' = inbox
  BY OneLess DEF TakeReply, Ends, ClearViews, language, window
<1>2. \A i \in DOMAIN wire' : i \in Nat /\ i >= 1 /\ i + 1 \in DOMAIN wire /\ i + 1 > 1 /\ wire'[i] = wire[i + 1]
  BY <1>1, OneLess
<1>3. /\ r \in Requests /\ ok \in BOOLEAN /\ asked'[r] = "no" /\ asked[r] # "no"
      /\ \A q \in Requests : q # r => asked'[q] = asked[q]
  BY <1>1, MessageIs DEF Typed, Queued
<1>4. /\ "event" \in Requests /\ "event" \notin Apps /\ "stop" \in Changers /\ "stop" \notin Apps
      /\ Changers \subseteq Requests /\ Apps \subseteq Changers
  BY Names DEF Requests, Changers
<1>5. /\ RunOk(wire[1]) <=> r \in Apps /\ ok
      /\ ChangeReply(wire[1]) <=> r \in Changers
      /\ Barren(wire[1]) /\ ~Clears(wire[1])
  BY <1>1, ReplyIsBarren DEF RunOk, ChangeReply
<1> HIDE DEF r, ok
<1>6. \A q \in Requests : asked'[q] # "no" => asked[q] # "no" /\ q # r /\ asked'[q] = asked[q]
  BY <1>3
<1>7. Answered'
  <2>1. asked'["event"] \in {asked["event"], "no"}
    BY <1>3, <1>4
  <2> QED  BY <1>1, <2>1, RestIs
<1>8. r \in Changers => \A q \in Changers : asked'[q] = "no"
  BY <1>3, <1>4, <1>6 DEF Steady, OneChange
<1>9. OneChange'
  <2>1. CASE r \in Changers
    BY <1>4, <1>8, <2>1 DEF OneChange
  <2>2. CASE r \notin Changers
    <3>1. gAppName' = gAppName /\ \A q \in Changers : asked'[q] = asked[q]
      BY <1>1, <1>3, <1>4, <2>2
    <3> QED  BY <1>4, <3>1 DEF Steady, OneChange
  <2> QED  BY <2>1, <2>2
<1>10. r \notin Changers => /\ Changing' <=> Changing
                          /\ gAppName' = gAppName /\ amiss' = amiss /\ views' = views /\ gAppSpec' = gAppSpec
  <2> SUFFICES ASSUME r \notin Changers PROVE (Changing' <=> Changing)
    BY <1>1, <1>4
  <2>1. \A q \in Changers : asked'[q] = asked[q]
    BY <1>3, <1>4
  <2> QED  BY <2>1 DEF Changing, Changers
<1>11. r = "stop" => /\ gAppName = None /\ gAppName' = None /\ amiss' = amiss /\ app = None
                    /\ \A i \in DOMAIN wire' : Barren(wire'[i])
  <2> SUFFICES ASSUME r = "stop" PROVE gAppName = None /\ app = None /\ \A i \in DOMAIN wire' : Barren(wire'[i])
    BY <1>1, <1>4
  <2>1. gAppName = None
    BY <1>3 DEF Steady, OneChange
  <2>2. app = None /\ \A j \in DOMAIN wire : j > 1 => Barren(wire[j])
    BY <1>1 DEF Steady, Answered, r
  <2> QED  BY <1>2, <2>1, <2>2
<1>12. Agreed'
  <2>1. CASE r \in Apps
    BY <1>1, <1>5, <2>1 DEF Steady, Answered, Agreed, r
  <2>2. CASE r = "stop"
    BY <1>11, <2>2 DEF Agreed
  <2>3. CASE r \notin Changers
    BY <1>1, <1>10, <2>3 DEF Steady, Agreed
  <2> QED  BY <2>1, <2>2, <2>3 DEF Changers
<1>13. Clicked'
  <2>1. CASE r \in Changers
    BY <1>1, <1>5, <2>1 DEF Steady, Clicked
  <2>2. CASE r \notin Changers
    BY <1>1, <1>2, <1>10, <2>2 DEF Steady, Clicked
  <2> QED  BY <2>1, <2>2
<1>14. Recorded'
  <2>1. CASE r = "stop"
    BY <1>1, <2>1 DEF Recorded
  <2>2. CASE r # "stop"
    <3>1. CASE views = gAppSpec
      BY <1>1, <2>2, <3>1 DEF Recorded
    <3>2. CASE gAppName = None /\ \A i \in DOMAIN wire : RunOk(wire[i]) => \E j \in DOMAIN wire : j < i /\ Clears(wire[j])
      <4>1. ~RunOk(wire[1])
        <5>1. \A j \in DOMAIN wire : ~(j < 1)
          BY <1>1, OneLess
        <5> QED  BY <1>1, <3>2, <5>1
      <4>2. gAppName' = None
        BY <1>1, <1>5, <3>2, <4>1
      <4>3. ASSUME NEW i \in DOMAIN wire', RunOk(wire'[i]) PROVE \E j \in DOMAIN wire' : j < i /\ Clears(wire'[j])
        <5>1. PICK j \in DOMAIN wire : j < i + 1 /\ Clears(wire[j])
          BY <1>2, <3>2, <4>3
        <5>2. j # 1
          BY <1>5, <5>1
        <5>3. j - 1 \in DOMAIN wire' /\ j - 1 < i /\ (j - 1) + 1 = j
          BY <1>1, <1>2, <5>1, <5>2, OneLess
        <5> QED  BY <1>2, <5>1, <5>3
      <4> QED  BY <4>2, <4>3 DEF Recorded
    <3> QED  BY <3>1, <3>2 DEF Steady, Recorded
  <2> QED  BY <2>1, <2>2
<1>15. Empty'
  <2>1. CASE r \in Apps
    <3>1. ok => gAppName' # None
      BY <1>1, <2>1, Names
    <3>2. ~ok => amiss'
      BY <1>1, <2>1
    <3> QED  BY <3>1, <3>2 DEF Empty
  <2>2. CASE r = "stop"
    BY <1>1, <1>11, <2>2 DEF Empty
  <2>3. CASE r \notin Changers
    BY <1>1, <1>2, <1>10, <2>3 DEF Steady, Empty
  <2> QED  BY <2>1, <2>2, <2>3 DEF Changers
<1> QED  BY <1>7, <1>9, <1>12, <1>13, <1>14, <1>15 DEF Steady

\* Some messages are lost: what is said of the others stays true.
LEMMA SomeDead ==
  ASSUME Typed, Steady, NEW ports, wire' = Closed(ports), app' = app \/ \A i \in DOMAIN wire : ~ChangeReply(wire[i]),
         asked'["event"] # "sent" \/ asked'["event"] = asked["event"]
  PROVE  /\ Answered'
         /\ DOMAIN wire' = DOMAIN wire
         /\ \A i \in DOMAIN wire : wire'[i] = Dead \/ (i \notin ports /\ wire'[i] = wire[i])
         /\ \A i \in DOMAIN wire : i \notin ports => wire'[i] = wire[i]
<1>1. /\ DOMAIN wire' = DOMAIN wire
      /\ \A i \in DOMAIN wire : wire'[i] = Dead \/ (i \notin ports /\ wire'[i] = wire[i])
      /\ \A i \in DOMAIN wire : i \notin ports => wire'[i] = wire[i]
  BY ClosedIs DEF Typed
<1> SUFFICES ASSUME NEW i \in DOMAIN wire'
             PROVE  /\ RunOk(wire'[i]) => app' = wire'[i].to
                    /\ wire'[i].of = "reply" /\ wire'[i].to = "stop"
                         => app' = None /\ \A j \in DOMAIN wire' : j > i => Barren(wire'[j])
                    /\ ChangeReply(wire'[i]) => \A j \in DOMAIN wire' : j > i => ~EventOk(wire[j])'
  BY <1>1 DEF Answered
<1>2. CASE wire'[i] = Dead
  BY <1>2, DeadDoesNothing, DeadIs
<1>3. CASE wire'[i] = wire[i]
  <2>1. CASE ~ChangeReply(wire[i])
    BY <1>3, <2>1 DEF ChangeReply, RunOk, Changers
  <2>2. CASE ChangeReply(wire[i])
    <3>1. app' = app
      BY <1>1, <2>2
    <3>2. ASSUME NEW j \in DOMAIN wire', j > i, EventOk(wire[j])' PROVE FALSE
      <4>1. j \in DOMAIN wire /\ ~EventOk(wire[j])
        BY <1>1, <2>2, <3>2 DEF Steady, Answered
      <4>2. wire'[j] = wire[j]
        BY <1>1, <3>2, <4>1, DeadIs DEF EventOk
      <4> QED  BY <3>2, <4>1, <4>2 DEF EventOk
    <3>3. wire[i].of = "reply" /\ wire[i].to = "stop" => \A j \in DOMAIN wire' : j > i => Barren(wire'[j])
      BY <1>1, DeadDoesNothing DEF Steady, Answered
    <3> QED  BY <1>1, <1>3, <3>1, <3>2, <3>3 DEF Steady, Answered
  <2> QED  BY <2>1, <2>2
<1> QED  BY <1>1, <1>2, <1>3

LEMMA SteadyLost ==
  ASSUME Typed, Queued, Steady, NEW r \in Requests, Lost(r)
  PROVE  Steady'
<1>1. /\ asked[r] = "stale" /\ wire' = Closed(Replies(r)) /\ asked' = [asked EXCEPT ![r] = "no"]
      /\ gAppName' = (IF r \notin Apps THEN gAppName ELSE None)
      /\ amiss' = (IF r \notin Apps THEN amiss ELSE TRUE)
      /\ r # "stop" => views' = views /\ gAppSpec' = gAppSpec
      /\ app' = app /\ inbox' = inbox
  BY DEF Lost, Ends, language, window
<1>2. r \notin Changers /\ r \notin Apps /\ r # "stop"
  BY <1>1 DEF Steady, OneChange, Changers
<1>3. "event" \in Requests /\ "stop" \in Changers /\ Changers \subseteq Requests
  BY Names DEF Requests, Changers
<1>4. asked'["event"] # "sent" \/ asked'["event"] = asked["event"]
  BY <1>1, <1>3 DEF Typed
<1>5. \A q \in Changers : asked'[q] = asked[q]
  BY <1>1, <1>2, <1>3 DEF Typed
<1>6. UNCHANGED <<app, inbox, gAppName, amiss, views, gAppSpec>>
  BY <1>1, <1>2
<1>7. /\ Answered'
      /\ DOMAIN wire' = DOMAIN wire
      /\ \A i \in DOMAIN wire : wire'[i] = Dead \/ (i \notin Replies(r) /\ wire'[i] = wire[i])
      /\ \A i \in DOMAIN wire : i \notin Replies(r) => wire'[i] = wire[i]
  BY <1>1, <1>4, SomeDead
<1>8. OneChange'
  BY <1>3, <1>5, <1>6 DEF Steady, OneChange
<1>9. Changing' <=> Changing
  BY <1>5 DEF Changing, Changers
<1>10. Agreed'
  BY <1>6, <1>9 DEF Steady, Agreed
<1>11. Clicked'
  BY <1>6, <1>7, DeadDoesNothing DEF Steady, Clicked
<1>12. Recorded'
  <2>1. CASE views = gAppSpec
    BY <1>6, <2>1 DEF Recorded
  <2>2. CASE gAppName = None /\ \A i \in DOMAIN wire : RunOk(wire[i]) => \E j \in DOMAIN wire : j < i /\ Clears(wire[j])
    <3>1. \A j \in DOMAIN wire : Clears(wire[j]) => Clears(wire'[j])
      <4>1. \A j \in DOMAIN wire : Clears(wire[j]) => j \notin Replies(r)
        BY DEF Clears, Replies
      <4> QED  BY <1>7, <4>1
    <3>2. ASSUME NEW i \in DOMAIN wire', RunOk(wire'[i]) PROVE \E j \in DOMAIN wire' : j < i /\ Clears(wire'[j])
      <4>1. i \in DOMAIN wire /\ RunOk(wire[i])
        BY <1>7, <3>2, DeadDoesNothing
      <4> QED  BY <1>7, <2>2, <3>1, <4>1
    <3> QED  BY <1>6, <2>2, <3>2 DEF Recorded
  <2> QED  BY <2>1, <2>2 DEF Steady, Recorded
<1>13. Empty'
  BY <1>6, <1>7, <1>9, DeadDoesNothing DEF Steady, Empty
<1> QED  BY <1>7, <1>8, <1>10, <1>11, <1>12, <1>13 DEF Steady

LEMMA SteadyRespawn ==
  ASSUME Typed, Queued, Steady, Respawn, ~crossed'
  PROVE  Steady'
<1>1. /\ ~Changing /\ wire' = Closed(Pushes) /\ inbox' = <<>> /\ app' = None /\ amiss' = amiss
      /\ asked' = [r \in Requests |-> IF asked[r] = "sent" THEN "stale" ELSE asked[r]]
      /\ gAppName' = None
      /\ gAppName = None => views' = views /\ gAppSpec' = gAppSpec
      /\ gAppName # None => views' = Blank /\ gAppSpec' = Blank
  BY DEF Respawn, Act, AppOnRespawn, ClearViews, window
<1>2. /\ \A i \in DOMAIN wire : ~ChangeReply(wire[i]) /\ ~RunOk(wire[i])
      /\ \A r \in Changers : asked[r] = "no"
  BY <1>1, AtRest
<1>3. "event" \in Requests /\ "stop" \in Changers /\ Changers \subseteq Requests
  BY Names DEF Requests, Changers
<1>4. asked'["event"] # "sent"
  BY <1>1, <1>3 DEF Typed
<1>5. /\ Answered'
      /\ DOMAIN wire' = DOMAIN wire
      /\ \A i \in DOMAIN wire : wire'[i] = Dead \/ (i \notin Pushes /\ wire'[i] = wire[i])
  BY <1>1, <1>2, <1>4, SomeDead
<1>6. OneChange'
  <2>1. \A r \in Changers : asked'[r] = "no"
    BY <1>1, <1>2, <1>3
  <2> QED  BY <1>3, <2>1 DEF OneChange
<1>7. Agreed' /\ Clicked'
  BY <1>1 DEF Agreed, Clicked
<1>8. Recorded'
  <2>1. \A i \in DOMAIN wire' : ~RunOk(wire'[i])
    BY <1>2, <1>5, DeadDoesNothing
  <2> QED  BY <1>1, <2>1 DEF Recorded
<1>9. Empty'
  <2> SUFFICES ASSUME ~amiss PROVE views' = Blank /\ \A i \in DOMAIN wire' : Barren(wire'[i])
    BY <1>1 DEF Empty
  <2>1. \A i \in DOMAIN wire' : Barren(wire'[i])
    BY <1>5, DeadDoesNothing DEF Pushes, Barren
  <2>2. views' = Blank
    BY <1>1 DEF Steady, Empty
  <2> QED  BY <2>1, <2>2
<1> QED  BY <1>5, <1>6, <1>7, <1>8, <1>9 DEF Steady

\* As long as nothing is crossed, all of this holds.
Calm == ~crossed => Steady

\* What is crossed stays so.
LEMMA StaysCrossed == ASSUME Typed, [Next]_vars, ~crossed' PROVE ~crossed
<1>1. CASE UNCHANGED vars
  BY <1>1 DEF vars, marks
<1>2. CASE Next
  <2>1. ASSUME NEW b, Act(b) PROVE ~crossed
    BY <2>1 DEF Act
  <2>2. CASE crossed' = crossed
    BY <2>2
  <2> QED  BY <1>2, <2>1, <2>2 DEF Next, Serve, ServeRunUnknown, ServeRunNotMade, ServeStop, ServeRun, ServeBuild,
             ServeEventIgnored, ServeEvent, Tick, TickOfStopped, AppRun, AppStop, AppRebuild, AppFire, RebuildUi,
             TakePush, TakeReply, TakeDead, Lost, Ends, Respawn, ServeLate, Handshake, Pause, Continue, UiUntouched, marks
<1> QED  BY <1>1, <1>2

LEMMA CalmStep == Typed /\ Queued /\ Calm /\ [Next]_vars => Calm'
<1> SUFFICES ASSUME Typed, Queued, Calm, [Next]_vars, ~crossed' PROVE Steady'
  BY DEF Calm
<1>1. Steady
  BY StaysCrossed DEF Calm
<1>2. ASSUME NEW r, NEW t, Answers(r, t) PROVE Steady'
  BY <1>1, <1>2, SteadyServe
<1>3. ASSUME NEW m, Ticks(m) PROVE Steady'
  BY <1>1, <1>3, SteadyTick
<1>4. ASSUME NEW r, Asks(r) PROVE Steady'
  BY <1>1, <1>4, SteadyAsk
<1>5. ASSUME NEW r, Refused(r) PROVE Steady'
  BY <1>1, <1>5, SteadyRefused
<1>6. CASE RebuildUi \/ TakePush \/ TakeReply \/ TakeDead \/ Respawn \/ Stays
  BY <1>1, <1>6, SteadyRebuildUi, SteadyTakePush, SteadyTakeReply, SteadyTakeDead, SteadyRespawn, SteadyStays
<1>7. ASSUME NEW r \in Requests, Lost(r) PROVE Steady'
  BY <1>1, <1>7, SteadyLost
<1>8. ASSUME NEW r \in Requests, NEW ok \in BOOLEAN, ServeLate(r, ok) PROVE Steady'
  BY <1>1, <1>8, SteadyLate
<1> QED  BY <1>2, <1>3, <1>4, <1>5, <1>6, <1>7, <1>8, Steps

---------------------------------------------------------------------------
(* What the window will show.                                              *)

\* Induction over the numbers, for a set of them: the least number outside it would
\* follow one inside.
LEMMA Induction ==
  ASSUME NEW T, T \subseteq Nat, 0 \in T, \A n \in T : n + 1 \in T
  PROVE  Nat \subseteq T
<1> DEFINE Out == Nat \ T
<1> SUFFICES ASSUME Out # {} PROVE FALSE
  OBVIOUS
<1>1. PICK x \in Out : \A y \in Out : ~(<<y, x>> \in OpToRel(<, Nat))
  <2>1. Out \subseteq Nat
    OBVIOUS
  <2> HIDE DEF Out
  <2> QED  BY <2>1, NatLessThanWellFounded, WFMin, Zenon
<1>2. x \in Nat /\ x # 0 /\ x - 1 \in Nat /\ x - 1 < x /\ (x - 1) + 1 = x
  OBVIOUS
<1>3. <<x - 1, x>> \in OpToRel(<, Nat)
  BY <1>2, Zenon DEF OpToRel
<1>4. x - 1 \in T
  BY <1>1, <1>2, <1>3, Zenon
<1> QED  BY <1>2, <1>4

\* What a view is when a message has arrived.
Take(x, m) == IF m.of = "push" THEN ApplyAll(x, m.cmds) ELSE x

\* f is what a view that is x goes through as the messages of w arrive.
Course(f, w, x) == f[0] = x /\ \A n \in 1 .. Len(w) : f[n] = Take(f[n - 1], w[n])

LEMMA CourseExists ==
  ASSUME NEW w, Len(w) \in Nat, NEW x
  PROVE  \E f : Course(f, w, x)
<1> DEFINE Part(f, k) == f[0] = x /\ \A n \in 1 .. k : f[n] = Take(f[n - 1], w[n])
           T == {k \in Nat : \E f : Part(f, k)}
<1>1. 0 \in T
  <2> DEFINE f == [n \in 0 .. 0 |-> x]
  <2>1. Part(f, 0)
    OBVIOUS
  <2> QED  BY <2>1
<1>2. ASSUME NEW k \in T PROVE k + 1 \in T
  <2>1. PICK f : Part(f, k)
    OBVIOUS
  <2> DEFINE g == [n \in 0 .. k + 1 |-> IF n = k + 1 THEN Take(f[k], w[k + 1]) ELSE f[n]]
  <2>2. g[0] = x /\ \A n \in 1 .. k + 1 : g[n] = Take(g[n - 1], w[n])
    BY <2>1
  <2>3. Part(g, k + 1)
    BY <2>2
  <2>4. k + 1 \in Nat
    OBVIOUS
  <2> HIDE DEF Part, g
  <2> QED  BY <2>3, <2>4
<1>3. Nat \subseteq T
  <2> HIDE DEF T
  <2>1. T \subseteq Nat
    BY DEF T
  <2> QED  BY <1>1, <1>2, <2>1, Induction
<1> QED  BY <1>3 DEF Course

\* When the reply to a click arrives, the window shows what the click did.
Leads(f, w) ==
  /\ Course(f, w, views)
  /\ gAppName # None => \A i \in 1 .. Len(w) : EventOk(w[i]) => f[i - 1] = [by |-> gAppName, version |-> w[i].version]

\* The UI knows the app that runs, or soon will.
Awaited == gAppName # None \/ \E i \in DOMAIN wire : RunOk(wire[i])

\* v is what app a describes, d, unless it was changed by a timer of those in l.
Shown(v, a, d, l) == a # None => (v = Blank <=> d = Blank) /\ (l = {} => v = d)

Outlook == \E f : Leads(f, wire) /\ (Awaited => Shown(f[Len(wire)], app, described, leftTicking))

LEMMA LeadsMore ==
  ASSUME NEW w \in Seq(Messages), NEW m \in Messages, NEW f, Leads(f, w),
         gAppName # None /\ EventOk(m) => f[Len(w)] = [by |-> gAppName, version |-> m.version]
  PROVE  \E g : Leads(g, Append(w, m)) /\ g[Len(w) + 1] = Take(f[Len(w)], m)
<1> DEFINE v == Append(w, m)
           g == [n \in 0 .. Len(w) + 1 |-> IF n = Len(w) + 1 THEN Take(f[Len(w)], m) ELSE f[n]]
<1>1. Len(w) \in Nat /\ Len(v) = Len(w) + 1 /\ v[Len(w) + 1] = m /\ \A i \in 1 .. Len(w) : v[i] = w[i]
  OBVIOUS
<1> HIDE DEF v
<1>2. g[Len(w) + 1] = Take(f[Len(w)], m) /\ \A n \in 0 .. Len(w) : g[n] = f[n]
  BY <1>1
<1> HIDE DEF g
<1>3. Course(g, v, views)
  <2>1. g[0] = views
    BY <1>1, <1>2 DEF Leads, Course
  <2>2. ASSUME NEW n \in 1 .. Len(w) + 1 PROVE g[n] = Take(g[n - 1], v[n])
    <3>1. CASE n \in 1 .. Len(w)
      <4>1. n \in 0 .. Len(w) /\ n - 1 \in 0 .. Len(w)
        BY <1>1, <3>1
      <4> QED  BY <1>1, <1>2, <3>1, <4>1 DEF Leads, Course
    <3>2. CASE n = Len(w) + 1
      <4>1. n - 1 = Len(w) /\ Len(w) \in 0 .. Len(w)
        BY <1>1, <3>2
      <4> QED  BY <1>1, <1>2, <3>2, <4>1
    <3> QED  BY <1>1, <3>1, <3>2
  <2> QED  BY <1>1, <2>1, <2>2 DEF Course
<1>4. ASSUME gAppName # None, NEW i \in 1 .. Len(w) + 1, EventOk(v[i])
      PROVE  g[i - 1] = [by |-> gAppName, version |-> v[i].version]
  <2>1. CASE i \in 1 .. Len(w)
    <3>1. i - 1 \in 0 .. Len(w)
      BY <1>1, <2>1
    <3> QED  BY <1>1, <1>2, <1>4, <2>1, <3>1 DEF Leads
  <2>2. CASE i = Len(w) + 1
    <3>1. i - 1 = Len(w) /\ Len(w) \in 0 .. Len(w)
      BY <1>1, <2>2
    <3> QED  BY <1>1, <1>2, <1>4, <2>2, <3>1
  <2> QED  BY <1>1, <2>1, <2>2
<1>5. Leads(g, v)
  BY <1>1, <1>3, <1>4 DEF Leads
<1> QED  BY <1>2, <1>5 DEF v

LEMMA OutlookBlind ==
  ASSUME Typed', gAppName' = None, \A i \in DOMAIN wire' : ~RunOk(wire'[i])
  PROVE  Outlook'
<1>1. Len(wire') \in Nat
  BY DEF Typed
<1>2. PICK f : Course(f, wire', views')
  BY <1>1, CourseExists
<1>3. Leads(f, wire)' /\ ~Awaited'
  BY <1>2 DEF Leads, Awaited
<1> QED  BY <1>3 DEF Outlook

LEMMA OutlookSame ==
  ASSUME Typed, Outlook, UNCHANGED <<app, described, leftTicking, wire, views>>, gAppName' \in {gAppName, None},
         \A i \in DOMAIN wire : EventOk(wire[i])' => EventOk(wire[i])
  PROVE  Outlook'
<1>1. PICK f : Leads(f, wire) /\ (Awaited => Shown(f[Len(wire)], app, described, leftTicking))
  BY DEF Outlook
<1>2. DOMAIN wire = 1 .. Len(wire)
  BY DEF Typed
<1>3. Leads(f, wire)'
  BY <1>1, <1>2 DEF Leads, Course
<1>4. Awaited' => Shown(f[Len(wire')], app', described', leftTicking')
  BY <1>1 DEF Awaited, Shown
<1> QED  BY <1>3, <1>4 DEF Outlook

LEMMA OutlookRest ==
  ASSUME Typed, Outlook, wire # <<>>, wire' = Tail(wire), views' = Take(views, wire[1]),
         UNCHANGED <<app, described, leftTicking>>,
         gAppName' # None => gAppName # None \/ RunOk(wire[1]),
         \A i \in DOMAIN wire' : gAppName' # None /\ EventOk(wire[i])' => gAppName' = gAppName /\ EventOk(wire[i + 1])
  PROVE  Outlook'
<1>1. PICK f : Leads(f, wire) /\ (Awaited => Shown(f[Len(wire)], app, described, leftTicking))
  BY DEF Outlook
<1>2. /\ Len(wire) \in Nat \ {0} /\ DOMAIN wire = 1 .. Len(wire) /\ DOMAIN wire' = 1 .. Len(wire')
      /\ Len(wire') = Len(wire) - 1
      /\ \A i \in DOMAIN wire' : i + 1 \in DOMAIN wire /\ wire'[i] = wire[i + 1]
  BY OneLess
<1>3. PICK g : \A n \in 0 .. Len(wire') : g[n] = f[n + 1]
  <2> DEFINE g == [n \in 0 .. Len(wire') |-> f[n + 1]]
  <2>1. \A n \in 0 .. Len(wire') : g[n] = f[n + 1]
    OBVIOUS
  <2> QED  BY <2>1
<1>4. g[0] = views'
  <2>1. 1 \in 1 .. Len(wire) /\ 1 - 1 = 0 /\ 0 \in 0 .. Len(wire') /\ 0 + 1 = 1
    BY <1>2
  <2>2. f[0] = views /\ f[1] = Take(f[1 - 1], wire[1])
    BY <1>1, <2>1 DEF Leads, Course
  <2> QED  BY <1>3, <2>1, <2>2
<1>5. ASSUME NEW n \in 1 .. Len(wire') PROVE g[n] = Take(g[n - 1], wire'[n])
  <2>1. n + 1 \in 1 .. Len(wire) /\ (n + 1) - 1 = n /\ (n - 1) + 1 = n /\ n \in 0 .. Len(wire') /\ n - 1 \in 0 .. Len(wire')
    BY <1>2
  <2>2. f[n + 1] = Take(f[(n + 1) - 1], wire[n + 1])
    BY <1>1, <2>1 DEF Leads, Course
  <2> QED  BY <1>2, <1>3, <2>1, <2>2
<1>6. ASSUME gAppName' # None, NEW i \in 1 .. Len(wire'), EventOk(wire[i])'
      PROVE  g[i - 1] = [by |-> gAppName', version |-> wire'[i].version]
  <2>1. i + 1 \in 1 .. Len(wire) /\ (i + 1) - 1 = i /\ (i - 1) + 1 = i /\ i - 1 \in 0 .. Len(wire')
    BY <1>2
  <2>2. gAppName' = gAppName /\ EventOk(wire[i + 1]) /\ wire'[i] = wire[i + 1]
    BY <1>2, <1>6
  <2>3. f[(i + 1) - 1] = [by |-> gAppName, version |-> wire[i + 1].version]
    BY <1>1, <1>6, <2>1, <2>2 DEF Leads
  <2> QED  BY <1>3, <2>1, <2>2, <2>3
<1>7. Leads(g, wire)'
  BY <1>4, <1>5, <1>6 DEF Leads, Course
<1>8. Awaited' => Awaited
  <2>1. ASSUME NEW i \in DOMAIN wire', RunOk(wire'[i]) PROVE Awaited
    BY <1>2, <2>1 DEF Awaited
  <2>2. 1 \in DOMAIN wire
    BY <1>2
  <2> QED  BY <2>1, <2>2 DEF Awaited
<1>9. g[Len(wire')] = f[Len(wire)]
  <2>1. Len(wire') \in 0 .. Len(wire') /\ Len(wire') + 1 = Len(wire)
    BY <1>2
  <2> QED  BY <1>3, <2>1
<1>10. Awaited' => Shown(g[Len(wire')], app', described', leftTicking')
  BY <1>1, <1>8, <1>9 DEF Shown
<1> QED  BY <1>7, <1>10 DEF Outlook

\* What a turn makes of the outlook is the outlook of its wire; what the turn leaves
\* alone is put aside once.
LEMMA OutlookTurn ==
  ASSUME UNCHANGED <<views, gAppName, asked>>, NEW g, Leads(g, wire'),
         Awaited' => Shown(g[Len(wire')], app', described', leftTicking')
  PROVE  Outlook'
<1>1. Leads(g, wire)'
  BY DEF Leads, EventOk
<1> QED  BY <1>1 DEF Outlook

\* A reply that is no app's start and no click's effect.
LEMMA OutlookReply ==
  ASSUME Typed, Outlook, NEW m \in Messages, m.of # "push", ~EventOk(m), ~RunOk(m),
         wire' = Append(wire, m) \/ wire' = wire \o <<m>>,
         UNCHANGED <<app, described, leftTicking, asked, gAppName, views>>
  PROVE  Outlook'
<1>1. PICK f : Leads(f, wire) /\ (Awaited => Shown(f[Len(wire)], app, described, leftTicking))
  BY DEF Outlook
<1>2. wire \in Seq(Messages) /\ wire' = Append(wire, m)
  BY AppendIsConcat DEF Typed
<1>3. PICK g : Leads(g, wire') /\ g[Len(wire) + 1] = f[Len(wire)]
  BY <1>1, <1>2, LeadsMore DEF Take
<1>4. Awaited' => Awaited
  BY OneMore DEF Awaited
<1>5. Len(wire') = Len(wire) + 1
  BY OneMore
<1>6. Awaited' => Shown(g[Len(wire')], app', described', leftTicking')
  <2>1. g[Len(wire')] = f[Len(wire)]
    BY <1>3, <1>5
  <2> QED  BY <1>1, <1>4, <2>1 DEF Shown
<1> QED  BY <1>3, <1>6, OutlookTurn

\* A change of the widgets by a timer.
LEMMA OutlookTick ==
  ASSUME Typed, Outlook, Tick \/ \E a \in Apps : TickOfStopped(a)
  PROVE  Outlook'
<1>1. PICK f : Leads(f, wire) /\ (Awaited => Shown(f[Len(wire)], app, described, leftTicking))
  BY DEF Outlook
<1>2. wire \in Seq(Messages)
  BY DEF Typed
<1>3. UNCHANGED <<views, gAppName, asked>>
  BY DEF Tick, TickOfStopped, UiUntouched, window
<1>4. ASSUME NEW v \in Widget, NEW a \in Apps, wire' = Append(wire, Push(<<Set(v)>>, a)),
             app' = app, leftTicking' = leftTicking,
             \A x : Shown(x, app, described, leftTicking)
                      => Shown(IF x = Blank THEN Blank ELSE v, app', described', leftTicking')
      PROVE  Outlook'
  <2> DEFINE m == Push(<<Set(v)>>, a)
  <2>1. m \in Messages /\ m.of = "push" /\ m.cmds = <<Set(v)>> /\ ~EventOk(m) /\ ~RunOk(m)
    BY SetIs DEF Push, EventOk, RunOk
  <2>2. Take(f[Len(wire)], m) = IF f[Len(wire)] = Blank THEN Blank ELSE v
    <3>1. ApplyAll(f[Len(wire)], <<Set(v)>>) = IF f[Len(wire)] = Blank THEN Blank ELSE v
      BY AppliedIs
    <3> HIDE DEF m
    <3> QED  BY <2>1, <3>1 DEF Take
  <2>3. wire' = Append(wire, m)
    BY <1>4
  <2> HIDE DEF m
  <2>4. PICK g : Leads(g, wire') /\ g[Len(wire) + 1] = Take(f[Len(wire)], m)
    BY <1>1, <1>2, <2>1, <2>3, LeadsMore
  <2>5. Awaited' => Awaited
    BY <1>3, <2>1, <2>3, OneMore DEF Awaited
  <2>6. Len(wire') = Len(wire) + 1
    BY <2>1, <2>3, OneMore
  <2>7. Awaited' => Shown(g[Len(wire')], app', described', leftTicking')
    <3>1. g[Len(wire')] = IF f[Len(wire)] = Blank THEN Blank ELSE v
      BY <2>2, <2>4, <2>6
    <3>2. ASSUME Awaited' PROVE Shown(g[Len(wire')], app', described', leftTicking')
      <4>1. Shown(f[Len(wire)], app, described, leftTicking)
        BY <1>1, <2>5, <3>2
      <4>2. Shown(IF f[Len(wire)] = Blank THEN Blank ELSE v, app', described', leftTicking')
        BY <1>4, <4>1
      <4> QED  BY <3>1, <4>2 DEF Shown
    <3> QED  BY <3>2
  <2> QED  BY <1>3, <2>4, <2>7, OutlookTurn
<1>5. CASE Tick
  <2> DEFINE v == [by |-> app, version |-> version + 1]
  <2>1. v \in Widget /\ app \in Apps /\ v # Blank
    BY <1>5 DEF Tick, Widget, Typed, Blank
  <2>2. /\ wire' = Append(wire, Push(<<Set(v)>>, app)) /\ app' = app /\ leftTicking' = leftTicking
        /\ described' = Apply(described, Set(v))
    BY <1>5 DEF Tick
  <2> HIDE DEF v
  <2>3. described' = IF described = Blank THEN Blank ELSE v
    BY <2>2, AppliedIs
  <2>4. \A x : Shown(x, app, described, leftTicking) => Shown(IF x = Blank THEN Blank ELSE v, app', described', leftTicking')
    BY <2>1, <2>2, <2>3 DEF Shown
  <2> QED  BY <1>4, <2>1, <2>2, <2>4
<1>6. ASSUME NEW a \in Apps, TickOfStopped(a) PROVE Outlook'
  <2> DEFINE v == [by |-> a, version |-> 0]
  <2>1. v \in Widget /\ v # Blank
    BY Names DEF Widget, Blank
  <2>2. /\ wire' = Append(wire, Push(<<Set(v)>>, a)) /\ app' = app /\ leftTicking' = leftTicking
        /\ described' = described /\ leftTicking # {}
    BY <1>6 DEF TickOfStopped, language
  <2> HIDE DEF v
  <2>3. \A x : Shown(x, app, described, leftTicking) => Shown(IF x = Blank THEN Blank ELSE v, app', described', leftTicking')
    BY <2>1, <2>2 DEF Shown
  <2> QED  BY <1>4, <2>1, <2>2, <2>3
<1> QED  BY <1>5, <1>6

\* The messages of a turn, one by one.
LEMMA LeadsPush ==
  ASSUME NEW w \in Seq(Messages), NEW m \in Messages, m.of = "push", NEW f, Leads(f, w)
  PROVE  \E g : Leads(g, Append(w, m)) /\ g[Len(w) + 1] = ApplyAll(f[Len(w)], m.cmds)
<1>1. ~EventOk(m) /\ Take(f[Len(w)], m) = ApplyAll(f[Len(w)], m.cmds)
  BY DEF EventOk, Take
<1> QED  BY <1>1, LeadsMore

LEMMA LeadsReply ==
  ASSUME NEW w \in Seq(Messages), NEW m \in Messages, m.of = "reply", NEW f, Leads(f, w),
         gAppName # None /\ EventOk(m) => f[Len(w)] = [by |-> gAppName, version |-> m.version]
  PROVE  \E g : Leads(g, Append(w, m)) /\ g[Len(w) + 1] = f[Len(w)]
<1>1. Take(f[Len(w)], m) = f[Len(w)]
  BY DEF Take
<1> QED  BY <1>1, LeadsMore

LEMMA LeadsFarewell ==
  ASSUME Typed, NEW f, Leads(f, wire)
  PROVE  wire \o Farewell \in Seq(Messages) /\ \E g : Leads(g, wire \o Farewell)
<1>1. wire \in Seq(Messages)
  BY DEF Typed
<1>2. CASE app = None
  <2>1. wire \o Farewell = wire
    BY <1>1, <1>2 DEF Farewell
  <2> QED  BY <1>1, <2>1
<1>3. CASE app # None
  <2> DEFINE m == Push(<<Clear>>, app)
  <2>1. m \in Messages /\ m.of = "push"
    BY <1>3, ClearIs DEF Typed
  <2>2. wire \o Farewell = wire \o <<m>>
    BY <1>3 DEF Farewell
  <2> HIDE DEF m
  <2>3. wire \o <<m>> = Append(wire, m) /\ Append(wire, m) \in Seq(Messages)
    BY <1>1, <2>1
  <2>4. \E g : Leads(g, Append(wire, m))
    BY <1>1, <2>1, LeadsPush
  <2> QED  BY <2>2, <2>3, <2>4
<1> QED  BY <1>2, <1>3

\* Two messages more.
LEMMA TwoMore ==
  ASSUME NEW w \in Seq(Messages), NEW p \in Messages, NEW m \in Messages
  PROVE  /\ w \o <<p, m>> = Append(Append(w, p), m) /\ Append(w, p) \in Seq(Messages) /\ w \o <<m>> = Append(w, m)
         /\ Len(Append(w, p)) = Len(w) + 1 /\ Len(Append(Append(w, p), m)) = Len(w) + 2 /\ Len(w) \in Nat
         /\ Len(w \o <<m>>) = Len(w) + 1
  OBVIOUS

\* A push that clears makes the same of any view.
LEMMA ClearedIs ==
  ASSUME NEW ok, NEW v, NEW cmds, cmds = IF ok THEN <<Clear, Add(v)>> ELSE <<Clear>>
  PROVE  \A x, y : ApplyAll(x, cmds) = ApplyAll(y, cmds)
<1> SUFFICES ASSUME NEW x, NEW y PROVE ApplyAll(x, cmds) = ApplyAll(y, cmds)
  OBVIOUS
<1>1. CASE ok
  <2>1. ApplyAll(x, <<Clear, Add(v)>>) = v /\ ApplyAll(y, <<Clear, Add(v)>>) = v
    BY AppliedIs
  <2> QED  BY <1>1, <2>1
<1>2. CASE ~ok
  <2>1. ApplyAll(x, <<Clear>>) = Blank /\ ApplyAll(y, <<Clear>>) = Blank
    BY AppliedIs
  <2> QED  BY <1>2, <2>1
<1> QED  BY <1>1, <1>2

LEMMA OutlookServe ==
  ASSUME Typed, Queued, Steady, Outlook, Serve
  PROVE  Outlook'
<1>1. PICK f : Leads(f, wire) /\ (Awaited => Shown(f[Len(wire)], app, described, leftTicking))
  BY DEF Outlook
<1>2. inbox # <<>>
  BY DEF Serve, ServeRunUnknown, ServeRunNotMade, ServeStop, ServeRun, ServeBuild, ServeEventIgnored, ServeEvent, Takes
<1>3. UNCHANGED <<views, gAppName, asked>> /\ wire \in Seq(Messages)
  BY DEF Serve, ServeRunUnknown, ServeRunNotMade, ServeStop, ServeRun, ServeBuild, ServeEventIgnored, ServeEvent,
         UiUntouched, window, Typed
<1>4. Head(inbox).request \in Requests /\ Head(inbox) = inbox[1] /\ 1 \in DOMAIN inbox
  <2>1. Head(inbox) = inbox[1] /\ 1 \in DOMAIN inbox
    BY <1>2, AtHead DEF Typed
  <2> QED  BY <2>1, Asker
<1>5. ASSUME ServeRunUnknown \/ ServeEventIgnored \/ (ServeBuild(FALSE) /\ app = None) PROVE Outlook'
  <2> DEFINE m == Reply(Head(inbox).request, FALSE, 0)
  <2>1. wire' = Append(wire, m) /\ UNCHANGED <<app, described, leftTicking>>
    BY <1>5 DEF ServeRunUnknown, ServeEventIgnored, ServeBuild, Takes
  <2>2. m \in Messages /\ m.of = "reply" /\ ~m.ok
    BY <1>4 DEF Reply, Messages
  <2> HIDE DEF m
  <2>3. ~EventOk(m) /\ ~RunOk(m)
    BY <2>2 DEF EventOk, RunOk
  <2> QED  BY <1>3, <2>1, <2>2, <2>3, OutlookReply
<1>6. CASE ServeRunNotMade \/ ServeStop
  <2>1. PICK r \in Changers, ok \in BOOLEAN : wire' = wire \o Farewell \o <<Reply(r, ok, 0)>> /\ app' = None
    BY <1>6 DEF ServeRunNotMade, ServeStop, Takes, Changers
  <2> DEFINE m == Reply(r, ok, 0)
             w == wire \o Farewell
  <2>2. m \in Messages /\ m.of = "reply" /\ m.to # "event"
    BY ReplyIs, Names
  <2>3. wire' = w \o <<m>>
    BY <2>1
  <2>4. w \in Seq(Messages) /\ \E g : Leads(g, w)
    BY <1>1, LeadsFarewell
  <2> HIDE DEF m, w
  <2>5. PICK g : Leads(g, w)
    BY <2>4
  <2>6. ~EventOk(m)
    BY <2>2 DEF EventOk
  <2>7. PICK h : Leads(h, Append(w, m))
    BY <2>2, <2>4, <2>5, <2>6, LeadsReply
  <2>8. Leads(h, wire')
    BY <2>2, <2>3, <2>4, <2>7, TwoMore
  <2>9. Shown(h[Len(wire')], app', described', leftTicking')
    BY <2>1 DEF Shown
  <2> QED  BY <1>3, <2>8, <2>9, OutlookTurn
\* A push that ends with what is described, and its reply.
<1>7. ASSUME NEW w \in Seq(Messages), NEW g, Leads(g, w),
             NEW p \in Messages, NEW m \in Messages, wire' = w \o <<p, m>>, p.of = "push", m.of = "reply",
             Awaited' => ApplyAll(g[Len(w)], p.cmds) = described',
             gAppName # None /\ EventOk(m) => ApplyAll(g[Len(w)], p.cmds) = [by |-> gAppName, version |-> m.version]
      PROVE  Outlook'
  <2> DEFINE u == Append(w, p)
  <2>1. /\ wire' = Append(u, m) /\ u \in Seq(Messages) /\ Len(u) = Len(w) + 1 /\ Len(wire') = Len(u) + 1
        /\ Len(w) \in Nat
    BY <1>7, TwoMore
  <2>2. PICK h : Leads(h, u) /\ h[Len(u)] = ApplyAll(g[Len(w)], p.cmds)
    BY <1>7, <2>1, LeadsPush
  <2> HIDE DEF u
  <2>3. PICK k : Leads(k, Append(u, m)) /\ k[Len(u) + 1] = h[Len(u)]
    BY <1>7, <2>1, <2>2, LeadsReply
  <2>4. Awaited' => Shown(k[Len(wire')], app', described', leftTicking')
    <3>1. k[Len(wire')] = ApplyAll(g[Len(w)], p.cmds)
      BY <2>1, <2>2, <2>3
    <3> QED  BY <1>7, <3>1 DEF Shown
  <2> QED  BY <1>3, <2>1, <2>3, <2>4, OutlookTurn
<1>8. ASSUME NEW ok \in BOOLEAN, ServeRun(ok) PROVE Outlook'
  <2> DEFINE w == wire \o Farewell
  <2>1. w \in Seq(Messages) /\ \E g : Leads(g, w)
    BY <1>1, LeadsFarewell
  <2>2. PICK g : Leads(g, w)
    BY <2>1
  <2>3. PICK a \in Apps : a = Head(inbox).request
    BY <1>8 DEF ServeRun, Takes
  <2>4. PICK v : v = [by |-> a, version |-> 0]
    OBVIOUS
  <2>5. PICK cmds : cmds = IF ok THEN <<Clear, Add(v)>> ELSE <<Clear>>
    OBVIOUS
  <2> DEFINE p == Push(cmds, a)
             m == Reply(a, ok, 0)
  <2>6. described' = ApplyAll(Blank, cmds) /\ wire' = w \o <<p, m>>
    BY <1>8, <2>3, <2>4, <2>5 DEF ServeRun
  <2>7. p \in Messages /\ p.of = "push" /\ p.cmds = cmds
    <3>1. v \in Widget
      BY <2>4 DEF Widget
    <3> QED  BY <2>5, <3>1, AddIs, ClearIs DEF Push
  <2>8. m \in Messages /\ m.of = "reply" /\ ~EventOk(m)
    BY ReplyIs, Names DEF Requests, EventOk
  <2> HIDE DEF m, p
  <2>9. ApplyAll(g[Len(w)], cmds) = ApplyAll(Blank, cmds)
    BY <2>5, ClearedIs
  <2> HIDE DEF w
  <2> QED  BY <1>7, <2>1, <2>2, <2>6, <2>7, <2>8, <2>9
<1>9. ASSUME NEW ok \in BOOLEAN, ServeBuild(ok), app # None PROVE Outlook'
  <2>1. app \in Apps /\ version \in Nat
    BY <1>9 DEF Typed
  <2>2. PICK v : v = [by |-> app, version |-> version]
    OBVIOUS
  <2>3. PICK cmds : cmds = IF ok THEN <<Clear, Add(v)>> ELSE <<Clear>>
    OBVIOUS
  <2> DEFINE p == Push(cmds, app)
             m == Reply("build", ok, 0)
  <2>4. described' = ApplyAll(described, cmds) /\ wire' = wire \o <<p, m>>
    BY <1>9, <2>2, <2>3 DEF ServeBuild
  <2>5. p \in Messages /\ p.of = "push" /\ p.cmds = cmds
    <3>1. v \in Widget
      BY <2>1, <2>2 DEF Widget
    <3> QED  BY <2>1, <2>3, <3>1, AddIs, ClearIs DEF Push
  <2>6. m \in Messages /\ m.of = "reply" /\ ~EventOk(m)
    <3>1. "build" \in Requests
      BY DEF Requests
    <3>2. m \in Messages /\ m.of = "reply" /\ m.to = "build"
      BY <3>1, ReplyIs
    <3> QED  BY <3>2 DEF EventOk
  <2> HIDE DEF m, p
  <2>7. ApplyAll(f[Len(wire)], cmds) = ApplyAll(described, cmds)
    BY <2>3, ClearedIs
  <2> QED  BY <1>1, <1>3, <1>7, <2>4, <2>5, <2>6, <2>7
<1>10. CASE ServeEvent
  <2>1. app \in Apps /\ version + 1 \in Nat /\ described # Blank /\ inbox[1].request = "event"
    BY <1>4, <1>10 DEF ServeEvent, Takes, Typed
  <2>2. PICK v : v = [by |-> app, version |-> version + 1]
    OBVIOUS
  <2> DEFINE p == Push(<<Set(v)>>, app)
             m == Reply("event", TRUE, version + 1)
  <2>3. described' = v /\ wire' = wire \o <<p, m>> /\ UNCHANGED <<app, leftTicking>>
    BY <1>10, <2>2 DEF ServeEvent
  <2>4. p \in Messages /\ p.of = "push" /\ p.cmds = <<Set(v)>> /\ ~RunOk(p)
    <3>1. v \in Widget
      BY <2>1, <2>2 DEF Widget
    <3> QED  BY <2>1, <3>1, SetIs DEF Push, RunOk
  <2>5. m \in Messages /\ m.of = "reply" /\ m.version = version + 1 /\ ~RunOk(m)
    <3>1. "event" \in Requests
      BY DEF Requests
    <3>2. PICK n \in Nat : n = version + 1
      BY <2>1
    <3>3. Reply("event", TRUE, n) \in Messages /\ Reply("event", TRUE, n).of = "reply"
          /\ Reply("event", TRUE, n).to = "event" /\ Reply("event", TRUE, n).version = n
      BY <3>1 DEF Reply, Messages
    <3>4. m = Reply("event", TRUE, n)
      BY <3>2 DEF m
    <3> QED  BY <3>2, <3>3, <3>4, Names DEF RunOk
  <2> HIDE DEF m, p
  <2>6. Awaited => ApplyAll(f[Len(wire)], <<Set(v)>>) = v
    <3>1. Awaited => f[Len(wire)] # Blank
      BY <1>1, <2>1, Names DEF Shown
    <3>2. ApplyAll(f[Len(wire)], <<Set(v)>>) = IF f[Len(wire)] = Blank THEN Blank ELSE v
      BY AppliedIs
    <3> QED  BY <3>1, <3>2
  <2>7. gAppName # None => gAppName = app
    BY <1>4, <2>1, Names DEF Steady, Clicked
  <2>8. Awaited' => Awaited
    <3>1. ASSUME NEW i \in DOMAIN wire', RunOk(wire'[i]) PROVE i \in DOMAIN wire /\ wire'[i] = wire[i]
      <4>1. <<p, m>> \in Seq(Messages) /\ Len(<<p, m>>) = 2 /\ <<p, m>>[1] = p /\ <<p, m>>[2] = m
        BY <2>4, <2>5
      <4> DEFINE t == <<p, m>>
      <4> HIDE DEF t
      <4>2. /\ \A j \in DOMAIN wire : wire'[j] = wire[j]
            /\ \A j \in DOMAIN wire' : j \in DOMAIN wire \/ \E k \in 1 .. Len(t) : j = Len(wire) + k /\ wire'[j] = t[k]
        <5>1. wire' = wire \o t /\ t \in Seq(Messages)
          BY <2>3, <4>1 DEF t
        <5>2. wire \in Seq(Messages)
          BY DEF Typed
        <5>3. /\ \A j \in DOMAIN wire : (wire \o t)[j] = wire[j]
              /\ \A j \in DOMAIN (wire \o t) :
                    j \in DOMAIN wire \/ \E k \in 1 .. Len(t) : j = Len(wire) + k /\ (wire \o t)[j] = t[k]
          BY ONLY <5>1, <5>2, Behind
        <5> QED  BY ONLY <5>1, <5>3
      <4>3. \A k \in 1 .. Len(t) : ~RunOk(t[k])
        <5>1. \A k \in 1 .. 2 : k = 1 \/ k = 2
          OBVIOUS
        <5> QED  BY <2>4, <2>5, <4>1, <5>1 DEF t
      <4> QED  BY <3>1, <4>2, <4>3
    <3> QED  BY <1>3, <3>1 DEF Awaited
  <2>9. gAppName # None => ApplyAll(f[Len(wire)], <<Set(v)>>) = [by |-> gAppName, version |-> m.version]
    BY <2>2, <2>5, <2>6, <2>7 DEF Awaited
  <2>10. Awaited' => ApplyAll(f[Len(wire)], p.cmds) = described'
    BY <2>3, <2>4, <2>6, <2>8
  <2> QED  BY <1>1, <1>3, <1>7, <2>3, <2>4, <2>5, <2>9, <2>10
<1>11. ASSUME ServeBuild(TRUE) PROVE app # None
  BY <1>11 DEF ServeBuild
<1>12. ASSUME NEW ok \in BOOLEAN, ServeBuild(ok) PROVE Outlook'
  BY <1>5, <1>9, <1>11, <1>12
<1> QED  BY <1>5, <1>6, <1>8, <1>10, <1>12 DEF Serve

LEMMA OutlookAsk ==
  ASSUME Typed, Queued, Outlook, NEW r, Asks(r)
  PROVE  Outlook'
<1>1. /\ asked[r] = "no" /\ r \in Requests /\ gAppName' \in {gAppName, None}
      /\ UNCHANGED <<app, described, leftTicking, wire, views>>
      /\ \A q \in Requests : q # r => asked'[q] = asked[q]
  BY DEF Asks, Typed
<1>2. ASSUME NEW i \in DOMAIN wire, EventOk(wire[i])' PROVE EventOk(wire[i])
  <2>1. wire[i].of = "reply" /\ wire[i].to = "event" /\ wire[i].ok /\ asked'["event"] = "sent"
    BY <1>1, <1>2 DEF EventOk
  <2>2. r # "event"
    BY <1>1, <2>1 DEF Queued
  <2> QED  BY <1>1, <2>1, <2>2 DEF EventOk, Requests
<1> QED  BY <1>1, <1>2, OutlookSame

LEMMA OutlookRefused ==
  ASSUME Typed, Typed', Queued, Outlook, NEW r, Refused(r), ~crossed'
  PROVE  Outlook'
<1>1. /\ UNCHANGED <<app, described, leftTicking, wire, asked>> /\ gAppName' \in {gAppName, None}
      /\ r # "stop" => views' = views
      /\ r = "stop" => gAppName' = None /\ ~Changing
  BY DEF Refused, Changers
<1>2. CASE r = "stop"
  BY <1>1, <1>2, AtRest, OutlookBlind
<1>3. CASE r # "stop"
  BY <1>1, <1>3, OutlookSame DEF EventOk
<1> QED  BY <1>2, <1>3

LEMMA OutlookTake ==
  ASSUME Typed, Outlook, TakePush \/ TakeDead
  PROVE  Outlook'
<1>1. /\ wire # <<>> /\ wire' = Tail(wire) /\ Head(wire) = wire[1]
      /\ UNCHANGED <<app, described, leftTicking, asked, gAppName>>
  BY AtHead DEF TakePush, TakeDead, language, Typed
<1>2. views' = Take(views, wire[1])
  BY <1>1, DeadIs DEF TakePush, TakeDead, Take, window
<1>3. \A i \in DOMAIN wire' : wire'[i] = wire[i + 1]
  BY <1>1, OneLess
<1>4. \A i \in DOMAIN wire' : EventOk(wire[i])' => EventOk(wire[i + 1])
  BY <1>1, <1>3 DEF EventOk
<1> QED  BY <1>1, <1>2, <1>4, OutlookRest

LEMMA OutlookTakeReply ==
  ASSUME Typed, Typed', Queued, Steady, Outlook, TakeReply
  PROVE  Outlook'
<1>1. PICK r, ok : r = wire[1].to /\ ok = wire[1].ok
  OBVIOUS
<1>2. /\ wire # <<>> /\ wire' = Tail(wire) /\ wire[1].of = "reply" /\ wire[1] \in Messages /\ 1 \in DOMAIN wire
      /\ asked' = [asked EXCEPT ![r] = "no"]
      /\ gAppName' = (IF r \notin Apps THEN gAppName ELSE IF ok THEN r ELSE None)
      /\ r # "stop" => views' = views
      /\ UNCHANGED <<app, described, leftTicking>>
  BY <1>1, OneLess DEF TakeReply, Ends, language, window
<1>3. /\ r \in Requests /\ asked'[r] = "no" /\ (\A q \in Requests : q # r => asked'[q] = asked[q])
      /\ asked[r] # "no" /\ ok \in BOOLEAN
  BY <1>1, <1>2, MessageIs DEF Typed, Queued
<1>4. "event" \in Requests /\ "event" \notin Apps /\ "stop" \in Changers /\ "stop" \notin Apps /\ Apps \subseteq Changers
  BY Names DEF Requests, Changers
<1>5. \A i \in DOMAIN wire' : i \in Nat /\ i >= 1 /\ i + 1 \in DOMAIN wire /\ i + 1 > 1 /\ wire'[i] = wire[i + 1]
  BY <1>2, OneLess
<1>6. CASE r = "stop"
  <2>1. gAppName' = None
    BY <1>2, <1>3, <1>4, <1>6 DEF Steady, OneChange
  <2>2. ASSUME NEW i \in DOMAIN wire', RunOk(wire'[i]) PROVE FALSE
    <3>1. i + 1 \in DOMAIN wire /\ i + 1 # 1 /\ wire[i + 1].of = "reply" /\ wire[i + 1].to \in Apps
      BY <1>5, <2>2 DEF RunOk
    <3>2. asked[wire[i + 1].to] # "no"
      BY <3>1 DEF Queued
    <3>3. wire[i + 1].to = r
      BY <1>3, <1>4, <1>6, <3>1, <3>2 DEF Steady, OneChange
    <3> QED  BY <1>4, <1>6, <3>1, <3>3
  <2> QED  BY <2>1, <2>2, OutlookBlind
<1>7. CASE r # "stop"
  <2>1. views' = Take(views, wire[1])
    BY <1>2, <1>7 DEF Take
  <2>2. gAppName' # None => gAppName # None \/ RunOk(wire[1])
    BY <1>1, <1>2 DEF RunOk
  <2>3. ASSUME NEW i \in DOMAIN wire', gAppName' # None, EventOk(wire[i])'
        PROVE  gAppName' = gAppName /\ EventOk(wire[i + 1])
    <3>1. wire[i + 1].of = "reply" /\ wire[i + 1].to = "event" /\ wire[i + 1].ok /\ asked'["event"] = "sent"
      BY <1>5, <2>3 DEF EventOk
    <3>2. r # "event" /\ asked["event"] = "sent"
      BY <1>3, <1>4, <3>1
    <3>3. EventOk(wire[i + 1])
      BY <3>1, <3>2 DEF EventOk
    <3>4. ~ChangeReply(wire[1])
      BY <1>2, <1>5, <3>3 DEF Steady, Answered
    <3>5. gAppName' = gAppName
      BY <1>1, <1>2, <1>4, <3>4 DEF ChangeReply
    <3> QED  BY <3>3, <3>5
  <2> QED  BY <1>2, <2>1, <2>2, <2>3, OutlookRest
<1> QED  BY <1>6, <1>7

LEMMA OutlookLost ==
  ASSUME Typed, Queued, Steady, Outlook, NEW r \in Requests, Lost(r)
  PROVE  Outlook'
<1>1. /\ asked[r] = "stale" /\ wire' = Closed(Replies(r)) /\ asked' = [asked EXCEPT ![r] = "no"]
      /\ UNCHANGED <<app, described, leftTicking>>
      /\ r \notin Apps /\ r # "stop" => gAppName' = gAppName /\ views' = views
  BY DEF Lost, Ends, language, window
<1>2. UNCHANGED <<gAppName, views>>
  BY <1>1 DEF Steady, OneChange, Changers
<1>3. /\ Len(wire') = Len(wire) /\ DOMAIN wire' = DOMAIN wire /\ DOMAIN wire = 1 .. Len(wire)
      /\ \A i \in DOMAIN wire : wire'[i] = (IF i \in Replies(r) THEN Dead ELSE wire[i])
  BY <1>1, ClosedIs DEF Typed
<1>4. \A x : \A i \in DOMAIN wire : Take(x, wire'[i]) = Take(x, wire[i])
  BY <1>3, DeadIs DEF Take, Replies
<1>5. ASSUME NEW i \in DOMAIN wire, EventOk(wire[i])' PROVE EventOk(wire[i]) /\ wire'[i] = wire[i]
  <2>1. wire'[i] = wire[i]
    BY <1>3, <1>5, DeadIs DEF EventOk
  <2>2. asked'["event"] = "sent" => asked["event"] = "sent"
    BY <1>1 DEF Typed, Requests
  <2> QED  BY <1>5, <2>1, <2>2 DEF EventOk
<1>6. Awaited' => Awaited
  BY <1>2, <1>3, DeadDoesNothing DEF Awaited
<1>7. PICK f : Leads(f, wire) /\ (Awaited => Shown(f[Len(wire)], app, described, leftTicking))
  BY DEF Outlook
<1>8. Leads(f, wire)'
  <2>1. Course(f, wire, views)'
    <3>1. f[0] = views /\ \A n \in 1 .. Len(wire) : f[n] = Take(f[n - 1], wire'[n])
      BY <1>3, <1>4, <1>7 DEF Leads, Course
    <3> QED  BY <1>2, <1>3, <3>1 DEF Course
  <2>2. ASSUME gAppName' # None, NEW i \in 1 .. Len(wire'), EventOk(wire[i])'
        PROVE  f[i - 1] = [by |-> gAppName', version |-> wire'[i].version]
    <3>1. EventOk(wire[i]) /\ wire'[i] = wire[i] /\ i \in 1 .. Len(wire)
      BY <1>3, <1>5, <2>2
    <3> QED  BY <1>2, <1>7, <2>2, <3>1 DEF Leads
  <2> QED  BY <2>1, <2>2 DEF Leads
<1> QED  BY <1>1, <1>3, <1>6, <1>7, <1>8 DEF Outlook

LEMMA OutlookStep ==
  ASSUME Typed, Typed', Queued, Steady, Outlook, [Next]_vars, ~crossed'
  PROVE  Outlook'
<1>1. CASE Serve
  BY <1>1, OutlookServe
<1>2. CASE Tick \/ \E a \in Apps : TickOfStopped(a)
  BY <1>2, OutlookTick
<1>3. CASE AppStop \/ AppRebuild \/ AppFire \/ \E a \in Apps : AppRun(a)
  <2>1. ASSUME NEW r, Asks(r) PROVE Outlook'
    BY <2>1, OutlookAsk
  <2>2. ASSUME NEW r, Refused(r) PROVE Outlook'
    BY <2>2, OutlookRefused
  <2> QED  BY <1>3, <2>1, <2>2, AskIs
<1>4. CASE RebuildUi
  <2>1. /\ UNCHANGED <<app, described, leftTicking, wire, asked, gAppName>> /\ ~Changing
        /\ views' = IF gAppName = None THEN Blank ELSE gAppSpec
    BY <1>4 DEF RebuildUi, Act, language
  <2>2. CASE gAppName = None
    BY <2>1, <2>2, AtRest, OutlookBlind
  <2>3. CASE gAppName # None
    <3>1. views' = views
      BY <2>1, <2>3 DEF Steady, Recorded
    <3> QED  BY <2>1, <3>1, OutlookSame DEF EventOk
  <2> QED  BY <2>2, <2>3
<1>5. CASE TakePush \/ TakeDead
  BY <1>5, OutlookTake
<1>6. CASE TakeReply
  BY <1>6, OutlookTakeReply
<1>7. ASSUME NEW r \in Requests, Lost(r) PROVE Outlook'
  BY <1>7, OutlookLost
<1>8. CASE Respawn
  <2>1. ~Changing /\ wire' = Closed(Pushes) /\ gAppName' = None
    BY <1>8 DEF Respawn, Act, AppOnRespawn
  <2>2. \A i \in DOMAIN wire' : ~RunOk(wire'[i])
    <3>1. /\ DOMAIN wire' = DOMAIN wire
          /\ \A i \in DOMAIN wire : wire'[i] = (IF i \in Pushes THEN Dead ELSE wire[i])
      BY <2>1, ClosedIs DEF Typed
    <3> QED  BY <2>1, <3>1, AtRest, DeadDoesNothing
  <2> QED  BY <2>1, <2>2, OutlookBlind
<1>9. ASSUME NEW r \in Requests, NEW ok \in BOOLEAN, ServeLate(r, ok) PROVE Outlook'
  <2> DEFINE m == Reply(r, ok, 0)
  <2>1. m \in Messages /\ m.of = "reply" /\ m.to = r
    BY ReplyIs
  <2>2. asked[r] = "stale" /\ wire' = Append(wire, m) /\ UNCHANGED <<app, described, leftTicking, asked, gAppName, views>>
    BY <1>9 DEF ServeLate, language, window
  <2> HIDE DEF m
  <2>3. ~RunOk(m) /\ ~EventOk(m)
    BY <2>1, <2>2 DEF Steady, OneChange, Changers, RunOk, EventOk
  <2> QED  BY <2>1, <2>2, <2>3, OutlookReply
<1>10. CASE Handshake \/ Pause \/ Continue \/ UNCHANGED vars
  <2>1. UNCHANGED <<app, described, leftTicking, wire, asked, gAppName, views>>
    BY <1>10 DEF Handshake, Pause, Continue, vars, language, window
  <2> QED  BY <2>1, OutlookSame DEF EventOk
<1> QED  BY <1>1, <1>2, <1>3, <1>4, <1>5, <1>6, <1>7, <1>8, <1>9, <1>10 DEF Next

---------------------------------------------------------------------------
(* The theorems.                                                           *)

Inv == Typed /\ Queued /\ Calm /\ (~crossed => Outlook)

LEMMA InvHolds == Spec => []Inv
<1>1. Init => Inv
  <2> SUFFICES ASSUME Init PROVE Inv
    OBVIOUS
  <2>1. Typed
    BY DEF Init, Typed
  <2>2. Queued
    BY DEF Init, Queued
  <2>3. ~Changing /\ \A r \in Requests : asked[r] = "no"
    BY DEF Init, Changing, Requests
  <2>4. Steady
    BY <2>3, Names DEF Init, Steady, OneChange, Answered, Agreed, Clicked, Recorded, Empty, Changers, Requests
  <2>5. Outlook
    <3> DEFINE f == [n \in 0 .. 0 |-> Blank]
    <3>1. Len(wire) = 0 /\ wire = <<>> /\ views = Blank /\ gAppName = None /\ app = None
      BY DEF Init
    <3>2. Leads(f, wire)
      BY <3>1 DEF Leads, Course
    <3>3. Shown(f[Len(wire)], app, described, leftTicking)
      BY <3>1 DEF Shown
    <3> QED  BY <3>2, <3>3 DEF Outlook
  <2> QED  BY <2>1, <2>2, <2>4, <2>5 DEF Inv, Calm
<1>2. Inv /\ [Next]_vars => Inv'
  <2> SUFFICES ASSUME Inv, [Next]_vars PROVE Inv'
    OBVIOUS
  <2>1. Typed' /\ Queued' /\ Calm'
    BY TypedStep, QueuedStep, CalmStep DEF Inv
  <2>2. ASSUME ~crossed' PROVE Outlook'
    <3>1. ~crossed
      BY <2>2, StaysCrossed DEF Inv
    <3> QED  BY <2>1, <2>2, <3>1, OutlookStep DEF Inv, Calm
  <2> QED  BY <2>1, <2>2 DEF Inv
<1> QED  BY <1>1, <1>2, PTL DEF Spec

\* When nothing is under way, the window shows what the running app describes, however
\* many messages, timers, rebuilds and restarts there were before (_appPush, appRun).
THEOREM WindowShows == Spec => []WindowShowsApp
<1>1. Inv => WindowShowsApp
  <2> SUFFICES ASSUME Inv, Quiet, ~crossed, leftTicking = {}, gAppName # None
               PROVE  app = gAppName /\ views = described
    BY DEF WindowShowsApp
  <2>1. ~Changing
    BY DEF Quiet, Changing, Requests
  <2>2. app = gAppName
    BY <2>1 DEF Inv, Calm, Steady, Agreed
  <2>3. PICK f : Leads(f, wire) /\ (Awaited => Shown(f[Len(wire)], app, described, leftTicking))
    BY DEF Inv, Outlook
  <2>4. Len(wire) = 0
    BY DEF Quiet
  <2> QED  BY <2>2, <2>3, <2>4 DEF Leads, Course, Awaited, Shown
<1> QED  BY <1>1, InvHolds, PTL

\* When nothing is under way and no app is shown as running, none runs and none of
\* its widgets is left (_appStop, appStop).
THEOREM NothingLeft == Spec => []IdleIsBlank
<1>1. Inv => IdleIsBlank
  <2> SUFFICES ASSUME Inv, Quiet, ~crossed, ~amiss, gAppName = None PROVE app = None /\ views = Blank
    BY DEF IdleIsBlank
  <2>1. ~Changing
    BY DEF Quiet, Changing, Requests
  <2> QED  BY <2>1 DEF Inv, Calm, Steady, Empty
<1> QED  BY <1>1, InvHolds, PTL

\* What is kept for a rebuild of the window is what the window shows (onAppCommand,
\* rebuildUi).
THEOREM RebuildsRestore == Spec => []RebuildRestores
<1>1. Inv => RebuildRestores
  BY DEF Inv, Calm, Steady, Recorded, RebuildRestores
<1> QED  BY <1>1, InvHolds, PTL

\* A click reaches the app on whose widget it was made, or none (appFire, _appEvent).
THEOREM ClicksReachTheirApp == Spec => []EventForItsApp
<1>1. Inv => EventForItsApp
  <2> SUFFICES ASSUME Inv, ~crossed, inbox # <<>>, Head(inbox).request = "event"
               PROVE  app \in {Head(inbox).from, None}
    BY DEF EventForItsApp
  <2>1. Head(inbox) = inbox[1] /\ 1 \in DOMAIN inbox
    BY AtHead DEF Inv, Typed
  <2> QED  BY <2>1 DEF Inv, Calm, Steady, Clicked
<1> QED  BY <1>1, InvHolds, PTL

\* The effect of a click is on the window when its reply is taken: the push was sent
\* before the reply, and nothing overtakes it (_appEvent, _appFlush).
THEOREM EffectsComeFirst == Spec => EffectBeforeReply
<1> DEFINE Shows == (/\ wire # <<>> /\ Head(wire).of = "reply" /\ wire' = Tail(wire)
                     /\ Head(wire).to = "event" /\ Head(wire).ok /\ asked["event"] = "sent"
                     /\ ~crossed /\ gAppName # None)
                      => views.by = gAppName /\ views.version >= Head(wire).version
<1>1. Inv => [Shows]_vars
  <2> SUFFICES ASSUME Inv, wire # <<>>, Head(wire).of = "reply", Head(wire).to = "event", Head(wire).ok,
                      asked["event"] = "sent", ~crossed, gAppName # None
               PROVE  views.by = gAppName /\ views.version >= Head(wire).version
    OBVIOUS
  <2>1. Head(wire) = wire[1] /\ 1 \in 1 .. Len(wire) /\ wire[1] \in Messages
    BY AtHead DEF Inv, Typed
  <2>2. EventOk(wire[1])
    BY <2>1 DEF EventOk
  <2>3. PICK f : Leads(f, wire)
    BY DEF Inv, Outlook
  <2>4. views = [by |-> gAppName, version |-> wire[1].version]
    <3>1. f[1 - 1] = [by |-> gAppName, version |-> wire[1].version] /\ f[0] = views
      BY <2>1, <2>2, <2>3 DEF Leads, Course
    <3> QED  BY <3>1
  <2>5. wire[1].version \in Nat
    BY <2>1, MessageIs
  <2> QED  BY <2>1, <2>4, <2>5
<1>2. EffectBeforeReply <=> [][Shows]_vars
  BY DEF EffectBeforeReply
<1> HIDE DEF Shows
<1> QED  BY <1>1, <1>2, InvHolds, PTL
============================================================================
