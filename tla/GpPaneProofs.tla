---------------------------- MODULE GpPaneProofs ----------------------------
(***************************************************************************)
(* Proofs about GpPane, for worlds of any width, any slots, and any blits  *)
(* and draws: the clipping of a blit, and the buffers of the direct pane.  *)
(***************************************************************************)
EXTENDS GpPane, SequenceTheorems, WellFoundedInduction, NaturalsInduction, TLAPS

\* Induction over the numbers, for a set of them: the least number outside it would
\* follow one inside.
LEMMA Induction ==
  ASSUME NEW T, T \subseteq Nat, 0 \in T, \A n \in T : n + 1 \in T
  PROVE  Nat \subseteq T
<1> DEFINE Out == Nat \ T
<1> SUFFICES ASSUME Out # {} PROVE FALSE
  OBVIOUS
<1>1. PICK x \in Out : \A y \in Out : ~(<<y, x>> \in OpToRel(<, Nat))
  <2>1. Out \subseteq Nat
    OBVIOUS
  <2> HIDE DEF Out
  <2> QED  BY <2>1, NatLessThanWellFounded, WFMin, Zenon
<1>2. x \in Nat /\ x # 0 /\ x - 1 \in Nat /\ x - 1 < x /\ (x - 1) + 1 = x
  OBVIOUS
<1>3. <<x - 1, x>> \in OpToRel(<, Nat)
  BY <1>2, Zenon DEF OpToRel
<1>4. x - 1 \in T
  BY <1>1, <1>2, <1>3, Zenon
<1> QED  BY <1>2, <1>4

---------------------------------------------------------------------------
(* Clipping.                                                               *)

LEMMA MinOfThree ==
  ASSUME NEW x \in Int, NEW y \in Int, NEW z \in Int
  PROVE  /\ Min({x, y, z}) \in {x, y, z}
         /\ Min({x, y, z}) <= x /\ Min({x, y, z}) <= y /\ Min({x, y, z}) <= z
<1>1. \E m \in {x, y, z} : \A n \in {x, y, z} : m <= n
  <2>1. CASE x <= y /\ x <= z
    BY <2>1
  <2>2. CASE y <= x /\ y <= z
    BY <2>2
  <2>3. CASE z <= x /\ z <= y
    BY <2>3
  <2> QED  BY <2>1, <2>2, <2>3
<1> QED  BY <1>1 DEF Min

\* The pixels a clipped blit covers are those of the blit asked for that lie in
\* the world at both ends - a clear's source only if it is on the left of the
\* world -, and source and destination were cut by the same amount.
LEMMA ClippedExactly ==
  ASSUME Width \in Nat, NEW b \in BlitCommand, NEW p \in Int
  PROVE  /\ Clipped(b).sx \in Nat /\ Clipped(b).dx \in Int /\ Clipped(b).w \in Int
         /\ Clipped(b).mode = b.mode /\ Clipped(b).dst = b.dst /\ Clipped(b).value = b.value
         /\ Clipped(b).src = IF b.mode = "clear" THEN b.dst ELSE b.src
         /\ p \in World => /\ Covers(Clipped(b), p) <=> Reaches(b, p)
                           /\ b.mode # "clear" => Source(Clipped(b), p) = Source(b, p)
<1> DEFINE a == IF b.sx < 0 THEN [b EXCEPT !.dx = @ - b.sx, !.w = @ + b.sx, !.sx = 0] ELSE b
           c == ClipLeft(a)
           d == IF c.mode = "clear" THEN [c EXCEPT !.sx = 0, !.src = c.dst] ELSE c
<1>0. /\ b.sx \in Int /\ b.dx \in Int /\ b.w \in Int
  BY DEF BlitCommand
<1>1. /\ DOMAIN a = {"mode", "src", "dst", "sx", "dx", "w", "value"} /\ a.mode = b.mode
      /\ a.src = b.src /\ a.dst = b.dst /\ a.value = b.value
      /\ a.sx = (IF b.sx < 0 THEN 0 ELSE b.sx)
      /\ a.dx = (IF b.sx < 0 THEN b.dx - b.sx ELSE b.dx)
      /\ a.w = (IF b.sx < 0 THEN b.w + b.sx ELSE b.w)
  BY DEF BlitCommand
<1> HIDE DEF a
<1>2. /\ DOMAIN c = {"mode", "src", "dst", "sx", "dx", "w", "value"} /\ c.mode = b.mode
      /\ c.src = b.src /\ c.dst = b.dst /\ c.value = b.value
      /\ c.sx = (IF a.dx < 0 THEN a.sx - a.dx ELSE a.sx)
      /\ c.dx = (IF a.dx < 0 THEN 0 ELSE a.dx)
      /\ c.w = (IF a.dx < 0 THEN a.w + a.dx ELSE a.w)
  BY <1>1 DEF ClipLeft
<1> HIDE DEF c
<1>3. /\ DOMAIN d = {"mode", "src", "dst", "sx", "dx", "w", "value"} /\ d.mode = b.mode
      /\ d.src = (IF b.mode = "clear" THEN b.dst ELSE b.src) /\ d.dst = b.dst /\ d.value = b.value
      /\ d.sx = (IF b.mode = "clear" THEN 0 ELSE c.sx) /\ d.dx = c.dx /\ d.w = c.w
  BY <1>2, Zenon
<1>4. Clipped(b) = [d EXCEPT !.w = Min({@, Width - d.sx, Width - d.dx})]
  BY DEF Clipped, a, c
<1> HIDE DEF d
<1>5. /\ Clipped(b).sx = d.sx /\ Clipped(b).dx = d.dx
      /\ Clipped(b).w = Min({d.w, Width - d.sx, Width - d.dx})
      /\ Clipped(b).mode = b.mode /\ Clipped(b).dst = b.dst /\ Clipped(b).value = b.value
      /\ Clipped(b).src = IF b.mode = "clear" THEN b.dst ELSE b.src
  BY <1>3, <1>4
<1>6. /\ d.sx \in Nat /\ d.dx \in Int /\ d.w \in Int
      /\ a.sx \in Int /\ a.dx \in Int /\ a.w \in Int
  <2>1. a.sx \in Int /\ a.dx \in Int /\ a.w \in Int
    BY <1>0, <1>1
  <2>2. c.sx \in Nat /\ c.dx \in Int /\ c.w \in Int
    BY <1>0, <1>1, <1>2, <2>1
  <2> QED  BY <1>3, <2>1, <2>2
<1>7. /\ Clipped(b).w \in {d.w, Width - d.sx, Width - d.dx}
      /\ Clipped(b).w <= d.w /\ Clipped(b).w <= Width - d.sx /\ Clipped(b).w <= Width - d.dx
  <2> DEFINE x == d.w
             y == Width - d.sx
             z == Width - d.dx
  <2>1. x \in Int /\ y \in Int /\ z \in Int
    BY <1>6
  <2>2. Clipped(b).w = Min({x, y, z})
    BY <1>5
  <2> HIDE DEF x, y, z
  <2>3. Min({x, y, z}) \in {x, y, z} /\ Min({x, y, z}) <= x /\ Min({x, y, z}) <= y /\ Min({x, y, z}) <= z
    BY <2>1, MinOfThree, Zenon
  <2> QED  BY <2>2, <2>3 DEF x, y, z
<1>8. ASSUME p \in World
      PROVE  /\ Covers(Clipped(b), p) <=> Reaches(b, p)
             /\ b.mode # "clear" => Source(Clipped(b), p) = Source(b, p)
  <2>0. 0 <= p /\ p < Width
    BY <1>8 DEF World
  <2>1. Covers(Clipped(b), p) <=> (d.dx <= p /\ p < d.dx + d.w /\ p - d.dx + d.sx < Width)
    BY <1>0, <1>5, <1>6, <1>7, <2>0 DEF Covers
  <2>2. CASE b.mode = "clear"
    <3>1. /\ d.sx = 0 /\ d.dx + d.w = b.dx + b.w /\ 0 <= d.dx
          /\ (d.dx <= p) <=> (b.dx <= p /\ 0 <= p - b.dx + b.sx)
      BY <1>0, <1>1, <1>2, <1>3, <2>0, <2>2
    <3>2. (d.dx <= p /\ p < d.dx + d.w /\ p - d.dx + d.sx < Width) <=> Reaches(b, p)
      <4>1. p - d.dx + d.sx < Width /\ (p < d.dx + d.w <=> p < b.dx + b.w)
        BY <1>0, <1>6, <2>0, <2>2, <3>1
      <4>2. p - b.dx + b.sx \in World => 0 <= p - b.dx + b.sx
        BY DEF World
      <4>3. Reaches(b, p) <=> Covers(b, p) /\ 0 <= p - b.dx + b.sx
        BY <1>0, <2>2, <4>2 DEF Reaches, Source
      <4> QED  BY <3>1, <4>1, <4>3 DEF Covers
    <3> QED  BY <2>1, <2>2, <3>2
  <2>3. CASE b.mode # "clear"
    <3>1. d.sx = c.sx /\ d.dx = c.dx /\ d.w = c.w
      BY <1>3, <2>3
    <3>2. /\ d.sx - d.dx = b.sx - b.dx /\ d.dx + d.w = b.dx + b.w
          /\ (d.dx <= p) <=> (b.dx <= p /\ 0 <= p - b.dx + b.sx)
      <4>1. /\ a.sx - a.dx = b.sx - b.dx /\ a.dx + a.w = b.dx + b.w
            /\ (a.dx <= p) <=> (b.dx <= p /\ 0 <= p - b.dx + b.sx)
        BY <1>0, <1>1
      <4>2. /\ c.sx - c.dx = a.sx - a.dx /\ c.dx + c.w = a.dx + a.w
            /\ (c.dx <= p) <=> (a.dx <= p)
        BY <1>0, <1>2, <1>6, <2>0
      <4> QED  BY <3>1, <4>1, <4>2
    <3>3. p - d.dx + d.sx = p - b.dx + b.sx
      BY <1>0, <1>6, <3>2
    <3>4. p - b.dx + b.sx \in World <=> (0 <= p - b.dx + b.sx /\ p - b.dx + b.sx < Width)
      BY <1>0 DEF World
    <3>5. (d.dx <= p /\ p < d.dx + d.w /\ p - d.dx + d.sx < Width) <=> Reaches(b, p)
      BY <1>0, <1>6, <2>3, <3>2, <3>3, <3>4 DEF Reaches, Covers, Source
    <3> QED  BY <1>5, <2>1, <2>3, <3>3, <3>5 DEF Source
  <2> QED  BY <2>2, <2>3
<1>9. Clipped(b).w \in Int
  BY <1>6, <1>7
<1> QED  BY <1>5, <1>6, <1>8, <1>9

\* Blitted is what its recursion says: a pixel depends on pixels on its left only.
Pixel(b, src, dst, row, p) ==
  IF Covers(b, p)
  THEN Combined(b, IF b.src = b.dst /\ Source(b, p) < p THEN row[Source(b, p)]
                   ELSE src[Source(b, p)], dst[p])
  ELSE dst[p]

LEMMA RowIs ==
  ASSUME Width \in Nat, NEW b, b.sx \in Nat, b.dx \in Int, NEW src, NEW dst
  PROVE  Blitted(b, src, dst) = [p \in World |-> Pixel(b, src, dst, Blitted(b, src, dst), p)]
<1> DEFINE Row(row, k) == row = [p \in 0 .. k - 1 |-> Pixel(b, src, dst, row, p)]
           T == {k \in Nat : \E row : Row(row, k)}
<1>1. 0 \in T
  <2> DEFINE row == [p \in 0 .. 0 - 1 |-> 0]
  <2>1. 0 .. 0 - 1 = {}
    OBVIOUS
  <2>2. Row(row, 0)
    BY <2>1, Zenon
  <2> QED  BY <2>2
<1>2. ASSUME NEW k \in T PROVE k + 1 \in T
  <2>1. PICK row : Row(row, k)
    OBVIOUS
  <2> DEFINE next == [p \in 0 .. k |-> IF p = k THEN Pixel(b, src, dst, row, k) ELSE row[p]]
  <2>2. k \in Nat /\ k + 1 \in Nat /\ (k + 1) - 1 = k
    OBVIOUS
  <2>3. ASSUME NEW p \in 0 .. k PROVE next[p] = Pixel(b, src, dst, next, p)
    <3>1. next[p] = Pixel(b, src, dst, row, p)
      <4>1. p # k => p \in 0 .. k - 1
        BY <2>2
      <4>2. p # k => row[p] = Pixel(b, src, dst, row, p)
        BY <2>1, <4>1, Zenon
      <4>3. next[p] = IF p = k THEN Pixel(b, src, dst, row, k) ELSE row[p]
        BY Zenon
      <4> QED  BY <4>2, <4>3, Zenon
    <3>2. Covers(b, p) /\ Source(b, p) < p => row[Source(b, p)] = next[Source(b, p)]
      <4>1. Covers(b, p) /\ Source(b, p) < p => Source(b, p) \in 0 .. k /\ Source(b, p) # k
        BY <2>2 DEF Covers, Source
      <4> QED  BY <4>1
    <3> HIDE DEF next
    <3> QED  BY <3>1, <3>2 DEF Pixel
  <2> HIDE DEF next
  <2>4. DOMAIN next = 0 .. k /\ next = [p \in 0 .. k |-> next[p]]
    BY DEF next
  <2>5. Row(next, k + 1)
    BY <2>2, <2>3, <2>4
  <2> HIDE DEF Row
  <2> QED  BY <2>2, <2>5
<1>3. Nat \subseteq T
  <2> HIDE DEF T
  <2>1. T \subseteq Nat
    BY DEF T
  <2> QED  BY <1>1, <1>2, <2>1, Induction
<1>4. \E row : row = [p \in World |-> Pixel(b, src, dst, row, p)]
  BY <1>3 DEF World
<1>5. Blitted(b, src, dst) = CHOOSE row : row = [p \in World |-> Pixel(b, src, dst, row, p)]
  BY DEF Blitted, Pixel
<1> QED  BY <1>4, <1>5, Zenon

\* Every slot has a buffer.
Domain == DOMAIN buffers = Slots

LEMMA DomainStep == Domain /\ [Next]_vars => Domain'
<1> USE DEF Domain
<1> SUFFICES ASSUME DOMAIN buffers = Slots, [Next]_vars PROVE DOMAIN buffers' = Slots
  OBVIOUS
<1>1. ASSUME NEW kind \in {"indexed", "direct"}, Reopen(kind) PROVE DOMAIN buffers' = Slots
  BY <1>1 DEF Reopen, Fresh
<1>2. CASE BeginFrame
  BY <1>2 DEF BeginFrame, slotVars
<1>3. CASE Present
  BY <1>3 DEF Present, slotVars
<1>4. CASE PresentDirect
  BY <1>4 DEF PresentDirect, slotVars
<1>5. ASSUME NEW d \in Draws, Draw(d) PROVE DOMAIN buffers' = Slots
  BY <1>5 DEF Draw, Drawn
<1>6. ASSUME NEW s \in Slots, SetActive(s) PROVE DOMAIN buffers' = Slots
  BY <1>6 DEF SetActive
<1>7. CASE SwapBuffers
  BY <1>7 DEF SwapBuffers, Swapped
<1>8. ASSUME NEW b \in Blits, Blit(b) PROVE DOMAIN buffers' = Slots
  BY <1>8 DEF Blit, Encode
<1>9. CASE GameSends
  BY <1>9 DEF GameSends, slotVars
<1>10. CASE GpuStep
  BY <1>10 DEF GpuStep, slotVars
<1>11. CASE UNCHANGED vars
  BY <1>11 DEF vars
<1>12. ASSUME NEW b \in Blits, BlitOutside(b) PROVE DOMAIN buffers' = Slots
  BY <1>12 DEF BlitOutside, slotVars
<1>13. CASE GpuRace
  BY <1>13 DEF GpuRace
<1> QED
  BY <1>1, <1>2, <1>3, <1>4, <1>5, <1>6, <1>7, <1>8, <1>9, <1>10, <1>11, <1>12, <1>13 DEF Next

\* Whatever the width of the world, wherever a blit starts and ends, within one slot or
\* between two, the mirror gets the pixels it would get in a world without edges
\* (GpBlitter::blit).
THEOREM BlitsAreExact == Spec => BlitExact
<1> DEFINE Asked(b, p) ==
             LET q     == Source(b, p)
                 old   == buffers[b.dst][p]
                 pixel == IF b.mode = "clear" THEN b.value
                          ELSE IF b.src = b.dst /\ q < p THEN buffers'[b.dst][q]
                          ELSE buffers[b.src][q]
             IN  buffers'[b.dst][p] = IF Reaches(b, p) THEN Combined(b, pixel, old) ELSE old
           Exact == \A b \in Blits : Blit(b) \/ BlitOutside(b) => \A p \in World : Asked(b, p)
<1>1. Init => Domain
  BY DEF Init, Domain
<1>2. Domain => [Exact]_vars
  <2> SUFFICES ASSUME DOMAIN buffers = Slots, NEW b \in Blits, Blit(b) \/ BlitOutside(b), NEW p \in World
               PROVE  Asked(b, p)
    BY DEF Domain
  <2> DEFINE c == Clipped(b)
  <2>1. b \in BlitCommand /\ Width \in Nat /\ b.dst \in Slots
    BY PaneAssumption DEF BlitCommand
  <2>2. /\ Covers(c, p) <=> Reaches(b, p)
        /\ c.sx \in Nat /\ c.dx \in Int /\ c.w \in Int
        /\ b.mode # "clear" => Source(c, p) = Source(b, p)
        /\ c.mode = b.mode /\ c.dst = b.dst /\ c.value = b.value
        /\ c.src = IF b.mode = "clear" THEN b.dst ELSE b.src
    <3>1. p \in Int
      BY DEF World
    <3> QED  BY <2>1, <3>1, ClippedExactly, Zenon
  <2>3. CASE Blit(b)
    <3> DEFINE row == Blitted(c, buffers[c.src], buffers[c.dst])
    <3>1. buffers' = [buffers EXCEPT ![c.dst] = row]
      BY <2>3 DEF Blit, Encode
    <3>2. row = [r \in World |-> Pixel(c, buffers[c.src], buffers[c.dst], row, r)]
      BY <2>1, <2>2, RowIs
    <3> HIDE DEF c, row
    <3>3. buffers'[b.dst] = row
      BY <2>1, <2>2, <3>1
    <3>4. buffers'[b.dst][p] = Pixel(c, buffers[c.src], buffers[c.dst], row, p)
      BY <3>2, <3>3
    <3>5. CASE Reaches(b, p) /\ b.mode = "clear"
      BY <2>2, <3>4, <3>5 DEF Pixel, Combined
    <3>6. CASE Reaches(b, p) /\ b.mode # "clear"
      <4>1. \A x, y : Combined(c, x, y) = Combined(b, x, y)
        BY <2>2, <3>6 DEF Combined
      <4> QED  BY <2>2, <3>3, <3>4, <3>6, <4>1 DEF Pixel
    <3>7. CASE ~Reaches(b, p)
      BY <2>2, <3>4, <3>7 DEF Pixel
    <3> QED  BY <3>5, <3>6, <3>7
  <2>4. CASE BlitOutside(b)
    <3>1. c.w <= 0 /\ buffers' = buffers
      BY <2>4 DEF BlitOutside, slotVars
    <3> HIDE DEF c
    <3>2. p \in Int
      BY DEF World
    <3>3. ~Covers(c, p)
      BY <2>2, <3>1, <3>2 DEF Covers
    <3> QED  BY <2>2, <3>1, <3>3
  <2> QED  BY <2>3, <2>4
<1>3. BlitExact <=> [][Exact]_vars
  BY DEF BlitExact
<1> HIDE DEF Exact
<1> QED  BY <1>1, <1>2, <1>3, DomainStep, PTL DEF Spec

---------------------------------------------------------------------------
(* The direct pane.                                                        *)

\* Two steps around the buffers do not come back to where they started.
LEMMA ThreeTurns ==
  ASSUME NEW i \in 0 .. kBuffers - 1
  PROVE  /\ NextBuffer(i) \in 0 .. kBuffers - 1
         /\ NextBuffer(i) # i
         /\ NextBuffer(NextBuffer(i)) # i
<1>1. i = 0 \/ i = 1 \/ i = 2
  BY DEF kBuffers
<1>2. NextBuffer(0) = 1 /\ NextBuffer(1) = 2 /\ NextBuffer(2) = 0
  BY DEF NextBuffer, kBuffers
<1> QED  BY <1>1, <1>2 DEF kBuffers

\* What waits for the GPU was rendered from one buffer after the other, and the
\* next one is the game's.
Turns ==
  /\ write \in 0 .. kBuffers - 1
  /\ game = "writes" => target = write
  /\ pane = "direct" =>
       /\ submitted \in Seq([k : {"render"}, buffer : 0 .. kBuffers - 1])
       /\ \A i \in 1 .. Len(submitted) :
            NextBuffer(submitted[i].buffer) =
              IF i = Len(submitted) THEN write ELSE submitted[i + 1].buffer

LEMMA TurnsStep == Turns /\ [Next]_vars => Turns'
<1> SUFFICES ASSUME Turns, [Next]_vars PROVE Turns'
  OBVIOUS
<1>1. ASSUME NEW kind \in {"indexed", "direct"}, Reopen(kind) PROVE Turns'
  BY <1>1 DEF Reopen, Fresh, Turns, kBuffers
<1>2. CASE BeginFrame
  BY <1>2 DEF BeginFrame, directVars, Turns
<1>3. CASE Present
  BY <1>3 DEF Present, directVars, Turns
<1>4. CASE PresentDirect
  <2> DEFINE r == [k |-> "render", buffer |-> write]
  <2>1. /\ pane = "direct" /\ pane' = pane /\ submitted' = Append(submitted, r)
        /\ write' = NextBuffer(write) /\ target' = write'
    BY <1>4 DEF PresentDirect
  <2>2. write' \in 0 .. kBuffers - 1
    BY <2>1, ThreeTurns DEF Turns
  <2>3. r \in [k : {"render"}, buffer : 0 .. kBuffers - 1]
    BY DEF Turns
  <2>4. /\ submitted \in Seq([k : {"render"}, buffer : 0 .. kBuffers - 1])
        /\ Len(submitted) \in Nat
    BY <2>1 DEF Turns
  <2>5. /\ submitted' \in Seq([k : {"render"}, buffer : 0 .. kBuffers - 1])
        /\ Len(submitted') = Len(submitted) + 1
        /\ submitted'[Len(submitted) + 1] = r
        /\ \A i \in 1 .. Len(submitted) : submitted'[i] = submitted[i]
    BY <2>1, <2>3, <2>4
  <2>6. ASSUME NEW i \in 1 .. Len(submitted')
        PROVE  NextBuffer(submitted'[i].buffer) =
                 IF i = Len(submitted') THEN write' ELSE submitted'[i + 1].buffer
    <3>1. CASE i = Len(submitted) + 1
      BY <3>1, <2>1, <2>5
    <3>2. CASE i = Len(submitted)
      <4>1. i \in 1 .. Len(submitted) /\ i # Len(submitted') /\ i + 1 = Len(submitted) + 1
        BY <3>2, <2>4, <2>5
      <4>2. NextBuffer(submitted[i].buffer) = write
        BY <3>2, <4>1, <2>1 DEF Turns
      <4>3. submitted'[i] = submitted[i] /\ submitted'[i + 1].buffer = write
        BY <4>1, <2>5
      <4> QED  BY <4>1, <4>2, <4>3
    <3>3. CASE i \in 1 .. Len(submitted) - 1
      <4> DEFINE n == Len(submitted)
      <4>0. n \in Nat /\ Len(submitted') = n + 1
        BY <2>4, <2>5, Zenon
      <4> HIDE DEF n
      <4>1. i + 1 \in 1 .. n /\ i # n /\ i # Len(submitted') /\ i \in 1 .. n
        BY <3>3, <4>0 DEF n
      <4>2. i \in 1 .. Len(submitted) /\ i + 1 \in 1 .. Len(submitted)
        BY <4>1 DEF n
      <4>3. \A j \in 1 .. Len(submitted) : submitted'[j] = submitted[j]
        BY <2>5
      <4>4. submitted'[i] = submitted[i]
        BY <4>2, <4>3
      <4>5. submitted'[i + 1] = submitted[i + 1]
        BY <4>2, <4>3
      <4>6. NextBuffer(submitted[i].buffer) = submitted[i + 1].buffer
        BY <4>1, <4>2, <2>1 DEF Turns, n
      <4> QED  BY <4>1, <4>4, <4>5, <4>6
    <3>4. i = Len(submitted) + 1 \/ i = Len(submitted) \/ i \in 1 .. Len(submitted) - 1
      <4> DEFINE n == Len(submitted)
      <4>1. n \in Nat /\ Len(submitted') = n + 1
        BY <2>4, <2>5, Zenon
      <4> HIDE DEF n
      <4>2. i = n + 1 \/ i = n \/ i \in 1 .. n - 1
        BY <4>1
      <4> QED  BY <4>2 DEF n
    <3> QED  BY <3>1, <3>2, <3>3, <3>4
  <2> QED  BY <2>1, <2>2, <2>5, <2>6 DEF Turns
<1>5. ASSUME NEW d \in Draws, Draw(d) PROVE Turns'
  BY <1>5 DEF Draw, Command, directVars, Turns
<1>6. ASSUME NEW s \in Slots, SetActive(s) PROVE Turns'
  BY <1>6 DEF SetActive, Command, directVars, Turns
<1>7. CASE SwapBuffers
  BY <1>7 DEF SwapBuffers, Command, directVars, Turns
<1>8. ASSUME NEW b \in Blits, Blit(b) PROVE Turns'
  BY <1>8 DEF Blit, Command, directVars, Turns
<1>9. CASE GameSends
  BY <1>9 DEF GameSends, Turns
<1>10. CASE GpuStep
  <2>1. CASE pane = "direct"
    <3>1. /\ submitted \in Seq([k : {"render"}, buffer : 0 .. kBuffers - 1])
          /\ submitted # <<>> /\ submitted' = Tail(submitted)
          /\ pane' = pane /\ write' = write /\ game' = game /\ target' = target
      BY <1>10, <2>1 DEF GpuStep, directVars, Turns
    <3>2. /\ submitted' \in Seq([k : {"render"}, buffer : 0 .. kBuffers - 1])
          /\ Len(submitted) \in Nat /\ Len(submitted') = Len(submitted) - 1
          /\ \A i \in 1 .. Len(submitted') : submitted'[i] = submitted[i + 1]
      BY <3>1
    <3>3. ASSUME NEW i \in 1 .. Len(submitted')
          PROVE  NextBuffer(submitted'[i].buffer) =
                   IF i = Len(submitted') THEN write' ELSE submitted'[i + 1].buffer
      <4>1. i + 1 \in 1 .. Len(submitted) /\ submitted'[i] = submitted[i + 1]
            /\ (i + 1 = Len(submitted) <=> i = Len(submitted'))
        BY <3>2
      <4>2. i # Len(submitted') => submitted'[i + 1] = submitted[(i + 1) + 1]
        BY <3>2
      <4> QED  BY <4>1, <4>2, <3>1, <2>1 DEF Turns
    <3> QED  BY <3>1, <3>2, <3>3 DEF Turns
  <2>2. CASE pane # "direct"
    BY <1>10, <2>2 DEF GpuStep, directVars, Turns
  <2> QED  BY <2>1, <2>2
<1>11. CASE UNCHANGED vars
  BY <1>11 DEF vars, Turns
<1>12. ASSUME NEW b \in Blits, BlitOutside(b) PROVE Turns'
  BY <1>12 DEF BlitOutside, Command, directVars, Turns
<1>13. CASE GpuRace
  <2>1. pane # "direct"
    <3> SUFFICES ASSUME pane = "direct" PROVE FALSE
      OBVIOUS
    <3>1. submitted \in Seq([k : {"render"}, buffer : 0 .. kBuffers - 1]) /\ submitted # <<>>
      BY <1>13 DEF GpuRace, Turns
    <3>2. Head(submitted) \in [k : {"render"}, buffer : 0 .. kBuffers - 1]
      BY <3>1, HeadTailProperties, Zenon
    <3> QED  BY <1>13, <3>2 DEF GpuRace
  <2> QED  BY <1>13, <2>1 DEF GpuRace, directVars, Turns
<1> QED
  BY <1>1, <1>2, <1>3, <1>4, <1>5, <1>6, <1>7, <1>8, <1>9, <1>10, <1>11, <1>12, <1>13 DEF Next

\* The game gets a buffer that the GPU still has to read only when the GPU is three
\* frames behind, as many as there are buffers: fewer, and the buffer is its own,
\* however the GPU and the game take turns (GpDirectPane; with three, DirectBuffersFree
\* does not hold).
THEOREM RaceNeedsThreeFrames == Spec => [](DirectBuffersFree \/ Len(submitted) >= kBuffers)
<1>1. Init => Turns
  BY DEF Init, Turns, kBuffers
<1>2. Turns => DirectBuffersFree \/ Len(submitted) >= kBuffers
  <2> SUFFICES ASSUME Turns, pane = "direct", game = "writes",
                      NEW i \in DOMAIN submitted, submitted[i].buffer = write
               PROVE  Len(submitted) >= kBuffers
    BY DEF Turns, DirectBuffersFree
  <2>0. submitted \in Seq([k : {"render"}, buffer : 0 .. kBuffers - 1])
    BY DEF Turns
  <2>1. /\ Len(submitted) \in Nat /\ i \in 1 .. Len(submitted)
        /\ \A j \in 1 .. Len(submitted) : submitted[j].buffer \in 0 .. kBuffers - 1
    <3>1. Len(submitted) \in Nat /\ DOMAIN submitted = 1 .. Len(submitted)
      BY <2>0
    <3>2. ASSUME NEW j \in 1 .. Len(submitted)
          PROVE  submitted[j].buffer \in 0 .. kBuffers - 1
      <4>1. submitted[j] \in [k : {"render"}, buffer : 0 .. kBuffers - 1]
        BY <2>0, ElementOfSeq, Zenon
      <4> QED  BY <4>1
    <3> QED  BY <3>1, <3>2
  <2>2. i # Len(submitted)
    BY <2>1, ThreeTurns DEF Turns
  <2>3. i + 1 \in 1 .. Len(submitted) /\ NextBuffer(write) = submitted[i + 1].buffer
    BY <2>1, <2>2 DEF Turns
  <2>4. i + 1 # Len(submitted)
    BY <2>1, <2>3, ThreeTurns DEF Turns
  <2> QED  BY <2>1, <2>3, <2>4 DEF kBuffers
<1> QED  BY <1>1, <1>2, TurnsStep, PTL DEF Spec

---------------------------------------------------------------------------
(* What the GPU makes of the work that waits for it.                       *)

\* f is what the textures hold after each of the operations of q.
Stages(f, c, q) == f = [n \in 0 .. Len(q) |-> IF n = 0 THEN c ELSE Kernel(f[n - 1], q[n])]

LEMMA StagesExist ==
  ASSUME NEW c, NEW q, Len(q) \in Nat
  PROVE  \E f : Stages(f, c, q)
<1> DEFINE Part(f, k) == f = [n \in 0 .. k |-> IF n = 0 THEN c ELSE Kernel(f[n - 1], q[n])]
           T == {k \in Nat : \E f : Part(f, k)}
<1>1. 0 \in T
  <2> DEFINE f == [n \in 0 .. 0 |-> c]
  <2>1. Part(f, 0)
    OBVIOUS
  <2> QED  BY <2>1
<1>2. ASSUME NEW k \in T PROVE k + 1 \in T
  <2>1. PICK f : Part(f, k)
    OBVIOUS
  <2> DEFINE g == [n \in 0 .. k + 1 |-> IF n = k + 1 THEN Kernel(f[k], q[k + 1]) ELSE f[n]]
  <2>2. ASSUME NEW n \in 0 .. k + 1 PROVE g[n] = IF n = 0 THEN c ELSE Kernel(g[n - 1], q[n])
    BY <2>1
  <2>3. Part(g, k + 1)
    BY <2>2
  <2>4. k + 1 \in Nat
    OBVIOUS
  <2> HIDE DEF Part, g
  <2> QED  BY <2>3, <2>4
<1>3. Nat \subseteq T
  <2> HIDE DEF T
  <2>1. T \subseteq Nat
    BY DEF T
  <2> QED  BY <1>1, <1>2, <2>1, Induction
<1> QED  BY <1>3 DEF Stages

Steps(f, c, q) == f[0] = c /\ \A n \in 1 .. Len(q) : f[n] = Kernel(f[n - 1], q[n])

LEMMA RunIs ==
  ASSUME NEW c, NEW q, Len(q) \in Nat
  PROVE  \E f : Run(c, q) = f[Len(q)] /\ Steps(f, c, q)
<1> DEFINE f == CHOOSE f : f = [n \in 0 .. Len(q) |-> IF n = 0 THEN c ELSE Kernel(f[n - 1], q[n])]
<1>1. Stages(f, c, q)
  BY StagesExist DEF Stages
<1>2. Run(c, q) = f[Len(q)]
  BY DEF Run
<1> HIDE DEF f
<1>3. Steps(f, c, q)
  BY <1>1 DEF Stages, Steps
<1> QED  BY <1>1, <1>2, <1>3

\* No operation, and one operation more at the end.
LEMMA RunNone == ASSUME NEW c PROVE Run(c, <<>>) = c
  BY RunIs DEF Steps

LEMMA RunLast ==
  ASSUME NEW S, NEW q \in Seq(S), NEW o \in S, NEW c
  PROVE  Run(c, Append(q, o)) = Kernel(Run(c, q), o)
<1> DEFINE r == Append(q, o)
<1>1. Len(q) \in Nat /\ Len(r) = Len(q) + 1 /\ r[Len(q) + 1] = o /\ \A i \in 1 .. Len(q) : r[i] = q[i]
  BY AppendProperties, LenProperties
<1> HIDE DEF r
<1>2. PICK f : Run(c, q) = f[Len(q)] /\ Steps(f, c, q)
  BY <1>1, RunIs
<1>3. PICK g : Run(c, r) = g[Len(r)] /\ Steps(g, c, r)
  BY <1>1, RunIs
<1> USE DEF Steps
<1> DEFINE T == {k \in Nat : k <= Len(q) => f[k] = g[k]}
<1>4. 0 \in T
  BY <1>2, <1>3
<1>5. ASSUME NEW k \in T PROVE k + 1 \in T
  <2>1. ASSUME k + 1 <= Len(q) PROVE f[k + 1] = g[k + 1]
    <3>1. k + 1 \in 1 .. Len(q) /\ k + 1 \in 1 .. Len(r) /\ (k + 1) - 1 = k /\ f[k] = g[k]
      BY <1>1, <2>1
    <3> QED  BY <1>1, <1>2, <1>3, <3>1
  <2> QED  BY <2>1
<1>6. f[Len(q)] = g[Len(q)]
  <2>1. T \subseteq Nat /\ (Nat \subseteq T => f[Len(q)] = g[Len(q)])
    BY <1>1
  <2> HIDE DEF T
  <2> QED  BY <1>4, <1>5, <2>1, Induction
<1>7. Len(r) \in 1 .. Len(r) /\ Len(r) - 1 = Len(q)
  BY <1>1
<1>8. g[Len(r)] = Kernel(g[Len(q)], r[Len(r)])
  BY <1>3, <1>7
<1> QED  BY <1>1, <1>2, <1>3, <1>6, <1>8 DEF r

\* The first operation is done before the others.
LEMMA RunFirst ==
  ASSUME NEW c, NEW q, NEW r, Len(q) \in Nat, Len(r) \in Nat, Len(q) = Len(r) + 1,
         \A i \in 1 .. Len(r) : r[i] = q[i + 1]
  PROVE  Run(Kernel(c, q[1]), r) = Run(c, q)
<1>2. PICK f : Run(c, q) = f[Len(q)] /\ Steps(f, c, q)
  BY RunIs
<1> DEFINE d == Kernel(c, q[1])
<1> HIDE DEF d
<1>3. PICK g : Run(d, r) = g[Len(r)] /\ Steps(g, d, r)
  BY RunIs
<1> USE DEF Steps
<1> DEFINE T == {k \in Nat : k <= Len(r) => g[k] = f[k + 1]}
<1>4. 0 \in T
  <2>1. 1 \in 1 .. Len(q) /\ 1 - 1 = 0 /\ 0 + 1 = 1
    OBVIOUS
  <2>2. f[1] = Kernel(f[0], q[1])
    BY <1>2, <2>1
  <2> QED  BY <1>2, <1>3, <2>1, <2>2 DEF d
<1>5. ASSUME NEW k \in T PROVE k + 1 \in T
  <2>1. ASSUME k + 1 <= Len(r) PROVE g[k + 1] = f[(k + 1) + 1]
    <3>1. /\ k + 1 \in 1 .. Len(r) /\ (k + 1) + 1 \in 1 .. Len(q)
          /\ (k + 1) - 1 = k /\ ((k + 1) + 1) - 1 = k + 1 /\ g[k] = f[k + 1]
      BY <2>1
    <3>2. g[k + 1] = Kernel(g[k], r[k + 1])
      BY <1>3, <3>1
    <3>3. f[(k + 1) + 1] = Kernel(f[k + 1], q[(k + 1) + 1])
      BY <1>2, <3>1
    <3> QED  BY <3>1, <3>2, <3>3
  <2> QED  BY <2>1
<1>6. g[Len(r)] = f[Len(r) + 1]
  <2>1. T \subseteq Nat /\ (Nat \subseteq T => g[Len(r)] = f[Len(r) + 1])
    OBVIOUS
  <2> HIDE DEF T
  <2> QED  BY <1>4, <1>5, <2>1, Induction
<1> QED  BY <1>2, <1>3, <1>6 DEF d

\* An operation that is no render names two textures.
Work == [k : {"render"}] \union [k : {"render"}, buffer : Nat]
          \union [k : {"blit"}, b : {Clipped(b) : b \in Blits}, from : Slots, to : Slots]

\* A kernel changes the texture it writes, and no other.
LEMMA KernelIs ==
  ASSUME NEW c, DOMAIN c = Slots, NEW o \in Work
  PROVE  /\ DOMAIN Kernel(c, o) = Slots
         /\ o.k # "blit" => Kernel(c, o) = c
         /\ o.k = "blit" => /\ o.from \in Slots /\ o.to \in Slots
                           /\ \A t \in Slots : Kernel(c, o)[t] =
                                IF t = o.to THEN Blitted(o.b, c[o.from], c[o.to]) ELSE c[t]
<1>1. CASE o.k = "render"
  BY <1>1 DEF Kernel
<1>2. CASE o.k = "blit"
  <2>1. o.from \in Slots /\ o.to \in Slots
    BY <1>2 DEF Work
  <2>2. Kernel(c, o) = [c EXCEPT ![o.to] = Blitted(o.b, c[o.from], c[o.to])]
    BY <1>2 DEF Kernel
  <2> QED  BY <1>2, <2>1, <2>2
<1> QED  BY <1>1, <1>2 DEF Work

\* The textures that the operations of q read or write, and those they write.
Touched(q) == {q[i].from : i \in {j \in DOMAIN q : q[j].k = "blit"}}
                \union {q[i].to : i \in {j \in DOMAIN q : q[j].k = "blit"}}
Written(q) == {q[i].to : i \in {j \in DOMAIN q : q[j].k = "blit"}}

\* What is not written stays, and what is not touched can be exchanged beforehand.
LEMMA RunKeeps ==
  ASSUME NEW c, DOMAIN c = Slots, NEW q \in Seq(Work)
  PROVE  /\ DOMAIN Run(c, q) = Slots
         /\ \A t \in Slots \ Written(q) : Run(c, q)[t] = c[t]
<1>0. Len(q) \in Nat
  BY LenProperties
<1>1. Len(q) \in Nat /\ DOMAIN q = 1 .. Len(q) /\ \A i \in 1 .. Len(q) : q[i] \in Work
  <2> HIDE DEF Work
  <2> QED  BY LenProperties, ElementOfSeq
<1>2. PICK f : Run(c, q) = f[Len(q)] /\ Steps(f, c, q)
  BY <1>0, RunIs, Zenon
<1> USE DEF Steps
<1> DEFINE Good(k) == DOMAIN f[k] = Slots /\ \A t \in Slots \ Written(q) : f[k][t] = c[t]
           T == {k \in Nat : k <= Len(q) => Good(k)}
<1>3. 0 \in T
  BY <1>2
<1>4. ASSUME NEW k \in T PROVE k + 1 \in T
  <2>1. ASSUME k + 1 <= Len(q) PROVE Good(k + 1)
    <3>1. k + 1 \in 1 .. Len(q) /\ (k + 1) - 1 = k /\ Good(k)
      BY <1>1, <2>1
    <3> DEFINE o == q[k + 1]
               d == f[k]
    <3>2. f[k + 1] = Kernel(d, o) /\ o \in Work /\ DOMAIN d = Slots
      BY <1>1, <1>2, <3>1
    <3>3. o.k = "blit" => o.to \in Written(q)
      BY <1>1, <3>1 DEF Written
    <3>4. \A t \in Slots \ Written(q) : d[t] = c[t]
      BY <3>1
    <3> HIDE DEF o, d
    <3>5. DOMAIN Kernel(d, o) = Slots /\ \A t \in Slots \ Written(q) : Kernel(d, o)[t] = d[t]
      BY <3>2, <3>3, KernelIs
    <3> QED  BY <3>2, <3>4, <3>5
  <2> HIDE DEF Good
  <2> QED  BY <2>1
<1>5. Good(Len(q))
  <2>1. T \subseteq Nat /\ (Nat \subseteq T => Good(Len(q)))
    BY <1>1
  <2> HIDE DEF T
  <2> QED  BY <1>3, <1>4, <2>1, Induction
<1> QED  BY <1>2, <1>5

LEMMA RunApart ==
  ASSUME NEW c, NEW e, DOMAIN c = Slots, DOMAIN e = Slots, NEW q \in Seq(Work),
         NEW S, S \intersect Touched(q) = {}, \A t \in Slots \ S : c[t] = e[t]
  PROVE  \A t \in Slots \ S : Run(c, q)[t] = Run(e, q)[t]
<1>0. Len(q) \in Nat
  BY LenProperties
<1>1. Len(q) \in Nat /\ DOMAIN q = 1 .. Len(q) /\ \A i \in 1 .. Len(q) : q[i] \in Work
  <2> HIDE DEF Work
  <2> QED  BY LenProperties, ElementOfSeq
<1>2. PICK f : Run(c, q) = f[Len(q)] /\ Steps(f, c, q)
  BY <1>0, RunIs, Zenon
<1>3. PICK g : Run(e, q) = g[Len(q)] /\ Steps(g, e, q)
  BY <1>0, RunIs, Zenon
<1> USE DEF Steps
<1> DEFINE Good(k) == DOMAIN f[k] = Slots /\ DOMAIN g[k] = Slots /\ \A t \in Slots \ S : f[k][t] = g[k][t]
           T == {k \in Nat : k <= Len(q) => Good(k)}
<1>4. 0 \in T
  BY <1>2, <1>3
<1>5. ASSUME NEW k \in T PROVE k + 1 \in T
  <2>1. ASSUME k + 1 <= Len(q) PROVE Good(k + 1)
    <3>1. k + 1 \in 1 .. Len(q) /\ (k + 1) - 1 = k /\ Good(k)
      BY <1>1, <2>1
    <3> DEFINE o == q[k + 1]
               d == f[k]
               h == g[k]
    <3>2. f[k + 1] = Kernel(d, o) /\ g[k + 1] = Kernel(h, o) /\ o \in Work /\ DOMAIN d = Slots /\ DOMAIN h = Slots
      BY <1>1, <1>2, <1>3, <3>1
    <3>3. o.k = "blit" => o.to \notin S /\ o.from \notin S
      BY <1>1, <3>1 DEF Touched
    <3>4. \A t \in Slots \ S : d[t] = h[t]
      BY <3>1
    <3> HIDE DEF o, d, h
    <3>5. /\ DOMAIN Kernel(d, o) = Slots /\ DOMAIN Kernel(h, o) = Slots
      BY <3>2, KernelIs
    <3>6. CASE o.k = "blit"
      <4>1. d[o.from] = h[o.from] /\ d[o.to] = h[o.to]
        BY <3>2, <3>3, <3>4, <3>6, KernelIs
      <4>2. \A t \in Slots : /\ Kernel(d, o)[t] = IF t = o.to THEN Blitted(o.b, d[o.from], d[o.to]) ELSE d[t]
                             /\ Kernel(h, o)[t] = IF t = o.to THEN Blitted(o.b, h[o.from], h[o.to]) ELSE h[t]
        BY <3>2, <3>6, KernelIs
      <4> QED  BY <3>2, <3>4, <3>5, <4>1, <4>2
    <3>7. CASE o.k # "blit"
      BY <3>2, <3>4, <3>7, KernelIs
    <3> QED  BY <3>6, <3>7
  <2> HIDE DEF Good
  <2> QED  BY <2>1
<1>6. Good(Len(q))
  <2>1. T \subseteq Nat /\ (Nat \subseteq T => Good(Len(q)))
    BY <1>1
  <2> HIDE DEF T
  <2> QED  BY <1>4, <1>5, <2>1, Induction
<1> QED  BY <1>2, <1>3, <1>6

---------------------------------------------------------------------------
(* Slots and textures.                                                     *)

OnWorld(c) == c = [p \in World |-> c[p]]
Waiting == submitted \o encoded

\* Every slot has a texture of its own, what waits names textures that there are, and
\* in the direct pane no slot is ever drawn.
Paired ==
  /\ DOMAIN buffers = Slots /\ DOMAIN dirty = Slots /\ DOMAIN texels = Slots
  /\ \A s \in Slots : OnWorld(buffers[s])
  /\ textures \in [Slots -> Slots]
  /\ \A s, t \in Slots : textures[s] = textures[t] => s = t
  /\ submitted \in Seq(Work) /\ encoded \in Seq(Work)
  /\ pane = "direct" => \A s \in Slots : dirty[s]

Agreed == \A s \in Slots : dirty[s] \/ textures[s] \in crossed \union torn \/ Settled[textures[s]] = buffers[s]

LEMMA WaitingIs == Paired => Waiting \in Seq(Work)
<1> HIDE DEF Work
<1> QED  BY DEF Paired, Waiting

\* What Pending says of the work that waits.
LEMMA PendingIs ==
  ASSUME Paired
  PROVE  /\ Crossing <=> Touched(Waiting) \intersect Stale # {}
         /\ {o.to : o \in Pending} = Written(Waiting)
         /\ Written(Waiting) \subseteq Touched(Waiting)
<1>1. Pending = {Waiting[i] : i \in {j \in DOMAIN Waiting : Waiting[j].k = "blit"}}
  BY DEF Pending, Waiting, ToSet
<1> QED  BY <1>1 DEF Crossing, Touched, Written

\* After an upload every slot agrees with what its texture will be, but for those
\* that the work under way still writes; and no slot is left out.
LEMMA UploadAgrees ==
  ASSUME Paired, Agreed
  PROVE  /\ DOMAIN Uploaded = Slots
         /\ \A s \in Slots : textures[s] \in CrossedAfter \union TornAfter \/ Run(Uploaded, Waiting)[textures[s]] = buffers[s]
<1> USE DEF Paired
<1>1. DOMAIN Uploaded = Slots
  BY DEF Uploaded
<1>2. \A s \in Slots : textures[s] \in Stale <=> dirty[s]
  BY DEF Stale
<1>3. ASSUME NEW s \in Slots, dirty[s] PROVE Uploaded[textures[s]] = buffers[s]
  <2>1. textures[s] \in Stale /\ textures[s] \in DOMAIN texels
    BY <1>2, <1>3
  <2>2. (CHOOSE r \in Slots : textures[r] = textures[s]) = s
    OBVIOUS
  <2> QED  BY <2>1, <2>2 DEF Uploaded
<1>4. \A t \in Slots \ Stale : Uploaded[t] = texels[t]
  BY DEF Uploaded
<1>5. Waiting \in Seq(Work) /\ Settled = Run(texels, Waiting)
  BY WaitingIs DEF Settled, Waiting
<1>6. ASSUME NEW s \in Slots, textures[s] \notin CrossedAfter \union TornAfter
      PROVE  Run(Uploaded, Waiting)[textures[s]] = buffers[s]
  <2> DEFINE t == textures[s]
  <2>0. t \in Slots
    OBVIOUS
  <2>1. CASE dirty[s]
    <3>1. t \notin Written(Waiting)
      <4>1. t \in Stale
        BY <1>2, <2>1
      <4> QED  BY <1>6, <4>1, PendingIs DEF CrossedAfter
    <3>2. Run(Uploaded, Waiting)[t] = Uploaded[t]
      BY <1>1, <1>5, <2>0, <3>1, RunKeeps
    <3> QED  BY <1>3, <2>1, <3>2
  <2>2. CASE ~dirty[s]
    <3>1. t \notin Stale /\ t \notin crossed \union torn
      BY <1>2, <1>6, <2>2 DEF CrossedAfter, TornAfter
    <3>2. Run(texels, Waiting)[t] = buffers[s]
      BY <1>5, <2>2, <3>1 DEF Agreed
    <3>3. CASE Crossing
      <4>1. t \notin Written(Waiting)
        BY <1>6, <3>3, PendingIs DEF CrossedAfter
      <4>2. Run(Uploaded, Waiting)[t] = Uploaded[t] /\ Run(texels, Waiting)[t] = texels[t]
        BY <1>1, <1>5, <2>0, <4>1, RunKeeps
      <4> QED  BY <1>4, <2>0, <3>1, <3>2, <4>2
    <3>4. CASE ~Crossing
      <4>1. Stale \intersect Touched(Waiting) = {}
        BY <3>4, PendingIs
      <4>2. Run(Uploaded, Waiting)[t] = Run(texels, Waiting)[t]
        BY <1>1, <1>4, <1>5, <2>0, <3>1, <4>1, RunApart
      <4> QED  BY <3>2, <4>2
    <3> QED  BY <3>3, <3>4
  <2> QED  BY <2>1, <2>2
<1> QED  BY <1>1, <1>6

\* Work at the end of what waits.
LEMMA WaitingLast ==
  ASSUME NEW q \in Seq(Work), NEW r \in Seq(Work), NEW o \in Work
  PROVE  /\ Append(r, o) \in Seq(Work) /\ q \o Append(r, o) \in Seq(Work)
         /\ q \o Append(r, o) = Append(q \o r, o)
         /\ (q \o Append(r, o)) \o <<>> = Append(q \o r, o)
<1> HIDE DEF Work
<1>1. Append(r, o) \in Seq(Work) /\ q \o Append(r, o) \in Seq(Work)
  OBVIOUS
<1> DEFINE x == q \o Append(r, o)
           y == Append(q \o r, o)
<1>2. x \in Seq(Work) /\ y \in Seq(Work) /\ Len(x) = Len(y) /\ \A i \in 1 .. Len(x) : x[i] = y[i]
  OBVIOUS
<1>3. x \o <<>> = x
  BY <1>1, ConcatEmptySeq
<1> HIDE DEF x, y
<1>4. x = y
  BY <1>2, SeqEqual
<1> QED  BY <1>1, <1>3, <1>4 DEF x, y

\* A step that touches neither slots nor what waits.
LEMMA PairedSame ==
  ASSUME Paired, Agreed, UNCHANGED <<pane, buffers, dirty, textures, texels, crossed, torn, submitted, encoded>>
  PROVE  Paired' /\ Agreed'
  BY DEF Paired, Agreed, Settled

\* A slot drawn on is dirty, and keeps its texels when it is not.
LEMMA PaintAgrees ==
  ASSUME Paired, Agreed, NEW slot, NEW P, NEW colour, NEW touched \in BOOLEAN, touched \/ P = {},
         pane = "indexed",
         UNCHANGED <<pane, textures, texels, crossed, torn, submitted, encoded>>,
         buffers' = [buffers EXCEPT ![slot] = Painted(buffers[slot], P, colour)],
         dirty' = [dirty EXCEPT ![slot] = dirty[slot] \/ touched]
  PROVE  Paired' /\ Agreed'
<1>1. DOMAIN buffers' = Slots /\ DOMAIN dirty' = Slots
  BY DEF Paired
<1>2. \A s \in Slots : s = slot => OnWorld(buffers'[s])
  BY DEF Paired, Painted, OnWorld
<1>3. \A s \in Slots : s # slot => buffers'[s] = buffers[s] /\ dirty'[s] = dirty[s]
  BY DEF Paired
<1>4. \A s \in Slots : s = slot /\ P = {} => buffers'[s] = buffers[s]
  <2> SUFFICES ASSUME slot \in Slots, P = {} PROVE buffers'[slot] = buffers[slot]
    OBVIOUS
  <2>1. OnWorld(buffers[slot])
    BY DEF Paired
  <2>2. buffers[slot] = Painted(buffers[slot], P, colour)
    BY <2>1 DEF Painted, OnWorld
  <2> QED  BY <2>2 DEF Paired
<1>5. \A s \in Slots : s = slot => dirty'[s] = (dirty[s] \/ touched)
  BY DEF Paired
<1>6. \A s \in Slots : dirty'[s] \/ (buffers'[s] = buffers[s] /\ ~dirty[s])
  BY <1>3, <1>4, <1>5, Zenon
<1>7. \A s \in Slots : OnWorld(buffers'[s])
  BY <1>2, <1>3, Zenon DEF Paired
<1>8. Paired'
  BY <1>1, <1>7 DEF Paired
<1>9. Agreed'
  BY <1>6 DEF Agreed, Settled
<1> QED  BY <1>8, <1>9

LEMMA DrawAgrees ==
  ASSUME Paired, Agreed, NEW d \in Draws, Draw(d)
  PROVE  Paired' /\ Agreed'
<1> DEFINE slot == IF d.op = "load" THEN d.slot ELSE active
           P == [cls |-> World, pset |-> Rect(d.x, 1), fill |-> Rect(d.x, d.w), load |-> Rect(0, d.w)][d.op]
<1>1. /\ buffers' = [buffers EXCEPT ![slot] = Painted(buffers[slot], P, d.colour)]
      /\ dirty' = [dirty EXCEPT ![slot] = dirty[slot] \/ (d.op # "pset" \/ P # {})]
      /\ UNCHANGED <<pane, textures, texels, crossed, torn, submitted, encoded>> /\ pane = "indexed"
  BY DEF Draw, Drawn, Command
<1> HIDE DEF slot, P
<1> QED  BY <1>1, PaintAgrees

LEMMA SwapAgrees ==
  ASSUME Paired, Agreed, SwapBuffers
  PROVE  Paired' /\ Agreed'
<1> DEFINE Other(s) == IF s = kFront THEN kBack ELSE IF s = kBack THEN kFront ELSE s
<1>1. /\ UNCHANGED <<pane, texels, crossed, torn, submitted, encoded>> /\ pane = "indexed"
      /\ kFront \in Slots /\ kBack \in Slots
      /\ buffers' = Swapped(buffers) /\ textures' = Swapped(textures) /\ dirty' = Swapped(dirty)
  BY PaneAssumption DEF SwapBuffers, Command
<1>2. \A g : DOMAIN g = Slots => /\ DOMAIN Swapped(g) = Slots
                               /\ \A s \in Slots : Swapped(g)[s] = g[Other(s)]
  BY <1>1 DEF Swapped, kFront, kBack
<1>3. /\ \A s \in Slots : Other(s) \in Slots
      /\ \A s, t \in Slots : Other(s) = Other(t) => s = t
  BY <1>1
<1> HIDE DEF Other
<1>4. /\ DOMAIN buffers' = Slots /\ DOMAIN dirty' = Slots /\ DOMAIN textures' = Slots
      /\ \A s \in Slots : /\ buffers'[s] = buffers[Other(s)] /\ dirty'[s] = dirty[Other(s)]
                         /\ textures'[s] = textures[Other(s)]
  BY <1>1, <1>2 DEF Paired
<1>5. textures' \in [Slots -> Slots]
  <2>1. textures' = [s \in Slots |-> textures[Other(s)]]
    BY <1>1, <1>4 DEF Swapped, Paired
  <2> QED  BY <1>3, <2>1 DEF Paired
<1>6. Paired'
  BY <1>1, <1>3, <1>4, <1>5 DEF Paired
<1>7. Agreed'
  BY <1>1, <1>3, <1>4 DEF Agreed, Settled
<1> QED  BY <1>6, <1>7

LEMMA BlitAgrees ==
  ASSUME Paired, Agreed, NEW raw \in Blits, Blit(raw)
  PROVE  Paired' /\ Agreed'
<1> DEFINE b == Clipped(raw)
           from == textures[b.src]
           to == textures[b.dst]
           o == [k |-> "blit", b |-> b, from |-> from, to |-> to]
           done == Run(Uploaded, Waiting)
<1>1. b.src \in Slots /\ b.dst \in Slots /\ Width \in Nat
  <2>1. raw \in BlitCommand /\ Width \in Nat
    BY PaneAssumption
  <2>2. b.dst = raw.dst /\ b.src \in {raw.src, raw.dst}
    BY <2>1 DEF Clipped, ClipLeft, BlitCommand
  <2> QED  BY <2>1, <2>2 DEF BlitCommand
<1>0. b.sx \in Nat /\ b.dx \in Int
  <2>1. raw \in BlitCommand /\ Width \in Nat /\ 0 \in Int
    BY PaneAssumption
  <2> QED  BY <2>1, ClippedExactly, Zenon
<1>2. o \in Work
  BY <1>1 DEF Work, Paired
<1>3. /\ UNCHANGED <<pane, textures, submitted>> /\ pane = "indexed"
      /\ texels' = Uploaded /\ encoded' = Append(encoded, o)
      /\ buffers' = [buffers EXCEPT ![b.dst] = Blitted(b, buffers[b.src], buffers[b.dst])]
      /\ dirty' = [s \in Slots |-> FALSE]
      /\ crossed' = CrossedAfter \union (IF from \in CrossedAfter THEN {to} ELSE {})
      /\ torn' = TornAfter \union (IF from \in TornAfter THEN {to} ELSE {})
  BY DEF Blit, Encode, Command, Through
<1>4. /\ encoded' \in Seq(Work) /\ submitted \in Seq(Work)
      /\ submitted \o encoded' = Append(Waiting, o)
  BY <1>2, <1>3, WaitingLast DEF Paired, Waiting
<1>5. Settled' = Kernel(done, o)
  <2>1. Settled' = Run(Uploaded, Append(Waiting, o))
    BY <1>3, <1>4 DEF Settled
  <2>2. Waiting \in Seq(Work)
    BY WaitingIs
  <2> HIDE DEF o, Work
  <2> QED  BY <1>2, <2>1, <2>2, RunLast
<1>6. /\ DOMAIN done = Slots
      /\ \A s \in Slots : textures[s] \in CrossedAfter \union TornAfter \/ done[textures[s]] = buffers[s]
      /\ DOMAIN Uploaded = Slots
  BY UploadAgrees, WaitingIs, RunKeeps
<1>7. o.k = "blit" /\ o.b = b /\ o.from = from /\ o.to = to
  OBVIOUS
<1> HIDE DEF o, done, b
<1>8. \A t \in Slots : Settled'[t] = IF t = to THEN Blitted(b, done[from], done[to]) ELSE done[t]
  BY <1>2, <1>5, <1>6, <1>7, KernelIs
<1>9. DOMAIN buffers' = Slots /\ \A s \in Slots :
        buffers'[s] = IF s = b.dst THEN Blitted(b, buffers[b.src], buffers[b.dst]) ELSE buffers[s]
  BY <1>1, <1>3 DEF Paired
<1>10. Paired'
  <2>1. \A c, e : OnWorld(Blitted(b, c, e))
    BY <1>0, <1>1, RowIs DEF OnWorld
  <2> QED  BY <1>3, <1>4, <1>6, <1>9, <2>1 DEF Paired
<1>11. Agreed'
  <2> SUFFICES ASSUME NEW s \in Slots, textures[s] \notin (crossed \union torn)' PROVE Settled'[textures[s]] = buffers'[s]
    BY <1>3 DEF Agreed
  <2>1. textures[s] \notin CrossedAfter \union TornAfter /\ done[textures[s]] = buffers[s] /\ textures[s] \in Slots
    BY <1>3, <1>6 DEF Paired
  <2>2. CASE s = b.dst
    <3>1. done[from] = buffers[b.src]
      BY <1>1, <1>3, <1>6, <2>2
    <3> QED  BY <1>8, <1>9, <2>1, <2>2, <3>1
  <2>3. CASE s # b.dst
    <3>1. textures[s] # to
      BY <1>1, <2>3 DEF Paired
    <3> QED  BY <1>8, <1>9, <2>1, <2>3, <3>1
  <2> QED  BY <2>2, <2>3
<1> QED  BY <1>10, <1>11

LEMMA PresentAgrees ==
  ASSUME Paired, Agreed, Present
  PROVE  Paired' /\ Agreed'
<1> DEFINE o == [k |-> "render"]
<1>1. o \in Work /\ o.k # "blit"
  BY DEF Work
<1>2. /\ UNCHANGED <<pane, buffers, textures>> /\ pane = "indexed"
      /\ texels' = Uploaded /\ crossed' = CrossedAfter /\ torn' = TornAfter /\ dirty' = [s \in Slots |-> FALSE]
      /\ submitted' = submitted \o Append(encoded, o) /\ encoded' = <<>>
  BY DEF Present
<1> HIDE DEF o
<1>3. /\ submitted' \in Seq(Work) /\ encoded' \in Seq(Work)
      /\ submitted' \o encoded' = Append(Waiting, o)
  <2>1. submitted' \in Seq(Work) /\ submitted' \o <<>> = Append(Waiting, o)
    BY <1>1, <1>2, WaitingLast DEF Paired, Waiting
  <2>2. <<>> \in Seq(Work)
    OBVIOUS
  <2> QED  BY <1>2, <2>1, <2>2
<1>4. /\ DOMAIN Uploaded = Slots
      /\ \A s \in Slots : textures[s] \in CrossedAfter \union TornAfter \/ Run(Uploaded, Waiting)[textures[s]] = buffers[s]
  BY UploadAgrees
<1>5. Settled' = Run(Uploaded, Waiting)
  <2>1. Settled' = Run(Uploaded, Append(Waiting, o))
    BY <1>2, <1>3 DEF Settled
  <2>2. Waiting \in Seq(Work) /\ DOMAIN Run(Uploaded, Waiting) = Slots
    BY <1>4, WaitingIs, RunKeeps
  <2>3. Settled' = Kernel(Run(Uploaded, Waiting), o)
    BY <1>1, <2>1, <2>2, RunLast
  <2> QED  BY <1>1, <2>2, <2>3, KernelIs
<1>6. Paired'
  BY <1>2, <1>3, <1>4 DEF Paired
<1>7. Agreed'
  BY <1>2, <1>4, <1>5 DEF Agreed
<1> QED  BY <1>6, <1>7

\* The first of what waits, and the others.
LEMMA FirstWaiting ==
  ASSUME Paired, submitted # <<>>
  PROVE  LET o    == Head(submitted)
             rest == Tail(submitted) \o encoded
         IN  /\ o \in Work /\ Tail(submitted) \in Seq(Work) /\ rest \in Seq(Work)
             /\ o = Waiting[1] /\ Len(Waiting) \in Nat /\ Len(rest) \in Nat
             /\ Len(Waiting) = Len(rest) + 1
             /\ \A i \in 1 .. Len(rest) : rest[i] = Waiting[i + 1]
<1> DEFINE rest == Tail(submitted) \o encoded
<1>1. /\ submitted \in Seq(Work) /\ encoded \in Seq(Work) /\ submitted # <<>>
  BY DEF Paired
<1> HIDE DEF Work
<1>2. /\ Head(submitted) \in Work /\ Tail(submitted) \in Seq(Work)
      /\ Len(submitted) \in Nat /\ Len(submitted) > 0 /\ Len(Tail(submitted)) = Len(submitted) - 1
      /\ Head(submitted) = submitted[1]
      /\ \A i \in 1 .. Len(submitted) - 1 : Tail(submitted)[i] = submitted[i + 1]
  BY <1>1, HeadTailProperties, EmptySeq
<1>3. /\ Len(Waiting) = Len(submitted) + Len(encoded) /\ Len(encoded) \in Nat
      /\ \A i \in 1 .. Len(Waiting) : Waiting[i] = IF i <= Len(submitted) THEN submitted[i]
                                                 ELSE encoded[i - Len(submitted)]
  BY <1>1, <1>2, ConcatProperties DEF Waiting
<1>4. /\ Len(rest) = Len(Tail(submitted)) + Len(encoded)
      /\ \A i \in 1 .. Len(rest) : rest[i] = IF i <= Len(Tail(submitted)) THEN Tail(submitted)[i]
                                          ELSE encoded[i - Len(Tail(submitted))]
  BY <1>1, <1>2, ConcatProperties
<1> HIDE DEF rest
<1>5. ASSUME NEW i \in 1 .. Len(rest) PROVE rest[i] = Waiting[i + 1]
  BY <1>2, <1>3, <1>4
<1>6. rest \in Seq(Work)
  BY <1>1, <1>2, ConcatProperties DEF rest
<1> QED  BY <1>2, <1>3, <1>4, <1>5, <1>6 DEF rest

LEMMA GpuAgrees ==
  ASSUME Paired, Agreed, GpuStep
  PROVE  Paired' /\ Agreed'
<1>1. /\ submitted # <<>> /\ submitted' = Tail(submitted) /\ texels' = Kernel(texels, Head(submitted))
      /\ UNCHANGED <<pane, buffers, dirty, textures, crossed, torn, encoded>>
  BY DEF GpuStep
<1> DEFINE o == Head(submitted)
           rest == Tail(submitted) \o encoded
<1>2. /\ o \in Work /\ Tail(submitted) \in Seq(Work)
      /\ o = Waiting[1] /\ Len(Waiting) \in Nat /\ Len(rest) \in Nat /\ Len(Waiting) = Len(rest) + 1
      /\ \A i \in 1 .. Len(rest) : rest[i] = Waiting[i + 1]
  BY <1>1, FirstWaiting
<1>3. Settled' = Settled
  <2>1. Settled' = Run(Kernel(texels, o), rest) /\ Settled = Run(texels, Waiting)
    BY <1>1 DEF Settled, Waiting
  <2> HIDE DEF rest
  <2> QED  BY <1>2, <2>1, RunFirst
<1>4. DOMAIN texels' = Slots
  BY <1>1, <1>2, KernelIs DEF Paired
<1> QED  BY <1>1, <1>2, <1>3, <1>4 DEF Paired, Agreed

\* A kernel that came out otherwise: what it wrote, and what will be written after it,
\* is excepted, and nothing else is touched.
LEMMA RaceAgrees ==
  ASSUME Paired, Agreed, GpuRace
  PROVE  Paired' /\ Agreed'
<1> DEFINE o == Head(submitted)
           rest == Tail(submitted) \o encoded
<1>1. /\ submitted # <<>> /\ submitted' = Tail(submitted) /\ o.k = "blit"
      /\ torn' = torn \union {e.to : e \in Pending}
      /\ UNCHANGED <<pane, buffers, dirty, textures, crossed, encoded>>
  BY DEF GpuRace
<1>2. PICK row : texels' = [texels EXCEPT ![o.to] = row]
  BY DEF GpuRace
<1>3. /\ o \in Work /\ Tail(submitted) \in Seq(Work) /\ rest \in Seq(Work)
      /\ o = Waiting[1] /\ Len(Waiting) \in Nat /\ Len(rest) \in Nat /\ Len(Waiting) = Len(rest) + 1
      /\ \A i \in 1 .. Len(rest) : rest[i] = Waiting[i + 1]
  BY <1>1, FirstWaiting
<1>4. Written(rest) \union {o.to} = Written(Waiting)
  <2>1. DOMAIN rest = 1 .. Len(rest) /\ DOMAIN Waiting = 1 .. Len(Waiting)
    <3> HIDE DEF Work, rest
    <3> QED  BY <1>3, LenProperties, WaitingIs
  <2> HIDE DEF o, rest, Work
  <2>2. ASSUME NEW i \in DOMAIN rest, rest[i].k = "blit" PROVE rest[i].to \in Written(Waiting)
    <3>1. i + 1 \in DOMAIN Waiting /\ Waiting[i + 1] = rest[i]
      BY <1>3, <2>1
    <3> QED  BY <2>2, <3>1 DEF Written
  <2>3. 1 \in DOMAIN Waiting
    BY <1>3, <2>1
  <2>4. ASSUME NEW i \in DOMAIN Waiting, Waiting[i].k = "blit", i # 1 PROVE Waiting[i].to \in Written(rest)
    <3>1. i - 1 \in DOMAIN rest /\ rest[i - 1] = Waiting[i]
      BY <1>3, <2>1, <2>4
    <3> QED  BY <2>4, <3>1 DEF Written
  <2> QED  BY <1>1, <1>3, <2>2, <2>3, <2>4 DEF Written
<1>5. {e.to : e \in Pending} = Written(Waiting)
  BY PendingIs
<1>6. Settled' = Run(texels', rest) /\ Settled = Run(texels, Waiting) /\ Waiting \in Seq(Work)
  BY <1>1, WaitingIs DEF Settled, Waiting
<1> HIDE DEF o, rest, Work
<1>7. DOMAIN texels' = Slots
  BY <1>2 DEF Paired
<1>8. ASSUME NEW s \in Slots, textures[s] \notin torn' PROVE Settled'[textures[s]] = Settled[textures[s]]
  <2>1. textures[s] \in Slots \ Written(Waiting) /\ textures[s] \notin torn
    BY <1>1, <1>5, <1>8 DEF Paired
  <2>2. textures[s] \in Slots \ Written(rest) /\ textures[s] # o.to
    BY <1>4, <2>1
  <2>3. Run(texels', rest)[textures[s]] = texels'[textures[s]]
    BY <1>3, <1>7, <2>2, RunKeeps
  <2>4. Run(texels, Waiting)[textures[s]] = texels[textures[s]]
    BY <1>6, <2>1, RunKeeps DEF Paired
  <2> QED  BY <1>2, <1>6, <2>2, <2>3, <2>4
<1>9. Paired'
  BY <1>1, <1>3, <1>7 DEF Paired
<1>10. Agreed'
  BY <1>1, <1>8 DEF Agreed
<1> QED  BY <1>9, <1>10

LEMMA FreshAgrees ==
  ASSUME NEW kind, Fresh(kind)
  PROVE  Paired' /\ Agreed'
<1>1. /\ buffers' = [s \in Slots |-> Blank] /\ dirty' = [s \in Slots |-> TRUE]
      /\ textures' = [s \in Slots |-> s] /\ texels' = [s \in Slots |-> Blank]
      /\ encoded' = <<>> /\ submitted' = <<>>
  BY DEF Fresh
<1>2. <<>> \in Seq(Work) /\ OnWorld(Blank)
  BY DEF OnWorld, Blank
<1> QED  BY <1>1, <1>2 DEF Paired, Agreed

LEMMA AgreeStep == ASSUME Turns, Paired, Agreed, [Next]_vars PROVE Paired' /\ Agreed'
<1>1. ASSUME NEW kind \in {"indexed", "direct"}, Reopen(kind) PROVE Paired' /\ Agreed'
  BY <1>1, FreshAgrees DEF Reopen
<1>2. CASE BeginFrame \/ GameSends \/ UNCHANGED vars
  BY <1>2, PairedSame DEF BeginFrame, GameSends, vars, slotVars
<1>3. CASE Present
  BY <1>3, PresentAgrees
<1>4. CASE PresentDirect
  <2> DEFINE o == [k |-> "render", buffer |-> write]
  <2>1. o \in Work
    BY DEF Work, Turns, kBuffers
  <2>2. /\ submitted' = Append(submitted, o) /\ pane = "direct"
        /\ UNCHANGED <<pane, buffers, dirty, textures, texels, active, crossed, torn, encoded>>
    BY <1>4 DEF PresentDirect, slotVars
  <2> HIDE DEF o, Work
  <2>3. submitted' \in Seq(Work)
    BY <2>1, <2>2 DEF Paired
  <2> QED  BY <2>2, <2>3 DEF Paired, Agreed
<1>5. ASSUME NEW d \in Draws, Draw(d) PROVE Paired' /\ Agreed'
  BY <1>5, DrawAgrees
<1>6. ASSUME NEW s \in Slots, SetActive(s) PROVE Paired' /\ Agreed'
  BY <1>6, PairedSame DEF SetActive
<1>7. CASE SwapBuffers
  BY <1>7, SwapAgrees
<1>8. ASSUME NEW b \in Blits, Blit(b) PROVE Paired' /\ Agreed'
  BY <1>8, BlitAgrees
<1>9. CASE GpuStep
  BY <1>9, GpuAgrees
<1>10. ASSUME NEW b \in Blits, BlitOutside(b) PROVE Paired' /\ Agreed'
  BY <1>10, PairedSame DEF BlitOutside, slotVars
<1>11. CASE GpuRace
  BY <1>11, RaceAgrees
<1> QED
  BY <1>1, <1>2, <1>3, <1>4, <1>5, <1>6, <1>7, <1>8, <1>9, <1>10, <1>11 DEF Next

\* A slot that is not dirty will be on the GPU what it is in the mirror once the GPU is
\* through, unless it was written between an operation's mirror and its turn on the
\* GPU, or by a kernel within one texture; for any slots and worlds, whatever is drawn,
\* blitted and swapped while the GPU lags behind as it likes (GpIndexedPane, GpBlitter).
THEOREM SlotsAgreeAlways == Spec => []SlotsAgree
<1>1. Init => Turns /\ Paired /\ Agreed
  <2>1. <<>> \in Seq(Work) /\ OnWorld(Blank)
    BY DEF OnWorld, Blank
  <2>2. Init => Turns
    BY DEF Init, Turns, kBuffers
  <2> QED  BY <2>1, <2>2 DEF Init, Paired, Agreed
<1>2. Agreed => SlotsAgree
  BY DEF Agreed, SlotsAgree
<1>3. Turns /\ Paired /\ Agreed /\ [Next]_vars => Turns' /\ Paired' /\ Agreed'
  BY TurnsStep, AgreeStep
<1> QED  BY <1>1, <1>2, <1>3, PTL DEF Spec
============================================================================
