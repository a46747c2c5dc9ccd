------------------------------ MODULE GpPane ------------------------------
(***************************************************************************)
(* The game pane (gamepane/gp_engine.h, gp_engine.mm): the indexed pane    *)
(* with its slots, each a buffer of the CPU and a texture of the GPU, the  *)
(* blitter, and the direct pane whose buffers the game writes itself.      *)
(*                                                                         *)
(* A frame is one native call on thread 0 (Cocoa_gpApply): it applies the  *)
(* game's commands, encodes blits into the frame's command buffer, renders *)
(* and commits.  The GPU carries out what is committed later, in order,    *)
(* while replaceRegion and the game write at once.                         *)
(*                                                                         *)
(* A world is one row of pixels, a colour one bit of the eight of an index.*)
(***************************************************************************)
EXTENDS Integers, Sequences, FiniteSetsExt, SequencesExt

CONSTANTS
  Width,            \* world_w_
  Slots,            \* 0 .. kNumBuffers - 1: kFront = 0, kBack = 1, assets
  Draws,            \* commands that draw: [op, ...], see Drawn
  Blits,            \* blits: [mode, src, dst, sx, dx, w, value]
  MaxCommands,      \* bound: commands in all
  MaxFrames         \* bound: frames in all

kFront == 0
kBack == 1
kBuffers == 3       \* of the direct pane
World == 0 .. Width - 1

\* Any slots and any numbers: a game may blit within one slot, and a clear may
\* name a source.
BlitCommand ==
  [mode : {"copy", "transparent", "and", "or", "xor", "clear"}, src : Slots, dst : Slots,
   sx : Int, dx : Int, w : Int, value : {0, 1}]
ASSUME PaneAssumption ==
  /\ Width \in Nat /\ {kFront, kBack} \subseteq Slots
  /\ Blits \subseteq BlitCommand

VARIABLES
  pane,             \* "indexed", "direct"
  buffers, dirty,   \* buffers_, dirty_ of each slot
  textures,         \* textures_ of each slot, named by a number
  texels,           \* the contents of each texture
  active,           \* active_
  frame,            \* "none", "open": frame_cb_
  encoded,          \* the operations encoded into it
  submitted,        \* what was committed and is not done: operations, renders
  write,            \* write_ of the direct pane
  game,             \* the game of a direct pane: "writes", "sent"
  target,           \* the buffer it got from backbuffer_ptr
  commands, frames, \* counters for the bounds
  crossed,          \* observation: the textures that an upload has reached
                    \* before an operation that the mirror has already had
  torn              \* observation: the textures that the threads of a kernel
                    \* within one texture have left otherwise than the mirror

vars == <<pane, buffers, dirty, textures, texels, active, frame, encoded, submitted,
          write, game, target, commands, frames, crossed, torn>>
slotVars   == <<buffers, dirty, textures, texels, active, crossed, torn>>
directVars == <<write, game, target>>

Blank == [p \in World |-> 0]

---------------------------------------------------------------------------
(* Drawing, on the CPU alone.                                              *)

\* A rectangle [x, x + w) keeps what lies in the world.
Rect(x, w) == {p \in World : x <= p /\ p < x + w}
Painted(c, P, colour) == [p \in World |-> IF p \in P THEN colour ELSE c[p]]

\* cls, pset, fill_rect on the active slot, load on any.
Drawn(d) ==
  LET slot == IF d.op = "load" THEN d.slot ELSE active
      P    == [cls |-> World, pset |-> Rect(d.x, 1), fill |-> Rect(d.x, d.w),
               load |-> Rect(0, d.w)][d.op]
  IN  /\ buffers' = [buffers EXCEPT ![slot] = Painted(@, P, d.colour)]
      /\ dirty' = [dirty EXCEPT ![slot] = @ \/ d.op # "pset" \/ P # {}]

---------------------------------------------------------------------------
(* Blits.                                                                  *)

\* Mutant of ClipLeft: the source does not follow the edge that is cut off.
ClipLeftDst(b) == IF b.dx < 0 THEN [b EXCEPT !.w = @ + b.dx, !.dx = 0] ELSE b

ClipLeft(b) == IF b.dx < 0 THEN [b EXCEPT !.sx = @ - b.dx, !.w = @ + b.dx, !.dx = 0] ELSE b

\* The rectangle shrinks until source and destination are in the world.
Clipped(b) ==
  LET a == IF b.sx < 0 THEN [b EXCEPT !.dx = @ - b.sx, !.w = @ + b.sx, !.sx = 0] ELSE b
      c == ClipLeft(a)
      d == IF c.mode = "clear" THEN [c EXCEPT !.sx = 0, !.src = c.dst] ELSE c
  IN  [d EXCEPT !.w = Min({@, Width - d.sx, Width - d.dx})]

\* One pixel: copy, transparent, and, or, xor, clear.
Combined(b, s, d) ==
  [copy        |-> s,
   transparent |-> IF s # 0 THEN s ELSE d,
   and         |-> s * d,
   or          |-> Max({s, d}),
   xor         |-> (s + d) % 2,
   clear       |-> b.value][b.mode]

Covers(b, p) == b.dx <= p /\ p < b.dx + b.w
Source(b, p) == p - b.dx + b.sx

\* The destination after an operation that is clipped already, pixel by pixel
\* from the left: within one slot a pixel may be read after it was written.
Blitted(b, src, dst) ==
  LET row[p \in World] ==
        LET q == Source(b, p) IN
        IF Covers(b, p)
        THEN Combined(b, IF b.src = b.dst /\ q < p THEN row[q] ELSE src[q], dst[p])
        ELSE dst[p]
  IN  row

\* The threads of a kernel take their pixels in any order: within one texture
\* each reads the pixel that another writes before or after.
Outcomes(b, src, dst) ==
  IF b.src # b.dst \/ b.sx = b.dx THEN {Blitted(b, src, dst)}
  ELSE {row \in [World -> {0, 1}] : \A p \in World :
          IF Covers(b, p) THEN \E pixel \in {src[Source(b, p)], row[Source(b, p)]} :
                                 row[p] = Combined(b, pixel, dst[p])
          ELSE row[p] = dst[p]}

\* A kernel of the GPU: an operation names its textures.
Kernel(contents, o) ==
  IF o.k = "render" THEN contents
  ELSE [contents EXCEPT ![o.to] = Blitted(o.b, contents[o.from], @)]

\* What the textures hold when ops are done, one after the other.
Run(contents, ops) ==
  LET after[n \in 0 .. Len(ops)] == IF n = 0 THEN contents ELSE Kernel(after[n - 1], ops[n])
  IN  after[Len(ops)]

\* What they hold when all that waits for the GPU is done.
Settled == Run(texels, submitted \o encoded)

Pending == {o \in ToSet(submitted \o encoded) : o.k = "blit"}

---------------------------------------------------------------------------
(* upload(): every dirty slot at once, whatever the GPU has not done yet.  *)

Stale == {textures[s] : s \in {t \in Slots : dirty[t]}}
Uploaded ==
  [t \in DOMAIN texels |->
     IF t \in Stale THEN buffers[CHOOSE s \in Slots : textures[s] = t] ELSE texels[t]]
Crossing == \E o \in Pending : {o.from, o.to} \intersect Stale # {}
CrossedAfter ==
  (crossed \ Stale) \union (IF Crossing THEN {o.to : o \in Pending} ELSE {})
TornAfter == torn \ Stale

\* What is astray in S is so in what is blitted from it.
Through(S, b) == S \union (IF textures[b.src] \in S THEN {textures[b.dst]} ELSE {})

---------------------------------------------------------------------------
Fresh(kind) ==
  /\ pane' = kind
  /\ buffers' = [s \in Slots |-> Blank] /\ dirty' = [s \in Slots |-> TRUE]
  /\ textures' = [s \in Slots |-> s] /\ texels' = [s \in Slots |-> Blank]
  /\ active' = kFront
  /\ frame' = "none" /\ encoded' = <<>> /\ submitted' = <<>>
  /\ write' = 0 /\ game' = "writes" /\ target' = 0
  /\ crossed' = {} /\ torn' = {}

Init ==
  /\ pane \in {"indexed", "direct"}
  /\ buffers = [s \in Slots |-> Blank] /\ dirty = [s \in Slots |-> TRUE]
  /\ textures = [s \in Slots |-> s] /\ texels = [s \in Slots |-> Blank]
  /\ active = kFront
  /\ frame = "none" /\ encoded = <<>> /\ submitted = <<>>
  /\ write = 0 /\ game = "writes" /\ target = 0
  /\ commands = 0 /\ frames = 0
  /\ crossed = {} /\ torn = {}

\* GpEngine::open over an open pane: new panes; what the GPU still does, it
\* does to the objects of the old ones.
Reopen(kind) ==
  /\ frame = "none" /\ frames > 0 /\ frames < MaxFrames
  /\ Fresh(kind)
  /\ UNCHANGED <<commands, frames>>

BeginFrame ==
  /\ frame = "none" /\ frames < MaxFrames
  /\ pane = "direct" => game = "sent"
  /\ frame' = "open" /\ frames' = frames + 1
  /\ UNCHANGED <<pane, slotVars, encoded, submitted, directVars, commands>>

Command == frame = "open" /\ pane = "indexed" /\ commands < MaxCommands /\ commands' = commands + 1

Draw(d) ==
  /\ Command
  /\ Drawn(d)
  /\ UNCHANGED <<pane, textures, texels, active, crossed, torn, frame, encoded, submitted, directVars,
                 frames>>

SetActive(s) ==
  /\ Command /\ active # s
  /\ active' = s
  /\ UNCHANGED <<pane, buffers, dirty, textures, texels, crossed, torn, frame, encoded, submitted,
                 directVars, frames>>

Swapped(g) == [g EXCEPT ![kFront] = g[kBack], ![kBack] = g[kFront]]

\* gpswap: buffer, texture and dirty bit go together; the game goes on drawing
\* into the same picture.
SwapBuffers ==
  /\ Command
  /\ buffers' = Swapped(buffers) /\ textures' = Swapped(textures) /\ dirty' = Swapped(dirty)
  /\ active' = IF active = kFront THEN kBack ELSE IF active = kBack THEN kFront ELSE active
  /\ UNCHANGED <<pane, texels, crossed, torn, frame, encoded, submitted, directVars, frames>>

Encode(b) ==
  /\ encoded' = Append(encoded, [k |-> "blit", b |-> b, from |-> textures[b.src], to |-> textures[b.dst]])
  /\ buffers' = [buffers EXCEPT ![b.dst] = Blitted(b, buffers[b.src], @)]

\* Mutant of Blit: a dirty slot is blitted as the GPU has it.
BlitStale(raw) ==
  /\ Command
  /\ LET b == Clipped(raw) IN
     /\ b.w > 0
     /\ Encode(b)
     /\ dirty' = [dirty EXCEPT ![b.dst] = FALSE]
     /\ crossed' = Through(crossed, b) /\ torn' = Through(torn, b)
  /\ UNCHANGED <<pane, textures, texels, active, frame, submitted, directVars, frames>>

\* GpBlitter::blit: upload, encode, and the same to the mirror.
Blit(raw) ==
  /\ Command
  /\ LET b == Clipped(raw) IN
     /\ b.w > 0
     /\ texels' = Uploaded
     /\ Encode(b)
     /\ dirty' = [s \in Slots |-> FALSE]
     /\ crossed' = Through(CrossedAfter, b) /\ torn' = Through(TornAfter, b)
  /\ UNCHANGED <<pane, textures, active, frame, submitted, directVars, frames>>

\* Nothing of the blit lies in the world.
BlitOutside(raw) ==
  /\ Command
  /\ Clipped(raw).w <= 0
  /\ UNCHANGED <<pane, slotVars, frame, encoded, submitted, directVars, frames>>

\* render_present with the indexed pane.
Present ==
  /\ frame = "open" /\ pane = "indexed"
  /\ texels' = Uploaded /\ dirty' = [s \in Slots |-> FALSE] 
  /\ crossed' = CrossedAfter /\ torn' = TornAfter
  /\ submitted' = submitted \o Append(encoded, [k |-> "render"])
  /\ encoded' = <<>> /\ frame' = "none"
  /\ UNCHANGED <<pane, buffers, textures, active, directVars, commands, frames>>

NextBuffer(i) == (i + 1) % kBuffers

\* render_present with the direct pane; the tick that follows invites the game
\* to write the next buffer.
PresentDirect ==
  /\ frame = "open" /\ pane = "direct"
  /\ submitted' = Append(submitted, [k |-> "render", buffer |-> write])
  /\ write' = NextBuffer(write)
  /\ game' = "writes" /\ target' = NextBuffer(write)
  /\ frame' = "none"
  /\ UNCHANGED <<pane, slotVars, encoded, commands, frames>>

\* The game has written its buffer and sends the frame.
GameSends ==
  /\ pane = "direct" /\ game = "writes"
  /\ game' = "sent"
  /\ UNCHANGED <<pane, slotVars, frame, encoded, submitted, write, target, commands, frames>>

\* The GPU is done with the oldest piece of work.
GpuStep ==
  /\ submitted # <<>>
  /\ texels' = Kernel(texels, Head(submitted))
  /\ submitted' = Tail(submitted)
  /\ UNCHANGED <<pane, buffers, dirty, textures, active, crossed, torn, frame, encoded, directVars,
                 commands, frames>>

\* The same, when its threads came out otherwise than the loop over the mirror;
\* so may what reads it.
GpuRace ==
  /\ submitted # <<>> /\ Head(submitted).k = "blit"
  /\ LET o   == Head(submitted)
         src == texels[o.from]
         dst == texels[o.to]
     IN  \E row \in Outcomes(o.b, src, dst) \ {Blitted(o.b, src, dst)} :
           texels' = [texels EXCEPT ![o.to] = row]
  /\ torn' = torn \union {o.to : o \in Pending}
  /\ submitted' = Tail(submitted)
  /\ UNCHANGED <<pane, buffers, dirty, textures, active, crossed, frame, encoded, directVars,
                 commands, frames>>

Next ==
  \/ \E kind \in {"indexed", "direct"} : Reopen(kind)
  \/ BeginFrame \/ Present \/ PresentDirect
  \/ \E d \in Draws : Draw(d)
  \/ \E s \in Slots : SetActive(s)
  \/ SwapBuffers
  \/ \E b \in Blits : Blit(b) \/ BlitOutside(b)
  \/ GameSends \/ GpuStep \/ GpuRace

Spec == Init /\ [][Next]_vars

---------------------------------------------------------------------------
(* Properties.                                                             *)

\* A slot that is not dirty will be on the GPU what it is in the mirror once
\* the GPU is through, across draws, blits, swaps and frames (gp_engine.h,
\* GpBlitter).  Excepted are slots that were written between an operation's
\* mirror and its turn on the GPU (MirrorTruthful), and those that a kernel within
\* one texture has left otherwise than the loop over the mirror, until the next
\* upload.
SlotsAgree ==
  \A s \in Slots :
    dirty[s] \/ textures[s] \in crossed \union torn \/ Settled[textures[s]] = buffers[s]

\* The same without the first exception, when the GPU is through: "mirror == GPU
\* afterwards" (gp_engine.h:133).
MirrorTruthful ==
  torn = {} /\ submitted = <<>> /\ encoded = <<>> =>
    \A s \in Slots : dirty[s] \/ texels[textures[s]] = buffers[s]

\* A blit does to the mirror what it would do in a world without edges, to the
\* pixels whose source and destination lie in this one, and nothing to the
\* others (the clipping of GpBlitter::blit); within one slot it reads what it
\* has written to the left.  A clear goes as far as it is asked to on the right, on
\* the left not beyond the source it names, although it "has no source"
\* (gp_engine.mm:698).
Reaches(b, p) ==
  LET q == Source(b, p) IN Covers(b, p) /\ (q \in World \/ (b.mode = "clear" /\ q >= 0))
BlitExact ==
  [][\A b \in Blits : Blit(b) \/ BlitOutside(b) =>
       \A p \in World :
         LET q     == Source(b, p)
             old   == buffers[b.dst][p]
             pixel == IF b.mode = "clear" THEN b.value
                      ELSE IF b.src = b.dst /\ q < p THEN buffers'[b.dst][q]
                      ELSE buffers[b.src][q]
         IN  buffers'[b.dst][p] = IF Reaches(b, p) THEN Combined(b, pixel, old) ELSE old]_vars

\* The buffer the game writes is in no frame under way.  "The CPU never writes a
\* buffer the GPU is still reading" (gp_engine.h:241) says so without condition;
\* nothing waits for the GPU, and with three frames under way it is not so
\* (GpPaneProofs, RaceNeedsThreeFrames: not before).
DirectBuffersFree ==
  pane = "direct" /\ game = "writes" => \A i \in DOMAIN submitted : submitted[i].buffer # target
===========================================================================
