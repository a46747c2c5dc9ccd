------------------------------- MODULE Synth -------------------------------
(***************************************************************************)
(* The synthesiser of the game pane (gamepane/gp_synth.cc) and the sound   *)
(* slots it fills (GpSfx, gp_engine.mm): a command `gpsound` renders a     *)
(* preset frame by frame and defines a slot, `gpplay` plays one.           *)
(*                                                                         *)
(* Units.  A level is an integer, Unit of them are 1.0; a time is in       *)
(* tenths of a millisecond, a frequency in Hz, a phase in hundredths of a  *)
(* turn.  The two channels carry the same samples, so one is kept.  Of     *)
(* libm's functions, sin is the constant Sine, tanh is abstracted to its   *)
(* saturation.  Products and quotients of levels are rounded down.         *)
(***************************************************************************)
EXTENDS Integers, Sequences

CONSTANTS
  Unit,             \* the level 1.0
  SampleRate,       \* kSampleRate: frames a second
  MaxDuration,      \* ten seconds; kMaxSamples is as many frames, twice
  LcgMul, LcgAdd,   \* the generator: x * LcgMul + LcgAdd modulo LcgMod
  LcgMod, LcgLow,   \*   its draws leave out the low bits, x / LcgLow,
  LcgRange,         \*   and keep LcgRange values of what is left
  SessionSeed,      \* the seed of the generator the commands share
  Sine,             \* the level of a sine at each hundredth of a turn
  Slots,            \* kMaxSfxSlots of them
  Recipes,          \* the sounds asked for, see Preset
  Effects,          \* effects rendered by a caller of gp_synth.h itself
  MaxSounds,        \* bound: sounds rendered
  NoSound

Second == 10000

Waveform   == {"sine", "square", "saw", "triangle", "noise", "pulse"}
Oscillator == [wave : Waveform, freq : Nat, amp : Nat, phase : Nat, width : 0 .. 100]
IsEffect(e) ==
  /\ e.dur \in Int /\ e.osc \in Seq(Oscillator) /\ Len(e.osc) <= 4
  /\ {e.attack, e.decay, e.release, e.sweepStart, e.sweepEnd, e.echoCount, e.echoDelay} \subseteq Nat
  /\ {e.sustain, e.noiseMix, e.distortion, e.echoDecay} \subseteq 0 .. Unit

\* The sounds of Preset.
Named == {"beep", "coin", "jump", "zap", "shoot", "explode", "powerup", "hurt", "click", "bang",
          "blip", "tone", "noise"}

\* The generator stays within its width, and the sine within full scale.
ASSUME SynthAssumption ==
  /\ Unit \in Nat \ {0} /\ SessionSeed \in 0 .. LcgMod - 1
  /\ SampleRate \in Nat \ {0} /\ MaxDuration \in Nat
  /\ LcgMul \in Int /\ LcgAdd \in Int /\ {LcgMod, LcgLow, LcgRange} \subseteq Nat \ {0}
  /\ \A ph \in 0 .. 99 : Sine[ph] \in -Unit .. Unit
  /\ \A e \in Effects : IsEffect(e)
  /\ \A r \in Recipes : r.name \in Named /\ r.a1 \in Int /\ r.a2 \in Int /\ r.wave \in Waveform

VARIABLES
  session,          \* the state of the shared generator
  sfx,              \* slot -> the sound defined there: [of, from, samples]
  started,          \* did the audio engine start
  sounds,           \* sounds rendered so far (bounds the model)
  pc,               \* "idle", "frame", "osc", "burst", "echo", "tap",
                    \* "peak", "define"
  job,              \* what is rendered: [slot, of, e, own, from]
  lcg,              \* the generator in use
  f,                \* the frame, or the frame a tap reads
  osc, sum,         \* the oscillator next in turn, the sum of those before it
  filter,           \* p0, p1, p2 and brown of noise_burst
  echo, gain,       \* the tap, and its gain: echo_decay to the power echo + 1
  peak,             \* normalize: the largest level so far
  out               \* the samples

vars == <<session, sfx, started, sounds, pc, job, lcg, f, osc, sum, filter, echo, gain, peak, out>>

---------------------------------------------------------------------------
(* Arithmetic on levels.                                                   *)

Mul(a, b) == (a * b) \div Unit
Clamp(x, lo, hi) == IF x < lo THEN lo ELSE IF x > hi THEN hi ELSE x
Abs(x) == IF x < 0 THEN -x ELSE x

\* tanh(x * drive) / tanh(drive)
SoftClip(x, drive) == Clamp(Mul(x, drive), -Unit, Unit)

\* One step of the generator, and its state as a level in [-1, 1).
Step(x)   == (x * LcgMul + LcgAdd) % LcgMod
Signed(x) == ((2 * Unit * ((x \div LcgLow) % LcgRange)) \div LcgRange) - Unit

---------------------------------------------------------------------------
(* Effects and presets.                                                    *)

EffectOf(dur) ==
  [dur |-> dur, osc |-> <<>>,
   attack |-> 100, decay |-> 1000, sustain |-> (7 * Unit) \div 10, release |-> 2000,
   sweepStart |-> 0, sweepEnd |-> 0, noiseMix |-> 0, distortion |-> 0,
   echoCount |-> 0, echoDelay |-> 0, echoDecay |-> 0]

AddOsc(e, wave, freq, amp) ==
  IF Len(e.osc) >= 4 THEN e
  ELSE [e EXCEPT !.osc = Append(@, [wave |-> wave, freq |-> freq, amp |-> (amp * Unit) \div 100,
                                    phase |-> 0, width |-> 50])]
SetEnv(e, a, d, s, r) ==
  [e EXCEPT !.attack = a, !.decay = d, !.sustain = (s * Unit) \div 100, !.release = r]
Sweep(e, from, to) == [e EXCEPT !.sweepStart = from, !.sweepEnd = to]
NoiseMix(e, percent) == [e EXCEPT !.noiseMix = (percent * Unit) \div 100]

Beep(freq, dur) == SetEnv(AddOsc(EffectOf(dur), "sine", freq, 50), 100, 500, 70, 1000)
Coin(dur) == SetEnv(AddOsc(AddOsc(EffectOf(dur), "sine", 988, 50), "sine", 1319, 30),
                    100, 1000, 30, 1500)
Jump(dur) == SetEnv(Sweep(EffectOf(dur), 300, 600), 100, 500, 50, 1000)
Zap(dur)  == SetEnv(NoiseMix(Sweep(EffectOf(dur), 1000, 100), 20), 100, 500, 30, 800)
Shoot(dur) == SetEnv(NoiseMix(Sweep(EffectOf(dur), 800, 200), 30), 100, 500, 40, 800)
Explode(size, dur) ==
  LET e == AddOsc(AddOsc(EffectOf(dur), "sine", 58, 95), "triangle", 86, 28)
  IN  SetEnv([NoiseMix(Sweep(e, 135, 32), Clamp(6 * size, 0, 12))
                EXCEPT !.distortion = (8 * Unit) \div 100], 15, 1400, 0, 1000)
Powerup(dur) == SetEnv(Sweep(AddOsc(EffectOf(dur), "square", 400, 40), 200, 800),
                       1000, 1000, 80, 2000)
Hurt(dur)  == SetEnv(NoiseMix(Sweep(EffectOf(dur), 600, 200), 40), 100, 1000, 20, 1500)
Click(dur) == SetEnv(AddOsc(EffectOf(dur), "noise", 440, 30), 10, 100, 0, 300)
Bang(dur)  == SetEnv(NoiseMix(EffectOf(dur), 80), 100, 500, 0, 1000)
Tone(freq, dur, wave) ==
  LET e == AddOsc(SetEnv(EffectOf(dur), 100, 500, 80, 1000), wave, IF freq < 1 THEN 1 ELSE freq, 75)
  IN  [e EXCEPT !.osc[Len(e.osc)].width = IF wave = "pulse" THEN 25 ELSE 50]

\* The presets that are rendered with a generator of their own, Lcg(0).
OwnGenerator == {"beep", "coin", "jump", "powerup", "blip", "tone"}

\* The effect of a command gpsound: r = [name, a1, a2, wave], with its defaults.
Preset(r) ==
  LET Or(x, default) == IF x > 0 THEN x ELSE default
  IN
  [beep    |-> Beep(Or(r.a1, 440), Or(r.a2, 1500)),
   coin    |-> Coin(Or(r.a1, 3000)),
   jump    |-> Jump(Or(r.a1, 2000)),
   zap     |-> Zap(Or(r.a1, 2000)),
   shoot   |-> Shoot(Or(r.a1, 1500)),
   explode |-> Explode(Or(r.a1, 1), Or(r.a2, 5000)),
   powerup |-> Powerup(Or(r.a1, 4000)),
   hurt    |-> Hurt(Or(r.a1, 2500)),
   click   |-> Click(Or(r.a1, 500)),
   bang    |-> Bang(Or(r.a1, 3000)),
   blip    |-> Beep(800 * Or(r.a1, 1), Or(r.a2, 800)),
   tone    |-> Tone(Or(r.a1, 440), Or(r.a2, 2000), r.wave),
   noise   |-> EffectOf(Or(r.a2, 3000))][r.name]

---------------------------------------------------------------------------
(* The parts of one sample.                                                *)

\* The level of a wave at a phase; `noise` is the draw it takes if it is noise.
WaveSample(o, phase, noise) ==
  LET ph == phase % 100 IN
  [sine     |-> Sine[ph],
   square   |-> IF ph < 50 THEN Unit ELSE -Unit,
   saw      |-> (2 * Unit * (((ph + 50) % 100) - 50)) \div 100,
   triangle |-> ((4 * Unit * Abs(ph - 50)) \div 100) - Unit,
   noise    |-> noise,
   pulse    |-> IF ph < o.width THEN Unit ELSE -Unit][o.wave]

PhaseAt(freq, time) == (100 * freq * time) \div Second

\* AdsrValueAt(e, time): attack, decay, sustain for what the note has left, release.
AdsrValueAt(e, time) ==
  LET left == e.dur - (e.attack + e.decay + e.release)
      held == IF left < 0 THEN 0 ELSE left
      t1   == time - e.attack
      t2   == t1 - e.decay
      t3   == t2 - held
  IN
  IF time <= e.attack THEN IF e.attack <= 0 THEN Unit ELSE (time * Unit) \div e.attack
  ELSE IF t1 <= e.decay
       THEN IF e.decay <= 0 THEN e.sustain
            ELSE Unit - ((t1 * (Unit - e.sustain)) \div e.decay)
  ELSE IF t2 <= held THEN e.sustain
  ELSE IF t3 <= e.release
       THEN IF e.release <= 0 THEN 0 ELSE Mul(e.sustain, Unit - ((t3 * Unit) \div e.release))
  ELSE 0

\* The duration that is rendered; the envelope keeps to e.dur.
Clamped(e) == LET d == Clamp(e.dur, 0, MaxDuration) IN IF d <= 0 THEN 100 ELSE d
AtLeastOne(n) == IF n < 1 THEN 1 ELSE n
MaxFrames == (SampleRate * MaxDuration) \div Second

Frames(dur) == AtLeastOne(Clamp((SampleRate * dur) \div Second, 0, MaxFrames))
FramesOf(j) == IF j.burst THEN Frames(IF j.e.dur < 100 THEN 100 ELSE j.e.dur)
               ELSE Frames(Clamped(j.e))
Silence(n) == [i \in 0 .. n - 1 |-> 0]

TimeAt(frame) == (frame * Second) \div SampleRate

WithSweep(e, time, x) ==
  IF e.sweepStart = e.sweepEnd THEN x
  ELSE LET freq == e.sweepStart + (((e.sweepEnd - e.sweepStart) * time) \div Clamped(e))
       IN  x + (Sine[PhaseAt(freq, time) % 100] \div 2)

\* Sweep, noise, envelope and distortion over the sum of the oscillators, halved.
Mixed(e, time, x, noise) ==
  LET swept  == WithSweep(e, time, x)
      noised == IF e.noiseMix > 0
                THEN Mul(swept, Unit - e.noiseMix) + Mul(noise, e.noiseMix) ELSE swept
      shaped == Mul(noised, AdsrValueAt(e, time))
  IN  (IF e.distortion > 0 THEN SoftClip(shaped, Unit + 10 * e.distortion) ELSE shaped) \div 2

---------------------------------------------------------------------------
Init ==
  /\ session = SessionSeed
  /\ sfx = [s \in Slots |-> NoSound] /\ started = "unopened"
  /\ sounds = 0
  /\ pc = "idle" /\ job = NoSound
  /\ lcg = 0 /\ f = 0 /\ osc = 1 /\ sum = 0
  /\ filter = [p0 |-> 0, p1 |-> 0, p2 |-> 0, brown |-> 0]
  /\ echo = 0 /\ gain = 0 /\ peak = 0 /\ out = Silence(1)

Begin(j) ==
  /\ pc = "idle" /\ sounds < MaxSounds
  /\ sounds' = sounds + 1
  /\ job' = j
  /\ lcg' = j.from
  /\ out' = Silence(FramesOf(j))
  /\ f' = 0 /\ osc' = 1 /\ sum' = 0
  /\ filter' = [p0 |-> 0, p1 |-> 0, p2 |-> 0, brown |-> 0]
  /\ pc' = IF j.burst THEN "burst" ELSE "osc"
  /\ UNCHANGED <<session, sfx, started, echo, gain, peak>>

\* Mutant of Sound: a preset of its own seed that draws from the shared generator.
SoundShared(slot, r) ==
  Begin([slot |-> slot, of |-> r, e |-> Preset(r), burst |-> r.name = "noise",
         own |-> r.name \in OwnGenerator, from |-> session])

\* gpsound with preset r; one rendered with the shared generator goes on from
\* where the one before left it.
Sound(slot, r) ==
  Begin([slot |-> slot, of |-> r, e |-> Preset(r), burst |-> r.name = "noise",
         own |-> r.name \in OwnGenerator,
         from |-> IF r.name \in OwnGenerator THEN 0 ELSE session])

\* render(e, rng) from outside, with a generator of the caller's.
RenderEffect(slot, e) ==
  Begin([slot |-> slot, of |-> [name |-> "effect", e |-> e], e |-> e, burst |-> FALSE,
         own |-> TRUE, from |-> 0])

\* The next oscillator of this frame; one of noise draws.
AddOscillator ==
  /\ pc = "osc" /\ f < FramesOf(job) /\ osc <= Len(job.e.osc)
  /\ LET o    == job.e.osc[osc]
         next == IF o.wave = "noise" THEN Step(lcg) ELSE lcg
     IN  /\ sum' = sum + Mul(WaveSample(o, PhaseAt(o.freq, TimeAt(f)) + o.phase, Signed(next)), o.amp)
         /\ lcg' = next
  /\ osc' = osc + 1
  /\ UNCHANGED <<session, sfx, started, sounds, pc, job, f, filter, echo, gain, peak, out>>

MixFrame ==
  /\ pc = "osc" /\ f < FramesOf(job) /\ osc > Len(job.e.osc)
  /\ LET next == IF job.e.noiseMix > 0 THEN Step(lcg) ELSE lcg
     IN  /\ out' = [out EXCEPT ![f] = Mixed(job.e, TimeAt(f), sum, Signed(next))]
         /\ lcg' = next
  /\ f' = f + 1 /\ osc' = 1 /\ sum' = 0
  /\ UNCHANGED <<session, sfx, started, sounds, pc, job, filter, echo, gain, peak>>

FramesDone ==
  /\ pc = "osc" /\ f = FramesOf(job)
  /\ pc' = IF job.e.echoCount > 0 /\ job.e.echoDelay > 0 THEN "echo" ELSE "peak"
  /\ echo' = 0 /\ gain' = job.e.echoDecay
  /\ f' = 0 /\ peak' = 0
  /\ UNCHANGED <<session, sfx, started, sounds, job, lcg, osc, sum, filter, out>>

---------------------------------------------------------------------------
(* Echo taps, in place.                                                    *)

DelayFrames == (job.e.echoDelay * SampleRate) \div Second
EchoStart   == DelayFrames * (echo + 1)

BeginTap ==
  /\ pc = "echo" /\ echo < job.e.echoCount /\ EchoStart < FramesOf(job)
  /\ pc' = "tap" /\ f' = 0
  /\ UNCHANGED <<session, sfx, started, sounds, job, lcg, osc, sum, filter, echo, gain, peak, out>>

SkipTap ==
  /\ pc = "echo" /\ echo < job.e.echoCount /\ EchoStart >= FramesOf(job)
  /\ echo' = echo + 1 /\ gain' = Mul(gain, job.e.echoDecay)
  /\ UNCHANGED <<session, sfx, started, sounds, pc, job, lcg, f, osc, sum, filter, peak, out>>

TapFrame ==
  /\ pc = "tap" /\ f < FramesOf(job) - EchoStart
  /\ out' = [out EXCEPT ![f + EchoStart] = @ + Mul(out[f], gain)]
  /\ f' = f + 1
  /\ UNCHANGED <<session, sfx, started, sounds, pc, job, lcg, osc, sum, filter, echo, gain, peak>>

EndTap ==
  /\ pc = "tap" /\ f = FramesOf(job) - EchoStart
  /\ pc' = "echo"
  /\ echo' = echo + 1 /\ gain' = Mul(gain, job.e.echoDecay)
  /\ UNCHANGED <<session, sfx, started, sounds, job, lcg, f, osc, sum, filter, peak, out>>

TapsDone ==
  /\ pc = "echo" /\ echo = job.e.echoCount
  /\ pc' = "peak"
  /\ f' = 0 /\ peak' = 0
  /\ UNCHANGED <<session, sfx, started, sounds, job, lcg, osc, sum, filter, echo, gain, out>>

---------------------------------------------------------------------------
(* noise_burst: kind 1 is pink, 2 is brown, any other white.               *)

BurstFrame ==
  /\ pc = "burst" /\ f < FramesOf(job)
  /\ LET next  == Step(lcg)
         v     == Signed(next)
         pink  == [filter EXCEPT !.p0 = (998 * @ + 99 * v) \div 1000,
                                 !.p1 = (963 * @ + 297 * v) \div 1000,
                                 !.p2 = (570 * @ + 1053 * v) \div 1000]
         brown == [filter EXCEPT !.brown = Clamp(@ + (2 * v) \div 100, -Unit, Unit)]
         kept  == IF job.of.a1 = 1 THEN pink ELSE IF job.of.a1 = 2 THEN brown ELSE filter
         value == IF job.of.a1 = 1
                  THEN (kept.p0 + kept.p1 + kept.p2 + (185 * v) \div 1000) \div 4
                  ELSE IF job.of.a1 = 2 THEN kept.brown ELSE v
         rest  == Unit - ((f * Unit) \div FramesOf(job))
     IN  /\ lcg' = next
         /\ filter' = kept
         /\ out' = [out EXCEPT ![f] = (6 * Mul(value, Mul(rest, rest))) \div 10]
  /\ f' = f + 1
  /\ UNCHANGED <<session, sfx, started, sounds, pc, job, osc, sum, echo, gain, peak>>

BurstDone ==
  /\ pc = "burst" /\ f = FramesOf(job)
  /\ pc' = "peak"
  /\ f' = 0 /\ peak' = 0
  /\ UNCHANGED <<session, sfx, started, sounds, job, lcg, osc, sum, filter, echo, gain, out>>

---------------------------------------------------------------------------
(* normalize, and the slot.                                                *)

\* 0.9 for an effect, 0.95 for a burst.
Target(j) == IF j.burst THEN (95 * Unit) \div 100 ELSE (9 * Unit) \div 10

\* Mutant of PeakFrame: the largest sample, and not the largest level.
PeakFrameSigned ==
  /\ pc = "peak" /\ f < FramesOf(job)
  /\ peak' = IF out[f] > peak THEN out[f] ELSE peak
  /\ f' = f + 1
  /\ UNCHANGED <<session, sfx, started, sounds, pc, job, lcg, osc, sum, filter, echo, gain, out>>

PeakFrame ==
  /\ pc = "peak" /\ f < FramesOf(job)
  /\ peak' = IF Abs(out[f]) > peak THEN Abs(out[f]) ELSE peak
  /\ f' = f + 1
  /\ UNCHANGED <<session, sfx, started, sounds, pc, job, lcg, osc, sum, filter, echo, gain, out>>

Normalize ==
  /\ pc = "peak" /\ f = FramesOf(job)
  /\ pc' = "define"
  /\ out' = IF peak > Unit THEN [i \in DOMAIN out |-> (out[i] * Target(job)) \div peak] ELSE out
  /\ UNCHANGED <<session, sfx, started, sounds, job, lcg, f, osc, sum, filter, echo, gain, peak>>

\* GpSfx::define; the engine is started by its first use, which may fail, and
\* is not tried again.  Slots outlive the pane: GpEngine::close leaves them.
Define ==
  /\ pc = "define"
  /\ pc' = "idle" /\ job' = NoSound
  /\ session' = IF job.own THEN session ELSE lcg
  /\ started' \in IF started = "unopened" THEN {"on", "failed"} ELSE {started}
  /\ sfx' = IF started' = "on"
            THEN [sfx EXCEPT ![job.slot] = [of |-> job.of, own |-> job.own, from |-> job.from,
                                            samples |-> out]]
            ELSE sfx
  /\ lcg' = 0 /\ f' = 0 /\ out' = Silence(1) /\ peak' = 0
  /\ UNCHANGED <<sounds, osc, sum, filter, echo, gain>>

Next ==
  \/ \E slot \in Slots, r \in Recipes : Sound(slot, r)
  \/ \E slot \in Slots, e \in Effects : RenderEffect(slot, e)
  \/ AddOscillator \/ MixFrame \/ FramesDone
  \/ BeginTap \/ SkipTap \/ TapFrame \/ EndTap \/ TapsDone
  \/ BurstFrame \/ BurstDone
  \/ PeakFrame \/ Normalize \/ Define

Spec == Init /\ [][Next]_vars

---------------------------------------------------------------------------
(* Properties.                                                             *)

\* A preset with a generator of its own sounds the same whenever it is asked
\* for, whatever noise was rendered in between and in which slot; one that uses
\* the shared generator sounds the same from the same state of it (the porting
\* note of gp_synth.h: deterministic given a seed).
Repeatable ==
  \A s, t \in Slots :
    /\ sfx[s] # NoSound /\ sfx[t] # NoSound /\ sfx[s].of = sfx[t].of
    /\ sfx[s].own \/ sfx[s].from = sfx[t].from
    => sfx[s].samples = sfx[t].samples

\* What a slot holds stays within full scale, however many oscillators, taps and
\* filters were added up (render, noise_burst, normalize).
NeverClips ==
  \A s \in Slots : sfx[s] # NoSound =>
    \A i \in DOMAIN sfx[s].samples : -Unit <= sfx[s].samples[i] /\ sfx[s].samples[i] <= Unit
============================================================================
