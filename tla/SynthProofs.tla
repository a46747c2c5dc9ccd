---------------------------- MODULE SynthProofs ----------------------------
(***************************************************************************)
(* Proofs about Synth, for any rate, generator, sounds and effects:        *)
(* nothing clips, a sound repeats.                                         *)
(***************************************************************************)
EXTENDS Synth, SequenceTheorems, WellFoundedInduction, NaturalsInduction, TLAPS

---------------------------------------------------------------------------
(* Effects.                                                                *)

\* What the samples are computed from is a number.
Numbers == {"dur", "attack", "decay", "sustain", "release", "sweepStart", "sweepEnd",
            "noiseMix", "distortion", "echoDecay"}
Voice == [wave : Waveform, freq : Int, amp : Int, phase : Int, width : Int]

Numeric(e) ==
  /\ \A x \in Numbers : e[x] \in Int
  /\ e.echoDelay \in Nat
  /\ e.osc \in Seq(Voice)

LEMMA EffectsAreNumeric == ASSUME NEW e \in Effects PROVE Numeric(e)
<1>1. IsEffect(e)
  BY SynthAssumption
<1>2. Oscillator \subseteq Voice
  BY DEF Oscillator, Voice
<1>3. e.osc \in Seq(Voice)
  BY <1>1, <1>2 DEF IsEffect
<1>4. Unit \in Nat
  BY SynthAssumption
<1>5. \A x \in Numbers : e[x] \in Int
  <2>1. /\ e.dur \in Int /\ e.attack \in Nat /\ e.decay \in Nat /\ e.release \in Nat /\ e.sweepStart \in Nat
        /\ e.sweepEnd \in Nat
    BY <1>1 DEF IsEffect
  <2>2. /\ e.sustain \in 0 .. Unit /\ e.noiseMix \in 0 .. Unit /\ e.distortion \in 0 .. Unit
        /\ e.echoDecay \in 0 .. Unit
    BY <1>1 DEF IsEffect
  <2>3. e.sustain \in Int /\ e.noiseMix \in Int /\ e.distortion \in Int /\ e.echoDecay \in Int
    BY <1>4, <2>2
  <2> QED  BY <2>1, <2>3 DEF Numbers
<1> QED  BY <1>1, <1>3, <1>5 DEF IsEffect, Numeric

\* An effect as the presets build it.
Built(e) == DOMAIN e = Numbers \cup {"echoCount", "echoDelay", "osc"} /\ Numeric(e)

LEMMA PercentInt == \A x \in Int : (x * Unit) \div 100 \in Int
<1>1. \A x \in Int : x * Unit \in Int
  BY SynthAssumption
<1> QED  BY <1>1

LEMMA EffectOfBuilds == \A d \in Int : Built(EffectOf(d))
<1>1. (7 * Unit) \div 10 \in Int
  BY SynthAssumption
<1> QED  BY <1>1 DEF EffectOf, Built, Numeric, Numbers

\* A voice whose width is set again (SfxPlayTone) stays a voice.
LEMMA WidthGiven ==
  ASSUME NEW x \in Voice, NEW k \in Int
  PROVE  [x EXCEPT !.width = k] \in Voice
BY DEF Voice

LEMMA AddOscBuilds ==
  ASSUME NEW e, Built(e), NEW w \in Waveform, NEW freq \in Int, NEW amp \in Int
  PROVE  Built(AddOsc(e, w, freq, amp))
<1> DEFINE v == [wave |-> w, freq |-> freq, amp |-> (amp * Unit) \div 100, phase |-> 0, width |-> 50]
<1>1. v \in Voice
  BY PercentInt DEF Voice
<1> HIDE DEF v
<1>2. Append(e.osc, v) \in Seq(Voice)
  BY <1>1 DEF Built, Numeric
<1>3. AddOsc(e, w, freq, amp) \in {e, [e EXCEPT !.osc = Append(e.osc, v)]}
  BY DEF AddOsc, v
<1> QED  BY <1>2, <1>3 DEF Built, Numeric, Numbers

LEMMA SetEnvBuilds ==
  ASSUME NEW e, Built(e), NEW a \in Int, NEW d \in Int, NEW s \in Int, NEW r \in Int
  PROVE  Built(SetEnv(e, a, d, s, r))
<1>1. (s * Unit) \div 100 \in Int
  BY PercentInt
<1> QED  BY <1>1 DEF SetEnv, Built, Numeric, Numbers

LEMMA SweepBuilds ==
  ASSUME NEW e, Built(e), NEW from \in Int, NEW to \in Int
  PROVE  Built(Sweep(e, from, to))
  BY DEF Sweep, Built, Numeric, Numbers

LEMMA NoiseMixBuilds ==
  ASSUME NEW e, Built(e), NEW percent \in Int
  PROVE  Built(NoiseMix(e, percent))
<1>1. (percent * Unit) \div 100 \in Int
  BY PercentInt
<1> QED  BY <1>1 DEF NoiseMix, Built, Numeric, Numbers

LEMMA PresetIsNumeric == ASSUME NEW r \in Recipes PROVE Numeric(Preset(r))
<1> DEFINE Or(x, default) == IF x > 0 THEN x ELSE default
<1>1. \A x, d \in Int : Or(x, d) \in Int
  OBVIOUS
<1>2. r.a1 \in Int /\ r.a2 \in Int /\ r.name \in Named /\ r.wave \in Waveform
  BY SynthAssumption
<1>w. {"sine", "square", "triangle", "noise"} \subseteq Waveform
  BY DEF Waveform
<1>3. ASSUME NEW freq \in Int, NEW d \in Int PROVE Built(Beep(freq, d))
  BY <1>w, EffectOfBuilds, AddOscBuilds, SetEnvBuilds DEF Beep
<1>4. ASSUME NEW d \in Int
      PROVE  /\ Built(Coin(d)) /\ Built(Jump(d)) /\ Built(Zap(d)) /\ Built(Shoot(d))
             /\ Built(Powerup(d)) /\ Built(Hurt(d)) /\ Built(Click(d)) /\ Built(Bang(d))
  <2> DEFINE e == EffectOf(d)
  <2>0. Built(e)
    BY EffectOfBuilds
  <2> HIDE DEF e
  <2>1. Built(Coin(d))
    <3>1. Built(AddOsc(e, "sine", 988, 50))
      BY <2>0, <1>w, AddOscBuilds
    <3>2. Built(AddOsc(AddOsc(e, "sine", 988, 50), "sine", 1319, 30))
      BY <3>1, <1>w, AddOscBuilds
    <3> QED  BY <3>2, SetEnvBuilds DEF Coin, e
  <2>2. Built(Jump(d))
    BY <2>0, SweepBuilds, SetEnvBuilds DEF Jump, e
  <2>3. Built(Zap(d))
    BY <2>0, SweepBuilds, NoiseMixBuilds, SetEnvBuilds DEF Zap, e
  <2>4. Built(Shoot(d))
    BY <2>0, SweepBuilds, NoiseMixBuilds, SetEnvBuilds DEF Shoot, e
  <2>5. Built(Powerup(d))
    <3>1. Built(AddOsc(e, "square", 400, 40))
      BY <2>0, <1>w, AddOscBuilds
    <3> QED  BY <3>1, SweepBuilds, SetEnvBuilds DEF Powerup, e
  <2>6. Built(Hurt(d))
    BY <2>0, SweepBuilds, NoiseMixBuilds, SetEnvBuilds DEF Hurt, e
  <2>7. Built(Click(d))
    <3>1. Built(AddOsc(e, "noise", 440, 30))
      BY <2>0, <1>w, AddOscBuilds
    <3> QED  BY <3>1, SetEnvBuilds DEF Click, e
  <2>8. Built(Bang(d))
    BY <2>0, NoiseMixBuilds, SetEnvBuilds DEF Bang, e
  <2> QED  BY <2>1, <2>2, <2>3, <2>4, <2>5, <2>6, <2>7, <2>8
<1>5. ASSUME NEW size \in Int, NEW d \in Int PROVE Built(Explode(size, d))
  <2> DEFINE one == AddOsc(EffectOf(d), "sine", 58, 95)
             two == AddOsc(one, "triangle", 86, 28)
             level == Clamp(6 * size, 0, 12)
             mixed == NoiseMix(Sweep(two, 135, 32), level)
  <2>1. Built(one)
    BY <1>w, EffectOfBuilds, AddOscBuilds
  <2>2. level \in Int
    BY DEF Clamp
  <2> HIDE DEF one, level
  <2>3. Built(mixed)
    <3>1. Built(two)
      BY <2>1, <1>w, AddOscBuilds
    <3> HIDE DEF two
    <3>2. Built(Sweep(two, 135, 32))
      BY <3>1, SweepBuilds
    <3> QED  BY <2>2, <3>2, NoiseMixBuilds
  <2>4. (8 * Unit) \div 100 \in Int
    BY PercentInt
  <2> HIDE DEF mixed
  <2> DEFINE distorted == [mixed EXCEPT !.distortion = (8 * Unit) \div 100]
  <2>5. Built(distorted)
    BY <2>3, <2>4 DEF Built, Numeric, Numbers
  <2>6. Explode(size, d) = SetEnv(distorted, 15, 1400, 0, 1000)
    BY DEF Explode, mixed, level, one
  <2> HIDE DEF distorted
  <2> QED  BY <2>5, <2>6, SetEnvBuilds
<1>6. ASSUME NEW freq \in Int, NEW d \in Int, NEW w \in Waveform PROVE Built(Tone(freq, d, w))
  <2> DEFINE e == AddOsc(SetEnv(EffectOf(d), 100, 500, 80, 1000), w, IF freq < 1 THEN 1 ELSE freq, 75)
             width == IF w = "pulse" THEN 25 ELSE 50
  <2>1. Built(e)
    <3>1. Built(SetEnv(EffectOf(d), 100, 500, 80, 1000))
      BY EffectOfBuilds, SetEnvBuilds
    <3>2. (IF freq < 1 THEN 1 ELSE freq) \in Int
      OBVIOUS
    <3> QED  BY <3>1, <3>2, AddOscBuilds
  <2> HIDE DEF e
  <2> DEFINE n == Len(e.osc)
             voices == [e.osc EXCEPT ![n].width = width]
  <2>2. voices \in Seq(Voice)
    <3>1. e.osc \in Seq(Voice)
      BY <2>1 DEF Built, Numeric
    <3>2. CASE n \in 1 .. Len(e.osc)
      <4> DEFINE v == [e.osc[n] EXCEPT !.width = width]
      <4>1. e.osc[n] \in Voice
        BY <3>1, <3>2, ElementOfSeq, Zenon
      <4>2. v \in Voice
        <5>1. width \in Int
          OBVIOUS
        <5> HIDE DEF width
        <5> QED  BY <4>1, <5>1, WidthGiven
      <4>3. voices = [e.osc EXCEPT ![n] = v]
        OBVIOUS
      <4> HIDE DEF v, n, voices
      <4> QED  BY <3>1, <3>2, <4>2, <4>3, ExceptSeq, Zenon
    <3>3. CASE n \notin 1 .. Len(e.osc)
      <4>1. DOMAIN e.osc = 1 .. Len(e.osc)
        BY <3>1
      <4>2. voices = e.osc
        BY <3>1, <3>3, <4>1
      <4> QED  BY <3>1, <4>2
    <3> QED  BY <3>2, <3>3
  <2>3. Tone(freq, d, w) = [e EXCEPT !.osc = voices]
    BY DEF Tone, e
  <2> HIDE DEF voices
  <2> QED  BY <2>1, <2>2, <2>3 DEF Built, Numeric, Numbers
<1>7. Built(Preset(r))
  <2>1. 800 * Or(r.a1, 1) \in Int
    BY <1>1, <1>2
  <2>2. \A d \in Int : Or(r.a1, d) \in Int /\ Or(r.a2, d) \in Int
    BY <1>1, <1>2
  <2>3. /\ r.name = "beep" => Preset(r) = Beep(Or(r.a1, 440), Or(r.a2, 1500))
        /\ r.name = "coin" => Preset(r) = Coin(Or(r.a1, 3000))
        /\ r.name = "jump" => Preset(r) = Jump(Or(r.a1, 2000))
        /\ r.name = "zap" => Preset(r) = Zap(Or(r.a1, 2000))
        /\ r.name = "shoot" => Preset(r) = Shoot(Or(r.a1, 1500))
        /\ r.name = "explode" => Preset(r) = Explode(Or(r.a1, 1), Or(r.a2, 5000))
        /\ r.name = "powerup" => Preset(r) = Powerup(Or(r.a1, 4000))
        /\ r.name = "hurt" => Preset(r) = Hurt(Or(r.a1, 2500))
        /\ r.name = "click" => Preset(r) = Click(Or(r.a1, 500))
        /\ r.name = "bang" => Preset(r) = Bang(Or(r.a1, 3000))
        /\ r.name = "blip" => Preset(r) = Beep(800 * Or(r.a1, 1), Or(r.a2, 800))
        /\ r.name = "tone" => Preset(r) = Tone(Or(r.a1, 440), Or(r.a2, 2000), r.wave)
        /\ r.name = "noise" => Preset(r) = EffectOf(Or(r.a2, 3000))
    BY DEF Preset
  <2> HIDE DEF Or
  <2>4. CASE r.name \in {"coin", "jump", "zap", "shoot", "powerup", "hurt", "click", "bang"}
    BY <1>4, <2>2, <2>3, <2>4
  <2>5. CASE r.name \in {"beep", "blip"}
    BY <1>3, <2>1, <2>2, <2>3, <2>5
  <2>6. CASE r.name \in {"explode", "tone", "noise"}
    BY <1>2, <1>5, <1>6, EffectOfBuilds, <2>2, <2>3, <2>6
  <2> QED  BY <1>2, <2>4, <2>5, <2>6 DEF Named
<1> QED  BY <1>7 DEF Built

---------------------------------------------------------------------------
(* A sound under way.                                                      *)

\* The samples are numbered from 0, and the delay of a job is a number of frames.
Rendering ==
  /\ pc # "idle" => Numeric(job.e) /\ DOMAIN out = 0 .. FramesOf(job) - 1
  /\ pc \in {"echo", "tap"} => echo \in Nat
  /\ pc = "tap" => f \in Nat

LEMMA ClampInt == \A x, lo, hi \in Int : Clamp(x, lo, hi) \in Int
  BY DEF Clamp

LEMMA FramesOfInt ==
  ASSUME NEW j, Numeric(j.e)
  PROVE  FramesOf(j) \in Int
<1>0. j.e.dur \in Int
  BY DEF Numeric, Numbers
<1>1. ASSUME NEW d \in Int PROVE Frames(d) \in Int
  <2>1. SampleRate * d \in Int /\ SampleRate * MaxDuration \in Int
    BY SynthAssumption
  <2>2. (SampleRate * d) \div Second \in Int /\ MaxFrames \in Int
    BY <2>1 DEF Second, MaxFrames
  <2>3. Clamp((SampleRate * d) \div Second, 0, MaxFrames) \in Int
    BY <2>2, ClampInt
  <2> QED  BY <2>3 DEF Frames, AtLeastOne
<1>2. Clamped(j.e) \in Int
  <2>1. Clamp(j.e.dur, 0, MaxDuration) \in Int
    BY <1>0, SynthAssumption DEF Clamp
  <2> QED  BY <2>1 DEF Clamped
<1> QED  BY <1>0, <1>1, <1>2 DEF FramesOf

\* A tap begins at a frame.
LEMMA EchoStartInt ==
  ASSUME Numeric(job.e), echo \in Nat
  PROVE  EchoStart \in Nat
<1>1. DelayFrames \in Nat
  <2>0. job.e.echoDelay \in Nat
    BY DEF Numeric
  <2>1. job.e.echoDelay * SampleRate \in Nat
    BY <2>0, SynthAssumption
  <2> QED  BY <2>1 DEF DelayFrames, Second
<1>2. \A d, k \in Nat : d * (k + 1) \in Nat
  OBVIOUS
<1> QED  BY <1>1, <1>2 DEF EchoStart

LEMMA BeginRenders ==
  ASSUME NEW j, Begin(j), Numeric(j.e)
  PROVE  Rendering'
<1>1. pc' \in {"burst", "osc"} /\ job' = j /\ out' = Silence(FramesOf(j))
  BY DEF Begin
<1> QED  BY <1>1 DEF Rendering, Silence, FramesOf

LEMMA RenderingStep == Rendering /\ [Next]_vars => Rendering'
<1> SUFFICES ASSUME Rendering, [Next]_vars PROVE Rendering'
  OBVIOUS
<1>1. ASSUME NEW slot \in Slots, NEW r \in Recipes, Sound(slot, r) PROVE Rendering'
  BY <1>1, PresetIsNumeric, BeginRenders DEF Sound
<1>2. ASSUME NEW slot \in Slots, NEW e \in Effects, RenderEffect(slot, e) PROVE Rendering'
  BY <1>2, EffectsAreNumeric, BeginRenders DEF RenderEffect
<1>3. CASE AddOscillator \/ FramesDone \/ SkipTap \/ TapsDone \/ BurstDone \/ PeakFrame \/ EndTap
  BY <1>3 DEF AddOscillator, FramesDone, SkipTap, TapsDone, BurstDone, PeakFrame, EndTap, Rendering, FramesOf
<1>4. CASE MixFrame \/ BurstFrame \/ Normalize
  BY <1>4 DEF MixFrame, BurstFrame, Normalize, Rendering, FramesOf
<1>5. CASE BeginTap
  BY <1>5 DEF BeginTap, Rendering, FramesOf
<1>6. CASE TapFrame
  BY <1>6 DEF TapFrame, Rendering, FramesOf
<1>7. CASE Define
  BY <1>7 DEF Define, Rendering
<1>8. CASE UNCHANGED vars
  BY <1>8 DEF vars, Rendering, FramesOf
<1> QED
  BY <1>1, <1>2, <1>3, <1>4, <1>5, <1>6, <1>7, <1>8 DEF Next

---------------------------------------------------------------------------
(* Levels.                                                                 *)

LEMMA QuotientBound ==
  ASSUME NEW x \in Int, NEW q \in Nat \ {0}, NEW u \in Nat, -(q * u) <= x, x <= q * u
  PROVE  x \div q \in Int /\ -u <= x \div q /\ x \div q <= u
<1> DEFINE d == x \div q
<1>1. d \in Int /\ q * d <= x /\ x < q * d + q
  OBVIOUS
<1> HIDE DEF d
<1>2. d <= u
  <2> SUFFICES ASSUME d >= u + 1 PROVE FALSE
    BY <1>1
  <2>1. q * d >= q * (u + 1)
    BY <1>1
  <2>2. q * (u + 1) = q * u + q
    OBVIOUS
  <2> QED  BY <1>1, <2>1, <2>2
<1>3. -u <= d
  <2> SUFFICES ASSUME d <= -u - 1 PROVE FALSE
    BY <1>1
  <2>1. q * d <= q * (-u - 1)
    BY <1>1
  <2>2. q * (-u - 1) = -(q * u) - q
    OBVIOUS
  <2> QED  BY <1>1, <2>1, <2>2
<1> QED  BY <1>1, <1>2, <1>3 DEF d

\* A level of at most p, scaled by at most 1.0 in p, is within full scale.
LEMMA ScaledDown ==
  ASSUME NEW p \in Nat \ {0}, NEW t \in 0 .. Unit, NEW o \in Int, -p <= o, o <= p
  PROVE  /\ (o * t) \div p \in Int
         /\ -Unit <= (o * t) \div p /\ (o * t) \div p <= Unit
<1>1. Unit \in Nat /\ t \in Nat /\ t <= Unit
  BY SynthAssumption
<1>2. o * t \in Int /\ p * t \in Int /\ p * Unit \in Int
  BY <1>1
<1>3. o * t <= p * t /\ -(p * t) <= o * t
  BY <1>1
<1>4. p * t <= p * Unit
  BY <1>1
<1>5. -(p * Unit) <= o * t /\ o * t <= p * Unit
  BY <1>2, <1>3, <1>4
<1> QED  BY <1>1, <1>2, <1>5, QuotientBound

LEMMA MulInt == \A a, b \in Int : Mul(a, b) \in Int
<1>1. \A a, b \in Int : a * b \in Int
  OBVIOUS
<1> QED  BY <1>1, SynthAssumption DEF Mul

LEMMA StepInt == ASSUME NEW x \in Int PROVE Step(x) \in Int /\ Signed(x) \in Int
<1>1. /\ LcgMul \in Int /\ LcgAdd \in Int /\ LcgMod \in Nat \ {0} /\ LcgLow \in Nat \ {0}
      /\ LcgRange \in Nat \ {0} /\ Unit \in Nat
  BY SynthAssumption
<1>2. x * LcgMul + LcgAdd \in Int
  BY <1>1
<1>3. (x \div LcgLow) % LcgRange \in Int
  BY <1>1
<1>4. 2 * Unit * ((x \div LcgLow) % LcgRange) \in Int
  BY <1>1, <1>3
<1>5. (2 * Unit * ((x \div LcgLow) % LcgRange)) \div LcgRange \in Int
  BY <1>1, <1>4
<1> QED  BY <1>1, <1>2, <1>5 DEF Step, Signed

LEMMA SineInt == \A x \in Int : Sine[x % 100] \in Int
<1>1. \A x \in Int : x % 100 \in 0 .. 99
  OBVIOUS
<1> QED  BY <1>1, SynthAssumption

LEMMA PhaseInt == \A freq, time \in Int : PhaseAt(freq, time) \in Int
<1>1. \A freq, time \in Int : 100 * freq * time \in Int
  OBVIOUS
<1> QED  BY <1>1 DEF PhaseAt, Second

LEMMA WaveInt ==
  ASSUME NEW o \in Voice, NEW phase \in Int, NEW noise \in Int
  PROVE  WaveSample(o, phase, noise) \in Int
<1> DEFINE ph == phase % 100
<1>1. ph \in Int /\ Sine[ph] \in Int /\ Unit \in Int
  BY SineInt, SynthAssumption
<1> HIDE DEF ph
<1>2. 2 * Unit * (((ph + 50) % 100) - 50) \in Int
  BY <1>1
<1>3. 4 * Unit * Abs(ph - 50) \in Int
  BY <1>1 DEF Abs
<1>4. (2 * Unit * (((ph + 50) % 100) - 50)) \div 100 \in Int
      /\ ((4 * Unit * Abs(ph - 50)) \div 100) - Unit \in Int
  BY <1>1, <1>2, <1>3
<1>5. o.wave \in Waveform
  BY DEF Voice
<1> HIDE DEF Abs
<1> QED  BY <1>1, <1>4, <1>5 DEF WaveSample, Waveform, ph

LEMMA AdsrInt == ASSUME NEW e, Numeric(e), NEW time \in Int PROVE AdsrValueAt(e, time) \in Int
<1> DEFINE left == e.dur - (e.attack + e.decay + e.release)
           held == IF left < 0 THEN 0 ELSE left
           t1   == time - e.attack
           t2   == t1 - e.decay
           t3   == t2 - held
<1>1. /\ e.dur \in Int /\ e.attack \in Int /\ e.decay \in Int /\ e.sustain \in Int /\ e.release \in Int
      /\ Unit \in Nat
  BY SynthAssumption DEF Numeric, Numbers
<1>2. left \in Int /\ held \in Int /\ t1 \in Int /\ t2 \in Int /\ t3 \in Int
  BY <1>1
<1> HIDE DEF held, t1, t2, t3
<1>3. time * Unit \in Int /\ t1 * (Unit - e.sustain) \in Int /\ t3 * Unit \in Int
  BY <1>1, <1>2
<1>4. e.attack > 0 => (time * Unit) \div e.attack \in Int
  BY <1>1, <1>3
<1>5. e.decay > 0 => Unit - ((t1 * (Unit - e.sustain)) \div e.decay) \in Int
  BY <1>1, <1>3
<1>6. e.release > 0 => Mul(e.sustain, Unit - ((t3 * Unit) \div e.release)) \in Int
  <2>1. e.release > 0 => Unit - ((t3 * Unit) \div e.release) \in Int
    BY <1>1, <1>3
  <2> QED  BY <1>1, <2>1, MulInt
<1>7. AdsrValueAt(e, time) \in
        {Unit, e.sustain, 0}
        \cup (IF e.attack > 0 THEN {(time * Unit) \div e.attack} ELSE {})
        \cup (IF e.decay > 0 THEN {Unit - ((t1 * (Unit - e.sustain)) \div e.decay)} ELSE {})
        \cup (IF e.release > 0 THEN {Mul(e.sustain, Unit - ((t3 * Unit) \div e.release))} ELSE {})
  BY <1>1, <1>2 DEF AdsrValueAt, held, t1, t2, t3
<1> QED  BY <1>1, <1>4, <1>5, <1>6, <1>7

LEMMA ClampedPositive == ASSUME NEW e, Numeric(e) PROVE Clamped(e) \in Nat \ {0}
<1>1. e.dur \in Int /\ MaxDuration \in Nat
  BY SynthAssumption DEF Numeric, Numbers
<1> QED  BY <1>1 DEF Clamped, Clamp

LEMMA SweepInt ==
  ASSUME NEW e, Numeric(e), NEW time \in Int, NEW x \in Int
  PROVE  WithSweep(e, time, x) \in Int
<1>1. e.sweepStart \in Int /\ e.sweepEnd \in Int /\ Clamped(e) \in Nat \ {0}
  BY ClampedPositive DEF Numeric, Numbers
<1> DEFINE d == Clamped(e)
           freq == e.sweepStart + (((e.sweepEnd - e.sweepStart) * time) \div d)
<1>2. freq \in Int
  <2>1. (e.sweepEnd - e.sweepStart) * time \in Int
    BY <1>1
  <2> HIDE DEF d
  <2> QED  BY <1>1, <2>1 DEF d
<1> HIDE DEF freq
<1>3. Sine[PhaseAt(freq, time) % 100] \in Int
  BY <1>2, PhaseInt, SineInt
<1>4. WithSweep(e, time, x) \in {x, x + (Sine[PhaseAt(freq, time) % 100] \div 2)}
  BY DEF WithSweep, freq
<1> QED  BY <1>3, <1>4

LEMMA MixedInt ==
  ASSUME NEW e, Numeric(e), NEW time \in Int, NEW x \in Int, NEW noise \in Int
  PROVE  Mixed(e, time, x, noise) \in Int
<1> DEFINE swept  == WithSweep(e, time, x)
           noised == IF e.noiseMix > 0
                     THEN Mul(swept, Unit - e.noiseMix) + Mul(noise, e.noiseMix) ELSE swept
           shaped == Mul(noised, AdsrValueAt(e, time))
<1>1. e.noiseMix \in Int /\ e.distortion \in Int /\ Unit \in Int
  BY SynthAssumption DEF Numeric, Numbers
<1>2. swept \in Int
  BY SweepInt
<1> HIDE DEF swept
<1>3. noised \in Int
  <2>1. Unit - e.noiseMix \in Int
    BY <1>1
  <2>2. Mul(swept, Unit - e.noiseMix) \in Int /\ Mul(noise, e.noiseMix) \in Int
    BY <1>1, <1>2, <2>1, MulInt
  <2> QED  BY <1>2, <2>2
<1> HIDE DEF noised
<1>4. shaped \in Int
  BY <1>3, AdsrInt, MulInt
<1> HIDE DEF shaped
<1>5. SoftClip(shaped, Unit + 10 * e.distortion) \in Int
  <2>1. Unit + 10 * e.distortion \in Int /\ -Unit \in Int
    BY <1>1
  <2>2. Mul(shaped, Unit + 10 * e.distortion) \in Int
    BY <1>4, <2>1, MulInt
  <2> QED  BY <1>1, <2>1, <2>2 DEF SoftClip, Clamp
<1>6. Mixed(e, time, x, noise) =
        (IF e.distortion > 0 THEN SoftClip(shaped, Unit + 10 * e.distortion) ELSE shaped) \div 2
  BY DEF Mixed, shaped, noised, swept
<1> QED  BY <1>4, <1>5, <1>6

\* Everything that is added up is a number, the peak bounds what it has seen, and
\* what goes into a slot is within full scale.
Registers ==
  /\ session \in Int /\ lcg \in Int /\ f \in Nat
  /\ filter \in [p0 : Int, p1 : Int, p2 : Int, brown : Int]
  /\ pc = "osc" => osc \in Nat \ {0} /\ sum \in Int
  /\ pc \in {"echo", "tap"} => gain \in Int
  /\ pc # "idle" => \A i \in DOMAIN out : out[i] \in Int

Peaked ==
  /\ pc = "peak" =>
       /\ peak \in Nat /\ f <= FramesOf(job)
       /\ \A i \in DOMAIN out : i < f => -peak <= out[i] /\ out[i] <= peak
  /\ pc = "define" => \A i \in DOMAIN out : -Unit <= out[i] /\ out[i] <= Unit

Slotted == DOMAIN sfx = Slots /\ NeverClips

LEMMA FramesOfPositive == ASSUME NEW j, Numeric(j.e) PROVE FramesOf(j) \in Nat \ {0}
<1>0. Clamped(j.e) \in Int
  BY ClampedPositive
<1>1. j.e.dur \in Int
  BY DEF Numeric, Numbers
<1>2. ASSUME NEW d \in Int PROVE Frames(d) \in Nat \ {0}
  <2>1. SampleRate * d \in Int /\ SampleRate * MaxDuration \in Int
    BY SynthAssumption
  <2>2. (SampleRate * d) \div Second \in Int /\ MaxFrames \in Int
    BY <2>1 DEF Second, MaxFrames
  <2>3. Clamp((SampleRate * d) \div Second, 0, MaxFrames) \in Int
    BY <2>2, ClampInt
  <2> QED  BY <2>3 DEF Frames, AtLeastOne
<1> QED  BY <1>0, <1>1, <1>2 DEF FramesOf

LEMMA RegistersStep == Rendering /\ Registers /\ Peaked /\ [Next]_vars => Registers'
<1> SUFFICES ASSUME Rendering, Registers, Peaked, [Next]_vars PROVE Registers'
  OBVIOUS
<1> USE DEF Registers
<1>1. ASSUME NEW j, Begin(j), j.from \in Int PROVE Registers'
  <2>1. /\ session' = session /\ lcg' = j.from /\ f' = 0 /\ pc' \in {"burst", "osc"} /\ osc' = 1 /\ sum' = 0
        /\ filter' = [p0 |-> 0, p1 |-> 0, p2 |-> 0, brown |-> 0]
    BY <1>1 DEF Begin
  <2>2. \A i \in DOMAIN out' : out'[i] = 0
    BY <1>1 DEF Begin, Silence
  <2> QED  BY <1>1, <2>1, <2>2
<1>2. ASSUME NEW slot \in Slots, NEW r \in Recipes, Sound(slot, r) PROVE Registers'
  BY <1>1, <1>2 DEF Sound
<1>3. ASSUME NEW slot \in Slots, NEW e \in Effects, RenderEffect(slot, e) PROVE Registers'
  BY <1>1, <1>3 DEF RenderEffect
<1>4. CASE AddOscillator
  <2> DEFINE o    == job.e.osc[osc]
             next == IF o.wave = "noise" THEN Step(lcg) ELSE lcg
             wave == WaveSample(o, PhaseAt(o.freq, TimeAt(f)) + o.phase, Signed(next))
  <2>1. osc \in 1 .. Len(job.e.osc) /\ job.e.osc \in Seq(Voice)
    BY <1>4 DEF AddOscillator, Rendering, Numeric
  <2>2. o \in Voice
    BY <2>1, ElementOfSeq, Zenon
  <2> HIDE DEF o
  <2>3. next \in Int /\ Signed(next) \in Int
    BY StepInt
  <2> HIDE DEF next
  <2>4. TimeAt(f) \in Int
    <3>1. f * Second \in Int
      BY DEF Second
    <3> QED  BY <3>1, SynthAssumption DEF TimeAt
  <2>5. wave \in Int
    <3>1. o.freq \in Int /\ o.phase \in Int
      BY <2>2 DEF Voice
    <3>2. PhaseAt(o.freq, TimeAt(f)) \in Int
      BY <2>4, <3>1, PhaseInt, Zenon
    <3>3. PhaseAt(o.freq, TimeAt(f)) + o.phase \in Int
      BY <3>1, <3>2
    <3> QED  BY <2>2, <2>3, <3>3, WaveInt
  <2> HIDE DEF wave
  <2>6. Mul(wave, o.amp) \in Int
    BY <2>2, <2>5, MulInt DEF Voice
  <2>7. sum' = sum + Mul(wave, o.amp) /\ lcg' = next /\ osc' = osc + 1
    BY <1>4 DEF AddOscillator, wave, next, o
  <2>8. /\ pc = "osc" /\ pc' = pc /\ f' = f /\ session' = session /\ filter' = filter /\ gain' = gain
        /\ out' = out
    BY <1>4 DEF AddOscillator
  <2> HIDE <1>4
  <2> QED  BY <2>3, <2>6, <2>7, <2>8
<1>5. CASE MixFrame
  <2> DEFINE next == IF job.e.noiseMix > 0 THEN Step(lcg) ELSE lcg
             mixed == Mixed(job.e, TimeAt(f), sum, Signed(next))
  <2>1. next \in Int /\ Signed(next) \in Int
    BY StepInt
  <2>2. TimeAt(f) \in Int
    <3>1. f * Second \in Int
      BY DEF Second
    <3> QED  BY <3>1, SynthAssumption DEF TimeAt
  <2> HIDE DEF next
  <2>3. mixed \in Int
    <3>1. Numeric(job.e) /\ sum \in Int
      BY <1>5 DEF MixFrame, Rendering
    <3> QED  BY <2>1, <2>2, <3>1, MixedInt
  <2>4. out' = [out EXCEPT ![f] = mixed] /\ lcg' = next
    BY <1>5 DEF MixFrame, next
  <2> HIDE DEF mixed
  <2> QED  BY <1>5, <2>1, <2>3, <2>4 DEF MixFrame
<1>6. CASE FramesDone
  BY <1>6 DEF FramesDone, Rendering, Numeric, Numbers
<1>7. CASE SkipTap \/ EndTap
  <2>1. gain \in Int /\ job.e.echoDecay \in Int
    BY <1>7 DEF SkipTap, EndTap, Rendering, Numeric, Numbers
  <2>2. Mul(gain, job.e.echoDecay) \in Int
    BY <2>1, MulInt
  <2> QED  BY <1>7, <2>2 DEF SkipTap, EndTap
<1>8. CASE BeginTap \/ TapsDone \/ BurstDone \/ PeakFrame
  BY <1>8 DEF BeginTap, TapsDone, BurstDone, PeakFrame
<1>9. CASE TapFrame
  <2>1. EchoStart \in Nat
    BY <1>9, EchoStartInt DEF TapFrame, Rendering
  <2>2. f \in DOMAIN out
    BY <1>9, <2>1, FramesOfInt DEF TapFrame, Rendering
  <2>3. Mul(out[f], gain) \in Int
    BY <1>9, <2>2, MulInt DEF TapFrame
  <2> DEFINE k == f + EchoStart
             x == Mul(out[f], gain)
  <2>4. out' = [out EXCEPT ![k] = @ + x]
    BY <1>9 DEF TapFrame
  <2> HIDE DEF k, x
  <2>5. \A i \in DOMAIN out' : out'[i] \in Int
    BY <1>9, <2>3, <2>4 DEF TapFrame, x
  <2> QED  BY <1>9, <2>5 DEF TapFrame
<1>10. CASE BurstFrame
  <2> DEFINE next  == Step(lcg)
             v     == Signed(next)
             p0    == (998 * filter.p0 + 99 * v) \div 1000
             p1    == (963 * filter.p1 + 297 * v) \div 1000
             p2    == (570 * filter.p2 + 1053 * v) \div 1000
             pink  == [filter EXCEPT !.p0 = p0, !.p1 = p1, !.p2 = p2]
             br    == Clamp(filter.brown + (2 * v) \div 100, -Unit, Unit)
             brown == [filter EXCEPT !.brown = br]
             kept  == IF job.of.a1 = 1 THEN pink ELSE IF job.of.a1 = 2 THEN brown ELSE filter
             value == IF job.of.a1 = 1
                      THEN (kept.p0 + kept.p1 + kept.p2 + (185 * v) \div 1000) \div 4
                      ELSE IF job.of.a1 = 2 THEN kept.brown ELSE v
             rest  == Unit - ((f * Unit) \div FramesOf(job))
             x     == (6 * Mul(value, Mul(rest, rest))) \div 10
  <2>1. next \in Int /\ v \in Int /\ Unit \in Int
    BY StepInt, SynthAssumption
  <2>2. lcg' = next /\ filter' = kept /\ out' = [out EXCEPT ![f] = x] /\ f' = f + 1
    BY <1>10 DEF BurstFrame
  <2> HIDE DEF next, v
  <2>3. p0 \in Int /\ p1 \in Int /\ p2 \in Int /\ br \in Int
    BY <2>1 DEF Clamp
  <2> HIDE DEF p0, p1, p2, br
  <2>4. pink \in [p0 : Int, p1 : Int, p2 : Int, brown : Int]
        /\ brown \in [p0 : Int, p1 : Int, p2 : Int, brown : Int]
    BY <2>3
  <2> HIDE DEF pink, brown
  <2>5. kept \in [p0 : Int, p1 : Int, p2 : Int, brown : Int]
    BY <2>4
  <2> HIDE DEF kept
  <2>6. value \in Int
    BY <2>1, <2>5
  <2>7. rest \in Int
    <3>1. FramesOf(job) \in Nat \ {0}
      BY <1>10, FramesOfPositive DEF BurstFrame, Rendering
    <3>2. f * Unit \in Int
      BY <2>1
    <3> QED  BY <2>1, <3>1, <3>2
  <2> HIDE DEF value, rest
  <2>8. x \in Int
    <3>1. Mul(value, Mul(rest, rest)) \in Int
      BY <2>6, <2>7, MulInt
    <3> QED  BY <3>1
  <2> HIDE DEF x
  <2> QED  BY <1>10, <2>1, <2>2, <2>5, <2>8 DEF BurstFrame
<1>11. CASE Normalize
  <2>1. Target(job) \in Int
    BY SynthAssumption DEF Target
  <2>2. \A i \in DOMAIN out : out[i] * Target(job) \in Int
    BY <1>11, <2>1 DEF Normalize
  <2>3. \A i \in DOMAIN out : peak > Unit /\ peak \in Nat => (out[i] * Target(job)) \div peak \in Int
    BY <2>2, SynthAssumption
  <2>4. peak \in Nat
    BY <1>11 DEF Normalize, Peaked
  <2>5. \A i \in DOMAIN out' : out'[i] \in Int
    BY <1>11, <2>3, <2>4 DEF Normalize
  <2> QED  BY <1>11, <2>5 DEF Normalize
<1>12. CASE Define
  BY <1>12 DEF Define
<1>13. CASE UNCHANGED vars
  BY <1>13 DEF vars
<1> QED
  BY <1>2, <1>3, <1>4, <1>5, <1>6, <1>7, <1>8, <1>9, <1>10, <1>11, <1>12, <1>13 DEF Next

LEMMA PeakedStep == Rendering /\ Registers /\ Peaked /\ [Next]_vars => Peaked'
<1> SUFFICES ASSUME Rendering, Registers, Peaked, [Next]_vars PROVE Peaked'
  OBVIOUS
<1>1. ASSUME NEW j, Begin(j) PROVE Peaked'
  BY <1>1 DEF Begin, Peaked
<1>2. ASSUME NEW slot \in Slots, NEW r \in Recipes, Sound(slot, r) PROVE Peaked'
  BY <1>1, <1>2 DEF Sound
<1>3. ASSUME NEW slot \in Slots, NEW e \in Effects, RenderEffect(slot, e) PROVE Peaked'
  BY <1>1, <1>3 DEF RenderEffect
<1>4. CASE AddOscillator \/ MixFrame \/ BurstFrame \/ BeginTap \/ SkipTap \/ TapFrame \/ EndTap \/ Define
  BY <1>4 DEF AddOscillator, MixFrame, BurstFrame, BeginTap, SkipTap, TapFrame, EndTap, Define, Peaked
<1>5. CASE FramesDone \/ TapsDone \/ BurstDone
  <2>1. /\ f' = 0 /\ peak' = 0 /\ out' = out /\ job' = job /\ pc' # "define" /\ pc # "idle"
    BY <1>5 DEF FramesDone, TapsDone, BurstDone
  <2>2. FramesOf(job)' \in Nat \ {0} /\ DOMAIN out = 0 .. FramesOf(job) - 1
    BY <2>1, FramesOfPositive DEF Rendering, FramesOf
  <2> QED  BY <2>1, <2>2 DEF Peaked
<1>6. CASE PeakFrame
  <2>1. /\ pc = "peak" /\ pc' = pc /\ f < FramesOf(job) /\ f' = f + 1 /\ out' = out /\ job' = job
        /\ peak' = (IF Abs(out[f]) > peak THEN Abs(out[f]) ELSE peak)
    BY <1>6 DEF PeakFrame
  <2>2. /\ FramesOf(job) \in Nat \ {0} /\ DOMAIN out = 0 .. FramesOf(job) - 1 /\ f \in Nat
        /\ \A i \in DOMAIN out : out[i] \in Int
    BY <2>1, FramesOfPositive DEF Rendering, Registers
  <2>3. /\ peak \in Nat
        /\ \A i \in DOMAIN out : i < f => -peak <= out[i] /\ out[i] <= peak
    BY <2>1 DEF Peaked
  <2>4. out[f] \in Int /\ f + 1 <= FramesOf(job) /\ FramesOf(job)' = FramesOf(job)
    BY <2>1, <2>2 DEF FramesOf
  <2>5. peak' \in Nat /\ peak' >= peak /\ -peak' <= out[f] /\ out[f] <= peak'
    BY <2>1, <2>3, <2>4 DEF Abs
  <2>6. ASSUME NEW i \in DOMAIN out, i < f + 1 PROVE -peak' <= out[i] /\ out[i] <= peak'
    <3>1. CASE i = f
      BY <2>5, <3>1
    <3>2. CASE i < f
      BY <2>2, <2>3, <2>5, <3>2
    <3> QED  BY <2>2, <2>6, <3>1, <3>2
  <2> QED  BY <2>1, <2>4, <2>5, <2>6 DEF Peaked
<1>7. CASE Normalize
  <2>1. /\ pc = "peak" /\ pc' = "define" /\ f = FramesOf(job)
        /\ out' = (IF peak > Unit THEN [i \in DOMAIN out |-> (out[i] * Target(job)) \div peak] ELSE out)
    BY <1>7 DEF Normalize
  <2>2. /\ FramesOf(job) \in Nat \ {0} /\ DOMAIN out = 0 .. FramesOf(job) - 1
        /\ \A i \in DOMAIN out : out[i] \in Int
    BY <2>1, FramesOfPositive DEF Rendering, Registers
  <2>3. peak \in Nat /\ \A i \in DOMAIN out : -peak <= out[i] /\ out[i] <= peak
    BY <2>1, <2>2 DEF Peaked
  <2>4. Unit \in Nat \ {0} /\ Target(job) \in 0 .. Unit
    BY SynthAssumption DEF Target
  <2>5. ASSUME NEW i \in DOMAIN out PROVE -Unit <= out'[i] /\ out'[i] <= Unit
    <3>1. CASE peak > Unit
      <4>1. peak \in Nat \ {0} /\ out[i] \in Int /\ -peak <= out[i] /\ out[i] <= peak
        BY <2>2, <2>3, <2>4, <3>1
      <4>2. -Unit <= (out[i] * Target(job)) \div peak /\ (out[i] * Target(job)) \div peak <= Unit
        BY <2>4, <4>1, ScaledDown
      <4> QED  BY <2>1, <3>1, <4>2
    <3>2. CASE ~(peak > Unit)
      BY <2>1, <2>2, <2>3, <2>4, <3>2
    <3> QED  BY <3>1, <3>2
  <2> QED  BY <2>1, <2>5 DEF Peaked
<1>8. CASE UNCHANGED vars
  BY <1>8 DEF vars, Peaked, FramesOf
<1> QED
  BY <1>2, <1>3, <1>4, <1>5, <1>6, <1>7, <1>8 DEF Next

\* Only Define puts a sound in a slot.
LEMMA OnlyDefinePuts == ASSUME [Next]_vars, ~Define PROVE sfx' = sfx
<1>1. CASE UNCHANGED vars
  BY <1>1 DEF vars
<1>2. ASSUME NEW slot \in Slots, NEW r \in Recipes, Sound(slot, r) PROVE sfx' = sfx
  BY <1>2 DEF Sound, Begin
<1>3. ASSUME NEW slot \in Slots, NEW e \in Effects, RenderEffect(slot, e) PROVE sfx' = sfx
  BY <1>3 DEF RenderEffect, Begin
<1>4. CASE AddOscillator \/ MixFrame \/ FramesDone \/ BeginTap \/ SkipTap
  BY <1>4 DEF AddOscillator, MixFrame, FramesDone, BeginTap, SkipTap
<1>5. CASE TapFrame \/ EndTap \/ TapsDone
  BY <1>5 DEF TapFrame, EndTap, TapsDone
<1>6. CASE BurstFrame \/ BurstDone \/ PeakFrame \/ Normalize
  BY <1>6 DEF BurstFrame, BurstDone, PeakFrame, Normalize
<1> QED  BY <1>1, <1>2, <1>3, <1>4, <1>5, <1>6 DEF Next

\* The effect under way stays the same until it is defined.
LEMMA OneJob == ASSUME Next, ~Define, pc # "idle" PROVE job' = job
<1>1. ASSUME NEW slot \in Slots, NEW r \in Recipes, Sound(slot, r) PROVE FALSE
  BY <1>1 DEF Sound, Begin
<1>2. ASSUME NEW slot \in Slots, NEW e \in Effects, RenderEffect(slot, e) PROVE FALSE
  BY <1>2 DEF RenderEffect, Begin
<1>3. CASE AddOscillator \/ MixFrame \/ FramesDone \/ BeginTap \/ SkipTap
  BY <1>3 DEF AddOscillator, MixFrame, FramesDone, BeginTap, SkipTap
<1>4. CASE TapFrame \/ EndTap \/ TapsDone
  BY <1>4 DEF TapFrame, EndTap, TapsDone
<1>5. CASE BurstFrame \/ BurstDone \/ PeakFrame \/ Normalize
  BY <1>5 DEF BurstFrame, BurstDone, PeakFrame, Normalize
<1> QED  BY <1>1, <1>2, <1>3, <1>4, <1>5 DEF Next

LEMMA SlottedStep == Peaked /\ Slotted /\ [Next]_vars => Slotted'
<1> SUFFICES ASSUME Peaked, Slotted, [Next]_vars PROVE Slotted'
  OBVIOUS
<1>1. CASE Define
  <2>1. \A i \in DOMAIN out : -Unit <= out[i] /\ out[i] <= Unit
    BY <1>1 DEF Define, Peaked
  <2>2. CASE sfx' = sfx
    BY <2>2 DEF Slotted, NeverClips
  <2>3. CASE sfx' # sfx
    <3> DEFINE sound == [of |-> job.of, own |-> job.own, from |-> job.from, samples |-> out]
    <3>1. sfx' = [sfx EXCEPT ![job.slot] = sound]
      BY <1>1, <2>3 DEF Define
    <3>2. sound.samples = out
      OBVIOUS
    <3> HIDE DEF sound
    <3>3. ASSUME NEW s \in Slots, sfx'[s] # NoSound, NEW i \in DOMAIN sfx'[s].samples
          PROVE  -Unit <= sfx'[s].samples[i] /\ sfx'[s].samples[i] <= Unit
      <4>1. CASE s = job.slot
        BY <2>1, <3>1, <3>2, <3>3, <4>1 DEF Slotted
      <4>2. CASE s # job.slot
        BY <3>1, <3>3, <4>2 DEF Slotted, NeverClips
      <4> QED  BY <4>1, <4>2
    <3> QED  BY <3>1, <3>3 DEF Slotted, NeverClips
  <2> QED  BY <2>2, <2>3
<1>2. CASE ~Define
  <2>1. sfx' = sfx
    BY <1>2, OnlyDefinePuts
  <2> QED  BY <2>1 DEF Slotted, NeverClips
<1> QED  BY <1>1, <1>2

\* Whatever oscillators, noise, distortion and taps add up to, no sample of a slot
\* is beyond full scale, at every rate and for every sound and effect (normalize).
THEOREM NothingClips == Spec => []NeverClips
<1>1. Init => Rendering /\ Registers /\ Peaked /\ Slotted
  BY SynthAssumption DEF Init, Rendering, Registers, Peaked, Slotted, NeverClips, Silence
<1>2. Slotted => NeverClips
  BY DEF Slotted
<1> QED  BY <1>1, <1>2, RenderingStep, RegistersStep, PeakedStep, SlottedStep, PTL DEF Spec

---------------------------------------------------------------------------
(* Repeating a sound.                                                      *)

\* Induction over the numbers, for a set of them: the least number outside it would
\* follow one inside.
LEMMA Induction ==
  ASSUME NEW T, T \subseteq Nat, 0 \in T, \A n \in T : n + 1 \in T
  PROVE  Nat \subseteq T
<1> DEFINE Out == Nat \ T
<1> SUFFICES ASSUME Out # {} PROVE FALSE
  OBVIOUS
<1>1. PICK x \in Out : \A y \in Out : ~(<<y, x>> \in OpToRel(<, Nat))
  <2>1. Out \subseteq Nat
    OBVIOUS
  <2> HIDE DEF Out
  <2> QED  BY <2>1, NatLessThanWellFounded, WFMin, Zenon
<1>2. x \in Nat /\ x # 0 /\ x - 1 \in Nat /\ x - 1 < x /\ (x - 1) + 1 = x
  OBVIOUS
<1>3. <<x - 1, x>> \in OpToRel(<, Nat)
  BY <1>2, Zenon DEF OpToRel
<1>4. x - 1 \in T
  BY <1>1, <1>2, <1>3, Zenon
<1> QED  BY <1>2, <1>4

\* What is rendered, and all that its rendering reads: of is what was asked for.
Asked(of, from) ==
  [of |-> of, from |-> from, burst |-> of.name = "noise",
   e |-> IF of.name = "effect" THEN of.e ELSE Preset(of)]
Owns(of) == of.name = "effect" \/ of.name \in OwnGenerator

\* The state of a rendering; what an earlier sound left behind is not part of it.
At(pc0, lcg0, f0, osc0, sum0, filter0, out0, echo0, gain0, peak0) ==
  [pc |-> pc0, lcg |-> lcg0, f |-> f0, osc |-> osc0, sum |-> sum0, filter |-> filter0, out |-> out0,
   echo |-> echo0, gain |-> gain0, peak |-> peak0]

View ==
  At(pc, lcg, f, osc, sum, filter, out, IF pc \in {"echo", "tap"} THEN echo ELSE 0,
     IF pc \in {"echo", "tap"} THEN gain ELSE 0, IF pc = "peak" THEN peak ELSE 0)

First(j) ==
  At(IF j.burst THEN "burst" ELSE "osc", j.from, 0, 1, 0, [p0 |-> 0, p1 |-> 0, p2 |-> 0, brown |-> 0],
     Silence(FramesOf(j)), 0, 0, 0)

\* The state x of rendering j is followed by one state, and by which.
Draw(x, wanted) == IF wanted THEN Step(x.lcg) ELSE x.lcg
Voiced(j, x) ==
  LET o    == j.e.osc[x.osc]
      next == Draw(x, o.wave = "noise")
  IN  At(x.pc, next, x.f, x.osc + 1,
         x.sum + Mul(WaveSample(o, PhaseAt(o.freq, TimeAt(x.f)) + o.phase, Signed(next)), o.amp),
         x.filter, x.out, x.echo, x.gain, x.peak)
MixedInto(j, x) ==
  LET next == Draw(x, j.e.noiseMix > 0)
  IN  At(x.pc, next, x.f + 1, 1, 0, x.filter,
         [x.out EXCEPT ![x.f] = Mixed(j.e, TimeAt(x.f), x.sum, Signed(next))], x.echo, x.gain, x.peak)
FramesOver(j, x) ==
  IF j.e.echoCount > 0 /\ j.e.echoDelay > 0
  THEN At("echo", x.lcg, 0, x.osc, x.sum, x.filter, x.out, 0, j.e.echoDecay, 0)
  ELSE At("peak", x.lcg, 0, x.osc, x.sum, x.filter, x.out, 0, 0, 0)
TapAt(j, x) == ((j.e.echoDelay * SampleRate) \div Second) * (x.echo + 1)
NextTap(j, x) == At("echo", x.lcg, x.f, x.osc, x.sum, x.filter, x.out, x.echo + 1,
                    Mul(x.gain, j.e.echoDecay), x.peak)
Tapped(j, x) ==
  At(x.pc, x.lcg, x.f + 1, x.osc, x.sum, x.filter,
     [x.out EXCEPT ![x.f + TapAt(j, x)] = x.out[x.f + TapAt(j, x)] + Mul(x.out[x.f], x.gain)], x.echo,
     x.gain, x.peak)
Burst(j, x) ==
  LET next  == Step(x.lcg)
      v     == Signed(next)
      pink  == [x.filter EXCEPT !.p0 = (998 * x.filter.p0 + 99 * v) \div 1000,
                                !.p1 = (963 * x.filter.p1 + 297 * v) \div 1000,
                                !.p2 = (570 * x.filter.p2 + 1053 * v) \div 1000]
      brown == [x.filter EXCEPT !.brown = Clamp(x.filter.brown + (2 * v) \div 100, -Unit, Unit)]
      kept  == IF j.of.a1 = 1 THEN pink ELSE IF j.of.a1 = 2 THEN brown ELSE x.filter
      value == IF j.of.a1 = 1
               THEN (kept.p0 + kept.p1 + kept.p2 + (185 * v) \div 1000) \div 4
               ELSE IF j.of.a1 = 2 THEN kept.brown ELSE v
      rest  == Unit - ((x.f * Unit) \div FramesOf(j))
  IN  At(x.pc, next, x.f + 1, x.osc, x.sum, kept,
         [x.out EXCEPT ![x.f] = (6 * Mul(value, Mul(rest, rest))) \div 10], x.echo, x.gain, x.peak)
Measured(x) == At(x.pc, x.lcg, x.f + 1, x.osc, x.sum, x.filter, x.out, x.echo, x.gain,
                  IF Abs(x.out[x.f]) > x.peak THEN Abs(x.out[x.f]) ELSE x.peak)
Normalized(j, x) ==
  At("define", x.lcg, x.f, x.osc, x.sum, x.filter,
     IF x.peak > Unit THEN [i \in DOMAIN x.out |-> (x.out[i] * Target(j)) \div x.peak] ELSE x.out,
     x.echo, x.gain, 0)

Follow(j, x) ==
  LET frames == FramesOf(j) IN
  CASE x.pc = "osc" ->
         IF x.f = frames THEN FramesOver(j, x)
         ELSE IF x.osc <= Len(j.e.osc) THEN Voiced(j, x) ELSE MixedInto(j, x)
    [] x.pc = "echo" ->
         IF x.echo = j.e.echoCount THEN At("peak", x.lcg, 0, x.osc, x.sum, x.filter, x.out, 0, 0, 0)
         ELSE IF TapAt(j, x) < frames THEN At("tap", x.lcg, 0, x.osc, x.sum, x.filter, x.out, x.echo,
                                              x.gain, x.peak) ELSE NextTap(j, x)
    [] x.pc = "tap" -> IF x.f = frames - TapAt(j, x) THEN NextTap(j, x) ELSE Tapped(j, x)
    [] x.pc = "burst" -> IF x.f = frames THEN At("peak", x.lcg, 0, x.osc, x.sum, x.filter, x.out,
                                                 x.echo, x.gain, 0) ELSE Burst(j, x)
    [] x.pc = "peak" -> IF x.f = frames THEN Normalized(j, x) ELSE Measured(x)
    [] OTHER -> x

\* tr is the rendering of j up to its state n.
Trace(j, n, tr) ==
  /\ tr[0] = First(j)
  /\ \A i \in 0 .. n - 1 : tr[i].pc # "define" /\ tr[i + 1] = Follow(j, tr[i])

\* What a job is made of, where its rendering is, and what the slots hold.
Following ==
  /\ pc # "idle" =>
       /\ job.e = Asked(job.of, job.from).e /\ job.burst = Asked(job.of, job.from).burst
       /\ job.own = Owns(job.of) /\ (job.own => job.from = 0)
       /\ \E n, tr : n \in Nat /\ Trace(Asked(job.of, job.from), n, tr) /\ tr[n] = View
  /\ \A s \in Slots : sfx[s] # NoSound =>
       /\ sfx[s].own = Owns(sfx[s].of) /\ (sfx[s].own => sfx[s].from = 0)
       /\ \E n, tr : /\ n \in Nat /\ Trace(Asked(sfx[s].of, sfx[s].from), n, tr)
                     /\ tr[n].pc = "define" /\ tr[n].out = sfx[s].samples

LEMMA Longer ==
  ASSUME NEW j, NEW n \in Nat, NEW tr, Trace(j, n, tr), tr[n].pc # "define"
  PROVE  \E tt : Trace(j, n + 1, tt) /\ tt[n + 1] = Follow(j, tr[n])
<1> DEFINE tt == [i \in 0 .. n + 1 |-> IF i = n + 1 THEN Follow(j, tr[n]) ELSE tr[i]]
<1>1. tt[n + 1] = Follow(j, tr[n]) /\ \A i \in 0 .. n : tt[i] = tr[i]
  OBVIOUS
<1> HIDE DEF tt
<1>2. tt[0] = First(j)
  BY <1>1 DEF Trace
<1>3. ASSUME NEW i \in 0 .. (n + 1) - 1 PROVE tt[i].pc # "define" /\ tt[i + 1] = Follow(j, tt[i])
  <2>1. CASE i = n
    BY <1>1, <2>1
  <2>2. CASE i # n
    BY <1>1, <2>2 DEF Trace
  <2> QED  BY <2>1, <2>2
<1> QED  BY <1>1, <1>2, <1>3 DEF Trace

\* Two renderings of the same thing go through the same states.
LEMMA SameTrace ==
  ASSUME NEW j, NEW n \in Nat, NEW m \in Nat, NEW tr, NEW tt, Trace(j, n, tr), Trace(j, m, tt),
         tr[n].pc = "define", tt[m].pc = "define"
  PROVE  tr[n] = tt[m]
<1> DEFINE Good == {k \in Nat : k <= n /\ k <= m => tr[k] = tt[k]}
<1>1. 0 \in Good
  BY DEF Trace
<1>2. ASSUME NEW k \in Good PROVE k + 1 \in Good
  BY DEF Trace
<1>3. Nat \subseteq Good
  <2>1. Good \subseteq Nat
    OBVIOUS
  <2> HIDE DEF Good
  <2> QED  BY <1>1, <1>2, <2>1, Induction
<1>4. CASE n < m
  <2>1. tr[n] = tt[n] /\ n \in 0 .. m - 1
    BY <1>3, <1>4
  <2> QED  BY <2>1 DEF Trace
<1>5. CASE m < n
  <2>1. tr[m] = tt[m] /\ m \in 0 .. n - 1
    BY <1>3, <1>5
  <2> QED  BY <2>1 DEF Trace
<1>6. CASE n = m
  BY <1>3, <1>6
<1> QED  BY <1>4, <1>5, <1>6

\* A step of the rendering is the one that follows.
LEMMA StepFollows ==
  ASSUME Rendering, Registers, Following, pc # "idle", Next, ~Define
  PROVE  View' = Follow(Asked(job.of, job.from), View) /\ pc # "define"
<1>0. /\ View.pc = pc /\ View.lcg = lcg /\ View.f = f /\ View.osc = osc /\ View.sum = sum
      /\ View.filter = filter /\ View.out = out
      /\ pc \in {"echo", "tap"} => View.echo = echo /\ View.gain = gain
      /\ (pc \notin {"echo", "tap"} => View.echo = 0 /\ View.gain = 0)
      /\ View.peak = (IF pc = "peak" THEN peak ELSE 0)
  BY DEF View, At
<1> DEFINE h == Asked(job.of, job.from)
<1>1. h.e = job.e /\ h.burst = job.burst /\ h.of = job.of
  BY DEF Following, Asked
<1>2. FramesOf(h) = FramesOf(job) /\ Target(h) = Target(job)
  BY <1>1 DEF FramesOf, Target
<1> HIDE DEF h
<1>3. FramesOf(job) \in Nat /\ f \in Nat
  BY FramesOfPositive DEF Rendering, Registers
<1>4. pc \in {"echo", "tap"} => TapAt(h, View) = EchoStart /\ EchoStart \in Nat /\ echo \in Nat
  <2> SUFFICES ASSUME pc \in {"echo", "tap"}
               PROVE  TapAt(h, View) = EchoStart /\ EchoStart \in Nat /\ echo \in Nat
    OBVIOUS
  <2>1. TapAt(h, View) = EchoStart
    <3>1. View.echo = echo /\ h.e = job.e
      BY <1>0, <1>1
    <3> QED  BY <3>1, Zenon DEF TapAt, EchoStart, DelayFrames
  <2>2. Numeric(job.e) /\ echo \in Nat
    BY DEF Rendering
  <2> QED  BY <2>1, <2>2, EchoStartInt
<1> SUFFICES View' = Follow(h, View) /\ pc # "define"
  BY DEF h
<1>5. CASE AddOscillator
  <2>1. Follow(h, View) = Voiced(h, View)
    BY <1>0, <1>1, <1>2, <1>3, <1>5 DEF AddOscillator, Follow
  <2>2. View' = Voiced(h, View)
    <3>1. UNCHANGED <<pc, f, filter, out, echo, gain, peak>>
      BY <1>5 DEF AddOscillator
    <3>2. View' = At(View.pc, lcg', View.f, osc', sum', View.filter, View.out, View.echo, View.gain,
                     View.peak)
      BY <1>0, <3>1 DEF View
    <3> QED  BY <1>0, <1>1, <1>5, <3>2 DEF AddOscillator, Voiced, Draw
  <2> QED  BY <1>5, <2>1, <2>2 DEF AddOscillator
<1>6. CASE MixFrame
  <2>1. Follow(h, View) = MixedInto(h, View)
    <3>1. /\ View.pc = "osc" /\ View.f = f /\ View.osc = osc /\ f # FramesOf(h)
          /\ ~(osc <= Len(h.e.osc))
      <4>1. pc = "osc" /\ f < FramesOf(job) /\ osc > Len(job.e.osc)
        BY <1>6 DEF MixFrame
      <4>2. osc \in Nat /\ Len(job.e.osc) \in Nat
        BY <4>1 DEF Registers, Rendering, Numeric
      <4> QED  BY <1>0, <1>1, <1>2, <1>3, <4>1, <4>2
    <3> QED  BY <3>1 DEF Follow
  <2>2. View' = MixedInto(h, View)
    <3>1. UNCHANGED <<pc, filter, echo, gain, peak>> /\ pc = "osc"
      BY <1>6 DEF MixFrame
    <3>2. View' = At(View.pc, lcg', f', osc', sum', View.filter, out', View.echo, View.gain, View.peak)
      BY <1>0, <3>1 DEF View
    <3> QED  BY <1>0, <1>1, <1>6, <3>2 DEF MixFrame, MixedInto, Draw
  <2> QED  BY <1>6, <2>1, <2>2 DEF MixFrame
<1>7. CASE FramesDone
  <2>1. Follow(h, View) = FramesOver(h, View)
    BY <1>0, <1>2, <1>7 DEF FramesDone, Follow
  <2>2. View' = FramesOver(h, View)
    BY <1>0, <1>1, <1>7 DEF FramesDone, FramesOver, View
  <2> QED  BY <1>7, <2>1, <2>2 DEF FramesDone
<1>8. CASE BeginTap
  <2>1. Follow(h, View) = At("tap", View.lcg, 0, View.osc, View.sum, View.filter, View.out, View.echo,
                             View.gain, View.peak)
    BY <1>0, <1>1, <1>2, <1>4, <1>8 DEF BeginTap, Follow
  <2> QED  BY <1>0, <1>8, <2>1 DEF BeginTap, View
<1>9. CASE SkipTap
  <2>1. Follow(h, View) = NextTap(h, View)
    BY <1>0, <1>1, <1>2, <1>3, <1>4, <1>9 DEF SkipTap, Follow
  <2>2. View' = NextTap(h, View)
    <3>1. UNCHANGED <<lcg, f, osc, sum, filter, out, peak>> /\ pc' = "echo" /\ pc \in {"echo", "tap"}
      BY <1>9 DEF SkipTap
    <3>2. View' = At("echo", View.lcg, View.f, View.osc, View.sum, View.filter, View.out, echo', gain',
                     View.peak)
      BY <1>0, <3>1 DEF View
    <3> QED  BY <1>0, <1>1, <1>9, <3>1, <3>2 DEF SkipTap, NextTap
  <2> QED  BY <1>9, <2>1, <2>2 DEF SkipTap
<1>10. CASE TapFrame
  <2>1. Follow(h, View) = Tapped(h, View)
    BY <1>0, <1>1, <1>2, <1>3, <1>4, <1>10 DEF TapFrame, Follow
  <2>2. View' = Tapped(h, View)
    <3>1. UNCHANGED <<pc, lcg, osc, sum, filter, echo, gain, peak>> /\ pc = "tap"
      BY <1>10 DEF TapFrame
    <3>2. View' = At(View.pc, View.lcg, f', View.osc, View.sum, View.filter, out', View.echo, View.gain,
                     View.peak)
      BY <1>0, <3>1 DEF View
    <3> QED  BY <1>0, <1>1, <1>4, <1>10, <3>2 DEF TapFrame, Tapped
  <2> QED  BY <1>10, <2>1, <2>2 DEF TapFrame
<1>11. CASE EndTap
  <2>1. Follow(h, View) = NextTap(h, View)
    BY <1>0, <1>1, <1>2, <1>3, <1>4, <1>11 DEF EndTap, Follow
  <2>2. View' = NextTap(h, View)
    <3>1. UNCHANGED <<lcg, f, osc, sum, filter, out, peak>> /\ pc' = "echo" /\ pc \in {"echo", "tap"}
      BY <1>11 DEF EndTap
    <3>2. View' = At("echo", View.lcg, View.f, View.osc, View.sum, View.filter, View.out, echo', gain',
                     View.peak)
      BY <1>0, <3>1 DEF View
    <3> QED  BY <1>0, <1>1, <1>11, <3>1, <3>2 DEF EndTap, NextTap
  <2> QED  BY <1>11, <2>1, <2>2 DEF EndTap
<1>12. CASE TapsDone
  <2>1. Follow(h, View) = At("peak", View.lcg, 0, View.osc, View.sum, View.filter, View.out, 0, 0, 0)
    BY <1>0, <1>1, <1>12 DEF TapsDone, Follow
  <2>2. /\ pc = "echo" /\ pc' = "peak" /\ f' = 0 /\ peak' = 0
        /\ UNCHANGED <<lcg, osc, sum, filter, out>>
    BY <1>12 DEF TapsDone
  <2> QED  BY <1>0, <2>1, <2>2 DEF View
<1>13. CASE BurstFrame
  <2>1. Follow(h, View) = Burst(h, View)
    BY <1>0, <1>1, <1>2, <1>3, <1>13 DEF BurstFrame, Follow
  <2>2. View' = Burst(h, View)
    <3>1. UNCHANGED <<pc, osc, sum, echo, gain, peak>>
      BY <1>13 DEF BurstFrame
    <3>2. View' = At(View.pc, lcg', f', View.osc, View.sum, filter', out', View.echo, View.gain,
                     View.peak)
      BY <1>0, <3>1 DEF View
    <3> QED  BY <1>0, <1>1, <1>2, <1>13, <3>2 DEF BurstFrame, Burst
  <2> QED  BY <1>13, <2>1, <2>2 DEF BurstFrame
<1>14. CASE BurstDone
  <2>1. Follow(h, View) = At("peak", View.lcg, 0, View.osc, View.sum, View.filter, View.out, View.echo,
                             View.gain, 0)
    BY <1>0, <1>2, <1>14 DEF BurstDone, Follow
  <2> QED  BY <1>0, <1>14, <2>1 DEF BurstDone, View
<1>15. CASE PeakFrame
  <2>1. Follow(h, View) = Measured(View)
    BY <1>0, <1>2, <1>3, <1>15 DEF PeakFrame, Follow
  <2>2. View' = Measured(View)
    <3>1. UNCHANGED <<pc, lcg, osc, sum, filter, echo, gain, out>> /\ pc = "peak"
      BY <1>15 DEF PeakFrame
    <3>2. View' = At(View.pc, View.lcg, f', View.osc, View.sum, View.filter, View.out, View.echo,
                     View.gain, peak')
      BY <1>0, <3>1 DEF View
    <3> QED  BY <1>0, <1>15, <3>2 DEF PeakFrame, Measured
  <2> QED  BY <1>15, <2>1, <2>2 DEF PeakFrame
<1>16. CASE Normalize
  <2>1. Follow(h, View) = Normalized(h, View)
    BY <1>0, <1>2, <1>16 DEF Normalize, Follow
  <2>2. View' = Normalized(h, View)
    <3>1. UNCHANGED <<lcg, f, osc, sum, filter, echo, gain>> /\ pc = "peak" /\ pc' = "define"
      BY <1>16 DEF Normalize
    <3>2. View' = At("define", View.lcg, View.f, View.osc, View.sum, View.filter, out', View.echo,
                     View.gain, 0)
      BY <1>0, <3>1 DEF View
    <3> QED  BY <1>0, <1>2, <1>16, <3>2 DEF Normalize, Normalized
  <2> QED  BY <1>16, <2>1, <2>2 DEF Normalize
<1>17. ASSUME NEW j, Begin(j) PROVE FALSE
  BY <1>17 DEF Begin
<1> QED
  BY <1>5, <1>6, <1>7, <1>8, <1>9, <1>10, <1>11, <1>12, <1>13, <1>14, <1>15, <1>16, <1>17
     DEF Next, Sound, RenderEffect

LEMMA BeginFollows ==
  ASSUME Following, NEW j, Begin(j), j.e = Asked(j.of, j.from).e, j.burst = Asked(j.of, j.from).burst,
         j.own = Owns(j.of), j.own => j.from = 0
  PROVE  Following'
<1> DEFINE h == Asked(j.of, j.from)
<1>1. pc' \in {"burst", "osc"} /\ job' = j /\ sfx' = sfx
  BY DEF Begin
<1>2. h.e = j.e /\ h.burst = j.burst /\ h.from = j.from
  BY DEF Asked
<1>3. FramesOf(h) = FramesOf(j)
  BY <1>2 DEF FramesOf
<1> HIDE DEF h
<1>4. View' = First(h)
  BY <1>2, <1>3 DEF Begin, View, First
<1>5. \E tr : Trace(h, 0, tr) /\ tr[0] = View'
  <2> DEFINE tr == [i \in {0} |-> First(h)]
  <2>1. tr[0] = First(h)
    OBVIOUS
  <2> HIDE DEF tr
  <2>2. Trace(h, 0, tr)
    BY <2>1 DEF Trace
  <2> QED  BY <1>4, <2>1, <2>2
<1> QED  BY <1>1, <1>5 DEF Following, h

LEMMA FollowingStep == Rendering /\ Registers /\ Following /\ [Next]_vars => Following'
<1> SUFFICES ASSUME Rendering, Registers, Following, [Next]_vars PROVE Following'
  OBVIOUS
<1>1. ASSUME NEW slot \in Slots, NEW r \in Recipes, Sound(slot, r) PROVE Following'
  <2> DEFINE from == IF r.name \in OwnGenerator THEN 0 ELSE session
             j    == [slot |-> slot, of |-> r, e |-> Preset(r), burst |-> r.name = "noise",
                      own |-> r.name \in OwnGenerator, from |-> from]
  <2>1. r.name # "effect"
    BY SynthAssumption DEF Named
  <2>2. j.e = Asked(j.of, j.from).e /\ j.burst = Asked(j.of, j.from).burst /\ j.own = Owns(j.of)
    BY <2>1 DEF Asked, Owns
  <2>3. Begin(j) /\ (j.own => j.from = 0)
    BY <1>1 DEF Sound
  <2> HIDE DEF j
  <2> QED  BY <2>2, <2>3, BeginFollows
<1>2. ASSUME NEW slot \in Slots, NEW e \in Effects, RenderEffect(slot, e) PROVE Following'
  <2> DEFINE j == [slot |-> slot, of |-> [name |-> "effect", e |-> e], e |-> e, burst |-> FALSE,
                   own |-> TRUE, from |-> 0]
  <2>1. j.e = Asked(j.of, j.from).e /\ j.burst = Asked(j.of, j.from).burst /\ j.own = Owns(j.of)
        /\ j.from = 0
    BY DEF Asked, Owns
  <2>2. Begin(j)
    BY <1>2 DEF RenderEffect
  <2> HIDE DEF j
  <2> QED  BY <2>1, <2>2, BeginFollows
<1>3. CASE Define
  <2>1. pc' = "idle" /\ pc = "define"
    BY <1>3 DEF Define
  <2>2. CASE sfx' = sfx
    BY <2>1, <2>2 DEF Following
  <2>3. CASE sfx' # sfx
    <3> DEFINE sound == [of |-> job.of, own |-> job.own, from |-> job.from, samples |-> out]
    <3>1. sfx' = [sfx EXCEPT ![job.slot] = sound]
      BY <1>3, <2>3 DEF Define
    <3>2. sound.of = job.of /\ sound.own = job.own /\ sound.from = job.from /\ sound.samples = out
      OBVIOUS
    <3> HIDE DEF sound
    <3>3. View.pc = "define" /\ View.out = out
      BY <2>1 DEF View, At
    <3>4. /\ sound.own = Owns(sound.of) /\ (sound.own => sound.from = 0)
          /\ \E n, tr : /\ n \in Nat /\ Trace(Asked(sound.of, sound.from), n, tr)
                        /\ tr[n].pc = "define" /\ tr[n].out = sound.samples
      BY <2>1, <3>2, <3>3 DEF Following
    <3>5. \A s \in Slots : sfx'[s] = sound \/ sfx'[s] = sfx[s]
      BY <3>1
    <3> QED  BY <2>1, <3>4, <3>5 DEF Following
  <2> QED  BY <2>2, <2>3
<1>4. ASSUME Next, ~Define, pc # "idle" PROVE Following'
  <2>1. job' = job /\ sfx' = sfx
    BY <1>4, OneJob, OnlyDefinePuts
  <2>2. PICK n, tr : n \in Nat /\ Trace(Asked(job.of, job.from), n, tr) /\ tr[n] = View
    BY <1>4 DEF Following
  <2>3. View' = Follow(Asked(job.of, job.from), View) /\ View.pc # "define"
    BY <1>4, StepFollows DEF View, At
  <2>4. \E tt : Trace(Asked(job.of, job.from), n + 1, tt) /\ tt[n + 1] = View'
    BY <2>2, <2>3, Longer
  <2>5. n + 1 \in Nat
    BY <2>2
  <2> QED  BY <1>4, <2>1, <2>4, <2>5 DEF Following
<1>5. CASE UNCHANGED vars
  <2>1. View' = View
    BY <1>5 DEF vars, View
  <2> QED  BY <1>5, <2>1 DEF vars, Following
<1>6. ASSUME Next, pc = "idle", ~Define
      PROVE  \/ \E slot \in Slots, r \in Recipes : Sound(slot, r)
             \/ \E slot \in Slots, e \in Effects : RenderEffect(slot, e)
  BY <1>6 DEF Next, AddOscillator, MixFrame, FramesDone, BeginTap, SkipTap, TapFrame, EndTap, TapsDone,
              BurstFrame, BurstDone, PeakFrame, Normalize
<1> QED  BY <1>1, <1>2, <1>3, <1>4, <1>5, <1>6

\* A sound is a function of what was asked for and of the generator it began with,
\* at every rate and for every sound and effect: what was rendered before it, in
\* whatever slot, does not reach its samples (gp_synth.h: deterministic given a seed).
THEOREM SoundsRepeat == Spec => []Repeatable
<1> DEFINE Inv == Rendering /\ Registers /\ Peaked /\ Following
<1>1. Init => Inv
  BY SynthAssumption DEF Init, Rendering, Registers, Peaked, Following, Silence
<1>2. Inv /\ [Next]_vars => Inv'
  BY RenderingStep, RegistersStep, PeakedStep, FollowingStep
<1>3. Inv => Repeatable
  <2> SUFFICES ASSUME Following, NEW s \in Slots, NEW t \in Slots, sfx[s] # NoSound, sfx[t] # NoSound,
                      sfx[s].of = sfx[t].of, sfx[s].own \/ sfx[s].from = sfx[t].from
               PROVE  sfx[s].samples = sfx[t].samples
    BY DEF Repeatable
  <2>1. sfx[s].from = sfx[t].from
    BY DEF Following
  <2> DEFINE j == Asked(sfx[s].of, sfx[s].from)
  <2>2. PICK n, tr : n \in Nat /\ Trace(j, n, tr) /\ tr[n].pc = "define" /\ tr[n].out = sfx[s].samples
    BY DEF Following
  <2>3. PICK m, tt : m \in Nat /\ Trace(j, m, tt) /\ tt[m].pc = "define" /\ tt[m].out = sfx[t].samples
    BY <2>1 DEF Following
  <2> HIDE DEF j
  <2>4. tr[n] = tt[m]
    BY <2>2, <2>3, SameTrace
  <2> QED  BY <2>2, <2>3, <2>4
<1> QED  BY <1>1, <1>2, <1>3, PTL DEF Spec
============================================================================
