------------------------------ MODULE MCSynth ------------------------------
(* Instance of Synth for TLC: a hundred frames a second, sounds of at most   *)
(* eight of them, a generator of twelve bits.  The sine is a parabola.       *)
EXTENDS Synth

MCSine == [ph \in 0 .. 99 |->
             IF ph < 50 THEN (4 * ph * (50 - ph) * Unit) \div 2500
                        ELSE -((4 * (ph - 50) * (100 - ph) * Unit) \div 2500)]

R(n, a1, a2, w) == [name |-> n, a1 |-> a1, a2 |-> a2, wave |-> w]

MCRecipes ==
  {R(n, 600, 0, "sine") : n \in {"coin", "jump", "powerup", "zap", "hurt", "click", "bang"}}
  \union {R("beep", 0, 500, "sine"), R("blip", 2, 400, "sine"), R("shoot", 300, 0, "sine"), R("explode", 3, 600, "sine")}
  \union {R("tone", 300, 500, w) : w \in {"saw", "triangle", "noise", "pulse"}}
  \union {R("noise", kind, 400, "sine") : kind \in 0 .. 2}

\* Two delays with feedback, one of less than a frame, one whose last tap is past the end; the
\* last effect is five times full scale, one oscillator past the cap of four.
Echoed(e, n, delay) == [e EXCEPT !.echoCount = n, !.echoDelay = delay, !.echoDecay = (9 * Unit) \div 10]
Loud == SetEnv(AddOsc(AddOsc(AddOsc(AddOsc(AddOsc(EffectOf(600), "square", 25, 100), "square", 25, 100),
               "saw", 40, 100), "square", 25, 90), "square", 25, 90), 0, 0, 100, 0)
\* Full scale is passed below zero only: the attack ends in the lower half wave.
LoudBelow == SetEnv(AddOsc(AddOsc(AddOsc(EffectOf(400), "square", 25, 100), "square", 25, 100),
                    "square", 25, 100), 300, 100, 100, 0)
MCEffects ==
  {Echoed(Beep(20, 900), 2, 200), Echoed(Beep(20, 300), 2, 50), Echoed(Loud, 3, 200), LoudBelow, Echoed(EffectOf(-1), 1, 10)}
============================================================================
