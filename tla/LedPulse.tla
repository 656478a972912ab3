------------------------------- MODULE LedPulse -------------------------------
(***************************************************************************)
(* The breathing LED: eh_led_pulse() of main/eh_main.c, called by the      *)
(* looper on every turn, and eh_led.c, which writes the PWM register.      *)
(* The duty is counted in steps of 0.5 percent, Full of them.              *)
(***************************************************************************)
EXTENDS Integers

CONSTANTS
  Full,       (* 100 percent in those steps: 200.                           *)
  DutyMax,    (* The register at full: 2^13 - 1.                            *)
  Incs        (* The increments asked for: 1, for 0.5.                      *)

VARIABLES
  duty,       (* led1_duty100.                                              *)
  step,       (* led1_step.                                                 *)
  level,      (* The PWM register.                                          *)
  calls       (* History: the calls so far, modulo a period.                *)

lvars == <<duty, step, level, calls>>

Size(n) == IF n < 0 THEN -n ELSE n

Init == duty = 0 /\ step = 0 /\ level = 0 /\ calls = 0

\* eh_led1_duty(): rounded.
Level(d) ==
  IF d <= 0 THEN 0
  ELSE IF d >= Full THEN DutyMax
  ELSE (2 * d * DutyMax + Full) \div (2 * Full)

\* Asked for nothing it is a step of one percent.
Asked(inc) == IF inc = 0 THEN 2 ELSE inc

\* The step for increment inc; step / step keeps no sign.
StepFor(inc) ==
  IF Size(inc) = Size(step) THEN step
  ELSE IF step = 0 THEN inc
  ELSE Size(inc)

\* Turned at the ends.
TurnedLate(d, s) == IF d < 0 \/ d > Full THEN -s ELSE s
Turned(d, s) ==
  IF d <= 0 THEN Size(s)
  ELSE IF d >= Full THEN -Size(s)
  ELSE s

Pulse(inc) ==
  LET s == StepFor(Asked(inc))
      d == duty + s
  IN /\ duty' = (IF d <= 0 THEN 0 ELSE IF d >= Full THEN Full ELSE d)
     /\ step' = Turned(d, s)
     /\ level' = Level(duty')
     /\ calls' = (calls + 1) % (2 * Full)

Next == \E inc \in Incs : Pulse(inc)

\* The LED goes up and down between dark and full without a pause, and never
\* jumps: the register moves by no more than a step's worth.
Breathes ==
  /\ [](duty = IF calls <= Full THEN calls ELSE 2 * Full - calls)
  /\ [][Size(level' - level) <= DutyMax \div Full + 1]_lvars
=============================================================================
