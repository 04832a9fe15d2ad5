------------------------------ MODULE WakeLoop ------------------------------
(***************************************************************************)
(* What the sensor node promises about its inputs, without rows, counters  *)
(* or stores: flags raised by interrupts are claimed by an awake loop,     *)
(* claimed work ends in a sample of the inputs or (digital work only) in a *)
(* rejection, the node sleeps only when it saw no flag, and an interrupt   *)
(* that arrives too late to be seen is repaired by the next one.           *)
(* SensorNode implements this specification; liveness is checked here,     *)
(* where nothing has to be bounded but the number of resets.               *)
(***************************************************************************)
EXTENDS Integers

CONSTANTS
  PinStates,   \* the values of the digital inputs
  NoSample,    \* no row was built since the reset
  MaxResets    \* bound on resets, so that they stop

ASSUME WakeAssumption == NoSample \notin PinStates /\ MaxResets \in Nat

VARIABLES
  phase,   \* "boot", "run", "doze" (decided to sleep), "asleep"
  dig,     \* flag_event_change
  rtc,     \* rtcTriggered
  work,    \* claimed and not yet sampled or rejected
  pins,    \* the inputs
  seen,    \* the inputs of the last row
  resets

wvars == <<phase, dig, rtc, work, pins, seen, resets>>

WInit ==
  /\ phase = "boot"
  /\ dig = FALSE
  /\ rtc = FALSE
  /\ work = {}
  /\ pins \in PinStates
  /\ seen = NoSample
  /\ resets = 0

\* setup() ends with the handlers attached.
Start ==
  /\ phase = "boot"
  /\ phase' = "run"
  /\ UNCHANGED <<dig, rtc, work, pins, seen, resets>>

\* The two tests at the top of loop().
ClaimDigital ==
  /\ phase = "run" /\ dig
  /\ dig' = FALSE
  /\ work' = work \cup {"DIG"}
  /\ UNCHANGED <<phase, rtc, pins, seen, resets>>

ClaimTimer ==
  /\ phase = "run" /\ rtc
  /\ rtc' = FALSE
  /\ work' = work \cup {"RTC"}
  /\ UNCHANGED <<phase, dig, pins, seen, resets>>

\* processEventAndLog samples the inputs.
SampleFor(k) ==
  /\ phase = "run" /\ k \in work
  /\ work' = work \ {k}
  /\ seen' = pins
  /\ UNCHANGED <<phase, dig, rtc, pins, resets>>

\* Mutant: timer work can be rejected too.
RejectAny ==
  /\ phase = "run" /\ work # {}
  /\ work' = {}
  /\ UNCHANGED <<phase, dig, rtc, pins, seen, resets>>

\* Its digital branch may reject the event as too fast.
RejectDigital ==
  /\ phase = "run" /\ "DIG" \in work
  /\ work' = work \ {"DIG"}
  /\ UNCHANGED <<phase, dig, rtc, pins, seen, resets>>

\* The check before LowPower.sleep(), and the call: flags raised between the
\* two do not keep the node awake.
DecideToSleep ==
  /\ phase = "run" /\ work = {} /\ ~dig /\ ~rtc
  /\ phase' = "doze"
  /\ UNCHANGED <<dig, rtc, work, pins, seen, resets>>

FallAsleep ==
  /\ phase = "doze"
  /\ phase' = "asleep"
  /\ UNCHANGED <<dig, rtc, work, pins, seen, resets>>

\* Mutant: an interrupt does not end the sleep.
SleepsOn == phase

Wakened == IF phase = "asleep" THEN "run" ELSE phase

\* An input changes (isr_generic); before setup() ends nobody notices.
InputChange ==
  /\ pins' \in PinStates \ {pins}
  /\ dig' = (dig \/ phase # "boot")
  /\ phase' = Wakened
  /\ UNCHANGED <<rtc, work, seen, resets>>

\* A tip of the rain bucket (isr_bucket).
Tip ==
  /\ dig' = (dig \/ phase # "boot")
  /\ phase' = Wakened
  /\ UNCHANGED <<rtc, work, pins, seen, resets>>

\* Mutant: the timer interrupt is not a wake-up source.
TimerTickAsleep ==
  /\ rtc' = (rtc \/ phase # "boot")
  /\ UNCHANGED <<phase, dig, work, pins, seen, resets>>

\* The countdown timer fires (isr_rtc).
TimerTick ==
  /\ rtc' = (rtc \/ phase # "boot")
  /\ phase' = Wakened
  /\ UNCHANGED <<dig, work, pins, seen, resets>>

\* An edge on the INT line that isr_rtc does not take for a tick.
Glitch ==
  /\ phase' = Wakened
  /\ UNCHANGED <<dig, rtc, work, pins, seen, resets>>

ResetNode ==
  /\ resets < MaxResets
  /\ resets' = resets + 1
  /\ phase' = "boot"
  /\ dig' = FALSE
  /\ rtc' = FALSE
  /\ work' = {}
  /\ seen' = NoSample
  /\ UNCHANGED pins

WNext ==
  \/ Start \/ ClaimDigital \/ ClaimTimer \/ RejectDigital
  \/ DecideToSleep \/ FallAsleep
  \/ \E k \in {"DIG", "RTC"} : SampleFor(k)
  \/ InputChange \/ Tip \/ TimerTick \/ Glitch \/ ResetNode

WSpec == WInit /\ [][WNext]_wvars

\* The loop never stops while it is awake, and Timer B reloads by itself in
\* hardware.  Nothing is assumed of inputs, tips, glitches and resets.
WFairness ==
  /\ WF_wvars(Start)
  /\ WF_wvars(ClaimDigital)
  /\ WF_wvars(ClaimTimer)
  /\ WF_wvars(SampleFor("RTC"))
  /\ WF_wvars(SampleFor("DIG") \/ RejectDigital)
  /\ WF_wvars(FallAsleep)
  /\ WF_wvars(TimerTick)

WFairSpec == WSpec /\ WFairness

-----------------------------------------------------------------------------

\* Inputs that stop changing are in the last row from some time on, although
\* digital events may be rejected as too fast and interrupts may come between
\* the check of the flags and the sleep: the timer row repairs both.
SettledInputsAreSampled ==
  \A v \in PinStates : <>[](pins = v) => <>[](seen = v)

\* A timer event is always worked off, also when it arrives between the check
\* of the flags and LowPower.sleep(), unless the node is reset first.
TimerEventServed == rtc ~> ("RTC" \in work \/ phase = "boot")

\* The same for a digital event.
DigitalEventServed == dig ~> ("DIG" \in work \/ phase = "boot")
=============================================================================
