----------------------------- MODULE LedControl -----------------------------
(***************************************************************************)
(* led_control.c: the LED thread against the threads that request          *)
(* patterns.                                                               *)
(*                                                                         *)
(* A request is three atomic stores and an event; the LED thread reads     *)
(* them one by one, and asks for the idle pattern the same way.  All       *)
(* threads have one priority and are time-sliced.  The requests of others  *)
(* do not overlap ("app"): the connection thread makes its first request   *)
(* before it connects and later ones a delay after a loss, the message     *)
(* thread makes one after a successful send.  The frame number only shapes *)
(* the light and is left out, and so is the store that resets it.          *)
(***************************************************************************)
EXTENDS Integers

CONSTANTS
  Frames,       \* short_led_pattern(): 30
  MaxRequests   \* bound on the requests of the other threads

ASSUME LedAssumption == Frames \in Nat \ {0} /\ MaxRequests \in Nat

VARIABLES
  config,     \* the two Kconfig options of the indication, any of the four builds
  requested_pattern,
  frames_remaining,   \* requested_pattern_frames_remaining, -1 if negative
  posted,     \* LED_PATTERN_REQUESTED
  thread,     \* the place of the LED thread
  pattern,    \* its copy of requested_pattern
  shown,      \* what the LEDs show
  led_animate_timer,  \* whether it runs
  step, want, \* how far a caller is in start_led_pattern(), and its arguments
  latest,     \* observers: the arguments of the latest complete request, and
  overLong,   \* whether it was begun while a long pattern was animated
  requests

request == <<requested_pattern, frames_remaining, posted>>
led == <<thread, pattern, shown, led_animate_timer>>
ledvars == <<config, request, led, step, want, latest, overLong, requests>>

\* Each is a function of the frame number that sets the light; which light is
\* left out.
Patterns == {"DISABLED", "IDLE", "WAITING", "FAILURE", "SUCCESS"}
Forever == -1
Lengths == {Forever} \cup 0..Frames
Callers == {"app", "led"}
Calls == {Forever, Frames} \X Patterns
Nothing == <<Frames, "DISABLED">>

LedTypeOK ==
  /\ config \in [verbose: BOOLEAN, continuous: BOOLEAN]
  /\ requested_pattern \in Patterns /\ pattern \in Patterns /\ shown \in Patterns
  /\ frames_remaining \in Lengths
  /\ posted \in BOOLEAN /\ led_animate_timer \in BOOLEAN /\ overLong \in BOOLEAN
  /\ thread \in {"start", "off", "wait", "get", "dec", "animate", "clear", "idle"}
  /\ step \in [Callers -> {"out", "pattern", "frames", "post"}]
  /\ want \in [Callers -> Calls]
  /\ latest \in Calls /\ requests \in 0..MaxRequests

LedInit ==
  /\ config \in [verbose: BOOLEAN, continuous: BOOLEAN]
  /\ requested_pattern = "DISABLED" /\ frames_remaining = Forever /\ posted = FALSE
  /\ thread = "start" /\ pattern = "DISABLED" /\ shown = "DISABLED"
  /\ led_animate_timer = FALSE
  /\ step = [c \in Callers |-> "out"] /\ want = [c \in Callers |-> Nothing]
  /\ latest = Nothing /\ overLong = FALSE /\ requests = 0

-----------------------------------------------------------------------------
(* start_led_pattern(), on the thread of a caller *)

Begin(c, call) ==
  /\ step[c] = "out"
  /\ step' = [step EXCEPT ![c] = "pattern"]
  /\ want' = [want EXCEPT ![c] = call]

\* The inner loop of the LED thread cannot end.
AnimatingLong ==
  /\ thread \in {"get", "dec", "animate"}
  /\ frames_remaining = Forever
  /\ requested_pattern # "DISABLED" /\ (thread # "dec" \/ pattern # "DISABLED")

StorePattern(c) ==
  /\ step[c] = "pattern"
  /\ step' = [step EXCEPT ![c] = "frames"]
  /\ requested_pattern' = want[c][2]
  /\ overLong' = (IF c = "app" THEN AnimatingLong ELSE overLong)
  /\ UNCHANGED <<config, frames_remaining, posted, led, want, latest, requests>>

StoreFrames(c) ==
  /\ step[c] = "frames"
  /\ step' = [step EXCEPT ![c] = "post"]
  /\ frames_remaining' = want[c][1]
  /\ UNCHANGED <<config, requested_pattern, posted, led, want, latest, overLong, requests>>

\* Mutant: the LED thread is not woken.
PostSilent(c) ==
  /\ step[c] = "post"
  /\ step' = [step EXCEPT ![c] = "out"]
  /\ IF c = "led"
     THEN thread' = "wait" /\ UNCHANGED latest
     ELSE latest' = want[c] /\ UNCHANGED thread
  /\ UNCHANGED <<config, request, pattern, shown, led_animate_timer,
                 want, overLong, requests>>

Post(c) ==
  /\ step[c] = "post"
  /\ step' = [step EXCEPT ![c] = "out"]
  /\ posted' = TRUE
  /\ IF c = "led"
     THEN thread' = "wait" /\ UNCHANGED latest
     ELSE latest' = want[c] /\ UNCHANGED thread
  /\ UNCHANGED <<config, requested_pattern, frames_remaining, pattern, shown, led_animate_timer,
                 want, overLong, requests>>

-----------------------------------------------------------------------------
(* The other threads *)

Waiting == <<Forever, "WAITING">>
Failure == <<Forever, "FAILURE">>

\* The first request is that of the connection thread; then the set-up of
\* the cloud fails, or messages are sent and, in verbose mode, connections
\* renewed, seconds apart.
Requests ==
  CASE requests = 0           -> {Waiting}
    [] want["app"] = Failure  -> {}
    [] OTHER -> (IF requests = 1 THEN {Failure} ELSE {}) \cup
                (IF config.verbose THEN {Waiting, <<Frames, "SUCCESS">>}
                                   ELSE {<<Frames, "DISABLED">>})

\* Between two requests the LED thread reaches a place where it waits; the
\* steps of a call may still fall anywhere.
Request ==
  /\ requests < MaxRequests
  /\ thread \in {"start", "off", "wait", "animate"}
  /\ \E call \in Requests : Begin("app", call)
  /\ requests' = requests + 1
  /\ UNCHANGED <<config, request, led, latest, overLong>>

-----------------------------------------------------------------------------
(* led_animation_thread_fn() *)

others == <<config, step, want, latest, overLong, requests>>

Go(from, to) == thread = from /\ thread' = to

\* Without a LED device the thread returns.
Start ==
  /\ \/ Go("start", "wait") /\ posted' = TRUE
     \/ Go("start", "off") /\ UNCHANGED posted
  /\ UNCHANGED <<requested_pattern, frames_remaining, pattern, shown, led_animate_timer, others>>

Wait ==
  /\ posted
  /\ Go("wait", "get")
  /\ UNCHANGED <<request, pattern, shown, led_animate_timer, others>>

GetPattern ==
  /\ Go("get", "dec")
  /\ pattern' = requested_pattern
  /\ UNCHANGED <<request, shown, led_animate_timer, others>>

\* Mutant: a count of 0 means forever.
DecFramesEndless ==
  /\ Go("dec", IF pattern = "DISABLED" THEN "clear" ELSE "animate")
  /\ frames_remaining' = (IF frames_remaining = Forever THEN Forever
                                                       ELSE frames_remaining - 1)
  /\ UNCHANGED <<requested_pattern, posted, pattern, shown, led_animate_timer, others>>

\* The value before the decrement decides; below zero all values are alike.
DecFrames ==
  /\ Go("dec", IF frames_remaining = 0 \/ pattern = "DISABLED" THEN "clear" ELSE "animate")
  /\ frames_remaining' = (IF frames_remaining = Forever THEN Forever
                                                       ELSE frames_remaining - 1)
  /\ UNCHANGED <<requested_pattern, posted, pattern, shown, led_animate_timer, others>>

\* animate_leds_frame(): waits for the timer of the last frame and starts it.
Frame(p) ==
  /\ ~led_animate_timer
  /\ led_animate_timer' = TRUE
  /\ shown' = p
  /\ UNCHANGED <<request, pattern, others>>

\* Mutant: the pattern is read once per request.
AnimateSame == Go("animate", "dec") /\ Frame(pattern)

Animate == Go("animate", "get") /\ Frame(pattern)

\* A frame of 100 ms outlasts a call of start_led_pattern() by another thread.
FrameEnds ==
  /\ led_animate_timer /\ step["app"] = "out"
  /\ led_animate_timer' = FALSE
  /\ UNCHANGED <<request, thread, pattern, shown, others>>

Clear ==
  /\ Go("clear", "idle")
  /\ posted' = FALSE
  /\ UNCHANGED <<requested_pattern, frames_remaining, pattern, shown, led_animate_timer, others>>

GoIdle ==
  /\ thread = "idle" /\ config.continuous
  /\ Begin("led", <<Forever, "IDLE">>)
  /\ UNCHANGED <<config, request, led, latest, overLong, requests>>

\* Mutant: the last frame stays.
GoDarkLater ==
  /\ ~config.continuous
  /\ Go("idle", "wait")
  /\ UNCHANGED <<request, pattern, shown, led_animate_timer, others>>

GoDark ==
  /\ ~config.continuous
  /\ Go("idle", "wait")
  /\ Frame("DISABLED")

-----------------------------------------------------------------------------

Store(c) == StorePattern(c) \/ StoreFrames(c) \/ Post(c)

LedThread ==
  Start \/ Wait \/ GetPattern \/ DecFrames \/ Animate \/ Clear \/ GoIdle \/ GoDark
  \/ Store("led")

LedNext == LedThread \/ FrameEnds \/ Request \/ Store("app")

\* The scheduler runs every thread that can run, and timers expire.
LedSpec ==
  /\ LedInit /\ [][LedNext]_ledvars
  /\ WF_ledvars(LedThread) /\ WF_ledvars(FrameEnds) /\ WF_ledvars(Store("app"))

-----------------------------------------------------------------------------
(* Properties *)

\* The LED thread blocks only with the LEDs dark, or with a request that will
\* wake it.  (k_event_set(0) at the end of a pattern, led_control.c.)
DarkWhenBlocked == thread = "wait" /\ ~posted => shown = "DISABLED" /\ ~config.continuous

LedInv == LedTypeOK /\ DarkWhenBlocked

\* "... until a new pattern is requested in its place": a long pattern asked for
\* while another is animated is shown.
ReplacesLongPattern ==
  \A p \in {"WAITING", "FAILURE"} :
    (latest[2] = p /\ overLong) ~> (shown = p \/ latest[2] # p \/ ~overLong)

\* "Show an LED pattern until further notice": so is every long pattern.
LongPatternShown ==
  \A p \in {"WAITING", "FAILURE"} : latest[2] = p ~> (shown = p \/ latest[2] # p)

\* "Show an LED pattern for a few seconds, then go idle."
ShortPatternEnds == shown = "SUCCESS" ~> shown # "SUCCESS"

\* The same where the LEDs are turned off.
ShortPatternEndsDark == ~config.continuous /\ shown = "SUCCESS" ~> shown # "SUCCESS"

\* With continuous indication the animation never stops, if there is a LED
\* device: the thread clears its own wake-up event between the stores of others.
KeepsAnimating == config.continuous => []<>(thread \in {"animate", "off"})
=============================================================================
