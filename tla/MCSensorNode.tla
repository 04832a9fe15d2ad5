---------------------------- MODULE MCSensorNode ----------------------------
(* Finite instances of SensorNode for TLC. *)
EXTENDS SensorNode

Bounds(tip, pin, rtc, glitch, clock, reset) ==
  [s \in Stimuli |-> CASE s = "tip"    -> tip
                       [] s = "pin"    -> pin
                       [] s = "rtc"    -> rtc
                       [] s = "glitch" -> glitch
                       [] s = "clock"  -> clock
                       [] s = "reset"  -> reset]

\* Interrupts against the loop: enough events for a rejected one, one lost
\* before the sleep and one during a timer call.
RaceLimit == Bounds(1, 2, 1, 0, 1, 0)

\* A watchdog reset or a power loss at any point.
RebootLimit == Bounds(0, 1, 2, 1, 1, 1)

MCLimit == [s \in Stimuli |-> IF RaceLimit[s] > RebootLimit[s]
                                THEN RaceLimit[s] ELSE RebootLimit[s]]

\* One tip and the steps that follow it.
MCRainLimit == Bounds(1, 0, 0, 0, 0, 0)

\* Both scenarios in one run, and not their product.
InScenario ==
  \E limit \in {RaceLimit, RebootLimit} : \A s \in Stimuli : used[s] <= limit[s]

MCSpec == Init /\ [][Next /\ InScenario']_vars
=============================================================================
