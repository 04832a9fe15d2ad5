---------------------------- MODULE MCLoraLink ----------------------------
(* Finite instances of LoraLink for TLC. *)
EXTENDS LoraLink

\* At most so many tips, changes of the switches, ticks and restarts.
Within(t, c, m, r) == tips <= t /\ changes <= c /\ ms <= m /\ reboots <= r

\* Three scenarios in one run, and not their product: two tips around the
\* timeout of the counter; a tip against a switch; two changes and a restart.
InScenario == Within(2, 0, 3, 0) \/ Within(1, 1, 3, 0) \/ Within(0, 2, 0, 1)

MCSpec == LInit /\ [][LNext /\ InScenario']_lvars /\ LFairness
=============================================================================
