---------------------------- MODULE Provisioning ----------------------------
(***************************************************************************)
(* provisioning_support.c of the nRF Cloud gateway: the callbacks that the *)
(* nrf_provisioning library makes (modem_mode_cb, device_mode_cb), the     *)
(* handler of network events and the two items of the system work queue.   *)
(*                                                                         *)
(* modem_mode_cb() blocks until the network handler reports that the       *)
(* network is down, or up again.  It runs in two contexts: on the work     *)
(* queue (nrf_provisioning_init, which may install certificates) and later *)
(* on the library's thread, once per check for provisioning commands.      *)
(* The library, conn_mgr and the network are outside src.                  *)
(***************************************************************************)
EXTENDS Integers, Sequences

CONSTANTS
  MaxDrops,    \* bound on unintended losses of the network
  MaxReboots   \* bound on reboots

ASSUME ProvisioningAssumption == MaxDrops \in Nat /\ MaxReboots \in Nat

VARIABLES
  flags,     \* prov_events
  provisioning_started,
  handler,   \* the network handler: between events, or after its first step
  events,    \* network events not yet delivered
  at,        \* where init (on the work queue) and the library's thread are
  queued,    \* start_provisioning_work is submitted
  delay,     \* provisioning_idle_work is scheduled, or due on the work queue
  link, wanted,   \* the network, and whether conn_mgr is to keep it
  drops, reboots

pvars == <<flags, provisioning_started, handler, events, at, queued, delay,
           link, wanted, drops, reboots>>

Flags == {"NETWORK_UP", "NETWORK_DOWN", "PROVISIONING_IDLE"}
Workers == {"init", "thread"}
Places == {"off", "pause", "check", "AwaitDown", "install", "AwaitUp", "finish", "done"}

PTypeOK ==
  /\ flags \in SUBSET Flags
  /\ provisioning_started \in BOOLEAN
  /\ handler \in {"none", "CONNECTED", "DISCONNECTED"}
  /\ events \in Seq({"CONNECTED", "DISCONNECTED"})
  /\ at \in [Workers -> Places]
  /\ queued \in BOOLEAN
  /\ delay \in SUBSET {"scheduled", "due"}
  /\ link \in BOOLEAN
  /\ wanted \in BOOLEAN
  /\ drops \in 0..MaxDrops
  /\ reboots \in 0..MaxReboots

Boot ==
  /\ flags = {}
  /\ provisioning_started = FALSE
  /\ handler = "none"
  /\ events = <<>>
  /\ at = [w \in Workers |-> "off"]
  /\ queued = FALSE
  /\ delay = {}
  /\ link = FALSE
  /\ wanted = TRUE

PInit == Boot /\ drops = 0 /\ reboots = 0

network == <<link, wanted, events, drops>>
notices == <<handler, provisioning_started, queued>>

-----------------------------------------------------------------------------
(* The network, with conn_mgr *)

MaxEvents == 3   \* bound on events that the handler lags behind

LinkUp ==
  /\ ~link /\ wanted
  /\ Len(events) < MaxEvents
  /\ link' = TRUE
  /\ events' = Append(events, "CONNECTED")
  /\ UNCHANGED <<flags, at, delay, notices, wanted, drops, reboots>>

LinkLost ==
  /\ link
  /\ drops < MaxDrops
  /\ Len(events) < MaxEvents
  /\ link' = FALSE
  /\ drops' = drops + 1
  /\ events' = Append(events, "DISCONNECTED")
  /\ UNCHANGED <<flags, at, delay, notices, wanted, reboots>>

-----------------------------------------------------------------------------
(* l4_event_handler(): it clears one flag, then posts the other. *)

Opposite(e) == IF e = "CONNECTED" THEN "NETWORK_DOWN" ELSE "NETWORK_UP"
Reported(e) == IF e = "CONNECTED" THEN "NETWORK_UP" ELSE "NETWORK_DOWN"

\* Mutant: the flag is posted before the other one was cleared, which is
\* left to the next event.
HandlerKeeps ==
  /\ handler = "none"
  /\ events # <<>>
  /\ handler' = Head(events)
  /\ events' = Tail(events)
  /\ UNCHANGED <<flags, provisioning_started, queued, at, delay, link, wanted, drops, reboots>>

HandlerStarts ==
  /\ handler = "none"
  /\ events # <<>>
  /\ handler' = Head(events)
  /\ events' = Tail(events)
  /\ flags' = flags \ {Opposite(Head(events))}
  /\ UNCHANGED <<provisioning_started, queued, at, delay, link, wanted, drops, reboots>>

\* Mutant: the library is initialised in the handler, which does not take
\* another event before that has ended.
HandlerInitialises ==
  /\ handler # "none"
  /\ flags' = flags \cup {Reported(handler)}
  /\ IF handler = "CONNECTED" /\ ~provisioning_started
     THEN provisioning_started' = TRUE /\ queued' = TRUE /\ UNCHANGED handler
     ELSE /\ ~queued /\ at["init"] \in {"off", "done"}
          /\ handler' = "none"
          /\ UNCHANGED <<provisioning_started, queued>>
  /\ UNCHANGED <<at, delay, network, reboots>>

HandlerPosts ==
  /\ handler # "none"
  /\ flags' = flags \cup {Reported(handler)}
  /\ handler' = "none"
  /\ IF handler = "CONNECTED" /\ ~provisioning_started
     THEN provisioning_started' = TRUE /\ queued' = TRUE
     ELSE UNCHANGED <<provisioning_started, queued>>
  /\ UNCHANGED <<at, delay, network, reboots>>

-----------------------------------------------------------------------------
(* The system work queue runs one item at a time. *)

WorkQueueFree == at["init"] \in {"off", "done"}

\* start_provisioning_work_fn() enters nrf_provisioning_init().
InitStarts ==
  /\ queued /\ WorkQueueFree
  /\ queued' = FALSE
  /\ at' = [at EXCEPT !["init"] = "check"]
  /\ UNCHANGED <<flags, handler, provisioning_started, delay, network, reboots>>

\* It returns, and the library's thread runs from now on; or it fails, which
\* is only logged.
InitReturns ==
  /\ at["init"] = "finish"
  /\ \E thread \in {"pause", "off"} :
       at' = [at EXCEPT !["init"] = "done", !["thread"] = thread]
  /\ UNCHANGED <<flags, delay, notices, network, reboots>>

DelayEnds ==
  /\ "scheduled" \in delay
  /\ delay' = {"due"}
  /\ UNCHANGED <<flags, at, notices, network, reboots>>

\* Mutant: the mark is left out while a check is under way.
MarkIdleUnlessBusy ==
  /\ "due" \in delay /\ WorkQueueFree
  /\ delay' = delay \ {"due"}
  /\ flags' = IF at["thread"] = "pause" THEN flags \cup {"PROVISIONING_IDLE"} ELSE flags
  /\ UNCHANGED <<at, notices, network, reboots>>

\* mark_provisioning_idle_work_fn()
MarkIdle ==
  /\ "due" \in delay /\ WorkQueueFree
  /\ delay' = delay \ {"due"}
  /\ flags' = flags \cup {"PROVISIONING_IDLE"}
  /\ UNCHANGED <<at, notices, network, reboots>>

-----------------------------------------------------------------------------
(* modem_mode_cb(), in either context *)

GoOffline(w) ==
  /\ at[w] = "check"
  /\ Len(events) < MaxEvents
  /\ at' = [at EXCEPT ![w] = "AwaitDown"]
  /\ wanted' = FALSE
  /\ link' = FALSE
  /\ events' = IF link THEN Append(events, "DISCONNECTED") ELSE events
  /\ UNCHANGED <<flags, delay, notices, drops, reboots>>

IsOffline(w) ==
  /\ at[w] = "AwaitDown"
  /\ "NETWORK_DOWN" \in flags
  /\ at' = [at EXCEPT ![w] = "install"]
  /\ UNCHANGED <<flags, delay, notices, network, reboots>>

GoOnline(w) ==
  /\ at[w] = "install"
  /\ at' = [at EXCEPT ![w] = "AwaitUp"]
  /\ wanted' = TRUE
  /\ UNCHANGED <<flags, delay, notices, link, events, drops, reboots>>

IsOnline(w) ==
  /\ at[w] = "AwaitUp"
  /\ "NETWORK_UP" \in flags
  /\ at' = [at EXCEPT ![w] = "finish"]
  /\ UNCHANGED <<flags, delay, notices, network, reboots>>

\* There was nothing to install; or modem_mode_cb() could not read the
\* functional mode and returned at once, which leaves the network as it is.
NoSwitch(w) ==
  /\ at[w] \in {"check", "install"}
  /\ at' = [at EXCEPT ![w] = "finish"]
  /\ UNCHANGED <<flags, delay, notices, network, reboots>>

ModeSwitch(w) ==
  GoOffline(w) \/ IsOffline(w) \/ GoOnline(w) \/ IsOnline(w) \/ NoSwitch(w)

-----------------------------------------------------------------------------
(* device_mode_cb(), on the library's thread *)

\* NRF_PROVISIONING_EVENT_START
OnStart ==
  /\ at["thread"] = "pause"
  /\ at' = [at EXCEPT !["thread"] = "check"]
  /\ flags' = flags \ {"PROVISIONING_IDLE"}
  /\ UNCHANGED <<delay, notices, network, reboots>>

\* NRF_PROVISIONING_EVENT_STOP: k_work_reschedule() starts the delay anew; an
\* item that is due already stays so.
OnStop ==
  /\ at["thread"] = "finish"
  /\ at' = [at EXCEPT !["thread"] = "pause"]
  /\ delay' = delay \cup {"scheduled"}
  /\ UNCHANGED <<flags, notices, network, reboots>>

\* NRF_PROVISIONING_EVENT_DONE: sample_reboot_normal()
OnDone ==
  /\ at["thread"] = "finish"
  /\ reboots < MaxReboots
  /\ reboots' = reboots + 1
  /\ flags' = {} /\ provisioning_started' = FALSE /\ handler' = "none"
  /\ events' = <<>> /\ at' = [w \in Workers |-> "off"] /\ queued' = FALSE
  /\ delay' = {} /\ link' = FALSE /\ wanted' = TRUE
  /\ UNCHANGED drops

-----------------------------------------------------------------------------

Handler == HandlerStarts \/ HandlerPosts
WorkQueue == InitStarts \/ InitReturns \/ MarkIdle \/ ModeSwitch("init")
Thread == ModeSwitch("thread") \/ OnStop \/ OnDone

PNext == LinkUp \/ LinkLost \/ Handler \/ WorkQueue \/ DelayEnds \/ Thread \/ OnStart

PSpec == PInit /\ [][PNext]_pvars

\* Handler, work queue, timer and library run, the network comes back while
\* it is wanted, and the pause between two checks (half an hour and more)
\* does not end before the delay of five seconds every time.
PFairness ==
  /\ WF_pvars(LinkUp) /\ WF_pvars(Handler) /\ WF_pvars(WorkQueue)
  /\ WF_pvars(DelayEnds) /\ WF_pvars(Thread)
  /\ SF_pvars(at["thread"] = "pause" /\ MarkIdle)

PFairSpec == PSpec /\ PFairness

-----------------------------------------------------------------------------
(* Properties *)

\* The two network flags are what the last delivered event said: they never
\* contradict each other, and when nothing is left to deliver they say what
\* the network is.  modem_mode_cb() decides by them alone.
FlagsFollowNetwork ==
  /\ ~{"NETWORK_UP", "NETWORK_DOWN"} \subseteq flags
  /\ handler = "none" /\ events = <<>> /\ provisioning_started
       => (link <=> "NETWORK_UP" \in flags) /\ (~link <=> "NETWORK_DOWN" \in flags)

ProvInv == PTypeOK /\ FlagsFollowNetwork

\* modem_mode_cb() waits without a limit, on the work queue or the library's
\* thread; the handler that ends the wait is never held up by it.
ModeSwitchReturns == \A w \in Workers : at[w] \in {"AwaitDown", "AwaitUp"} ~> at[w] = "finish"

\* The connection thread, which waits for PROVISIONING_IDLE, is not kept
\* from connecting for good: after every check the mark comes back, unless a
\* reboot starts all over.
IdleAgain == at["thread"] = "finish" ~> "PROVISIONING_IDLE" \in flags \/ at["thread"] = "off"

\* device_mode_cb(): the delay before the mark "is to prevent false starts if
\* the provisioning library performs an immediate retry".  Provisioning is
\* not marked idle while a check is under way.
NoFalseStart ==
  "PROVISIONING_IDLE" \in flags => at["thread"] \in {"off", "pause", "finish"}
=============================================================================
