----------------------------- MODULE ShadowConfig -----------------------------
(***************************************************************************)
(* The device shadow of the nRF Cloud gateway: shadow_config.c, the shadow *)
(* events of cloud_connection.c (MQTT build) and the polling thread of     *)
(* shadow_support_coap.c (CoAP build).  The user edits the desired state,  *)
(* the device applies it and reports it; messages cross on the way.        *)
(*                                                                         *)
(* The section has one key, counterEnable.  The cloud and the library are  *)
(* outside src: a delta is published whenever an update leaves the desired *)
(* value different from the reported one, and deltas published while the   *)
(* device is offline wait for it.  CONFIG_TEST_COUNTER is n.               *)
(***************************************************************************)
EXTENDS Integers, Sequences

CONSTANTS MaxEdits,   \* bound: edits of the desired value by the user
          MaxFaults   \* bound: dropped connections, failed requests, resets

ASSUME ShadowBounds == MaxEdits \in Nat /\ MaxFaults \in Nat

VARIABLES
  protocol,              \* the build: CONFIG_NRF_CLOUD_MQTT or _COAP
  session,               \* progress of the connection
  test_counter_enabled,  \* the applied configuration
  accepted_rcvd,
  poll, got,             \* the CoAP shadow thread and what it fetched
  config_sent,
  desired, reported,     \* the shadow, in the cloud
  down, up,              \* MQTT messages to the device and to the cloud
  unsure,                \* a report failed or crossed an edit, see UserEdits
  wanted,                \* values desired at some time in this session
  edits, faults

device == <<test_counter_enabled, accepted_rcvd, poll, got, config_sent>>
cloud  == <<desired, reported, down, up>>
svars  == <<protocol, session, device, cloud, unsure, wanted, edits, faults>>

Good   == {"on", "off"}
Config == Good \cup {"bad", "none"}

\* "asked": the accepted shadow was sent, on request of the library.
Sessions == {"off", "connected", "asked", "ready"}

Message == [kind : {"accepted", "delta", "reported", "desired", "info"}, value : Config]

STypeOK ==
  /\ protocol \in {"MQTT", "COAP"}
  /\ session \in Sessions
  /\ test_counter_enabled \in Good
  /\ accepted_rcvd \in BOOLEAN /\ config_sent \in BOOLEAN /\ unsure \in BOOLEAN
  /\ poll \in {"sleep", "get", "process", "respond", "config"}
  /\ {got, desired, reported} \subseteq Config
  /\ down \in Seq(Message) /\ up \in Seq(Message)
  /\ wanted \subseteq Config
  /\ edits \in 0..MaxEdits /\ faults \in 0..MaxFaults

SInit ==
  /\ protocol \in {"MQTT", "COAP"}
  /\ session = "off"
  /\ test_counter_enabled = "off"
  /\ accepted_rcvd = FALSE /\ config_sent = FALSE /\ unsure = FALSE
  /\ poll = "sleep" /\ got = "none"
  /\ desired \in {"none", "on"} /\ reported \in {"none", "off"}
  /\ down = <<>> /\ up = <<>>
  /\ wanted = {}
  /\ edits = 0 /\ faults = 0

Fault == faults < MaxFaults /\ faults' = faults + 1

Msg(k, v) == [kind |-> k, value |-> v]

\* process_cfg(): only a boolean is taken over.
Applied(v) == IF v \in Good THEN v ELSE test_counter_enabled

Differs(want, have) == want # "none" /\ want # have

-----------------------------------------------------------------------------
(* The cloud and the library *)

Published == IF protocol = "MQTT" /\ Differs(desired', reported')
               THEN Append(down, Msg("delta", desired')) ELSE down

\* What the device applied is not what the cloud thinks, and no report is on
\* its way: after the accepted shadow with MQTT, until the library's info makes
\* the cloud compare; after a failed answer with CoAP.
Unreported ==
  IF protocol = "MQTT"
    THEN session = "asked" \/ \E i \in DOMAIN up : up[i].kind = "info"
    ELSE config_sent /\ poll # "respond" /\ reported # test_counter_enabled

UserEdits(v) ==
  /\ edits < MaxEdits /\ edits' = edits + 1
  /\ v # desired
  /\ desired' = v
  /\ wanted' = wanted \cup {v}
  /\ UNCHANGED reported
  /\ down' = Published
  /\ unsure' = (unsure \/ Unreported)
  /\ UNCHANGED <<protocol, session, device, up, faults>>

\* The cloud takes an update from the device.
CloudUpdates ==
  /\ up # <<>>
  /\ up' = Tail(up)
  /\ reported' = IF Head(up).kind = "reported" THEN Head(up).value ELSE reported
  /\ desired' = IF Head(up).kind = "desired" THEN Head(up).value ELSE desired
  /\ wanted' = wanted \cup {desired'}
  /\ down' = Published
  /\ UNCHANGED <<protocol, session, device, unsure, edits, faults>>

CloudAnswers ==
  /\ session = "connected"
  /\ session' = "asked"
  /\ down' = Append(down, Msg("accepted", desired))
  /\ UNCHANGED <<protocol, device, desired, reported, up, unsure, wanted, edits, faults>>

\* The library reports the build's info in the shadow once it is ready.
LibReady ==
  /\ session = "asked" /\ accepted_rcvd
  /\ session' = "ready"
  /\ up' = Append(up, Msg("info", "none"))
  /\ UNCHANGED <<protocol, device, desired, reported, down, unsure, wanted, edits, faults>>

\* Mutant: the flag of the previous connection survives.
CloudConnectedStale ==
  /\ session = "off"
  /\ session' = IF protocol = "MQTT" THEN "connected" ELSE "ready"
  /\ wanted' = {desired}
  /\ UNCHANGED <<protocol, device, cloud, unsure, edits, faults>>

\* cloud_connected(), and with CoAP cloud_ready() right behind it
CloudConnected ==
  /\ session = "off"
  /\ session' = IF protocol = "MQTT" THEN "connected" ELSE "ready"
  /\ accepted_rcvd' = FALSE
  /\ wanted' = {desired}
  /\ UNCHANGED <<protocol, test_counter_enabled, poll, got, config_sent, cloud,
                 unsure, edits, faults>>

\* The end of a connection loses what was on its way.
Lost ==
  /\ session' = "off"
  /\ down' = <<>> /\ up' = <<>>

Drop ==
  /\ Fault
  /\ session # "off"
  /\ Lost
  /\ unsure' = (unsure /\ protocol = "COAP")
  /\ UNCHANGED <<protocol, device, desired, reported, wanted, edits>>

\* A reset: the statics of the firmware start afresh.
Reboot ==
  /\ Fault
  /\ Lost
  /\ unsure' = FALSE
  /\ test_counter_enabled' = "off"
  /\ accepted_rcvd' = FALSE /\ config_sent' = FALSE
  /\ poll' = "sleep" /\ got' = "none"
  /\ UNCHANGED <<protocol, desired, reported, wanted, edits>>

-----------------------------------------------------------------------------
(* MQTT: handle_shadow_event(), on the library's thread *)

Handle(kind) ==
  /\ session # "off"
  /\ down # <<>> /\ Head(down).kind = kind
  /\ down' = Tail(down)

\* nrf_cloud_obj_shadow_update(): a failure is only logged.
Send(m) ==
  \/ up' = Append(up, m) /\ UNCHANGED <<unsure, faults>>
  \/ Fault /\ unsure' = TRUE /\ UNCHANGED up

\* -EAGAIN: "Ignoring delta until accepted shadow is received"
DeltaIgnored ==
  /\ Handle("delta")
  /\ ~accepted_rcvd
  /\ UNCHANGED <<protocol, session, device, desired, reported, up, unsure,
                 wanted, edits, faults>>

\* A good value is reported; a bad one is rejected by making the applied value
\* the desired one.
Respond(v) == Send(Msg(IF v \in Good THEN "reported" ELSE "desired", Applied(v)))

\* Mutant: a rejected delta is not answered.
DeltaUnanswered ==
  /\ Handle("delta")
  /\ accepted_rcvd
  /\ test_counter_enabled' = Applied(Head(down).value)
  /\ IF Head(down).value \in Good THEN Respond(Head(down).value)
                                  ELSE UNCHANGED <<up, unsure, faults>>
  /\ UNCHANGED <<protocol, session, accepted_rcvd, poll, got, config_sent,
                 desired, reported, wanted, edits>>

DeltaProcessed ==
  /\ Handle("delta")
  /\ accepted_rcvd
  /\ test_counter_enabled' = Applied(Head(down).value)
  /\ Respond(Head(down).value)
  /\ UNCHANGED <<protocol, session, accepted_rcvd, poll, got, config_sent,
                 desired, reported, wanted, edits>>

\* The device's own configuration is reported when the shadow has none that can
\* be applied.
ReportUnlessGood(v) ==
  IF v \in Good THEN UNCHANGED <<up, unsure, faults>>
                ELSE Send(Msg("reported", Applied(v)))

AcceptedProcessed ==
  /\ Handle("accepted")
  /\ accepted_rcvd' = TRUE
  /\ test_counter_enabled' = Applied(Head(down).value)
  /\ ReportUnlessGood(Head(down).value)
  /\ UNCHANGED <<protocol, session, poll, got, config_sent, desired, reported,
                 wanted, edits>>

-----------------------------------------------------------------------------
(* CoAP: coap_shadow_thread_fn() *)

PollStep(from, to) ==
  /\ protocol = "COAP"
  /\ poll = from /\ poll' = to
  /\ UNCHANGED <<protocol, session, accepted_rcvd, down, up, edits>>

AwaitReady ==
  /\ PollStep("sleep", "get")
  /\ session = "ready"
  /\ UNCHANGED <<test_counter_enabled, got, config_sent, desired, reported, unsure,
                 wanted, faults>>

\* nrf_cloud_coap_shadow_get(): the delta, or nothing (-ENODATA)
PollGet ==
  /\ session = "ready"
  /\ \/ /\ Differs(desired, reported)
        /\ got' = desired
        /\ PollStep("get", "process")
     \/ /\ ~Differs(desired, reported)
        /\ PollStep("get", "config")
        /\ UNCHANGED got
  /\ UNCHANGED <<test_counter_enabled, config_sent, desired, reported, unsure,
                 wanted, faults>>

\* -EACCES when the connection is gone
PollGetFails ==
  /\ PollStep("get", "sleep")
  /\ IF session = "ready" THEN Fault ELSE UNCHANGED faults
  /\ UNCHANGED <<test_counter_enabled, got, config_sent, desired, reported, unsure,
                 wanted>>

\* -ETIMEDOUT: the thread takes the connection down.
PollTimesOut ==
  /\ protocol = "COAP" /\ session = "ready"
  /\ poll = "get" /\ poll' = "sleep"
  /\ Fault
  /\ Lost
  /\ UNCHANGED <<protocol, test_counter_enabled, accepted_rcvd, got, config_sent,
                 desired, reported, unsure, wanted, edits>>

\* shadow_config_delta_process(), called by process_delta()
PollProcess ==
  /\ PollStep("process", "respond")
  /\ test_counter_enabled' = Applied(got)
  /\ UNCHANGED <<got, config_sent, desired, reported, unsure, wanted, faults>>

\* process_delta() gives up without an answer: the delta cannot be decoded
\* (-EIO), or memory runs out when it was applied already (-ENOMEM).
PollProcessFails ==
  /\ PollStep("process", "config")
  /\ Fault
  /\ \/ UNCHANGED <<test_counter_enabled, unsure>>
     \/ /\ test_counter_enabled' = Applied(got)
        /\ unsure' = (unsure \/ desired # got)  \* no delta to come says it again
  /\ UNCHANGED <<got, config_sent, desired, reported, wanted>>

\* A request reaches the cloud only on a connection that is there.
Reaches == session = "ready"

RequestFails == Fault \/ (~Reaches /\ UNCHANGED faults)

\* Accept the delta by updating reported, reject it by updating desired.
PollRespond ==
  /\ PollStep("respond", "config")
  /\ \/ /\ Reaches
        /\ reported' = IF got \in Good THEN got ELSE reported
        /\ desired' = IF got \in Good THEN desired ELSE test_counter_enabled
        /\ UNCHANGED <<unsure, faults>>
     \/ /\ RequestFails
        /\ unsure' = (unsure \/ desired # got)
        /\ UNCHANGED <<desired, reported>>
  /\ wanted' = wanted \cup {desired'}
  /\ UNCHANGED <<test_counter_enabled, got, config_sent>>

\* "Ensure the config is sent once"
PollConfig ==
  /\ PollStep("config", "sleep")
  /\ \/ ~config_sent /\ Reaches /\ reported' = test_counter_enabled
          /\ config_sent' = TRUE /\ UNCHANGED faults
     \/ ~config_sent /\ RequestFails /\ UNCHANGED <<reported, config_sent>>
     \/ config_sent /\ UNCHANGED <<reported, config_sent, faults>>
  /\ UNCHANGED <<test_counter_enabled, got, desired, unsure, wanted>>

-----------------------------------------------------------------------------

ShadowHandler == DeltaIgnored \/ DeltaProcessed \/ AcceptedProcessed

PollThread ==
  \/ AwaitReady \/ PollGet \/ PollGetFails \/ PollTimesOut
  \/ PollProcess \/ PollProcessFails \/ PollRespond \/ PollConfig

\* What module Application composes as it is; it adds to the other actions.
ShadowNext ==
  \/ \E v \in Good \cup {"bad"} : UserEdits(v)
  \/ CloudUpdates \/ LibReady \/ CloudConnected \/ ShadowHandler \/ PollThread

-----------------------------------------------------------------------------
(* Properties *)

\* shadow_config.c, shadow_config_delta_process(): a delta from before the
\* connection is not processed.  With MQTT the device never takes over a value
\* that nobody has wanted since the connection began.
NoStaleConfig ==
  [][protocol = "MQTT" /\ test_counter_enabled' # test_counter_enabled
       /\ session' # "off"
         => test_counter_enabled' \in wanted]_svars

\* The inductive invariant behind NoStaleConfig: with MQTT the accepted shadow
\* and all that follows it tell what was wanted in this session; what waited for
\* the device comes before it, and there is none before the cloud was asked.
Fresh ==
  protocol = "MQTT" =>
    /\ session # "off" => desired \in wanted
    /\ session # "off" /\ accepted_rcvd => \A i \in DOMAIN down : down[i].value \in wanted
    /\ session # "off" => \A i, j \in DOMAIN down :
         i <= j /\ down[i].kind = "accepted" => down[j].value \in wanted
    /\ session \in {"off", "connected"} => \A i \in DOMAIN down : down[i].kind # "accepted"

\* The applied, the reported and the desired configuration are one.
Agree ==
  /\ reported = test_counter_enabled
  /\ desired \in {"none", test_counter_enabled}
=============================================================================
