--------------------------- MODULE CloudConnection ---------------------------
(***************************************************************************)
(* cloud_connection.c of the nRF Cloud gateway, MQTT build: the thread     *)
(* that keeps a connection alive (cloud_connection_thread_fn), the         *)
(* handlers that run beside it (network events, library events, the        *)
(* readiness timeout on the system work queue) and disconnect_cloud(),     *)
(* which five contexts call and which is not atomic.                       *)
(*                                                                         *)
(* The nrf_cloud library is outside src: lib is its connection, handler    *)
(* the event its thread is reporting.  Time is left out: a delay ends and  *)
(* a timeout fires at any moment.  Provisioning is waited for before       *)
(* connecting; that is a delay here (module Provisioning has the detail).  *)
(***************************************************************************)
EXTENDS Integers

CONSTANT MaxFaults   \* bound on failures: lost networks, failed connects,
                     \* drops, refused disconnects, resets asked for by
                     \* the message and location contexts, and delays that
                     \* race a step or find the cloud slow

ASSUME FaultAssumption == MaxFaults \in Nat

VARIABLES
  events,    \* the bits of cloud_events that are set
  con,       \* where the connection thread is
  disc,      \* where each caller of disconnect_cloud() is
  timer,     \* ready_timeout_work is scheduled
  initial_association,
  lib, handler, account, link,   \* the library and the cloud
  left,      \* the library refused to end its connection, and keeps it
  faults

cvars == <<events, con, disc, timer, initial_association,
           lib, handler, account, link, left, faults>>

Flags == {"NETWORK_READY", "CLOUD_CONNECTED", "CLOUD_READY", "CLOUD_DISCONNECTED"}

ConPlaces == {"Setup", "Credentials", "Stopped", "AwaitNetwork", "Clear",
              "LibConnect", "AwaitResult", "TestReady", "StartTimer",
              "AwaitDisconnected", "Backoff"}

\* The contexts that call disconnect_cloud(): the library's thread, the
\* network management thread, the system work queue, the message thread, and
\* the location library's through cloud_transport_error_detected().
Callers == {"lib", "net", "work", "msg", "loc"}

DiscPlaces == {"idle", "ClearTimer", "ClearFlags", "ClearAssoc",
               "LibDisconnect", "Post"}

Reports == {"none", "CONNECTED", "CONNECT_ERROR", "ASSOC_REQUEST", "ASSOCIATED",
            "READY", "PostReady", "DISCONNECTED", "InDisconnect"}

\* link: what the library reported of the account on this connection.  When
\* it first "asked" for an association, the connection goes "stale" with it:
\* the cloud makes only a later one ready.
CTypeOK ==
  /\ events \in SUBSET Flags
  /\ con \in ConPlaces
  /\ disc \in [Callers -> DiscPlaces]
  /\ timer \in BOOLEAN
  /\ initial_association \in BOOLEAN
  /\ lib \in {"off", "connecting", "connected", "ready", "closing"}
  /\ handler \in Reports
  /\ account \in {"none", "associated"}
  /\ link \in {"new", "asked", "told", "stale"}
  /\ left \in BOOLEAN
  /\ faults \in 0..MaxFaults

CInit ==
  /\ events = {}
  /\ con = "Setup"
  /\ disc = [c \in Callers |-> "idle"]
  /\ timer = FALSE
  /\ initial_association = FALSE
  /\ lib = "off"
  /\ handler = "none"
  /\ account \in {"none", "associated"}
  /\ link = "new"
  /\ left = FALSE
  /\ faults = 0

libState == <<lib, account, link, left>>

Fault == faults < MaxFaults /\ faults' = faults + 1

Idle == handler = "none" /\ \A c \in Callers : disc[c] = "idle"

\* The library or the cloud is about to answer.
AnswerDue ==
  \/ lib \in {"connecting", "closing"}
  \/ lib = "connected" /\ link # "stale" /\ ~(link = "asked" /\ account = "none")

\* The delays (half a minute, ten minutes) are far longer than a step and
\* than the usual answer: that one ends amid a step or finds the cloud slow
\* may happen, but not forever, and counts as a fault.
DelayEnds(racing) == IF racing THEN Fault ELSE UNCHANGED faults

-----------------------------------------------------------------------------
(* The connection thread *)

Move(from, to) == con = from /\ con' = to

\* setup_cloud() registers the handlers; when it fails the thread returns.
SetUp ==
  /\ con = "Setup"
  /\ con' \in {"Credentials", "Stopped"}
  /\ UNCHANGED <<events, disc, timer, initial_association, handler, libState, faults>>

\* Without credentials the thread sleeps forever.
CheckCredentials ==
  /\ con = "Credentials"
  /\ con' \in {"AwaitNetwork", "Stopped"}
  /\ UNCHANGED <<events, disc, timer, initial_association, handler, libState, faults>>

AwaitNetwork ==
  /\ Move("AwaitNetwork", "Clear")
  /\ "NETWORK_READY" \in events
  /\ UNCHANGED <<events, disc, timer, initial_association, handler, libState, faults>>

\* connect_cloud() starts by clearing CLOUD_DISCONNECTED.
ClearDisconnected ==
  /\ Move("Clear", "LibConnect")
  /\ events' = events \ {"CLOUD_DISCONNECTED"}
  /\ UNCHANGED <<disc, timer, initial_association, handler, libState, faults>>

\* nrf_cloud_connect() starts an attempt, fails at once, or finds a
\* connection, which counts as success (and returns before the timeout);
\* it may take one that opens or closes for a connection or for an error.
LibConnect ==
  /\ con = "LibConnect"
  /\ \/ /\ lib = "off"
        /\ lib' = "connecting"
        /\ con' = "AwaitResult"
        /\ UNCHANGED faults
     \/ lib = "off" /\ con' = "Backoff" /\ Fault /\ UNCHANGED lib
     \/ lib # "off" /\ con' = "AwaitDisconnected" /\ UNCHANGED <<lib, faults>>
     \/ lib \in {"connecting", "closing"} /\ con' = "Backoff" /\ UNCHANGED <<lib, faults>>
  /\ UNCHANGED <<events, disc, timer, initial_association, handler, account, link, left>>

AwaitResult ==
  /\ con = "AwaitResult"
  /\ \/ "CLOUD_CONNECTED" \in events /\ con' = "TestReady"
     \/ /\ "CLOUD_DISCONNECTED" \in events
        /\ "CLOUD_CONNECTED" \notin events
        /\ con' = "Backoff"
  /\ UNCHANGED <<events, disc, timer, initial_association, handler, libState, faults>>

\* start_readiness_timeout(): the test and the scheduling are apart.
TestReady ==
  /\ con = "TestReady"
  /\ con' = IF "CLOUD_READY" \in events THEN "AwaitDisconnected" ELSE "StartTimer"
  /\ UNCHANGED <<events, disc, timer, initial_association, handler, libState, faults>>

StartTimer ==
  /\ Move("StartTimer", "AwaitDisconnected")
  /\ timer' = TRUE
  /\ UNCHANGED <<events, disc, initial_association, handler, libState, faults>>

AwaitDisconnected ==
  /\ Move("AwaitDisconnected", "Backoff")
  /\ "CLOUD_DISCONNECTED" \in events
  /\ UNCHANGED <<events, disc, timer, initial_association, handler, libState, faults>>

\* k_sleep(reconnect_seconds); busy: another thread is amid its steps.
Backoff(busy) ==
  /\ Move("Backoff", "AwaitNetwork")
  /\ DelayEnds(busy \/ ~Idle \/ lib = "closing")
  /\ UNCHANGED <<events, disc, timer, initial_association, handler, libState>>

-----------------------------------------------------------------------------
(* disconnect_cloud(), step by step, in each of its callers *)

Call(c) == disc[c] = "idle" /\ disc' = [disc EXCEPT ![c] = "ClearTimer"]

Step(c, from, to) == disc[c] = from /\ disc' = [disc EXCEPT ![c] = to]

\* clear_readiness_timeout()
DiscClearTimer(c) ==
  /\ Step(c, "ClearTimer", "ClearFlags")
  /\ timer' = FALSE
  /\ UNCHANGED <<events, con, initial_association, handler, libState, faults>>

\* Mutant: CLOUD_READY survives a disconnection.
DiscKeepReady(c) ==
  /\ Step(c, "ClearFlags", "ClearAssoc")
  /\ events' = events \ {"CLOUD_CONNECTED"}
  /\ UNCHANGED <<con, timer, initial_association, handler, libState, faults>>

DiscClearFlags(c) ==
  /\ Step(c, "ClearFlags", "ClearAssoc")
  /\ events' = events \ {"CLOUD_READY", "CLOUD_CONNECTED"}
  /\ UNCHANGED <<con, timer, initial_association, handler, libState, faults>>

DiscClearAssoc(c) ==
  /\ Step(c, "ClearAssoc", "LibDisconnect")
  /\ initial_association' = FALSE
  /\ UNCHANGED <<events, con, timer, handler, libState, faults>>

\* nrf_cloud_disconnect(): -EACCES "if we are not currently in a connected
\* state"; otherwise the library closes and reports it from its own thread,
\* or fails: "Cannot disconnect from nRF Cloud [...] Continuing anyways".
DiscLibDisconnect(c) ==
  /\ Step(c, "LibDisconnect", "Post")
  /\ \/ lib \notin {"connected", "ready"} /\ UNCHANGED <<lib, left, faults>>
     \/ lib \in {"connected", "ready"} /\ lib' = "closing" /\ UNCHANGED <<left, faults>>
     \/ lib \in {"connected", "ready"} /\ left' = TRUE /\ Fault /\ UNCHANGED lib
  /\ UNCHANGED <<events, con, timer, initial_association, handler, account, link>>

\* Mutant: the event is not posted.
DiscNoPost(c) ==
  /\ Step(c, "Post", "idle")
  /\ handler' = IF c = "lib" THEN "none" ELSE handler
  /\ UNCHANGED <<events, con, timer, initial_association, libState, faults>>

DiscPost(c) ==
  /\ Step(c, "Post", "idle")
  /\ events' = events \cup {"CLOUD_DISCONNECTED"}
  /\ handler' = IF c = "lib" THEN "none" ELSE handler
  /\ UNCHANGED <<con, timer, initial_association, libState, faults>>

Disconnecting(c) ==
  \/ DiscClearTimer(c) \/ DiscClearFlags(c) \/ DiscClearAssoc(c)
  \/ DiscLibDisconnect(c) \/ DiscPost(c)

-----------------------------------------------------------------------------
(* cloud_event_handler(), on the library's thread *)

OnConnected ==
  /\ handler = "CONNECTED"
  /\ events' = events \cup {"CLOUD_CONNECTED"}
  /\ handler' = "none"
  /\ UNCHANGED <<con, disc, timer, initial_association, libState, faults>>

OnDisconnected ==
  /\ handler \in {"CONNECT_ERROR", "DISCONNECTED"}
  /\ Call("lib")
  /\ handler' = "InDisconnect"
  /\ UNCHANGED <<events, con, timer, initial_association, libState, faults>>

OnAssociationRequest ==
  /\ handler = "ASSOC_REQUEST"
  /\ initial_association' = TRUE
  /\ handler' = "none"
  /\ UNCHANGED <<events, con, disc, timer, libState, faults>>

\* Mutant: an association never makes the device reconnect.
OnAssociatedIgnored ==
  /\ handler = "ASSOCIATED"
  /\ handler' = "none"
  /\ UNCHANGED <<events, con, disc, timer, initial_association, libState, faults>>

\* Only an initial association makes the device reconnect.
OnAssociated ==
  /\ handler = "ASSOCIATED"
  /\ \/ initial_association /\ Call("lib") /\ handler' = "InDisconnect"
     \/ ~initial_association /\ handler' = "none" /\ UNCHANGED disc
  /\ UNCHANGED <<events, con, timer, initial_association, libState, faults>>

\* cloud_ready(): first the timeout is cancelled, then CLOUD_READY posted.
OnReady ==
  /\ handler = "READY"
  /\ timer' = FALSE
  /\ handler' = "PostReady"
  /\ UNCHANGED <<events, con, disc, initial_association, libState, faults>>

PostReady ==
  /\ handler = "PostReady"
  /\ events' = events \cup {"CLOUD_READY"}
  /\ handler' = "none"
  /\ UNCHANGED <<con, disc, timer, initial_association, libState, faults>>

\* ready_timeout_work_fn(), on the system work queue.
ReadyTimeout ==
  /\ timer
  /\ timer' = FALSE
  /\ Call("work")
  /\ DelayEnds(~Idle \/ AnswerDue \/ con # "AwaitDisconnected")
  /\ UNCHANGED <<events, con, initial_association, handler, libState>>

\* l4_event_handler(); a network that is up before the handler is registered
\* would be missed (comment in setup_cloud()), which LTE is too slow for.
NetworkUp ==
  /\ con # "Setup"
  /\ "NETWORK_READY" \notin events
  /\ disc["net"] = "idle"
  /\ events' = events \cup {"NETWORK_READY"}
  /\ UNCHANGED <<con, disc, timer, initial_association, handler, libState, faults>>

NetworkDown ==
  /\ Fault
  /\ "NETWORK_READY" \in events
  /\ events' = events \ {"NETWORK_READY"}
  /\ Call("net")
  /\ UNCHANGED <<con, timer, initial_association, handler, libState>>

\* The message thread gives up on a connection after too many failures
\* (module CloudGateway has the thread itself in place of this action).
MessageThreadReset ==
  /\ Fault
  /\ Call("msg")
  /\ UNCHANGED <<events, con, timer, initial_association, handler, libState>>

\* The location library timed out on the cloud: a communication error is
\* assumed and cloud_transport_error_detected() disconnects.
LocationTimeout ==
  /\ Fault
  /\ Call("loc")
  /\ UNCHANGED <<events, con, timer, initial_association, handler, libState>>

-----------------------------------------------------------------------------
(* The library, outside src: one event is reported at a time. *)

Report(from, to, evt) ==
  /\ handler = "none"
  /\ lib = from
  /\ lib' = to
  /\ handler' = evt
  /\ UNCHANGED <<events, con, disc, timer, initial_association>>

LibConnected ==
  Report("connecting", "connected", "CONNECTED") /\ UNCHANGED <<account, link, left, faults>>

LibConnectError ==
  Report("connecting", "off", "CONNECT_ERROR") /\ Fault /\ UNCHANGED <<account, link, left>>

LibAssociationRequest ==
  /\ Report("connected", "connected", "ASSOC_REQUEST")
  /\ account = "none"
  /\ link = "new"
  /\ link' = "asked"
  /\ UNCHANGED <<account, left, faults>>

\* "Fired every time the device connects", and when it becomes associated.
LibAssociated ==
  /\ Report("connected", "connected", "ASSOCIATED")
  /\ account = "associated"
  /\ \/ link = "new" /\ link' = "told"
     \/ link = "asked" /\ link' = "stale"
  /\ UNCHANGED <<account, left, faults>>

LibReady ==
  /\ Report("connected", "ready", "READY")
  /\ link = "told"
  /\ left' = FALSE
  /\ UNCHANGED <<account, link, faults>>

\* The end of a connection: closed by us, or dropped.
LibClosed ==
  /\ Report("closing", "off", "DISCONNECTED")
  /\ link' = "new"
  /\ left' = FALSE
  /\ UNCHANGED <<account, faults>>

LibDropped ==
  /\ \E from \in {"connected", "ready"} : Report(from, "off", "DISCONNECTED")
  /\ link' = "new"
  /\ left' = FALSE
  /\ Fault
  /\ UNCHANGED account

\* The user adds the device to an account in the portal.
UserAssociates ==
  /\ account = "none"
  /\ account' = "associated"
  /\ UNCHANGED <<events, con, disc, timer, initial_association, lib, handler, link, left, faults>>

-----------------------------------------------------------------------------

ConThread(busy) ==
  \/ SetUp \/ CheckCredentials \/ AwaitNetwork \/ ClearDisconnected \/ LibConnect \/ AwaitResult
  \/ TestReady \/ StartTimer \/ AwaitDisconnected \/ Backoff(busy)

HandlerThread ==
  \/ OnConnected \/ OnDisconnected \/ OnAssociationRequest \/ OnAssociated
  \/ OnReady \/ PostReady

Library ==
  \/ LibConnected \/ LibConnectError \/ LibAssociationRequest \/ LibAssociated
  \/ LibReady \/ LibClosed \/ LibDropped \/ UserAssociates

CNextButReset(busy) ==
  \/ ConThread(busy) \/ HandlerThread \/ Library
  \/ \E c \in Callers : Disconnecting(c)
  \/ ReadyTimeout \/ NetworkUp \/ NetworkDown \/ LocationTimeout

CNext == CNextButReset(FALSE) \/ MessageThreadReset

CSpec == CInit /\ [][CNext]_cvars

\* Threads, work queue and library run, the network comes back, and the user
\* associates the device.
CFairness ==
  /\ WF_cvars(ConThread(FALSE))
  /\ WF_cvars(HandlerThread)
  /\ \A c \in Callers : WF_cvars(Disconnecting(c))
  /\ WF_cvars(ReadyTimeout)
  /\ WF_cvars(NetworkUp)
  /\ WF_cvars(UserAssociates)
  /\ WF_cvars(LibConnected)
  /\ WF_cvars(LibAssociationRequest)
  /\ WF_cvars(LibAssociated)
  /\ WF_cvars(LibReady)
  /\ WF_cvars(LibClosed)

CFairSpec == CSpec /\ CFairness

-----------------------------------------------------------------------------
(* Properties *)

\* A disconnection is on its way to the event flags.
DisconnectionReported ==
  \/ "CLOUD_DISCONNECTED" \in events
  \/ handler \in {"CONNECT_ERROR", "DISCONNECTED"}
  \/ \E c \in Callers : disc[c] # "idle"

\* The connection thread never waits for the end of a connection that is
\* already gone: whichever context took the connection down, its
\* CLOUD_DISCONNECTED is set or still to come.
NeverWaitsOnDeadConnection ==
  con \in {"AwaitResult", "TestReady", "StartTimer", "AwaitDisconnected"} /\ lib = "off"
    => DisconnectionReported

\* CLOUD_READY is set without a ready connection only while a disconnection
\* is under way that will clear it: the message thread is not fooled for good.
NoStaleReadiness ==
  "CLOUD_READY" \in events /\ lib # "ready" =>
    \/ lib = "closing"
    \/ handler \in {"DISCONNECTED", "CONNECT_ERROR"}
    \/ disc["lib"] \in {"ClearTimer", "ClearFlags"}

ConnInv == CTypeOK /\ NeverWaitsOnDeadConnection /\ NoStaleReadiness

\* Once faults stop, the cloud becomes ready again and again, however the
\* contexts that disconnect interleave with the connection thread, unless
\* the library or the credentials are not there to begin with, or while the
\* library keeps a connection that it refused to end.
ReadyAgain == []<>("CLOUD_READY" \in events \/ con = "Stopped" \/ left)

\* README: after an initial association the device disconnects and
\* reconnects; it does when the library agrees to disconnect.
AssociationReconnects == link = "stale" ~> lib = "off" \/ left

\* README: "Failed or lost connections are re-established after a waiting
\* period", whatever failed; the library's refusal to disconnect is a failure.
ConnectionMaintained == []<>("CLOUD_READY" \in events \/ con = "Stopped")

\* cloud_connection.c: "the nRF Cloud connection did not become ready within
\* the delay".  The timeout never takes down a connection that is ready.
TimeoutSparesReadyConnection ==
  [][disc["work"] = "idle" /\ disc'["work"] # "idle"
       => "CLOUD_READY" \notin events]_cvars

\* cloud_connection.c: the timeout "is scheduled at a delay any time
\* connection starts".  A quiet connection that is not ready is timed.
UnreadyConnectionIsTimed ==
  con = "AwaitDisconnected" /\ lib = "connected" /\ Idle
    /\ events \cap {"CLOUD_READY", "CLOUD_DISCONNECTED"} = {}
      => timer
=============================================================================
