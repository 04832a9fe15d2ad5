---------------------------- MODULE CloudGateway ----------------------------
(***************************************************************************)
(* The gateway's connection (CloudConnection) and message queue            *)
(* (MessageQueue) together: the queue waits for the CLOUD_READY of the     *)
(* connection's event flags, a send succeeds only over a connection that   *)
(* is ready, and the message thread's disconnect_cloud() is the one whose  *)
(* steps interleave with those of the other contexts.                      *)
(***************************************************************************)
EXTENDS CloudConnection

CONSTANTS Producers, MaxMessages, Capacity, MaxFailures, NoMessage

VARIABLES queue, stage, submitted, place, held, failures,
          sent, discarded, rejected, tried

MQ == INSTANCE MessageQueue WITH ready <- "CLOUD_READY" \in events

ASSUME GatewayAssumption == MQ!QueueAssumption

queueVars == <<queue, stage, submitted, place, held, failures,
               sent, discarded, rejected, tried>>

gvars == <<cvars, queueVars>>

GInit == CInit /\ MQ!QueueInit

\* The message thread is amid its steps, which the delay before a
\* reconnection outlasts but for a fault.
Busy == place \notin {"Get", "AwaitReady", "Cooldown"}

Connection == CNextButReset(Busy) /\ UNCHANGED queueVars

QueueOnly ==
  /\ UNCHANGED cvars
  /\ \/ \E p \in Producers : MQ!Producer(p)
     \/ MQ!Get \/ MQ!AwaitReady \/ MQ!RetryTest \/ MQ!RetryPut \/ MQ!Cooldown

\* nrf_cloud_send() over a connection that is ready, or not any more.
Sent ==
  /\ UNCHANGED cvars
  /\ lib = "ready"
  /\ MQ!SendSucceeds

NotSent ==
  /\ UNCHANGED <<events, con, disc, timer, initial_association, lib, handler, account, link, left>>
  /\ IF lib = "ready" THEN Fault ELSE UNCHANGED faults
  /\ MQ!SendFails

\* The message thread calls disconnect_cloud(), and goes on when it returns.
GiveUp ==
  /\ UNCHANGED <<events, con, timer, initial_association, lib, handler, account, link, left, faults>>
  /\ Call("msg")
  /\ MQ!DisconnectCloud

GaveUp ==
  /\ UNCHANGED cvars
  /\ disc["msg"] = "idle"
  /\ MQ!Disconnected

MessageThread ==
  \/ UNCHANGED cvars /\ (MQ!Get \/ MQ!AwaitReady \/ MQ!RetryTest \/ MQ!RetryPut \/ MQ!Cooldown)
  \/ Sent \/ NotSent \/ GiveUp \/ GaveUp

GNext == Connection \/ QueueOnly \/ Sent \/ NotSent \/ GiveUp \/ GaveUp

\* The fairness of the two parts.  A send over a ready connection succeeds
\* in the end: faults are bounded, and a stray readiness timeout (once in
\* ten minutes) does not beat the message thread every time.
GFairness ==
  /\ WF_gvars(ConThread(Busy) /\ UNCHANGED queueVars)
  /\ WF_gvars(HandlerThread /\ UNCHANGED queueVars)
  /\ \A c \in Callers : WF_gvars(Disconnecting(c) /\ UNCHANGED queueVars)
  /\ WF_gvars(ReadyTimeout /\ UNCHANGED queueVars)
  /\ WF_gvars((NetworkUp \/ UserAssociates) /\ UNCHANGED queueVars)
  /\ WF_gvars((LibConnected \/ LibAssociationRequest \/ LibAssociated \/ LibReady \/ LibClosed)
                /\ UNCHANGED queueVars)
  /\ WF_gvars(MessageThread)
  /\ SF_gvars(UNCHANGED cvars /\ MQ!AwaitReady)
  /\ SF_gvars(Sent)

GSpec == GInit /\ [][GNext]_gvars /\ GFairness

-----------------------------------------------------------------------------
(* Properties *)

\* With room for every message and a connection thread that got through its
\* setup, what the queue accepts is in the end sent, whatever happens to the
\* connection and however often the message thread itself takes it down,
\* except while the library keeps a connection that it refused to end.
AcceptedIsSent ==
  \A m \in MQ!Messages :
    m \in MQ!Pending ~> m \in sent \/ con = "Stopped" \/ left

\* A message thread that gave up is let go on: disconnect_cloud() returns
\* to it while the other contexts are disconnecting as well, and the thread
\* that maintains the connection notices and brings it back, with the same
\* exception.
ResetReconnects == place = "Disconnecting" ~> "CLOUD_READY" \in events \/ left
=============================================================================
