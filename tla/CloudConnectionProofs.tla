------------------------ MODULE CloudConnectionProofs ------------------------
(***************************************************************************)
(* The connection thread never waits on a dead connection and CLOUD_READY  *)
(* is never stale for good, for every number of faults; and the gateway,   *)
(* which composes the connection and the message queue, keeps what was     *)
(* proved about each of them alone.                                        *)
(***************************************************************************)
EXTENDS CloudGateway, TLAPS

\* The library's thread is in disconnect_cloud() exactly while its handler
\* has not returned, and the handler is told of readiness by a connection
\* that can only be closing since: the next report waits for the handler.
HandlerInv ==
  /\ disc["lib"] # "idle" <=> handler = "InDisconnect"
  /\ handler \in {"READY", "PostReady"} => lib \in {"ready", "closing"}

CInd == CTypeOK /\ HandlerInv /\ NeverWaitsOnDeadConnection /\ NoStaleReadiness

\* Nothing runs at boot.
LEMMA ConnInit == CInit => CInd
<1> SUFFICES ASSUME CInit PROVE CInd
  OBVIOUS
<1>1. CTypeOK
  <2>1. disc \in [Callers -> DiscPlaces] /\ disc["lib"] = "idle"
    BY DEF CInit, Callers, DiscPlaces
  <2>2. timer \in BOOLEAN /\ initial_association \in BOOLEAN /\ left \in BOOLEAN
    BY DEF CInit
  <2> QED
    BY <2>1, <2>2, FaultAssumption DEF CInit, CTypeOK, FaultAssumption, ConPlaces, Reports
<1>2. HandlerInv
  BY DEF CInit, HandlerInv, Callers
<1>3. NeverWaitsOnDeadConnection /\ NoStaleReadiness
  BY DEF CInit, NeverWaitsOnDeadConnection, NoStaleReadiness
<1> QED
  BY <1>1, <1>2, <1>3 DEF CInd

\* A fault is counted within its bound, and a delay may be one.
LEMMA FaultCounted ==
  ASSUME CTypeOK, Fault \/ UNCHANGED faults
  PROVE  faults' \in 0..MaxFaults
BY FaultAssumption DEF CTypeOK, Fault, FaultAssumption

\* cloud_connection_thread_fn(): no step of its own is followed by a wait
\* for a connection that is gone.
LEMMA ConThreadStep ==
  ASSUME NEW STATE busy
  PROVE  CInd /\ ConThread(busy) => CInd'
<1> SUFFICES ASSUME CInd, ConThread(busy) PROVE CInd'
  OBVIOUS
<1>1. /\ UNCHANGED <<disc, handler, account, link, left, initial_association>>
      /\ Fault \/ UNCHANGED faults
      /\ events' \in {events, events \ {"CLOUD_DISCONNECTED"}}
      /\ timer' \in {timer, TRUE}
      /\ con' \in ConPlaces
      /\ lib' = lib \/ (con = "LibConnect" /\ lib = "off" /\ lib' = "connecting")
  BY DEF ConThread, SetUp, CheckCredentials, AwaitNetwork, ClearDisconnected, LibConnect,
         AwaitResult, TestReady, StartTimer, AwaitDisconnected, Backoff, Move, DelayEnds,
         libState, ConPlaces
<1>2. CTypeOK'
  <2>1. faults' \in 0..MaxFaults
    BY <1>1, FaultCounted DEF CInd
  <2>2. timer' \in BOOLEAN
    BY <1>1 DEF CInd, CTypeOK
  <2> QED
    BY <1>1, <2>1, <2>2 DEF CInd, CTypeOK
<1>3. HandlerInv' /\ NoStaleReadiness'
  BY <1>1 DEF CInd, HandlerInv, NoStaleReadiness
<1>4. NeverWaitsOnDeadConnection'
  <2> SUFFICES ASSUME con' \in {"AwaitResult", "TestReady", "StartTimer", "AwaitDisconnected"},
                      lib' = "off"
               PROVE  DisconnectionReported'
    BY DEF NeverWaitsOnDeadConnection
  <2>1. /\ con \in {"AwaitResult", "TestReady", "StartTimer", "AwaitDisconnected"}
        /\ lib = "off" /\ events' = events
    BY <1>1 DEF ConThread, SetUp, CheckCredentials, AwaitNetwork, ClearDisconnected,
                LibConnect, AwaitResult, TestReady, StartTimer, AwaitDisconnected,
                Backoff, Move, DelayEnds, libState
  <2>2. DisconnectionReported
    BY <2>1 DEF CInd, NeverWaitsOnDeadConnection
  <2> QED
    BY <1>1, <2>1, <2>2 DEF DisconnectionReported
<1> QED
  BY <1>2, <1>3, <1>4 DEF CInd

\* Entering disconnect_cloud() in any context.
LEMMA CallType ==
  ASSUME CTypeOK, NEW c \in Callers, Call(c)
  PROVE  /\ disc' \in [Callers -> DiscPlaces]
         /\ disc'[c] = "ClearTimer"
         /\ \A d \in Callers \ {c} : disc'[d] = disc[d]
BY DEF CTypeOK, Call, DiscPlaces

\* One step of disconnect_cloud(): it is over only when it has posted.
LEMMA DisconnectStep ==
  ASSUME NEW c \in Callers
  PROVE  CInd /\ Disconnecting(c) => CInd'
<1> SUFFICES ASSUME CInd, Disconnecting(c) PROVE CInd'
  OBVIOUS
<1>d. PICK to \in DiscPlaces : disc[c] # "idle" /\ disc' = [disc EXCEPT ![c] = to]
  BY DEF Disconnecting, DiscClearTimer, DiscClearFlags, DiscClearAssoc, DiscLibDisconnect,
         DiscPost, Step, DiscPlaces
<1>e. /\ disc' \in [Callers -> DiscPlaces] /\ disc'[c] = to
      /\ \A d \in Callers \ {c} : disc'[d] = disc[d]
      /\ "lib" \in Callers
  BY <1>d DEF CInd, CTypeOK, Callers
<1>1. CASE DiscClearTimer(c)
  <2>1. disc[c] = "ClearTimer" /\ to = "ClearFlags"
    BY <1>1, <1>e DEF DiscClearTimer, Step, CInd, CTypeOK
  <2>2. CTypeOK'
    BY <1>1, <1>e DEF DiscClearTimer, CInd, CTypeOK, libState
  <2>3. HandlerInv' /\ NoStaleReadiness'
    BY <1>1, <1>e, <2>1 DEF DiscClearTimer, CInd, HandlerInv, NoStaleReadiness, libState
  <2>4. NeverWaitsOnDeadConnection'
    BY <1>e, <2>1 DEF NeverWaitsOnDeadConnection, DisconnectionReported
  <2> QED
    BY <2>2, <2>3, <2>4 DEF CInd
<1>2. CASE DiscClearFlags(c)
  <2>1. to = "ClearAssoc"
    BY <1>2, <1>e DEF DiscClearFlags, Step, CInd, CTypeOK
  <2>2. CTypeOK'
    BY <1>2, <1>e DEF DiscClearFlags, CInd, CTypeOK, libState
  <2>3. HandlerInv' /\ NoStaleReadiness'
    BY <1>2, <1>d, <1>e, <2>1 DEF DiscClearFlags, CInd, HandlerInv, NoStaleReadiness, libState
  <2>4. NeverWaitsOnDeadConnection'
    BY <1>e, <2>1 DEF NeverWaitsOnDeadConnection, DisconnectionReported
  <2> QED
    BY <2>2, <2>3, <2>4 DEF CInd
<1>3. CASE DiscClearAssoc(c)
  <2>1. disc[c] = "ClearAssoc" /\ to = "LibDisconnect"
    BY <1>3, <1>e DEF DiscClearAssoc, Step, CInd, CTypeOK
  <2>2. CTypeOK'
    BY <1>3, <1>e DEF DiscClearAssoc, CInd, CTypeOK, libState
  <2>3. HandlerInv' /\ NoStaleReadiness'
    BY <1>3, <1>e, <2>1 DEF DiscClearAssoc, CInd, HandlerInv, NoStaleReadiness, libState
  <2>4. NeverWaitsOnDeadConnection'
    BY <1>e, <2>1 DEF NeverWaitsOnDeadConnection, DisconnectionReported
  <2> QED
    BY <2>2, <2>3, <2>4 DEF CInd
<1>4. CASE DiscLibDisconnect(c)
  <2>1. disc[c] = "LibDisconnect" /\ to = "Post"
    BY <1>4, <1>e DEF DiscLibDisconnect, Step, CInd, CTypeOK
  <2>2. /\ lib' = lib \/ lib' = "closing"
        /\ left' = left \/ left' = TRUE
        /\ Fault \/ UNCHANGED faults
    BY <1>4 DEF DiscLibDisconnect
  <2>3. CTypeOK'
    <3>1. faults' \in 0..MaxFaults
      BY <2>2, FaultCounted DEF CInd
    <3>2. left' \in BOOLEAN
      BY <2>2 DEF CInd, CTypeOK
    <3> QED
      BY <1>4, <1>e, <2>2, <3>1, <3>2 DEF DiscLibDisconnect, CInd, CTypeOK
  <2>4. HandlerInv' /\ NoStaleReadiness'
    BY <1>4, <1>e, <2>1, <2>2 DEF DiscLibDisconnect, CInd, HandlerInv, NoStaleReadiness
  <2>5. NeverWaitsOnDeadConnection'
    BY <1>e, <2>1 DEF NeverWaitsOnDeadConnection, DisconnectionReported
  <2> QED
    BY <2>3, <2>4, <2>5 DEF CInd
<1>5. CASE DiscPost(c)
  <2>1. disc[c] = "Post" /\ to = "idle"
    BY <1>5, <1>e DEF DiscPost, Step, CInd, CTypeOK
  <2>2. /\ "CLOUD_DISCONNECTED" \in events' /\ UNCHANGED <<lib, con>>
        /\ "CLOUD_READY" \in events' => "CLOUD_READY" \in events
    BY <1>5 DEF DiscPost, libState
  <2>3. CTypeOK'
    BY <1>5, <1>e DEF DiscPost, CInd, CTypeOK, libState, Flags, Reports
  <2>4. CASE c = "lib"
    <3>1. handler = "InDisconnect" /\ handler' = "none" /\ disc'["lib"] = "idle"
      BY <1>5, <1>e, <2>1, <2>4 DEF DiscPost, CInd, HandlerInv
    <3>2. HandlerInv' /\ NoStaleReadiness'
      BY <2>1, <2>2, <2>4, <3>1 DEF CInd, HandlerInv, NoStaleReadiness
    <3> QED
      BY <2>2, <2>3, <3>2 DEF CInd, NeverWaitsOnDeadConnection, DisconnectionReported
  <2>5. CASE c # "lib"
    <3>1. HandlerInv' /\ NoStaleReadiness'
      BY <1>5, <1>e, <2>2, <2>5 DEF DiscPost, CInd, HandlerInv, NoStaleReadiness, libState
    <3> QED
      BY <2>2, <2>3, <3>1 DEF CInd, NeverWaitsOnDeadConnection, DisconnectionReported
  <2> QED
    BY <2>4, <2>5
<1> QED
  BY <1>1, <1>2, <1>3, <1>4, <1>5 DEF Disconnecting

\* cloud_event_handler(): what it was told it passes on, or disconnects.
LEMMA HandlerStep == CInd /\ HandlerThread => CInd'
<1> SUFFICES ASSUME CInd, HandlerThread PROVE CInd'
  OBVIOUS
<1>l. "lib" \in Callers
  BY DEF Callers
<1>1. ASSUME Call("lib"), handler \in {"CONNECT_ERROR", "DISCONNECTED", "ASSOCIATED"},
             handler' = "InDisconnect",
             UNCHANGED <<events, con, timer, initial_association, libState, faults>>
      PROVE  CInd'
  <2>1. /\ disc' \in [Callers -> DiscPlaces] /\ disc'["lib"] = "ClearTimer"
        /\ \A d \in Callers \ {"lib"} : disc'[d] = disc[d]
    BY <1>1, <1>l, CallType DEF CInd
  <2>2. CTypeOK'
    BY <1>1, <2>1 DEF CInd, CTypeOK, libState, Reports
  <2>3. HandlerInv' /\ NoStaleReadiness'
    BY <1>1, <2>1 DEF CInd, HandlerInv, NoStaleReadiness, libState
  <2>4. NeverWaitsOnDeadConnection'
    BY <1>l, <2>1 DEF NeverWaitsOnDeadConnection, DisconnectionReported
  <2> QED
    BY <2>2, <2>3, <2>4 DEF CInd
<1>2. CASE OnDisconnected
  BY <1>1, <1>2 DEF OnDisconnected
<1>3. CASE OnAssociated
  <2>1. CASE initial_association /\ Call("lib") /\ handler' = "InDisconnect"
    BY <1>1, <1>3, <2>1 DEF OnAssociated
  <2>2. CASE handler' = "none" /\ UNCHANGED disc
    BY <1>3, <2>2 DEF OnAssociated, CInd, CTypeOK, HandlerInv, NoStaleReadiness,
         NeverWaitsOnDeadConnection, DisconnectionReported, libState, Reports
  <2> QED
    BY <1>3, <2>1, <2>2 DEF OnAssociated
<1>4. CASE OnConnected \/ OnAssociationRequest \/ OnReady \/ PostReady
  <2>1. CTypeOK'
    <3>1. timer' \in BOOLEAN /\ initial_association' \in BOOLEAN
      BY <1>4 DEF OnConnected, OnAssociationRequest, OnReady, PostReady, CInd, CTypeOK
    <3> QED
      BY <1>4, <3>1 DEF OnConnected, OnAssociationRequest, OnReady, PostReady, CInd,
         CTypeOK, libState, Flags, Reports
  <2>2. /\ handler \in {"CONNECTED", "ASSOC_REQUEST", "READY", "PostReady"}
        /\ handler' \in {"none", "PostReady"}
        /\ handler' = "PostReady" => handler = "READY"
        /\ UNCHANGED <<con, disc, lib>>
        /\ "CLOUD_DISCONNECTED" \in events => "CLOUD_DISCONNECTED" \in events'
        /\ "CLOUD_READY" \in events' => "CLOUD_READY" \in events \/ handler = "PostReady"
    BY <1>4 DEF OnConnected, OnAssociationRequest, OnReady, PostReady, libState
  <2>3. HandlerInv'
    BY <2>2 DEF CInd, HandlerInv
  <2>4. NoStaleReadiness'
    BY <2>2 DEF CInd, HandlerInv, NoStaleReadiness
  <2>5. NeverWaitsOnDeadConnection'
    BY <2>2 DEF CInd, NeverWaitsOnDeadConnection, DisconnectionReported
  <2> QED
    BY <2>1, <2>3, <2>4, <2>5 DEF CInd
<1> QED
  BY <1>2, <1>3, <1>4 DEF HandlerThread

\* A context other than the library's enters disconnect_cloud().
LEMMA CallStep ==
  ASSUME CInd, NEW c \in Callers \ {"lib"}, Call(c), timer' \in BOOLEAN,
         Fault \/ UNCHANGED faults,
         events' \in {events, events \ {"NETWORK_READY"}},
         UNCHANGED <<con, initial_association, handler, libState>>
  PROVE  CInd'
<1>1. /\ disc' \in [Callers -> DiscPlaces] /\ disc'[c] = "ClearTimer"
      /\ disc'["lib"] = disc["lib"]
  BY CallType DEF CInd, Callers
<1>2. faults' \in 0..MaxFaults
  BY FaultCounted DEF CInd
<1>3. CTypeOK'
  BY <1>1, <1>2 DEF CInd, CTypeOK, libState
<1>4. HandlerInv' /\ NoStaleReadiness'
  BY <1>1 DEF CInd, HandlerInv, NoStaleReadiness, libState
<1>5. NeverWaitsOnDeadConnection'
  BY <1>1 DEF NeverWaitsOnDeadConnection, DisconnectionReported
<1> QED
  BY <1>3, <1>4, <1>5 DEF CInd

\* The other contexts that begin to disconnect, and the network coming up.
LEMMA ContextStep ==
  CInd /\ (\/ ReadyTimeout \/ NetworkUp \/ NetworkDown
           \/ MessageThreadReset \/ LocationTimeout) => CInd'
<1> SUFFICES ASSUME CInd,
                    \/ ReadyTimeout \/ NetworkUp \/ NetworkDown
                    \/ MessageThreadReset \/ LocationTimeout
             PROVE  CInd'
  OBVIOUS
<1>2. {"work", "net", "msg", "loc"} \subseteq Callers \ {"lib"}
  BY DEF Callers
<1>3. timer \in BOOLEAN /\ FALSE \in BOOLEAN
  BY DEF CInd, CTypeOK
<1>4. CASE ReadyTimeout
  BY CallStep, <1>2, <1>3, <1>4 DEF ReadyTimeout, DelayEnds
<1>5. CASE NetworkDown
  BY CallStep, <1>2, <1>3, <1>5 DEF NetworkDown
<1>6. CASE MessageThreadReset
  BY CallStep, <1>2, <1>3, <1>6 DEF MessageThreadReset
<1>8. CASE LocationTimeout
  BY CallStep, <1>2, <1>3, <1>8 DEF LocationTimeout
<1>7. CASE NetworkUp
  <2>1. CTypeOK'
    BY <1>7 DEF NetworkUp, CInd, CTypeOK, libState, Flags
  <2>2. HandlerInv' /\ NoStaleReadiness'
    BY <1>7 DEF NetworkUp, CInd, HandlerInv, NoStaleReadiness, libState
  <2>3. NeverWaitsOnDeadConnection'
    BY <1>7 DEF NetworkUp, CInd, NeverWaitsOnDeadConnection, DisconnectionReported, libState
  <2> QED
    BY <2>1, <2>2, <2>3 DEF CInd
<1> QED
  BY <1>4, <1>5, <1>6, <1>7, <1>8

\* The library: a connection ends only with a report of it.
LEMMA LibraryStep == CInd /\ Library => CInd'
<1> SUFFICES ASSUME CInd, Library PROVE CInd'
  OBVIOUS
<1>1. CASE UserAssociates
  BY <1>1 DEF UserAssociates, CInd, CTypeOK, HandlerInv, NoStaleReadiness,
         NeverWaitsOnDeadConnection, DisconnectionReported
<1>2. CASE ~UserAssociates
  <2>1. /\ handler = "none" /\ handler' \in Reports \ {"none", "PostReady", "InDisconnect"}
        /\ UNCHANGED <<events, con, disc, timer, initial_association, account>>
        /\ Fault \/ UNCHANGED faults
        /\ link' \in {"new", "asked", "told", "stale"}
        /\ left' = left \/ left' = FALSE
        /\ lib' \in {"off", "connected", "ready"}
        /\ lib' = "off" <=> handler' \in {"CONNECT_ERROR", "DISCONNECTED"}
        /\ lib' = "ready" <=> handler' = "READY"
        /\ lib' = "connected" => lib \in {"connecting", "connected"}
    BY <1>2 DEF Library, LibConnected, LibConnectError, LibAssociationRequest,
         LibAssociated, LibReady, LibClosed, LibDropped, Report, Reports, CInd, CTypeOK
  <2>2. CTypeOK'
    <3>1. faults' \in 0..MaxFaults
      BY <2>1, FaultCounted DEF CInd
    <3>2. left' \in BOOLEAN
      BY <2>1 DEF CInd, CTypeOK
    <3> QED
      BY <2>1, <3>1, <3>2 DEF CInd, CTypeOK
  <2>3. disc["lib"] = "idle"
    BY <2>1 DEF CInd, HandlerInv
  <2>4. HandlerInv' /\ NoStaleReadiness'
    BY <2>1, <2>3 DEF CInd, HandlerInv, NoStaleReadiness
  <2>5. NeverWaitsOnDeadConnection'
    BY <2>1 DEF NeverWaitsOnDeadConnection, DisconnectionReported
  <2> QED
    BY <2>2, <2>4, <2>5 DEF CInd
<1> QED
  BY <1>1, <1>2

\* A fault, or a step of others, that changes nothing here.
LEMMA QuietStep ==
  CInd /\ (Fault \/ UNCHANGED faults)
    /\ UNCHANGED <<events, con, disc, timer, initial_association, lib, handler, account, link, left>>
  => CInd'
<1> SUFFICES ASSUME CInd, Fault \/ UNCHANGED faults,
                    UNCHANGED <<events, con, disc, timer, initial_association>>,
                    UNCHANGED <<lib, handler, account, link, left>>
             PROVE  CInd'
  OBVIOUS
<1>1. faults' \in 0..MaxFaults
  BY FaultCounted DEF CInd
<1> QED
  BY <1>1 DEF CInd, CTypeOK, HandlerInv, NoStaleReadiness, NeverWaitsOnDeadConnection,
              DisconnectionReported

\* cloud_connection.c: whichever contexts disconnect at once, the connection
\* thread's waits end, and what tells the message thread that the cloud is
\* ready is true or about to be cleared.
THEOREM ConnSafe == CSpec => []ConnInv
<1>1. CInit => CInd
  BY ConnInit
<1>2. CInd /\ [CNext]_cvars => CInd'
  <2>1. CInd /\ UNCHANGED cvars => CInd'
    BY QuietStep DEF cvars
  <2> QED
    BY <2>1, ConThreadStep, DisconnectStep, HandlerStep, ContextStep, LibraryStep
       DEF CNext, CNextButReset
<1>3. CInd => ConnInv
  BY DEF CInd, ConnInv
<1> QED
  BY <1>1, <1>2, <1>3, PTL DEF CSpec

-----------------------------------------------------------------------------
(* The gateway *)

\* The message thread and its producers do to the connection what was proved
\* harmless.
LEMMA GatewayConnStep ==
  CInd /\ [GNext]_gvars => CInd'
<1> SUFFICES ASSUME CInd, [GNext]_gvars PROVE CInd'
  OBVIOUS
<1>1. CASE Connection
  BY <1>1, ConThreadStep, DisconnectStep, HandlerStep, ContextStep, LibraryStep
     DEF Connection, CNextButReset
<1>2. CASE QueueOnly \/ Sent \/ GaveUp \/ UNCHANGED gvars
  BY <1>2, QuietStep DEF QueueOnly, Sent, GaveUp, gvars, cvars
<1>3. CASE NotSent
  BY <1>3, QuietStep DEF NotSent
<1>4. CASE GiveUp
  <2>1. "msg" \in Callers \ {"lib"}
    BY DEF Callers
  <2>2. timer' \in BOOLEAN
    BY <1>4 DEF GiveUp, CInd, CTypeOK
  <2> QED
    BY <1>4, <2>1, <2>2, CallStep DEF GiveUp, libState
<1> QED
  BY <1>1, <1>2, <1>3, <1>4 DEF GNext

\* In the gateway too, with the message thread itself in place of its
\* resets, the connection thread never waits on a dead connection and
\* CLOUD_READY is never stale for good.
THEOREM GatewayConnSafe == GSpec => []ConnInv
<1>1. GInit => CInd
  BY ConnInit DEF GInit
<1>2. CInd => ConnInv
  BY DEF CInd, ConnInv
<1> QED
  BY <1>1, <1>2, GatewayConnStep, PTL DEF GSpec

\* The message queue's module with its theorems, over the event flag.
MQP == INSTANCE MessageQueueProofs WITH ready <- "CLOUD_READY" \in events

LEMMA QueueConstants == MQP!QueueAssumption
  BY GatewayAssumption DEF MQ!QueueAssumption, MQP!QueueAssumption, MQ!Messages, MQP!Messages

LEMMA GatewayQueueInit == GInit => MQP!QInit
  BY DEF GInit, CInit, MQ!QueueInit, MQP!QInit, MQP!QueueInit

\* MQ of the gateway is that module without its theorems: the same actions.
LEMMA SameActions ==
  /\ \A p : MQ!Producer(p) <=> MQP!Producer(p)
  /\ MQ!Get <=> MQP!Get
  /\ MQ!AwaitReady <=> MQP!AwaitReady
  /\ MQ!SendSucceeds <=> MQP!SendSucceeds
  /\ MQ!SendFails <=> MQP!SendFails
  /\ MQ!RetryTest <=> MQP!RetryTest
  /\ MQ!RetryPut <=> MQP!RetryPut
  /\ MQ!DisconnectCloud <=> MQP!DisconnectCloud
  /\ MQ!Disconnected <=> MQP!Disconnected
  /\ MQ!Cooldown <=> MQP!Cooldown
<1>1. ASSUME NEW p PROVE MQ!Producer(p) <=> MQP!Producer(p)
  <2>1. MQ!NotFilled(p) <=> MQP!NotFilled(p)
    BY DEF MQ!NotFilled, MQP!NotFilled,
           MQ!producing, MQP!producing
  <2>2. MQ!Submit(p) <=> MQP!Submit(p)
    BY DEF MQ!Submit, MQP!Submit,
           MQ!producing, MQP!producing
  <2>3. MQ!TestSpace(p) <=> MQP!TestSpace(p)
    BY DEF MQ!TestSpace, MQP!TestSpace,
           MQ!Full, MQP!Full,
           MQ!Reject, MQP!Reject,
           MQ!Current, MQP!Current,
           MQ!producing, MQP!producing
  <2>4. MQ!Allocate(p) <=> MQP!Allocate(p)
    BY DEF MQ!Allocate, MQP!Allocate,
           MQ!Reject, MQP!Reject,
           MQ!Current, MQP!Current,
           MQ!producing, MQP!producing
  <2>5. MQ!Put(p) <=> MQP!Put(p)
    BY DEF MQ!Put, MQP!Put,
           MQ!Full, MQP!Full,
           MQ!Reject, MQP!Reject,
           MQ!Current, MQP!Current,
           MQ!producing, MQP!producing
  <2> QED
    BY <2>1, <2>2, <2>3, <2>4, <2>5 DEF MQ!Producer, MQP!Producer
<1>2. MQ!Get <=> MQP!Get
  BY DEF MQ!Get, MQP!Get,
         MQ!consuming, MQP!consuming
<1>3. MQ!AwaitReady <=> MQP!AwaitReady
  BY DEF MQ!AwaitReady, MQP!AwaitReady,
         MQ!consuming, MQP!consuming
<1>4. MQ!SendSucceeds <=> MQP!SendSucceeds
  BY DEF MQ!SendSucceeds, MQP!SendSucceeds,
         MQ!NoteAttempt, MQP!NoteAttempt,
         MQ!consuming, MQP!consuming
<1>5. MQ!SendFails <=> MQP!SendFails
  BY DEF MQ!SendFails, MQP!SendFails,
         MQ!NoteAttempt, MQP!NoteAttempt,
         MQ!consuming, MQP!consuming
<1>6. MQ!RetryTest <=> MQP!RetryTest
  BY DEF MQ!RetryTest, MQP!RetryTest,
         MQ!Full, MQP!Full,
         MQ!Discard, MQP!Discard,
         MQ!CountFailure, MQP!CountFailure,
         MQ!consuming, MQP!consuming
<1>7. MQ!RetryPut <=> MQP!RetryPut
  BY DEF MQ!RetryPut, MQP!RetryPut,
         MQ!Full, MQP!Full,
         MQ!Discard, MQP!Discard,
         MQ!CountFailure, MQP!CountFailure,
         MQ!consuming, MQP!consuming
<1>8. MQ!DisconnectCloud <=> MQP!DisconnectCloud
  BY DEF MQ!DisconnectCloud, MQP!DisconnectCloud,
         MQ!consuming, MQP!consuming
<1>9. MQ!Disconnected <=> MQP!Disconnected
  BY DEF MQ!Disconnected, MQP!Disconnected,
         MQ!consuming, MQP!consuming
<1>10. MQ!Cooldown <=> MQP!Cooldown
  BY DEF MQ!Cooldown, MQP!Cooldown,
         MQ!consuming, MQP!consuming
<1> QED
  BY <1>1, <1>2, <1>3, <1>4, <1>5, <1>6, <1>7, <1>8, <1>9, <1>10

\* Every step of the gateway is one of the queue, or changes at most the flag.
LEMMA GatewayQueueStep ==
  [GNext]_gvars => [MQP!QNext]_(MQP!qvars)
<1> SUFFICES ASSUME [GNext]_gvars PROVE [MQP!QNext]_(MQP!qvars)
  OBVIOUS
<1>1. CASE Connection
  <2>1. UNCHANGED MQP!queueVars
    BY <1>1 DEF Connection, queueVars, MQP!queueVars
  <2>2. CASE ("CLOUD_READY" \in events)' = ("CLOUD_READY" \in events)
    BY <2>1, <2>2 DEF MQP!qvars
  <2>3. CASE ("CLOUD_READY" \in events)' = ~("CLOUD_READY" \in events)
    BY <2>1, <2>3 DEF MQP!QNext, MQP!ReadinessChanges
  <2> QED
    BY <2>2, <2>3
<1> USE SameActions DEF MQP!QNext, MQP!Consumer
<1>2. CASE QueueOnly
  BY <1>2 DEF QueueOnly
<1>3. CASE Sent
  BY <1>3 DEF Sent
<1>4. CASE NotSent
  BY <1>4 DEF NotSent
<1>5. CASE GiveUp
  BY <1>5 DEF GiveUp
<1>6. CASE GaveUp
  BY <1>6 DEF GaveUp
<1>7. CASE UNCHANGED gvars
  BY <1>7 DEF gvars, queueVars, cvars, MQP!qvars, MQP!queueVars
<1> QED
  BY <1>1, <1>2, <1>3, <1>4, <1>5, <1>6, <1>7 DEF GNext

\* The gateway implements the message queue with the connection's CLOUD_READY
\* as its flag: the assumption on the flag, that it may change at any moment,
\* covers what the connection does with it.
THEOREM GatewayImplementsQueue == GSpec => MQP!QSpec
BY GatewayQueueInit, GatewayQueueStep, PTL DEF GSpec, MQP!QSpec

\* So its messages have one owner each, are first tried in order, and the
\* queue is the bounded store that module MessageStore specifies.
THEOREM GatewayQueueSafe ==
  GSpec => []MQP!QueueInv /\ []MQP!FirstAttemptsInOrder /\ MQP!ImplementsStore
BY GatewayImplementsQueue, QueueConstants, MQP!QueueInvariant, MQP!AttemptsOrdered,
   MQP!QueueImplementsStore, PTL
=============================================================================
