--------------------------- MODULE ApplicationProofs ---------------------------
(* Proofs about Application and the shadow it composes, for every number of  *)
(* edits by the user and of faults.                                          *)
EXTENDS Application, SequenceTheorems, TLAPS

-----------------------------------------------------------------------------
(* Messages that tell what was wanted *)

\* Every message of s carries a value of w; every message from the first
\* accepted shadow on does; there is no accepted shadow.
AllIn(s, w)   == \A i \in DOMAIN s : s[i].value \in w
LaterIn(s, w) == \A i, j \in DOMAIN s : i <= j /\ s[i].kind = "accepted" => s[j].value \in w
NoAnswer(s)   == \A i \in DOMAIN s : s[i].kind # "accepted"

LEMMA FreshParts ==
  Fresh <=>
    (protocol = "MQTT" =>
       /\ session # "off" => desired \in wanted
       /\ session # "off" /\ accepted_rcvd => AllIn(down, wanted)
       /\ session # "off" => LaterIn(down, wanted)
       /\ session \in {"off", "connected"} => NoAnswer(down))
  BY DEF Fresh, AllIn, LaterIn, NoAnswer

LEMMA FreshNext ==
  (protocol' = "MQTT" =>
       /\ session' # "off" => desired' \in wanted'
       /\ session' # "off" /\ accepted_rcvd' => AllIn(down', wanted')
       /\ session' # "off" => LaterIn(down', wanted')
       /\ session' \in {"off", "connected"} => NoAnswer(down'))
  => Fresh'
  BY DEF Fresh, AllIn, LaterIn, NoAnswer

LEMMA AppendFresh ==
  ASSUME NEW s \in Seq(Message), NEW m \in Message, NEW w
  PROVE  /\ AllIn(s, w) /\ m.value \in w => AllIn(Append(s, m), w)
         /\ LaterIn(s, w) /\ m.value \in w => LaterIn(Append(s, m), w)
         /\ NoAnswer(s) /\ m.kind # "accepted" => NoAnswer(Append(s, m))
         /\ NoAnswer(s) /\ m.value \in w => LaterIn(Append(s, m), w)
<1>1. /\ Len(s) \in Nat /\ DOMAIN s = 1..Len(s)
      /\ DOMAIN Append(s, m) = 1..(Len(s) + 1)
      /\ \A i \in 1..Len(s) : Append(s, m)[i] = s[i]
      /\ Append(s, m)[Len(s) + 1] = m
  OBVIOUS
<1>2. QED
  BY <1>1 DEF AllIn, LaterIn, NoAnswer

LEMMA TailFresh ==
  ASSUME NEW s \in Seq(Message), s # <<>>, NEW w
  PROVE  /\ AllIn(s, w) => AllIn(Tail(s), w) /\ Head(s).value \in w
         /\ LaterIn(s, w) => LaterIn(Tail(s), w)
         /\ LaterIn(s, w) /\ Head(s).kind = "accepted" => AllIn(s, w)
         /\ NoAnswer(s) => NoAnswer(Tail(s)) /\ Head(s).kind # "accepted"
<1>1. /\ Len(s) \in Nat \ {0} /\ DOMAIN s = 1..Len(s) /\ Head(s) = s[1]
      /\ DOMAIN Tail(s) = 1..(Len(s) - 1)
      /\ \A i \in 1..(Len(s) - 1) : Tail(s)[i] = s[i + 1]
  OBVIOUS
<1>2. QED
  BY <1>1 DEF AllIn, LaterIn, NoAnswer

LEMMA GrowFresh ==
  ASSUME NEW s, NEW v, NEW w, v \subseteq w
  PROVE  /\ AllIn(s, v) => AllIn(s, w)
         /\ LaterIn(s, v) => LaterIn(s, w)
  BY DEF AllIn, LaterIn

LEMMA EmptyFresh == \A w : AllIn(<<>>, w) /\ LaterIn(<<>>, w) /\ NoAnswer(<<>>)
<1>1. DOMAIN <<>> = {}
  OBVIOUS
<1>2. QED
  BY <1>1 DEF AllIn, LaterIn, NoAnswer

-----------------------------------------------------------------------------
(* Types of the shadow *)

LEMMA MsgType ==
  ASSUME NEW k \in {"accepted", "delta", "reported", "desired", "info"}, NEW v \in Config
  PROVE  Msg(k, v) \in Message /\ Msg(k, v).kind = k /\ Msg(k, v).value = v
  BY DEF Msg, Message

LEMMA AppliedType ==
  ASSUME STypeOK, NEW v
  PROVE  Applied(v) \in Good /\ Applied(v) \in Config
  BY DEF STypeOK, Applied, Config

LEMMA FaultType ==
  ASSUME STypeOK, Fault
  PROVE  faults' \in 0..MaxFaults
  BY ShadowBounds DEF STypeOK, Fault

LEMMA HeadTailType ==
  ASSUME NEW s \in Seq(Message), s # <<>>
  PROVE  /\ Head(s) \in Message /\ Tail(s) \in Seq(Message)
         /\ Head(s).value \in Config
<1>1. Head(s) \in Message /\ Tail(s) \in Seq(Message)
  BY HeadTailProperties
<1>2. QED
  BY <1>1 DEF Message

LEMMA PublishedType ==
  ASSUME STypeOK, desired' \in Config
  PROVE  Published \in Seq(Message)
<1>1. Msg("delta", desired') \in Message /\ down \in Seq(Message)
  BY MsgType DEF STypeOK
<1>2. Append(down, Msg("delta", desired')) \in Seq(Message)
  BY <1>1
<1>3. QED
  BY <1>1, <1>2 DEF Published

LEMMA SendType ==
  ASSUME STypeOK, NEW m \in Message, Send(m)
  PROVE  up' \in Seq(Message) /\ unsure' \in BOOLEAN /\ faults' \in 0..MaxFaults
<1>1. CASE up' = Append(up, m) /\ UNCHANGED <<unsure, faults>>
  BY <1>1 DEF STypeOK
<1>2. CASE Fault /\ unsure' = TRUE /\ UNCHANGED up
  BY <1>2, FaultType DEF STypeOK
<1>3. QED
  BY <1>1, <1>2 DEF Send

LEMMA UserEditsType ==
  ASSUME STypeOK, NEW v \in Good \cup {"bad"}, UserEdits(v)
  PROVE  STypeOK'
<1>1. desired' = v /\ desired' \in Config /\ wanted' \subseteq Config
  BY DEF UserEdits, STypeOK, Config
<1>2. down' \in Seq(Message)
  BY <1>1, PublishedType DEF UserEdits
<1>3. edits' \in 0..MaxEdits
  BY ShadowBounds DEF UserEdits, STypeOK
<1>4. unsure' \in BOOLEAN
  BY Zenon DEF UserEdits
<1>5. UNCHANGED <<protocol, session, device, up, faults, reported>>
  BY DEF UserEdits
<1>6. QED
  BY <1>1, <1>2, <1>3, <1>4, <1>5 DEF STypeOK, device

LEMMA CloudUpdatesType ==
  ASSUME STypeOK, CloudUpdates
  PROVE  STypeOK'
<1>1. up' \in Seq(Message) /\ Head(up).value \in Config
  BY HeadTailType DEF CloudUpdates, STypeOK
<1>2. desired' \in Config /\ reported' \in Config /\ wanted' \subseteq Config
  BY <1>1 DEF CloudUpdates, STypeOK
<1>3. down' \in Seq(Message)
  BY <1>2, PublishedType DEF CloudUpdates
<1>4. QED
  BY <1>1, <1>2, <1>3 DEF CloudUpdates, STypeOK, device

\* What the handler on the library's thread takes is a message.
LEMMA HandleType ==
  ASSUME STypeOK, NEW k, Handle(k)
  PROVE  /\ down # <<>> /\ Head(down).kind = k /\ session # "off"
         /\ down' = Tail(down) /\ down' \in Seq(Message)
         /\ Head(down).value \in Config
  BY HeadTailType DEF Handle, STypeOK

LEMMA ShadowHandlerType ==
  ASSUME STypeOK, ShadowHandler
  PROVE  STypeOK'
<1>1. CASE DeltaIgnored
  BY <1>1, HandleType DEF DeltaIgnored, STypeOK, device
<1>2. CASE DeltaProcessed
  <2>1. up' \in Seq(Message) /\ unsure' \in BOOLEAN /\ faults' \in 0..MaxFaults
    BY <1>2, SendType, MsgType, AppliedType DEF DeltaProcessed, Respond
  <2>2. QED
    BY <1>2, <2>1, HandleType, AppliedType DEF DeltaProcessed, STypeOK
<1>3. CASE AcceptedProcessed
  <2>1. up' \in Seq(Message) /\ unsure' \in BOOLEAN /\ faults' \in 0..MaxFaults
    <3>1. CASE Head(down).value \in Good
      BY <1>3, <3>1 DEF AcceptedProcessed, ReportUnlessGood, STypeOK
    <3>2. CASE Head(down).value \notin Good
      BY <1>3, <3>2, SendType, MsgType, AppliedType
         DEF AcceptedProcessed, ReportUnlessGood
    <3>3. QED
      BY <3>1, <3>2
  <2>2. QED
    BY <1>3, <2>1, HandleType, AppliedType DEF AcceptedProcessed, STypeOK
<1>4. QED
  BY <1>1, <1>2, <1>3 DEF ShadowHandler

LEMMA PollThreadType ==
  ASSUME STypeOK, PollThread
  PROVE  STypeOK'
<1> USE DEF PollStep, STypeOK
<1>1. CASE AwaitReady
  BY <1>1 DEF AwaitReady
<1>2. CASE PollGet
  BY <1>2 DEF PollGet
<1>3. CASE PollGetFails
  BY <1>3, FaultType DEF PollGetFails
<1>4. CASE PollProcess
  BY <1>4, AppliedType DEF PollProcess
<1>5. CASE PollTimesOut
  <2>1. <<>> \in Seq(Message)
    OBVIOUS
  <2>2. QED
    BY <1>5, <2>1, FaultType DEF PollTimesOut, Lost, Sessions
<1>6. CASE PollProcessFails
  <2>1. test_counter_enabled' \in Good /\ faults' \in 0..MaxFaults
    BY <1>6, FaultType, AppliedType DEF PollProcessFails
  <2>2. unsure' \in BOOLEAN
    BY <1>6, Zenon DEF PollProcessFails
  <2>3. QED
    BY <1>6, <2>1, <2>2 DEF PollProcessFails
<1>7. CASE PollRespond
  <2>1. /\ desired' \in Config /\ reported' \in Config
        /\ faults' \in 0..MaxFaults
    BY <1>7, FaultType DEF PollRespond, RequestFails, Config
  <2>2. unsure' \in BOOLEAN
    BY <1>7, Zenon DEF PollRespond
  <2>3. QED
    BY <1>7, <2>1, <2>2 DEF PollRespond
<1>8. CASE PollConfig
  <2>1. /\ reported' \in Config /\ faults' \in 0..MaxFaults
    BY <1>8, FaultType DEF PollConfig, RequestFails, Config
  <2>2. config_sent' \in BOOLEAN
    BY <1>8, Zenon DEF PollConfig
  <2>3. QED
    BY <1>8, <2>1, <2>2 DEF PollConfig
<1>9. QED
  BY <1>1, <1>2, <1>3, <1>4, <1>5, <1>6, <1>7, <1>8 DEF PollThread

\* The actions that Application adds to: the cloud's answer and the end of a
\* connection.
LEMMA ConnectionType ==
  ASSUME STypeOK,
         CloudAnswers \/ LibReady \/ CloudConnected \/ Drop \/ Reboot
  PROVE  STypeOK'
<1> USE DEF STypeOK, device, cloud, Sessions
<1>0. <<>> \in Seq(Message)
  OBVIOUS
<1>1. CASE CloudAnswers
  <2>1. Msg("accepted", desired) \in Message /\ down \in Seq(Message)
    BY MsgType
  <2>2. down' \in Seq(Message)
    BY <1>1, <2>1 DEF CloudAnswers
  <2>3. QED
    BY <1>1, <2>2 DEF CloudAnswers
<1>2. CASE LibReady
  <2>1. Msg("info", "none") \in Message /\ up \in Seq(Message)
    BY MsgType DEF Config
  <2>2. up' \in Seq(Message)
    BY <1>2, <2>1 DEF LibReady
  <2>3. QED
    BY <1>2, <2>2 DEF LibReady
<1>3. CASE CloudConnected
  BY <1>3 DEF CloudConnected
<1>4. CASE Drop
  <2>1. unsure' \in BOOLEAN
    BY <1>4, Zenon DEF Drop
  <2>2. QED
    BY <1>0, <1>4, <2>1, FaultType DEF Drop, Lost
<1>5. CASE Reboot
  BY <1>0, <1>5, FaultType DEF Reboot, Lost, Good, Config
<1>6. QED
  BY <1>1, <1>2, <1>3, <1>4, <1>5

-----------------------------------------------------------------------------
(* Freshness *)

\* An edit and an update publish a delta that tells what is wanted now.
LEMMA PublishFresh ==
  ASSUME STypeOK, STypeOK', Fresh, protocol' = protocol, session' = session,
         accepted_rcvd' = accepted_rcvd, wanted' = wanted \cup {desired'},
         down' = Published
  PROVE  Fresh'
<1> SUFFICES ASSUME protocol = "MQTT" PROVE Fresh'
  BY FreshParts DEF Fresh
<1>1. wanted \subseteq wanted' /\ desired' \in wanted'
  OBVIOUS
<1>2. /\ session # "off" /\ accepted_rcvd => AllIn(down, wanted')
      /\ session # "off" => LaterIn(down, wanted')
      /\ session \in {"off", "connected"} => NoAnswer(down)
  BY <1>1, FreshParts, GrowFresh
<1>3. CASE down' = down
  BY <1>1, <1>2, <1>3, FreshNext
<1>4. CASE down' = Append(down, Msg("delta", desired'))
  <2>1. /\ Msg("delta", desired') \in Message /\ down \in Seq(Message)
        /\ Msg("delta", desired').kind = "delta"
        /\ Msg("delta", desired').value = desired'
    BY MsgType DEF STypeOK
  <2>2. /\ session # "off" /\ accepted_rcvd => AllIn(down', wanted')
        /\ session # "off" => LaterIn(down', wanted')
        /\ session \in {"off", "connected"} => NoAnswer(down')
    BY <1>1, <1>2, <1>4, <2>1, AppendFresh
  <2>3. QED
    BY <1>1, <2>2, FreshNext
<1>5. QED
  BY <1>3, <1>4 DEF Published

LEMMA AnswerFresh ==
  ASSUME STypeOK, Fresh, CloudAnswers
  PROVE  Fresh'
<1>1. /\ Msg("accepted", desired) \in Message /\ down \in Seq(Message)
      /\ Msg("accepted", desired).value = desired
  BY MsgType DEF STypeOK
<1>2. /\ session = "connected" /\ session' = "asked"
      /\ down' = Append(down, Msg("accepted", desired))
      /\ UNCHANGED <<protocol, accepted_rcvd, desired, wanted>>
  BY DEF CloudAnswers, device
<1>3. QED
  BY <1>1, <1>2, FreshParts, FreshNext, AppendFresh

\* The handler takes the first message; the accepted shadow makes all that
\* follow it fresh.
LEMMA HandlerFresh ==
  ASSUME STypeOK, Fresh, ShadowHandler
  PROVE  Fresh'
<1>1. /\ down # <<>> /\ down \in Seq(Message) /\ down' = Tail(down) /\ session # "off"
      /\ UNCHANGED <<protocol, session, desired, wanted>>
      /\ accepted_rcvd' => accepted_rcvd \/ Head(down).kind = "accepted"
  BY DEF ShadowHandler, DeltaIgnored, DeltaProcessed, AcceptedProcessed, Handle,
         device, STypeOK
<1> SUFFICES ASSUME protocol = "MQTT" PROVE Fresh'
  BY <1>1, FreshNext
<1>2. /\ desired \in wanted /\ LaterIn(down, wanted)
      /\ accepted_rcvd' => AllIn(down, wanted)
      /\ session \in {"off", "connected"} => NoAnswer(down)
  BY <1>1, FreshParts, TailFresh
<1>3. QED
  BY <1>1, <1>2, FreshNext, TailFresh

\* A connection that ended left nothing on its way; a new one waits for its
\* own accepted shadow.
LEMMA ConnectionFresh ==
  ASSUME STypeOK, Fresh,
         LibReady \/ CloudConnected \/ (Lost /\ protocol' = protocol)
  PROVE  Fresh'
<1>1. CASE LibReady
  BY <1>1, FreshParts, FreshNext DEF LibReady, device
<1>2. CASE CloudConnected
  <2>1. NoAnswer(down) /\ down' = down => LaterIn(down', wanted')
    BY DEF NoAnswer, LaterIn
  <2>2. QED
    BY <1>2, <2>1, FreshParts, FreshNext DEF CloudConnected, cloud
<1>3. CASE Lost /\ protocol' = protocol
  BY <1>3, EmptyFresh, FreshNext DEF Lost
<1>4. QED
  BY <1>1, <1>2, <1>3

LEMMA ShadowInv ==
  ASSUME STypeOK, Fresh, ShadowNext
  PROVE  STypeOK' /\ Fresh'
<1>1. CASE \E v \in Good \cup {"bad"} : UserEdits(v)
  <2>1. PICK v \in Good \cup {"bad"} : UserEdits(v)
    BY <1>1
  <2>2. STypeOK'
    BY <2>1, UserEditsType
  <2>3. QED
    BY <2>1, <2>2, PublishFresh DEF UserEdits, device
<1>2. CASE CloudUpdates
  BY <1>2, CloudUpdatesType, PublishFresh DEF CloudUpdates, device
<1>3. CASE LibReady \/ CloudConnected
  BY <1>3, ConnectionType, ConnectionFresh
<1>4. CASE ShadowHandler
  BY <1>4, ShadowHandlerType, HandlerFresh
<1>5. CASE PollThread
  <2>1. protocol = "COAP" /\ protocol' = protocol
    BY <1>5 DEF PollThread, AwaitReady, PollGet, PollGetFails, PollTimesOut,
                PollProcess, PollProcessFails, PollRespond, PollConfig, PollStep
  <2>2. QED
    BY <1>5, <2>1, PollThreadType, FreshNext
<1>6. QED
  BY <1>1, <1>2, <1>3, <1>4, <1>5 DEF ShadowNext

-----------------------------------------------------------------------------
(* The application *)

LEMMA MainThreadInv ==
  ASSUME AppInv, MainThread
  PROVE  AppInv'
<1>1. /\ STypeOK /\ Fresh /\ app \in Places /\ tracking \in BOOLEAN
  BY DEF AppInv
<1>2. UNCHANGED <<protocol, session, device, cloud, unsure, wanted, edits,
                  device_deleted, account>>
  BY DEF MainThread, FirstReady, AwaitTime, Track, Sample, Count, Sync, Pause,
         Resume, Go
<1>3. faults' \in 0..MaxFaults
  BY <1>1, FaultType DEF MainThread, FirstReady, AwaitTime, Track, Sample, Count,
     Sync, Pause, Resume, STypeOK
<1>4. STypeOK' /\ Fresh'
  BY <1>1, <1>2, <1>3 DEF STypeOK, Fresh, device, cloud
<1>5. app' \in Places /\ tracking' \in BOOLEAN
  <2>1. CASE Pause
    BY <2>1, <1>1 DEF Pause, Go, Places
  <2>2. CASE Track
    BY <2>2, <1>1 DEF Track, Go, Places
  <2>3. CASE FirstReady \/ AwaitTime \/ Sample \/ Count \/ Sync \/ Resume
    BY <2>3, <1>1 DEF FirstReady, AwaitTime, Sample, Count, Sync, Resume, Go, Places
  <2>4. QED
    BY <2>1, <2>2, <2>3 DEF MainThread
<1>6. QED
  BY <1>2, <1>4, <1>5 DEF AppInv

\* The shadow moves with the account at rest: no connection of a deleted device
\* becomes ready by itself, for CoAP learns nothing of a deletion.
LEMMA ShadowStepInv ==
  ASSUME AppInv, ShadowNext, UNCHANGED avars
  PROVE  AppInv'
<1>1. STypeOK' /\ Fresh'
  BY ShadowInv DEF AppInv
<1>2. /\ protocol' = protocol
      /\ session' \in {"asked", "ready"} => session \in {"asked", "ready"} \/ protocol = "COAP"
  BY DEF ShadowNext, UserEdits, CloudUpdates, LibReady, CloudConnected,
         ShadowHandler, DeltaIgnored, DeltaProcessed, AcceptedProcessed,
         PollThread, AwaitReady, PollGet, PollGetFails, PollTimesOut, Lost,
         PollProcess, PollProcessFails, PollRespond, PollConfig, PollStep, AppInv, STypeOK
<1>3. QED
  BY <1>1, <1>2 DEF AppInv, avars

\* The end of a connection, with what it does to the account.
LEMMA GoneInv ==
  ASSUME AppInv, STypeOK', Lost, protocol' = protocol, Gone,
         app' \in Places, tracking' \in BOOLEAN, device_deleted' \in BOOLEAN,
         device_deleted' => device_deleted
  PROVE  AppInv'
<1>1. Fresh'
  BY ConnectionFresh DEF AppInv
<1>2. session' = "off" /\ account' \in {"associated", "expelling", "none"}
  BY DEF Lost, Gone, AppInv
<1>3. QED
  BY <1>1, <1>2 DEF AppInv

LEMMA AccountInv ==
  ASSUME AppInv, UserDeletes \/ UserAdds \/ Answers \/ Expelled
  PROVE  AppInv'
<1>1. /\ STypeOK /\ Fresh
  BY DEF AppInv
<1>2. CASE UserDeletes
  <2>1. /\ protocol = "MQTT" /\ faults' \in 0..MaxFaults
        /\ account' = IF session = "off" THEN "none" ELSE "expelling"
        /\ UNCHANGED <<protocol, session, device, cloud, unsure, wanted, edits, app,
                       tracking>>
    BY <1>1, <1>2, FaultType DEF UserDeletes
  <2>2. STypeOK' /\ Fresh'
    BY <1>1, <2>1 DEF STypeOK, Fresh, device, cloud
  <2>3. device_deleted' \in BOOLEAN
    BY <1>2, Zenon DEF UserDeletes
  <2>4. QED
    BY <2>1, <2>2, <2>3 DEF AppInv
<1>3. CASE UserAdds
  <2>1. STypeOK' /\ Fresh'
    BY <1>1, <1>3 DEF UserAdds, svars, STypeOK, Fresh, device, cloud
  <2>2. QED
    BY <1>3, <2>1 DEF UserAdds, svars, AppInv
<1>4. CASE Answers
  <2>1. STypeOK' /\ Fresh'
    BY <1>1, <1>4, ConnectionType, AnswerFresh DEF Answers
  <2>2. QED
    BY <1>4, <2>1 DEF Answers, CloudAnswers, AppInv
<1>5. CASE Expelled
  <2>1. STypeOK'
    <3>1. <<>> \in Seq(Message)
      OBVIOUS
    <3>2. QED
      BY <1>1, <1>5, <3>1 DEF Expelled, Lost, STypeOK, device, Sessions
  <2>2. QED
    BY <1>5, <2>1, GoneInv DEF Expelled, AppInv
<1>6. QED
  BY <1>2, <1>3, <1>4, <1>5

LEMMA FaultInv ==
  ASSUME AppInv, Dropped \/ Restart
  PROVE  AppInv'
<1>1. STypeOK'
  BY ConnectionType DEF AppInv, Dropped, Restart
<1>2. CASE Dropped
  BY <1>1, <1>2, GoneInv DEF Dropped, Drop, AppInv
<1>3. CASE Restart
  BY <1>1, <1>3, GoneInv DEF Restart, Reboot, AppInv, Places
<1>4. QED
  BY <1>2, <1>3

LEMMA InitApp == Init => AppInv
<1> SUFFICES ASSUME Init PROVE AppInv
  OBVIOUS
<1>1. <<>> \in Seq(Message) /\ DOMAIN <<>> = {}
  OBVIOUS
<1>2. STypeOK
  <2>1. /\ got \in Config /\ desired \in Config /\ reported \in Config
        /\ wanted \subseteq Config /\ edits \in 0..MaxEdits /\ faults \in 0..MaxFaults
    BY ShadowBounds DEF Init, SInit, Good, Config
  <2>2. accepted_rcvd \in BOOLEAN /\ config_sent \in BOOLEAN /\ unsure \in BOOLEAN
    BY Zenon DEF Init, SInit
  <2>3. QED
    BY <1>1, <2>1, <2>2 DEF Init, SInit, STypeOK, Sessions, Good
<1>3. Fresh
  BY <1>1 DEF Init, SInit, Fresh
<1>4. QED
  BY <1>2, <1>3 DEF Init, SInit, AppInv, Places

LEMMA StepApp == AppInv /\ [Next]_vars => AppInv'
<1> SUFFICES ASSUME AppInv, [Next]_vars PROVE AppInv'
  OBVIOUS
<1>1. CASE UNCHANGED vars
  BY <1>1 DEF vars, svars, avars, device, cloud, AppInv, STypeOK, Fresh
<1>2. CASE Next
  BY <1>2, MainThreadInv, ShadowStepInv, AccountInv, FaultInv DEF Next
<1>3. QED
  BY <1>1, <1>2

\* A ready connection is never one of a device that was told of its deletion,
\* and the shadow's messages are fresh once accepted.
THEOREM AppSafe == FairSpec => []AppInv
  BY InitApp, StepApp, PTL DEF FairSpec

-----------------------------------------------------------------------------
(* No stale configuration *)

\* What a step of the MQTT build takes over was wanted in this session.
LEMMA AppliesFresh ==
  ASSUME AppInv, [Next]_vars, protocol = "MQTT", session' # "off",
         test_counter_enabled' # test_counter_enabled
  PROVE  test_counter_enabled' \in wanted
<1>1. STypeOK /\ Fresh
  BY DEF AppInv
<1>2. DeltaProcessed \/ AcceptedProcessed
  BY DEF Next, vars, svars, device, MainThread, FirstReady, AwaitTime, Track,
     Sample, Count, Sync, Pause, Resume, Go, ShadowNext, UserEdits, CloudUpdates,
     LibReady, CloudConnected, ShadowHandler, DeltaIgnored, PollThread, AwaitReady,
     PollGet, PollGetFails, PollTimesOut, PollProcess, PollProcessFails, PollRespond,
     PollConfig, PollStep, UserDeletes, UserAdds, Answers, CloudAnswers, Expelled,
     Dropped, Drop, Lost, Restart, Reboot
<1>3. /\ down # <<>> /\ down \in Seq(Message) /\ session # "off"
      /\ accepted_rcvd \/ Head(down).kind = "accepted"
      /\ test_counter_enabled' = Applied(Head(down).value)
  BY <1>1, <1>2, HandleType DEF DeltaProcessed, AcceptedProcessed, STypeOK
<1>4. Head(down).value \in wanted
  BY <1>1, <1>3, FreshParts, TailFresh
<1>5. QED
  BY <1>3, <1>4 DEF Applied

\* A delta or an accepted shadow from before the connection is never applied,
\* whatever the user edits and whenever connections drop.
THEOREM NeverStale == FairSpec => NoStaleConfig
<1>1. AppInv /\ [Next]_vars =>
        [protocol = "MQTT" /\ test_counter_enabled' # test_counter_enabled
           /\ session' # "off"
             => test_counter_enabled' \in wanted]_svars
  BY AppliesFresh
<1>2. QED
  BY <1>1, AppSafe, PTL DEF FairSpec, NoStaleConfig
=============================================================================
