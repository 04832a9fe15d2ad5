-------------------------- MODULE ProvisioningLedProofs --------------------------
(***************************************************************************)
(* Two parts of the gateway that share no state.  The network flags of     *)
(* prov_events follow the network, for every number of losses and reboots  *)
(* and wherever modem_mode_cb() is in its contexts; and the LED thread     *)
(* blocks only with the LEDs dark, for every number of frames and of       *)
(* requests and wherever a call of start_led_pattern() is interrupted.     *)
(***************************************************************************)
EXTENDS Provisioning, LedControl, TLAPS

-----------------------------------------------------------------------------
(* provisioning_support.c *)

\* What an event says when it is posted.
Status(up) == IF up THEN "CONNECTED" ELSE "DISCONNECTED"

Event == {"CONNECTED", "DISCONNECTED"}

\* The latest event, delivered or not, says what the network is.
LatestIsTrue ==
  /\ events # <<>> => events[Len(events)] = Status(link)
  /\ events = <<>> /\ handler # "none" => handler = Status(link)

\* Before provisioning_started the network has at most come up: nothing was
\* reported, and the first event to be delivered is CONNECTED.
NothingBeforeStart ==
  ~provisioning_started =>
    /\ handler = "none" /\ events = <<>> => ~link
    /\ handler = "none" /\ events # <<>> => Head(events) = "CONNECTED"
    /\ handler = "none" => "NETWORK_UP" \notin flags /\ "NETWORK_DOWN" \notin flags
    /\ handler # "none" => handler = "CONNECTED"

\* Between the two steps of the handler the flag it will not post is clear;
\* at other times exactly one of the two is set.
OneFlag ==
  /\ ~("NETWORK_UP" \in flags /\ "NETWORK_DOWN" \in flags)
  /\ handler # "none" => Opposite(handler) \notin flags
  /\ handler = "none" /\ provisioning_started
       => "NETWORK_UP" \in flags \/ "NETWORK_DOWN" \in flags

\* With nothing left to deliver they are what the network is.
FlagsAreTrue ==
  handler = "none" /\ events = <<>> /\ provisioning_started
    => IF link THEN "NETWORK_UP" \in flags ELSE "NETWORK_DOWN" \in flags

Follows == LatestIsTrue /\ NothingBeforeStart /\ OneFlag /\ FlagsAreTrue

ProvInd == PTypeOK /\ Follows

\* A boot starts with nothing reported and the network down.
LEMMA BootFollows == Boot => Follows
BY DEF Boot, Follows, LatestIsTrue, NothingBeforeStart, OneFlag, FlagsAreTrue

\* So does PInit, which is the first boot.
LEMMA ProvInit == PInit => ProvInd
<1> SUFFICES ASSUME PInit PROVE PTypeOK
  BY BootFollows DEF PInit, ProvInd
<1> USE ProvisioningAssumption DEF PInit, Boot
<1>1. flags \in SUBSET Flags /\ delay \in SUBSET {"scheduled", "due"}
  OBVIOUS
<1>2. at \in [Workers -> Places]
  BY DEF Workers, Places
<1>3. events \in Seq(Event) /\ handler \in {"none"} \cup Event
  BY DEF Event
<1>4. drops \in 0..MaxDrops /\ reboots \in 0..MaxReboots
  BY DEF ProvisioningAssumption
<1>5. {provisioning_started, queued, link, wanted} \subseteq BOOLEAN
  OBVIOUS
<1> QED
  BY <1>1, <1>2, <1>3, <1>4, <1>5 DEF PTypeOK, Event

\* Steps that leave the network, its events, the handler and the two network
\* flags alone: both mode switches, the work queue and the timer.
Elsewhere ==
  /\ UNCHANGED <<handler, events, provisioning_started, link, drops>>
  /\ "NETWORK_UP" \in flags' <=> "NETWORK_UP" \in flags
  /\ "NETWORK_DOWN" \in flags' <=> "NETWORK_DOWN" \in flags

\* They keep what the flags say.
LEMMA ElsewhereFollows == Follows /\ Elsewhere => Follows'
<1> SUFFICES ASSUME Follows, Elsewhere PROVE Follows'
  OBVIOUS
<1>1. LatestIsTrue'
  BY DEF Follows, Elsewhere, LatestIsTrue
<1>2. NothingBeforeStart'
  BY DEF Follows, Elsewhere, NothingBeforeStart
<1>3. OneFlag'
  BY DEF Follows, Elsewhere, OneFlag, Opposite
<1>4. FlagsAreTrue'
  BY DEF Follows, Elsewhere, FlagsAreTrue
<1> QED
  BY <1>1, <1>2, <1>3, <1>4 DEF Follows

\* LinkUp, LinkLost and GoOffline: the network changes and an event says so.
LEMMA PostedFollows ==
  ASSUME PTypeOK, Follows,
         NEW e \in Event,
         events' = Append(events, e), e = Status(link'),
         e = "CONNECTED" \/ link,
         UNCHANGED <<flags, handler, provisioning_started>>
  PROVE  Follows' /\ events' \in Seq(Event)
<1>1. events \in Seq(Event)
  BY DEF PTypeOK, Event
<1>2. /\ events' \in Seq(Event) /\ events' # <<>>
      /\ events'[Len(events')] = e
      /\ Head(events') = IF events = <<>> THEN e ELSE Head(events)
  BY <1>1
<1>3. LatestIsTrue'
  BY <1>2 DEF LatestIsTrue
<1>4. NothingBeforeStart'
  BY <1>2 DEF Follows, NothingBeforeStart
<1>5. OneFlag'
  BY DEF Follows, OneFlag
<1>6. FlagsAreTrue'
  BY <1>2 DEF FlagsAreTrue
<1> QED
  BY <1>2, <1>3, <1>4, <1>5, <1>6 DEF Follows

\* The network comes up or is lost.
LEMMA LinkStep == ProvInd /\ (LinkUp \/ LinkLost) => ProvInd'
<1> SUFFICES ASSUME ProvInd, LinkUp \/ LinkLost PROVE ProvInd'
  OBVIOUS
<1> USE ProvisioningAssumption
<1>1. CASE LinkUp
  <2>1. Follows' /\ events' \in Seq(Event)
    BY <1>1, PostedFollows DEF ProvInd, LinkUp, notices, Status, Event
  <2> QED
    BY <1>1, <2>1 DEF ProvInd, PTypeOK, LinkUp, notices, Event
<1>2. CASE LinkLost
  <2>1. Follows' /\ events' \in Seq(Event)
    BY <1>2, PostedFollows DEF ProvInd, LinkLost, notices, Status, Event
  <2>2. drops' \in 0..MaxDrops
    BY <1>2 DEF ProvInd, PTypeOK, LinkLost, ProvisioningAssumption
  <2> QED
    BY <1>2, <2>1, <2>2 DEF ProvInd, PTypeOK, LinkLost, notices, Event
<1> QED
  BY <1>1, <1>2

\* l4_event_handler(): it takes the next event and clears the other flag ...
LEMMA HandlerStartsStep == ProvInd /\ HandlerStarts => ProvInd'
<1> SUFFICES ASSUME ProvInd, HandlerStarts PROVE ProvInd'
  OBVIOUS
<1> DEFINE e == Head(events)
<1>1. events \in Seq(Event) /\ events # <<>>
  BY DEF ProvInd, PTypeOK, HandlerStarts, Event
<1>2. /\ e \in Event /\ Tail(events) \in Seq(Event)
      /\ Tail(events) = <<>> => events[Len(events)] = e
      /\ Tail(events) # <<>> => Tail(events)[Len(Tail(events))] = events[Len(events)]
  <2>1. Len(events) \in Nat \ {0} /\ e = events[1] /\ e \in Event
    BY <1>1
  <2>2. /\ Tail(events) \in Seq(Event)
        /\ Len(Tail(events)) = Len(events) - 1
        /\ \A i \in 1..Len(Tail(events)) : Tail(events)[i] = events[i + 1]
    BY <1>1
  <2>3. Tail(events) = <<>> => Len(events) = 1
    <3>1. Len(<<>>) = 0
      OBVIOUS
    <3>2. Tail(events) = <<>> => Len(Tail(events)) = 0
      BY <3>1, Zenon
    <3> QED
      BY <3>2, <2>1, <2>2
  <2>4. Tail(events) # <<>> => Len(Tail(events)) \in 1..Len(Tail(events))
    BY <2>2
  <2> QED
    BY <2>1, <2>2, <2>3, <2>4
<1>3. /\ handler = "none" /\ handler' = e /\ events' = Tail(events)
      /\ flags' = flags \ {Opposite(e)}
      /\ UNCHANGED <<provisioning_started, queued, at, delay, link, wanted, drops, reboots>>
  BY DEF HandlerStarts
<1> HIDE DEF e
<1>4. e # "none" /\ handler' # "none"
  BY <1>2, <1>3 DEF Event
<1>5. PTypeOK'
  BY <1>2, <1>3 DEF ProvInd, PTypeOK, Event
<1>6. LatestIsTrue'
  BY <1>1, <1>2, <1>3, <1>4 DEF ProvInd, Follows, LatestIsTrue
<1>7. NothingBeforeStart'
  <2>1. ~provisioning_started => e = "CONNECTED"
    BY <1>1, <1>3 DEF ProvInd, Follows, NothingBeforeStart, e
  <2> QED
    BY <1>3, <1>4, <2>1 DEF NothingBeforeStart
<1>8. OneFlag'
  BY <1>3, <1>4 DEF ProvInd, Follows, OneFlag
<1>9. FlagsAreTrue'
  BY <1>4 DEF FlagsAreTrue
<1> QED
  BY <1>5, <1>6, <1>7, <1>8, <1>9 DEF ProvInd, Follows

\* ... and posts the one that the event reports.
LEMMA HandlerPostsStep == ProvInd /\ HandlerPosts => ProvInd'
<1> SUFFICES ASSUME ProvInd, HandlerPosts PROVE ProvInd'
  OBVIOUS
<1>1. /\ handler \in Event /\ handler # "none" /\ handler' = "none"
      /\ flags' = flags \cup {Reported(handler)}
      /\ UNCHANGED <<at, delay, link, wanted, events, drops, reboots>>
  BY DEF ProvInd, PTypeOK, HandlerPosts, network, Event
<1>2. provisioning_started' /\ provisioning_started' \in BOOLEAN /\ queued' \in BOOLEAN
  BY DEF ProvInd, PTypeOK, Follows, NothingBeforeStart, HandlerPosts
<1>3. PTypeOK'
  BY <1>1, <1>2 DEF ProvInd, PTypeOK, Reported, Flags
<1>4. LatestIsTrue'
  BY <1>1 DEF ProvInd, Follows, LatestIsTrue
<1>5. NothingBeforeStart'
  BY <1>2 DEF NothingBeforeStart
<1>6. OneFlag'
  BY <1>1 DEF ProvInd, Follows, OneFlag, Opposite, Reported, Event
<1>7. FlagsAreTrue'
  BY <1>1 DEF ProvInd, Follows, LatestIsTrue, FlagsAreTrue, Reported, Status
<1> QED
  BY <1>3, <1>4, <1>5, <1>6, <1>7 DEF ProvInd, Follows

\* modem_mode_cb(), on the work queue or the library's thread.
LEMMA ModeStep ==
  ASSUME NEW w \in Workers
  PROVE  ProvInd /\ ModeSwitch(w) => ProvInd'
<1> SUFFICES ASSUME ProvInd, ModeSwitch(w) PROVE ProvInd'
  OBVIOUS
<1>1. CASE GoOffline(w)
  <2>1. CASE link
    <3>1. Follows' /\ events' \in Seq(Event)
      BY <1>1, <2>1, PostedFollows DEF ProvInd, GoOffline, notices, Status, Event
    <3> QED
      BY <1>1, <3>1 DEF ProvInd, PTypeOK, GoOffline, notices, Event, Places
  <2>2. CASE ~link
    <3>1. Elsewhere
      BY <1>1, <2>2 DEF ProvInd, PTypeOK, GoOffline, notices, Elsewhere
    <3>2. PTypeOK'
      BY <1>1, <2>2 DEF ProvInd, PTypeOK, GoOffline, notices, Places
    <3> QED
      BY <3>1, <3>2, ElsewhereFollows DEF ProvInd
  <2> QED
    BY <2>1, <2>2
<1>2. CASE IsOffline(w) \/ GoOnline(w) \/ IsOnline(w) \/ NoSwitch(w)
  <2>1. Elsewhere
    BY <1>2 DEF IsOffline, GoOnline, IsOnline, NoSwitch, notices, network, Elsewhere
  <2>2. PTypeOK'
    BY <1>2 DEF ProvInd, PTypeOK, IsOffline, GoOnline, IsOnline, NoSwitch, notices,
                network, Places
  <2> QED
    BY <2>1, <2>2, ElsewhereFollows DEF ProvInd
<1> QED
  BY <1>1, <1>2 DEF ModeSwitch

\* The work queue, the timer and device_mode_cb() on the library's thread.
LEMMA QueueStep ==
  ProvInd /\ (InitStarts \/ InitReturns \/ DelayEnds \/ MarkIdle \/ OnStart \/ OnStop) => ProvInd'
<1> SUFFICES ASSUME ProvInd,
                    InitStarts \/ InitReturns \/ DelayEnds \/ MarkIdle \/ OnStart \/ OnStop
             PROVE  ProvInd'
  OBVIOUS
<1>1. Elsewhere
  BY DEF InitStarts, InitReturns, DelayEnds, MarkIdle, OnStart, OnStop, notices,
         network, Elsewhere
<1>2. PTypeOK'
  <2>1. CASE InitStarts
    BY <2>1 DEF ProvInd, PTypeOK, InitStarts, network, Places, Workers
  <2>2. CASE InitReturns
    BY <2>2 DEF ProvInd, PTypeOK, InitReturns, notices, network, Places, Workers
  <2>3. CASE DelayEnds
    BY <2>3 DEF ProvInd, PTypeOK, DelayEnds, notices, network
  <2>4. CASE MarkIdle
    BY <2>4 DEF ProvInd, PTypeOK, MarkIdle, notices, network, Flags
  <2>5. CASE OnStart
    BY <2>5 DEF ProvInd, PTypeOK, OnStart, notices, network, Places, Workers
  <2>6. CASE OnStop
    BY <2>6 DEF ProvInd, PTypeOK, OnStop, notices, network, Places, Workers
  <2> QED
    BY <2>1, <2>2, <2>3, <2>4, <2>5, <2>6
<1> QED
  BY <1>1, <1>2, ElsewhereFollows DEF ProvInd

\* sample_reboot_normal(): what follows is a boot.
LEMMA RebootStep == ProvInd /\ OnDone => ProvInd'
<1> SUFFICES ASSUME ProvInd, OnDone PROVE ProvInd'
  OBVIOUS
<1> USE ProvisioningAssumption
<1>1. Follows'
  BY DEF OnDone, Follows, LatestIsTrue, NothingBeforeStart, OneFlag, FlagsAreTrue
<1>2. at' \in [Workers -> Places] /\ reboots' \in 0..MaxReboots
  BY DEF ProvInd, PTypeOK, OnDone, Workers, Places, ProvisioningAssumption
<1>3. PTypeOK'
  <2>1. events' \in Seq(Event) /\ handler' \in {"none"} \cup Event
    BY DEF OnDone
  <2>2. /\ flags' \in SUBSET Flags /\ delay' \in SUBSET {"scheduled", "due"}
        /\ drops' \in 0..MaxDrops
    BY DEF ProvInd, PTypeOK, OnDone
  <2>3. {provisioning_started', queued', link', wanted'} \subseteq BOOLEAN
    BY DEF OnDone
  <2> QED
    BY <1>2, <2>1, <2>2, <2>3 DEF PTypeOK, Event
<1> QED
  BY <1>1, <1>3 DEF ProvInd

\* provisioning_support.c: the flags that modem_mode_cb() decides by are the
\* network's last delivered word, and never both set.
THEOREM ProvSafe == PSpec => []ProvInv
<1>1. PInit => ProvInd
  BY ProvInit
<1>2. ProvInd /\ [PNext]_pvars => ProvInd'
  <2>1. ProvInd /\ UNCHANGED pvars => ProvInd'
    BY DEF ProvInd, PTypeOK, Follows, LatestIsTrue, NothingBeforeStart, OneFlag,
           FlagsAreTrue, pvars
  <2>2. "init" \in Workers /\ "thread" \in Workers
    BY DEF Workers
  <2> QED
    BY <2>1, <2>2, LinkStep, HandlerStartsStep, HandlerPostsStep, ModeStep, QueueStep,
       RebootStep DEF PNext, Handler, WorkQueue, Thread
<1>3. ProvInd => ProvInv
  <2> SUFFICES ASSUME ProvInd PROVE FlagsFollowNetwork
    BY DEF ProvInd, ProvInv
  <2>1. ~{"NETWORK_UP", "NETWORK_DOWN"} \subseteq flags
    BY DEF ProvInd, Follows, OneFlag
  <2>2. ASSUME handler = "none", events = <<>>, provisioning_started
        PROVE  (link <=> "NETWORK_UP" \in flags) /\ (~link <=> "NETWORK_DOWN" \in flags)
    BY <2>2 DEF ProvInd, Follows, OneFlag, FlagsAreTrue
  <2> QED
    BY <2>1, <2>2 DEF FlagsFollowNetwork
<1> QED
  BY <1>1, <1>2, <1>3, PTL DEF PSpec

-----------------------------------------------------------------------------
(* led_control.c *)

\* Before the first request nothing is posted, and the LED thread has not
\* begun to wait.
LEMMA LedInitInv == LedInit => LedInv
<1> SUFFICES ASSUME LedInit PROVE LedInv
  OBVIOUS
<1>1. LedTypeOK
  <2>1. Nothing \in Calls
    BY DEF Nothing, Calls, Patterns
  <2>2. Forever \in Lengths /\ 0 \in 0..MaxRequests /\ "DISABLED" \in Patterns
    BY LedAssumption DEF Lengths, Patterns
  <2>3. step \in [Callers -> {"out", "pattern", "frames", "post"}] /\ want \in [Callers -> Calls]
    BY <2>1 DEF LedInit
  <2> QED
    BY <2>1, <2>2, <2>3 DEF LedInit, LedTypeOK
<1>2. DarkWhenBlocked
  BY DEF LedInit, DarkWhenBlocked
<1> QED
  BY <1>1, <1>2 DEF LedInv

\* A call that is begun asks for a pattern and a length.
LEMMA BeginTypes ==
  ASSUME LedTypeOK, NEW c \in Callers, NEW call \in Calls, Begin(c, call)
  PROVE  step' \in [Callers -> {"out", "pattern", "frames", "post"}] /\ want' \in [Callers -> Calls]
BY DEF LedTypeOK, Begin

\* So do the requests the other threads make.
LEMMA RequestsAreCalls == Requests \subseteq Calls
<1>1. Forever \in {Forever, Frames} /\ Frames \in {Forever, Frames}
  OBVIOUS
<1> QED
  BY <1>1 DEF Requests, Waiting, Failure, Calls, Patterns

\* The stores of a call, and the event that ends it.  The LED thread, which
\* may be the caller, goes to wait with its own event posted.
LEMMA StoreStep == ASSUME LedInv, NEW c \in Callers, Store(c) PROVE LedInv'
<1> USE DEF LedInv
<1>1. want[c] \in {Forever, Frames} \X Patterns
  BY DEF LedTypeOK, Calls
<1>2. CASE StorePattern(c)
  <2>1. want[c][2] \in Patterns /\ overLong' \in BOOLEAN
    BY <1>1, <1>2 DEF StorePattern, LedTypeOK, AnimatingLong
  <2>2. LedTypeOK'
    BY <1>2, <2>1 DEF StorePattern, LedTypeOK, led, Callers
  <2>3. DarkWhenBlocked'
    BY <1>2 DEF StorePattern, DarkWhenBlocked, led
  <2> QED
    BY <2>2, <2>3
<1>3. CASE StoreFrames(c)
  <2>1. want[c][1] \in Lengths
    BY <1>1, LedAssumption DEF Lengths
  <2>2. LedTypeOK'
    BY <1>3, <2>1 DEF StoreFrames, LedTypeOK, led, Callers
  <2>3. DarkWhenBlocked'
    BY <1>3 DEF StoreFrames, DarkWhenBlocked, led
  <2> QED
    BY <2>2, <2>3
<1>4. CASE Post(c)
  <2>1. LedTypeOK'
    BY <1>4 DEF Post, LedTypeOK, Callers
  <2>2. DarkWhenBlocked'
    BY <1>4 DEF Post, DarkWhenBlocked
  <2> QED
    BY <2>1, <2>2
<1> QED
  BY <1>2, <1>3, <1>4 DEF Store

\* The animation.  Only Clear takes an event back, and then the thread is on
\* its way to the place that either turns the LEDs off or asks for a pattern.
LEMMA AnimationStep ==
  ASSUME LedInv, Start \/ Wait \/ GetPattern \/ DecFrames \/ Animate \/ Clear \/ GoDark
  PROVE  LedInv'
<1> USE DEF LedInv, Go, Frame, others, request
<1>1. CASE Start \/ Wait \/ GetPattern \/ Animate \/ Clear \/ GoDark
  <2>1. LedTypeOK'
    <3>1. CASE Start \/ Wait \/ GetPattern
      BY <3>1 DEF LedTypeOK, Start, Wait, GetPattern
    <3>2. CASE Animate
      BY <3>2 DEF LedTypeOK, Animate
    <3>3. CASE Clear \/ GoDark
      BY <3>3 DEF LedTypeOK, Clear, GoDark, Patterns
    <3> QED
      BY <1>1, <3>1, <3>2, <3>3
  <2>2. DarkWhenBlocked'
    BY <1>1 DEF DarkWhenBlocked, Start, Wait, GetPattern, Animate, Clear, GoDark
  <2> QED
    BY <2>1, <2>2
<1>2. CASE DecFrames
  \* Below zero every count is the same one.
  <2>1. frames_remaining' \in Lengths
    BY <1>2, LedAssumption DEF DecFrames, LedTypeOK, Lengths, Forever
  <2>2. LedTypeOK' /\ DarkWhenBlocked'
    BY <1>2, <2>1 DEF DecFrames, LedTypeOK, DarkWhenBlocked
  <2> QED
    BY <2>2
<1> QED
  BY <1>1, <1>2

\* The requests, the thread's own for the idle pattern among them.
LEMMA RequestStep == LedInv /\ (Request \/ GoIdle) => LedInv'
<1> SUFFICES ASSUME LedInv, Request \/ GoIdle PROVE LedInv'
  OBVIOUS
<1> USE DEF LedInv, request, led
<1>1. step' \in [Callers -> {"out", "pattern", "frames", "post"}] /\ want' \in [Callers -> Calls]
  <2>1. CASE Request
    BY <2>1, BeginTypes, RequestsAreCalls DEF Request, Callers
  <2>2. CASE GoIdle
    <3>1. <<Forever, "IDLE">> \in Calls
      BY DEF Calls, Patterns
    <3> QED
      BY <2>2, <3>1, BeginTypes DEF GoIdle, Callers
  <2> QED
    BY <2>1, <2>2
<1>2. requests' \in 0..MaxRequests
  BY LedAssumption DEF Request, GoIdle, LedTypeOK
<1>3. LedTypeOK' /\ DarkWhenBlocked'
  BY <1>1, <1>2 DEF Request, GoIdle, LedTypeOK, DarkWhenBlocked
<1> QED
  BY <1>3

\* The LED thread waits for an event only with the LEDs dark and without
\* continuous indication, or with an event that will wake it: no pattern
\* freezes on the LEDs (k_event_set(0) and led_pattern_disabled() at the end
\* of led_animation_thread_fn()).
THEOREM LedSafe == LedSpec => []LedInv
<1>1. LedInv /\ [LedNext]_ledvars => LedInv'
  <2> SUFFICES ASSUME LedInv, [LedNext]_ledvars PROVE LedInv'
    OBVIOUS
  <2>1. CASE Start \/ Wait \/ GetPattern \/ DecFrames \/ Animate \/ Clear \/ GoDark
    BY <2>1, AnimationStep
  <2>2. CASE Request \/ GoIdle
    BY <2>2, RequestStep
  <2>3. CASE Store("led") \/ Store("app")
    BY <2>3, StoreStep DEF Callers
  <2>4. CASE FrameEnds \/ UNCHANGED ledvars
    <3>1. LedTypeOK'
      BY <2>4 DEF FrameEnds, LedInv, LedTypeOK, ledvars, others, request, led
    <3>2. DarkWhenBlocked'
      BY <2>4 DEF FrameEnds, LedInv, DarkWhenBlocked, ledvars, others, request, led
    <3> QED
      BY <3>1, <3>2 DEF LedInv
  <2> QED
    BY <2>1, <2>2, <2>3, <2>4 DEF LedNext, LedThread
<1> QED
  BY <1>1, LedInitInv, PTL DEF LedSpec
=============================================================================
