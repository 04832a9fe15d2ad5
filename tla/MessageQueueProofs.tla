------------------------- MODULE MessageQueueProofs -------------------------
(* Proofs about MessageQueue, for every set of producers, every capacity and *)
(* every number of messages and tolerated failures.                          *)
EXTENDS MessageQueue, SequenceTheorems, FiniteSetTheorems, TLAPS

\* The elements of a sequence.
Elements(s) == {s[i] : i \in DOMAIN s}

\* No element twice.
Distinct(s) == \A i, j \in DOMAIN s : s[i] = s[j] => i = j

LEMMA AppendElements ==
  ASSUME NEW S, NEW s \in Seq(S), NEW e \in S
  PROVE  /\ Append(s, e) \in Seq(S)
         /\ Elements(Append(s, e)) = Elements(s) \cup {e}
         /\ Distinct(s) /\ e \notin Elements(s) => Distinct(Append(s, e))
         /\ Len(Append(s, e)) = Len(s) + 1
<1>1. /\ Append(s, e) \in Seq(S)
      /\ Len(Append(s, e)) = Len(s) + 1
      /\ \A i \in 1..Len(s) : Append(s, e)[i] = s[i]
      /\ Append(s, e)[Len(s) + 1] = e
      /\ Len(s) \in Nat
  BY AppendProperties, LenProperties
<1>2. DOMAIN s = 1..Len(s) /\ DOMAIN Append(s, e) = 1..(Len(s) + 1)
  BY <1>1, LenProperties
<1>3. Elements(Append(s, e)) = Elements(s) \cup {e}
  BY <1>1, <1>2 DEF Elements
<1>4. ASSUME Distinct(s), e \notin Elements(s)
      PROVE  Distinct(Append(s, e))
  <2> SUFFICES ASSUME NEW i \in 1..(Len(s) + 1), NEW j \in 1..(Len(s) + 1),
                      Append(s, e)[i] = Append(s, e)[j]
               PROVE  i = j
    BY <1>2 DEF Distinct
  <2>1. CASE i \in 1..Len(s) /\ j \in 1..Len(s)
    BY <2>1, <1>1, <1>2, <1>4 DEF Distinct
  <2>2. CASE i = Len(s) + 1 /\ j \in 1..Len(s)
    BY <2>2, <1>1, <1>2, <1>4 DEF Elements
  <2>3. CASE j = Len(s) + 1 /\ i \in 1..Len(s)
    BY <2>3, <1>1, <1>2, <1>4 DEF Elements
  <2>4. QED
    BY <2>1, <2>2, <2>3, <1>1
<1>5. QED
  BY <1>1, <1>3, <1>4

LEMMA TailElements ==
  ASSUME NEW S, NEW s \in Seq(S), s # <<>>
  PROVE  /\ Head(s) \in S /\ Tail(s) \in Seq(S)
         /\ Elements(s) = Elements(Tail(s)) \cup {Head(s)}
         /\ Distinct(s) => Distinct(Tail(s)) /\ Head(s) \notin Elements(Tail(s))
         /\ Len(Tail(s)) = Len(s) - 1
<1>1. /\ Head(s) \in S /\ Tail(s) \in Seq(S) /\ Len(Tail(s)) = Len(s) - 1
      /\ \A i \in 1..Len(Tail(s)) : Tail(s)[i] = s[i + 1]
  BY HeadTailProperties
<1>2. /\ Len(s) \in Nat \ {0} /\ Head(s) = s[1]
      /\ DOMAIN s = 1..Len(s) /\ DOMAIN Tail(s) = 1..(Len(s) - 1)
  BY <1>1, LenProperties, EmptySeq
<1>3. Elements(s) = Elements(Tail(s)) \cup {Head(s)}
  <2>1. \A i \in 1..Len(s) : i = 1 \/ (i - 1 \in 1..(Len(s) - 1) /\ s[i] = Tail(s)[i - 1])
    BY <1>1, <1>2
  <2>2. \A i \in 1..(Len(s) - 1) : i + 1 \in 1..Len(s) /\ Tail(s)[i] = s[i + 1]
    BY <1>1, <1>2
  <2>3. Elements(s) \subseteq Elements(Tail(s)) \cup {Head(s)}
    <3> SUFFICES ASSUME NEW i \in 1..Len(s)
                 PROVE  s[i] \in Elements(Tail(s)) \cup {Head(s)}
      BY <1>2 DEF Elements
    <3>1. CASE i = 1
      BY <3>1, <1>2
    <3>2. CASE i - 1 \in 1..(Len(s) - 1) /\ s[i] = Tail(s)[i - 1]
      BY <3>2, <1>2 DEF Elements
    <3>3. QED
      BY <3>1, <3>2, <2>1
  <2>4. Elements(Tail(s)) \cup {Head(s)} \subseteq Elements(s)
    BY <2>2, <1>2 DEF Elements
  <2>5. QED
    BY <2>3, <2>4
<1>4. ASSUME Distinct(s)
      PROVE  Distinct(Tail(s)) /\ Head(s) \notin Elements(Tail(s))
  <2>1. \A i \in 1..(Len(s) - 1) : i + 1 \in 1..Len(s) /\ Tail(s)[i] = s[i + 1]
    BY <1>1, <1>2
  <2>2. Distinct(Tail(s))
    BY <2>1, <1>2, <1>4 DEF Distinct
  <2>3. Head(s) \notin Elements(Tail(s))
    BY <2>1, <1>2, <1>4 DEF Distinct, Elements
  <2>4. QED
    BY <2>2, <2>3
<1>5. QED
  BY <1>1, <1>3, <1>4

-----------------------------------------------------------------------------
(* Ownership as facts about sets *)

LEMMA QueuedElements ==
  Queued = Elements(queue) /\ (Distinct(queue) <=> \A i, j \in DOMAIN queue : queue[i] = queue[j] => i = j)
  BY DEF Queued, Elements, Distinct

\* A message in a producer's hands is a message.
LEMMA CurrentIsMessage ==
  ASSUME OwnerInv, NEW p \in Producers, stage[p] # "idle"
  PROVE  Current(p) \in Messages /\ Current(p) \in InProducer
<1>1. Current(p) \in InProducer
  BY DEF InProducer
<1>2. InProducer \subseteq Submitted
  BY DEF OwnerInv, OneOwner
<1>3. QED
  BY <1>1, <1>2 DEF Submitted

\* Messages of different producers differ.
LEMMA CurrentDiffers ==
  ASSUME NEW p \in Producers, NEW q \in Producers, p # q
  PROVE  Current(p) # Current(q)
  BY DEF Current

\* A step within send_device_message() keeps the message in its producer's hands.
LEMMA ProducerKeeps ==
  ASSUME QTypeOK, NEW p \in Producers, NEW x \in Stages \ {"idle"}, stage[p] # "idle",
         stage' = [stage EXCEPT ![p] = x], UNCHANGED submitted
  PROVE  InProducer' = InProducer
<1>1. \A q \in Producers : (stage'[q] # "idle" <=> stage[q] # "idle") /\ Current(q)' = Current(q)
  BY DEF QTypeOK, Current
<1>2. QED
  BY <1>1 DEF InProducer

\* The end of send_device_message() takes it away.
LEMMA ProducerReleases ==
  ASSUME QTypeOK, NEW p \in Producers,
         stage' = [stage EXCEPT ![p] = "idle"], UNCHANGED submitted
  PROVE  InProducer' = InProducer \ {Current(p)}
<1>1. \A q \in Producers : (stage'[q] # "idle" <=> stage[q] # "idle" /\ q # p)
                           /\ Current(q)' = Current(q)
  BY DEF QTypeOK, Current
<1>2. QED
  BY <1>1, CurrentDiffers DEF InProducer

-----------------------------------------------------------------------------
(* The steps of a producer *)

LEMMA SubmitStep ==
  ASSUME OwnerInv, NEW p \in Producers, Submit(p)
  PROVE  OwnerInv'
<1> DEFINE m == <<p, submitted[p] + 1>>
<1>1. MaxMessages \in Nat
  BY QueueAssumption
<1>2. QTypeOK' /\ HeldWhileSending' /\ WithinCapacity'
  BY <1>1 DEF OwnerInv, QTypeOK, HeldWhileSending, WithinCapacity, Submit, producing, Stages
<1>3. m \in Messages /\ m \notin Submitted
  BY <1>1 DEF OwnerInv, QTypeOK, Submit, Submitted, Messages
<1>4. Submitted' = Submitted \cup {m}
  <2>1. \A q \in Producers : submitted'[q] = IF q = p THEN submitted[q] + 1 ELSE submitted[q]
    BY DEF OwnerInv, QTypeOK, Submit
  <2>2. \A k \in Messages : k \in Submitted' <=> k \in Submitted \/ k = m
    BY <1>1, <2>1 DEF OwnerInv, QTypeOK, Submitted, Messages
  <2>3. QED
    BY <1>3, <2>2 DEF Submitted
<1>5. InProducer' = InProducer \cup {m}
  <2>1. \A q \in Producers : /\ stage'[q] # "idle" <=> stage[q] # "idle" \/ q = p
                             /\ Current(q)' = IF q = p THEN m ELSE Current(q)
    BY DEF OwnerInv, QTypeOK, Submit, Current
  <2>2. QED
    BY <2>1 DEF InProducer, Submit
<1>6. UNCHANGED <<Pending, Freed, Queued>>
  BY DEF Submit, producing, Pending, Freed, Queued
<1>7. OneOwner'
  BY <1>3, <1>4, <1>5, <1>6 DEF OwnerInv, OneOwner, Submit, producing
<1>8. QED
  BY <1>2, <1>7 DEF OwnerInv

\* A message that its maker frees at once is new, and freed only then.
LEMMA NotFilledStep ==
  ASSUME OwnerInv, NEW p \in Producers, NotFilled(p)
  PROVE  OwnerInv'
<1> DEFINE m == <<p, submitted[p] + 1>>
<1>1. MaxMessages \in Nat
  BY QueueAssumption
<1>2. m \in Messages /\ m \notin Submitted
  BY <1>1 DEF OwnerInv, QTypeOK, NotFilled, Submitted, Messages
<1>3. QTypeOK' /\ HeldWhileSending' /\ WithinCapacity'
  <2>1. rejected' = rejected \cup {m} /\ rejected' \in SUBSET Messages
    BY <1>2 DEF OwnerInv, QTypeOK, NotFilled
  <2>2. submitted' \in [Producers -> 0..MaxMessages]
    BY <1>1 DEF OwnerInv, QTypeOK, NotFilled
  <2>3. QED
    BY <2>1, <2>2 DEF OwnerInv, QTypeOK, HeldWhileSending, WithinCapacity, NotFilled, producing
<1>4. \A q \in Producers : submitted'[q] = IF q = p THEN submitted[q] + 1 ELSE submitted[q]
  BY DEF OwnerInv, QTypeOK, NotFilled
<1>5. Submitted' = Submitted \cup {m}
  <2>1. \A k \in Messages : k \in Submitted' <=> k \in Submitted \/ k = m
    BY <1>1, <1>4 DEF OwnerInv, QTypeOK, Submitted, Messages
  <2>2. QED
    BY <1>2, <2>1 DEF Submitted
<1>6. InProducer' = InProducer
  <2>1. \A q \in Producers : stage'[q] = stage[q] /\ (stage[q] # "idle" => Current(q)' = Current(q))
    BY <1>4 DEF NotFilled, Current
  <2>2. QED
    BY <2>1 DEF InProducer
<1>7. UNCHANGED <<Pending, Queued>> /\ Freed' = Freed \cup {m}
  BY DEF NotFilled, producing, Pending, Freed, Queued
<1>8. OneOwner'
  BY <1>2, <1>5, <1>6, <1>7 DEF OwnerInv, OneOwner, NotFilled, producing, Freed
<1>9. QED
  BY <1>3, <1>8 DEF OwnerInv

LEMMA RejectStep ==
  ASSUME OwnerInv, NEW p \in Producers, stage[p] # "idle", Reject(p),
         UNCHANGED <<queue, submitted, producing>>
  PROVE  OwnerInv'
<1>1. Current(p) \in Messages /\ Current(p) \in InProducer
  BY CurrentIsMessage
<1>2. QTypeOK' /\ HeldWhileSending' /\ WithinCapacity'
  BY <1>1 DEF OwnerInv, QTypeOK, HeldWhileSending, WithinCapacity, Reject, producing, Stages
<1>3. InProducer' = InProducer \ {Current(p)}
  BY ProducerReleases DEF OwnerInv, Reject
<1>4. UNCHANGED <<Pending, Queued, Submitted>> /\ Freed' = Freed \cup {Current(p)}
  BY DEF Reject, producing, Pending, Freed, Queued, Submitted
<1>5. OneOwner'
  BY <1>1, <1>3, <1>4 DEF OwnerInv, OneOwner, Reject, producing, Freed
<1>6. QED
  BY <1>2, <1>5 DEF OwnerInv

LEMMA ProceedStep ==
  ASSUME OwnerInv, NEW p \in Producers, NEW x \in Stages \ {"idle"}, stage[p] # "idle",
         stage' = [stage EXCEPT ![p] = x], UNCHANGED <<queue, submitted, rejected, producing>>
  PROVE  OwnerInv'
<1>1. QTypeOK' /\ HeldWhileSending' /\ WithinCapacity'
  BY DEF OwnerInv, QTypeOK, HeldWhileSending, WithinCapacity, producing
<1>2. InProducer' = InProducer
  BY ProducerKeeps DEF OwnerInv
<1>3. UNCHANGED <<Pending, Queued, Submitted, Freed>>
  BY DEF producing, Pending, Freed, Queued, Submitted
<1>4. OneOwner'
  BY <1>2, <1>3 DEF OwnerInv, OneOwner, producing
<1>5. QED
  BY <1>1, <1>4 DEF OwnerInv

LEMMA EnqueueStep ==
  ASSUME OwnerInv, NEW p \in Producers, Put(p), ~Full
  PROVE  /\ OwnerInv' /\ Current(p) \in Messages /\ Current(p) \notin Pending \cup Freed
         /\ Pending' = Pending \cup {Current(p)}
<1>1. Current(p) \in Messages /\ Current(p) \in InProducer
  BY CurrentIsMessage DEF Put
<1>2. /\ queue' = Append(queue, Current(p)) /\ queue \in Seq(Messages)
      /\ stage' = [stage EXCEPT ![p] = "idle"]
      /\ UNCHANGED <<submitted, rejected, producing>>
  BY DEF Put, OwnerInv, QTypeOK
<1>3. /\ queue' \in Seq(Messages) /\ Len(queue') = Len(queue) + 1
      /\ Queued' = Queued \cup {Current(p)}
      /\ Distinct(queue) /\ Current(p) \notin Queued => Distinct(queue')
  BY <1>1, <1>2, AppendElements DEF Queued, Elements
<1>4. QTypeOK' /\ HeldWhileSending'
  BY <1>2, <1>3 DEF OwnerInv, QTypeOK, HeldWhileSending, producing, Stages
<1>5. WithinCapacity'
  BY <1>2, <1>3, LenProperties, QueueAssumption DEF OwnerInv, WithinCapacity, Full
<1>6. InProducer' = InProducer \ {Current(p)}
  BY <1>2, ProducerReleases DEF OwnerInv
<1>7. Current(p) \notin Pending \cup Freed /\ Current(p) # held /\ Current(p) \notin Queued
  BY <1>1, QueueAssumption DEF OwnerInv, OneOwner, Pending
<1>8. Pending' = Pending \cup {Current(p)} /\ UNCHANGED <<Freed, Submitted, held>>
  BY <1>2, <1>3 DEF Pending, Freed, Submitted, producing
<1>9. Distinct(queue')
  BY <1>3, <1>7 DEF OwnerInv, OneOwner, Distinct
<1>10. OneOwner'
  <2>1. /\ Submitted' = InProducer' \cup Pending' \cup Freed'
        /\ InProducer' \cap (Pending' \cup Freed') = {}
        /\ Pending' \cap Freed' = {} /\ held' \notin Queued'
    BY <1>1, <1>3, <1>6, <1>7, <1>8 DEF OwnerInv, OneOwner
  <2>2. QED
    BY <2>1, <1>2, <1>9 DEF OwnerInv, OneOwner, Distinct, producing
<1>11. QED
  BY <1>1, <1>4, <1>5, <1>7, <1>8, <1>10 DEF OwnerInv

LEMMA ProducerStep ==
  ASSUME OwnerInv, NEW p \in Producers, Producer(p)
  PROVE  OwnerInv'
<1>0. CASE NotFilled(p)
  BY <1>0, NotFilledStep
<1>1. CASE Submit(p)
  BY <1>1, SubmitStep
<1>2. CASE TestSpace(p)
  <2>1. CASE Full
    BY <1>2, <2>1, RejectStep DEF TestSpace
  <2>2. CASE ~Full
    BY <1>2, <2>2, ProceedStep DEF TestSpace, Stages
  <2>3. QED
    BY <2>1, <2>2
<1>3. CASE Allocate(p)
  <2>1. CASE Reject(p)
    BY <1>3, <2>1, RejectStep DEF Allocate
  <2>2. CASE stage' = [stage EXCEPT ![p] = "Put"] /\ UNCHANGED rejected
    BY <1>3, <2>2, ProceedStep DEF Allocate, Stages
  <2>3. QED
    BY <1>3, <2>1, <2>2 DEF Allocate
<1>4. CASE Put(p)
  <2>1. CASE Full
    BY <1>4, <2>1, RejectStep DEF Put
  <2>2. CASE ~Full
    BY <1>4, <2>2, EnqueueStep
  <2>3. QED
    BY <2>1, <2>2
<1>5. QED
  BY <1>0, <1>1, <1>2, <1>3, <1>4 DEF Producer

-----------------------------------------------------------------------------
(* The steps of the message thread *)

\* What the message thread holds while it sends.
LEMMA HeldIsMessage ==
  ASSUME OwnerInv, place \in {"AwaitReady", "Send", "RetryTest", "RetryPut"}
  PROVE  held \in Messages /\ held \in Pending /\ held \notin Queued
         /\ Pending = Queued \cup {held}
  BY QueueAssumption DEF OwnerInv, QTypeOK, HeldWhileSending, OneOwner, Pending

\* Otherwise it holds none.
LEMMA HoldsNothing ==
  ASSUME OwnerInv, place \notin {"AwaitReady", "Send", "RetryTest", "RetryPut"}
  PROVE  held = NoMessage /\ Pending = Queued
  <1>1. held = NoMessage
    BY DEF OwnerInv, HeldWhileSending
  <1>2. NoMessage \notin Queued
    <2>1. Queued \subseteq Messages
      BY LenProperties DEF OwnerInv, QTypeOK, Queued
    <2>2. QED
      BY <2>1, QueueAssumption
  <1>3. QED
    BY <1>1, <1>2 DEF Pending

\* Producers do not move.
LEMMA ProducersRest ==
  ASSUME UNCHANGED consuming
  PROVE  UNCHANGED <<InProducer, Submitted>>
  BY DEF consuming, InProducer, Current, Submitted

\* A step that leaves every message where it is.
LEMMA PlaceStep ==
  ASSUME OwnerInv, QTypeOK', HeldWhileSending',
         UNCHANGED <<queue, held, sent, discarded, stage, submitted, rejected>>
  PROVE  OwnerInv'
<1>1. UNCHANGED <<InProducer, Submitted, Pending, Freed, Queued>>
  BY DEF InProducer, Current, Submitted, Pending, Freed, Queued
<1>2. OneOwner' /\ WithinCapacity'
  BY <1>1 DEF OwnerInv, OneOwner, WithinCapacity
<1>3. QED
  BY <1>2 DEF OwnerInv

LEMMA GetStep ==
  ASSUME OwnerInv, Get
  PROVE  OwnerInv' /\ UNCHANGED Pending
<1>1. held = NoMessage /\ Pending = Queued
  BY HoldsNothing DEF Get
<1>2. queue \in Seq(Messages) /\ queue # <<>> /\ held' = Head(queue) /\ queue' = Tail(queue)
  BY DEF Get, OwnerInv, QTypeOK
<1>3. /\ held' \in Messages /\ queue' \in Seq(Messages) /\ Len(queue') = Len(queue) - 1
      /\ Queued = Queued' \cup {held'}
      /\ Distinct(queue) => Distinct(queue') /\ held' \notin Queued'
  <2>1. /\ Head(queue) \in Messages /\ Tail(queue) \in Seq(Messages)
        /\ Elements(queue) = Elements(Tail(queue)) \cup {Head(queue)}
        /\ Distinct(queue) => Distinct(Tail(queue)) /\ Head(queue) \notin Elements(Tail(queue))
        /\ Len(Tail(queue)) = Len(queue) - 1
    BY <1>2, TailElements
  <2>2. Queued = Elements(queue) /\ Queued' = Elements(Tail(queue))
    BY <1>2 DEF Queued, Elements
  <2>3. QED
    BY <1>2, <2>1, <2>2
<1>4. Distinct(queue') /\ held' \notin Queued' /\ held' # NoMessage
  BY <1>3, QueueAssumption DEF OwnerInv, OneOwner, Distinct
<1>5. QTypeOK' /\ HeldWhileSending'
  BY <1>3, <1>4 DEF Get, OwnerInv, QTypeOK, HeldWhileSending, consuming, Places
<1>6. WithinCapacity'
  BY <1>2, <1>3, LenProperties, QueueAssumption DEF OwnerInv, WithinCapacity
<1>7. Pending' = Pending /\ UNCHANGED <<InProducer, Submitted, Freed>>
  <2>1. Pending' = Queued' \cup {held'}
    BY <1>4 DEF Pending
  <2>2. UNCHANGED Freed
    BY DEF Get, consuming, Freed
  <2>3. QED
    BY <1>1, <1>3, <2>1, <2>2, ProducersRest DEF Get
<1>8. OneOwner'
  BY <1>4, <1>7 DEF OwnerInv, OneOwner, Distinct, Get, consuming
<1>9. QED
  BY <1>5, <1>6, <1>7, <1>8 DEF OwnerInv

\* A message is freed by the message thread: into sent or discarded.
LEMMA FreeStep ==
  ASSUME OwnerInv, place \in {"AwaitReady", "Send", "RetryTest", "RetryPut"},
         QTypeOK', HeldWhileSending', held' = NoMessage,
         UNCHANGED <<queue, consuming>>,
         \/ sent' = sent \cup {held} /\ UNCHANGED discarded
         \/ discarded' = discarded \cup {held} /\ UNCHANGED sent
  PROVE  OwnerInv' /\ Pending' = Pending \ {held}
<1>1. held \in Pending /\ held \notin Queued /\ Pending = Queued \cup {held}
  BY HeldIsMessage
<1>2. UNCHANGED <<InProducer, Submitted>>
  BY ProducersRest
<1>3. NoMessage \notin Queued
  <2>1. Queued \subseteq Messages
    BY LenProperties DEF OwnerInv, QTypeOK, Queued
  <2>2. QED
    BY <2>1, QueueAssumption
<1>4. Queued' = Queued /\ Pending' = Queued
  BY <1>3 DEF Pending, Queued
<1>5. Freed' = Freed \cup {held}
  BY DEF Freed, consuming
<1>6. OneOwner'
  <2>1. /\ Submitted' = InProducer' \cup Pending' \cup Freed'
        /\ InProducer' \cap (Pending' \cup Freed') = {}
        /\ Pending' \cap Freed' = {} /\ held' \notin Queued'
    BY <1>1, <1>2, <1>3, <1>4, <1>5 DEF OwnerInv, OneOwner
  <2>2. sent' \cap discarded' = {} /\ rejected' \cap (sent' \cup discarded') = {}
    BY <1>1 DEF OwnerInv, OneOwner, Freed, consuming
  <2>3. QED
    BY <2>1, <2>2 DEF OwnerInv, OneOwner
<1>7. QED
  BY <1>1, <1>4, <1>6 DEF OwnerInv, WithinCapacity

LEMMA NoteAttemptType ==
  ASSUME OwnerInv, held \in Messages, NoteAttempt
  PROVE  tried' \in Seq(Messages)
  BY AppendElements DEF OwnerInv, QTypeOK, NoteAttempt

LEMMA CountFailureType ==
  ASSUME OwnerInv, CountFailure
  PROVE  failures' \in 0..(MaxFailures + 1) /\ place' \in {"Disconnect", "Get"} /\ held' = NoMessage
  BY QueueAssumption DEF OwnerInv, QTypeOK, CountFailure

LEMMA SendStep ==
  ASSUME OwnerInv, SendSucceeds \/ SendFails
  PROVE  OwnerInv'
<1>1. held \in Messages
  BY HeldIsMessage DEF SendSucceeds, SendFails
<1>2. tried' \in Seq(Messages)
  BY <1>1, NoteAttemptType DEF SendSucceeds, SendFails
<1>3. CASE SendSucceeds
  <2>1. QTypeOK' /\ HeldWhileSending'
    BY <1>1, <1>2, <1>3, QueueAssumption
       DEF SendSucceeds, OwnerInv, QTypeOK, HeldWhileSending, consuming, Places
  <2>2. QED
    BY <1>3, <2>1, FreeStep DEF SendSucceeds
<1>4. CASE SendFails
  <2>1. QTypeOK' /\ HeldWhileSending'
    BY <1>2, <1>4 DEF SendFails, OwnerInv, QTypeOK, HeldWhileSending, consuming, Places
  <2>2. QED
    BY <1>4, <2>1, PlaceStep DEF SendFails, consuming
<1>5. QED
  BY <1>3, <1>4

\* The retry that is given up.
LEMMA GiveUpStep ==
  ASSUME OwnerInv, place \in {"RetryTest", "RetryPut"}, Discard, CountFailure,
         UNCHANGED <<queue, sent, tried, consuming>>
  PROVE  OwnerInv' /\ Pending' = Pending \ {held}
<1>1. held \in Messages
  BY HeldIsMessage
<1>2. QTypeOK' /\ HeldWhileSending'
  BY <1>1, CountFailureType DEF OwnerInv, QTypeOK, HeldWhileSending, Discard, consuming, Places
<1>3. QED
  BY <1>2, FreeStep, CountFailureType DEF Discard

\* The retry that finds a place in the queue.
LEMMA RequeueStep ==
  ASSUME OwnerInv, RetryPut, ~Full
  PROVE  OwnerInv' /\ UNCHANGED Pending
<1>1. held \in Messages /\ held \in Pending /\ held \notin Queued /\ Pending = Queued \cup {held}
  BY HeldIsMessage DEF RetryPut
<1>2. /\ queue \in Seq(Messages) /\ queue' = Append(queue, held)
      /\ UNCHANGED <<sent, discarded, tried, consuming>>
  BY DEF RetryPut, OwnerInv, QTypeOK
<1>3. /\ queue' \in Seq(Messages) /\ Len(queue') = Len(queue) + 1
      /\ Queued' = Queued \cup {held}
      /\ Distinct(queue) /\ held \notin Queued => Distinct(queue')
  BY <1>1, <1>2, AppendElements DEF Queued, Elements
<1>4. QTypeOK' /\ HeldWhileSending' /\ held' = NoMessage
  BY <1>2, <1>3, CountFailureType
     DEF RetryPut, OwnerInv, QTypeOK, HeldWhileSending, consuming, Places
<1>5. WithinCapacity'
  BY <1>2, <1>3, LenProperties, QueueAssumption DEF OwnerInv, WithinCapacity, Full
<1>6. NoMessage \notin Queued'
  <2>1. Queued' \subseteq Messages
    BY <1>3, LenProperties DEF Queued
  <2>2. QED
    BY <2>1, QueueAssumption
<1>7. Pending' = Pending /\ UNCHANGED <<InProducer, Submitted, Freed>>
  BY <1>1, <1>2, <1>3, <1>4, <1>6, ProducersRest DEF Pending, Freed, consuming
<1>8. Distinct(queue')
  BY <1>1, <1>3 DEF OwnerInv, OneOwner, Distinct
<1>9. OneOwner'
  BY <1>2, <1>4, <1>6, <1>7, <1>8 DEF OwnerInv, OneOwner, Distinct, consuming
<1>10. QED
  BY <1>4, <1>5, <1>7, <1>9 DEF OwnerInv

LEMMA ConsumerStep ==
  ASSUME OwnerInv, Consumer
  PROVE  OwnerInv'
<1>1. CASE Get
  BY <1>1, GetStep
<1>2. CASE AwaitReady
  <2>1. QTypeOK' /\ HeldWhileSending'
    BY <1>2 DEF AwaitReady, OwnerInv, QTypeOK, HeldWhileSending, consuming, Places
  <2>2. QED
    BY <1>2, <2>1, PlaceStep DEF AwaitReady, consuming
<1>3. CASE SendSucceeds \/ SendFails
  BY <1>3, SendStep
<1>4. CASE RetryTest
  <2>1. CASE Full
    BY <1>4, <2>1, GiveUpStep DEF RetryTest
  <2>2. CASE ~Full
    <3>1. QTypeOK' /\ HeldWhileSending'
      BY <1>4, <2>2 DEF RetryTest, OwnerInv, QTypeOK, HeldWhileSending, consuming, Places
    <3>2. QED
      BY <1>4, <2>2, <3>1, PlaceStep DEF RetryTest, consuming
  <2>3. QED
    BY <2>1, <2>2
<1>5. CASE RetryPut
  <2>1. CASE Full
    BY <1>5, <2>1, GiveUpStep DEF RetryPut
  <2>2. CASE ~Full
    BY <1>5, <2>2, RequeueStep
  <2>3. QED
    BY <2>1, <2>2
<1>6. CASE DisconnectCloud \/ Disconnected \/ Cooldown
  <2>1. QTypeOK' /\ HeldWhileSending'
    BY <1>6 DEF DisconnectCloud, Disconnected, Cooldown, OwnerInv, QTypeOK, HeldWhileSending,
                consuming, Places
  <2>2. QED
    BY <1>6, <2>1, PlaceStep DEF DisconnectCloud, Disconnected, Cooldown, consuming
<1>7. QED
  BY <1>1, <1>2, <1>3, <1>4, <1>5, <1>6 DEF Consumer

-----------------------------------------------------------------------------
(* The invariant *)

LEMMA InitInv == QInit => OwnerInv
<1> SUFFICES ASSUME QInit PROVE OwnerInv
  OBVIOUS
<1>1. QTypeOK /\ HeldWhileSending /\ WithinCapacity
  <2>1. /\ queue \in Seq(Messages) /\ tried \in Seq(Messages) /\ Len(queue) = 0
        /\ 0 \in 0..MaxMessages /\ 0 \in 0..(MaxFailures + 1) /\ 0 <= Capacity
    BY QueueAssumption, EmptySeq DEF QInit, QueueInit
  <2>2. QED
    BY <2>1 DEF QInit, QueueInit, QTypeOK, HeldWhileSending, WithinCapacity, Places, Stages
<1>2. Queued = {} /\ Pending = {} /\ InProducer = {} /\ Freed = {}
  BY DEF QInit, QueueInit, Queued, Pending, InProducer, Freed
<1>3. Submitted = {}
  BY DEF QInit, QueueInit, Submitted, Messages
<1>4. OneOwner
  BY <1>2, <1>3 DEF OneOwner, QInit, QueueInit
<1>5. QED
  BY <1>1, <1>4 DEF OwnerInv

LEMMA StepInv == OwnerInv /\ [QNext]_qvars => OwnerInv'
<1> SUFFICES ASSUME OwnerInv, [QNext]_qvars PROVE OwnerInv'
  OBVIOUS
<1>1. CASE \E p \in Producers : Producer(p)
  BY <1>1, ProducerStep
<1>2. CASE Consumer
  BY <1>2, ConsumerStep
<1>3. CASE ReadinessChanges \/ UNCHANGED qvars
  <2>1. QTypeOK' /\ HeldWhileSending'
    BY <1>3, Zenon DEF ReadinessChanges, qvars, queueVars, OwnerInv, QTypeOK, HeldWhileSending
  <2>2. QED
    BY <1>3, <2>1, PlaceStep DEF ReadinessChanges, qvars, queueVars
<1>4. QED
  BY <1>1, <1>2, <1>3 DEF QNext

LEMMA OwnerInvariant == QSpec => []OwnerInv
  BY InitInv, StepInv, PTL DEF QSpec

\* The variables have their types.
THEOREM QueueTypes == QSpec => []QTypeOK
<1>1. OwnerInv => QTypeOK
  BY DEF OwnerInv
<1>2. QED
  BY <1>1, OwnerInvariant, PTL

\* Every message has one owner, and is freed at most once.
THEOREM QueueOwnership == QSpec => []OneOwner
<1>1. OwnerInv => OneOwner
  BY DEF OwnerInv
<1>2. QED
  BY <1>1, OwnerInvariant, PTL

\* The queue never holds more than its capacity.
THEOREM QueueCapacity == QSpec => []WithinCapacity
<1>1. OwnerInv => WithinCapacity
  BY DEF OwnerInv
<1>2. QED
  BY <1>1, OwnerInvariant, PTL

-----------------------------------------------------------------------------
(* The order of the first attempts *)

LEMMA OrderedAppend ==
  ASSUME NEW s \in Seq(Messages), NEW e \in Messages, NEW T, Ordered(s, T),
         e \in T \/ \A m \in Elements(s) \ T : Earlier(m, e)
  PROVE  Ordered(Append(s, e), T)
<1>1. /\ Len(s) \in Nat /\ DOMAIN s = 1..Len(s)
      /\ DOMAIN Append(s, e) = 1..(Len(s) + 1)
      /\ \A i \in 1..Len(s) : Append(s, e)[i] = s[i] /\ s[i] \in Elements(s)
      /\ Append(s, e)[Len(s) + 1] = e
  BY AppendProperties, LenProperties DEF Elements
<1> SUFFICES ASSUME NEW i \in 1..(Len(s) + 1), NEW j \in 1..(Len(s) + 1), i < j,
                    Append(s, e)[i] \notin T, Append(s, e)[j] \notin T
             PROVE  Earlier(Append(s, e)[i], Append(s, e)[j])
  BY <1>1 DEF Ordered
<1>2. CASE j = Len(s) + 1
  BY <1>1, <1>2
<1>3. CASE j \in 1..Len(s)
  BY <1>1, <1>3 DEF Ordered
<1>4. QED
  BY <1>1, <1>2, <1>3

LEMMA OrderedTail ==
  ASSUME NEW s \in Seq(Messages), s # <<>>, NEW T, Ordered(s, T)
  PROVE  /\ Ordered(Tail(s), T)
         /\ Head(s) \notin T => \A m \in Elements(Tail(s)) \ T : Earlier(Head(s), m)
<1>1. /\ Len(s) \in Nat \ {0} /\ DOMAIN s = 1..Len(s) /\ Head(s) = s[1]
      /\ DOMAIN Tail(s) = 1..(Len(s) - 1)
      /\ \A i \in 1..(Len(s) - 1) : Tail(s)[i] = s[i + 1]
  BY HeadTailProperties, LenProperties, EmptySeq
<1>2. QED
  BY <1>1 DEF Ordered, Elements

LEMMA OrderedGrow ==
  ASSUME NEW s, NEW T, NEW U, T \subseteq U, Ordered(s, T)
  PROVE  Ordered(s, U)
  BY DEF Ordered

LEMMA AttemptsAreOrdered == FirstAttemptsInOrder <=> Ordered(tried, {})
  BY DEF FirstAttemptsInOrder, Ordered, Earlier

\* A message that its producer still has comes after all that it handed over.
LEMMA CurrentIsLast ==
  ASSUME OwnerInv, NEW p \in Producers, stage[p] # "idle",
         NEW m \in Messages, m \in Pending \cup Freed
  PROVE  Earlier(m, Current(p))
<1>1. Current(p) \in InProducer
  BY CurrentIsMessage
<1>2. m # Current(p) /\ m \in Submitted
  BY <1>1 DEF OwnerInv, OneOwner
<1>3. m = <<m[1], m[2]>> /\ m[2] \in Nat /\ m[2] <= submitted[m[1]]
  BY <1>2, QueueAssumption DEF Messages, Submitted
<1>4. submitted[p] \in Nat
  BY QueueAssumption DEF OwnerInv, QTypeOK
<1>5. QED
  BY <1>2, <1>3, <1>4 DEF Current, Earlier

\* Nothing that the order of attempts looks at moves, and messages are only freed.
LEMMA AttemptRest ==
  ASSUME AttemptOrder, FirstAttemptsInOrder, UNCHANGED <<queue, held, tried>>,
         Freed \subseteq Freed', place' \in {"RetryTest", "RetryPut"} => held \in Tried
  PROVE  AttemptOrder' /\ FirstAttemptsInOrder'
<1>1. Tried' = Tried /\ Queued' = Queued /\ Pending' = Pending
  BY DEF Tried, Queued, Pending
<1>2. QED
  BY <1>1 DEF AttemptOrder, Ordered, FirstAttemptsInOrder

LEMMA PutAttempt ==
  ASSUME OwnerInv, AttemptOrder, FirstAttemptsInOrder, NEW p \in Producers, Put(p), ~Full
  PROVE  AttemptOrder' /\ FirstAttemptsInOrder'
<1>1. /\ Current(p) \in Messages /\ Current(p) \notin Pending \cup Freed
      /\ Pending' = Pending \cup {Current(p)} /\ stage[p] # "idle"
  BY EnqueueStep DEF Put
<1>2. /\ queue \in Seq(Messages) /\ queue' = Append(queue, Current(p))
      /\ UNCHANGED <<place, held, tried, Freed>>
  BY DEF Put, producing, OwnerInv, QTypeOK, Freed
<1>3. /\ Tried' = Tried /\ Tried \subseteq Messages /\ Pending \subseteq Messages
      /\ Queued = Elements(queue) /\ Queued \subseteq Messages
  BY <1>2, LenProperties DEF Tried, Pending, Queued, Elements, OwnerInv, QTypeOK
<1>4. Queued' = Queued \cup {Current(p)} /\ Queued \subseteq Pending
  <2>1. Elements(queue') = Elements(queue) \cup {Current(p)}
    BY <1>1, <1>2, AppendElements
  <2>2. Queued' = Elements(queue') /\ Queued = Elements(queue)
    BY DEF Queued, Elements
  <2>3. QED
    BY <2>1, <2>2 DEF Pending
<1>5. \A m \in Messages : m \in Pending \cup Freed => Earlier(m, Current(p))
  BY <1>1, CurrentIsLast
<1>6. Ordered(queue', Tried')
  BY <1>1, <1>2, <1>3, <1>4, <1>5, OrderedAppend DEF AttemptOrder
<1>7. Tried' \subseteq Pending' \cup Freed'
  BY <1>1, <1>2, <1>3 DEF AttemptOrder
<1>8. \A m \in Pending' \ Tried' : \A t \in Tried' : Earlier(t, m)
  BY <1>1, <1>3, <1>5 DEF AttemptOrder
<1>9. held' \in Messages \ Tried' => \A m \in Queued' \ Tried' : Earlier(held', m)
  <2>1. held \in Messages => held \in Pending
    BY QueueAssumption DEF Pending
  <2>2. QED
    BY <1>2, <1>3, <1>4, <1>5, <2>1 DEF AttemptOrder
<1>10. FirstAttemptsInOrder'
  BY <1>2 DEF FirstAttemptsInOrder
<1>11. QED
  BY <1>2, <1>3, <1>6, <1>7, <1>8, <1>9, <1>10 DEF AttemptOrder

LEMMA ProducerAttempt ==
  ASSUME OwnerInv, AttemptOrder, FirstAttemptsInOrder, NEW p \in Producers, Producer(p)
  PROVE  AttemptOrder' /\ FirstAttemptsInOrder'
<1>1. UNCHANGED <<held, tried, place>> /\ Freed \subseteq Freed'
  BY DEF Producer, NotFilled, Submit, TestSpace, Allocate, Put, Reject, producing, Freed
<1>2. UNCHANGED queue \/ (Put(p) /\ ~Full)
  BY DEF Producer, NotFilled, Submit, TestSpace, Allocate, Put
<1>3. QED
  BY <1>1, <1>2, AttemptRest, PutAttempt DEF AttemptOrder

\* The message thread takes the oldest message.
LEMMA GetAttempt ==
  ASSUME OwnerInv, AttemptOrder, FirstAttemptsInOrder, Get
  PROVE  AttemptOrder' /\ FirstAttemptsInOrder'
<1>1. Pending' = Pending
  BY GetStep
<1>2. /\ queue \in Seq(Messages) /\ queue # <<>> /\ held' = Head(queue)
      /\ queue' = Tail(queue) /\ place' = "AwaitReady" /\ UNCHANGED <<tried, Freed>>
  BY DEF Get, OwnerInv, QTypeOK, consuming, Freed
<1>3. Tried' = Tried /\ Queued' = Elements(queue')
  BY <1>2 DEF Tried, Queued, Elements
<1>4. /\ Ordered(queue', Tried)
      /\ held' \notin Tried => \A m \in Queued' \ Tried : Earlier(held', m)
  BY <1>2, <1>3, OrderedTail DEF AttemptOrder
<1>5. QED
  BY <1>1, <1>2, <1>3, <1>4 DEF AttemptOrder, FirstAttemptsInOrder

\* An attempt comes after the earlier attempts of its producer.
LEMMA NoteAttempted ==
  ASSUME OwnerInv, AttemptOrder, FirstAttemptsInOrder, place = "Send", NoteAttempt
  PROVE  /\ Tried' = Tried \cup {held} /\ FirstAttemptsInOrder'
         /\ \A m \in Pending \ Tried' : \A t \in Tried' : Earlier(t, m)
<1>1. held \in Messages /\ held \in Pending /\ Pending = Queued \cup {held}
  BY HeldIsMessage
<1>2. tried \in Seq(Messages) /\ Tried = Elements(tried)
  BY DEF OwnerInv, QTypeOK, Tried, Elements
<1>3. Tried' = Tried \cup {held}
  BY <1>1, <1>2, AppendElements DEF NoteAttempt, Tried, Elements
<1>4. FirstAttemptsInOrder'
  <2>1. CASE held \in Tried
    BY <2>1 DEF NoteAttempt, Tried, FirstAttemptsInOrder
  <2>2. CASE held \notin Tried
    <3>1. tried' = Append(tried, held)
      BY <2>2 DEF NoteAttempt, Tried
    <3>2. \A t \in Elements(tried) : Earlier(t, held)
      BY <1>1, <1>2, <2>2 DEF AttemptOrder
    <3>3. Ordered(Append(tried, held), {})
      BY <1>1, <1>2, <3>2, OrderedAppend, AttemptsAreOrdered
    <3>4. QED
      BY <3>1, <3>3 DEF Ordered, FirstAttemptsInOrder, Earlier
  <2>3. QED
    BY <2>1, <2>2
<1>5. \A m \in Pending \ Tried' : \A t \in Tried' : Earlier(t, m)
  BY <1>1, <1>3 DEF AttemptOrder
<1>6. QED
  BY <1>3, <1>4, <1>5

LEMMA SendAttempt ==
  ASSUME OwnerInv, AttemptOrder, FirstAttemptsInOrder, SendSucceeds \/ SendFails
  PROVE  AttemptOrder' /\ FirstAttemptsInOrder'
<1>1. /\ Tried' = Tried \cup {held} /\ FirstAttemptsInOrder'
      /\ \A m \in Pending \ Tried' : \A t \in Tried' : Earlier(t, m)
  BY NoteAttempted DEF SendSucceeds, SendFails
<1>2. held \in Messages /\ held \in Pending /\ Pending = Queued \cup {held}
  BY HeldIsMessage DEF SendSucceeds, SendFails
<1>3. queue' = queue /\ Queued' = Queued
  BY DEF SendSucceeds, SendFails, Queued
<1>4. Ordered(queue', Tried')
  BY <1>1, <1>3, OrderedGrow DEF AttemptOrder
<1>5. CASE SendSucceeds
  <2>1. held' = NoMessage /\ place' = "Get" /\ Freed' = Freed \cup {held}
    BY <1>5 DEF SendSucceeds, Freed, consuming
  <2>2. Pending' \subseteq Pending /\ Queued \subseteq Pending'
    <3>1. NoMessage \notin Queued
      BY LenProperties, QueueAssumption DEF OwnerInv, QTypeOK, Queued
    <3>2. QED
      BY <1>2, <1>3, <2>1, <3>1 DEF Pending
  <2>3. QED
    BY <1>1, <1>2, <1>4, <2>1, <2>2, QueueAssumption DEF AttemptOrder
<1>6. CASE SendFails
  <2>1. held' = held /\ Freed' = Freed
    BY <1>6 DEF SendFails, Freed, consuming
  <2>2. Pending' = Pending
    BY <1>3, <2>1 DEF Pending
  <2>3. QED
    BY <1>1, <1>2, <1>4, <2>1, <2>2 DEF AttemptOrder
<1>7. QED
  BY <1>5, <1>6

\* A message that is given up was tried; so was one that goes back to the queue.
LEMMA GiveUpAttempt ==
  ASSUME OwnerInv, AttemptOrder, FirstAttemptsInOrder,
         place \in {"RetryTest", "RetryPut"}, Discard, CountFailure,
         UNCHANGED <<queue, sent, tried, consuming>>
  PROVE  AttemptOrder' /\ FirstAttemptsInOrder'
<1>1. Pending' = Pending \ {held} /\ held \in Pending
  BY GiveUpStep, HeldIsMessage
<1>2. Tried' = Tried /\ Queued' = Queued /\ Freed' = Freed \cup {held}
  BY DEF Tried, Queued, Freed, Discard, consuming
<1>3. held' = NoMessage /\ place' \in {"Disconnect", "Get"}
  BY CountFailureType
<1>4. QED
  BY <1>1, <1>2, <1>3, QueueAssumption DEF AttemptOrder, Ordered, FirstAttemptsInOrder

LEMMA RequeueAttempt ==
  ASSUME OwnerInv, AttemptOrder, FirstAttemptsInOrder, RetryPut, ~Full
  PROVE  AttemptOrder' /\ FirstAttemptsInOrder'
<1>1. Pending' = Pending /\ held \in Messages /\ held \in Tried
  BY RequeueStep, HeldIsMessage DEF RetryPut, AttemptOrder
<1>2. /\ queue \in Seq(Messages) /\ queue' = Append(queue, held)
      /\ held' = NoMessage /\ place' \in {"Disconnect", "Get"}
      /\ UNCHANGED <<tried, Freed>>
  BY CountFailureType DEF RetryPut, OwnerInv, QTypeOK, Freed, consuming
<1>3. Tried' = Tried
  BY <1>2 DEF Tried
<1>4. Ordered(queue', Tried)
  BY <1>1, <1>2, OrderedAppend DEF AttemptOrder
<1>5. QED
  BY <1>1, <1>2, <1>3, <1>4, QueueAssumption DEF AttemptOrder, FirstAttemptsInOrder

LEMMA ConsumerAttempt ==
  ASSUME OwnerInv, AttemptOrder, FirstAttemptsInOrder, Consumer
  PROVE  AttemptOrder' /\ FirstAttemptsInOrder'
<1>1. CASE AwaitReady \/ DisconnectCloud \/ Disconnected \/ Cooldown \/ (RetryTest /\ ~Full)
  <2>1. /\ UNCHANGED <<queue, held, tried, Freed>>
        /\ place' \in {"RetryTest", "RetryPut"} => place = "RetryTest"
    BY <1>1 DEF AwaitReady, DisconnectCloud, Disconnected, Cooldown, RetryTest,
                consuming, Freed
  <2>2. QED
    BY <2>1, AttemptRest DEF AttemptOrder
<1>2. CASE (RetryTest \/ RetryPut) /\ Full
  BY <1>2, GiveUpAttempt DEF RetryTest, RetryPut
<1>3. QED
  BY <1>1, <1>2, GetAttempt, SendAttempt, RequeueAttempt DEF Consumer

LEMMA AttemptStep ==
  ASSUME OwnerInv, AttemptOrder, FirstAttemptsInOrder, [QNext]_qvars
  PROVE  AttemptOrder' /\ FirstAttemptsInOrder'
<1>1. CASE ReadinessChanges \/ UNCHANGED qvars
  <2>1. UNCHANGED <<queue, held, tried, place, Freed>>
    BY <1>1 DEF ReadinessChanges, qvars, queueVars, Freed
  <2>2. QED
    BY <2>1, AttemptRest DEF AttemptOrder
<1>2. QED
  BY <1>1, ProducerAttempt, ConsumerAttempt DEF QNext

LEMMA InitAttempt == QInit => AttemptOrder /\ FirstAttemptsInOrder
<1> SUFFICES ASSUME QInit PROVE AttemptOrder /\ FirstAttemptsInOrder
  OBVIOUS
<1>1. DOMAIN tried = {} /\ DOMAIN queue = {} /\ place = "Get" /\ held = NoMessage
  BY DEF QInit, QueueInit
<1>2. Tried = {} /\ Pending = {}
  BY <1>1 DEF Tried, Pending, Queued
<1>3. QED
  BY <1>1, <1>2, QueueAssumption DEF AttemptOrder, Ordered, FirstAttemptsInOrder

LEMMA AttemptInvariant == QSpec => [](QueueInv /\ FirstAttemptsInOrder)
<1>1. QInit => OwnerInv /\ AttemptOrder /\ FirstAttemptsInOrder
  BY InitInv, InitAttempt
<1>2. OwnerInv /\ AttemptOrder /\ FirstAttemptsInOrder /\ [QNext]_qvars
        => (OwnerInv /\ AttemptOrder /\ FirstAttemptsInOrder)'
  BY StepInv, AttemptStep
<1>3. OwnerInv /\ AttemptOrder /\ FirstAttemptsInOrder
        => QueueInv /\ FirstAttemptsInOrder
  BY DEF QueueInv
<1>4. QED
  BY <1>1, <1>2, <1>3, PTL DEF QSpec

\* The inductive invariant of message_queue.c: types, ownership, capacity, what
\* the message thread holds, and what is still to be tried.
THEOREM QueueInvariant == QSpec => []QueueInv
  BY AttemptInvariant, PTL

\* Retries go to the back of the queue, yet no message is tried for the first
\* time before an earlier one of its producer was.
THEOREM AttemptsOrdered == QSpec => []FirstAttemptsInOrder
  BY AttemptInvariant, PTL

-----------------------------------------------------------------------------
(* The bounded store that the queue implements *)

\* Without repetitions there are as many elements as places.
LEMMA DistinctCardinality ==
  ASSUME NEW S, NEW s \in Seq(S), Distinct(s)
  PROVE  IsFiniteSet(Elements(s)) /\ Cardinality(Elements(s)) = Len(s)
<1>1. Len(s) \in Nat /\ DOMAIN s = 1..Len(s) /\ s \in [1..Len(s) -> S]
  BY LenProperties
<1>2. s \in Bijection(1..Len(s), Elements(s))
  <2>1. s \in [1..Len(s) -> Elements(s)]
    BY <1>1 DEF Elements
  <2>2. \A a, b \in 1..Len(s) : s[a] = s[b] => a = b
    BY <1>1 DEF Distinct
  <2>3. \A t \in Elements(s) : \E a \in 1..Len(s) : s[a] = t
    BY <1>1 DEF Elements
  <2>4. QED
    BY <2>1, <2>2, <2>3 DEF Bijection, Injection, Surjection, IsInjective
<1>3. ExistsBijection(1..Len(s), Elements(s))
  BY <1>2 DEF ExistsBijection
<1>4. IsFiniteSet(1..Len(s)) /\ Cardinality(1..Len(s)) = Len(s)
  BY <1>1, FS_Interval
<1>5. QED
  BY <1>3, <1>4, FS_Bijection

\* How many messages are pending: those queued and the one that is held.
LEMMA PendingCardinality ==
  ASSUME OwnerInv
  PROVE  Cardinality(Pending) = IF held = NoMessage THEN Len(queue) ELSE Len(queue) + 1
<1>1. IsFiniteSet(Queued) /\ Cardinality(Queued) = Len(queue)
  <2>1. queue \in Seq(Messages) /\ Distinct(queue)
    BY DEF OwnerInv, QTypeOK, OneOwner, Distinct
  <2>2. QED
    BY <2>1, DistinctCardinality, QueuedElements
<1>2. CASE held = NoMessage
  BY <1>1, <1>2, HoldsNothing DEF OwnerInv, HeldWhileSending
<1>3. CASE held # NoMessage
  <2>1. Pending = Queued \cup {held} /\ held \notin Queued
    BY <1>3, HeldIsMessage DEF OwnerInv, HeldWhileSending
  <2>2. QED
    BY <1>1, <1>3, <2>1, FS_AddElement
<1>4. QED
  BY <1>2, <1>3

\* The instance counts as this module does.
LEMMA SameCardinality ==
  ASSUME NEW S
  PROVE  Store!Cardinality(S) = Cardinality(S)
  BY DEF Store!Cardinality, Cardinality

\* A step that frees no message of the store and accepts none.
Quiet == UNCHANGED <<Pending, sent, discarded>>

LEMMA ProducerRefines ==
  ASSUME OwnerInv, NEW p \in Producers, Producer(p)
  PROVE  Quiet \/ (Current(p) \in Messages /\ Store!Accept(Current(p)))
<1>1. CASE UNCHANGED queue
  <2>1. UNCHANGED <<held, sent, discarded>>
    BY DEF Producer, NotFilled, Submit, TestSpace, Allocate, Put, producing
  <2>2. QED
    BY <1>1, <2>1 DEF Quiet, Pending, Queued
<1>2. CASE Put(p) /\ ~Full
  <2>1. /\ Current(p) \in Messages /\ Current(p) \notin Pending \cup Freed
        /\ Pending' = Pending \cup {Current(p)}
    BY <1>2, EnqueueStep
  <2>2. Cardinality(Pending) <= Capacity
    <3>1. Len(queue) \in Nat /\ Len(queue) <= Capacity /\ Len(queue) # Capacity
      BY <1>2, LenProperties DEF OwnerInv, QTypeOK, WithinCapacity, Full
    <3>2. QED
      BY <3>1, PendingCardinality, QueueAssumption
  <2>3. UNCHANGED <<sent, discarded>>
    BY <1>2 DEF Put, producing
  <2>4. QED
    BY <2>1, <2>2, <2>3, SameCardinality DEF Store!Accept, Freed
<1>3. QED
  BY <1>1, <1>2 DEF Producer, NotFilled, Submit, TestSpace, Allocate, Put

\* A retry is given up only when the store is over-full.
LEMMA GiveUpRefines ==
  ASSUME OwnerInv, place \in {"RetryTest", "RetryPut"}, Full, Discard, CountFailure,
         UNCHANGED <<queue, sent, tried, consuming>>
  PROVE  Store!Lose(held) /\ held \in Messages
<1>1. held \in Messages /\ held \in Pending /\ held # NoMessage
  BY HeldIsMessage, QueueAssumption
<1>2. Pending' = Pending \ {held}
  BY GiveUpStep
<1>3. Cardinality(Pending) = Capacity + 1
  BY <1>1, PendingCardinality DEF Full
<1>4. QED
  BY <1>1, <1>2, <1>3, SameCardinality DEF Store!Lose, Discard

LEMMA ConsumerRefines ==
  ASSUME OwnerInv, Consumer
  PROVE  Quiet \/ \E m \in Messages : Store!Deliver(m) \/ Store!Lose(m)
<1>1. CASE Get
  BY <1>1, GetStep DEF Get, Quiet
<1>2. CASE AwaitReady \/ SendFails \/ DisconnectCloud \/ Disconnected \/ Cooldown
  BY <1>2 DEF AwaitReady, SendFails, DisconnectCloud, Disconnected, Cooldown, Quiet,
              Pending, Queued
<1>3. CASE SendSucceeds
  <2>1. held \in Messages /\ held \in Pending
    BY <1>3, HeldIsMessage DEF SendSucceeds
  <2>2. QTypeOK' /\ HeldWhileSending'
    BY <1>3, SendStep DEF OwnerInv
  <2>3. Pending' = Pending \ {held}
    BY <1>3, <2>2, FreeStep DEF SendSucceeds
  <2>4. Store!Deliver(held)
    BY <1>3, <2>1, <2>3 DEF SendSucceeds, Store!Deliver
  <2>5. QED
    BY <2>1, <2>4
<1>4. CASE RetryTest
  <2>1. CASE Full
    BY <1>4, <2>1, GiveUpRefines DEF RetryTest
  <2>2. CASE ~Full
    BY <1>4, <2>2 DEF RetryTest, Quiet, Pending, Queued
  <2>3. QED
    BY <2>1, <2>2
<1>5. CASE RetryPut
  <2>1. CASE Full
    BY <1>5, <2>1, GiveUpRefines DEF RetryPut
  <2>2. CASE ~Full
    BY <1>5, <2>2, RequeueStep DEF RetryPut, Quiet
  <2>3. QED
    BY <2>1, <2>2
<1>6. QED
  BY <1>1, <1>2, <1>3, <1>4, <1>5 DEF Consumer

LEMMA StepRefines ==
  OwnerInv /\ [QNext]_qvars => [Store!MNext]_<<Pending, sent, discarded>>
<1> SUFFICES ASSUME OwnerInv, [QNext]_qvars
             PROVE  Quiet \/ Store!MNext
  BY DEF Quiet
<1>1. CASE \E p \in Producers : Producer(p)
  BY <1>1, ProducerRefines DEF Store!MNext
<1>2. CASE Consumer
  BY <1>2, ConsumerRefines DEF Store!MNext
<1>3. CASE ReadinessChanges \/ UNCHANGED qvars
  BY <1>3 DEF ReadinessChanges, qvars, queueVars, Quiet, Pending, Queued
<1>4. QED
  BY <1>1, <1>2, <1>3 DEF QNext

\* message_queue.c is a bounded store: what it accepts it delivers once, or
\* loses when it is full and one more message is in flight.
THEOREM QueueImplementsStore == QSpec => ImplementsStore
<1>1. QInit => Store!MInit
  BY DEF QInit, QueueInit, Store!MInit, Pending, Queued
<1>2. QED
  BY <1>1, StepRefines, OwnerInvariant, PTL DEF QSpec, ImplementsStore, Store!MSpec
=============================================================================
