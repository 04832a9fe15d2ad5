---------------------------- MODULE MessageQueue ----------------------------
(***************************************************************************)
(* message_queue.c of the nRF Cloud gateway: producers (any thread, through*)
(* send_device_message) and the one consumer (message_queue_thread_fn)     *)
(* around a bounded Zephyr queue.  A message is <<producer, number>>; what *)
(* the model follows is who owns it, from the allocation to the one free.  *)
(*                                                                         *)
(* enqueue_device_message() looks at the number of queued messages first   *)
(* and puts afterwards, without waiting: another producer may fill the     *)
(* queue in between, for a producer and for a retry alike.                 *)
(***************************************************************************)
EXTENDS Integers, Sequences

CONSTANTS
  Producers,     \* the threads that submit messages
  MaxMessages,   \* bound on the messages of each producer
  Capacity,      \* CONFIG_MAX_OUTGOING_MESSAGES
  MaxFailures,   \* CONFIG_MAX_CONSECUTIVE_SEND_FAILURES
  NoMessage

Messages == Producers \X (1..MaxMessages)

ASSUME QueueAssumption ==
  /\ MaxMessages \in Nat
  /\ Capacity \in Nat \ {0}
  /\ MaxFailures \in Nat
  /\ NoMessage \notin Messages

VARIABLES
  queue,      \* device_message_queue
  stage,      \* where each producer is in send_device_message()
  submitted,  \* the number of messages each producer made
  place,      \* where the message thread is
  held,       \* queued_msg, the message it took
  failures,   \* send_failure_count, not followed beyond MaxFailures + 1
  ready,      \* CLOUD_READY
  sent, discarded, rejected,   \* what became of messages that were freed
  tried                        \* messages in the order of their first attempt

queueVars == <<queue, stage, submitted, place, held, failures,
               sent, discarded, rejected, tried>>

qvars == <<queueVars, ready>>

Places == {"Get", "AwaitReady", "Send", "RetryTest", "RetryPut",
           "Disconnect", "Disconnecting", "Cooldown"}

Stages == {"idle", "Test", "Allocate", "Put"}

QTypeOK ==
  /\ queue \in Seq(Messages)
  /\ stage \in [Producers -> Stages]
  /\ submitted \in [Producers -> 0..MaxMessages]
  /\ place \in Places
  /\ held \in Messages \cup {NoMessage}
  /\ failures \in 0..(MaxFailures + 1)
  /\ ready \in BOOLEAN
  /\ sent \in SUBSET Messages
  /\ discarded \in SUBSET Messages
  /\ rejected \in SUBSET Messages
  /\ tried \in Seq(Messages)

\* What MessageQueue starts from, whatever sets CLOUD_READY.
QueueInit ==
  /\ queue = <<>>
  /\ stage = [p \in Producers |-> "idle"]
  /\ submitted = [p \in Producers |-> 0]
  /\ place = "Get"
  /\ held = NoMessage
  /\ failures = 0
  /\ sent = {}
  /\ discarded = {}
  /\ rejected = {}
  /\ tried = <<>>

QInit == QueueInit /\ ready = FALSE

Full == Len(queue) = Capacity

-----------------------------------------------------------------------------
(* send_device_message(), by a producer *)

\* The message that p is submitting.
Current(p) == <<p, submitted[p]>>

producing == <<place, held, failures, sent, discarded, tried, ready>>

Submit(p) ==
  /\ stage[p] = "idle"
  /\ submitted[p] < MaxMessages
  /\ submitted' = [submitted EXCEPT ![p] = @ + 1]
  /\ stage' = [stage EXCEPT ![p] = "Test"]
  /\ UNCHANGED <<queue, rejected, producing>>

\* A message that cannot be stamped or filled is freed by who made it.
NotFilled(p) ==
  /\ stage[p] = "idle"
  /\ submitted[p] < MaxMessages
  /\ submitted' = [submitted EXCEPT ![p] = @ + 1]
  /\ rejected' = rejected \cup {<<p, submitted[p] + 1>>}
  /\ UNCHANGED <<queue, stage, producing>>

\* The message is freed by send_device_message().
Reject(p) ==
  /\ stage' = [stage EXCEPT ![p] = "idle"]
  /\ rejected' = rejected \cup {Current(p)}

TestSpace(p) ==
  /\ stage[p] = "Test"
  /\ IF Full THEN Reject(p)
             ELSE stage' = [stage EXCEPT ![p] = "Allocate"] /\ UNCHANGED rejected
  /\ UNCHANGED <<queue, submitted, producing>>

\* k_malloc() may fail.
Allocate(p) ==
  /\ stage[p] = "Allocate"
  /\ \/ Reject(p)
     \/ stage' = [stage EXCEPT ![p] = "Put"] /\ UNCHANGED rejected
  /\ UNCHANGED <<queue, submitted, producing>>

\* k_msgq_put(..., K_NO_WAIT)
Put(p) ==
  /\ stage[p] = "Put"
  /\ IF Full
     THEN Reject(p) /\ UNCHANGED queue
     ELSE /\ queue' = Append(queue, Current(p))
          /\ stage' = [stage EXCEPT ![p] = "idle"]
          /\ UNCHANGED rejected
  /\ UNCHANGED <<submitted, producing>>

-----------------------------------------------------------------------------
(* consume_device_message(), on the message thread *)

consuming == <<stage, submitted, rejected, ready>>

\* Mutant: the newest message is taken.
GetNewest ==
  /\ place = "Get"
  /\ queue # <<>>
  /\ held' = queue[Len(queue)]
  /\ queue' = SubSeq(queue, 1, Len(queue) - 1)
  /\ place' = "AwaitReady"
  /\ UNCHANGED <<failures, sent, discarded, tried, consuming>>

Get ==
  /\ place = "Get"
  /\ queue # <<>>
  /\ held' = Head(queue)
  /\ queue' = Tail(queue)
  /\ place' = "AwaitReady"
  /\ UNCHANGED <<failures, sent, discarded, tried, consuming>>

AwaitReady ==
  /\ place = "AwaitReady"
  /\ ready
  /\ place' = "Send"
  /\ UNCHANGED <<queue, held, failures, sent, discarded, tried, consuming>>

NoteAttempt ==
  tried' = IF \E i \in DOMAIN tried : tried[i] = held THEN tried ELSE Append(tried, held)

SendSucceeds ==
  /\ place = "Send"
  /\ NoteAttempt
  /\ sent' = sent \cup {held}
  /\ held' = NoMessage
  /\ failures' = 0
  /\ place' = "Get"
  /\ UNCHANGED <<queue, discarded, consuming>>

SendFails ==
  /\ place = "Send"
  /\ NoteAttempt
  /\ place' = "RetryTest"
  /\ UNCHANGED <<queue, held, failures, sent, discarded, consuming>>

\* After the attempt to enqueue the message again, failures are counted.
CountFailure ==
  /\ failures' = IF failures > MaxFailures THEN failures ELSE failures + 1
  /\ place' = IF failures + 1 > MaxFailures THEN "Disconnect" ELSE "Get"
  /\ held' = NoMessage

Discard == discarded' = discarded \cup {held}

RetryTest ==
  /\ place = "RetryTest"
  /\ IF Full
     THEN Discard /\ CountFailure
     ELSE place' = "RetryPut" /\ UNCHANGED <<held, failures, discarded>>
  /\ UNCHANGED <<queue, sent, tried, consuming>>

\* Mutant: the queued message is freed although it was enqueued again.
RetryPutAndFree ==
  /\ place = "RetryPut"
  /\ queue' = IF Full THEN queue ELSE Append(queue, held)
  /\ Discard
  /\ CountFailure
  /\ UNCHANGED <<sent, tried, consuming>>

RetryPut ==
  /\ place = "RetryPut"
  /\ IF Full
     THEN Discard /\ UNCHANGED queue
     ELSE queue' = Append(queue, held) /\ UNCHANGED discarded
  /\ CountFailure
  /\ UNCHANGED <<sent, tried, consuming>>

DisconnectCloud ==
  /\ place = "Disconnect"
  /\ place' = "Disconnecting"
  /\ UNCHANGED <<queue, held, failures, sent, discarded, tried, consuming>>

Disconnected ==
  /\ place = "Disconnecting"
  /\ place' = "Cooldown"
  /\ UNCHANGED <<queue, held, failures, sent, discarded, tried, consuming>>

\* Mutant: the thread goes on only when its failures were forgotten.
CooldownUntilReset ==
  /\ place = "Cooldown"
  /\ failures <= MaxFailures
  /\ place' = "Get"
  /\ UNCHANGED <<queue, held, failures, sent, discarded, tried, consuming>>

\* The k_sleep() ends and consume_device_message() is called again.
Cooldown ==
  /\ place = "Cooldown"
  /\ place' = "Get"
  /\ UNCHANGED <<queue, held, failures, sent, discarded, tried, consuming>>

-----------------------------------------------------------------------------

Producer(p) == NotFilled(p) \/ Submit(p) \/ TestSpace(p) \/ Allocate(p) \/ Put(p)

Consumer ==
  \/ Get \/ AwaitReady \/ SendSucceeds \/ SendFails \/ RetryTest \/ RetryPut
  \/ DisconnectCloud \/ Disconnected \/ Cooldown

\* The cloud becomes ready, or no longer is, at any moment.
ReadinessChanges == ready' = ~ready /\ UNCHANGED queueVars

QNext == (\E p \in Producers : Producer(p)) \/ Consumer \/ ReadinessChanges

QSpec == QInit /\ [][QNext]_qvars

\* Threads run.  CLOUD_READY comes back; k_event_post() wakes a waiter that
\* finds it cleared again; and not every attempt to send fails.
QFairness ==
  /\ \A p \in Producers : WF_qvars(TestSpace(p)) /\ WF_qvars(Allocate(p)) /\ WF_qvars(Put(p))
  /\ WF_qvars(Consumer)
  /\ WF_qvars(ReadinessChanges)
  /\ SF_qvars(AwaitReady)
  /\ SF_qvars(SendSucceeds)

QFairSpec == QSpec /\ QFairness

-----------------------------------------------------------------------------
(* Properties *)

Queued == {queue[i] : i \in DOMAIN queue}
Pending == Queued \cup ({held} \ {NoMessage})
InProducer == {Current(p) : p \in {q \in Producers : stage[q] # "idle"}}
Freed == sent \cup discarded \cup rejected
Submitted == {m \in Messages : m[2] <= submitted[m[1]]}

\* Every message has exactly one owner: it is with its producer, queued
\* once, held by the message thread, or freed, and then freed once.  There
\* is no leak, no double free and no use of a message after its free.
OneOwner ==
  /\ Submitted = InProducer \cup Pending \cup Freed
  /\ InProducer \cap (Pending \cup Freed) = {}
  /\ Pending \cap Freed = {}
  /\ held \notin Queued
  /\ \A i, j \in DOMAIN queue : queue[i] = queue[j] => i = j
  /\ sent \cap discarded = {} /\ rejected \cap (sent \cup discarded) = {}

\* The queue never holds more than its capacity, however producers and
\* retries interleave between the look at its length and the put.
WithinCapacity == Len(queue) <= Capacity

\* The message thread holds a message exactly between its take and the end of
\* its attempt.
HeldWhileSending ==
  held # NoMessage <=> place \in {"AwaitReady", "Send", "RetryTest", "RetryPut"}

\* Nothing in it is inductive without the rest.
OwnerInv == QTypeOK /\ HeldWhileSending /\ OneOwner /\ WithinCapacity

Tried == {tried[i] : i \in DOMAIN tried}

Earlier(m, n) == m[1] = n[1] => m[2] < n[2]

\* The messages of s outside done are in the order of submission.
Ordered(s, done) ==
  \A i, j \in DOMAIN s :
    i < j /\ s[i] \notin done /\ s[j] \notin done => Earlier(s[i], s[j])

\* A message that was not tried yet has every tried message of its producer
\* before it and none of its untried ones ahead of it.
AttemptOrder ==
  /\ Tried \subseteq Pending \cup Freed
  /\ \A m \in Pending \ Tried : \A t \in Tried : Earlier(t, m)
  /\ Ordered(queue, Tried)
  /\ held \in Messages \ Tried => \A m \in Queued \ Tried : Earlier(held, m)
  /\ place \in {"RetryTest", "RetryPut"} => held \in Tried

\* The inductive invariant.
QueueInv == OwnerInv /\ AttemptOrder

\* Among the messages of one producer the first attempts are in the order
\* of submission, although retries go to the back of the queue.
FirstAttemptsInOrder ==
  \A i, j \in DOMAIN tried :
    i < j /\ tried[i][1] = tried[j][1] => tried[i][2] < tried[j][2]

\* A message in the queue or with the message thread is in the end sent or
\* discarded: no message waits forever behind failures and reconnections.
EveryMessageSettles == \A m \in Messages : m \in Pending ~> m \in Freed

\* README: "If an enqueued message fails to send, it will be sent back to
\* the queue and tried again later."
FailedMessagesAreKept == discarded = {}

\* The queue keeps the promise of a bounded store (module MessageStore).
Store == INSTANCE MessageStore WITH pending <- Pending, lost <- discarded
ImplementsStore == Store!MSpec
=============================================================================
