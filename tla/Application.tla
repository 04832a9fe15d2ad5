------------------------------ MODULE Application ------------------------------
(***************************************************************************)
(* The application of the nRF Cloud gateway, application.c with            *)
(* location_tracking.c: the main thread that samples and counts, pauses    *)
(* when the device was deleted from its account and resumes, composed with *)
(* the shadow (module ShadowConfig) that switches its test counter, and    *)
(* with what the connection tells it (CLOUD_READY is session "ready";      *)
(* module CloudConnection has the connection itself).                      *)
(*                                                                         *)
(* Messages go to module MessageQueue's queue; here it matters only that   *)
(* the thread samples and counts.  Time is left out: timers run out.       *)
(***************************************************************************)
EXTENDS ShadowConfig

VARIABLES
  app,              \* where main_application_thread_fn() is
  tracking,         \* a periodic location request is running
  device_deleted,
  account           \* the cloud's: "expelling" until the device is disconnected

avars == <<app, tracking, device_deleted, account>>
vars  == <<svars, avars>>

Places == {"AwaitReady", "AwaitTime", "Track", "Sample", "Count", "Sync",
           "Deleted", "Paused"}

\* Only the MQTT build learns of its deletion, and a connection that answered is
\* never taken for one of a deleted device; and the shadow's messages are of
\* this session once it was accepted.
AppInv ==
  /\ STypeOK
  /\ app \in Places
  /\ tracking \in BOOLEAN /\ device_deleted \in BOOLEAN
  /\ account \in {"associated", "expelling", "none"}
  /\ device_deleted => protocol = "MQTT"
  /\ session \in {"asked", "ready"} /\ device_deleted => account = "expelling"
  /\ Fresh

Init ==
  /\ SInit
  /\ app = "AwaitReady" /\ tracking = FALSE
  /\ device_deleted = FALSE /\ account = "associated"

-----------------------------------------------------------------------------
(* The main thread *)

Go(from, to) ==
  /\ app = from /\ app' = to
  /\ UNCHANGED <<protocol, session, device, cloud, unsure, wanted, edits,
                 device_deleted, account>>

Ready == session = "ready"

\* The first connection, and the startup alert.
FirstReady == Go("AwaitReady", "AwaitTime") /\ Ready /\ UNCHANGED <<tracking, faults>>

\* The time is known or the wait for it times out, "Proceeding anyways".
AwaitTime == Go("AwaitTime", "Track") /\ UNCHANGED <<tracking, faults>>

\* start_location_tracking(): a failure is ignored.
Track ==
  /\ Go("Track", "Sample")
  /\ \/ tracking' = TRUE /\ UNCHANGED faults
     \/ Fault /\ UNCHANGED tracking

\* test_counter_enable_get(); CONFIG_TEST_COUNTER is n.
Counting == test_counter_enabled = "on"

\* The temperature is sampled, then the test counter sent if it is enabled;
\* a sample that cannot be taken, stamped or queued is dropped.
Sample ==
  /\ Go("Sample", IF Counting THEN "Count" ELSE "Sync")
  /\ UNCHANGED <<tracking, faults>>

\* test_counter_send()
Count == Go("Count", "Sync") /\ UNCHANGED <<tracking, faults>>

\* When the timer has run out, CLOUD_READY and device_deleted are read in turn.
Sync ==
  /\ Go("Sync", IF Ready THEN "Sample" ELSE "Deleted")
  /\ UNCHANGED <<tracking, faults>>

\* Mutant: the sensors go on.
NeverPause == Go("Deleted", "Sample") /\ UNCHANGED <<tracking, faults>>

\* Whether location_request_cancel() succeeds is not looked at.
Pause ==
  \/ /\ device_deleted
     /\ Go("Deleted", "Paused")
     /\ \/ tracking' = FALSE /\ UNCHANGED faults
        \/ Fault /\ UNCHANGED tracking
  \/ /\ ~device_deleted
     /\ Go("Deleted", "Sample")
     /\ UNCHANGED <<tracking, faults>>

\* Mutant: tracking and sampling do not start again.
StayPaused == Go("Paused", "Paused") /\ UNCHANGED <<tracking, faults>>

Resume == Go("Paused", "Track") /\ Ready /\ UNCHANGED <<tracking, faults>>

MainThread ==
  FirstReady \/ AwaitTime \/ Track \/ Sample \/ Count \/ Sync \/ Pause \/ Resume

-----------------------------------------------------------------------------
(* The connection and the account *)

\* RX_DATA_DISCON, which only the MQTT build gets and only while connected.
UserDeletes ==
  /\ protocol = "MQTT" /\ account = "associated"
  /\ Fault
  /\ account' = IF session = "off" THEN "none" ELSE "expelling"
  /\ device_deleted' = (device_deleted \/ session # "off")
  /\ UNCHANGED <<protocol, session, device, cloud, unsure, wanted, edits, app, tracking>>

UserAdds ==
  /\ account = "none"
  /\ account' = "associated"
  /\ UNCHANGED <<svars, app, tracking, device_deleted>>

\* Mutant: the flag survives the new association.
AnswersDeleted ==
  /\ CloudAnswers
  /\ account = "associated"
  /\ UNCHANGED avars

\* The cloud answers an associated device only; NRF_CLOUD_EVT_USER_ASSOCIATED
\* comes first.
Answers ==
  /\ CloudAnswers
  /\ account = "associated"
  /\ device_deleted' = FALSE
  /\ UNCHANGED <<app, tracking, account>>

Gone == account' = IF account = "expelling" THEN "none" ELSE account

\* The cloud closes the connection of a device it deleted.
Expelled ==
  /\ account = "expelling"
  /\ Lost /\ Gone
  /\ unsure' = FALSE
  /\ UNCHANGED <<protocol, device, desired, reported, wanted, edits, faults,
                 app, tracking, device_deleted>>

\* The network, the cloud, or a transport error that some thread detects.
Dropped == Drop /\ Gone /\ UNCHANGED <<app, tracking, device_deleted>>

\* Among its causes is an update that was installed or downloaded.
Restart ==
  /\ Reboot /\ Gone
  /\ app' = "AwaitReady" /\ tracking' = FALSE /\ device_deleted' = FALSE

Next ==
  \/ MainThread
  \/ ShadowNext /\ UNCHANGED avars
  \/ UserDeletes \/ UserAdds \/ Answers \/ Expelled \/ Dropped \/ Restart

\* The threads and the library run, the cloud answers and the connection
\* thread reconnects (module CloudConnection).  What users do, drops, failures
\* and resets need not happen.
Fairness ==
  /\ WF_vars(MainThread)
  /\ WF_vars(ShadowHandler /\ UNCHANGED avars)
  /\ WF_vars(PollThread /\ UNCHANGED avars)
  /\ WF_vars(CloudConnected /\ UNCHANGED avars)
  /\ WF_vars(LibReady /\ UNCHANGED avars)
  /\ WF_vars(CloudUpdates /\ UNCHANGED avars)
  /\ WF_vars(Answers)
  /\ WF_vars(Expelled)

FairSpec == Init /\ [][Next]_vars /\ Fairness

-----------------------------------------------------------------------------
(* Properties *)

\* main_application_thread_fn(): a device that was told it is deleted stops
\* sampling, wherever its main thread was, unless it is associated again.
PausesWhenDeleted ==
  device_deleted ~> app \in {"Paused", "AwaitReady"} \/ ~device_deleted

\* README: once the device stays in an account and its user stops editing, the
\* applied, the reported and the desired configuration end up equal whatever
\* crossed on the way, unless a report failed or crossed an edit and no later
\* connection made up for it.
ConfigConverges == <>[](~unsure /\ account = "associated") => <>[]Agree

\* README: "set counterEnable to true to enable or false to disable the test
\* counter".  Under the same conditions the messages of the main thread follow
\* the user's wish, through pauses, reconnections and resets.
CounterFollowsShadow ==
  <>[](~unsure /\ account = "associated") =>
    /\ <>[](desired = "on") => []<>(app = "Count")
    /\ <>[](desired = "off") => <>[](app # "Count")
=============================================================================
