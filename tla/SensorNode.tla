----------------------------- MODULE SensorNode -----------------------------
(***************************************************************************)
(* The v12 rain-water sensor node: v12.ino (setup, loop and the interrupt  *)
(* handlers), InterruptManager.cpp, Logger.cpp, NotecardManager.cpp and    *)
(* RTCManager.cpp.                                                         *)
(*                                                                         *)
(* One thread runs loop(); interrupts run between any two of its steps and *)
(* are the only concurrency.  pc names the place the loop has reached.     *)
(* The four digital inputs (leaf, two floats, chlorine switch) are one     *)
(* abstract value: the code only copies them into a row.  The analog       *)
(* readings are reduced to whether the 5 V rail was up when they were      *)
(* taken.  Time is in seconds, as getEpoch() returns it.                   *)
(***************************************************************************)
EXTENDS Integers, Sequences

CONSTANTS
  PinStates,       \* the values the digital inputs can have together
  BootEpoch,       \* the time rtcManager.begin() gives the clock at each boot
  BucketResetGap,  \* BUCKET_RESET_MS / 1000
  DebounceGap,     \* the literal 2 of the digital branch
  Limit            \* how often each stimulus happens (bounds a TLC run)

Stimuli == {"tip", "pin", "rtc", "glitch", "clock", "reset"}

ASSUME PinAssumption == PinStates # {}

\* The clock starts in July 2026, so far beyond both gaps.
ASSUME TimeAssumption ==
  /\ BucketResetGap \in Nat
  /\ DebounceGap \in Nat \ {0}
  /\ BootEpoch \in Nat
  /\ BootEpoch > BucketResetGap
  /\ BootEpoch >= DebounceGap

ASSUME LimitAssumption == Limit \in [Stimuli -> Nat]

VARIABLES
  \* the loop's thread
  pc, todo, mode, currentEpoch, data,
  \* shared with the interrupt handlers
  bucketCount, flag_event_change, rtcTriggered,
  \* other variables in RAM
  globalRecordID, lastDigitalProcessEpoch,
  \* the board: 5 V rail, watchdog, SD card, PCF8523 timer and its INT line
  rail, watchdog, sdUp, rtcArmed, rtcLow,
  \* the outside: the inputs and the time
  pins, epoch,
  \* the rows that reached the SD card and the Notecard
  sd, notes,
  \* observers: time of the last tip, a debounced event not yet sampled,
  \* and the stimuli so far
  lastTip, debounced, used

thread  == <<pc, todo, mode, currentEpoch, data>>
shared  == <<bucketCount, flag_event_change, rtcTriggered>>
statics == <<globalRecordID, lastDigitalProcessEpoch>>
board   == <<rail, watchdog, sdUp, rtcArmed, rtcLow>>
outside == <<pins, epoch>>
stores  == <<sd, notes>>
ghosts  == <<lastTip, debounced, used>>
vars == <<thread, shared, statics, board, outside, stores, ghosts>>

Places == {"Setup", "AckTimer", "PollDigital", "PollRtc", "Dispatch",
           "BucketCheck", "BucketZero", "Debounce", "PowerOn", "Sample",
           "PowerOff", "WriteSD", "AddNote", "ResetTimer", "Disarm",
           "SleepCheck", "Doze", "Asleep", "Rearm"}

Modes == {"DIG", "RTC"}

boot == used["reset"]

\* SensorDataBatch.  boot is not in the code: it tells the rows of different
\* power cycles apart.
Row == [boot: Nat, recordID: Nat \ {0}, epoch: Nat, bucket: Nat,
        pins: PinStates, kind: Modes, analog: {"zero", "powered", "unpowered"}]

NoRow == [recordID |-> 0]

TypeOK ==
  /\ pc \in Places
  /\ todo \in SUBSET Modes
  /\ mode \in Modes
  /\ currentEpoch \in Nat
  /\ data \in Row \cup {NoRow}
  /\ bucketCount \in Nat
  /\ flag_event_change \in BOOLEAN
  /\ rtcTriggered \in BOOLEAN
  /\ globalRecordID \in Nat
  /\ lastDigitalProcessEpoch \in Nat
  /\ rail \in BOOLEAN
  /\ watchdog \in BOOLEAN
  /\ sdUp \in BOOLEAN
  /\ rtcArmed \in BOOLEAN
  /\ rtcLow \in BOOLEAN
  /\ pins \in PinStates
  /\ epoch \in Nat
  /\ sd \in Seq(Row)
  /\ notes \in Seq(Row)
  /\ lastTip \in Nat
  /\ debounced \in BOOLEAN
  /\ used \in [Stimuli -> Nat]

\* RAM holds the initialisers of v12.ino and of the function statics.
Init ==
  /\ pc = "Setup" /\ todo = {} /\ mode = "DIG" /\ currentEpoch = 0
  /\ data = NoRow
  /\ bucketCount = 0 /\ flag_event_change = FALSE /\ rtcTriggered = FALSE
  /\ globalRecordID = 0 /\ lastDigitalProcessEpoch = 0
  /\ rail = FALSE /\ watchdog = FALSE /\ sdUp = FALSE
  /\ rtcArmed = FALSE /\ rtcLow = FALSE
  /\ pins \in PinStates /\ epoch = BootEpoch
  /\ sd = <<>> /\ notes = <<>>
  /\ lastTip = 0 /\ debounced = FALSE /\ used = [s \in Stimuli |-> 0]

Goto(from, to) == pc = from /\ pc' = to

-----------------------------------------------------------------------------
(* setup() *)

\* logger.begin(): a card that does not answer, or a log file that cannot be
\* made, is reported and setup() goes on.
SdBegin == sdUp' \in BOOLEAN

\* rtcManager.begin(): sets the clock and arms timer B once; a PCF8523 that
\* does not answer keeps the timer configuration it had.
RtcBegin ==
  /\ epoch' = BootEpoch
  /\ rtcArmed' \in {rtcArmed, TRUE}

\* setup() up to the attachInterruptWakeup calls.
Setup ==
  /\ Goto("Setup", "AckTimer")
  /\ watchdog' = TRUE
  /\ SdBegin
  /\ RtcBegin
  /\ rail' = FALSE
  /\ UNCHANGED <<todo, mode, currentEpoch, data, shared, statics, rtcLow,
                 pins, stores, ghosts>>

\* resetTimer(): the PCF8523 flag is cleared, which releases the INT line,
\* unless the I2C transfer fails; the result is ignored.
AckRtc == rtcLow' \in {FALSE, rtcLow}

AckTimer ==
  /\ Goto("AckTimer", "PollDigital")
  /\ AckRtc
  /\ UNCHANGED <<todo, mode, currentEpoch, data, shared, statics, rail,
                 watchdog, sdUp, rtcArmed, outside, stores, ghosts>>

-----------------------------------------------------------------------------
(* loop() *)

\* processDIG and processRTC are the members of todo.
PollDigital ==
  /\ Goto("PollDigital", "PollRtc")
  /\ todo' = IF flag_event_change THEN {"DIG"} ELSE {}
  /\ flag_event_change' = FALSE
  /\ UNCHANGED <<mode, currentEpoch, data, bucketCount, rtcTriggered, statics,
                 board, outside, stores, ghosts>>

PollRtc ==
  /\ Goto("PollRtc", "Dispatch")
  /\ todo' = IF rtcTriggered THEN todo \cup {"RTC"} ELSE todo
  /\ rtcTriggered' = FALSE
  /\ UNCHANGED <<mode, currentEpoch, data, bucketCount, flag_event_change,
                 statics, board, outside, stores, ghosts>>

\* Calls processEventAndLog for what is left to do, the digital event first.
Dispatch ==
  /\ pc = "Dispatch"
  /\ \/ /\ todo = {}
        /\ pc' = "Disarm"
        /\ UNCHANGED <<todo, mode, currentEpoch>>
     \/ \E m \in todo :
          /\ m = "RTC" => todo = {"RTC"}
          /\ mode' = m
          /\ todo' = todo \ {m}
          /\ currentEpoch' = epoch
          /\ pc' = "BucketCheck"
  /\ UNCHANGED <<data, shared, statics, board, outside, stores, ghosts>>

Disarm ==
  /\ Goto("Disarm", "SleepCheck")
  /\ watchdog' = FALSE
  /\ UNCHANGED <<todo, mode, currentEpoch, data, shared, statics, rail, sdUp,
                 rtcArmed, rtcLow, outside, stores, ghosts>>

\* Mutant: goes to sleep without looking.
SleepCheckBlind ==
  /\ Goto("SleepCheck", "Doze")
  /\ UNCHANGED <<todo, mode, currentEpoch, data, shared, statics, board,
                 outside, stores, ghosts>>

SleepCheck ==
  /\ pc = "SleepCheck"
  /\ pc' = IF rtcTriggered \/ flag_event_change THEN "Rearm" ELSE "Doze"
  /\ UNCHANGED <<todo, mode, currentEpoch, data, shared, statics, board,
                 outside, stores, ghosts>>

\* LowPower.sleep(): the flags are not looked at again.
Doze ==
  /\ Goto("Doze", "Asleep")
  /\ UNCHANGED <<todo, mode, currentEpoch, data, shared, statics, board,
                 outside, stores, ghosts>>

Rearm ==
  /\ Goto("Rearm", "PollDigital")
  /\ watchdog' = TRUE
  /\ UNCHANGED <<todo, mode, currentEpoch, data, shared, statics, rail, sdUp,
                 rtcArmed, rtcLow, outside, stores, ghosts>>

-----------------------------------------------------------------------------
(* processEventAndLog() *)

\* A function static that nothing assigns.
lastBucketEpoch == 0

\* Mutant: the branches are exchanged.
BranchSwapped == IF mode = "DIG" THEN "PowerOn" ELSE "Debounce"

Branch == IF mode = "RTC" THEN "PowerOn" ELSE "Debounce"

\* The test and the store are apart: a tip may come between them.
BucketCheck ==
  /\ pc = "BucketCheck"
  /\ pc' = IF bucketCount > 0 /\ currentEpoch - lastBucketEpoch > BucketResetGap
             THEN "BucketZero" ELSE Branch
  /\ UNCHANGED <<todo, mode, currentEpoch, data, shared, statics, board,
                 outside, stores, ghosts>>

BucketZero ==
  /\ Goto("BucketZero", Branch)
  /\ bucketCount' = 0
  /\ UNCHANGED <<todo, mode, currentEpoch, data, flag_event_change,
                 rtcTriggered, statics, board, outside, stores, ghosts>>

\* "Digital int rejected. Too fast!": the event is dropped.
Reject ==
  /\ Goto("Debounce", "Dispatch")
  /\ currentEpoch - lastDigitalProcessEpoch < DebounceGap
  /\ debounced' = TRUE
  /\ UNCHANGED <<todo, mode, currentEpoch, data, shared, statics, board,
                 outside, stores, lastTip, used>>

Accept ==
  /\ Goto("Debounce", "Sample")
  /\ currentEpoch - lastDigitalProcessEpoch >= DebounceGap
  /\ lastDigitalProcessEpoch' = currentEpoch
  /\ UNCHANGED <<todo, mode, currentEpoch, data, shared, globalRecordID, board,
                 outside, stores, ghosts>>

PowerOn ==
  /\ Goto("PowerOn", "Sample")
  /\ rail' = TRUE
  /\ UNCHANGED <<todo, mode, currentEpoch, data, shared, statics, watchdog,
                 sdUp, rtcArmed, rtcLow, outside, stores, ghosts>>

\* Mutants: the number is not advanced; it is kept in one bit.
RecordIDStuck == globalRecordID
RecordIDNarrow == (globalRecordID + 1) % 2

NextRecordID == globalRecordID + 1

\* Fills the SensorDataBatch; the digital branch leaves the analog fields 0.
Sample ==
  /\ pc = "Sample"
  /\ pc' = IF mode = "RTC" THEN "PowerOff" ELSE "WriteSD"
  /\ globalRecordID' = NextRecordID
  /\ data' = [boot |-> boot, recordID |-> NextRecordID,
              epoch |-> currentEpoch, bucket |-> bucketCount,
              pins |-> pins, kind |-> mode,
              analog |-> IF mode = "DIG" THEN "zero"
                         ELSE IF rail THEN "powered" ELSE "unpowered"]
  /\ debounced' = FALSE
  /\ UNCHANGED <<todo, mode, currentEpoch, shared, lastDigitalProcessEpoch,
                 board, outside, stores, lastTip, used>>

PowerOff ==
  /\ Goto("PowerOff", "WriteSD")
  /\ rail' = FALSE
  /\ UNCHANGED <<todo, mode, currentEpoch, data, shared, statics, watchdog,
                 sdUp, rtcArmed, rtcLow, outside, stores, ghosts>>

\* logger.writeToSD(): its result is ignored.
WriteSD ==
  /\ Goto("WriteSD", "AddNote")
  /\ \/ sdUp /\ sd' = Append(sd, data)
     \/ sd' = sd
  /\ UNCHANGED <<todo, mode, currentEpoch, data, shared, statics, board,
                 outside, notes, ghosts>>

\* Mutant: the flag is cleared when the work is done, as the commented-out
\* line at the end of the branch would.
AddNoteThenClear ==
  /\ Goto("AddNote", IF mode = "RTC" THEN "ResetTimer" ELSE "Dispatch")
  /\ notes' \in {Append(notes, data), notes}
  /\ flag_event_change' = FALSE
  /\ UNCHANGED <<todo, mode, currentEpoch, data, bucketCount, rtcTriggered,
                 statics, board, outside, sd, ghosts>>

\* notecardManager.addSensorData(): its result is ignored too.
AddNote ==
  /\ Goto("AddNote", IF mode = "RTC" THEN "ResetTimer" ELSE "Dispatch")
  /\ notes' \in {Append(notes, data), notes}
  /\ UNCHANGED <<todo, mode, currentEpoch, data, shared, statics, board,
                 outside, sd, ghosts>>

ResetTimer ==
  /\ Goto("ResetTimer", "Dispatch")
  /\ AckRtc
  /\ UNCHANGED <<todo, mode, currentEpoch, data, shared, statics, rail,
                 watchdog, sdUp, rtcArmed, outside, stores, ghosts>>

-----------------------------------------------------------------------------
(* Interrupts and the outside *)

Use(s) == used[s] < Limit[s] /\ used' = [used EXCEPT ![s] = @ + 1]

\* The handlers are attached at the end of setup().
Attached == pc # "Setup"

\* An interrupt ends LowPower.sleep().
Wake == pc' = IF pc = "Asleep" THEN "Rearm" ELSE pc

isr_generic == flag_event_change' = (flag_event_change \/ Attached)

isr_bucket ==
  /\ bucketCount' = IF Attached THEN bucketCount + 1 ELSE bucketCount
  /\ flag_event_change' = (flag_event_change \/ Attached)

\* low is the level of the INT line when the handler reads it.
isr_rtc(low) == rtcTriggered' = (rtcTriggered \/ (Attached /\ low))

BucketTip ==
  /\ Use("tip")
  /\ isr_bucket
  /\ Wake
  /\ lastTip' = epoch
  /\ UNCHANGED <<todo, mode, currentEpoch, data, rtcTriggered, statics, board,
                 outside, stores, debounced>>

PinChange ==
  /\ Use("pin")
  /\ pins' \in PinStates \ {pins}
  /\ isr_generic
  /\ Wake
  /\ UNCHANGED <<todo, mode, currentEpoch, data, bucketCount, rtcTriggered,
                 statics, board, epoch, stores, lastTip, debounced>>

\* Timer B reloads by itself and pulls INT low; only a falling edge counts.
RtcTick ==
  /\ Use("rtc")
  /\ rtcArmed
  /\ rtcLow' = TRUE
  /\ IF rtcLow THEN UNCHANGED <<pc, rtcTriggered>> ELSE isr_rtc(TRUE) /\ Wake
  /\ UNCHANGED <<todo, mode, currentEpoch, data, bucketCount,
                 flag_event_change, statics, rail, watchdog, sdUp, rtcArmed,
                 outside, stores, lastTip, debounced>>

\* The INT pulse ends by itself when nobody clears the flag.
RtcPulseEnd ==
  /\ rtcLow
  /\ rtcLow' = FALSE
  /\ UNCHANGED <<thread, shared, statics, rail, watchdog, sdUp, rtcArmed,
                 outside, stores, ghosts>>

\* An edge that is over when the handler reads the line: not a timer event.
RtcGlitch ==
  /\ Use("glitch")
  /\ ~rtcLow
  /\ isr_rtc(rtcLow)
  /\ Wake
  /\ UNCHANGED <<todo, mode, currentEpoch, data, bucketCount,
                 flag_event_change, statics, board, outside, stores,
                 lastTip, debounced>>

Clock ==
  /\ Use("clock")
  /\ epoch' = epoch + 1
  /\ UNCHANGED <<thread, shared, statics, board, pins, stores, lastTip,
                 debounced>>

\* RAM is lost; the PCF8523, the SD card and the Notecard keep their state.
Reboot ==
  /\ Use("reset")
  /\ pc' = "Setup" /\ todo' = {} /\ mode' = "DIG" /\ currentEpoch' = 0
  /\ data' = NoRow
  /\ bucketCount' = 0 /\ flag_event_change' = FALSE /\ rtcTriggered' = FALSE
  /\ globalRecordID' = 0 /\ lastDigitalProcessEpoch' = 0
  /\ watchdog' = FALSE /\ sdUp' = FALSE /\ debounced' = FALSE
  /\ UNCHANGED <<rtcArmed, rtcLow, outside, stores, lastTip>>

PowerLoss == Reboot /\ rail' = FALSE

\* The enable pin floats until setup() drives it low.
WatchdogBite == watchdog /\ Reboot /\ rail' \in {FALSE, rail}

-----------------------------------------------------------------------------

Loop ==
  \/ Setup \/ AckTimer \/ PollDigital \/ PollRtc \/ Dispatch \/ Disarm
  \/ SleepCheck \/ Doze \/ Rearm
  \/ BucketCheck \/ BucketZero \/ Reject \/ Accept \/ PowerOn \/ Sample
  \/ PowerOff \/ WriteSD \/ AddNote \/ ResetTimer

Outside ==
  \/ BucketTip \/ PinChange \/ RtcTick \/ RtcPulseEnd \/ RtcGlitch
  \/ Clock \/ PowerLoss \/ WatchdogBite

Next == Loop \/ Outside

Spec == Init /\ [][Next]_vars

-----------------------------------------------------------------------------
(* Properties *)

RowsOf(store) == {store[i] : i \in DOMAIN store}

\* The 5 V rail is up only inside one timer-driven call, between powerOn() and
\* powerOff() (or, after a watchdog reset, until setup() pulls it down): it is
\* never left on across a sleep, whatever the interrupts do.
RailDiscipline ==
  rail => \/ pc = "Setup"
          \/ pc \in {"Sample", "PowerOff"} /\ mode = "RTC"

WellPowered(r) == r.analog = IF r.kind = "RTC" THEN "powered" ELSE "zero"

\* The watchdog runs while the node works and is off while it may sleep: the
\* 16 s timeout is shorter than the 35 s between two timer ticks.
WatchdogDiscipline ==
  watchdog <=> pc \notin {"Setup", "SleepCheck", "Doze", "Asleep", "Rearm"}

InOrder(store) ==
  \A i, j \in DOMAIN store :
    i < j => \/ store[i].boot < store[j].boot
             \/ /\ store[i].boot = store[j].boot
                /\ store[i].recordID < store[j].recordID
                /\ store[i].epoch <= store[j].epoch

\* Within one power cycle the record numbers of each store strictly increase
\* and the times never go back, across failed writes and interrupts.
RowsInOrder == InOrder(sd) /\ InOrder(notes)

\* A record number names one record: the SD row and the note that carry the
\* same number (of the same power cycle) are the same row, whichever writes
\* failed in between.
StoresAgree ==
  \A r \in RowsOf(sd), n \in RowsOf(notes) :
    r.boot = n.boot /\ r.recordID = n.recordID => r = n

\* The digital branch has the event in hand but has not sampled yet.
DigitalInProgress ==
  /\ mode = "DIG"
  /\ pc \in {"BucketCheck", "BucketZero", "Debounce", "Sample"}

\* The inputs differ from those of the last row only while a digital event is
\* flagged, claimed or in progress, or after one was rejected as too fast:
\* clearing the flag before the work, not after it, loses no change.
ChangesArePending ==
  data # NoRow /\ data.pins # pins =>
    \/ flag_event_change
    \/ "DIG" \in todo
    \/ DigitalInProgress
    \/ debounced

\* GlobalVars.h: "Reset tipping bucket counter after inactivity".  Apart from
\* a reboot the counter goes down only when the last tip is older than
\* BUCKET_RESET_MS.
CounterKeptWhileItRains ==
  [][bucketCount' < bucketCount /\ pc' # "Setup"
       => epoch - lastTip > BucketResetGap]_vars

\* The node as WakeLoop sees it: what processEventAndLog has in hand and not
\* sampled or rejected yet is claimed work.
BeforeSample == {"BucketCheck", "BucketZero", "Debounce", "PowerOn", "Sample"}

Phase ==
  CASE pc = "Setup"  -> "boot"
    [] pc = "Doze"   -> "doze"
    [] pc = "Asleep" -> "asleep"
    [] OTHER         -> "run"

Claimed == IF pc \in BeforeSample THEN todo \cup {mode} ELSE todo

SampledPins == IF data = NoRow THEN NoRow ELSE data.pins

Loops == INSTANCE WakeLoop WITH
  NoSample <- NoRow, MaxResets <- Limit["reset"], phase <- Phase,
  dig <- flag_event_change, rtc <- rtcTriggered, work <- Claimed,
  seen <- SampledPins, resets <- used["reset"]

\* Every step of the firmware, with all its interleavings of interrupts and
\* resets, is a step of WakeLoop or changes nothing WakeLoop sees.
ImplementsWakeLoop == Loops!WSpec

-----------------------------------------------------------------------------
(* The inductive invariant that the proofs of SensorNodeProofs rest on. *)

\* Where the loop is decides which branch it is in, whether a row is being
\* built and whether work is left.
Flow ==
  /\ pc \in {"PowerOn", "PowerOff", "ResetTimer"} => mode = "RTC"
  /\ pc = "Debounce" => mode = "DIG"
  /\ pc \in {"PowerOff", "WriteSD", "AddNote"} => data \in Row
  /\ pc \in {"Setup", "AckTimer", "PollDigital", "Disarm", "SleepCheck",
             "Doze", "Asleep", "Rearm"} => todo = {}

RailUpForAnalog == pc = "Sample" /\ mode = "RTC" => rail

\* Every row has analog readings exactly when it is a timer row, and they were
\* taken with the sensors powered (processEventAndLog's two branches).
RowsArePowered ==
  /\ \A i \in DOMAIN sd : WellPowered(sd[i])
  /\ \A i \in DOMAIN notes : WellPowered(notes[i])
  /\ data \in Row => WellPowered(data)

\* Until setup() is over RAM holds its initialisers.
RamIsBlank == pc = "Setup" => data = NoRow /\ currentEpoch = 0

\* An event in hand is not left to do as well.
ClaimedOnce == pc \in BeforeSample => mode \notin todo

\* The row under construction is the newest one.
NewestRow ==
  /\ currentEpoch <= epoch
  /\ data \in Row => /\ data.boot = boot
                     /\ data.recordID = globalRecordID
                     /\ data.epoch <= currentEpoch
  /\ pc \in {"PowerOff", "WriteSD", "AddNote"} => data.epoch = currentEpoch

\* r was built before the row in data.
Older(r) ==
  \/ r.boot < boot
  \/ r.boot = boot /\ r.recordID < globalRecordID /\ r.epoch <= currentEpoch

\* A stored row is older than the row in data, or is that row and was stored
\* at its place in the loop.
StoredRows ==
  /\ \A r \in RowsOf(sd) : Older(r) \/ (r = data /\ pc \notin {"PowerOff", "WriteSD"})
  /\ \A r \in RowsOf(notes) :
       Older(r) \/ (r = data /\ pc \notin {"PowerOff", "WriteSD", "AddNote"})

NodeInv ==
  /\ TypeOK
  /\ Flow
  /\ RailDiscipline
  /\ RailUpForAnalog
  /\ RowsArePowered
  /\ WatchdogDiscipline
  /\ RamIsBlank
  /\ ClaimedOnce
  /\ NewestRow
  /\ StoredRows
=============================================================================
