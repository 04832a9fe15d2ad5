------------------------------ MODULE LoraLink ------------------------------
(***************************************************************************)
(* The v4_CZ LoRa link: the transmitter LORA_TX.ino (a rain bucket, a leaf *)
(* switch, two floats), the radio, and the receiver LORA_RX.ino.           *)
(*                                                                         *)
(* The transmitter's loop() runs on one thread; isr_bucket and isr_generic *)
(* may run between any two of its steps.  It is built with DEBUG_MODE true *)
(* and waits with delay(200) instead of sleeping.  Each event is written   *)
(* to the SD card and sent once; nothing is acknowledged.  The receiver    *)
(* logs every packet it hears.  Its local timer sensors share no state     *)
(* with the link and are left out.  Time is in units of one debounce time. *)
(***************************************************************************)
EXTENDS Integers, Sequences

CONSTANTS
  Debounce, Timeout,  \* 200 and 600000 ms of the code
  Wrap,               \* millis() is an unsigned long: 2^32
  Word,               \* transmit() takes an uint16_t: 2^16
  MaxTips, MaxChanges, MaxTicks, MaxReboots   \* bounds on stimuli

ASSUME LinkAssumption ==
  /\ Debounce \in Nat /\ Timeout \in Nat /\ Wrap \in Nat /\ Word \in Nat \ {0, 1}
  /\ Debounce < Timeout /\ Timeout < Wrap
  /\ {MaxTips, MaxChanges, MaxTicks, MaxReboots} \subseteq Nat

VARIABLES
  pc,         \* the place of setup() or loop()
  at,         \* the sensor that identifyAndLog() has reached, from 1 to 4
  value,      \* currentCount, currentLeaf, currentTop or currentBot
  now,        \* what millis() returned to the timeout test
  flag_event_change, bucketCount, lastBucketTime, last_interrupt_time,
  lastLoggedBucket,
  last,       \* lastLeaf, lastTop, lastBot
  pins, ms,   \* the levels of the switches and the time
  sdlog, air, rxlog,   \* the transmitter's file, packets, the receiver's log
  event, era,          \* observers: events so far, restarts of the counter,
  reported, missed,    \* count and era of the last rain packet, and whether
                       \* a switch moved when nobody was attached
  tips, changes, reboots

tx == <<pc, at, value, now, flag_event_change, bucketCount, lastBucketTime,
        last_interrupt_time, lastLoggedBucket, last>>
seen == <<reported, missed>>
used == <<tips, changes, reboots>>
lvars == <<tx, pins, ms, sdlog, air, rxlog, event, era, seen, used>>

LOW == 0
HIGH == 1
Levels == {LOW, HIGH}
Switches == {"LEAF", "FLOAT_TOP", "FLOAT_BOT"}
Order == <<"BUCKET", "LEAF", "FLOAT_TOP", "FLOAT_BOT">>
Sensors == Switches \cup {"BUCKET"}

\* The text of a row: a count, or a label (with 0).
Count(n) == <<"COUNT", n>>
Label(l) == <<l, 0>>
Statuses == {"COUNT", "PRESSED", "LIFTED", "FAR", "CLOSE"} \X Nat
Rows == [event: Nat, era: Nat, sensor: Sensors, status: Statuses]
Packets == [event: Nat, era: Nat, type: 1..4, value: 0..Word - 1]

Places == {"setup", "hang", "attach", "TestCount", "ReadTime", "TestAge", "Zero",
           "TestFlag", "Identify", "ReadCount", "Write", "Transmit", "Pause"}

LTypeOK ==
  /\ pc \in Places /\ at \in 1..4 /\ value \in Nat
  /\ {now, bucketCount, lastBucketTime, last_interrupt_time, lastLoggedBucket} \subseteq Nat
  /\ flag_event_change \in BOOLEAN
  /\ last \in [Switches -> Levels] /\ pins \in [Switches -> Levels]
  /\ sdlog \in Seq(Rows) /\ air \in Seq(Packets) /\ rxlog \in Seq(Rows)
  /\ ms \in 0..MaxTicks /\ event \in Nat /\ era \in Nat
  /\ reported \in Nat \X Nat /\ missed \in BOOLEAN
  /\ tips \in 0..MaxTips /\ changes \in 0..MaxChanges /\ reboots \in 0..MaxReboots

\* RAM at boot; last is set by setup().
Ram ==
  /\ pc = "setup" /\ at = 1 /\ value = 0 /\ now = 0
  /\ flag_event_change = FALSE /\ bucketCount = 0 /\ lastBucketTime = 0
  /\ last_interrupt_time = 0 /\ lastLoggedBucket = 0

LInit ==
  /\ Ram
  /\ pins \in [Switches -> Levels] /\ last = pins /\ ms = 0
  /\ sdlog = <<>> /\ air = <<>> /\ rxlog = <<>>
  /\ event = 0 /\ era = 0 /\ reported = <<0, 0>> /\ missed = FALSE /\ tips = 0 /\ changes = 0 /\ reboots = 0

-----------------------------------------------------------------------------
(* setup() of the transmitter *)

shared == <<flag_event_change, bucketCount, lastBucketTime, last_interrupt_time>>
local == <<at, value, now, lastLoggedBucket>>
world == <<pins, ms, used>>
logs == <<sdlog, air, rxlog, event>>

Go(from, to) == pc = from /\ pc' = to

\* The levels are read before the handlers are attached.  Without a card
\* setup() ends in while (1).
ReadLevels ==
  /\ \/ Go("setup", "attach") /\ last' = pins
     \/ Go("setup", "hang") /\ UNCHANGED last
  /\ missed' = FALSE
  /\ UNCHANGED <<local, shared, logs, era, reported, world>>

Attach ==
  /\ Go("attach", "TestCount")
  /\ UNCHANGED <<local, shared, last, logs, era, seen, world>>

-----------------------------------------------------------------------------
(* loop() of the transmitter *)

TestCount ==
  /\ Go("TestCount", IF bucketCount > 0 THEN "ReadTime" ELSE "TestFlag")
  /\ UNCHANGED <<local, shared, last, logs, era, seen, world>>

ReadTime ==
  /\ Go("ReadTime", "TestAge")
  /\ now' = ms
  /\ UNCHANGED <<at, value, lastLoggedBucket, shared, last, logs, era, seen, world>>

\* Unsigned subtraction: a tip after ReadTime makes it wrap.
TestAge ==
  /\ Go("TestAge", IF (now - lastBucketTime) % Wrap > Timeout THEN "Zero" ELSE "TestFlag")
  /\ UNCHANGED <<local, shared, last, logs, era, seen, world>>

Zero ==
  /\ Go("Zero", "TestFlag")
  /\ bucketCount' = 0
  /\ era' = era + 1
  /\ UNCHANGED <<local, flag_event_change, lastBucketTime, last_interrupt_time,
                 last, logs, seen, world>>

TestFlag ==
  /\ Go("TestFlag", IF flag_event_change THEN "Identify" ELSE "Pause")
  /\ flag_event_change' = FALSE
  /\ at' = 1
  /\ missed' = (missed /\ ~flag_event_change)
  /\ UNCHANGED <<value, now, lastLoggedBucket, bucketCount, lastBucketTime,
                 last_interrupt_time, last, logs, era, reported, world>>

Sensor == Order[at]

\* After the last sensor identifyAndLog() returns.
NextSensor ==
  IF at = 4 THEN pc' = "Pause" /\ at' = 1 ELSE pc' = "Identify" /\ at' = at + 1

Changed == IF Sensor = "BUCKET" THEN bucketCount # lastLoggedBucket
                                ELSE pins[Sensor] # last[Sensor]

\* Compares a sensor with what was logged last; a switch is read once and
\* remembered now, the bucket is read again and remembered after its packet.
Identify ==
  /\ pc = "Identify"
  /\ IF ~Changed
     THEN NextSensor /\ UNCHANGED <<value, event, last>>
     ELSE /\ pc' = (IF Sensor = "BUCKET" THEN "ReadCount" ELSE "Write")
          /\ event' = event + 1
          /\ IF Sensor = "BUCKET"
             THEN UNCHANGED <<value, last>>
             ELSE value' = pins[Sensor] /\ last' = [last EXCEPT ![Sensor] = pins[Sensor]]
          /\ UNCHANGED at
  /\ UNCHANGED <<now, lastLoggedBucket, shared, sdlog, air, rxlog, era, seen, world>>

ReadCount ==
  /\ Go("ReadCount", "Write")
  /\ value' = bucketCount
  /\ UNCHANGED <<at, now, lastLoggedBucket, shared, last, logs, era, seen, world>>

\* The labels of identifyAndLog().
Status(s, v) ==
  CASE s = "BUCKET"    -> Count(v)
    [] s = "LEAF"      -> Label(IF v = LOW THEN "PRESSED" ELSE "LIFTED")
    [] s = "FLOAT_TOP" -> Label(IF v = LOW THEN "FAR" ELSE "CLOSE")
    [] s = "FLOAT_BOT" -> Label(IF v = LOW THEN "CLOSE" ELSE "FAR")

\* writeToCSV(): a file that cannot be opened is passed over.
Write ==
  /\ Go("Write", "Transmit")
  /\ \/ sdlog' = Append(sdlog, [event |-> event, era |-> era, sensor |-> Sensor,
                                status |-> Status(Sensor, value)])
     \/ UNCHANGED sdlog
  /\ UNCHANGED <<local, shared, last, air, rxlog, event, era, seen, world>>

\* Mutant: the logged count is not remembered.
TransmitForgets ==
  /\ pc = "Transmit"
  /\ NextSensor
  /\ air' = Append(air, [event |-> event, era |-> era, type |-> at,
                         value |-> value % Word])
  /\ UNCHANGED <<value, now, lastLoggedBucket, shared, last, sdlog, rxlog, event, era, seen, world>>

\* transmit(): the type is the number of the sensor, the value 16 bits.
Transmit ==
  /\ pc = "Transmit"
  /\ NextSensor
  /\ air' = Append(air, [event |-> event, era |-> era, type |-> at,
                         value |-> value % Word])
  /\ IF Sensor = "BUCKET" THEN lastLoggedBucket' = value /\ reported' = <<value, era>>
                          ELSE UNCHANGED <<lastLoggedBucket, reported>>
  /\ UNCHANGED <<value, now, shared, last, sdlog, rxlog, event, era, missed, world>>

\* Mutant: the flag is cleared when the work is done.
PauseThenClear ==
  /\ Go("Pause", "TestCount")
  /\ flag_event_change' = FALSE
  /\ UNCHANGED <<local, bucketCount, lastBucketTime, last_interrupt_time, last,
                 logs, era, seen, world>>

Pause ==
  /\ Go("Pause", "TestCount")
  /\ UNCHANGED <<local, shared, last, logs, era, seen, world>>

-----------------------------------------------------------------------------
(* Interrupts, time, resets *)

Attached == pc \notin {"setup", "hang", "attach"}

\* isr_bucket(); an edge within the debounce time of the last one only
\* prolongs it.
isr_bucket ==
  /\ last_interrupt_time' = ms
  /\ IF (ms - last_interrupt_time) % Wrap > Debounce
     THEN /\ bucketCount' = bucketCount + 1
          /\ lastBucketTime' = ms
          /\ flag_event_change' = TRUE
     ELSE UNCHANGED <<bucketCount, lastBucketTime, flag_event_change>>

Tip ==
  /\ tips < MaxTips
  /\ tips' = tips + 1
  /\ IF Attached THEN isr_bucket ELSE UNCHANGED shared
  /\ UNCHANGED <<pc, local, last, pins, ms, logs, era, seen, changes, reboots>>

\* isr_generic()
SwitchMoves ==
  /\ changes < MaxChanges
  /\ changes' = changes + 1
  /\ \E s \in Switches, l \in Levels :
       l # pins[s] /\ pins' = [pins EXCEPT ![s] = l]
  /\ flag_event_change' = (flag_event_change \/ Attached)
  /\ missed' = (missed \/ ~Attached)
  /\ UNCHANGED <<pc, local, bucketCount, lastBucketTime, last_interrupt_time, last,
                 ms, logs, era, reported, tips, reboots>>

Tick ==
  /\ ms < MaxTicks
  /\ ms' = ms + 1
  /\ UNCHANGED <<tx, pins, logs, era, seen, used>>

Restart ==
  /\ pc' = "setup" /\ at' = 1 /\ value' = 0 /\ now' = 0
  /\ flag_event_change' = FALSE /\ bucketCount' = 0 /\ lastBucketTime' = 0
  /\ last_interrupt_time' = 0 /\ lastLoggedBucket' = 0
  /\ ms' = 0
  /\ era' = (IF pc = "hang" THEN era ELSE era + 1) /\ reported' = <<0, era'>>
  /\ UNCHANGED <<last, pins, logs, missed, tips, changes>>

\* A power loss, or the watchdog that setup() enables before the card is
\* tried: the end of a hang is not counted.  millis() starts anew.
Reboot ==
  /\ IF pc = "hang" THEN UNCHANGED reboots
                    ELSE reboots < MaxReboots /\ reboots' = reboots + 1
  /\ Restart

-----------------------------------------------------------------------------
(* The radio and the receiver *)

Lost ==
  /\ air # <<>>
  /\ air' = Tail(air)
  /\ UNCHANGED <<tx, pins, ms, sdlog, rxlog, event, era, seen, used>>

\* Mutant: the two floats are given one label.
RemoteStatusOneFloat(s, v) ==
  CASE s = "BUCKET" -> Count(v)
    [] s = "LEAF"   -> Label(IF v = LOW THEN "LIFTED" ELSE "PRESSED")
    [] OTHER        -> Label(IF v = LOW THEN "FAR" ELSE "CLOSE")

\* The labels of parseLoraLine(), without the prefix REMOTE_.
RemoteStatus(s, v) ==
  CASE s = "BUCKET"    -> Count(v)
    [] s = "LEAF"      -> Label(IF v = LOW THEN "LIFTED" ELSE "PRESSED")
    [] s = "FLOAT_TOP" -> Label(IF v = LOW THEN "FAR" ELSE "CLOSE")
    [] s = "FLOAT_BOT" -> Label(IF v = LOW THEN "CLOSE" ELSE "FAR")

\* What parseLoraLine() makes of a packet.
Parsed(p) == [event |-> p.event, era |-> p.era, sensor |-> Order[p.type],
              status |-> RemoteStatus(Order[p.type], p.value)]

\* The receiver's loop() parses a complete line and logs it.
Receive ==
  /\ air # <<>>
  /\ rxlog' = Append(rxlog, Parsed(Head(air)))
  /\ air' = Tail(air)
  /\ UNCHANGED <<tx, pins, ms, sdlog, event, era, seen, used>>

-----------------------------------------------------------------------------

Loop ==
  \/ ReadLevels \/ Attach \/ TestCount \/ ReadTime \/ TestAge \/ Zero \/ TestFlag
  \/ Identify \/ ReadCount \/ Write \/ Transmit \/ Pause

LNext == Loop \/ Tip \/ SwitchMoves \/ Tick \/ Reboot \/ Lost \/ Receive

LSpec == LInit /\ [][LNext]_lvars

\* The transmitter runs, its watchdog ends a hang and the card answers in
\* the end.
LFairness ==
  /\ WF_lvars(Loop)
  /\ WF_lvars(pc = "hang" /\ Reboot)
  /\ SF_lvars(ReadLevels /\ pc' = "attach")

LFairSpec == LSpec /\ LFairness

-----------------------------------------------------------------------------
(* Properties *)

Resting == pc = "Pause" /\ ~flag_event_change

\* Whenever the loop waits and no event is flagged, every switch reads what
\* was logged for it last, and the last rain packet carries the count, unless
\* the counter was restarted since: interrupts during identifyAndLog() lose nothing.  Only
\* a change before the handlers are attached waits for the next event.
NothingForgotten ==
  Resting =>
    /\ missed \/ \A s \in Switches : last[s] = pins[s]
    /\ reported[1] = bucketCount \/ reported[2] # era

\* The sensors that identifyAndLog() has still to look at.
Ahead == CASE pc = "Identify"                           -> at..4
           [] pc \in {"ReadCount", "Write", "Transmit"} -> (at + 1)..4
           [] OTHER                                     -> {}

SwitchesKept ==
  pc \in {"setup", "hang"} \/ missed \/ flag_event_change
    \/ \A s \in Switches : last[s] = pins[s] \/ \E i \in Ahead : Order[i] = s

\* The bucket's row or packet is being prepared.
Raining == pc = "ReadCount" \/ (pc \in {"Write", "Transmit"} /\ at = 1)

\* lastLoggedBucket against the count, while the counter was not restarted
\* since the last rain packet.
RainKept ==
  /\ pc = "ReadCount" => at = 1
  /\ pc \in {"Write", "Transmit"} =>
       IF at = 1 THEN value <= bucketCount /\ (flag_event_change \/ value = bucketCount)
                 ELSE value \in Levels
  /\ reported[2] <= era /\ bucketCount <= tips
  /\ reported[2] = era =>
       /\ reported[1] = lastLoggedBucket /\ lastLoggedBucket <= bucketCount
       /\ Raining => lastLoggedBucket < (IF pc = "ReadCount" THEN bucketCount ELSE value)
       /\ \/ flag_event_change \/ lastLoggedBucket = bucketCount
          \/ Raining \/ (pc = "Identify" /\ at = 1)

\* RainKept relates what is remembered of the bucket to its count.
LinkInv == LTypeOK /\ NothingForgotten /\ SwitchesKept /\ RainKept

\* "Process Sensor Events": what the bucket has counted since the counter was
\* restarted is in the log.
TipsAreLogged == Resting /\ bucketCount > 0 => reported = <<bucketCount, era>>

Logged(log, s) == {i \in DOMAIN log : log[i].sensor = s}

\* Between two restarts of the counter the rain counts strictly increase in
\* both logs, whatever is lost or fails to be written.
CountsIncrease ==
  \A log \in {sdlog, rxlog} : \A i, j \in Logged(log, "BUCKET") :
    i < j /\ log[i].era = log[j].era => log[i].status[2] < log[j].status[2]

AgreeOn(S) ==
  \A i \in DOMAIN sdlog, j \in DOMAIN rxlog :
    sdlog[i].event = rxlog[j].event /\ sdlog[i].sensor \in S => sdlog[i] = rxlog[j]

\* The receiver's row of a rain or float event is the row on the
\* transmitter's card.
RainAndFloatsAgree == AgreeOn(Sensors \ {"LEAF"})

\* The same for the leaf switch.
LeafAgrees == AgreeOn({"LEAF"})

\* Switches that have moved are seen: once an event is flagged, a switch that
\* stays as it is gets taken up by identifyAndLog(), which then writes (unless
\* the file does not open) and sends it, or the node is reset.
MovedSwitchIsLogged ==
  \A s \in Switches, l \in Levels :
    (flag_event_change /\ pins[s] = l) ~> (last[s] = l \/ pins[s] # l \/ pc = "setup")

\* "10-Minute Timeout Reset for Bucket": the counter is restarted only when
\* the last tip is older than that.
CounterKeptWhileItRains ==
  [][pc = "Zero" /\ bucketCount' < bucketCount => ms - lastBucketTime > Timeout]_lvars
-----------------------------------------------------------------------------
(* What makes the order and the agreement of the logs inductive (module      *)
(* LoraLinkProofs)                                                           *)

\* Two rows of rain, in this order, between two restarts of the counter.
Rising(old, new) ==
  old.sensor = "BUCKET" /\ new.sensor = "BUCKET" /\ old.era = new.era
    => old.status[2] < new.status[2]

\* What a row of rain says is not more than was last sent, or is being sent.
NotAhead(row, written) ==
  row.sensor = "BUCKET" =>
    /\ row.era <= era
    /\ row.era = era =>
         /\ pc \notin {"setup", "hang"}
         /\ \/ written /\ row.status[2] <= value
            \/ reported[2] = era /\ row.status[2] <= lastLoggedBucket

\* Rain on the card, in the air and at the receiver.
RainInOrder ==
  /\ \A i \in DOMAIN sdlog : NotAhead(sdlog[i], pc = "Transmit" /\ at = 1)
  /\ \A i \in DOMAIN rxlog : NotAhead(rxlog[i], FALSE)
  /\ \A i \in DOMAIN air : NotAhead(Parsed(air[i]), FALSE)
  /\ \A i, j \in DOMAIN sdlog : i < j => Rising(sdlog[i], sdlog[j])
  /\ \A i, j \in DOMAIN rxlog : i < j => Rising(rxlog[i], rxlog[j])
  /\ \A i, j \in DOMAIN air : i < j => Rising(Parsed(air[i]), Parsed(air[j]))
  /\ \A i \in DOMAIN rxlog, j \in DOMAIN air : Rising(rxlog[i], Parsed(air[j]))

Match(row, other) ==
  row.event = other.event /\ row.sensor \in Sensors \ {"LEAF"} => row = other

\* An event has one row and one packet, and they say the same.
EventsMatch ==
  /\ \A i \in DOMAIN sdlog :
       /\ sdlog[i].event <= event
       /\ sdlog[i].event = event =>
            /\ pc \notin {"ReadCount", "Write"}
            /\ pc = "Transmit" => sdlog[i] = [event |-> event, era |-> era, sensor |-> Sensor,
                                              status |-> Status(Sensor, value)]
  /\ \A i \in DOMAIN rxlog : rxlog[i].event <= event
       /\ (rxlog[i].event = event => pc \notin {"ReadCount", "Write", "Transmit"})
  /\ \A i \in DOMAIN air : air[i].event <= event
       /\ (air[i].event = event => pc \notin {"ReadCount", "Write", "Transmit"})
  /\ \A i \in DOMAIN sdlog, j \in DOMAIN rxlog : Match(sdlog[i], rxlog[j])
  /\ \A i \in DOMAIN sdlog, j \in DOMAIN air : Match(sdlog[i], Parsed(air[j]))

\* The packets carry a count that fits their 16 bits.
LinkInd == LinkInv /\ (MaxTips < Word => RainInOrder /\ EventsMatch)
=============================================================================
