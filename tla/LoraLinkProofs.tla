---------------------------- MODULE LoraLinkProofs ----------------------------
(* Proofs about LoraLink, for every width of the clock and every number of   *)
(* tips, changes, ticks and reboots.                                         *)
EXTENDS LoraLink, TLAPS

-----------------------------------------------------------------------------
(* Types *)

LEMMA OrderIs ==
  /\ Order[1] = "BUCKET" /\ Order[2] = "LEAF"
  /\ Order[3] = "FLOAT_TOP" /\ Order[4] = "FLOAT_BOT"
  /\ \A i \in 1..4 : Order[i] \in Sensors /\ (i = 1 <=> Order[i] = "BUCKET")
  /\ \A i \in 2..4 : Order[i] \in Switches
  /\ \A s \in Switches : \E i \in 2..4 : Order[i] = s
<1>1. /\ Order[1] = "BUCKET" /\ Order[2] = "LEAF"
      /\ Order[3] = "FLOAT_TOP" /\ Order[4] = "FLOAT_BOT"
  BY DEF Order
<1>2. QED
  BY <1>1 DEF Sensors, Switches

LEMMA StatusIs ==
  ASSUME NEW s \in Sensors, NEW v \in Nat
  PROVE  Status(s, v) \in Statuses /\ RemoteStatus(s, v) \in Statuses
  BY DEF Status, RemoteStatus, Count, Label, Statuses, Sensors, Switches

LEMMA ParsedIs ==
  ASSUME NEW p \in Packets
  PROVE  Parsed(p) \in Rows
<1>1. LinkAssumption
  BY LinkAssumption
<1>2. p.type \in 1..4 /\ p.value \in Nat /\ p.event \in Nat /\ p.era \in Nat
  BY <1>1 DEF Packets, LinkAssumption
<1>3. Order[p.type] \in Sensors
  BY <1>2, OrderIs
<1>4. QED
  BY <1>2, <1>3, StatusIs DEF Parsed, Rows

\* The Boolean variables.
LEMMA FlagTypes ==
  ASSUME LTypeOK, [LNext]_lvars
  PROVE  flag_event_change' \in BOOLEAN /\ missed' \in BOOLEAN
<1> USE DEF LTypeOK, local, shared, logs, world, seen, used, tx
<1>1. flag_event_change \in BOOLEAN /\ missed \in BOOLEAN
  OBVIOUS
<1>2. CASE ReadLevels \/ Attach \/ TestCount \/ ReadTime \/ TestAge
  BY <1>1, <1>2, Zenon DEF ReadLevels, Attach, TestCount, ReadTime, TestAge
<1>3. CASE Zero \/ TestFlag \/ Identify \/ ReadCount \/ Write
  BY <1>1, <1>3, Zenon DEF Zero, TestFlag, Identify, ReadCount, Write
<1>4. CASE Transmit \/ Pause \/ Lost \/ Receive \/ Tick
  BY <1>1, <1>4, Zenon DEF Transmit, Pause, Lost, Receive, Tick
<1>5. CASE Tip \/ SwitchMoves \/ Reboot
  BY <1>1, <1>5, Zenon DEF Tip, isr_bucket, SwitchMoves, Reboot, Restart
<1>6. CASE UNCHANGED lvars
  BY <1>1, <1>6 DEF lvars
<1>7. QED
  BY <1>2, <1>3, <1>4, <1>5, <1>6 DEF LNext, Loop

\* The variables of the transmitter's loop.
LoopTypes ==
  /\ pc \in Places /\ at \in 1..4 /\ value \in Nat
  /\ {now, bucketCount, lastBucketTime, last_interrupt_time, lastLoggedBucket} \subseteq Nat
  /\ last \in [Switches -> Levels]

\* The logs, the packets and the observers.
LogTypes ==
  /\ sdlog \in Seq(Rows) /\ air \in Seq(Packets) /\ rxlog \in Seq(Rows)
  /\ event \in Nat /\ era \in Nat /\ reported \in Nat \X Nat

WorldTypes ==
  /\ pins \in [Switches -> Levels]
  /\ ms \in 0..MaxTicks
  /\ tips \in 0..MaxTips /\ changes \in 0..MaxChanges /\ reboots \in 0..MaxReboots

LEMMA TypeParts ==
  LTypeOK <=> LoopTypes /\ LogTypes /\ WorldTypes
              /\ flag_event_change \in BOOLEAN /\ missed \in BOOLEAN
<1>1. LTypeOK => LoopTypes /\ LogTypes /\ WorldTypes
                 /\ flag_event_change \in BOOLEAN /\ missed \in BOOLEAN
  BY Zenon DEF LTypeOK, LoopTypes, LogTypes, WorldTypes
<1>2. LoopTypes /\ LogTypes /\ WorldTypes
        /\ flag_event_change \in BOOLEAN /\ missed \in BOOLEAN => LTypeOK
  BY Zenon DEF LTypeOK, LoopTypes, LogTypes, WorldTypes
<1>3. QED
  BY <1>1, <1>2

LEMMA TypePartsNext ==
  LoopTypes' /\ LogTypes' /\ WorldTypes'
    /\ flag_event_change' \in BOOLEAN /\ missed' \in BOOLEAN => LTypeOK'
  BY Zenon DEF LTypeOK, LoopTypes, LogTypes, WorldTypes

LEMMA LoopTypesStep ==
  ASSUME LoopTypes, WorldTypes, LNext
  PROVE  LoopTypes'
<1> USE DEF LoopTypes, local, shared, logs, world, seen, used, tx, Go, Places
<1>0. \A t \in 0..MaxTicks : t \in Nat
  BY LinkAssumption DEF LinkAssumption
<1>1. CASE ReadLevels
  BY <1>1 DEF ReadLevels, WorldTypes
<1>2. CASE Attach
  BY <1>2 DEF Attach
<1>3. CASE TestCount
  BY <1>3 DEF TestCount
<1>4. CASE ReadTime
  BY <1>0, <1>4 DEF ReadTime, WorldTypes
<1>5. CASE TestAge
  <2>1. pc' \in {"Zero", "TestFlag"}
        /\ UNCHANGED <<local, shared, last>>
    BY <1>5 DEF TestAge
  <2>2. QED
    BY <2>1
<1>6. CASE Zero
  BY <1>6 DEF Zero
<1>7. CASE TestFlag
  BY <1>7 DEF TestFlag
<1>8. CASE Identify
  <2>1. /\ pc' \in Places /\ at' \in 1..4
        /\ UNCHANGED <<now, lastLoggedBucket, shared>>
    BY <1>8 DEF Identify, NextSensor
  <2>2. value' \in Nat /\ last' \in [Switches -> Levels]
    <3>1. CASE UNCHANGED <<value, last>>
      BY <3>1
    <3>2. CASE Sensor # "BUCKET" /\ value' = pins[Sensor] /\ last' = [last EXCEPT ![Sensor] = pins[Sensor]]
      <4>1. Sensor \in Switches
        BY <3>2, OrderIs DEF Sensor
      <4>2. pins[Sensor] \in Levels
        BY <4>1 DEF WorldTypes
      <4>3. last' \in [Switches -> Levels]
        BY <3>2, <4>1, <4>2
      <4>4. Levels \subseteq Nat
        BY DEF Levels, LOW, HIGH
      <4>5. QED
        BY <3>2, <4>2, <4>3, <4>4
    <3>3. QED
      BY <1>8, <3>1, <3>2 DEF Identify
  <2>3. QED
    BY <2>1, <2>2
<1>9. CASE ReadCount
  BY <1>9 DEF ReadCount
<1>10. CASE Write
  BY <1>10 DEF Write
<1>11. CASE Transmit
  <2>1. /\ pc' \in Places /\ at' \in 1..4 /\ UNCHANGED <<value, now, shared, last>>
        /\ lastLoggedBucket' \in {value, lastLoggedBucket}
    BY <1>11 DEF Transmit, NextSensor
  <2>2. QED
    BY <2>1
<1>12. CASE Pause
  BY <1>12 DEF Pause
<1>13. CASE Tip
  <2>1. /\ UNCHANGED <<pc, local, last>>
        /\ bucketCount' \in {bucketCount, bucketCount + 1}
        /\ lastBucketTime' \in {lastBucketTime, ms}
        /\ last_interrupt_time' \in {last_interrupt_time, ms}
    BY <1>13 DEF Tip, isr_bucket
  <2>2. QED
    BY <1>0, <2>1 DEF WorldTypes
<1>14. CASE Tick \/ SwitchMoves \/ Lost \/ Receive
  BY <1>14 DEF Tick, SwitchMoves, Lost, Receive
<1>15. CASE Reboot
  BY <1>15 DEF Reboot, Restart
<1>16. QED
  BY <1>1, <1>2, <1>3, <1>4, <1>5, <1>6, <1>7, <1>8, <1>9, <1>10, <1>11, <1>12,
     <1>13, <1>14, <1>15 DEF LNext, Loop

LEMMA LogTypesStep ==
  ASSUME LoopTypes, LogTypes, LNext
  PROVE  LogTypes'
<1> USE DEF local, shared, logs, world, seen, used, tx
<1>1. CASE \/ ReadLevels \/ Attach \/ TestCount \/ ReadTime \/ TestAge \/ TestFlag
           \/ ReadCount \/ Pause \/ Tip \/ SwitchMoves \/ Tick
  <2>1. UNCHANGED <<sdlog, air, rxlog, event, era, reported>>
    BY <1>1 DEF ReadLevels, Attach, TestCount, ReadTime, TestAge, TestFlag, ReadCount,
                Pause, Tip, SwitchMoves, Tick
  <2>2. QED
    BY <2>1 DEF LogTypes
<1>2. CASE Zero \/ Identify \/ Reboot
  <2>1. UNCHANGED <<sdlog, air, rxlog>>
    BY <1>2 DEF Zero, Identify, Reboot, Restart
  <2>2. /\ event' \in {event, event + 1} /\ era' \in {era, era + 1}
        /\ reported' \in {reported, <<0, era'>>}
    BY <1>2 DEF Zero, Identify, Reboot, Restart
  <2>3. QED
    BY <2>1, <2>2 DEF LogTypes
<1>3. CASE Write
  <2>1. /\ UNCHANGED <<air, rxlog, event, era, reported>>
        /\ \/ sdlog' = Append(sdlog, [event |-> event, era |-> era, sensor |-> Sensor,
                                      status |-> Status(Sensor, value)])
           \/ sdlog' = sdlog
    BY <1>3 DEF Write
  <2>2. [event |-> event, era |-> era, sensor |-> Sensor, status |-> Status(Sensor, value)]
           \in Rows
    BY OrderIs, StatusIs DEF LoopTypes, LogTypes, Sensor, Rows
  <2>3. sdlog' \in Seq(Rows)
    <3>1. sdlog \in Seq(Rows)
      BY DEF LogTypes
    <3>2. QED
      BY <2>1, <2>2, <3>1
  <2>4. QED
    BY <2>1, <2>3 DEF LogTypes
<1>4. CASE Transmit
  <2>1. /\ UNCHANGED <<sdlog, rxlog, event, era>> /\ reported' \in {reported, <<value, era>>}
        /\ air' = Append(air, [event |-> event, era |-> era, type |-> at,
                               value |-> value % Word])
    BY <1>4 DEF Transmit
  <2>2. value % Word \in 0..(Word - 1)
    BY LinkAssumption DEF LoopTypes, LinkAssumption
  <2>3. [event |-> event, era |-> era, type |-> at, value |-> value % Word] \in Packets
    BY <2>2 DEF LoopTypes, LogTypes, Packets
  <2>4. air' \in Seq(Packets)
    <3>1. air \in Seq(Packets)
      BY DEF LogTypes
    <3>2. QED
      BY <2>1, <2>3, <3>1
  <2>5. reported' \in Nat \X Nat
    BY <2>1 DEF LoopTypes, LogTypes
  <2>6. QED
    BY <2>1, <2>4, <2>5 DEF LogTypes
<1>5. CASE Lost \/ Receive
  <2>1. /\ air # <<>> /\ air' = Tail(air) /\ UNCHANGED <<sdlog, event, era, reported>>
        /\ rxlog' = rxlog \/ rxlog' = Append(rxlog, Parsed(Head(air)))
    BY <1>5 DEF Lost, Receive
  <2>2. Head(air) \in Packets /\ Tail(air) \in Seq(Packets)
    BY <2>1 DEF LogTypes
  <2>3. Parsed(Head(air)) \in Rows
    BY <2>2, ParsedIs
  <2>4. rxlog' \in Seq(Rows)
    <3>1. rxlog \in Seq(Rows)
      BY DEF LogTypes
    <3>2. Append(rxlog, Parsed(Head(air))) \in Seq(Rows)
      BY <2>3, <3>1
    <3>3. QED
      BY <2>1, <3>1, <3>2
  <2>5. QED
    BY <2>1, <2>2, <2>4 DEF LogTypes
<1>6. QED
  BY <1>1, <1>2, <1>3, <1>4, <1>5 DEF LNext, Loop

LEMMA WorldTypesStep ==
  ASSUME WorldTypes, LNext
  PROVE  WorldTypes'
<1> USE LinkAssumption DEF LinkAssumption, WorldTypes, local, shared, logs, world, seen, used, tx
<1>1. CASE Loop \/ Lost \/ Receive
  <2>1. UNCHANGED <<pins, ms, tips, changes, reboots>>
    BY <1>1 DEF Loop, ReadLevels, Attach, TestCount, ReadTime, TestAge, Zero, TestFlag,
                Identify, ReadCount, Write, Transmit, Pause, Lost, Receive
  <2>2. QED
    BY <2>1
<1>2. CASE Tip
  <2>1. tips < MaxTips /\ tips' = tips + 1 /\ UNCHANGED <<pins, ms, changes, reboots>>
    BY <1>2 DEF Tip
  <2>2. QED
    BY <2>1
<1>3. CASE SwitchMoves
  <2>1. /\ changes < MaxChanges /\ changes' = changes + 1 /\ UNCHANGED <<ms, tips, reboots>>
        /\ \E s \in Switches, l \in Levels : pins' = [pins EXCEPT ![s] = l]
    BY <1>3 DEF SwitchMoves
  <2>2. QED
    BY <2>1
<1>4. CASE Tick
  <2>1. ms < MaxTicks /\ ms' = ms + 1 /\ UNCHANGED <<pins, tips, changes, reboots>>
    BY <1>4 DEF Tick
  <2>2. QED
    BY <2>1
<1>5. CASE Reboot
  <2>1. /\ ms' = 0 /\ UNCHANGED <<pins, tips, changes>>
        /\ reboots' = reboots \/ (reboots < MaxReboots /\ reboots' = reboots + 1)
    BY <1>5 DEF Reboot, Restart
  <2>2. QED
    BY <2>1
<1>6. QED
  BY <1>1, <1>2, <1>3, <1>4, <1>5 DEF LNext

LEMMA LinkTypesStep ==
  ASSUME LTypeOK, [LNext]_lvars
  PROVE  LTypeOK'
<1>1. CASE LNext
  <2>1. LoopTypes' /\ LogTypes' /\ WorldTypes'
    BY <1>1, TypeParts, LoopTypesStep, LogTypesStep, WorldTypesStep
  <2>2. QED
    BY <2>1, FlagTypes, TypePartsNext
<1>2. CASE UNCHANGED lvars
  <2>1. LoopTypes' /\ LogTypes' /\ WorldTypes'
    BY <1>2, TypeParts DEF LoopTypes, LogTypes, WorldTypes, lvars, tx, seen, used
  <2>2. QED
    BY <2>1, FlagTypes, TypePartsNext
<1>3. QED
  BY <1>1, <1>2

-----------------------------------------------------------------------------
(* Nothing stays behind *)

LEMMA SwitchesKeptStep ==
  ASSUME LTypeOK, SwitchesKept, LNext
  PROVE  SwitchesKept'
<1> USE DEF local, shared, logs, world, seen, used, tx, Go
<1>0. at \in 1..4 /\ last \in [Switches -> Levels] /\ pins \in [Switches -> Levels]
  BY DEF LTypeOK
<1>1. CASE ReadLevels
  BY <1>1 DEF ReadLevels, SwitchesKept
<1>2. CASE Attach \/ TestCount \/ ReadTime \/ TestAge \/ Zero \/ Pause
  <2>1. /\ pc \notin {"setup", "hang", "Identify", "ReadCount", "Write", "Transmit"}
        /\ pc' \notin {"setup", "hang", "Identify", "ReadCount", "Write", "Transmit"}
        /\ UNCHANGED <<missed, flag_event_change, last, pins>>
    BY <1>2 DEF Attach, TestCount, ReadTime, TestAge, Zero, Pause
  <2>2. QED
    BY <2>1 DEF SwitchesKept, Ahead
<1>3. CASE TestFlag
  <2>1. /\ pc = "TestFlag" /\ at' = 1 /\ UNCHANGED <<last, pins>>
        /\ flag_event_change => pc' = "Identify"
        /\ ~flag_event_change /\ missed => missed'
    BY <1>3, Zenon DEF TestFlag
  <2>2. flag_event_change => \A s \in Switches : \E i \in Ahead' : Order[i] = s
    BY <2>1, OrderIs DEF Ahead
  <2>3. CASE flag_event_change
    BY <2>2, <2>3 DEF SwitchesKept
  <2>4. CASE ~flag_event_change
    <3>1. missed \/ \A s \in Switches : last[s] = pins[s]
      BY <2>1, <2>4 DEF SwitchesKept, Ahead
    <3>2. QED
      BY <2>1, <2>4, <3>1 DEF SwitchesKept
  <2>5. QED
    BY <2>3, <2>4
<1>4. CASE Identify
  <2>1. pc = "Identify" /\ UNCHANGED <<missed, flag_event_change, pins>>
    BY <1>4 DEF Identify
  <2>2. CASE missed \/ flag_event_change
    BY <2>1, <2>2 DEF SwitchesKept
  <2>3. CASE \A s \in Switches : last[s] = pins[s] \/ \E i \in Ahead : Order[i] = s
    <3>1. Ahead = at..4 /\ Ahead' = (at + 1)..4
      <4>1. CASE pc' \in {"ReadCount", "Write"} /\ at' = at
        BY <1>0, <2>1, <4>1 DEF Ahead
      <4>2. CASE at = 4 /\ pc' = "Pause"
        BY <2>1, <4>2 DEF Ahead
      <4>3. CASE pc' = "Identify" /\ at' = at + 1
        BY <2>1, <4>3 DEF Ahead
      <4>4. QED
        BY <1>4, <4>1, <4>2, <4>3 DEF Identify, NextSensor
    <3>2. \A s \in Switches : last'[s] = last[s] \/ last'[s] = pins[s]
      BY <1>0, <1>4 DEF Identify
    <3>3. ASSUME NEW s \in Switches, Order[at] = s PROVE last'[s] = pins[s]
      <4>1. Sensor = s /\ Sensor # "BUCKET"
        BY <1>0, <3>3, OrderIs DEF Sensor, Switches
      <4>2. QED
        BY <1>0, <1>4, <4>1 DEF Identify, Changed
    <3>4. ASSUME NEW s \in Switches
          PROVE  last'[s] = pins'[s] \/ \E i \in Ahead' : Order[i] = s
      <4>1. CASE last[s] = pins[s]
        BY <2>1, <3>2, <4>1
      <4>2. CASE \E i \in Ahead : Order[i] = s
        <5>1. PICK i \in at..4 : Order[i] = s
          BY <3>1, <4>2
        <5>2. i = at \/ i \in (at + 1)..4
          BY <1>0, <5>1
        <5>3. QED
          BY <2>1, <3>1, <3>3, <5>1, <5>2
      <4>3. QED
        BY <2>3, <4>1, <4>2
    <3>5. QED
      BY <3>4 DEF SwitchesKept
  <2>4. QED
    BY <2>1, <2>2, <2>3 DEF SwitchesKept
<1>5. CASE ReadCount \/ Write
  <2>1. /\ pc \in {"ReadCount", "Write"} /\ pc' \in {"Write", "Transmit"}
        /\ UNCHANGED <<at, missed, flag_event_change, last, pins>>
    BY <1>5 DEF ReadCount, Write
  <2>2. QED
    BY <2>1 DEF SwitchesKept, Ahead
<1>6. CASE Transmit
  <2>1. /\ pc = "Transmit" /\ UNCHANGED <<missed, flag_event_change, last, pins>>
        /\ \/ at = 4 /\ pc' = "Pause"
           \/ pc' = "Identify" /\ at' = at + 1
    BY <1>6 DEF Transmit, NextSensor
  <2>2. Ahead \subseteq Ahead'
    BY <1>0, <2>1 DEF Ahead
  <2>3. QED
    BY <2>1, <2>2 DEF SwitchesKept
<1>7. CASE Tip
  <2>1. UNCHANGED <<pc, at, missed, last, pins>> /\ (flag_event_change => flag_event_change')
    BY <1>7, Zenon DEF Tip, isr_bucket
  <2>2. QED
    BY <2>1 DEF SwitchesKept, Ahead
<1>8. CASE SwitchMoves
  <2>1. UNCHANGED pc /\ (pc \in {"setup", "hang"} \/ missed' \/ flag_event_change')
    <3>1. UNCHANGED pc
      BY <1>8 DEF SwitchMoves
    <3>2. (Attached => flag_event_change') /\ (~Attached => missed')
      BY <1>8, Zenon DEF SwitchMoves
    <3>3. QED
      BY <3>1, <3>2
  <2>2. QED
    BY <2>1 DEF SwitchesKept
<1>9. CASE Tick \/ Lost \/ Receive
  <2>1. UNCHANGED <<pc, at, missed, flag_event_change, last, pins>>
    BY <1>9 DEF Tick, Lost, Receive
  <2>2. QED
    BY <2>1 DEF SwitchesKept, Ahead
<1>10. CASE Reboot
  BY <1>10 DEF Reboot, Restart, SwitchesKept
<1>11. QED
  BY <1>1, <1>2, <1>3, <1>4, <1>5, <1>6, <1>7, <1>8, <1>9, <1>10 DEF LNext, Loop

LEMMA RainTypes ==
  LTypeOK =>
    /\ at \in 1..4 /\ value \in Nat /\ bucketCount \in Nat /\ lastLoggedBucket \in Nat
    /\ era \in Nat /\ reported \in Nat \X Nat
    /\ tips \in Nat /\ tips <= MaxTips /\ MaxTips \in Nat /\ Word \in Nat \ {0, 1}
    /\ event \in Nat /\ pins \in [Switches -> Levels]
  BY LinkAssumption DEF LTypeOK, LinkAssumption

LEMMA RainKeptStep ==
  ASSUME LTypeOK, RainKept, LNext
  PROVE  RainKept'
<1> USE RainTypes DEF local, shared, logs, world, seen, used, tx, Go
<1>1. CASE ReadLevels \/ Attach \/ TestCount \/ ReadTime \/ TestAge \/ Pause
  <2>1. /\ pc \notin {"Identify", "ReadCount", "Write", "Transmit"}
        /\ pc' \notin {"Identify", "ReadCount", "Write", "Transmit"}
        /\ UNCHANGED <<bucketCount, lastLoggedBucket, era, reported, tips, flag_event_change>>
    BY <1>1 DEF ReadLevels, Attach, TestCount, ReadTime, TestAge, Pause
  <2>2. QED
    BY <2>1 DEF RainKept, Raining
<1>2. CASE Zero
  BY <1>2 DEF Zero, RainKept, Raining
<1>3. CASE TestFlag
  <2>1. /\ pc = "TestFlag" /\ at' = 1 /\ pc' \in {"Identify", "Pause"}
        /\ UNCHANGED <<bucketCount, lastLoggedBucket, era, reported, tips>>
        /\ flag_event_change => pc' = "Identify"
    BY <1>3 DEF TestFlag
  <2>2. QED
    BY <2>1 DEF RainKept, Raining
<1>4. CASE Identify
  <2>1. /\ pc = "Identify"
        /\ UNCHANGED <<bucketCount, lastLoggedBucket, era, reported, tips, flag_event_change>>
    BY <1>4 DEF Identify
  <2>2. CASE Sensor = "BUCKET"
    <3>1. at = 1
      BY <2>2, OrderIs DEF Sensor
    <3>2. CASE bucketCount = lastLoggedBucket
      <4>1. pc' = "Identify"
        BY <1>4, <2>2, <3>1, <3>2 DEF Identify, Changed, NextSensor
      <4>2. QED
        BY <2>1, <3>2, <4>1 DEF RainKept, Raining
    <3>3. CASE bucketCount # lastLoggedBucket
      <4>1. pc' = "ReadCount" /\ at' = 1
        BY <1>4, <2>2, <3>1, <3>3 DEF Identify, Changed
      <4>2. QED
        BY <2>1, <3>3, <4>1 DEF RainKept, Raining
    <3>4. QED
      BY <3>2, <3>3
  <2>3. CASE Sensor # "BUCKET"
    <3>1. at \in 2..4 /\ Sensor \in Switches
      BY <2>3, OrderIs DEF Sensor
    <3>2. \/ pc' \in {"Identify", "Pause"}
          \/ pc' = "Write" /\ at' = at /\ value' = pins[Sensor]
      BY <1>4, <2>3 DEF Identify, NextSensor
    <3>3. pins[Sensor] \in Levels
      BY <3>1
    <3>4. QED
      BY <2>1, <3>1, <3>2, <3>3 DEF RainKept, Raining
  <2>4. QED
    BY <2>2, <2>3
<1>5. CASE ReadCount
  BY <1>5 DEF ReadCount, RainKept, Raining
<1>6. CASE Write
  BY <1>6 DEF Write, RainKept, Raining
<1>7. CASE Transmit
  <2>1. /\ pc = "Transmit" /\ pc' \in {"Identify", "Pause"}
        /\ UNCHANGED <<bucketCount, era, tips, flag_event_change>>
    BY <1>7 DEF Transmit, NextSensor
  <2>2. CASE at = 1
    <3>1. lastLoggedBucket' = value /\ reported' = <<value, era>>
      BY <1>7, <2>2, OrderIs DEF Transmit, Sensor
    <3>2. reported'[1] = value /\ reported'[2] = era
      BY <3>1
    <3>3. pc' = "Identify" /\ at' = 2
      BY <1>7, <2>2 DEF Transmit, NextSensor
    <3>4. value <= bucketCount /\ (value = bucketCount \/ flag_event_change)
      BY <2>1, <2>2 DEF RainKept, Raining
    <3>5. bucketCount <= tips
      BY DEF RainKept
    <3>6. QED
      BY <2>1, <3>1, <3>2, <3>3, <3>4, <3>5 DEF RainKept, Raining
  <2>3. CASE at # 1
    <3>1. UNCHANGED <<lastLoggedBucket, reported>>
      BY <1>7, <2>3, OrderIs DEF Transmit, Sensor
    <3>2. QED
      BY <2>1, <2>3, <3>1 DEF RainKept, Raining
  <2>4. QED
    BY <2>2, <2>3
<1>8. CASE Tip
  <2>1. /\ UNCHANGED <<pc, at, value, lastLoggedBucket, era, reported>>
        /\ tips' = tips + 1
        /\ \/ bucketCount' = bucketCount /\ flag_event_change' = flag_event_change
           \/ bucketCount' = bucketCount + 1 /\ flag_event_change' = TRUE
    BY <1>8 DEF Tip, isr_bucket
  <2>2. CASE bucketCount' = bucketCount /\ flag_event_change' = flag_event_change
    BY <2>1, <2>2 DEF RainKept, Raining
  <2>3. CASE bucketCount' = bucketCount + 1 /\ flag_event_change' = TRUE
    BY <2>1, <2>3 DEF RainKept, Raining
  <2>4. QED
    BY <2>1, <2>2, <2>3
<1>9. CASE SwitchMoves
  <2>1. /\ UNCHANGED <<pc, at, value, bucketCount, lastLoggedBucket, era, reported, tips>>
        /\ flag_event_change => flag_event_change'
    BY <1>9, Zenon DEF SwitchMoves
  <2>2. QED
    BY <2>1 DEF RainKept, Raining
<1>10. CASE Tick \/ Lost \/ Receive
  <2>1. UNCHANGED <<pc, at, value, bucketCount, lastLoggedBucket, era, reported, tips,
                    flag_event_change>>
    BY <1>10 DEF Tick, Lost, Receive
  <2>2. QED
    BY <2>1 DEF RainKept, Raining
<1>11. CASE Reboot
  <2>1. /\ pc' = "setup" /\ at' = 1 /\ value' = 0 /\ bucketCount' = 0 /\ lastLoggedBucket' = 0
        /\ era' \in {era, era + 1} /\ reported' = <<0, era'>> /\ UNCHANGED tips
    BY <1>11 DEF Reboot, Restart
  <2>2. QED
    BY <2>1 DEF RainKept, Raining
<1>12. QED
  BY <1>1, <1>2, <1>3, <1>4, <1>5, <1>6, <1>7, <1>8, <1>9, <1>10, <1>11 DEF LNext, Loop

LEMMA RestForgetsNothingNext ==
  ASSUME LTypeOK', SwitchesKept', RainKept'
  PROVE  NothingForgotten'
<1> SUFFICES ASSUME pc' = "Pause", ~flag_event_change'
             PROVE  /\ missed' \/ \A s \in Switches : last'[s] = pins'[s]
                    /\ reported'[1] = bucketCount' \/ reported'[2] # era'
  BY DEF NothingForgotten, Resting
<1>1. missed' \/ \A s \in Switches : last'[s] = pins'[s]
  BY DEF SwitchesKept, Ahead
<1>2. reported'[1] = bucketCount' \/ reported'[2] # era'
  BY DEF RainKept, Raining
<1>3. QED
  BY <1>1, <1>2

-----------------------------------------------------------------------------
(* The logs and the packets *)

Elements(s) == {s[i] : i \in DOMAIN s}

LEMMA AppendParts ==
  ASSUME NEW S, NEW s \in Seq(S), NEW e \in S
  PROVE  /\ Len(s) \in Nat /\ DOMAIN s = 1..Len(s)
         /\ DOMAIN Append(s, e) = 1..(Len(s) + 1)
         /\ \A i \in 1..Len(s) : Append(s, e)[i] = s[i]
         /\ Append(s, e)[Len(s) + 1] = e
         /\ Elements(Append(s, e)) = Elements(s) \cup {e}
         /\ Elements(s) \subseteq S
<1>1. /\ Len(s) \in Nat /\ DOMAIN s = 1..Len(s)
      /\ DOMAIN Append(s, e) = 1..(Len(s) + 1)
      /\ \A i \in 1..Len(s) : Append(s, e)[i] = s[i]
      /\ Append(s, e)[Len(s) + 1] = e
      /\ \A i \in 1..Len(s) : s[i] \in S
  OBVIOUS
<1>2. Len(s) + 1 \in 1..(Len(s) + 1) /\ 1..(Len(s) + 1) = 1..Len(s) \cup {Len(s) + 1}
  BY <1>1
<1>3. QED
  BY <1>1, <1>2 DEF Elements

LEMMA TailParts ==
  ASSUME NEW S, NEW s \in Seq(S), s # <<>>
  PROVE  /\ Len(s) \in Nat \ {0} /\ DOMAIN s = 1..Len(s)
         /\ DOMAIN Tail(s) = 1..(Len(s) - 1)
         /\ \A i \in 1..(Len(s) - 1) : Tail(s)[i] = s[i + 1]
         /\ Head(s) = s[1] /\ Head(s) \in Elements(s)
         /\ Elements(Tail(s)) \subseteq Elements(s)
         /\ Elements(s) \subseteq S
<1>1. /\ Len(s) \in Nat \ {0} /\ DOMAIN s = 1..Len(s)
      /\ DOMAIN Tail(s) = 1..(Len(s) - 1)
      /\ \A i \in 1..(Len(s) - 1) : Tail(s)[i] = s[i + 1]
      /\ Head(s) = s[1]
      /\ \A i \in 1..Len(s) : s[i] \in S
  OBVIOUS
<1>2. QED
  BY <1>1 DEF Elements

Written == pc = "Transmit" /\ at = 1

RisingLog(log)    == \A i, j \in DOMAIN log : i < j => Rising(log[i], log[j])
RisingPackets(ps) == \A i, j \in DOMAIN ps : i < j => Rising(Parsed(ps[i]), Parsed(ps[j]))

LEMMA OrderParts ==
  RainInOrder <=>
    /\ \A r \in Elements(sdlog) : NotAhead(r, Written)
    /\ \A r \in Elements(rxlog) : NotAhead(r, FALSE)
    /\ \A p \in Elements(air) : NotAhead(Parsed(p), FALSE)
    /\ RisingLog(sdlog) /\ RisingLog(rxlog) /\ RisingPackets(air)
    /\ \A r \in Elements(rxlog), p \in Elements(air) : Rising(r, Parsed(p))
  BY DEF RainInOrder, Elements, RisingLog, RisingPackets, Written

LEMMA OrderPartsNext ==
  /\ \A r \in Elements(sdlog') : NotAhead(r, Written)'
  /\ \A r \in Elements(rxlog') : NotAhead(r, FALSE)'
  /\ \A p \in Elements(air') : NotAhead(Parsed(p), FALSE)'
  /\ RisingLog(sdlog') /\ RisingLog(rxlog') /\ RisingPackets(air')
  /\ \A r \in Elements(rxlog'), p \in Elements(air') : Rising(r, Parsed(p))
  => RainInOrder'
  BY DEF RainInOrder, Elements, RisingLog, RisingPackets, Written, NotAhead

\* The rows of rain of a log are at most what was sent; so they stay.
LEMMA NotAheadStep ==
  ASSUME LTypeOK, RainKept, LNext, NEW r \in Rows
  PROVE  /\ NotAhead(r, FALSE) => NotAhead(r, FALSE)'
         /\ NotAhead(r, Written) => NotAhead(r, Written)'
<1> SUFFICES ASSUME r.sensor = "BUCKET"
             PROVE  /\ NotAhead(r, FALSE) => NotAhead(r, FALSE)'
                    /\ NotAhead(r, Written) => NotAhead(r, Written)'
  BY DEF NotAhead
<1>0. r.era \in Nat /\ r.status[2] \in Nat
  BY DEF Rows, Statuses
<1> USE <1>0, RainTypes DEF NotAhead, Written, local, shared, logs, world, seen, used, tx, Go
<1>1. CASE ReadLevels
  <2>1. pc = "setup" /\ UNCHANGED era
    BY <1>1 DEF ReadLevels
  <2>2. QED
    BY <2>1
<1>2. CASE Attach \/ TestCount \/ ReadTime \/ TestAge \/ TestFlag \/ Pause
  <2>1. /\ pc \notin {"setup", "hang", "Transmit"} /\ pc' \notin {"setup", "hang", "Transmit"}
        /\ UNCHANGED <<era, reported, lastLoggedBucket>>
    BY <1>2 DEF Attach, TestCount, ReadTime, TestAge, TestFlag, Pause
  <2>2. QED
    BY <2>1
<1>3. CASE Zero
  <2>1. pc = "Zero" /\ era' = era + 1
    BY <1>3 DEF Zero
  <2>2. QED
    BY <2>1
<1>4. CASE Identify \/ ReadCount \/ Write
  <2>1. /\ pc \notin {"setup", "hang", "Transmit"} /\ pc' \notin {"setup", "hang"}
        /\ UNCHANGED <<era, reported, lastLoggedBucket>>
    BY <1>4 DEF Identify, NextSensor, ReadCount, Write
  <2>2. QED
    BY <2>1
<1>5. CASE Transmit
  <2>1. pc = "Transmit" /\ pc' \in {"Identify", "Pause"} /\ UNCHANGED era
    BY <1>5 DEF Transmit, NextSensor
  <2>2. CASE at = 1
    <3>1. lastLoggedBucket' = value /\ reported' = <<value, era>>
      BY <1>5, <2>2, OrderIs DEF Transmit, Sensor
    <3>2. reported'[2] = era
      BY <3>1
    <3>3. reported[2] = era => lastLoggedBucket < value
      BY <2>1, <2>2 DEF RainKept, Raining
    <3>4. QED
      BY <2>1, <2>2, <3>1, <3>2, <3>3
  <2>3. CASE at # 1
    <3>1. UNCHANGED <<lastLoggedBucket, reported>>
      BY <1>5, <2>3, OrderIs DEF Transmit, Sensor
    <3>2. QED
      BY <2>1, <2>3, <3>1
  <2>4. QED
    BY <2>2, <2>3
<1>6. CASE Tip \/ SwitchMoves \/ Tick \/ Lost \/ Receive
  <2>1. UNCHANGED <<pc, at, value, era, reported, lastLoggedBucket>>
    BY <1>6 DEF Tip, SwitchMoves, Tick, Lost, Receive
  <2>2. QED
    BY <2>1
<1>7. CASE Reboot
  <2>1. pc' = "setup" /\ era' = IF pc = "hang" THEN era ELSE era + 1
    BY <1>7 DEF Reboot, Restart
  <2>2. QED
    BY <2>1
<1>8. QED
  BY <1>1, <1>2, <1>3, <1>4, <1>5, <1>6, <1>7 DEF LNext, Loop

\* The value of a rain packet is the count: it fits.
LEMMA CountFits ==
  ASSUME MaxTips < Word, LTypeOK, RainKept, pc = "Transmit", at # 2
  PROVE  value % Word = value
<1>1. value \in Nat /\ value < Word
  <2>1. CASE at = 1
    <3>1. value <= bucketCount /\ bucketCount <= tips
      BY <2>1 DEF RainKept
    <3>2. QED
      BY <3>1, RainTypes
  <2>2. CASE at # 1
    <3>1. value \in Levels
      BY <2>2 DEF RainKept
    <3>2. QED
      BY <3>1, LinkAssumption DEF Levels, LOW, HIGH, LinkAssumption
  <2>3. QED
    BY <2>1, <2>2
<1>2. Word \in Nat \ {0}
  BY LinkAssumption DEF LinkAssumption
<1>3. QED
  BY <1>1, <1>2

NewRow    == [event |-> event, era |-> era, sensor |-> Sensor, status |-> Status(Sensor, value)]
NewPacket == [event |-> event, era |-> era, type |-> at, value |-> value % Word]

LEMMA NewTypes ==
  ASSUME LTypeOK
  PROVE  NewRow \in Rows /\ NewPacket \in Packets
<1>1. value % Word \in 0..(Word - 1)
  BY RainTypes, LinkAssumption DEF LinkAssumption
<1>2. NewPacket \in Packets
  BY <1>1, RainTypes DEF Packets, NewPacket
<1>3. NewRow \in Rows
  BY RainTypes, OrderIs, StatusIs DEF NewRow, Rows, Sensor
<1>4. QED
  BY <1>2, <1>3

\* What is written or sent says more rain than every row so far.
LEMMA NewRain ==
  ASSUME MaxTips < Word, LTypeOK, RainKept, NEW r \in Rows
  PROVE  /\ pc = "Write" /\ NotAhead(r, Written) => Rising(r, NewRow)
         /\ pc = "Transmit" /\ NotAhead(r, FALSE) => Rising(r, Parsed(NewPacket))
<1>1. CASE at = 1
  <2>1. Sensor = "BUCKET"
    BY <1>1, OrderIs DEF Sensor
  <2>2. NewRow.era = era /\ NewRow.status[2] = value
    BY <2>1 DEF NewRow, Status, Count
  <2>3. pc = "Transmit" => Parsed(NewPacket).era = era /\ Parsed(NewPacket).status[2] = value
    BY <1>1, <2>1, CountFits DEF Parsed, NewPacket, RemoteStatus, Count, Sensor
  <2>4. pc \in {"Write", "Transmit"} /\ reported[2] = era => lastLoggedBucket < value
    BY <1>1 DEF RainKept, Raining
  <2>5. r.status[2] \in Nat
    BY DEF Rows, Statuses
  <2>6. QED
    BY <2>2, <2>3, <2>4, <2>5, RainTypes DEF Rising, NotAhead, Written
<1>2. CASE at # 1
  <2>1. Sensor # "BUCKET"
    BY <1>2, RainTypes, OrderIs DEF Sensor
  <2>2. NewRow.sensor = Sensor /\ Parsed(NewPacket).sensor = Sensor
    BY DEF NewRow, Parsed, NewPacket, Sensor
  <2>3. QED
    BY <2>1, <2>2 DEF Rising
<1>3. QED
  BY <1>1, <1>2

LEMMA QuietOrder ==
  ASSUME LTypeOK, RainKept, RainInOrder, LNext, UNCHANGED <<sdlog, air, rxlog>>
  PROVE  RainInOrder'
<1>1. /\ Elements(sdlog) \subseteq Rows /\ Elements(rxlog) \subseteq Rows
      /\ Elements(air) \subseteq Packets
  BY DEF LTypeOK, Elements
<1>2. /\ \A r \in Elements(sdlog) : NotAhead(r, Written)'
      /\ \A r \in Elements(rxlog) : NotAhead(r, FALSE)'
      /\ \A p \in Elements(air) : NotAhead(Parsed(p), FALSE)'
  BY <1>1, NotAheadStep, ParsedIs, OrderParts
<1>3. QED
  BY <1>2, OrderParts, OrderPartsNext

LEMMA WriteOrder ==
  ASSUME MaxTips < Word, LTypeOK, RainKept, RainInOrder, Write, sdlog' = Append(sdlog, NewRow)
  PROVE  RainInOrder'
<1>1. /\ Elements(sdlog) \subseteq Rows /\ Elements(rxlog) \subseteq Rows
      /\ Elements(air) \subseteq Packets /\ sdlog \in Seq(Rows) /\ NewRow \in Rows
  BY NewTypes DEF LTypeOK, Elements
<1>2. /\ pc = "Write" /\ pc' = "Transmit"
      /\ UNCHANGED <<air, rxlog, at, value, era>>
  BY DEF Write, Go, local
<1>3. \A r \in Rows : /\ NotAhead(r, Written) => NotAhead(r, Written)'
                      /\ NotAhead(r, FALSE) => NotAhead(r, FALSE)'
  BY NotAheadStep DEF LNext, Loop
<1>4. PICK row \in Rows : row = NewRow
  BY <1>1
<1>5. NotAhead(row, Written)'
  <2>1. row.sensor = Sensor /\ row.era = era
    BY <1>4 DEF NewRow
  <2>2. Sensor = "BUCKET" => at = 1 /\ row.status[2] = value
    BY <1>4, RainTypes, OrderIs DEF NewRow, Status, Count, Sensor
  <2>3. QED
    BY <1>2, <2>1, <2>2, RainTypes DEF NotAhead, Written
<1>6. \A r \in Elements(sdlog') : NotAhead(r, Written)'
  <2>1. Elements(sdlog') = Elements(sdlog) \cup {row}
    BY <1>1, <1>4, AppendParts
  <2>2. \A r \in Elements(sdlog) : NotAhead(r, Written)
    BY OrderParts
  <2>3. QED
    BY <1>1, <1>3, <1>5, <2>1, <2>2
<1>7. RisingLog(sdlog')
  <2>1. \A r \in Elements(sdlog) : Rising(r, NewRow)
    BY <1>1, <1>2, NewRain, OrderParts
  <2>2. RisingLog(sdlog)
    BY OrderParts
  <2> HIDE DEF NewRow
  <2>3. QED
    BY <1>1, <2>1, <2>2, AppendParts DEF RisingLog, Elements
<1>8. QED
  BY <1>1, <1>2, <1>3, <1>6, <1>7, ParsedIs, OrderParts, OrderPartsNext

LEMMA TransmitOrder ==
  ASSUME MaxTips < Word, LTypeOK, RainKept, RainInOrder, Transmit
  PROVE  RainInOrder'
<1>1. /\ Elements(sdlog) \subseteq Rows /\ Elements(rxlog) \subseteq Rows
      /\ Elements(air) \subseteq Packets /\ air \in Seq(Packets) /\ NewPacket \in Packets
  BY NewTypes DEF LTypeOK, Elements
<1>2. /\ pc = "Transmit" /\ pc' \in {"Identify", "Pause"} /\ UNCHANGED <<sdlog, rxlog, era>>
      /\ air' = Append(air, NewPacket)
  BY DEF Transmit, NextSensor, NewPacket
<1>3. \A r \in Rows : /\ NotAhead(r, Written) => NotAhead(r, Written)'
                      /\ NotAhead(r, FALSE) => NotAhead(r, FALSE)'
  BY NotAheadStep DEF LNext, Loop
<1>4. PICK p \in Packets : p = NewPacket
  BY <1>1
<1>5. NotAhead(Parsed(p), FALSE)'
  <2>1. Parsed(p).sensor = Sensor /\ Parsed(p).era = era
    BY <1>4 DEF Parsed, NewPacket, Sensor
  <2>2. CASE at = 1
    <3>1. Sensor = "BUCKET" /\ Parsed(p).status[2] = value
      BY <1>2, <1>4, <2>2, OrderIs, CountFits
         DEF Parsed, NewPacket, RemoteStatus, Count, Sensor
    <3>2. lastLoggedBucket' = value /\ reported' = <<value, era>>
      BY <3>1 DEF Transmit
    <3>3. reported'[2] = era
      BY <3>2
    <3>4. QED
      BY <1>2, <2>1, <3>1, <3>2, <3>3, RainTypes DEF NotAhead
  <2>3. CASE at # 1
    <3>1. Sensor # "BUCKET"
      BY <2>3, RainTypes, OrderIs DEF Sensor
    <3>2. QED
      BY <2>1, <3>1 DEF NotAhead
  <2>4. QED
    BY <2>2, <2>3
<1>6. \A q \in Elements(air') : NotAhead(Parsed(q), FALSE)'
  <2>1. Elements(air') = Elements(air) \cup {p}
    BY <1>1, <1>2, <1>4, AppendParts
  <2>2. \A q \in Elements(air) : NotAhead(Parsed(q), FALSE) /\ Parsed(q) \in Rows
    BY <1>1, OrderParts, ParsedIs
  <2>3. QED
    BY <1>3, <1>5, <2>1, <2>2
<1>7. \A r \in Rows : NotAhead(r, FALSE) => Rising(r, Parsed(p))
  BY <1>2, <1>4, NewRain
<1>8. \A q \in Elements(air) : Rising(Parsed(q), Parsed(p))
  BY <1>1, <1>7, OrderParts, ParsedIs
<1>9. RisingPackets(air')
  <2>1. RisingPackets(air) /\ air' = Append(air, p)
    BY <1>2, <1>4, OrderParts
  <2>2. QED
    BY <1>1, <1>8, <2>1, AppendParts DEF RisingPackets, Elements
<1>10. \A r \in Elements(rxlog'), q \in Elements(air') : Rising(r, Parsed(q))
  <2>1. Elements(air') = Elements(air) \cup {p}
    BY <1>1, <1>2, <1>4, AppendParts
  <2>2. \A r \in Elements(rxlog) : r \in Rows /\ NotAhead(r, FALSE)
    BY <1>1, OrderParts
  <2>3. \A r \in Elements(rxlog), q \in Elements(air) : Rising(r, Parsed(q))
    BY OrderParts
  <2>4. QED
    BY <1>2, <1>7, <2>1, <2>2, <2>3
<1>11. /\ \A r \in Elements(sdlog') : NotAhead(r, Written)'
       /\ \A r \in Elements(rxlog') : NotAhead(r, FALSE)'
  BY <1>1, <1>2, <1>3, OrderParts
<1>12. RisingLog(sdlog') /\ RisingLog(rxlog')
  BY <1>2, OrderParts
<1>13. QED
  BY <1>6, <1>9, <1>10, <1>11, <1>12, OrderPartsNext

LEMMA RadioOrder ==
  ASSUME LTypeOK, RainKept, RainInOrder, Lost \/ Receive
  PROVE  RainInOrder'
<1>1. /\ Elements(sdlog) \subseteq Rows /\ Elements(rxlog) \subseteq Rows
      /\ Elements(air) \subseteq Packets /\ air \in Seq(Packets) /\ rxlog \in Seq(Rows)
  BY DEF LTypeOK, Elements
<1>2. /\ air # <<>> /\ air' = Tail(air) /\ UNCHANGED sdlog
      /\ rxlog' = rxlog \/ rxlog' = Append(rxlog, Parsed(Head(air)))
  BY DEF Lost, Receive
<1>3. \A r \in Rows : /\ NotAhead(r, Written) => NotAhead(r, Written)'
                      /\ NotAhead(r, FALSE) => NotAhead(r, FALSE)'
  BY NotAheadStep DEF LNext
<1>4. /\ Elements(air') \subseteq Elements(air) /\ Head(air) \in Elements(air)
      /\ Head(air) \in Packets
  BY <1>1, <1>2, TailParts
<1>5. PICK row \in Rows : row = Parsed(Head(air))
  BY <1>4, ParsedIs
<1>6. NotAhead(row, FALSE) /\ \A r \in Elements(rxlog) : Rising(r, row)
  BY <1>4, <1>5, OrderParts
<1>7. RisingPackets(air') /\ \A q \in Elements(air') : Rising(row, Parsed(q))
  <2>1. RisingPackets(air)
    BY OrderParts
  <2>2. /\ Len(air) \in Nat \ {0} /\ DOMAIN air = 1..Len(air)
        /\ DOMAIN air' = 1..(Len(air) - 1)
        /\ \A i \in 1..(Len(air) - 1) : air'[i] = air[i + 1]
        /\ Head(air) = air[1]
    BY <1>1, <1>2, TailParts
  <2>3. ASSUME NEW i \in 1..(Len(air) - 1), NEW j \in 1..(Len(air) - 1), i < j
        PROVE  Rising(Parsed(air'[i]), Parsed(air'[j]))
    <3>1. i + 1 \in DOMAIN air /\ j + 1 \in DOMAIN air /\ i + 1 < j + 1
      BY <2>2, <2>3
    <3>2. QED
      BY <2>1, <2>2, <3>1 DEF RisingPackets
  <2>4. ASSUME NEW q \in Elements(air') PROVE Rising(row, Parsed(q))
    <3>1. PICK i \in 1..(Len(air) - 1) : q = air[i + 1]
      BY <2>2 DEF Elements
    <3>2. 1 \in DOMAIN air /\ i + 1 \in DOMAIN air /\ 1 < i + 1
      BY <2>2
    <3>3. QED
      BY <1>5, <2>1, <2>2, <3>1, <3>2 DEF RisingPackets
  <2>5. QED
    BY <2>2, <2>3, <2>4 DEF RisingPackets
<1>8. /\ Elements(rxlog') \subseteq Elements(rxlog) \cup {row}
      /\ RisingLog(rxlog')
  <2>1. RisingLog(rxlog)
    BY OrderParts
  <2>2. CASE rxlog' = rxlog
    BY <2>1, <2>2
  <2>3. CASE rxlog' = Append(rxlog, row)
    BY <1>1, <1>6, <2>1, <2>3, AppendParts DEF RisingLog, Elements
  <2>4. QED
    BY <1>2, <1>5, <2>2, <2>3
<1>9. \A r \in Elements(rxlog') : NotAhead(r, FALSE)'
  BY <1>1, <1>3, <1>6, <1>8, OrderParts
<1>10. \A q \in Elements(air') : NotAhead(Parsed(q), FALSE)'
  BY <1>1, <1>3, <1>4, OrderParts, ParsedIs
<1>11. \A r \in Elements(rxlog'), q \in Elements(air') : Rising(r, Parsed(q))
  BY <1>4, <1>7, <1>8, OrderParts
<1>12. \A r \in Elements(sdlog') : NotAhead(r, Written)'
  BY <1>1, <1>2, <1>3, OrderParts
<1>13. RisingLog(sdlog')
  BY <1>2, OrderParts
<1>14. QED
  BY <1>7, <1>8, <1>9, <1>10, <1>11, <1>12, <1>13, OrderPartsNext

LEMMA RainInOrderStep ==
  ASSUME MaxTips < Word, LTypeOK, RainKept, RainInOrder, LNext
  PROVE  RainInOrder'
<1> USE DEF local, shared, logs, world, seen, used, tx
<1>1. CASE UNCHANGED <<sdlog, air, rxlog>>
  BY <1>1, QuietOrder
<1>2. CASE Write
  BY <1>1, <1>2, WriteOrder DEF Write, NewRow
<1>3. CASE Transmit
  BY <1>3, TransmitOrder
<1>4. CASE Lost \/ Receive
  BY <1>4, RadioOrder
<1>5. QED
  BY <1>1, <1>2, <1>3, <1>4
     DEF LNext, Loop, ReadLevels, Attach, TestCount, ReadTime, TestAge, Zero, TestFlag,
         Identify, ReadCount, Pause, Tip, SwitchMoves, Tick, Reboot, Restart

-----------------------------------------------------------------------------
(* Events *)

\* A row of the card, a row or a packet of the other side, of this event.
OfThis(r) ==
  /\ r.event <= event
  /\ r.event = event => /\ pc \notin {"ReadCount", "Write"}
                        /\ pc = "Transmit" => r = NewRow
NotYet(r) == r.event <= event /\ (r.event = event => pc \notin {"ReadCount", "Write", "Transmit"})

LEMMA MatchParts ==
  EventsMatch <=>
    /\ \A r \in Elements(sdlog) : OfThis(r)
    /\ \A r \in Elements(rxlog) : NotYet(r)
    /\ \A p \in Elements(air) : NotYet(p)
    /\ \A r \in Elements(sdlog), s \in Elements(rxlog) : Match(r, s)
    /\ \A r \in Elements(sdlog), p \in Elements(air) : Match(r, Parsed(p))
  BY DEF EventsMatch, Elements, OfThis, NotYet, NewRow

LEMMA MatchPartsNext ==
  /\ \A r \in Elements(sdlog') : OfThis(r)'
  /\ \A r \in Elements(rxlog') : NotYet(r)'
  /\ \A p \in Elements(air') : NotYet(p)'
  /\ \A r \in Elements(sdlog'), s \in Elements(rxlog') : Match(r, s)
  /\ \A r \in Elements(sdlog'), p \in Elements(air') : Match(r, Parsed(p))
  => EventsMatch'
  BY DEF EventsMatch, Elements, OfThis, NotYet, NewRow, Sensor

\* The rows of an event stay its rows.
LEMMA EventStep ==
  ASSUME LTypeOK, LNext, NEW r, r.event \in Nat
  PROVE  /\ OfThis(r) => OfThis(r)'
         /\ NotYet(r) => NotYet(r)'
<1> USE RainTypes DEF OfThis, NotYet, local, shared, logs, world, seen, used, tx, Go
<1>1. CASE \/ ReadLevels \/ Attach \/ TestCount \/ ReadTime \/ TestAge \/ Zero \/ TestFlag
           \/ Pause \/ Reboot
  <2>1. pc' \notin {"ReadCount", "Write", "Transmit"} /\ UNCHANGED event
    BY <1>1 DEF ReadLevels, Attach, TestCount, ReadTime, TestAge, Zero, TestFlag, Pause,
                Reboot, Restart
  <2>2. QED
    BY <2>1
<1>2. CASE Identify
  <2>1. \/ pc' \in {"Identify", "Pause"} /\ UNCHANGED event
        \/ event' = event + 1
    BY <1>2 DEF Identify, NextSensor
  <2>2. QED
    BY <2>1
<1>3. CASE ReadCount
  BY <1>3 DEF ReadCount
<1>4. CASE Write
  BY <1>4 DEF Write
<1>5. CASE Transmit
  <2>1. pc' \in {"Identify", "Pause"} /\ UNCHANGED event
    BY <1>5 DEF Transmit, NextSensor
  <2>2. QED
    BY <2>1
<1>6. CASE Tip \/ SwitchMoves \/ Tick \/ Lost \/ Receive
  <2>1. UNCHANGED <<pc, at, value, event, era>>
    BY <1>6 DEF Tip, SwitchMoves, Tick, Lost, Receive
  <2>2. NewRow' = NewRow
    BY <2>1 DEF NewRow, Sensor
  <2>3. QED
    BY <2>1, <2>2
<1>7. QED
  BY <1>1, <1>2, <1>3, <1>4, <1>5, <1>6 DEF LNext, Loop

\* The packet of the row that was just written says the same.
LEMMA SameStatus ==
  ASSUME MaxTips < Word, LTypeOK, RainKept, pc = "Transmit", Sensor # "LEAF"
  PROVE  Parsed(NewPacket) = NewRow
<1>1. at # 2 /\ at \in 1..4
  BY RainTypes, OrderIs DEF Sensor
<1>2. value % Word = value
  BY <1>1, CountFits
<1>3. RemoteStatus(Sensor, value) = Status(Sensor, value)
  BY <1>1, OrderIs DEF Sensor, RemoteStatus, Status
<1>4. QED
  BY <1>2, <1>3 DEF Parsed, NewPacket, NewRow, Sensor

LEMMA EventsMatchStep ==
  ASSUME MaxTips < Word, LTypeOK, RainKept, EventsMatch, LNext
  PROVE  EventsMatch'
<1>1. /\ Elements(sdlog) \subseteq Rows /\ Elements(rxlog) \subseteq Rows
      /\ Elements(air) \subseteq Packets /\ NewRow \in Rows /\ NewPacket \in Packets
      /\ sdlog \in Seq(Rows) /\ rxlog \in Seq(Rows) /\ air \in Seq(Packets)
  <2>1. sdlog \in Seq(Rows) /\ rxlog \in Seq(Rows) /\ air \in Seq(Packets)
    BY DEF LTypeOK
  <2>2. /\ Elements(sdlog) \subseteq Rows /\ Elements(rxlog) \subseteq Rows
        /\ Elements(air) \subseteq Packets
    BY <2>1 DEF Elements
  <2>3. QED
    BY <2>1, <2>2, NewTypes
<1>2. /\ \A r \in Elements(sdlog) : OfThis(r)'
      /\ \A r \in Elements(rxlog) : NotYet(r)'
      /\ \A p \in Elements(air) : NotYet(p)'
  <2>1. /\ \A r \in Rows : r.event \in Nat
        /\ \A p \in Packets : p.event \in Nat
    BY DEF Rows, Packets
  <2>2. QED
    BY <1>1, <2>1, EventStep, MatchParts
<1>3. CASE UNCHANGED <<sdlog, air, rxlog>>
  BY <1>2, <1>3, MatchParts, MatchPartsNext
<1>4. CASE Write /\ sdlog' = Append(sdlog, NewRow)
  <2>1. /\ pc = "Write" /\ pc' = "Transmit" /\ UNCHANGED <<air, rxlog, at, value, era, event>>
    BY <1>4 DEF Write, Go, local
  <2>2. PICK row \in Rows : row = NewRow
    BY <1>1
  <2>3. OfThis(row)' /\ row.event = event
    BY <2>1, <2>2, RainTypes DEF OfThis, NewRow, Sensor
  <2>4. Elements(sdlog') = Elements(sdlog) \cup {row}
    BY <1>1, <1>4, <2>2, AppendParts
  <2>5. /\ \A r \in Elements(rxlog) : r.event # event
        /\ \A p \in Elements(air) : p.event # event
    BY <2>1, MatchParts DEF NotYet
  <2>6. /\ \A s \in Elements(rxlog) : Match(row, s)
        /\ \A p \in Elements(air) : Match(row, Parsed(p))
    BY <2>3, <2>5 DEF Match, Parsed
  <2>7. QED
    BY <1>2, <2>1, <2>3, <2>4, <2>6, MatchParts, MatchPartsNext
<1>5. CASE Transmit
  <2>1. /\ pc = "Transmit" /\ pc' \in {"Identify", "Pause"} /\ UNCHANGED <<sdlog, rxlog, event>>
        /\ air' = Append(air, NewPacket)
    BY <1>5 DEF Transmit, NextSensor, NewPacket
  <2>2. PICK p \in Packets : p = NewPacket
    BY <1>1
  <2>3. NotYet(p)' /\ p.event = event
    BY <2>1, <2>2, RainTypes DEF NotYet, NewPacket
  <2>4. Elements(air') = Elements(air) \cup {p}
    BY <1>1, <2>1, <2>2, AppendParts
  <2>5. ASSUME NEW r \in Elements(sdlog) PROVE Match(r, Parsed(p))
    <3>1. SUFFICES ASSUME r.event = event, r.sensor # "LEAF"
                   PROVE  r = Parsed(p)
      BY <2>3 DEF Match, Parsed
    <3>2. r = NewRow
      BY <2>1, <3>1, MatchParts DEF OfThis
    <3>3. Sensor # "LEAF"
      BY <3>1, <3>2 DEF NewRow
    <3>4. QED
      BY <2>1, <2>2, <3>2, <3>3, SameStatus
  <2>6. QED
    BY <1>2, <2>1, <2>3, <2>4, <2>5, MatchParts, MatchPartsNext
<1>6. CASE Lost \/ Receive
  <2>1. /\ air # <<>> /\ air' = Tail(air) /\ UNCHANGED sdlog
        /\ rxlog' = rxlog \/ rxlog' = Append(rxlog, Parsed(Head(air)))
    BY <1>6 DEF Lost, Receive, tx
  <2>2. /\ Elements(air') \subseteq Elements(air) /\ Head(air) \in Elements(air)
        /\ Head(air) \in Packets
    BY <1>1, <2>1, TailParts
  <2>3. PICK row \in Rows : row = Parsed(Head(air))
    BY <2>2, ParsedIs
  <2>4. Elements(rxlog') \subseteq Elements(rxlog) \cup {row}
    <3>1. CASE rxlog' = rxlog
      BY <3>1
    <3>2. CASE rxlog' = Append(rxlog, row)
      BY <1>1, <3>2, AppendParts
    <3>3. QED
      BY <2>1, <2>3, <3>1, <3>2
  <2>5. NotYet(row)'
    <3>1. PICK p \in Elements(air) : p = Head(air)
      BY <2>2
    <3>2. row.event = p.event
      BY <2>3, <3>1 DEF Parsed
    <3>3. NotYet(p)'
      BY <1>2
    <3>4. QED
      BY <3>2, <3>3 DEF NotYet
  <2>6. \A r \in Elements(sdlog) : Match(r, row)
    BY <2>2, <2>3, MatchParts
  <2>7. QED
    BY <1>2, <2>1, <2>2, <2>4, <2>5, <2>6, MatchParts, MatchPartsNext
<1>7. QED
  BY <1>3, <1>4, <1>5, <1>6
     DEF LNext, Loop, ReadLevels, Attach, TestCount, ReadTime, TestAge, Zero, TestFlag,
         Identify, ReadCount, Write, Pause, Tip, SwitchMoves, Tick, Reboot, Restart, logs, NewRow

-----------------------------------------------------------------------------
(* The invariant *)

LEMMA LinkInit ==
  LInit => LinkInd
<1> SUFFICES ASSUME LInit PROVE LinkInd
  OBVIOUS
<1>1. /\ pc = "setup" /\ at = 1 /\ value = 0 /\ bucketCount = 0 /\ lastLoggedBucket = 0
      /\ sdlog = <<>> /\ air = <<>> /\ rxlog = <<>> /\ era = 0 /\ reported = <<0, 0>>
      /\ tips = 0 /\ event = 0
  BY DEF LInit, Ram
<1>2. LTypeOK
  <2>1. LoopTypes
    BY DEF LInit, Ram, LoopTypes, Places
  <2>2. LogTypes
    <3>1. <<>> \in Seq(Rows) /\ <<>> \in Seq(Packets)
      OBVIOUS
    <3>2. QED
      BY <1>1, <3>1 DEF LogTypes
  <2>3. WorldTypes
    BY LinkAssumption DEF LInit, WorldTypes, LinkAssumption
  <2>4. flag_event_change \in BOOLEAN /\ missed \in BOOLEAN
    BY Zenon DEF LInit, Ram
  <2>5. QED
    BY <2>1, <2>2, <2>3, <2>4, TypeParts
<1>3. SwitchesKept /\ NothingForgotten
  BY <1>1 DEF SwitchesKept, NothingForgotten, Resting
<1>4. RainKept
  BY <1>1 DEF RainKept, Raining, LInit, Ram
<1>5. RainInOrder /\ EventsMatch
  <2>1. DOMAIN sdlog = {} /\ DOMAIN air = {} /\ DOMAIN rxlog = {}
    BY <1>1
  <2>2. QED
    BY <2>1 DEF RainInOrder, EventsMatch
<1>6. QED
  BY <1>2, <1>3, <1>4, <1>5 DEF LinkInd, LinkInv

LEMMA LinkStep ==
  LinkInd /\ [LNext]_lvars => LinkInd'
<1> SUFFICES ASSUME LinkInd, [LNext]_lvars PROVE LinkInd'
  OBVIOUS
<1>0. /\ LTypeOK /\ SwitchesKept /\ RainKept /\ NothingForgotten
      /\ MaxTips < Word => RainInOrder /\ EventsMatch
  BY DEF LinkInd, LinkInv
<1>1. LTypeOK'
  BY <1>0, LinkTypesStep
<1>2. CASE LNext
  <2>1. SwitchesKept' /\ RainKept'
    BY <1>0, <1>2, SwitchesKeptStep, RainKeptStep
  <2>2. NothingForgotten'
    BY <1>1, <2>1, RestForgetsNothingNext
  <2>3. MaxTips < Word => RainInOrder' /\ EventsMatch'
    BY <1>0, <1>2, RainInOrderStep, EventsMatchStep
  <2>4. QED
    BY <1>1, <2>1, <2>2, <2>3 DEF LinkInd, LinkInv
<1>3. CASE UNCHANGED lvars
  <2>1. /\ UNCHANGED <<pc, at, value, flag_event_change, bucketCount, lastLoggedBucket, last>>
        /\ UNCHANGED <<pins, sdlog, air, rxlog, event, era, reported, missed, tips>>
    BY <1>3 DEF lvars, tx, seen, used
  <2>2. SwitchesKept' /\ RainKept'
    BY <1>0, <2>1 DEF SwitchesKept, Ahead, RainKept, Raining
  <2>3. NothingForgotten'
    BY <1>0, <2>1 DEF NothingForgotten, Resting
  <2>4. RainInOrder => RainInOrder'
    BY <2>1 DEF RainInOrder, NotAhead
  <2>5. EventsMatch => EventsMatch'
    BY <2>1 DEF EventsMatch, Sensor
  <2>6. QED
    BY <1>0, <1>1, <2>2, <2>3, <2>4, <2>5 DEF LinkInd, LinkInv
<1>4. QED
  BY <1>2, <1>3

\* LinkInd: an interrupt amid identifyAndLog(), a lost packet or a restart
\* keeps the order and the agreement of the logs as well.
LEMMA LinkInductive ==
  LSpec => []LinkInd
  BY LinkInit, LinkStep, PTL DEF LSpec

\* In every reachable state nothing is forgotten when the loop rests: every
\* switch reads what was logged for it last and the last rain packet carries
\* the count; whatever interrupts fall into identifyAndLog().  The switches
\* it has still to look at, and the count it is sending, are what makes this
\* inductive.
THEOREM LinkInvariant ==
  LSpec => []LinkInv
<1>1. LinkInd => LinkInv
  BY DEF LinkInd
<1>2. QED
  BY <1>1, LinkInductive, PTL

\* With no more tips than 16 bits can count, the rain counts of both logs
\* strictly increase between two restarts of the counter, whatever packets
\* are lost and whatever writes fail.
THEOREM CountsRise ==
  ASSUME MaxTips < Word
  PROVE  LSpec => []CountsIncrease
<1>1. LinkInd => CountsIncrease
  BY DEF LinkInd, RainInOrder, CountsIncrease, Logged, Rising
<1>2. QED
  BY <1>1, LinkInductive, PTL

\* Within the same bound, the receiver's row of a rain or float event is the
\* row on the transmitter's card.
THEOREM LogsAgree ==
  ASSUME MaxTips < Word
  PROVE  LSpec => []RainAndFloatsAgree
<1>1. LinkInd => RainAndFloatsAgree
  BY DEF LinkInd, EventsMatch, Match, RainAndFloatsAgree, AgreeOn
<1>2. QED
  BY <1>1, LinkInductive, PTL
=============================================================================
