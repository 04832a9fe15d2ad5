-------------------------- MODULE SensorNodeProofs --------------------------
(* Proofs about SensorNode, for every number of stimuli and every PinStates. *)
EXTENDS SensorNode, TLAPS

\* A row under construction is not the empty placeholder.
LEMMA NoRowIsNoRow == NoRow \notin Row
  BY DEF NoRow, Row

LEMMA UseType ==
  ASSUME NEW s \in Stimuli, Use(s), used \in [Stimuli -> Nat]
  PROVE  used' \in [Stimuli -> Nat]
  BY DEF Use

\* Types and control flow hold together: TypeOK alone is not inductive, since
\* writeToSD appends data, which is a row only where Flow says so.
LEMMA TypeFlowStep == TypeOK /\ Flow /\ [Next]_vars => TypeOK' /\ Flow'
<1> SUFFICES ASSUME TypeOK, Flow, [Next]_vars PROVE TypeOK' /\ Flow'
  OBVIOUS
<1> USE DEF TypeOK, Flow, Goto, Modes, Places, vars, thread, shared, statics,
            board, outside, stores, ghosts
<1>1. CASE Setup
  <2>1. sdUp' \in BOOLEAN /\ rtcArmed' \in BOOLEAN /\ epoch' \in Nat
    BY <1>1, TimeAssumption DEF Setup, SdBegin, RtcBegin
  <2>2. /\ pc' = "AckTimer" /\ pc = "Setup" /\ watchdog' = TRUE /\ rail' = FALSE
        /\ UNCHANGED <<todo, mode, currentEpoch, data, shared, statics, rtcLow, pins, stores, ghosts>>
    BY <1>1 DEF Setup
  <2>3. QED
    BY <2>1, <2>2
<1>2. CASE AckTimer
  <2>1. rtcLow' \in BOOLEAN
    BY <1>2 DEF AckTimer, AckRtc
  <2>2. /\ pc' = "PollDigital" /\ pc = "AckTimer"
        /\ UNCHANGED <<todo, mode, currentEpoch, data, shared, statics, rail, watchdog,
                      sdUp, rtcArmed, outside, stores, ghosts>>
    BY <1>2 DEF AckTimer
  <2>3. QED
    BY <2>1, <2>2
<1>3. CASE PollDigital
  <2>1. todo' \in SUBSET Modes
    BY <1>3 DEF PollDigital
  <2>2. /\ pc' = "PollRtc" /\ flag_event_change' = FALSE
        /\ UNCHANGED <<mode, currentEpoch, data, bucketCount, rtcTriggered, statics,
                      board, outside, stores, ghosts>>
    BY <1>3 DEF PollDigital
  <2>3. QED
    BY <2>1, <2>2
<1>4. CASE PollRtc
  <2>1. todo' \in SUBSET Modes
    BY <1>4 DEF PollRtc
  <2>2. /\ pc' = "Dispatch" /\ rtcTriggered' = FALSE
        /\ UNCHANGED <<mode, currentEpoch, data, bucketCount, flag_event_change, statics,
                      board, outside, stores, ghosts>>
    BY <1>4 DEF PollRtc
  <2>3. QED
    BY <2>1, <2>2
<1>5. CASE Dispatch
  <2>1. CASE todo = {} /\ pc' = "Disarm" /\ UNCHANGED <<todo, mode, currentEpoch>>
    BY <1>5, <2>1 DEF Dispatch
  <2>2. ASSUME NEW m \in todo, mode' = m, todo' = todo \ {m},
               currentEpoch' = epoch, pc' = "BucketCheck"
        PROVE  TypeOK' /\ Flow'
    <3>1. todo' \in SUBSET Modes /\ mode' \in Modes
      BY <2>2
    <3>2. QED
      BY <1>5, <2>2, <3>1 DEF Dispatch
  <2>3. QED
    BY <1>5, <2>1, <2>2 DEF Dispatch
<1>6. CASE Disarm
  BY <1>6 DEF Disarm
<1>7. CASE SleepCheck
  BY <1>7 DEF SleepCheck
<1>8. CASE Doze
  BY <1>8 DEF Doze
<1>9. CASE Rearm
  BY <1>9 DEF Rearm
<1>10. CASE BucketCheck
  BY <1>10 DEF BucketCheck, Branch
<1>11. CASE BucketZero
  BY <1>11 DEF BucketZero, Branch
<1>12. CASE Reject
  BY <1>12 DEF Reject
<1>13. CASE Accept
  BY <1>13 DEF Accept
<1>14. CASE PowerOn
  BY <1>14 DEF PowerOn
<1>15. CASE Sample
  <2>1. data' \in Row
    BY <1>15 DEF Sample, NextRecordID, Row, boot, Stimuli
  <2>2. pc' \in {"PowerOff", "WriteSD"} /\ (pc' = "PowerOff" => mode = "RTC")
    BY <1>15 DEF Sample
  <2>3. globalRecordID' \in Nat /\ debounced' \in BOOLEAN
    <3>1. globalRecordID' = globalRecordID + 1
      BY <1>15 DEF Sample, NextRecordID
    <3>2. globalRecordID' \in Nat
      BY <3>1
    <3>3. debounced' \in BOOLEAN
      BY <1>15, Zenon DEF Sample
    <3>4. QED
      BY <3>2, <3>3
  <2>3a. UNCHANGED <<todo, mode, currentEpoch, shared, lastDigitalProcessEpoch,
                     board, outside, stores, lastTip, used>>
    BY <1>15, Zenon DEF Sample
  <2>4. TypeOK'
    BY <2>1, <2>2, <2>3, <2>3a
  <2>5. Flow'
    BY <1>15, <2>1, <2>2, <2>3a DEF Sample
  <2>6. QED
    BY <2>4, <2>5
<1>16. CASE PowerOff
  BY <1>16 DEF PowerOff
<1>17. CASE WriteSD
  <2>1. data \in Row
    BY <1>17 DEF WriteSD
  <2>2. sd' \in Seq(Row)
    BY <1>17, <2>1 DEF WriteSD
  <2>3. pc' = "AddNote" /\ UNCHANGED <<todo, mode, currentEpoch, data, shared, statics, board,
                                      outside, notes, ghosts>>
    BY <1>17 DEF WriteSD
  <2>4. QED
    BY <2>1, <2>2, <2>3
<1>18. CASE AddNote
  <2>1. data \in Row
    BY <1>18 DEF AddNote
  <2>2. notes' \in Seq(Row)
    BY <1>18, <2>1 DEF AddNote
  <2>3. /\ pc' \in {"Dispatch", "ResetTimer"} /\ (pc' = "ResetTimer" => mode = "RTC")
        /\ UNCHANGED <<todo, mode, currentEpoch, data, shared, statics, board, outside, sd, ghosts>>
    BY <1>18 DEF AddNote
  <2>4. QED
    BY <2>1, <2>2, <2>3
<1>19. CASE ResetTimer
  <2>1. rtcLow' \in BOOLEAN
    BY <1>19 DEF ResetTimer, AckRtc
  <2>2. /\ pc' = "Dispatch"
        /\ UNCHANGED <<todo, mode, currentEpoch, data, shared, statics, rail, watchdog,
                      sdUp, rtcArmed, outside, stores, ghosts>>
    BY <1>19 DEF ResetTimer
  <2>3. QED
    BY <2>1, <2>2
<1>20. CASE BucketTip
  <2>1. used' \in [Stimuli -> Nat]
    BY <1>20, UseType DEF BucketTip, Stimuli
  <2>2. QED
    BY <1>20, <2>1 DEF BucketTip, isr_bucket, Wake, Attached
<1>21. CASE PinChange
  <2>1. used' \in [Stimuli -> Nat]
    BY <1>21, UseType DEF PinChange, Stimuli
  <2>2. QED
    BY <1>21, <2>1 DEF PinChange, isr_generic, Wake, Attached
<1>22. CASE RtcTick
  <2>1. used' \in [Stimuli -> Nat]
    BY <1>22, UseType DEF RtcTick, Stimuli
  <2>2. rtcTriggered' \in BOOLEAN /\ rtcLow' \in BOOLEAN
    BY <1>22 DEF RtcTick, isr_rtc, Attached
  <2>3. pc' \in {pc, "Rearm"} /\ (pc' = "Rearm" => pc \in {"Asleep", "Rearm"})
    BY <1>22 DEF RtcTick, Wake
  <2>4. UNCHANGED <<todo, mode, currentEpoch, data, bucketCount,
                    flag_event_change, statics, rail, watchdog, sdUp, rtcArmed,
                    outside, stores, lastTip, debounced>>
    BY <1>22 DEF RtcTick
  <2>5. QED
    BY <2>1, <2>2, <2>3, <2>4
<1>23. CASE RtcPulseEnd
  <2>1. rtcLow' \in BOOLEAN
    BY <1>23 DEF RtcPulseEnd
  <2>2. UNCHANGED <<thread, shared, statics, rail, watchdog, sdUp, rtcArmed,
                    outside, stores, ghosts>>
    BY <1>23 DEF RtcPulseEnd
  <2>3. QED
    BY <2>1, <2>2
<1>24. CASE RtcGlitch
  <2>1. used' \in [Stimuli -> Nat]
    BY <1>24, UseType DEF RtcGlitch, Stimuli
  <2>2. QED
    BY <1>24, <2>1 DEF RtcGlitch, isr_rtc, Wake, Attached
<1>25. CASE Clock
  <2>1. used' \in [Stimuli -> Nat]
    BY <1>25, UseType DEF Clock, Stimuli
  <2>2. QED
    BY <1>25, <2>1 DEF Clock
<1>26. ASSUME Reboot, rail' \in {FALSE, rail} PROVE TypeOK' /\ Flow'
  <2>1. used' \in [Stimuli -> Nat]
    BY <1>26, UseType DEF Reboot, Stimuli
  <2>2. QED
    BY <1>26, <2>1 DEF Reboot
<1>27. CASE PowerLoss \/ WatchdogBite
  BY <1>26, <1>27 DEF PowerLoss, WatchdogBite
<1>28. CASE UNCHANGED vars
  BY <1>28
<1>29. QED
  BY <1>1, <1>2, <1>3, <1>4, <1>5, <1>6, <1>7, <1>8, <1>9, <1>10, <1>11,
     <1>12, <1>13, <1>14, <1>15, <1>16, <1>17, <1>18, <1>19, <1>20, <1>21,
     <1>22, <1>23, <1>24, <1>25, <1>27, <1>28 DEF Next, Loop, Outside

LEMMA InitTypeFlow == Init => TypeOK /\ Flow
<1> SUFFICES ASSUME Init PROVE TypeOK /\ Flow
  OBVIOUS
<1>1. sd \in Seq(Row) /\ notes \in Seq(Row)
  BY DEF Init
<1>2. used \in [Stimuli -> Nat]
  BY DEF Init
<1>3. QED
  BY <1>1, <1>2, TimeAssumption DEF Init, TypeOK, Flow, Modes, Places

\* Every variable of the node keeps its type, and the row that writeToSD and
\* addSensorData hand on is always a complete one.
THEOREM TypeCorrect == Spec => [](TypeOK /\ Flow)
<1> QED
  BY InitTypeFlow, TypeFlowStep, PTL DEF Spec

\* The watchdog is on exactly while the node works.
LEMMA WatchdogStep ==
  ASSUME TypeOK, WatchdogDiscipline, [Next]_vars
  PROVE  WatchdogDiscipline'
<1> USE DEF TypeOK, WatchdogDiscipline, Goto, vars, thread, board, Places
<1>1. CASE Setup
  BY <1>1 DEF Setup, SdBegin, RtcBegin
<1>2. CASE AckTimer
  BY <1>2 DEF AckTimer, AckRtc
<1>3. CASE PollDigital
  BY <1>3 DEF PollDigital
<1>4. CASE PollRtc
  BY <1>4 DEF PollRtc
<1>5. CASE Dispatch
  BY <1>5 DEF Dispatch
<1>6. CASE Disarm
  BY <1>6 DEF Disarm
<1>7. CASE SleepCheck
  BY <1>7 DEF SleepCheck
<1>8. CASE Doze
  BY <1>8 DEF Doze
<1>9. CASE Rearm
  BY <1>9 DEF Rearm
<1>10. CASE BucketCheck
  BY <1>10 DEF BucketCheck, Branch
<1>11. CASE BucketZero
  BY <1>11 DEF BucketZero, Branch
<1>12. CASE Reject
  BY <1>12 DEF Reject
<1>13. CASE Accept
  BY <1>13 DEF Accept
<1>14. CASE PowerOn
  BY <1>14 DEF PowerOn
<1>15. CASE Sample
  BY <1>15 DEF Sample
<1>16. CASE PowerOff
  BY <1>16 DEF PowerOff
<1>17. CASE WriteSD
  BY <1>17 DEF WriteSD
<1>18. CASE AddNote
  BY <1>18 DEF AddNote
<1>19. CASE ResetTimer
  BY <1>19 DEF ResetTimer, AckRtc
<1>20. CASE BucketTip
  BY <1>20 DEF BucketTip, Wake
<1>21. CASE PinChange
  BY <1>21 DEF PinChange, Wake
<1>22. CASE RtcTick
  BY <1>22 DEF RtcTick, Wake
<1>23. CASE RtcPulseEnd
  BY <1>23 DEF RtcPulseEnd
<1>24. CASE RtcGlitch
  BY <1>24 DEF RtcGlitch, Wake
<1>25. CASE Clock
  BY <1>25 DEF Clock
<1>26. CASE PowerLoss
  BY <1>26 DEF PowerLoss, Reboot
<1>27. CASE WatchdogBite
  BY <1>27 DEF WatchdogBite, Reboot
<1>28. CASE UNCHANGED vars
  BY <1>28
<1>29. QED
  BY <1>1, <1>2, <1>3, <1>4, <1>5, <1>6, <1>7, <1>8, <1>9, <1>10, <1>11, <1>12, <1>13, <1>14, <1>15, <1>16, <1>17, <1>18, <1>19, <1>20, <1>21, <1>22, <1>23, <1>24, <1>25, <1>26, <1>27, <1>28
     DEF Next, Loop, Outside
\* The 5 V rail: where it may be up, and that it is up for the timer's sample.
LEMMA RailStep ==
  ASSUME TypeOK, Flow, RailDiscipline, RailUpForAnalog, [Next]_vars
  PROVE  RailDiscipline' /\ RailUpForAnalog'
<1> USE DEF TypeOK, Flow, RailDiscipline, RailUpForAnalog, Goto, vars, thread,
            board, Places, Modes
<1>1. CASE Setup
  BY <1>1 DEF Setup, SdBegin, RtcBegin
<1>2. CASE AckTimer
  BY <1>2 DEF AckTimer, AckRtc
<1>3. CASE PollDigital
  BY <1>3 DEF PollDigital
<1>4. CASE PollRtc
  BY <1>4 DEF PollRtc
<1>5. CASE Dispatch
  BY <1>5 DEF Dispatch
<1>6. CASE Disarm
  BY <1>6 DEF Disarm
<1>7. CASE SleepCheck
  BY <1>7 DEF SleepCheck
<1>8. CASE Doze
  BY <1>8 DEF Doze
<1>9. CASE Rearm
  BY <1>9 DEF Rearm
<1>10. CASE BucketCheck
  BY <1>10 DEF BucketCheck, Branch
<1>11. CASE BucketZero
  BY <1>11 DEF BucketZero, Branch
<1>12. CASE Reject
  BY <1>12 DEF Reject
<1>13. CASE Accept
  BY <1>13 DEF Accept
<1>14. CASE PowerOn
  BY <1>14 DEF PowerOn
<1>15. CASE Sample
  BY <1>15 DEF Sample, NextRecordID
<1>16. CASE PowerOff
  BY <1>16 DEF PowerOff
<1>17. CASE WriteSD
  BY <1>17 DEF WriteSD
<1>18. CASE AddNote
  BY <1>18 DEF AddNote
<1>19. CASE ResetTimer
  BY <1>19 DEF ResetTimer, AckRtc
<1>20. CASE BucketTip
  BY <1>20 DEF BucketTip, Wake
<1>21. CASE PinChange
  BY <1>21 DEF PinChange, Wake
<1>22. CASE RtcTick
  BY <1>22 DEF RtcTick, Wake
<1>23. CASE RtcPulseEnd
  BY <1>23 DEF RtcPulseEnd
<1>24. CASE RtcGlitch
  BY <1>24 DEF RtcGlitch, Wake
<1>25. CASE Clock
  BY <1>25 DEF Clock
<1>26. CASE PowerLoss
  BY <1>26 DEF PowerLoss, Reboot
<1>27. CASE WatchdogBite
  BY <1>27 DEF WatchdogBite, Reboot
<1>28. CASE UNCHANGED vars
  BY <1>28
<1>29. QED
  BY <1>1, <1>2, <1>3, <1>4, <1>5, <1>6, <1>7, <1>8, <1>9, <1>10, <1>11,
     <1>12, <1>13, <1>14, <1>15, <1>16, <1>17, <1>18, <1>19, <1>20, <1>21,
     <1>22, <1>23, <1>24, <1>25, <1>26, <1>27, <1>28
     DEF Next, Loop, Outside

\* Rows are built with powered readings and stored as they were built.
LEMMA PoweredStep ==
  ASSUME TypeOK, TypeOK', Flow, RailUpForAnalog, RowsArePowered, [Next]_vars
  PROVE  RowsArePowered'
<1>1. ASSUME UNCHANGED <<data, sd, notes>> PROVE RowsArePowered'
  BY <1>1 DEF RowsArePowered, WellPowered
<1>2. CASE Sample
  <2>1. data'.kind = mode /\ mode \in Modes
    BY <1>2 DEF Sample, TypeOK
  <2>2. data'.analog = IF mode = "DIG" THEN "zero"
                       ELSE IF rail THEN "powered" ELSE "unpowered"
    BY <1>2 DEF Sample
  <2>3. mode = "RTC" => rail
    BY <1>2 DEF Sample, RailUpForAnalog
  <2>4. WellPowered(data')
    BY <2>1, <2>2, <2>3 DEF WellPowered, Modes
  <2>5. UNCHANGED <<sd, notes>>
    BY <1>2 DEF Sample, stores
  <2>6. QED
    BY <2>4, <2>5 DEF RowsArePowered, WellPowered
<1>3. ASSUME NEW s \in Seq(Row), \A i \in DOMAIN s : WellPowered(s[i]),
             data \in Row, WellPowered(data)
      PROVE  \A i \in DOMAIN Append(s, data) : WellPowered(Append(s, data)[i])
  BY <1>3 DEF WellPowered
<1>4. CASE WriteSD
  <2>1. data \in Row /\ WellPowered(data)
    BY <1>4 DEF WriteSD, Goto, Flow, RowsArePowered
  <2>2. sd \in Seq(Row) /\ sd' \in {sd, Append(sd, data)} /\ UNCHANGED <<data, notes>>
    BY <1>4 DEF WriteSD, TypeOK
  <2>3. \A i \in DOMAIN sd' : WellPowered(sd'[i])
    BY <1>3, <2>1, <2>2 DEF RowsArePowered
  <2>4. QED
    BY <2>1, <2>2, <2>3 DEF RowsArePowered
<1>5. CASE AddNote
  <2>1. data \in Row /\ WellPowered(data)
    BY <1>5 DEF AddNote, Goto, Flow, RowsArePowered
  <2>2. /\ notes \in Seq(Row) /\ notes' \in {notes, Append(notes, data)}
        /\ UNCHANGED <<data, sd>>
    BY <1>5 DEF AddNote, TypeOK
  <2>3. \A i \in DOMAIN notes' : WellPowered(notes'[i])
    BY <1>3, <2>1, <2>2 DEF RowsArePowered
  <2>4. QED
    BY <2>1, <2>2, <2>3 DEF RowsArePowered
<1>6. CASE PowerLoss \/ WatchdogBite
  <2>1. data' = NoRow /\ UNCHANGED <<sd, notes>>
    BY <1>6 DEF PowerLoss, WatchdogBite, Reboot, stores
  <2>2. QED
    BY <2>1, NoRowIsNoRow DEF RowsArePowered
<1>7. \/ Sample \/ WriteSD \/ AddNote \/ PowerLoss \/ WatchdogBite
      \/ UNCHANGED <<data, sd, notes>>
  BY Zenon DEF Next, Loop, Outside, vars, thread, stores,
     Setup, AckTimer, PollDigital, PollRtc, Dispatch, Disarm, SleepCheck, Doze,
     Rearm, BucketCheck, BucketZero, Reject, Accept, PowerOn, PowerOff,
     ResetTimer, BucketTip, PinChange, RtcTick, RtcPulseEnd, RtcGlitch, Clock
<1>8. QED
  BY <1>1, <1>2, <1>4, <1>5, <1>6, <1>7

LEMMA UseKeepsBoot ==
  ASSUME NEW s \in Stimuli \ {"reset"}, Use(s), used \in [Stimuli -> Nat]
  PROVE  boot' = boot
  BY DEF Use, Stimuli, boot

\* A step that builds and stores no row, and is no reset.
Quiet ==
  /\ UNCHANGED <<data, sd, notes, globalRecordID>>
  /\ boot' = boot
  /\ pc' \in {"PowerOff", "WriteSD"} <=> pc \in {"PowerOff", "WriteSD"}
  /\ pc' = "AddNote" <=> pc = "AddNote"
  /\ currentEpoch <= currentEpoch' /\ currentEpoch' <= epoch'
  /\ pc \in {"PowerOff", "WriteSD", "AddNote"} => currentEpoch' = currentEpoch

LEMMA QuietStep ==
  ASSUME TypeOK, RamIsBlank, NewestRow, [Next]_vars
  PROVE  Sample \/ WriteSD \/ AddNote \/ PowerLoss \/ WatchdogBite \/ Quiet
<1> USE DEF Quiet, Goto, vars, thread, statics, outside, stores, ghosts
<1>0. /\ currentEpoch \in Nat /\ epoch \in Nat /\ currentEpoch <= epoch
      /\ used \in [Stimuli -> Nat]
  BY DEF TypeOK, NewestRow
<1>1. CASE Setup
  BY <1>1, <1>0, TimeAssumption DEF Setup, SdBegin, RtcBegin, boot, RamIsBlank
<1>2. CASE AckTimer
  BY <1>2, <1>0 DEF AckTimer, AckRtc, boot
<1>3. CASE PollDigital
  BY <1>3, <1>0 DEF PollDigital, boot
<1>4. CASE PollRtc
  BY <1>4, <1>0 DEF PollRtc, boot
<1>5. CASE Dispatch
  BY <1>5, <1>0 DEF Dispatch, boot
<1>6. CASE Disarm
  BY <1>6, <1>0 DEF Disarm, boot
<1>7. CASE SleepCheck
  BY <1>7, <1>0 DEF SleepCheck, boot
<1>8. CASE Doze
  BY <1>8, <1>0 DEF Doze, boot
<1>9. CASE Rearm
  BY <1>9, <1>0 DEF Rearm, boot
<1>10. CASE BucketCheck
  BY <1>10, <1>0 DEF BucketCheck, Branch, boot
<1>11. CASE BucketZero
  BY <1>11, <1>0 DEF BucketZero, Branch, boot
<1>12. CASE Reject
  BY <1>12, <1>0 DEF Reject, boot
<1>13. CASE Accept
  BY <1>13, <1>0 DEF Accept, boot
<1>14. CASE PowerOn
  BY <1>14, <1>0 DEF PowerOn, boot
<1>15. CASE PowerOff
  BY <1>15, <1>0 DEF PowerOff, boot
<1>16. CASE ResetTimer
  BY <1>16, <1>0 DEF ResetTimer, AckRtc, boot
<1>17. CASE BucketTip
  BY <1>17, <1>0, UseKeepsBoot DEF BucketTip, Wake, Stimuli
<1>18. CASE PinChange
  BY <1>18, <1>0, UseKeepsBoot DEF PinChange, Wake, Stimuli
<1>19. CASE RtcTick
  <2>1. boot' = boot
    BY <1>19, <1>0, UseKeepsBoot DEF RtcTick, Stimuli
  <2>2. pc' = pc \/ (pc = "Asleep" /\ pc' = "Rearm")
    BY <1>19, Zenon DEF RtcTick, Wake
  <2>3. UNCHANGED <<data, sd, notes, globalRecordID, currentEpoch, epoch>>
    BY <1>19, Zenon DEF RtcTick
  <2>4. QED
    BY <1>0, <2>1, <2>2, <2>3
<1>20. CASE RtcPulseEnd
  BY <1>20, <1>0 DEF RtcPulseEnd, boot
<1>21. CASE RtcGlitch
  BY <1>21, <1>0, UseKeepsBoot DEF RtcGlitch, Wake, Stimuli
<1>22. CASE Clock
  BY <1>22, <1>0, UseKeepsBoot DEF Clock, Stimuli
<1>23. CASE UNCHANGED vars
  BY <1>23, <1>0 DEF boot
<1>24. QED
  BY <1>1, <1>2, <1>3, <1>4, <1>5, <1>6, <1>7, <1>8, <1>9, <1>10, <1>11, <1>12, <1>13, <1>14, <1>15, <1>16, <1>17, <1>18, <1>19, <1>20, <1>21, <1>22, <1>23 DEF Next, Loop, Outside

\* RAM is blank until setup() is over, an event is claimed once, and a change
\* of the inputs stays flagged, claimed or in progress: each needs the others.
LEMMA InputStep ==
  ASSUME TypeOK, Flow, RamIsBlank, ClaimedOnce, ChangesArePending, [Next]_vars
  PROVE  RamIsBlank' /\ ClaimedOnce' /\ ChangesArePending'
<1> USE DEF Flow, RamIsBlank, ClaimedOnce, ChangesArePending, BeforeSample,
            DigitalInProgress, Goto, vars, thread, shared, outside, ghosts
<1>0. todo \in SUBSET Modes /\ mode \in Modes
  BY DEF TypeOK
<1>1. CASE Setup
  BY <1>1, <1>0 DEF Setup, SdBegin, RtcBegin, Modes
<1>2. CASE AckTimer
  BY <1>2, <1>0 DEF AckTimer, AckRtc, Modes
<1>3. CASE PollDigital
  BY <1>3, <1>0 DEF PollDigital, Modes
<1>4. CASE PollRtc
  BY <1>4, <1>0 DEF PollRtc, Modes
<1>5. CASE Dispatch
  BY <1>5, <1>0 DEF Dispatch, Modes
<1>6. CASE Disarm
  BY <1>6, <1>0 DEF Disarm, Modes
<1>7. CASE SleepCheck
  BY <1>7, <1>0 DEF SleepCheck, Modes
<1>8. CASE Doze
  BY <1>8, <1>0 DEF Doze, Modes
<1>9. CASE Rearm
  BY <1>9, <1>0 DEF Rearm, Modes
<1>10. CASE BucketCheck
  BY <1>10, <1>0 DEF BucketCheck, Branch, Modes
<1>11. CASE BucketZero
  BY <1>11, <1>0 DEF BucketZero, Branch, Modes
<1>12. CASE Reject
  BY <1>12, <1>0 DEF Reject, Modes
<1>13. CASE Accept
  BY <1>13, <1>0 DEF Accept, Modes
<1>14. CASE PowerOn
  BY <1>14, <1>0 DEF PowerOn, Modes
<1>15. CASE Sample
  BY <1>15, <1>0 DEF Sample, Modes
<1>16. CASE PowerOff
  BY <1>16, <1>0 DEF PowerOff, Modes
<1>17. CASE WriteSD
  BY <1>17, <1>0 DEF WriteSD, Modes
<1>18. CASE AddNote
  BY <1>18, <1>0 DEF AddNote, Modes
<1>19. CASE ResetTimer
  BY <1>19, <1>0 DEF ResetTimer, AckRtc, Modes
<1>20. CASE BucketTip
  BY <1>20, <1>0 DEF BucketTip, isr_bucket, Wake, Attached, Modes
<1>21. CASE PinChange
  BY <1>21, <1>0 DEF PinChange, isr_generic, Wake, Attached, Modes
<1>22. CASE RtcTick
  BY <1>22, <1>0 DEF RtcTick, isr_rtc, Wake, Modes
<1>23. CASE RtcPulseEnd
  BY <1>23, <1>0 DEF RtcPulseEnd, Modes
<1>24. CASE RtcGlitch
  BY <1>24, <1>0 DEF RtcGlitch, isr_rtc, Wake, Modes
<1>25. CASE Clock
  BY <1>25, <1>0 DEF Clock, Modes
<1>26. CASE PowerLoss
  BY <1>26, <1>0 DEF PowerLoss, Reboot, Modes
<1>27. CASE WatchdogBite
  BY <1>27, <1>0 DEF WatchdogBite, Reboot, Modes
<1>28. CASE UNCHANGED vars
  BY <1>28
<1>29. QED
  BY <1>1, <1>2, <1>3, <1>4, <1>5, <1>6, <1>7, <1>8, <1>9, <1>10, <1>11,
     <1>12, <1>13, <1>14, <1>15, <1>16, <1>17, <1>18, <1>19, <1>20, <1>21,
     <1>22, <1>23, <1>24, <1>25, <1>26, <1>27, <1>28
     DEF Next, Loop, Outside

LEMMA RowsOfAppend ==
  ASSUME NEW S, NEW s \in Seq(S), NEW e \in S
  PROVE  /\ RowsOf(Append(s, e)) = RowsOf(s) \cup {e}
         /\ RowsOf(s) \subseteq S
<1>1. /\ Len(s) \in Nat /\ DOMAIN s = 1..Len(s)
      /\ DOMAIN Append(s, e) = 1..(Len(s) + 1)
      /\ \A i \in 1..Len(s) : Append(s, e)[i] = s[i] /\ s[i] \in S
      /\ Append(s, e)[Len(s) + 1] = e
  OBVIOUS
<1>2. QED
  BY <1>1 DEF RowsOf

\* A store stays in order when a row is appended that is later than all of it.
LEMMA InOrderAppend ==
  ASSUME NEW s \in Seq(Row), NEW e \in Row, InOrder(s),
         \A r \in RowsOf(s) :
           \/ r.boot < e.boot
           \/ r.boot = e.boot /\ r.recordID < e.recordID /\ r.epoch <= e.epoch
  PROVE  InOrder(Append(s, e))
<1>1. /\ Len(s) \in Nat /\ DOMAIN s = 1..Len(s)
      /\ DOMAIN Append(s, e) = 1..(Len(s) + 1)
      /\ \A i \in 1..Len(s) : Append(s, e)[i] = s[i] /\ s[i] \in RowsOf(s)
      /\ Append(s, e)[Len(s) + 1] = e
  BY DEF RowsOf
<1> SUFFICES ASSUME NEW i \in 1..(Len(s) + 1), NEW j \in 1..(Len(s) + 1), i < j
             PROVE  \/ Append(s, e)[i].boot < Append(s, e)[j].boot
                    \/ /\ Append(s, e)[i].boot = Append(s, e)[j].boot
                       /\ Append(s, e)[i].recordID < Append(s, e)[j].recordID
                       /\ Append(s, e)[i].epoch <= Append(s, e)[j].epoch
  BY <1>1 DEF InOrder
<1>2. CASE j = Len(s) + 1
  BY <1>1, <1>2
<1>3. CASE j \in 1..Len(s)
  BY <1>1, <1>3 DEF InOrder
<1>4. QED
  BY <1>1, <1>2, <1>3

\* The stores are in order and agree: rows are numbered as they are built, a
\* number is used once in a power cycle, and only the newest row is stored.
History == NewestRow /\ StoredRows /\ RowsInOrder /\ StoresAgree

LEMMA QuietHistory ==
  ASSUME TypeOK, TypeOK', History, Quiet
  PROVE  History'
<1> USE DEF Quiet
<1>1. /\ boot \in Nat /\ globalRecordID \in Nat /\ epoch \in Nat /\ epoch' \in Nat
      /\ currentEpoch \in Nat /\ currentEpoch' \in Nat
  BY DEF TypeOK, boot, Stimuli
<1>2. NewestRow'
  BY <1>1 DEF History, NewestRow, Row
<1>3. RowsOf(sd) \subseteq Row /\ RowsOf(notes) \subseteq Row
  BY DEF TypeOK, RowsOf
<1>4. ASSUME NEW r \in Row, Older(r) PROVE Older(r)'
  BY <1>1, <1>4 DEF Older, Row
<1>5. StoredRows'
  BY <1>3, <1>4 DEF History, StoredRows, RowsOf
<1>6. RowsInOrder' /\ StoresAgree'
  BY DEF History, RowsInOrder, StoresAgree, InOrder, RowsOf
<1>7. QED
  BY <1>2, <1>5, <1>6 DEF History

LEMMA SampleHistory ==
  ASSUME TypeOK, TypeOK', History, Sample
  PROVE  History'
<1>1. /\ boot' = boot /\ globalRecordID' = globalRecordID + 1
      /\ UNCHANGED <<sd, notes, currentEpoch, epoch>>
      /\ data'.boot = boot /\ data'.recordID = globalRecordID + 1
      /\ data'.epoch = currentEpoch /\ pc' \in {"PowerOff", "WriteSD"}
  BY DEF Sample, NextRecordID, boot, stores, outside
<1>2. /\ boot \in Nat /\ globalRecordID \in Nat /\ epoch \in Nat
      /\ currentEpoch \in Nat
  BY DEF TypeOK, boot, Stimuli
<1>3. RowsOf(sd) \subseteq Row /\ RowsOf(notes) \subseteq Row
  BY DEF TypeOK, RowsOf
<1>4. NewestRow'
  BY <1>1, <1>2 DEF History, NewestRow
<1>5. ASSUME NEW r \in Row, Older(r) \/ r = data PROVE Older(r)'
  BY <1>1, <1>2, <1>5 DEF History, NewestRow, Older, Row
<1>6. StoredRows'
  BY <1>1, <1>3, <1>5 DEF History, StoredRows, RowsOf
<1>7. RowsInOrder' /\ StoresAgree'
  BY <1>1 DEF History, RowsInOrder, StoresAgree, InOrder, RowsOf
<1>8. QED
  BY <1>4, <1>6, <1>7 DEF History

\* What writeToSD and addSensorData append is the newest row.
LEMMA NewestIsLater ==
  ASSUME TypeOK, Flow, History, pc \in {"WriteSD", "AddNote"}
  PROVE  /\ data \in Row
         /\ \A r \in Row : Older(r) =>
              \/ r.boot < data.boot
              \/ r.boot = data.boot /\ r.recordID < data.recordID /\ r.epoch <= data.epoch
         /\ \A r \in Row :
              Older(r) => ~(r.boot = data.boot /\ r.recordID = data.recordID)
<1>1. /\ boot \in Nat /\ globalRecordID \in Nat /\ currentEpoch \in Nat
  BY DEF TypeOK, boot, Stimuli
<1>2. data \in Row /\ data.boot = boot /\ data.recordID = globalRecordID
      /\ data.epoch = currentEpoch
  BY DEF Flow, History, NewestRow
<1>3. QED
  BY <1>1, <1>2 DEF Older, Row

LEMMA WriteSDHistory ==
  ASSUME TypeOK, TypeOK', Flow, History, WriteSD
  PROVE  History'
<1>1. /\ pc = "WriteSD" /\ pc' = "AddNote" /\ boot' = boot
      /\ UNCHANGED <<data, notes, globalRecordID, currentEpoch, epoch>>
      /\ sd' \in {sd, Append(sd, data)}
  BY DEF WriteSD, Goto, boot, statics, outside, ghosts
<1>2. /\ data \in Row /\ sd \in Seq(Row) /\ notes \in Seq(Row)
  BY <1>1, NewestIsLater DEF TypeOK
<1>3. /\ RowsOf(sd') \subseteq RowsOf(sd) \cup {data}
      /\ RowsOf(sd) \subseteq Row /\ RowsOf(notes) \subseteq Row
      /\ RowsOf(notes') = RowsOf(notes)
  BY <1>1, <1>2, RowsOfAppend DEF RowsOf
<1>4. /\ \A r \in RowsOf(sd) : Older(r)
      /\ \A r \in RowsOf(notes) : Older(r)
      /\ \A r : Older(r)' <=> Older(r)
  BY <1>1 DEF History, StoredRows, Older
<1>5. NewestRow' /\ StoredRows'
  BY <1>1, <1>3, <1>4 DEF History, NewestRow, StoredRows
<1>6. RowsInOrder'
  BY <1>1, <1>2, <1>3, <1>4, NewestIsLater, InOrderAppend
     DEF History, RowsInOrder
<1>7. StoresAgree'
  <2> SUFFICES ASSUME NEW r \in RowsOf(sd) \cup {data}, NEW n \in RowsOf(notes),
                      r.boot = n.boot, r.recordID = n.recordID
               PROVE  r = n
    BY <1>3 DEF StoresAgree
  <2>1. r # data
    BY <1>1, <1>3, <1>4, NewestIsLater
  <2>2. QED
    BY <2>1 DEF History, StoresAgree
<1>8. QED
  BY <1>5, <1>6, <1>7 DEF History

LEMMA AddNoteHistory ==
  ASSUME TypeOK, TypeOK', Flow, History, AddNote
  PROVE  History'
<1>1. /\ pc = "AddNote" /\ pc' \in {"ResetTimer", "Dispatch"} /\ boot' = boot
      /\ UNCHANGED <<data, sd, globalRecordID, currentEpoch, epoch>>
      /\ notes' \in {notes, Append(notes, data)}
  BY DEF AddNote, Goto, boot, statics, outside, ghosts
<1>2. /\ data \in Row /\ sd \in Seq(Row) /\ notes \in Seq(Row)
  BY <1>1, NewestIsLater DEF TypeOK
<1>3. /\ RowsOf(notes') \subseteq RowsOf(notes) \cup {data}
      /\ RowsOf(sd) \subseteq Row /\ RowsOf(notes) \subseteq Row
      /\ RowsOf(sd') = RowsOf(sd)
  BY <1>1, <1>2, RowsOfAppend DEF RowsOf
<1>4. /\ \A r \in RowsOf(sd) : Older(r) \/ r = data
      /\ \A r \in RowsOf(notes) : Older(r)
      /\ \A r : Older(r)' <=> Older(r)
  BY <1>1 DEF History, StoredRows, Older
<1>5. NewestRow' /\ StoredRows'
  BY <1>1, <1>3, <1>4 DEF History, NewestRow, StoredRows
<1>6. RowsInOrder'
  BY <1>1, <1>2, <1>3, <1>4, NewestIsLater, InOrderAppend
     DEF History, RowsInOrder
<1>7. StoresAgree'
  <2> SUFFICES ASSUME NEW r \in RowsOf(sd), NEW n \in RowsOf(notes) \cup {data},
                      r.boot = n.boot, r.recordID = n.recordID
               PROVE  r = n
    BY <1>3 DEF StoresAgree
  <2>1. CASE n = data
    BY <1>1, <1>3, <1>4, <2>1, NewestIsLater
  <2>2. CASE n \in RowsOf(notes)
    BY <2>2 DEF History, StoresAgree
  <2>3. QED
    BY <2>1, <2>2
<1>8. QED
  BY <1>5, <1>6, <1>7 DEF History

\* After a reset every stored row belongs to an earlier power cycle.
LEMMA RebootHistory ==
  ASSUME TypeOK, TypeOK', History, Reboot
  PROVE  History'
<1>1. /\ boot' = boot + 1 /\ data' = NoRow /\ currentEpoch' = 0 /\ pc' = "Setup"
      /\ UNCHANGED <<sd, notes>>
  BY DEF Reboot, Use, TypeOK, boot, Stimuli, stores
<1>2. boot \in Nat /\ epoch' \in Nat /\ globalRecordID \in Nat
  BY DEF TypeOK, boot, Stimuli
<1>3. RowsOf(sd) \subseteq Row /\ RowsOf(notes) \subseteq Row
  BY DEF TypeOK, RowsOf
<1>4. NewestRow'
  BY <1>1, <1>2, NoRowIsNoRow DEF NewestRow
<1>5. ASSUME NEW r \in Row, Older(r) \/ r = data PROVE Older(r)'
  BY <1>1, <1>2, <1>5 DEF History, NewestRow, Older, Row
<1>6. StoredRows'
  BY <1>1, <1>3, <1>5 DEF History, StoredRows, RowsOf
<1>7. RowsInOrder' /\ StoresAgree'
  BY <1>1 DEF History, RowsInOrder, StoresAgree, InOrder, RowsOf
<1>8. QED
  BY <1>4, <1>6, <1>7 DEF History

LEMMA HistoryStep ==
  ASSUME TypeOK, TypeOK', Flow, RamIsBlank, History, [Next]_vars
  PROVE  History'
<1>1. NewestRow
  BY DEF History
<1>2. QED
  BY <1>1, QuietStep, QuietHistory, SampleHistory, WriteSDHistory, AddNoteHistory,
     RebootHistory DEF PowerLoss, WatchdogBite

\* NodeInv together with the three invariants that its last part supports.
NodeFullInv == NodeInv /\ ChangesArePending /\ RowsInOrder /\ StoresAgree

LEMMA InitNode == Init => NodeFullInv
<1> SUFFICES ASSUME Init PROVE NodeFullInv
  OBVIOUS
<1>1. TypeOK /\ Flow
  BY InitTypeFlow
<1>2. RailDiscipline /\ RailUpForAnalog /\ WatchdogDiscipline
  BY DEF Init, RailDiscipline, RailUpForAnalog, WatchdogDiscipline
<1>3. RowsArePowered
  BY NoRowIsNoRow DEF Init, RowsArePowered
<1>4. RamIsBlank /\ ClaimedOnce /\ ChangesArePending
  BY DEF Init, RamIsBlank, ClaimedOnce, BeforeSample, ChangesArePending
<1>5. NewestRow
  BY NoRowIsNoRow, TimeAssumption DEF Init, NewestRow
<1>6. RowsOf(sd) = {} /\ RowsOf(notes) = {} /\ DOMAIN sd = {} /\ DOMAIN notes = {}
  BY DEF Init, RowsOf
<1>7. StoredRows /\ RowsInOrder /\ StoresAgree
  BY <1>6 DEF StoredRows, RowsInOrder, InOrder, StoresAgree
<1>8. QED
  BY <1>1, <1>2, <1>3, <1>4, <1>5, <1>7 DEF NodeFullInv, NodeInv

LEMMA NodeStep == NodeFullInv /\ [Next]_vars => NodeFullInv'
<1> SUFFICES ASSUME NodeFullInv, [Next]_vars PROVE NodeFullInv'
  OBVIOUS
<1>1. /\ TypeOK /\ Flow /\ RailDiscipline /\ RailUpForAnalog /\ RowsArePowered
      /\ WatchdogDiscipline /\ RamIsBlank /\ ClaimedOnce /\ NewestRow
      /\ StoredRows /\ ChangesArePending /\ RowsInOrder /\ StoresAgree
  BY DEF NodeFullInv, NodeInv
<1>2. TypeOK' /\ Flow'
  BY <1>1, TypeFlowStep
<1>3. WatchdogDiscipline' /\ RailDiscipline' /\ RailUpForAnalog' /\ RowsArePowered'
  BY <1>1, <1>2, WatchdogStep, RailStep, PoweredStep
<1>4. RamIsBlank' /\ ClaimedOnce' /\ ChangesArePending'
  BY <1>1, InputStep
<1>5. NewestRow' /\ StoredRows' /\ RowsInOrder' /\ StoresAgree'
  <2>1. History
    BY <1>1 DEF History
  <2>2. History'
    BY <1>1, <1>2, <2>1, HistoryStep
  <2>3. QED
    BY <2>2 DEF History
<1>6. QED
  BY <1>2, <1>3, <1>4, <1>5 DEF NodeFullInv, NodeInv

LEMMA NodeFullInvariant == Spec => []NodeFullInv
  BY InitNode, NodeStep, PTL DEF Spec

\* The inductive invariant of the node.
THEOREM NodeInvariant == Spec => []NodeInv
<1>1. NodeFullInv => NodeInv
  BY DEF NodeFullInv
<1>2. QED
  BY <1>1, NodeFullInvariant, PTL

\* A change of the inputs is never forgotten: the flag is cleared before the
\* work, so a change during the work is flagged again.
THEOREM ChangesSafe == Spec => []ChangesArePending
<1>1. NodeFullInv => ChangesArePending
  BY DEF NodeFullInv
<1>2. QED
  BY <1>1, NodeFullInvariant, PTL

\* Record numbers and times of each store go up within a power cycle, whatever
\* writes fail and wherever resets come.
THEOREM RowsOrdered == Spec => []RowsInOrder
<1>1. NodeFullInv => RowsInOrder
  BY DEF NodeFullInv
<1>2. QED
  BY <1>1, NodeFullInvariant, PTL

\* The SD card and the Notecard never disagree about a record.
THEOREM StoresConsistent == Spec => []StoresAgree
<1>1. NodeFullInv => StoresAgree
  BY DEF NodeFullInv
<1>2. QED
  BY <1>1, NodeFullInvariant, PTL

\* The 5 V rail is never up outside one timer-driven call, so never asleep.
THEOREM RailSafe == Spec => []RailDiscipline
<1>1. NodeInv => RailDiscipline
  BY DEF NodeInv
<1>2. QED
  BY <1>1, NodeInvariant, PTL

\* The watchdog runs while the node works and never while it sleeps.
THEOREM WatchdogSafe == Spec => []WatchdogDiscipline
<1>1. NodeInv => WatchdogDiscipline
  BY DEF NodeInv
<1>2. QED
  BY <1>1, NodeInvariant, PTL

-----------------------------------------------------------------------------
(* SensorNode implements WakeLoop. *)

\* WakeLoop sees no change.
Unseen == /\ Phase' = Phase /\ Claimed' = Claimed /\ SampledPins' = SampledPins
          /\ boot' = boot /\ UNCHANGED <<flag_event_change, rtcTriggered, pins>>

\* What WakeLoop sees of the places of the loop.
LEMMA PhaseOfPlace ==
  /\ pc = "Setup" => Phase = "boot"
  /\ pc = "Doze" => Phase = "doze"
  /\ pc = "Asleep" => Phase = "asleep"
  /\ pc \notin {"Setup", "Doze", "Asleep"} => Phase = "run"
  /\ pc \in BeforeSample => Claimed = todo \cup {mode}
  /\ pc \notin BeforeSample => Claimed = todo
  BY DEF Phase, Claimed

LEMMA PhaseOfNextPlace ==
  /\ pc' = "Setup" => Phase' = "boot"
  /\ pc' = "Doze" => Phase' = "doze"
  /\ pc' = "Asleep" => Phase' = "asleep"
  /\ pc' \notin {"Setup", "Doze", "Asleep"} => Phase' = "run"
  /\ pc' \in BeforeSample => Claimed' = todo' \cup {mode'}
  /\ pc' \notin BeforeSample => Claimed' = todo'
  BY DEF Phase, Claimed, BeforeSample

\* The steps of loop() up to the sleep.
LEMMA LoopRefines ==
  ASSUME TypeOK, Flow, Setup \/ AckTimer \/ PollDigital \/ PollRtc \/ Dispatch
                       \/ Disarm \/ SleepCheck \/ Doze \/ Rearm
  PROVE  Unseen \/ Loops!WNext
<1> USE PhaseOfPlace, PhaseOfNextPlace DEF Flow, BeforeSample, Goto
<1>1. CASE Setup
  <2>1. Loops!Start
    BY <1>1 DEF Setup, shared, ghosts, boot, SampledPins, Loops!Start
  <2>2. QED
    BY <2>1 DEF Loops!WNext
<1>2. CASE AckTimer \/ Disarm \/ Rearm
  BY <1>2 DEF AckTimer, Disarm, Rearm, Unseen, shared, outside, ghosts, boot,
              SampledPins
<1>3. CASE PollDigital
  <2>1. CASE flag_event_change
    <3>1. Loops!ClaimDigital
      BY <1>3, <2>1 DEF PollDigital, outside, ghosts, boot, SampledPins,
                        Loops!ClaimDigital
    <3>2. QED
      BY <3>1 DEF Loops!WNext
  <2>2. CASE ~flag_event_change
    BY <1>3, <2>2 DEF PollDigital, Unseen, outside, ghosts, boot, SampledPins, TypeOK
  <2>3. QED
    BY <2>1, <2>2
<1>4. CASE PollRtc
  <2>1. CASE rtcTriggered
    <3>1. Loops!ClaimTimer
      BY <1>4, <2>1 DEF PollRtc, outside, ghosts, boot, SampledPins,
                        Loops!ClaimTimer
    <3>2. QED
      BY <3>1 DEF Loops!WNext
  <2>2. CASE ~rtcTriggered
    BY <1>4, <2>2 DEF PollRtc, Unseen, outside, ghosts, boot, SampledPins, TypeOK
  <2>3. QED
    BY <2>1, <2>2
<1>5. CASE Dispatch
  <2>1. Claimed' = Claimed /\ Phase' = Phase
    BY <1>5 DEF Dispatch
  <2>2. QED
    BY <1>5, <2>1 DEF Dispatch, Unseen, shared, outside, ghosts, boot, SampledPins
<1>6. CASE SleepCheck
  <2>1. CASE rtcTriggered \/ flag_event_change
    BY <1>6, <2>1 DEF SleepCheck, Unseen, shared, outside, ghosts, boot, SampledPins
  <2>2. CASE ~rtcTriggered /\ ~flag_event_change
    <3>1. Loops!DecideToSleep
      BY <1>6, <2>2 DEF SleepCheck, shared, outside, ghosts, boot, SampledPins,
                        Loops!DecideToSleep
    <3>2. QED
      BY <3>1 DEF Loops!WNext
  <2>3. QED
    BY <2>1, <2>2
<1>7. CASE Doze
  <2>1. Loops!FallAsleep
    BY <1>7 DEF Doze, shared, outside, ghosts, boot, SampledPins, Loops!FallAsleep
  <2>2. QED
    BY <2>1 DEF Loops!WNext
<1>8. QED
  BY <1>1, <1>2, <1>3, <1>4, <1>5, <1>6, <1>7

\* The steps of processEventAndLog().
LEMMA EventRefines ==
  ASSUME TypeOK, Flow, ClaimedOnce,
         BucketCheck \/ BucketZero \/ Reject \/ Accept \/ PowerOn \/ Sample
         \/ PowerOff \/ WriteSD \/ AddNote \/ ResetTimer
  PROVE  Unseen \/ Loops!WNext
<1> USE PhaseOfPlace, PhaseOfNextPlace DEF Flow, BeforeSample, Goto
<1>1. CASE BucketCheck \/ BucketZero
  BY <1>1 DEF BucketCheck, BucketZero, Branch, Unseen, shared, outside, ghosts,
              boot, SampledPins
<1>2. CASE Accept \/ PowerOn \/ PowerOff \/ WriteSD \/ AddNote \/ ResetTimer
  BY <1>2 DEF Accept, PowerOn, PowerOff, WriteSD, AddNote, ResetTimer, Unseen,
              shared, outside, ghosts, boot, SampledPins
<1>3. CASE Reject
  <2>1. Claimed = todo \cup {"DIG"} /\ Claimed' = todo /\ "DIG" \notin todo
    BY <1>3 DEF Reject, ClaimedOnce
  <2>2. Loops!RejectDigital
    BY <1>3, <2>1 DEF Reject, shared, outside, boot, SampledPins,
                      Loops!RejectDigital
  <2>3. QED
    BY <2>2 DEF Loops!WNext
<1>4. CASE Sample
  <2>1. Claimed = todo \cup {mode} /\ Claimed' = todo /\ mode \notin todo
    BY <1>4 DEF Sample, ClaimedOnce
  <2>2. data' # NoRow /\ data'.pins = pins
    <3>1. data'.pins = pins
      BY <1>4 DEF Sample
    <3>2. data'.recordID # 0
      BY <1>4 DEF Sample, NextRecordID, TypeOK
    <3>3. QED
      BY <3>1, <3>2 DEF NoRow
  <2>3. SampledPins' = pins
    BY <2>2 DEF SampledPins
  <2>4. mode \in {"DIG", "RTC"} /\ pc' \in {"PowerOff", "WriteSD"}
    BY <1>4 DEF Sample, TypeOK, Modes
  <2>5. Loops!SampleFor(mode)
    BY <1>4, <2>1, <2>3, <2>4 DEF Sample, shared, outside, boot, Loops!SampleFor
  <2>6. QED
    BY <2>4, <2>5 DEF Loops!WNext
<1>5. QED
  BY <1>1, <1>2, <1>3, <1>4

\* Wake is what WakeLoop calls Wakened, and leaves the claimed work alone.
LEMMA WakeRefines ==
  ASSUME Wake \/ pc' = pc, UNCHANGED <<todo, mode>>
  PROVE  /\ Wake => Phase' = Loops!Wakened
         /\ pc' = pc => Phase' = Phase
         /\ Claimed' = Claimed
         /\ Attached <=> Phase # "boot"
  BY PhaseOfPlace, PhaseOfNextPlace DEF Wake, Loops!Wakened, BeforeSample, Attached

\* Interrupts, the clock and resets.
LEMMA OutsideRefines ==
  ASSUME TypeOK, Flow, Outside
  PROVE  Unseen \/ Loops!WNext
<1>0. used \in [Stimuli -> Nat]
  BY DEF TypeOK
<1>1. CASE BucketTip
  <2>1. Loops!Tip
    BY <1>1, WakeRefines, UseKeepsBoot, <1>0
       DEF BucketTip, isr_bucket, outside, boot, SampledPins, Loops!Tip, Stimuli
  <2>2. QED
    BY <2>1 DEF Loops!WNext
<1>2. CASE PinChange
  <2>1. Loops!InputChange
    BY <1>2, WakeRefines, UseKeepsBoot, <1>0
       DEF PinChange, isr_generic, boot, SampledPins, Loops!InputChange, Stimuli
  <2>2. QED
    BY <2>1 DEF Loops!WNext
<1>3. CASE RtcTick
  <2>1. CASE rtcLow
    BY <1>3, <2>1, WakeRefines, UseKeepsBoot, <1>0
       DEF RtcTick, Unseen, outside, SampledPins, Stimuli
  <2>2. CASE ~rtcLow
    <3>1. Loops!TimerTick
      BY <1>3, <2>2, WakeRefines, UseKeepsBoot, <1>0
         DEF RtcTick, isr_rtc, outside, boot, SampledPins, Loops!TimerTick, Stimuli
    <3>2. QED
      BY <3>1 DEF Loops!WNext
  <2>3. QED
    BY <2>1, <2>2
<1>4. CASE RtcPulseEnd
  BY <1>4 DEF RtcPulseEnd, Unseen, thread, shared, outside, ghosts, boot, Phase,
              Claimed, SampledPins
<1>5. CASE RtcGlitch
  <2>1. Loops!Glitch
    BY <1>5, WakeRefines, UseKeepsBoot, <1>0
       DEF RtcGlitch, isr_rtc, outside, boot, SampledPins, Loops!Glitch, Stimuli, TypeOK
  <2>2. QED
    BY <2>1 DEF Loops!WNext
<1>6. CASE Clock
  BY <1>6, <1>0, UseKeepsBoot DEF Clock, Unseen, thread, shared, Stimuli, Phase,
     Claimed, SampledPins
<1>7. CASE PowerLoss \/ WatchdogBite
  <2>1. /\ Reboot /\ boot < Limit["reset"] /\ boot' = boot + 1
    BY <1>7, <1>0 DEF PowerLoss, WatchdogBite, Reboot, Use, Stimuli, boot
  <2>2. Loops!ResetNode
    BY <2>1, PhaseOfNextPlace DEF Reboot, outside, boot, BeforeSample, SampledPins,
       Loops!ResetNode
  <2>3. QED
    BY <2>2 DEF Loops!WNext
<1>8. QED
  BY <1>1, <1>2, <1>3, <1>4, <1>5, <1>6, <1>7 DEF Outside

LEMMA NodeRefines ==
  NodeInv /\ [Next]_vars =>
    [Loops!WNext]_<<Phase, flag_event_change, rtcTriggered, Claimed, pins,
                    SampledPins, used["reset"]>>
<1> SUFFICES ASSUME NodeInv, [Next]_vars PROVE Unseen \/ Loops!WNext
  BY DEF Unseen, boot
<1>1. TypeOK /\ Flow /\ ClaimedOnce
  BY DEF NodeInv
<1>2. CASE UNCHANGED vars
  BY <1>2 DEF vars, thread, shared, outside, ghosts, Unseen, boot, Phase, Claimed,
              SampledPins
<1>3. CASE Next
  BY <1>1, <1>3, LoopRefines, EventRefines, OutsideRefines DEF Next, Loop
<1>4. QED
  BY <1>2, <1>3

\* The firmware, with interrupts between any two of its steps, rejected events,
\* failed writes and resets, implements WakeLoop: what WakeLoop's run shows of
\* pending work and of the race before the sleep holds of the firmware's steps.
THEOREM NodeImplementsWakeLoop == Spec => ImplementsWakeLoop
<1>1. Init => Loops!WInit
  BY DEF Init, Loops!WInit, Phase, Claimed, BeforeSample, SampledPins, Stimuli
<1>2. QED
  BY <1>1, NodeRefines, NodeInvariant, PTL DEF Spec, ImplementsWakeLoop, Loops!WSpec,
     Loops!wvars
=============================================================================
