--------------------------- MODULE GroveNodeProofs ---------------------------
(***************************************************************************)
(* The transmitter's count never passes below zero and the receiver's      *)
(* count covers its queue, for every capacity and every number of presses. *)
(***************************************************************************)
EXTENDS GroveNode, TLAPS

\* The transmitter's strengthening: whatever split count_test_sends--, what
\* has been read is not zero, and until then the count is not: a flag is set
\* together with the count and cleared after it has been taken off.
CountAhead ==
  /\ count_test_sends <= presses
  /\ loaded <= presses
  /\ tx = "Store" => loaded > 0
  /\ tx \in {"Send", "Load"} => count_test_sends > 0
  /\ sketch = "flags" /\ flag_switch /\ tx \notin {"Store", "Clear"}
       => count_test_sends > 0

\* The receiver's: amid a push the queue is ahead of its count by one, and
\* a request has only lowered the count that the push holds.
PushInProgress ==
  /\ rx = "Count" => queued <= cnt + 1 /\ cnt <= held
  /\ rx # "Count" => queued <= cnt

GInd == GTypeOK /\ CountAhead /\ PushInProgress

\* Init establishes the strengthened invariant: setup() leaves nothing counted.
LEMMA GInit == Init => GInd
<1> SUFFICES ASSUME Init PROVE GInd
  OBVIOUS
<1> USE GroveAssumption
<1>1. GTypeOK
  <2>1. tx \in {"Loop", "NoModem"} /\ rx \in {"Command", "NoModem"}
    BY DEF Init, Started
  <2>2. loaded \in 0..255 /\ count_test_sends \in 0..255 /\ uart \in Nat /\ queued \in Int
    BY DEF Init
  <2>3. /\ cnt \in 0..Capacity /\ held \in 0..Capacity
        /\ presses \in 0..MaxPresses /\ flashes \in 0..MaxFlashes
    BY DEF Init, GroveAssumption
  <2>4. flag_switch \in BOOLEAN /\ flag_light \in BOOLEAN /\ sketch \in {"flags", "count"}
    BY DEF Init
  <2> QED
    BY <2>1, <2>2, <2>3, <2>4 DEF GTypeOK
<1>2. CountAhead
  BY DEF Init, Started, CountAhead
<1>3. PushInProgress
  BY DEF Init, Started, PushInProgress
<1> QED
  BY <1>1, <1>2, <1>3 DEF GInd

\* The byte count_test_sends goes down by one when it is not zero.
LEMMA ByteDown ==
  ASSUME NEW n \in 1..255
  PROVE  (n + 255) % 256 = n - 1
OBVIOUS

\* The byte goes up by one when it is below its limit.
LEMMA ByteUp ==
  ASSUME NEW n \in 0..254
  PROVE  (n + 1) % 256 = n + 1
OBVIOUS

\* loop(): every step of the transmitter's own code keeps the invariant.
LEMMA SketchStep == GInd /\ Sketch => GInd'
<1> SUFFICES ASSUME GInd, Sketch PROVE GInd'
  OBVIOUS
<1> USE GroveAssumption
<1>r. rxVars' = rxVars /\ presses' = presses /\ flashes' = flashes /\ sketch' = sketch
  BY DEF Sketch, Loop, Send, SendLight, Load, Store, Clear, Light, ClearLight,
         Transmit, Go
<1>p. PushInProgress'
  BY <1>r DEF GInd, PushInProgress, rxVars
<1>1. CASE Loop
  BY <1>1, <1>p DEF GInd, GTypeOK, CountAhead, Loop, Go, Pressed, rxVars
<1>2. CASE Send
  BY <1>2, <1>p DEF GInd, GTypeOK, CountAhead, Send, Transmit, Go, rxVars
<1>3. CASE SendLight
  BY <1>3, <1>p DEF GInd, GTypeOK, CountAhead, SendLight, Transmit, Go, rxVars
<1>4. CASE Load
  BY <1>4, <1>p DEF GInd, GTypeOK, CountAhead, Load, Go, rxVars
<1>5. CASE Store
  <2>1. loaded \in 1..255
    BY <1>5 DEF GInd, GTypeOK, CountAhead, Store, Go
  <2>2. count_test_sends' = loaded - 1
    BY <1>5, <2>1, ByteDown DEF Store
  <2>3. /\ tx = "Store" /\ tx' = IF sketch = "flags" THEN "Clear" ELSE "Loop"
        /\ loaded' = 0 /\ UNCHANGED <<flag_switch, flag_light, uart>>
    BY <1>5 DEF Store, Go
  <2>4. GTypeOK'
    BY <1>r, <2>1, <2>2, <2>3 DEF GInd, GTypeOK, rxVars
  <2>5. CountAhead'
    BY <1>r, <2>1, <2>2, <2>3 DEF GInd, GTypeOK, CountAhead, rxVars
  <2> QED
    BY <1>p, <2>4, <2>5 DEF GInd
<1>6. CASE Clear
  BY <1>6, <1>p DEF GInd, GTypeOK, CountAhead, Clear, Go, rxVars
<1>7. CASE Light
  BY <1>7, <1>p DEF GInd, GTypeOK, CountAhead, Light, Go, rxVars
<1>8. CASE ClearLight
  BY <1>8, <1>p DEF GInd, GTypeOK, CountAhead, ClearLight, Go, rxVars
<1> QED
  BY <1>1, <1>2, <1>3, <1>4, <1>5, <1>6, <1>7, <1>8 DEF Sketch

\* test_button_isr(), test_light_isr(): an interrupt at any point keeps it.
LEMMA InterruptStep == GInd /\ (Press \/ Flash) => GInd'
<1> SUFFICES ASSUME GInd, Press \/ Flash PROVE GInd'
  OBVIOUS
<1> USE GroveAssumption
<1>1. CASE Press
  <2>1. count_test_sends \in 0..254
    BY <1>1 DEF GInd, GTypeOK, CountAhead, Press
  <2>2. count_test_sends' = count_test_sends + 1
    BY <1>1, <2>1, ByteUp DEF Press
  <2>3. /\ presses' = presses + 1 /\ presses' \in 0..MaxPresses
        /\ flag_switch' \in BOOLEAN
        /\ UNCHANGED <<sketch, tx, flag_light, loaded, rxVars, uart, flashes>>
    BY <1>1 DEF Press, GInd, GTypeOK
  <2>4. GTypeOK'
    BY <2>1, <2>2, <2>3 DEF GInd, GTypeOK, rxVars
  <2>5. CountAhead'
    BY <2>1, <2>2, <2>3 DEF GInd, GTypeOK, CountAhead
  <2>6. PushInProgress'
    BY <2>3 DEF GInd, PushInProgress, rxVars
  <2> QED
    BY <2>4, <2>5, <2>6 DEF GInd
<1>2. CASE Flash
  BY <1>2 DEF GInd, GTypeOK, CountAhead, PushInProgress, Flash, rxVars
<1> QED
  BY <1>1, <1>2

\* node_recv() and requestEvent(): a push, and a request at any point of it.
LEMMA ReceiverStep ==
  GInd /\ (RxCommand \/ Parse \/ Overrun \/ Push \/ Count \/ Pop) => GInd'
<1> SUFFICES ASSUME GInd, RxCommand \/ Parse \/ Overrun \/ Push \/ Count \/ Pop
             PROVE GInd'
  OBVIOUS
<1> USE GroveAssumption
<1>t. txVars' = txVars /\ presses' = presses /\ flashes' = flashes
  BY DEF RxCommand, Parse, Overrun, Push, Count, Pop, RxGo
<1>c. CountAhead'
  BY <1>t DEF GInd, CountAhead, txVars
<1>1. CASE RxCommand
  BY <1>1, <1>c DEF GInd, GTypeOK, PushInProgress, RxCommand, RxGo, txVars
<1>2. CASE Parse
  BY <1>2, <1>c DEF GInd, GTypeOK, PushInProgress, Parse, RxGo, txVars
<1>3. CASE Push
  BY <1>3, <1>c DEF GInd, GTypeOK, PushInProgress, Push, RxGo, txVars
<1>4. CASE Count
  BY <1>4, <1>c DEF GInd, GTypeOK, PushInProgress, Count, RxGo, txVars
<1>5. CASE Pop
  BY <1>5, <1>c DEF GInd, GTypeOK, PushInProgress, Pop, txVars
<1>6. CASE Overrun
  BY <1>6, <1>c DEF GInd, GTypeOK, PushInProgress, Overrun, RxGo, txVars
<1> QED
  BY <1>1, <1>2, <1>3, <1>4, <1>5, <1>6

\* GroveNode's invariant: whatever presses and requests interrupt, the count
\* of presses never goes below zero (to 255, a burst of sends), and the count
\* told to the master covers every datum in the queue.
THEOREM GroveSafe == FairSpec => []GroveInv
<1>1. Init => GInd
  BY GInit
<1>2. GInd /\ [Next]_vars => GInd'
  <2>1. GInd /\ UNCHANGED vars => GInd'
    BY DEF GInd, GTypeOK, CountAhead, PushInProgress, vars, txVars, rxVars
  <2> QED
    BY <2>1, SketchStep, InterruptStep, ReceiverStep DEF Next
<1>3. GInd => GroveInv
  BY DEF GInd, CountAhead, PushInProgress, GroveInv, NoBurst, NothingHidden
<1> QED
  BY <1>1, <1>2, <1>3, PTL DEF FairSpec
=============================================================================
