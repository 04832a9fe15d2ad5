------------------------------- MODULE GroveNode -------------------------------
(***************************************************************************)
(* The Grove sketches v3.  The transmitter of grove_rx_light_and_switch    *)
(* sends when an interrupt has set a flag, that of sample_grove_rx_and_wire*)
(* as long as an interrupt has counted presses; the receiver (RX) of both  *)
(* queues what it parses for a master on the I2C bus, whose requests are   *)
(* served in an interrupt.  noInterrupts() is commented out everywhere.    *)
(*                                                                         *)
(* What a datum holds is left out.  cppQueue is outside src: FIFO,         *)
(* overwriting the oldest; its count is read and written in two steps, as  *)
(* is count_test_sends--.                                                  *)
(***************************************************************************)
EXTENDS Integers

CONSTANTS Capacity,    \* places of the queue
          MaxPresses,  \* bound: presses of the button
          MaxFlashes   \* bound: edges of the light sensor

ASSUME GroveAssumption ==
  Capacity \in Nat \ {0} /\ MaxPresses \in 0..255 /\ MaxFlashes \in Nat

VARIABLES
  sketch,                                \* which of the two transmitters
  tx, count_test_sends, flag_switch, flag_light,
  loaded,                                \* what count_test_sends-- has read
  rx, uart,                              \* the receiver, packets it has not read
  queued, cnt, held,                     \* the queue, its count, the count push read
  presses, flashes

txVars == <<sketch, tx, count_test_sends, flag_switch, flag_light, loaded>>
rxVars == <<rx, queued, cnt, held>>
vars   == <<txVars, rxVars, uart, presses, flashes>>

GTypeOK ==
  /\ sketch \in {"flags", "count"}
  /\ tx \in {"Loop", "Send", "Load", "Store", "Clear", "Light", "SendLight", "ClearLight",
            "NoModem"}
  /\ loaded \in 0..255
  /\ flag_switch \in BOOLEAN /\ flag_light \in BOOLEAN
  /\ rx \in {"Command", "Parse", "Cut", "Push", "Count", "NoModem"}
  /\ uart \in Nat /\ queued \in Int
  /\ cnt \in 0..Capacity /\ held \in 0..Capacity
  /\ presses \in 0..MaxPresses /\ flashes \in 0..MaxFlashes
  /\ count_test_sends \in 0..255

\* setup(): interrupts are attached first; without a modem loop() idles.
Started(place) == {place, "NoModem"}

Init ==
  /\ sketch \in {"flags", "count"}
  /\ tx \in Started("Loop") /\ count_test_sends = 0 /\ loaded = 0
  /\ flag_switch = FALSE /\ flag_light = FALSE
  /\ rx \in Started("Command") /\ uart = 0
  /\ queued = 0 /\ cnt = 0 /\ held = 0
  /\ presses = 0 /\ flashes = 0

-----------------------------------------------------------------------------
(* Transmitter *)

Go(from, to) ==
  /\ tx = from /\ tx' = to
  /\ UNCHANGED <<sketch, rxVars, presses, flashes>>

Pressed == IF sketch = "flags" THEN flag_switch ELSE count_test_sends > 0

\* Mutant: what is below one is not told from what is not zero.
LoopUnchecked ==
  /\ Go("Loop", "Send")
  /\ UNCHANGED <<count_test_sends, flag_switch, flag_light, loaded, uart>>

Loop ==
  /\ \/ Pressed /\ Go("Loop", "Send")
     \/ ~Pressed /\ flag_light /\ Go("Loop", "SendLight")
  /\ UNCHANGED <<count_test_sends, flag_switch, flag_light, loaded, uart>>

\* node_send(): nothing depends on whether "TX DONE" comes in time.
Transmit(from, to) ==
  /\ Go(from, to)
  /\ uart' \in {uart, uart + 1}
  /\ UNCHANGED <<count_test_sends, flag_switch, flag_light, loaded>>

Send == Transmit("Send", "Load")

SendLight == Transmit("SendLight", "ClearLight")

\* count_test_sends--, which an interrupt may split
Load ==
  /\ Go("Load", "Store")
  /\ loaded' = count_test_sends
  /\ UNCHANGED <<count_test_sends, flag_switch, flag_light, uart>>

\* Mutant: a send is not taken off the count.
StoreSame ==
  /\ Go("Store", IF sketch = "flags" THEN "Clear" ELSE "Loop")
  /\ UNCHANGED <<count_test_sends, loaded, flag_switch, flag_light, uart>>

Store ==
  /\ Go("Store", IF sketch = "flags" THEN "Clear" ELSE "Loop")
  /\ count_test_sends' = (loaded + 255) % 256
  /\ loaded' = 0
  /\ UNCHANGED <<flag_switch, flag_light, uart>>

Clear ==
  /\ Go("Clear", "Light")
  /\ flag_switch' = FALSE
  /\ UNCHANGED <<count_test_sends, flag_light, loaded, uart>>

Light ==
  /\ Go("Light", IF flag_light THEN "SendLight" ELSE "Loop")
  /\ UNCHANGED <<count_test_sends, flag_switch, flag_light, loaded, uart>>

ClearLight ==
  /\ Go("ClearLight", "Loop")
  /\ flag_light' = FALSE
  /\ UNCHANGED <<count_test_sends, flag_switch, loaded, uart>>

\* test_button_isr()
Press ==
  /\ presses < MaxPresses /\ presses' = presses + 1
  /\ count_test_sends' = (count_test_sends + 1) % 256
  /\ flag_switch' = (flag_switch \/ sketch = "flags")
  /\ UNCHANGED <<sketch, tx, flag_light, loaded, rxVars, uart, flashes>>

\* test_light_isr()
Flash ==
  /\ sketch = "flags"
  /\ flashes < MaxFlashes /\ flashes' = flashes + 1
  /\ flag_light' = TRUE
  /\ UNCHANGED <<sketch, tx, count_test_sends, flag_switch, loaded, rxVars, uart, presses>>

-----------------------------------------------------------------------------
(* Receiver *)

RxGo(from, to) ==
  /\ rx = from /\ rx' = to
  /\ UNCHANGED <<txVars, presses, flashes>>

\* What came in before the answer to AT+TEST=RXLRPKT is read and forgotten; a
\* line of which only the first part is gone is "Cut".
RxCommand ==
  /\ \/ RxGo("Command", "Parse")
     \/ uart > 0 /\ RxGo("Command", "Cut")
  /\ uart' = 0
  /\ UNCHANGED <<queued, cnt, held>>

Parse ==
  /\ RxGo("Parse", "Push") \/ RxGo("Cut", "Push")
  /\ uart > 0 /\ uart' = uart - 1
  /\ UNCHANGED <<queued, cnt, held>>

\* After the rest of a cut line recv_prase() does not wait: it stores the -1 of
\* an empty port, beyond recv_buf unless a packet comes soon.  Of what that can
\* do the model takes that the receiver stops.
Overrun == RxGo("Cut", "NoModem") /\ UNCHANGED <<uart, queued, cnt, held>>

\* q.push(): the datum is copied, then counted, or the oldest given up.
Push ==
  /\ RxGo("Push", "Count")
  /\ queued' = queued + 1
  /\ held' = cnt
  /\ UNCHANGED <<uart, cnt>>

Count ==
  /\ RxGo("Count", "Command")
  /\ IF held < Capacity THEN cnt' = held + 1 /\ UNCHANGED queued
                        ELSE queued' = queued - 1 /\ UNCHANGED cnt
  /\ UNCHANGED <<uart, held>>

\* requestEvent(), register 1, in the interrupt of the bus: what is popped is
\* not what is answered; an empty queue is answered with 0xfe.
Pop ==
  /\ cnt > 0 /\ cnt' = cnt - 1
  /\ queued' = queued - 1
  /\ UNCHANGED <<txVars, rx, held, uart, presses, flashes>>

Sketch == Loop \/ Send \/ SendLight \/ Load \/ Store \/ Clear \/ Light \/ ClearLight

Next ==
  Sketch \/ Press \/ Flash \/ RxCommand \/ Parse \/ Overrun \/ Push \/ Count \/ Pop

\* loop() runs; nobody has to press or ask.
FairSpec == Init /\ [][Next]_vars /\ WF_vars(Sketch)

-----------------------------------------------------------------------------
(* Properties *)

\* requestEvent(), register 0: whatever requests interrupt a push, the count
\* that the master is told covers every datum in the queue.  (It may cover
\* more: a request amid a push is forgotten by the count.)
NothingHidden == rx # "Count" => queued <= cnt

\* loop() and test_button_isr(): whatever interrupts split count_test_sends--,
\* the count never passes below zero (to 255), which would start a burst of
\* sends that nobody asked for.
NoBurst == count_test_sends <= presses

GroveInv == GTypeOK /\ NoBurst /\ NothingHidden

\* loop(): presses and flashes cause a bounded number of sends, whatever
\* interrupts meet the count and the flags; then the transmitter is idle.
SendsStop == <>[](tx \in {"Loop", "NoModem"})
=============================================================================
