------------------------------ MODULE StarNetwork ------------------------------
(***************************************************************************)
(* The star network v2: battery nodes that sleep, wake on a timer or on a  *)
(* tip of the rain gauge and send one packet (star_tx_rx.ino without RX,   *)
(* the same text as feather.ino of the tipping bucket test), the receiver  *)
(* on a USB port (star_tx_rx.ino with RX), and the monitor that writes     *)
(* what it prints to a CSV file and to InfluxDB (star_rx_serial_monitor.py)*)
(*                                                                         *)
(* A packet is its node, a number that only the model gives it, and the    *)
(* rain it carries; readings, timestamps and the text on the serial lines  *)
(* are left out.  The modem and the radio are outside src: a command may   *)
(* find the modem asleep, a packet may not be heard, an answer may come    *)
(* too late.                                                               *)
(***************************************************************************)
EXTENDS Integers, Sequences

CONSTANTS Nodes, Gauge,   \* the nodes, and the one of TYPE_RAINGAUGE
          MaxTips,        \* bound: tips of the bucket
          MaxSends,       \* bound: packets that are heard
          MaxResets       \* bound: power losses and watchdog resets

ASSUME StarAssumption ==
  Gauge \in Nodes /\ MaxTips \in Nat /\ MaxSends \in Nat /\ MaxResets \in Nat

VARIABLES
  pc,                 \* where each node is
  watched,            \* its watchdog runs
  rain_gauge_count,
  data,               \* the rain in the packet each node prepares
  card,               \* rain each node logged on its card
  rx, uart,           \* the receiver, and packets its modem passed on
  usb, monitor,       \* lines of the receiver, and the script that reads them
  line,               \* the row the script has in hand, not yet in its file
  csv, influx,
  sent, tips, resets

nodeVars == <<pc, watched, rain_gauge_count, data, card, sent>>
hostVars == <<rx, uart, usb, monitor, line, csv, influx>>
vars     == <<nodeVars, hostVars, tips, resets>>

Places == {"Setup", "Halted", "NoModem", "Sense", "Zero", "Send",
           "Await", "Sleep", "Asleep"}

Packet == [from : Nodes, no : 0..MaxSends, rain : 0..MaxTips]

StarTypeOK ==
  /\ pc \in [Nodes -> Places]
  /\ watched \in [Nodes -> BOOLEAN]
  /\ rain_gauge_count \in 0..MaxTips
  /\ data \in [Nodes -> 0..MaxTips]
  /\ card \in Nat
  /\ rx \in {"Setup", "Halted", "Command", "Parse", "Cut"}
  /\ {uart, usb, line, csv, influx} \subseteq Seq(Packet)
  /\ monitor \in {"starting", "running", "stopped"}
  /\ sent \in 0..MaxSends /\ tips \in 0..MaxTips /\ resets \in 0..MaxResets

\* A sleep of a quarter of an hour is never watched: the watchdog would bite.
SleepUnwatched ==
  \A n \in Nodes : pc[n] \in {"Setup", "Asleep", "Halted", "NoModem"} => ~watched[n]

StarInv == StarTypeOK /\ SleepUnwatched

Init ==
  /\ pc = [n \in Nodes |-> "Setup"]
  /\ watched = [n \in Nodes |-> FALSE]
  /\ rain_gauge_count = 0
  /\ data = [n \in Nodes |-> 0]
  /\ card = 0
  /\ rx = "Setup" /\ uart = <<>>
  /\ usb = <<>> /\ monitor = "starting" /\ line = <<>>
  /\ csv = <<>> /\ influx = <<>>
  /\ sent = 0 /\ tips = 0 /\ resets = 0

-----------------------------------------------------------------------------
(* A node *)

Go(n, from, to) ==
  /\ pc[n] = from
  /\ pc' = [pc EXCEPT ![n] = to]
  /\ UNCHANGED <<tips, resets>>

\* Without a card setup() spins, unwatched; without a modem loop() idles.
Setup(n) ==
  /\ \E to \in {"Sense", "Halted", "NoModem"} : Go(n, "Setup", to)
  /\ UNCHANGED <<watched, rain_gauge_count, data, card, sent, hostVars>>

\* node_send(): the sensors are read.
Sense(n) ==
  /\ Go(n, "Sense", IF n = Gauge THEN "Zero" ELSE "Send")
  /\ data' = [data EXCEPT ![n] = IF n = Gauge THEN rain_gauge_count ELSE 0]
  /\ UNCHANGED <<watched, rain_gauge_count, card, sent, hostVars>>

\* Mutant: the count is not reset after it was read.
ZeroForgotten(n) ==
  /\ Go(n, "Zero", "Send")
  /\ UNCHANGED <<watched, rain_gauge_count, data, card, sent, hostVars>>

\* A tip since Sense is lost.
Zero(n) ==
  /\ Go(n, "Zero", "Send")
  /\ rain_gauge_count' = 0
  /\ UNCHANGED <<watched, data, card, sent, hostVars>>

\* AT+TEST=TXLRPKT: heard by the receiver's modem, or not.
Send(n) ==
  /\ Go(n, "Send", "Await")
  /\ \/ /\ sent < MaxSends
        /\ sent' = sent + 1
        /\ rx \in {"Command", "Parse", "Cut"}
        /\ uart' = Append(uart, [from |-> n, no |-> sent', rain |-> data[n]])
     \/ UNCHANGED <<sent, uart>>
  /\ UNCHANGED <<watched, rain_gauge_count, data, card, rx, usb, monitor, line, csv, influx>>

\* log_to_sd(): nothing is written when the file does not open.
LogToSD(n) == card' \in {card, card + data[n]}

\* Mutant: the node waits for the answer without a timeout.
AwaitAnswer(n) ==
  /\ sent > 0
  /\ Go(n, "Await", "Sleep")
  /\ card' = card + data[n]
  /\ data' = [data EXCEPT ![n] = 0]
  /\ UNCHANGED <<watched, rain_gauge_count, sent, hostVars>>

\* "TX DONE" within two seconds: the packet goes to the card too; otherwise
\* "Send failed!" does, and the rain is nowhere.
Await(n) ==
  /\ Go(n, "Await", "Sleep")
  /\ (LogToSD(n) \/ UNCHANGED card)
  /\ data' = [data EXCEPT ![n] = 0]
  /\ UNCHANGED <<watched, rain_gauge_count, sent, hostVars>>

\* Mutant: the watchdog is left on.
SleepWatched(n) ==
  /\ Go(n, "Sleep", "Asleep")
  /\ UNCHANGED <<watched, rain_gauge_count, data, card, sent, hostVars>>

\* The modem is put to sleep, the watchdog disabled, LowPower.sleep().
Sleep(n) ==
  /\ Go(n, "Sleep", "Asleep")
  /\ watched' = [watched EXCEPT ![n] = FALSE]
  /\ UNCHANGED <<rain_gauge_count, data, card, sent, hostVars>>

\* A timer or any attached interrupt.
Wake(n) ==
  /\ Go(n, "Asleep", "Sense")
  /\ watched' = [watched EXCEPT ![n] = TRUE]
  /\ UNCHANGED <<rain_gauge_count, data, card, sent, hostVars>>

\* isr_bucket(), attached in setup()
Tip ==
  /\ tips < MaxTips /\ tips' = tips + 1
  /\ rain_gauge_count' =
       IF pc[Gauge] \in {"Setup", "Halted"} THEN rain_gauge_count ELSE rain_gauge_count + 1
  /\ UNCHANGED <<pc, watched, data, card, sent, hostVars, resets>>

Reset(n) ==
  /\ resets < MaxResets /\ resets' = resets + 1
  /\ pc' = [pc EXCEPT ![n] = "Setup"]
  /\ watched' = [watched EXCEPT ![n] = FALSE]
  /\ rain_gauge_count' = IF n = Gauge THEN 0 ELSE rain_gauge_count
  /\ data' = [data EXCEPT ![n] = 0]
  /\ UNCHANGED <<card, sent, hostVars, tips>>

NodeSteps(n) ==
  \/ Setup(n) \/ Sense(n) \/ Zero(n) \/ Send(n) \/ Await(n)
  \/ Sleep(n) \/ Wake(n)

-----------------------------------------------------------------------------
(* The receiver and the monitor *)

RxSetup ==
  /\ rx = "Setup" /\ rx' \in {"Command", "Halted"}
  /\ UNCHANGED <<nodeVars, uart, usb, monitor, line, csv, influx, tips, resets>>

\* at_send_check_response("AT+TEST=RXLRPKT"): what is in the buffer when the
\* answer comes is read and forgotten, the last packet perhaps in part.
RxCommand ==
  /\ rx = "Command"
  /\ rx' \in IF uart = <<>> THEN {"Parse"} ELSE {"Parse", "Cut"}
  /\ uart' = <<>>
  /\ UNCHANGED <<nodeVars, usb, monitor, line, csv, influx, tips, resets>>

\* Nobody reads what is printed while the port is closed.
Printed == IF monitor = "running" THEN Append(usb, Head(uart)) ELSE usb

\* Mutant: a packet stays in the buffer, and RXLRPKT does not empty it.
ParseAgain ==
  /\ rx = "Parse" /\ uart # <<>>
  /\ usb' = Printed
  /\ UNCHANGED <<nodeVars, rx, uart, monitor, line, csv, influx, tips, resets>>

\* recv_prase(): one packet is printed as "[DATA]" and logged; the rest of
\* one that was cut is skipped when the next comes soon enough.
Parse ==
  /\ rx \in {"Parse", "Cut"} /\ uart # <<>>
  /\ rx' = "Command"
  /\ uart' = Tail(uart)
  /\ usb' = Printed
  /\ UNCHANGED <<nodeVars, monitor, line, csv, influx, tips, resets>>

\* After the rest of a packet recv_prase() stores what an empty port gives,
\* beyond recv_buf[512] when the next packet is late; of what that can do
\* to the receiver, the model takes its stop.
Overrun ==
  /\ rx = "Cut" /\ rx' = "Halted"
  /\ UNCHANGED <<nodeVars, uart, usb, monitor, line, csv, influx, tips, resets>>

\* The script opens the port, or gives up.
MonitorStarts ==
  /\ monitor = "starting" /\ monitor' \in {"running", "stopped"}
  /\ UNCHANGED <<nodeVars, rx, uart, usb, line, csv, influx, tips, resets>>

\* A row goes to InfluxDB, where the write may fail; a line that cannot be
\* decoded goes nowhere.
ToInflux ==
  /\ monitor = "running" /\ line = <<>> /\ usb # <<>>
  /\ usb' = Tail(usb)
  /\ \/ influx' \in {influx, Append(influx, Head(usb))} /\ line' = Append(line, Head(usb))
     \/ UNCHANGED <<line, influx>>
  /\ UNCHANGED <<nodeVars, rx, uart, monitor, csv, tips, resets>>

\* Mutant: the script goes on when the file cannot be written.
ToFileForgiving ==
  /\ monitor = "running" /\ line # <<>>
  /\ csv' \in {csv, Append(csv, Head(line))}
  /\ line' = Tail(line)
  /\ UNCHANGED <<nodeVars, rx, uart, usb, monitor, influx, tips, resets>>

\* Then it goes to the CSV file, whether or not InfluxDB has it.
ToFile ==
  /\ monitor = "running" /\ line # <<>>
  /\ csv' = Append(csv, Head(line))
  /\ line' = Tail(line)
  /\ UNCHANGED <<nodeVars, rx, uart, usb, monitor, influx, tips, resets>>

\* The script exits on a TypeError, ends with any other exception that it
\* does not catch, a file that cannot be written among them, or is stopped.
MonitorStops ==
  /\ monitor = "running" /\ monitor' = "stopped"
  /\ usb' = <<>> /\ line' = <<>>
  /\ UNCHANGED <<nodeVars, rx, uart, csv, influx, tips, resets>>

Receiver == RxSetup \/ RxCommand \/ Parse

Monitor == ToInflux \/ ToFile

Next ==
  \/ \E n \in Nodes : NodeSteps(n) \/ Reset(n)
  \/ Tip
  \/ Receiver \/ Overrun
  \/ MonitorStarts \/ Monitor \/ MonitorStops

\* Processors run and timers run out; what people and rain do need not happen.
FairSpec ==
  /\ Init /\ [][Next]_vars
  /\ \A n \in Nodes : WF_vars(NodeSteps(n))
  /\ WF_vars(Receiver)
  /\ WF_vars(Monitor)

-----------------------------------------------------------------------------
(* Properties *)

\* The rain of the first packets of a log, for every number of them.
Totals(log) ==
  LET total[i \in 0..Len(log)] == IF i = 0 THEN 0 ELSE total[i - 1] + log[i].rain
  IN  total

Rain(log) == Totals(log)[Len(log)]

\* isr_bucket() and node_send() share the count: whatever tips, resets, missed
\* answers and lost packets interleave, no store shows more rain than fell.
RainNeverOvercounted == card <= tips /\ Rain(influx) <= tips /\ Rain(csv) <= tips

\* Every packet becomes at most one row, and the rows of a node keep the order
\* in which it sent them, in the file and in the database.
RowsOnceInOrder ==
  \A log \in {csv, influx} : \A i, j \in DOMAIN log :
    i < j /\ log[i].from = log[j].from => log[i].no < log[j].no

\* The script writes a row to InfluxDB first and to its file afterwards: a row
\* that only InfluxDB has is the one in hand, or the last when the script
\* ended between the two writes.
DatabaseWithinFile ==
  \A i \in DOMAIN influx :
    \/ \E j \in DOMAIN csv : csv[j] = influx[i]
    \/ \E j \in DOMAIN line : line[j] = influx[i]
    \/ monitor = "stopped" /\ i = Len(influx)

\* loop(): a node that got through setup() sends again and again, whether or
\* not its modem answers.
NodesKeepSending ==
  \A n \in Nodes : []<>(pc[n] \in {"Send", "Halted", "NoModem"})

-----------------------------------------------------------------------------
(* What makes the properties inductive (module StarNetworkProofs) *)

Increasing(log) == \A i, j \in DOMAIN log : i < j => log[i].no < log[j].no
Precedes(old, new) == \A i \in DOMAIN old, j \in DOMAIN new : old[i].no < new[j].no

\* Packets do not overtake one another between the modem of the receiver, the
\* USB line, the row in hand and the stores.
PathInOrder ==
  /\ \A log \in {csv, influx, line, usb, uart} :
       Increasing(log) /\ \A i \in DOMAIN log : log[i].no <= sent
  /\ \A log \in {csv, influx, line} : Precedes(log, usb) /\ Precedes(log, uart)
  /\ Precedes(csv, line)
  /\ Precedes(usb, uart)

\* The rain the gauge has sensed and not yet disposed of, in a place of ps.
Held(ps) == IF pc[Gauge] \in ps THEN data[Gauge] ELSE 0

\* A tip is in the count, in the packet being prepared, on the card, on its
\* way to a store, in the store, or lost; card, file and database do not share.
RainAccounted ==
  /\ \A n \in Nodes \ {Gauge} : data[n] = 0 /\ pc[n] # "Zero"
  /\ Held({"Zero"}) <= rain_gauge_count
  /\ card + Held({"Send", "Await"}) + rain_gauge_count <= tips
  /\ Rain(csv) + Rain(line) + Rain(usb) + Rain(uart) + Held({"Send"})
       + rain_gauge_count <= tips
  /\ Rain(influx) + Rain(usb) + Rain(uart) + Held({"Send"}) + rain_gauge_count <= tips

\* No row of the database is newer than the row in hand.
RowInHandIsLatest ==
  \A i \in DOMAIN influx, j \in DOMAIN line : influx[i].no <= line[j].no

StarInd ==
  StarInv /\ PathInOrder /\ RainAccounted /\ RowInHandIsLatest /\ DatabaseWithinFile
=============================================================================
