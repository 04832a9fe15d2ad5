--------------------------- MODULE StarNetworkProofs ---------------------------
(* Proofs about StarNetwork, for every set of nodes and every number of      *)
(* tips, packets and resets.                                                 *)
EXTENDS StarNetwork, WellFoundedInduction, TLAPS

-----------------------------------------------------------------------------
(* The totals of a log, by induction on the number of packets: the theorems  *)
(* of the library that take a predicate cannot be used, so the predicate is  *)
(* the set of numbers it holds of.                                           *)

LEMMA LeastNumber ==
  ASSUME NEW T \in SUBSET Nat, T # {}
  PROVE  \E x \in T : \A y \in T : x <= y
<1> DEFINE Less == {p \in Nat \X Nat : p[1] < p[2]}
<1>1. IsWellFoundedOn(Less, Nat)
  BY NatLessThanWellFounded DEF OpToRel
<1>2. \A x, y \in Nat : <<y, x>> \notin Less => x <= y
  OBVIOUS
<1> HIDE DEF Less
<1>3. PICK x \in T : \A y \in T : <<y, x>> \notin Less
  BY <1>1, WFMin
<1>4. QED
  BY <1>2, <1>3

LEMMA SetInduction ==
  ASSUME NEW S \in SUBSET Nat, 0 \in S, \A n \in S : n + 1 \in S
  PROVE  S = Nat
<1> SUFFICES ASSUME S # Nat PROVE FALSE
  OBVIOUS
<1>1. PICK x \in Nat \ S : \A y \in Nat \ S : x <= y
  BY LeastNumber
<1>2. x # 0 /\ x - 1 \in Nat
  BY <1>1
<1>3. x - 1 \in S
  BY <1>1, <1>2
<1>4. QED
  BY <1>1, <1>2, <1>3

\* f holds the totals of the first packets of a log, up to n of them.
Sums(f, log, n) ==
  /\ DOMAIN f = 0..n /\ f[0] = 0
  /\ \A i \in 1..n : f[i] = f[i - 1] + log[i].rain

Logs == Seq(Packet)

LEMMA PacketRain ==
  ASSUME StarAssumption, NEW log \in Logs, NEW i \in 1..Len(log)
  PROVE  log[i].rain \in Nat
<1>1. log[i] \in Packet
  BY DEF Logs
<1>2. QED
  BY <1>1 DEF Packet, StarAssumption

\* There are such totals, and they are natural numbers that do not decrease.
LEMMA SumsExist ==
  ASSUME StarAssumption, NEW log \in Logs
  PROVE  \E f \in [0..Len(log) -> Nat] : Sums(f, log, Len(log))
<1> DEFINE S == {n \in Nat : n <= Len(log) => \E f \in [0..n -> Nat] : Sums(f, log, n)}
<1>0. Len(log) \in Nat
  BY DEF Logs
<1>1. 0 \in S
  <2>1. [i \in 0..0 |-> 0] \in [0..0 -> Nat] /\ Sums([i \in 0..0 |-> 0], log, 0)
    BY DEF Sums
  <2>2. QED
    BY <2>1
<1>2. ASSUME NEW n \in S PROVE n + 1 \in S
  <2> SUFFICES ASSUME n + 1 <= Len(log)
               PROVE  \E f \in [0..(n + 1) -> Nat] : Sums(f, log, n + 1)
    OBVIOUS
  <2>1. PICK f \in [0..n -> Nat] : Sums(f, log, n)
    BY <1>0
  <2> DEFINE g == [i \in 0..(n + 1) |-> IF i <= n THEN f[i] ELSE f[n] + log[n + 1].rain]
  <2>2. log[n + 1].rain \in Nat
    BY <1>0, PacketRain
  <2>3. g \in [0..(n + 1) -> Nat]
    BY <2>2
  <2>4. Sums(g, log, n + 1)
    BY <2>1, <2>2 DEF Sums
  <2>5. QED
    BY <2>3, <2>4
<1>3. S = Nat
  <2> HIDE DEF S
  <2>1. S \subseteq Nat
    BY DEF S
  <2>2. QED
    BY <1>1, <1>2, <2>1, SetInduction
<1>4. QED
  BY <1>0, <1>3

\* And they are the only ones.
LEMMA SumsUnique ==
  ASSUME StarAssumption, NEW n \in Nat,
         NEW log \in Logs, NEW log2 \in Logs, n <= Len(log), n <= Len(log2),
         \A i \in 1..n : log[i] = log2[i],
         NEW f, NEW g, Sums(f, log, n), Sums(g, log2, n)
  PROVE  \A i \in 0..n : f[i] = g[i]
<1> DEFINE S == {i \in Nat : i <= n => f[i] = g[i]}
<1>1. 0 \in S
  BY DEF Sums
<1>2. ASSUME NEW i \in S PROVE i + 1 \in S
  <2> SUFFICES ASSUME i + 1 <= n PROVE f[i + 1] = g[i + 1]
    OBVIOUS
  <2>1. i \in Nat /\ f[i] = g[i] /\ i + 1 \in 1..n /\ (i + 1) - 1 = i
    OBVIOUS
  <2>2. f[i + 1] = f[i] + log[i + 1].rain
    BY <2>1 DEF Sums
  <2>3. g[i + 1] = g[i] + log2[i + 1].rain
    BY <2>1 DEF Sums
  <2>4. QED
    BY <2>1, <2>2, <2>3
<1>3. S = Nat
  <2> HIDE DEF S
  <2>1. S \subseteq Nat
    BY DEF S
  <2>2. QED
    BY <1>1, <1>2, <2>1, SetInduction
<1>4. QED
  BY <1>3

\* The recursive definition of Totals has a solution.
LEMMA TotalsSum ==
  ASSUME StarAssumption, NEW log \in Logs
  PROVE  Totals(log) \in [0..Len(log) -> Nat] /\ Sums(Totals(log), log, Len(log))
<1>0. Len(log) \in Nat
  BY DEF Logs
<1> DEFINE Def(t) == t = [i \in 0..Len(log) |-> IF i = 0 THEN 0 ELSE t[i - 1] + log[i].rain]
<1>1. PICK f \in [0..Len(log) -> Nat] : Sums(f, log, Len(log))
  BY SumsExist
<1>2. Def(f)
  BY <1>0, <1>1 DEF Sums
<1>3. Totals(log) = CHOOSE t : Def(t)
  BY DEF Totals
<1>4. Def(Totals(log))
  <2> HIDE DEF Def
  <2>1. QED
    BY <1>2, <1>3
<1>5. Sums(Totals(log), log, Len(log))
  <2>1. DOMAIN Totals(log) = 0..Len(log)
    BY <1>4
  <2>2. \A i \in 0..Len(log) : Totals(log)[i] = IF i = 0 THEN 0 ELSE Totals(log)[i - 1] + log[i].rain
    BY <1>4
  <2>3. QED
    BY <1>0, <2>1, <2>2 DEF Sums
<1>6. \A i \in 0..Len(log) : Totals(log)[i] = f[i]
  BY <1>0, <1>1, <1>5, SumsUnique
<1>7. QED
  BY <1>4, <1>5, <1>6

LEMMA RainNat ==
  ASSUME StarAssumption, NEW log \in Logs
  PROVE  Rain(log) \in Nat
<1>1. Len(log) \in Nat
  BY DEF Logs
<1>2. QED
  BY <1>1, TotalsSum DEF Rain

LEMMA RainEmpty ==
  ASSUME StarAssumption
  PROVE  <<>> \in Logs /\ Rain(<<>>) = 0
<1>1. <<>> \in Logs /\ Len(<<>>) = 0
  BY DEF Logs
<1>2. QED
  BY <1>1, TotalsSum DEF Rain, Sums

LEMMA RainAppend ==
  ASSUME StarAssumption, NEW log \in Logs, NEW p \in Packet
  PROVE  Append(log, p) \in Logs /\ Rain(Append(log, p)) = Rain(log) + p.rain
<1> DEFINE longer == Append(log, p)
           n == Len(log)
<1>1. /\ n \in Nat /\ longer \in Logs /\ Len(longer) = n + 1
      /\ longer[n + 1] = p /\ \A i \in 1..n : longer[i] = log[i]
  BY DEF Logs
<1>2. Sums(Totals(log), log, n) /\ Sums(Totals(longer), longer, n + 1)
  BY <1>1, TotalsSum
<1>3. DEFINE front == [i \in 0..n |-> Totals(longer)[i]]
<1> HIDE DEF longer, n
<1>4. Sums(front, longer, n)
  BY <1>1, <1>2 DEF Sums
<1> HIDE DEF front
<1>5. \A i \in 0..n : front[i] = Totals(log)[i]
  BY <1>1, <1>2, <1>4, SumsUnique DEF n
<1>6. Totals(longer)[n] = Totals(log)[n]
  BY <1>1, <1>5 DEF front
<1>7. Totals(longer)[n + 1] = Totals(longer)[n] + p.rain
  BY <1>1, <1>2 DEF Sums
<1>8. QED
  BY <1>1, <1>6, <1>7 DEF Rain, longer, n

LEMMA RainTail ==
  ASSUME StarAssumption, NEW log \in Logs, log # <<>>
  PROVE  /\ Head(log) \in Packet /\ Tail(log) \in Logs
         /\ Rain(log) = Head(log).rain + Rain(Tail(log))
<1> DEFINE rest == Tail(log)
           n == Len(log)
           k == Head(log).rain
<1>1. /\ n \in Nat \ {0} /\ rest \in Logs /\ Len(rest) = n - 1
      /\ Head(log) = log[1] /\ Head(log) \in Packet
      /\ \A i \in 1..(n - 1) : rest[i] = log[i + 1]
  BY DEF Logs
<1>2. Sums(Totals(log), log, n) /\ Totals(log) \in [0..n -> Nat]
  BY TotalsSum
<1>3. Sums(Totals(rest), rest, n - 1) /\ Totals(rest) \in [0..(n - 1) -> Nat]
  BY <1>1, TotalsSum
<1>4. k \in Nat
  BY <1>1, PacketRain
<1> DEFINE late == [i \in 0..(n - 1) |-> Totals(log)[i + 1] - k]
<1> HIDE DEF rest, n
<1>5. Totals(log)[1] = k
  BY <1>1, <1>2, <1>4 DEF Sums
<1>6. Sums(late, rest, n - 1)
  <2>1. DOMAIN late = 0..(n - 1) /\ late[0] = 0
    BY <1>1, <1>4, <1>5
  <2>2. ASSUME NEW i \in 1..(n - 1) PROVE late[i] = late[i - 1] + rest[i].rain
    <3>1. Totals(log)[i + 1] = Totals(log)[i] + log[i + 1].rain
      BY <1>1, <1>2 DEF Sums
    <3>2. log[i + 1].rain \in Nat
      BY <1>1, PacketRain DEF n
    <3>3. Totals(log)[i] \in Nat /\ rest[i] = log[i + 1]
      BY <1>1, <1>2
    <3>4. late[i] = Totals(log)[i + 1] - k /\ late[i - 1] = Totals(log)[i] - k
      BY <1>1
    <3> HIDE DEF late, k
    <3>5. QED
      BY <1>4, <3>1, <3>2, <3>3, <3>4
  <2>3. QED
    BY <2>1, <2>2 DEF Sums
<1> HIDE DEF late
<1>7. \A i \in 0..(n - 1) : late[i] = Totals(rest)[i]
  <2>1. n - 1 \in Nat /\ n - 1 <= Len(rest)
    BY <1>1
  <2>2. QED
    BY <1>1, <1>3, <1>6, <2>1, SumsUnique
<1>8. Totals(rest)[n - 1] = Totals(log)[n] - k
  BY <1>1, <1>7 DEF late
<1>9. Totals(log)[n] \in Nat
  BY <1>1, <1>2
<1>10. QED
  BY <1>1, <1>4, <1>8, <1>9 DEF Rain, rest, n

-----------------------------------------------------------------------------
(* Types *)

StarTypes == StarTypeOK /\ StarAssumption

LEMMA InitTypes ==
  Init => StarTypeOK
<1>1. <<>> \in Seq(Packet)
  OBVIOUS
<1>2. QED
  BY <1>1, StarAssumption DEF Init, StarTypeOK, Places, StarAssumption

\* The first of a log that is not empty is a packet, and so is the rest.
LEMMA HeadTail ==
  ASSUME NEW log \in Seq(Packet), log # <<>>
  PROVE  Head(log) \in Packet /\ Tail(log) \in Seq(Packet)
  OBVIOUS

LEMMA NodeTypes ==
  ASSUME StarTypeOK, NEW n \in Nodes, NodeSteps(n) \/ Reset(n)
  PROVE  StarTypeOK'
<1> USE StarAssumption DEF StarAssumption, StarTypeOK, Places, Go, hostVars
<1>1. CASE Setup(n)
  BY <1>1 DEF Setup
<1>2. CASE Sense(n)
  BY <1>2 DEF Sense
<1>3. CASE Zero(n)
  BY <1>3 DEF Zero
<1>4. CASE Send(n)
  <2>1. /\ pc' \in [Nodes -> Places] /\ sent' \in 0..MaxSends
        /\ uart' \in Seq(Packet)
    <3>1. CASE sent' = sent + 1 /\ sent < MaxSends
                /\ uart' = Append(uart, [from |-> n, no |-> sent', rain |-> data[n]])
      <4>1. sent' \in 0..MaxSends
        BY <3>1
      <4>2. [from |-> n, no |-> sent', rain |-> data[n]] \in Packet
        BY <4>1 DEF Packet
      <4>3. uart' \in Seq(Packet)
        BY <3>1, <4>2
      <4>4. QED
        BY <1>4, <4>1, <4>3 DEF Send
    <3>2. CASE UNCHANGED <<sent, uart>>
      BY <1>4, <3>2 DEF Send
    <3>3. QED
      BY <1>4, <3>1, <3>2 DEF Send
  <2>2. QED
    BY <1>4, <2>1 DEF Send
<1>5. CASE Await(n)
  <2>1. card' \in Nat /\ data' \in [Nodes -> 0..MaxTips] /\ pc' \in [Nodes -> Places]
    BY <1>5 DEF Await, LogToSD
  <2>2. QED
    BY <1>5, <2>1 DEF Await
<1>6. CASE Sleep(n)
  BY <1>6 DEF Sleep
<1>7. CASE Wake(n)
  BY <1>7 DEF Wake
<1>8. CASE Reset(n)
  <2>1. /\ pc' \in [Nodes -> Places] /\ watched' \in [Nodes -> BOOLEAN]
        /\ rain_gauge_count' \in 0..MaxTips /\ data' \in [Nodes -> 0..MaxTips]
        /\ resets' \in 0..MaxResets
    BY <1>8 DEF Reset
  <2>2. QED
    BY <1>8, <2>1 DEF Reset
<1>9. QED
  BY <1>1, <1>2, <1>3, <1>4, <1>5, <1>6, <1>7, <1>8 DEF NodeSteps

\* What the receiver, the monitor and who starts or stops them do.
HostSteps == \/ Receiver \/ Overrun \/ MonitorStarts \/ Monitor \/ MonitorStops

LEMMA HostTypes ==
  ASSUME StarTypeOK, HostSteps
  PROVE  StarTypeOK'
<1> USE StarAssumption DEF StarAssumption, nodeVars
<1>0. /\ csv \in Seq(Packet) /\ influx \in Seq(Packet) /\ line \in Seq(Packet)
      /\ usb \in Seq(Packet) /\ uart \in Seq(Packet) /\ <<>> \in Seq(Packet)
  <2>1. <<>> \in Seq(Packet)
    OBVIOUS
  <2>2. QED
    BY <2>1 DEF StarTypeOK
<1>1. CASE RxSetup \/ Overrun
  BY <1>1 DEF RxSetup, Overrun, StarTypeOK
<1>2. CASE RxCommand
  BY <1>0, <1>2 DEF RxCommand, StarTypeOK
<1>3. CASE Parse
  <2>1. uart' \in Seq(Packet) /\ usb' \in Seq(Packet)
    BY <1>0, <1>3, HeadTail DEF Parse, Printed
  <2>2. QED
    BY <1>0, <1>3, <2>1 DEF Parse, StarTypeOK
<1>4. CASE MonitorStarts
  BY <1>4 DEF MonitorStarts, StarTypeOK
<1>5. CASE ToInflux
  <2>1. usb' \in Seq(Packet) /\ line' \in Seq(Packet) /\ influx' \in Seq(Packet)
    <3>1. Head(usb) \in Packet /\ usb' \in Seq(Packet)
      BY <1>0, <1>5, HeadTail DEF ToInflux
    <3>2. /\ line' = line \/ line' = Append(line, Head(usb))
          /\ influx' = influx \/ influx' = Append(influx, Head(usb))
      BY <1>5 DEF ToInflux
    <3>3. Append(line, Head(usb)) \in Seq(Packet) /\ Append(influx, Head(usb)) \in Seq(Packet)
      BY <1>0, <3>1
    <3>4. line' \in Seq(Packet) /\ influx' \in Seq(Packet)
      BY <1>0, <3>2, <3>3
    <3>5. QED
      BY <3>1, <3>4
  <2>2. QED
    BY <1>0, <1>5, <2>1 DEF ToInflux, StarTypeOK
<1>6. CASE ToFile
  <2>1. line' \in Seq(Packet) /\ csv' \in Seq(Packet)
    BY <1>0, <1>6, HeadTail DEF ToFile
  <2>2. QED
    BY <1>0, <1>6, <2>1 DEF ToFile, StarTypeOK
<1>7. CASE MonitorStops
  BY <1>0, <1>7 DEF MonitorStops, StarTypeOK
<1>8. QED
  BY <1>1, <1>2, <1>3, <1>4, <1>5, <1>6, <1>7 DEF HostSteps, Receiver, Monitor

-----------------------------------------------------------------------------
(* The path of the packets *)

LEMMA AppendPath ==
  ASSUME StarAssumption, NEW log \in Logs, NEW p \in Packet,
         \A i \in DOMAIN log : log[i].no < p.no
  PROVE  /\ Increasing(log) => Increasing(Append(log, p))
         /\ \A i \in DOMAIN Append(log, p) : Append(log, p)[i].no <= p.no
         /\ \A old : Precedes(old, log) /\ (\A i \in DOMAIN old : old[i].no < p.no)
                       => Precedes(old, Append(log, p))
         /\ \A new : Precedes(log, new) /\ (\A j \in DOMAIN new : p.no < new[j].no)
                       => Precedes(Append(log, p), new)
<1>1. /\ Len(log) \in Nat /\ DOMAIN log = 1..Len(log)
      /\ DOMAIN Append(log, p) = 1..(Len(log) + 1)
      /\ \A i \in 1..Len(log) : Append(log, p)[i] = log[i]
      /\ Append(log, p)[Len(log) + 1] = p
  BY DEF Logs
<1>2. p.no \in Nat /\ \A i \in 1..Len(log) : log[i].no \in Nat
  <2>1. \A i \in 1..Len(log) : log[i] \in Packet
    BY DEF Logs
  <2>2. QED
    BY <2>1 DEF Packet, StarAssumption
<1>3. QED
  BY <1>1, <1>2 DEF Increasing, Precedes

LEMMA TailPath ==
  ASSUME NEW log \in Logs, log # <<>>
  PROVE  /\ Increasing(log) => /\ Increasing(Tail(log))
                               /\ \A i \in DOMAIN Tail(log) : Head(log).no < Tail(log)[i].no
         /\ \A i \in DOMAIN Tail(log) : \E j \in DOMAIN log : Tail(log)[i] = log[j]
         /\ \E j \in DOMAIN log : Head(log) = log[j]
<1>1. /\ Len(log) \in Nat \ {0} /\ DOMAIN log = 1..Len(log)
      /\ DOMAIN Tail(log) = 1..(Len(log) - 1) /\ Head(log) = log[1]
      /\ \A i \in 1..(Len(log) - 1) : Tail(log)[i] = log[i + 1]
  BY DEF Logs
<1>2. ASSUME Increasing(log)
      PROVE  Increasing(Tail(log)) /\ \A i \in DOMAIN Tail(log) : Head(log).no < Tail(log)[i].no
  <2>1. \A i, j \in 1..(Len(log) - 1) : i < j => log[i + 1].no < log[j + 1].no
    BY <1>1, <1>2 DEF Increasing
  <2>2. \A i \in 1..(Len(log) - 1) : log[1].no < log[i + 1].no
    BY <1>1, <1>2 DEF Increasing
  <2>3. \A i, j \in 1..(Len(log) - 1) : i < j => Tail(log)[i].no < Tail(log)[j].no
    <3>1. ASSUME NEW i \in 1..(Len(log) - 1), NEW j \in 1..(Len(log) - 1), i < j
          PROVE  Tail(log)[i].no < Tail(log)[j].no
      <4>1. Tail(log)[i] = log[i + 1] /\ Tail(log)[j] = log[j + 1]
        BY <1>1
      <4>2. QED
        BY <2>1, <3>1, <4>1
    <3>2. QED
      BY <3>1
  <2>4. \A i \in 1..(Len(log) - 1) : Head(log).no < Tail(log)[i].no
    <3>1. ASSUME NEW i \in 1..(Len(log) - 1)
          PROVE  Head(log).no < Tail(log)[i].no
      <4>1. Tail(log)[i] = log[i + 1] /\ Head(log) = log[1]
        BY <1>1
      <4>2. QED
        BY <2>2, <4>1
    <3>2. QED
      BY <3>1
  <2>5. DOMAIN Tail(log) = 1..(Len(log) - 1)
    BY <1>1
  <2>6. QED
    BY <2>3, <2>4, <2>5, Zenon DEF Increasing
<1>3. \A i \in DOMAIN Tail(log) : \E j \in DOMAIN log : Tail(log)[i] = log[j]
  BY <1>1
<1>4. QED
  BY <1>1, <1>2, <1>3

\* PathInOrder, pair by pair.
LEMMA PathParts ==
  PathInOrder <=>
    /\ Increasing(csv) /\ Increasing(influx) /\ Increasing(line)
    /\ Increasing(usb) /\ Increasing(uart)
    /\ \A i \in DOMAIN csv : csv[i].no <= sent
    /\ \A i \in DOMAIN influx : influx[i].no <= sent
    /\ \A i \in DOMAIN line : line[i].no <= sent
    /\ \A i \in DOMAIN usb : usb[i].no <= sent
    /\ \A i \in DOMAIN uart : uart[i].no <= sent
    /\ Precedes(csv, line) /\ Precedes(csv, usb) /\ Precedes(csv, uart)
    /\ Precedes(influx, usb) /\ Precedes(influx, uart)
    /\ Precedes(line, usb) /\ Precedes(line, uart)
    /\ Precedes(usb, uart)
  BY DEF PathInOrder

LEMMA PathNext ==
  /\ Increasing(csv') /\ Increasing(influx') /\ Increasing(line')
  /\ Increasing(usb') /\ Increasing(uart')
  /\ \A i \in DOMAIN csv' : csv'[i].no <= sent'
  /\ \A i \in DOMAIN influx' : influx'[i].no <= sent'
  /\ \A i \in DOMAIN line' : line'[i].no <= sent'
  /\ \A i \in DOMAIN usb' : usb'[i].no <= sent'
  /\ \A i \in DOMAIN uart' : uart'[i].no <= sent'
  /\ Precedes(csv', line') /\ Precedes(csv', usb') /\ Precedes(csv', uart')
  /\ Precedes(influx', usb') /\ Precedes(influx', uart')
  /\ Precedes(line', usb') /\ Precedes(line', uart')
  /\ Precedes(usb', uart')
  => PathInOrder'
  BY DEF PathInOrder, Increasing, Precedes

LEMMA EmptyPath ==
  /\ Increasing(<<>>) /\ DOMAIN <<>> = {}
  /\ \A log : Precedes(<<>>, log) /\ Precedes(log, <<>>)
<1>1. DOMAIN <<>> = {}
  OBVIOUS
<1>2. QED
  BY <1>1 DEF Increasing, Precedes

LEMMA PathTypes ==
  StarTypeOK => /\ csv \in Logs /\ influx \in Logs /\ line \in Logs
                /\ usb \in Logs /\ uart \in Logs /\ sent \in Nat
  BY StarAssumption DEF StarTypeOK, Logs, StarAssumption

\* A packet that is sent is the latest.
LEMMA SendPath ==
  ASSUME StarTypeOK, PathInOrder, NEW n \in Nodes, Send(n), sent' = sent + 1,
         uart' = Append(uart, [from |-> n, no |-> sent', rain |-> data[n]]),
         [from |-> n, no |-> sent', rain |-> data[n]] \in Packet
  PROVE  PathInOrder'
<1> DEFINE p == [from |-> n, no |-> sent', rain |-> data[n]]
<1>1. p.no = sent + 1 /\ p \in Packet /\ UNCHANGED <<csv, influx, line, usb>>
  BY DEF Send
<1> HIDE DEF p
<1>2. /\ csv \in Logs /\ influx \in Logs /\ line \in Logs
      /\ usb \in Logs /\ uart \in Logs /\ sent \in Nat
      /\ uart' = Append(uart, p)
  BY PathTypes DEF p
<1>3. \A log \in {csv, influx, line, usb, uart} :
        \A i \in DOMAIN log : log[i].no <= sent /\ log[i].no \in Nat
  <2>1. \A log \in {csv, influx, line, usb, uart} : \A i \in DOMAIN log : log[i] \in Packet
    BY <1>2 DEF Logs
  <2>2. QED
    BY <2>1, StarAssumption DEF Packet, PathInOrder, StarAssumption
<1>4. \A log \in {csv, influx, line, usb, uart} : \A i \in DOMAIN log : log[i].no < p.no
  BY <1>1, <1>2, <1>3
<1>5. /\ Increasing(uart') /\ \A i \in DOMAIN uart' : uart'[i].no <= p.no
      /\ Precedes(csv, uart') /\ Precedes(influx, uart') /\ Precedes(line, uart')
      /\ Precedes(usb, uart')
  BY <1>1, <1>2, <1>4, AppendPath, PathParts, StarAssumption
<1>6. \A log \in {csv, influx, line, usb} : \A i \in DOMAIN log : log[i].no <= sent'
  BY <1>2, <1>3
<1>7. QED
  BY <1>1, <1>5, <1>6, PathParts, PathNext

LEMMA ParsePath ==
  ASSUME StarTypeOK, PathInOrder, Parse
  PROVE  PathInOrder'
<1>1. /\ uart # <<>> /\ uart' = Tail(uart) /\ UNCHANGED <<csv, influx, line, sent>>
      /\ usb' = usb \/ usb' = Append(usb, Head(uart))
  BY DEF Parse, Printed, nodeVars
<1>2. /\ csv \in Logs /\ influx \in Logs /\ line \in Logs
      /\ usb \in Logs /\ uart \in Logs /\ sent \in Nat
  BY PathTypes
<1> DEFINE p == Head(uart)
<1>3. p \in Packet
  BY <1>1, <1>2, HeadTail DEF Logs
<1>4. /\ Increasing(uart') /\ \A i \in DOMAIN uart' : p.no < uart'[i].no
      /\ \A i \in DOMAIN uart' : \E j \in DOMAIN uart : uart'[i] = uart[j]
      /\ \E j \in DOMAIN uart : p = uart[j]
  BY <1>1, <1>2, TailPath, PathParts
<1> HIDE DEF p
<1>5. /\ p.no <= sent /\ \A i \in DOMAIN uart' : uart'[i].no <= sent
      /\ \A log \in {csv, influx, line, usb} :
           Precedes(log, uart') /\ \A i \in DOMAIN log : log[i].no < p.no
  BY <1>4 DEF PathInOrder, Precedes
<1>6. /\ Increasing(usb') /\ \A i \in DOMAIN usb' : usb'[i].no <= sent
      /\ Precedes(csv, usb') /\ Precedes(influx, usb') /\ Precedes(line, usb')
      /\ Precedes(usb', uart')
  <2>1. CASE usb' = usb
    BY <1>5, <2>1, PathParts
  <2>2. CASE usb' = Append(usb, p)
    <3>1. /\ Increasing(usb') /\ \A i \in DOMAIN usb' : usb'[i].no <= p.no
          /\ Precedes(csv, usb') /\ Precedes(influx, usb') /\ Precedes(line, usb')
      /\ Precedes(usb', uart')
      BY <1>2, <1>3, <1>4, <1>5, <2>2, AppendPath, PathParts, StarAssumption
    <3>2. p.no \in Nat /\ \A i \in DOMAIN usb' : usb'[i].no \in Nat
      <4>1. usb' \in Seq(Packet)
        BY <1>2, <1>3, <2>2 DEF Logs
      <4>2. \A i \in DOMAIN usb' : usb'[i] \in Packet
        BY <4>1
      <4>3. QED
        BY <1>3, <4>2, StarAssumption DEF Packet, StarAssumption
    <3>3. QED
      BY <1>2, <1>5, <3>1, <3>2
  <2>3. QED
    BY <1>1, <2>1, <2>2 DEF p
<1>7. QED
  BY <1>1, <1>4, <1>5, <1>6, PathParts, PathNext

\* A log that takes the packet that comes next is still in order, and before
\* the packets that are behind it.
LEMMA GrowPath ==
  ASSUME StarAssumption, NEW log \in Logs, NEW p \in Packet, NEW grown,
         grown = log \/ grown = Append(log, p), sent \in Nat,
         Increasing(log), \A i \in DOMAIN log : log[i].no < p.no, p.no <= sent
  PROVE  /\ Increasing(grown) /\ \A i \in DOMAIN grown : grown[i].no <= sent
         /\ \A old : Precedes(old, log) /\ (\A i \in DOMAIN old : old[i].no < p.no)
                       => Precedes(old, grown)
         /\ \A new : Precedes(log, new) /\ (\A j \in DOMAIN new : p.no < new[j].no)
                       => Precedes(grown, new)
<1>1. p.no \in Nat
  BY StarAssumption DEF Packet, StarAssumption
<1>2. CASE grown = log
  <2>1. \A i \in DOMAIN log : log[i].no \in Nat
    <3>1. \A i \in DOMAIN log : log[i] \in Packet
      BY DEF Logs
    <3>2. QED
      BY <3>1, StarAssumption DEF Packet, StarAssumption
  <2>2. \A i \in DOMAIN log : log[i].no <= sent
    BY <1>1, <2>1
  <2>3. QED
    BY <1>2, <2>2
<1>3. CASE grown = Append(log, p)
  <2>1. /\ Increasing(grown) /\ \A i \in DOMAIN grown : grown[i].no <= p.no
        /\ \A old : Precedes(old, log) /\ (\A i \in DOMAIN old : old[i].no < p.no)
                      => Precedes(old, grown)
        /\ \A new : Precedes(log, new) /\ (\A j \in DOMAIN new : p.no < new[j].no)
                      => Precedes(grown, new)
    BY <1>3, AppendPath
  <2>2. \A i \in DOMAIN grown : grown[i].no \in Nat
    <3>1. grown \in Seq(Packet)
      BY <1>3 DEF Logs
    <3>2. \A i \in DOMAIN grown : grown[i] \in Packet
      BY <3>1
    <3>3. QED
      BY <3>2, StarAssumption DEF Packet, StarAssumption
  <2>3. \A i \in DOMAIN grown : grown[i].no <= sent
    BY <1>1, <2>1, <2>2
  <2>4. QED
    BY <2>1, <2>3
<1>4. QED
  BY <1>2, <1>3

LEMMA ToInfluxPath ==
  ASSUME StarTypeOK, PathInOrder, ToInflux
  PROVE  PathInOrder'
<1>1. /\ usb # <<>> /\ usb' = Tail(usb) /\ UNCHANGED <<csv, uart, sent>>
      /\ line' = line \/ line' = Append(line, Head(usb))
      /\ influx' = influx \/ influx' = Append(influx, Head(usb))
  BY DEF ToInflux, nodeVars
<1>2. /\ csv \in Logs /\ influx \in Logs /\ line \in Logs
      /\ usb \in Logs /\ uart \in Logs /\ sent \in Nat
  BY PathTypes
<1> DEFINE p == Head(usb)
<1>3. p \in Packet
  BY <1>1, <1>2, HeadTail DEF Logs
<1>4. /\ Increasing(usb') /\ \A i \in DOMAIN usb' : p.no < usb'[i].no
      /\ \A i \in DOMAIN usb' : \E j \in DOMAIN usb : usb'[i] = usb[j]
      /\ \E j \in DOMAIN usb : p = usb[j]
  BY <1>1, <1>2, TailPath, PathParts
<1> HIDE DEF p
<1>5. /\ p.no <= sent /\ \A i \in DOMAIN usb' : usb'[i].no <= sent
      /\ Precedes(usb', uart) /\ \A j \in DOMAIN uart : p.no < uart[j].no
      /\ \A log \in {csv, influx, line} :
           Precedes(log, usb') /\ \A i \in DOMAIN log : log[i].no < p.no
  BY <1>4 DEF PathInOrder, Precedes
<1>6. /\ Increasing(influx') /\ (\A i \in DOMAIN influx' : influx'[i].no <= sent)
      /\ Precedes(influx', usb') /\ Precedes(influx', uart)
  <2>1. influx' = influx \/ influx' = Append(influx, p)
    BY <1>1 DEF p
  <2>2. QED
    BY <1>2, <1>3, <1>4, <1>5, <2>1, GrowPath, PathParts, StarAssumption
<1>7. /\ Increasing(line') /\ (\A i \in DOMAIN line' : line'[i].no <= sent)
      /\ Precedes(line', usb') /\ Precedes(line', uart) /\ Precedes(csv, line')
  <2>1. line' = line \/ line' = Append(line, p)
    BY <1>1 DEF p
  <2>2. QED
    BY <1>2, <1>3, <1>4, <1>5, <2>1, GrowPath, PathParts, StarAssumption
<1>8. QED
  BY <1>1, <1>4, <1>5, <1>6, <1>7, PathParts, PathNext

LEMMA ToFilePath ==
  ASSUME StarTypeOK, PathInOrder, ToFile
  PROVE  PathInOrder'
<1>1. /\ line # <<>> /\ line' = Tail(line) /\ UNCHANGED <<influx, usb, uart, sent>>
      /\ csv' = Append(csv, Head(line))
  BY DEF ToFile, nodeVars
<1>2. csv \in Logs /\ line \in Logs /\ sent \in Nat
  BY PathTypes
<1> DEFINE p == Head(line)
<1>3. p \in Packet
  BY <1>1, <1>2, HeadTail DEF Logs
<1>4. /\ Increasing(line') /\ \A i \in DOMAIN line' : p.no < line'[i].no
      /\ \A i \in DOMAIN line' : \E j \in DOMAIN line : line'[i] = line[j]
      /\ \E j \in DOMAIN line : p = line[j]
  BY <1>1, <1>2, TailPath, PathParts
<1>5. csv' = csv \/ csv' = Append(csv, p)
  BY <1>1
<1> HIDE DEF p
<1>6. /\ p.no <= sent /\ \A i \in DOMAIN line' : line'[i].no <= sent
      /\ Precedes(line', usb) /\ Precedes(line', uart)
      /\ \A log \in {usb, uart} : \A j \in DOMAIN log : p.no < log[j].no
      /\ Precedes(csv, line') /\ \A i \in DOMAIN csv : csv[i].no < p.no
  BY <1>4 DEF PathInOrder, Precedes
<1>7. /\ Increasing(csv') /\ (\A i \in DOMAIN csv' : csv'[i].no <= sent)
      /\ Precedes(csv', line') /\ Precedes(csv', usb) /\ Precedes(csv', uart)
  BY <1>2, <1>3, <1>4, <1>5, <1>6, GrowPath, PathParts, StarAssumption
<1>8. QED
  BY <1>1, <1>4, <1>6, <1>7, PathParts, PathNext

\* PathInOrder speaks of the logs and of the number of packets only.
LEMMA QuietPath ==
  PathInOrder /\ UNCHANGED <<csv, influx, line, usb, uart, sent>> => PathInOrder'
  BY DEF PathInOrder, Increasing, Precedes

LEMMA PathStep ==
  ASSUME StarTypeOK, PathInOrder, [Next]_vars
  PROVE  PathInOrder'
<1>1. ASSUME NEW n \in Nodes, Send(n) PROVE PathInOrder'
  <2>1. CASE UNCHANGED <<sent, uart>>
    BY <1>1, <2>1, QuietPath DEF Send
  <2>2. CASE /\ sent < MaxSends /\ sent' = sent + 1
             /\ uart' = Append(uart, [from |-> n, no |-> sent', rain |-> data[n]])
    <3>1. [from |-> n, no |-> sent', rain |-> data[n]] \in Packet
      BY <2>2, StarAssumption DEF Packet, StarTypeOK, StarAssumption
    <3>2. QED
      BY <1>1, <2>2, <3>1, SendPath
  <2>3. QED
    BY <1>1, <2>1, <2>2 DEF Send
<1>2. ASSUME NEW n \in Nodes, NodeSteps(n) \/ Reset(n), ~Send(n) PROVE PathInOrder'
  BY <1>2, QuietPath
     DEF NodeSteps, Setup, Sense, Zero, Await, Sleep, Wake, Reset, hostVars
<1>3. CASE Tip
  BY <1>3, QuietPath DEF Tip, hostVars
<1>4. CASE RxCommand
  <2>1. uart' = <<>> /\ UNCHANGED <<csv, influx, line, usb, sent>>
    BY <1>4 DEF RxCommand, nodeVars
  <2>2. QED
    BY <2>1, PathParts, PathNext, EmptyPath
<1>5. CASE Parse
  BY <1>5, ParsePath
<1>6. CASE Monitor
  BY <1>6, ToInfluxPath, ToFilePath DEF Monitor
<1>7. CASE MonitorStops
  <2>1. usb' = <<>> /\ line' = <<>> /\ UNCHANGED <<csv, influx, uart, sent>>
    BY <1>7 DEF MonitorStops, nodeVars
  <2>2. QED
    BY <2>1, PathParts, PathNext, EmptyPath
<1>8. CASE RxSetup \/ Overrun \/ MonitorStarts
  BY <1>8, QuietPath DEF RxSetup, Overrun, MonitorStarts, nodeVars
<1>9. CASE UNCHANGED vars
  BY <1>9, QuietPath DEF vars, nodeVars, hostVars
<1>10. QED
  BY <1>1, <1>2, <1>3, <1>4, <1>5, <1>6, <1>7, <1>8, <1>9 DEF Next, Receiver

-----------------------------------------------------------------------------
(* The rain *)

LEMMA RainTypes ==
  ASSUME StarTypeOK
  PROVE  /\ Rain(csv) \in Nat /\ Rain(influx) \in Nat /\ Rain(line) \in Nat
         /\ Rain(usb) \in Nat /\ Rain(uart) \in Nat
         /\ rain_gauge_count \in Nat /\ card \in Nat /\ tips \in Nat
         /\ data \in [Nodes -> Nat] /\ pc \in [Nodes -> Places] /\ Gauge \in Nodes
<1>1. /\ Rain(csv) \in Nat /\ Rain(influx) \in Nat /\ Rain(line) \in Nat
      /\ Rain(usb) \in Nat /\ Rain(uart) \in Nat
  BY PathTypes, RainNat, StarAssumption
<1>2. data \in [Nodes -> Nat]
  BY StarAssumption DEF StarTypeOK, StarAssumption
<1>3. QED
  BY <1>1, <1>2, StarAssumption DEF StarTypeOK, StarAssumption

\* What a node does with the rain; the packet it sends is a step of its own.
LEMMA NodeRain ==
  ASSUME StarTypeOK, RainAccounted, NEW n \in Nodes,
         NodeSteps(n) \/ Reset(n), UNCHANGED hostVars
  PROVE  RainAccounted'
<1>0. UNCHANGED <<csv, influx, line, usb, uart>>
  BY DEF hostVars
<1> USE RainTypes, <1>0 DEF RainAccounted, Held, Go
<1>1. CASE Setup(n)
  BY <1>1 DEF Setup
<1>2. CASE Sense(n)
  BY <1>2 DEF Sense
<1>3. CASE Zero(n)
  BY <1>3 DEF Zero
<1>4. CASE Send(n)
  <2>1. /\ pc[n] = "Send" /\ pc'[n] = "Await" /\ \A m \in Nodes \ {n} : pc'[m] = pc[m]
        /\ UNCHANGED <<data, card, rain_gauge_count, tips>>
    BY <1>4 DEF Send
  <2>2. CASE n = Gauge
    BY <2>1, <2>2
  <2>3. CASE n # Gauge
    BY <2>1, <2>3
  <2>4. QED
    BY <2>2, <2>3
<1>5. CASE Await(n)
  BY <1>5 DEF Await, LogToSD
<1>6. CASE Sleep(n)
  BY <1>6 DEF Sleep
<1>7. CASE Wake(n)
  BY <1>7 DEF Wake
<1>8. CASE Reset(n)
  BY <1>8 DEF Reset
<1>9. QED
  BY <1>1, <1>2, <1>3, <1>4, <1>5, <1>6, <1>7, <1>8 DEF NodeSteps

LEMMA SendRain ==
  ASSUME StarTypeOK, RainAccounted, NEW n \in Nodes, Send(n), ~UNCHANGED hostVars
  PROVE  RainAccounted'
<1> DEFINE p == [from |-> n, no |-> sent', rain |-> data[n]]
<1>1. /\ uart' = Append(uart, p) /\ sent < MaxSends /\ sent' = sent + 1
      /\ UNCHANGED <<csv, influx, line, usb>>
  BY DEF Send, hostVars
<1>2. p \in Packet /\ p.rain = data[n]
  BY <1>1, StarAssumption DEF Packet, StarTypeOK, StarAssumption
<1>3. Rain(uart') = Rain(uart) + data[n]
  <2> HIDE DEF p
  <2>1. QED
    BY <1>1, <1>2, RainAppend, PathTypes, StarAssumption
<1> HIDE DEF p
<1>4. /\ pc[n] = "Send" /\ pc'[n] = "Await" /\ \A m \in Nodes \ {n} : pc'[m] = pc[m]
      /\ UNCHANGED <<data, card, rain_gauge_count, tips>>
  BY RainTypes DEF Send, Go
<1>5. /\ Rain(csv') = Rain(csv) /\ Rain(influx') = Rain(influx)
      /\ Rain(line') = Rain(line) /\ Rain(usb') = Rain(usb)
  BY <1>1
<1> USE RainTypes DEF RainAccounted, Held
<1>6. CASE n = Gauge
  BY <1>3, <1>4, <1>5, <1>6
<1>7. CASE n # Gauge
  BY <1>3, <1>4, <1>5, <1>7
<1>8. QED
  BY <1>6, <1>7

\* What the receiver and the monitor do with it.
LEMMA HostRain ==
  ASSUME StarTypeOK, RainAccounted, HostSteps
  PROVE  RainAccounted'
<1>0. UNCHANGED <<pc, data, rain_gauge_count, card, tips>>
  BY DEF HostSteps, Receiver, Monitor, RxSetup, RxCommand, Parse, Overrun, MonitorStarts,
         ToInflux, ToFile, MonitorStops, nodeVars
<1>1. SUFFICES /\ Rain(csv') + Rain(line') + Rain(usb') + Rain(uart')
                    <= Rain(csv) + Rain(line) + Rain(usb) + Rain(uart)
               /\ Rain(influx') + Rain(usb') + Rain(uart')
                    <= Rain(influx) + Rain(usb) + Rain(uart)
               /\ Rain(csv') \in Nat /\ Rain(influx') \in Nat /\ Rain(line') \in Nat
               /\ Rain(usb') \in Nat /\ Rain(uart') \in Nat
  BY <1>0, RainTypes DEF RainAccounted, Held
<1> USE StarAssumption, RainTypes, PathTypes
<1>3. CASE RxSetup \/ Overrun \/ MonitorStarts
  BY <1>3 DEF RxSetup, Overrun, MonitorStarts
<1>4. CASE RxCommand
  BY <1>4, RainEmpty DEF RxCommand
<1>5. CASE MonitorStops
  BY <1>5, RainEmpty DEF MonitorStops
<1>6. CASE Parse
  <2>1. /\ Rain(uart) = Head(uart).rain + Rain(Tail(uart)) /\ Head(uart) \in Packet
        /\ Tail(uart) \in Logs /\ Head(uart).rain \in Nat
    <3>1. /\ Rain(uart) = Head(uart).rain + Rain(Tail(uart)) /\ Head(uart) \in Packet
          /\ Tail(uart) \in Logs
      BY <1>6, RainTail DEF Parse
    <3>2. QED
      BY <3>1 DEF Packet, StarAssumption
  <2>2. Rain(Tail(uart)) \in Nat
    BY <2>1, RainNat
  <2>3. Rain(usb') = Rain(usb) \/ Rain(usb') = Rain(usb) + Head(uart).rain
    BY <1>6, <2>1, RainAppend DEF Parse, Printed
  <2>4. uart' = Tail(uart) /\ UNCHANGED <<csv, influx, line>>
    BY <1>6 DEF Parse
  <2>5. /\ Rain(uart') = Rain(Tail(uart)) /\ Rain(csv') = Rain(csv)
        /\ Rain(influx') = Rain(influx) /\ Rain(line') = Rain(line)
    BY <2>4
  <2>6. QED
    BY <2>1, <2>2, <2>3, <2>5
<1>7. CASE ToInflux
  <2>1. /\ Rain(usb) = Head(usb).rain + Rain(Tail(usb)) /\ Head(usb) \in Packet
        /\ Tail(usb) \in Logs /\ Head(usb).rain \in Nat
    <3>1. /\ Rain(usb) = Head(usb).rain + Rain(Tail(usb)) /\ Head(usb) \in Packet
          /\ Tail(usb) \in Logs
      BY <1>7, RainTail DEF ToInflux
    <3>2. QED
      BY <3>1 DEF Packet, StarAssumption
  <2>2. Rain(Tail(usb)) \in Nat
    BY <2>1, RainNat
  <2>3. /\ Rain(Append(line, Head(usb))) = Rain(line) + Head(usb).rain
        /\ Rain(Append(influx, Head(usb))) = Rain(influx) + Head(usb).rain
    BY <2>1, RainAppend
  <2>4. /\ line' = line \/ line' = Append(line, Head(usb))
        /\ influx' = influx \/ influx' = Append(influx, Head(usb))
        /\ usb' = Tail(usb) /\ UNCHANGED <<csv, uart>>
    BY <1>7 DEF ToInflux
  <2>5. /\ Rain(usb') = Rain(Tail(usb)) /\ Rain(uart') = Rain(uart) /\ Rain(csv') = Rain(csv)
        /\ Rain(line') = Rain(line) \/ Rain(line') = Rain(line) + Head(usb).rain
        /\ Rain(influx') = Rain(influx) \/ Rain(influx') = Rain(influx) + Head(usb).rain
    BY <2>3, <2>4
  <2>6. QED
    BY <2>1, <2>2, <2>5
<1>8. CASE ToFile
  <2>1. /\ Rain(line) = Head(line).rain + Rain(Tail(line)) /\ Head(line) \in Packet
        /\ Tail(line) \in Logs /\ Head(line).rain \in Nat
    <3>1. /\ Rain(line) = Head(line).rain + Rain(Tail(line)) /\ Head(line) \in Packet
          /\ Tail(line) \in Logs
      BY <1>8, RainTail DEF ToFile
    <3>2. QED
      BY <3>1 DEF Packet, StarAssumption
  <2>2. Rain(Tail(line)) \in Nat
    BY <2>1, RainNat
  <2>3. Rain(Append(csv, Head(line))) = Rain(csv) + Head(line).rain
    BY <2>1, RainAppend
  <2>4. /\ csv' = Append(csv, Head(line)) /\ line' = Tail(line)
        /\ UNCHANGED <<influx, usb, uart>>
    BY <1>8 DEF ToFile
  <2>5. /\ Rain(csv') = Rain(csv) + Head(line).rain /\ Rain(line') = Rain(Tail(line))
        /\ Rain(influx') = Rain(influx) /\ Rain(usb') = Rain(usb) /\ Rain(uart') = Rain(uart)
    BY <2>3, <2>4
  <2>6. QED
    BY <2>1, <2>2, <2>5
<1>9. QED
  BY <1>3, <1>4, <1>5, <1>6, <1>7, <1>8 DEF HostSteps, Receiver, Monitor

-----------------------------------------------------------------------------
(* The two stores of the monitor *)

\* What a log holds after it was appended to.
LEMMA AppendElements ==
  ASSUME NEW log \in Logs, NEW p \in Packet
  PROVE  /\ \A i \in DOMAIN log : \E j \in DOMAIN Append(log, p) : Append(log, p)[j] = log[i]
         /\ \E j \in DOMAIN Append(log, p) : Append(log, p)[j] = p
         /\ \A i \in DOMAIN Append(log, p) :
              \/ i \in DOMAIN log /\ Append(log, p)[i] = log[i]
              \/ i = Len(Append(log, p)) /\ Append(log, p)[i] = p
<1>1. /\ Len(log) \in Nat /\ DOMAIN log = 1..Len(log)
      /\ DOMAIN Append(log, p) = 1..(Len(log) + 1) /\ Len(Append(log, p)) = Len(log) + 1
      /\ \A i \in 1..Len(log) : Append(log, p)[i] = log[i]
      /\ Append(log, p)[Len(log) + 1] = p
  BY DEF Logs
<1>2. QED
  BY <1>1

LEMMA QuietFile ==
  DatabaseWithinFile /\ RowInHandIsLatest /\ monitor # "stopped"
    /\ UNCHANGED <<csv, influx, line>> => DatabaseWithinFile' /\ RowInHandIsLatest'
  BY DEF DatabaseWithinFile, RowInHandIsLatest

\* ToInflux and ToFile hand the row on, and only an end of the script lets
\* go of it.
LEMMA FileStep ==
  ASSUME StarTypeOK, PathInOrder, RowInHandIsLatest, DatabaseWithinFile, [Next]_vars
  PROVE  RowInHandIsLatest' /\ DatabaseWithinFile'
<1>0. /\ csv \in Logs /\ influx \in Logs /\ line \in Logs /\ usb \in Logs
      /\ Increasing(influx) /\ Precedes(influx, usb)
  BY PathTypes, PathParts
<1>1. CASE ToInflux
  <2> DEFINE p == Head(usb)
  <2>1. /\ line = <<>> /\ usb # <<>> /\ monitor # "stopped" /\ csv' = csv
        /\ \/ line' = Append(line, p) /\ (influx' = influx \/ influx' = Append(influx, p))
           \/ line' = line /\ influx' = influx
    BY <1>1 DEF ToInflux
  <2>2. p \in Packet /\ \A i \in DOMAIN influx : influx[i].no < p.no
    <3>1. p \in Packet /\ \E j \in DOMAIN usb : p = usb[j]
      BY <1>0, <2>1, HeadTail, TailPath DEF Logs
    <3>2. QED
      BY <1>0, <3>1 DEF Precedes
  <2> HIDE DEF p
  <2>3. CASE line' = line /\ influx' = influx
    BY <2>1, <2>3, QuietFile
  <2>4. CASE line' = Append(line, p) /\ (influx' = influx \/ influx' = Append(influx, p))
    <3>1. /\ \A j \in DOMAIN line' : line'[j] = p
          /\ \E j \in DOMAIN line' : line'[j] = p
      BY <1>0, <2>1, <2>2, <2>4, AppendElements
    <3>2. \A i \in DOMAIN influx' : \/ i \in DOMAIN influx /\ influx'[i] = influx[i]
                                   \/ influx'[i] = p
      <4>1. CASE influx' = influx
        BY <4>1
      <4>2. CASE influx' = Append(influx, p)
        BY <1>0, <2>2, <4>2, AppendElements
      <4>3. QED
        BY <2>4, <4>1, <4>2
    <3>3. \A i \in DOMAIN influx : \E j \in DOMAIN csv : csv[j] = influx[i]
      BY <2>1 DEF DatabaseWithinFile
    <3>4. DatabaseWithinFile'
      BY <2>1, <3>1, <3>2, <3>3 DEF DatabaseWithinFile
    <3>5. p.no \in Nat /\ \A i \in DOMAIN influx : influx[i].no \in Nat
      <4>1. \A i \in DOMAIN influx : influx[i] \in Packet
        BY <1>0 DEF Logs
      <4>2. QED
        BY <2>2, <4>1, StarAssumption DEF Packet, StarAssumption
    <3>6. \A i \in DOMAIN influx' : influx'[i].no <= p.no
      BY <2>2, <3>2, <3>5
    <3>7. RowInHandIsLatest'
      BY <3>1, <3>6 DEF RowInHandIsLatest
    <3>8. QED
      BY <3>4, <3>7
  <2>5. QED
    BY <2>1, <2>3, <2>4
<1>2. CASE ToFile
  <2>1. /\ line # <<>> /\ csv' = Append(csv, Head(line)) /\ line' = Tail(line)
        /\ monitor # "stopped" /\ influx' = influx
    BY <1>2 DEF ToFile
  <2>2. Head(line) \in Packet
    BY <1>0, <2>1, HeadTail DEF Logs
  <2>3. /\ \A j \in DOMAIN csv : \E k \in DOMAIN csv' : csv'[k] = csv[j]
        /\ \E k \in DOMAIN csv' : csv'[k] = Head(line)
    <3> DEFINE p == Head(line)
    <3> HIDE DEF p
    <3>1. /\ \A j \in DOMAIN csv : \E k \in DOMAIN Append(csv, p) : Append(csv, p)[k] = csv[j]
          /\ \E k \in DOMAIN Append(csv, p) : Append(csv, p)[k] = p
      BY <1>0, <2>2, AppendElements DEF p
    <3>2. csv' = Append(csv, p)
      BY <2>1 DEF p
    <3>3. QED
      BY <3>1, <3>2 DEF p
  <2>4. /\ Len(line) \in Nat \ {0} /\ DOMAIN line = 1..Len(line)
        /\ DOMAIN line' = 1..(Len(line) - 1) /\ Head(line) = line[1]
        /\ \A j \in 1..(Len(line) - 1) : line'[j] = line[j + 1]
    BY <1>0, <2>1 DEF Logs
  <2>5. ASSUME NEW j \in DOMAIN line
        PROVE  \/ line[j] = Head(line)
               \/ \E k \in DOMAIN line' : line'[k] = line[j]
    <3>1. CASE j = 1
      BY <2>4, <3>1
    <3>2. CASE j # 1
      <4>1. j - 1 \in DOMAIN line' /\ line'[j - 1] = line[j]
        BY <2>4, <3>2
      <4>2. QED
        BY <4>1
    <3>3. QED
      BY <3>1, <3>2
  <2>6. DatabaseWithinFile'
    <3> SUFFICES ASSUME NEW i \in DOMAIN influx
                 PROVE  \/ \E k \in DOMAIN csv' : csv'[k] = influx[i]
                        \/ \E k \in DOMAIN line' : line'[k] = influx[i]
      BY <2>1 DEF DatabaseWithinFile
    <3>1. CASE \E k \in DOMAIN csv : csv[k] = influx[i]
      BY <2>3, <3>1
    <3>2. CASE \E j \in DOMAIN line : line[j] = influx[i]
      BY <2>3, <2>5, <3>2
    <3>3. QED
      BY <2>1, <3>1, <3>2 DEF DatabaseWithinFile
  <2>7. RowInHandIsLatest'
    <3>1. \A j \in DOMAIN line' : \E k \in DOMAIN line : line'[j] = line[k]
      BY <1>0, <2>1, TailPath
    <3>2. QED
      BY <2>1, <3>1 DEF RowInHandIsLatest
  <2>8. QED
    BY <2>6, <2>7
<1>3. CASE MonitorStops
  <2>1. /\ line' = <<>> /\ UNCHANGED <<csv, influx>>
        /\ monitor # "stopped" /\ monitor' = "stopped"
    BY <1>3 DEF MonitorStops
  <2>2. ASSUME NEW i \in DOMAIN influx, NEW j \in DOMAIN line, line[j] = influx[i]
        PROVE  i = Len(influx)
    <3>1. /\ Len(influx) \in Nat /\ DOMAIN influx = 1..Len(influx)
          /\ \A k \in 1..Len(influx) : influx[k] \in Packet
      BY <1>0 DEF Logs
    <3>2. \A k \in 1..Len(influx) : influx[k].no \in Nat
      BY <3>1, StarAssumption DEF Packet, StarAssumption
    <3>3. \A k \in 1..Len(influx) : influx[k].no <= influx[i].no
      BY <2>2, <3>1 DEF RowInHandIsLatest
    <3>4. ~(i < Len(influx))
      BY <1>0, <2>2, <3>1, <3>2, <3>3 DEF Increasing
    <3>5. QED
      BY <2>2, <3>1, <3>4
  <2>3. DatabaseWithinFile'
    BY <2>1, <2>2 DEF DatabaseWithinFile
  <2>4. RowInHandIsLatest'
    BY <2>1 DEF RowInHandIsLatest
  <2>5. QED
    BY <2>3, <2>4
<1>4. CASE MonitorStarts
  BY <1>4, QuietFile DEF MonitorStarts
<1>5. CASE UNCHANGED <<csv, influx, line, monitor>>
  BY <1>5 DEF DatabaseWithinFile, RowInHandIsLatest
<1>6. QED
  <2>1. ASSUME NEW n \in Nodes, NodeSteps(n) \/ Reset(n)
        PROVE  UNCHANGED <<csv, influx, line, monitor>>
    BY <2>1 DEF NodeSteps, Setup, Sense, Zero, Send, Await, Sleep, Wake, Reset, hostVars
  <2>2. ASSUME Tip \/ Receiver \/ Overrun \/ UNCHANGED vars
        PROVE  UNCHANGED <<csv, influx, line, monitor>>
    BY <2>2 DEF Tip, Receiver, RxSetup, RxCommand, Parse, Overrun, vars, hostVars
  <2>3. QED
    BY <1>1, <1>2, <1>3, <1>4, <1>5, <2>1, <2>2 DEF Next, Monitor

-----------------------------------------------------------------------------
(* The invariant *)

LEMMA StarInit ==
  Init => StarInd
<1> SUFFICES ASSUME Init PROVE StarInd
  OBVIOUS
<1>0. csv = <<>> /\ influx = <<>> /\ line = <<>> /\ usb = <<>> /\ uart = <<>>
  BY DEF Init
<1>1. SleepUnwatched
  BY DEF Init, SleepUnwatched
<1>2. PathInOrder
  BY <1>0, PathParts, EmptyPath
<1>3. RainAccounted
  <2>1. Rain(<<>>) = 0
    BY RainEmpty, StarAssumption
  <2>2. QED
    BY <1>0, <2>1, StarAssumption DEF Init, RainAccounted, Held, StarAssumption
<1>4. RowInHandIsLatest /\ DatabaseWithinFile
  BY <1>0, EmptyPath DEF RowInHandIsLatest, DatabaseWithinFile
<1>5. QED
  BY <1>1, <1>2, <1>3, <1>4, InitTypes DEF StarInv, StarInd

LEMMA SleepStep ==
  ASSUME StarTypeOK, SleepUnwatched, [Next]_vars
  PROVE  SleepUnwatched'
<1>1. ASSUME NEW n \in Nodes, NodeSteps(n) \/ Reset(n) PROVE SleepUnwatched'
  BY <1>1 DEF NodeSteps, Setup, Sense, Zero, Send, Await, Sleep, Wake, Reset, Go,
              SleepUnwatched, StarTypeOK, Places
<1>2. CASE UNCHANGED <<pc, watched>>
  BY <1>2 DEF SleepUnwatched
<1>3. QED
  BY <1>1, <1>2 DEF Next, Tip, Receiver, RxSetup, RxCommand, Parse, Overrun, MonitorStarts,
                    Monitor, ToInflux, ToFile, MonitorStops, vars, nodeVars

LEMMA StarStep ==
  StarInd /\ [Next]_vars => StarInd'
<1> SUFFICES ASSUME StarInd, [Next]_vars PROVE StarInd'
  OBVIOUS
<1>0. /\ StarTypeOK /\ SleepUnwatched /\ PathInOrder /\ RainAccounted
      /\ RowInHandIsLatest /\ DatabaseWithinFile
  BY DEF StarInv, StarInd
<1>1. SleepUnwatched' /\ PathInOrder' /\ RowInHandIsLatest' /\ DatabaseWithinFile'
  BY <1>0, SleepStep, PathStep, FileStep
<1>2. ASSUME NEW n \in Nodes, NodeSteps(n) \/ Reset(n) PROVE StarTypeOK' /\ RainAccounted'
  <2>1. UNCHANGED hostVars \/ Send(n)
    BY <1>2 DEF NodeSteps, Setup, Sense, Zero, Await, Sleep, Wake, Reset
  <2>2. QED
    BY <1>0, <1>2, <2>1, NodeTypes, NodeRain, SendRain
<1>3. ASSUME Tip PROVE StarTypeOK' /\ RainAccounted'
  <2>1. /\ tips < MaxTips /\ tips' = tips + 1 /\ UNCHANGED <<pc, data, card, hostVars>>
        /\ UNCHANGED <<watched, sent, resets>>
        /\ rain_gauge_count' \in {rain_gauge_count, rain_gauge_count + 1}
    BY <1>3 DEF Tip
  <2>2. RainAccounted'
    BY <1>0, <2>1, RainTypes DEF RainAccounted, Held, hostVars
  <2>3. rain_gauge_count' <= tips'
    BY <1>0, <2>1, RainTypes DEF RainAccounted, Held
  <2>4. rain_gauge_count' \in 0..MaxTips /\ tips' \in 0..MaxTips
    BY <1>0, <2>1, <2>3, StarAssumption, RainTypes DEF StarTypeOK, StarAssumption
  <2>5. QED
    BY <1>0, <2>1, <2>2, <2>4 DEF StarTypeOK, hostVars
<1>4. ASSUME HostSteps PROVE StarTypeOK' /\ RainAccounted'
  BY <1>0, <1>4, HostTypes, HostRain
<1>5. ASSUME UNCHANGED vars PROVE StarTypeOK' /\ RainAccounted'
  <2>1. StarTypeOK'
    BY <1>0, <1>5 DEF StarTypeOK, vars, nodeVars, hostVars
  <2>2. RainAccounted'
    BY <1>0, <1>5 DEF RainAccounted, Held, vars, nodeVars, hostVars
  <2>3. QED
    BY <2>1, <2>2
<1>6. StarTypeOK' /\ RainAccounted'
  BY <1>2, <1>3, <1>4, <1>5 DEF Next, HostSteps
<1>7. QED
  BY <1>1, <1>6 DEF StarInv, StarInd

\* In every reachable state the variables have their types and no node sleeps
\* watched; no packet has overtaken another one on its way to the rows, and
\* every tip is at most once on the card, and at most once on its way to the
\* file and to the database.
THEOREM StarInvariant ==
  FairSpec => [](StarInv /\ PathInOrder /\ RainAccounted)
<1>1. Init => StarInd
  BY StarInit
<1>2. StarInd /\ [Next]_vars => StarInd'
  BY StarStep
<1>3. StarInd => StarInv /\ PathInOrder /\ RainAccounted
  BY DEF StarInd
<1>4. QED
  BY <1>1, <1>2, <1>3, PTL DEF FairSpec

\* Neither the card of the gauge, nor the CSV file, nor InfluxDB ever shows
\* more rain than fell: isr_bucket() against node_send().
THEOREM NeverOvercounted ==
  FairSpec => []RainNeverOvercounted
<1>1. StarInv /\ PathInOrder /\ RainAccounted => RainNeverOvercounted
  <2> SUFFICES ASSUME StarInv, RainAccounted PROVE RainNeverOvercounted
    OBVIOUS
  <2>1. StarTypeOK
    BY DEF StarInv
  <2>2. Held({"Send", "Await"}) \in Nat /\ Held({"Send"}) \in Nat
    BY <2>1, RainTypes DEF Held
  <2>3. QED
    BY <2>1, <2>2, RainTypes DEF RainAccounted, RainNeverOvercounted
<1>2. QED
  BY <1>1, StarInvariant, PTL

\* No packet becomes two rows of the file or of the database, and the rows of
\* a node are in the order in which it sent them.
THEOREM RowsUnique ==
  FairSpec => []RowsOnceInOrder
<1>1. StarInv /\ PathInOrder /\ RainAccounted => RowsOnceInOrder
  BY DEF PathInOrder, Increasing, RowsOnceInOrder
<1>2. QED
  BY <1>1, StarInvariant, PTL

\* star_rx_serial_monitor.py: of the rows in InfluxDB the file lacks at most
\* the one in hand, or the one the script ended with.
THEOREM FileFollows ==
  FairSpec => []DatabaseWithinFile
<1>1. Init => StarInd
  BY StarInit
<1>2. StarInd /\ [Next]_vars => StarInd'
  BY StarStep
<1>3. StarInd => DatabaseWithinFile
  BY DEF StarInd
<1>4. QED
  BY <1>1, <1>2, <1>3, PTL DEF FairSpec
=============================================================================
