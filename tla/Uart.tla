-------------------------------- MODULE Uart --------------------------------
(***************************************************************************)
(* A serial port, UART or LPUART (communication/serial): frames wait on the    *)
(* wire, take a frame's time each way, and pass through FIFOs that firmware       *)
(* reads and writes.  A frame is a number, in the order of its arrival, and        *)
(* whether it came with an error.                                                    *)
(***************************************************************************)
EXTENDS Naturals, Sequences

CONSTANTS
  UartPorts,    \* the ports there are: "uart" or "lpuart", and how many frames come and go
  UartDepth,    \* the depth of a FIFO that is enabled
  UartFrame,    \* the cycles a frame takes
  UartWrap,     \* the values of the unsigned cycle counters, 2^32
  UartSteps     \* the cycles one advance brings

VARIABLES
  uart,        \* the port: registers, FIFOs, what is left of the frames
  uartPort,    \* which of UartPorts it is
  uartWire,    \* frames the host pushed that are not received, and those it can pop
  uartMade,    \* frames made so far, [host, firmware]
  uartStopped  \* a direction was stopped with a frame under way

uartVars == <<uart, uartPort, uartWire, uartMade, uartStopped>>

UartOff ==
  [gate |-> FALSE, re |-> FALSE, te |-> FALSE, fifo |-> FALSE,
   receive |-> <<>>, transmit |-> <<>>, rxleft |-> 0, txleft |-> 0,
   overrun |-> FALSE, error |-> FALSE, rxof |-> FALSE, txof |-> FALSE, statusread |-> FALSE]

UartWires == [receive |-> <<>>, transmit |-> <<>>]

Frames == [n : 1..uartPort.host, error : BOOLEAN]
UartCapacity(u) == IF uartPort.kind = "uart" /\ u.fifo THEN UartDepth ELSE 1

UartTypeOK ==
  /\ uart.receive \in Seq(Frames) /\ Len(uart.receive) <= UartDepth
  /\ uart.transmit \in Seq(1..uartPort.firmware) /\ Len(uart.transmit) <= UartDepth
  /\ {uart.rxleft, uart.txleft} \subseteq 0..(UartWrap - 1)
  /\ uartWire.receive \in Seq(Frames) /\ uartWire.transmit \in Seq(0..uartPort.firmware)

UartInit ==
  /\ uart = UartOff
  /\ uartPort \in UartPorts
  /\ uartWire = UartWires
  /\ uartMade = [host |-> 0, firmware |-> 0]
  /\ uartStopped = FALSE

-----------------------------------------------------------------------------
(* Time *)

(* The error of the frame at the head shows; that of one that was read may
   stay. *)
Refreshed(u) ==
  [u EXCEPT !.error = @ \/ (u.receive # <<>> /\ Head(u.receive).error)]

ReceivedSilently(s) ==  \* mutant: a frame that finds the FIFO full is dropped without a trace
  LET frame == Head(s.wire.receive)
      f == IF Len(s.u.receive) >= UartCapacity(s.u) THEN s.u
           ELSE [s.u EXCEPT !.receive = Append(@, frame), !.error = @ \/ frame.error]
  IN  [s EXCEPT !.u = f, !.wire.receive = Tail(@)]

(* A frame off the wire, into the FIFO or, when that is full, lost. *)
ReceivedFrame(s) ==
  LET frame == Head(s.wire.receive)
      f == IF Len(s.u.receive) >= UartCapacity(s.u)
             THEN [s.u EXCEPT !.overrun = TRUE, !.rxof = uartPort.kind = "uart"]
             ELSE [s.u EXCEPT !.receive = Append(@, frame), !.error = @ \/ frame.error]
  IN  [s EXCEPT !.u = f, !.wire.receive = Tail(@)]

SentTwice(s) ==  \* mutant: the frame that was sent stays at the head
  [s EXCEPT !.wire.transmit = Append(@, IF s.u.transmit = <<>> THEN 0 ELSE Head(s.u.transmit))]

SentFrame(s) ==
  LET frame == IF s.u.transmit = <<>> THEN 0 ELSE Head(s.u.transmit)
  IN  [s EXCEPT !.u.transmit = IF @ = <<>> THEN <<>> ELSE Tail(@),
                !.wire.transmit = Append(@, frame)]

(* A frame that started runs on when its direction is disabled or its FIFO
   flushed, but then no longer bounds the time that is taken: the unsigned
   counter may pass zero. *)
Left(left, elapsed) == (left + UartWrap - elapsed) % UartWrap

UartSegment(u, wire, cycles) ==
  LET receiving == u.re /\ wire.receive # <<>>
      sending == u.te /\ u.transmit # <<>>
      rx == IF receiving /\ u.rxleft = 0 THEN UartFrame ELSE u.rxleft
      tx == IF sending /\ u.txleft = 0 THEN UartFrame ELSE u.txleft
      bounds == {cycles} \cup (IF receiving THEN {rx} ELSE {}) \cup (IF sending THEN {tx} ELSE {})
  IN  [rx |-> rx, tx |-> tx, elapsed |-> CHOOSE n \in bounds : \A m \in bounds : n <= m]

Ran(s, g) ==
  LET rx == IF g.rx = 0 THEN 0 ELSE Left(g.rx, g.elapsed)
      tx == IF g.tx = 0 THEN 0 ELSE Left(g.tx, g.elapsed)
      t == [s EXCEPT !.u.rxleft = rx, !.u.txleft = tx]
      r == IF g.rx # 0 /\ rx = 0 THEN ReceivedFrame(t) ELSE t
  IN  IF g.tx # 0 /\ tx = 0 THEN SentFrame(r) ELSE r

RECURSIVE UartRun(_, _)
UartRun(s, cycles) ==
  LET g == UartSegment(s.u, s.wire, cycles)
  IN  IF cycles = 0 \/ ~s.u.gate \/ (g.elapsed = cycles /\ g.rx = 0 /\ g.tx = 0) THEN s
      ELSE UartRun(Ran(s, g), cycles - g.elapsed)

UartAdvance(cycles) ==
  LET s == UartRun([u |-> uart, wire |-> uartWire], cycles)
  IN  /\ uart' = Refreshed(s.u)
      /\ uartWire' = s.wire
      /\ UNCHANGED <<uartPort, uartMade, uartStopped>>

-----------------------------------------------------------------------------
(* Registers *)

Stops(u) ==
  \/ u.rxleft # 0 /\ ~u.re
  \/ u.txleft # 0 /\ (~u.te \/ u.transmit = <<>>)

UartSet(u) ==
  /\ uart.gate
  /\ uart' = Refreshed(u)
  /\ uartStopped' = (uartStopped \/ Stops(u))
  /\ UNCHANGED <<uartPort, uartWire, uartMade>>

UartWriteControl(re, te) ==
  UartSet([uart EXCEPT !.re = re, !.te = te])

UartReadData ==
  LET u == [uart EXCEPT !.receive = IF @ = <<>> THEN <<>> ELSE Tail(@)]
      cleared == uartPort.kind = "uart" /\ uart.statusread
  IN  UartSet([u EXCEPT !.error = @ /\ ~cleared, !.overrun = @ /\ ~cleared, !.statusread = FALSE])

WriteData ==
  /\ uartMade.firmware < uartPort.firmware
  /\ uart.gate
  /\ uart' = Refreshed(
       IF Len(uart.transmit) < UartCapacity(uart)
         THEN [uart EXCEPT !.transmit = Append(@, uartMade.firmware + 1)]
       ELSE IF uartPort.kind = "uart" THEN [uart EXCEPT !.txof = TRUE]
       ELSE [uart EXCEPT !.overrun = TRUE])
  /\ uartMade' = [uartMade EXCEPT !.firmware = @ + 1]
  /\ UNCHANGED <<uartPort, uartWire, uartStopped>>

ReadStatus == uartPort.kind = "uart" /\ UartSet([Refreshed(uart) EXCEPT !.statusread = TRUE])

UartClearStatus(overrun, error) ==
  UartSet([uart EXCEPT !.overrun = @ /\ ~overrun, !.error = @ /\ ~error])

(* The FIFOs of the UART: SFIFO gives up only the transmit overflow. *)
ClearOverflow == uartPort.kind = "uart" /\ UartSet([uart EXCEPT !.txof = FALSE])
WriteFifo(on) == uartPort.kind = "uart" /\ UartSet([uart EXCEPT !.fifo = on])
Flush(rx, tx) ==
  /\ uartPort.kind = "uart"
  /\ UartSet([uart EXCEPT !.receive = IF rx THEN <<>> ELSE @,
                          !.transmit = IF tx THEN <<>> ELSE @])

UartGateChanges ==
  /\ uart' = [uart EXCEPT !.gate = ~@]
  /\ UNCHANGED <<uartPort, uartWire, uartMade, uartStopped>>

-----------------------------------------------------------------------------
(* The host *)

PushReceive(error) ==
  /\ uartMade.host < uartPort.host
  /\ uartWire' = [uartWire EXCEPT !.receive = Append(@, [n |-> uartMade.host + 1, error |-> error])]
  /\ uartMade' = [uartMade EXCEPT !.host = @ + 1]
  /\ UNCHANGED <<uart, uartPort, uartStopped>>

PopTransmit ==
  /\ uartWire.transmit # <<>>
  /\ uartWire' = [uartWire EXCEPT !.transmit = Tail(@)]
  /\ UNCHANGED <<uart, uartPort, uartMade, uartStopped>>

UartReset ==
  /\ uart' = UartOff
  /\ uartWire' = UartWires
  /\ uartStopped' = FALSE
  /\ UNCHANGED <<uartPort, uartMade>>

UartNext ==
  \/ \E cycles \in UartSteps : UartAdvance(cycles)
  \/ \E re, te \in BOOLEAN : UartWriteControl(re, te)
  \/ UartReadData
  \/ WriteData
  \/ ReadStatus
  \/ \E overrun, error \in BOOLEAN : UartClearStatus(overrun, error)
  \/ ClearOverflow
  \/ \E on \in BOOLEAN : WriteFifo(on)
  \/ \E rx, tx \in BOOLEAN : Flush(rx, tx)
  \/ UartGateChanges
  \/ \E error \in BOOLEAN : PushReceive(error)
  \/ PopTransmit
  \/ UartReset

-----------------------------------------------------------------------------
(* A frame that comes off the wire is in the FIFO or the overrun is told
   (advance_uart). *)
LossTold ==
  (Len(uartWire'.receive) < Len(uartWire.receive) /\ uart'.gate
    /\ Len(uart'.receive) - Len(uart.receive) < Len(uartWire.receive) - Len(uartWire'.receive))
    => uart'.overrun /\ (uartPort.kind = "uart" => uart'.rxof)

(* Each way, frames keep their order and come once (the FIFOs and the wires). *)
Numbers(frames) == [i \in DOMAIN frames |-> frames[i].n]
Rising(ns) == \A i, j \in DOMAIN ns : i < j /\ ns[i] # 0 /\ ns[j] # 0 => ns[i] < ns[j]

UartInOrder ==
  /\ Rising(Numbers(uart.receive \o uartWire.receive))
  /\ Rising(uartWire.transmit \o uart.transmit)

(* While no direction is stopped with a frame under way, a frame takes its time
   and no other frame is sent than firmware wrote (advance_uart, whose counters
   pass zero otherwise). *)
FramesWhole ==
  ~uartStopped => /\ {uart.rxleft, uart.txleft} \subseteq 0..UartFrame
                  /\ \A i \in DOMAIN uartWire.transmit : uartWire.transmit[i] # 0
=============================================================================
