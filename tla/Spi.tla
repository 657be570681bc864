-------------------------------- MODULE Spi ---------------------------------
(***************************************************************************)
(* A serial peripheral interface (communication/serial): every frame that      *)
(* leaves the transmit FIFO brings one into the receive FIFO.  A frame is a       *)
(* number, in the order of its making; 0 is what an idle wire brings.               *)
(***************************************************************************)
EXTENDS Naturals, Sequences

CONSTANTS
  SpiDepth,    \* the depth of the FIFOs
  SpiFrames,   \* frames firmware pushes, and the host
  SpiFrame,    \* the cycles a frame takes
  SpiSteps     \* the cycles one advance brings

VARIABLES
  spi,       \* MCR, SR, TCR and the FIFOs
  spiWire,   \* frames of the host that wait, and those it can pop
  spiMade    \* frames made so far, [host, firmware]

spiVars == <<spi, spiWire, spiMade>>

SpiOff ==
  [gate |-> FALSE, halted |-> TRUE, receive |-> <<>>, transmit |-> <<>>, left |-> 0,
   tcf |-> FALSE, eoqf |-> FALSE, underflow |-> FALSE, overflow |-> FALSE, count |-> 0]

SpiWires == [receive |-> <<>>, transmit |-> <<>>]

SpiTypeOK ==
  /\ Len(spi.receive) <= SpiDepth /\ Len(spi.transmit) <= SpiDepth
  /\ spi.left \in 0..(SpiFrame - 1)
  /\ spi.count \in Nat

SpiInit == spi = SpiOff /\ spiWire = SpiWires /\ spiMade = [host |-> 0, firmware |-> 0]

-----------------------------------------------------------------------------
SpiMovedDropping(s) ==  \* mutant: a full receive FIFO stays silent
  LET frame == Head(s.p.transmit)
      in == IF s.wire.receive = <<>> THEN 0 ELSE Head(s.wire.receive)
      full == Len(s.p.receive) >= SpiDepth
  IN  [p |-> [s.p EXCEPT !.transmit = Tail(@), !.receive = IF full THEN @ ELSE Append(@, in),
                         !.tcf = TRUE, !.count = @ + 1, !.eoqf = @ \/ frame.last, !.left = 0],
       wire |-> [receive |-> IF in = 0 THEN <<>> ELSE Tail(s.wire.receive),
                 transmit |-> Append(s.wire.transmit, frame.n)]]

SpiMovedTwice(s) ==  \* mutant: the frame of the host stays on the wire
  LET frame == Head(s.p.transmit)
      in == IF s.wire.receive = <<>> THEN 0 ELSE Head(s.wire.receive)
      full == Len(s.p.receive) >= SpiDepth
  IN  [p |-> [s.p EXCEPT !.transmit = Tail(@), !.receive = IF full THEN @ ELSE Append(@, in),
                         !.overflow = @ \/ full,
                         !.tcf = TRUE, !.count = @ + 1, !.eoqf = @ \/ frame.last, !.left = 0],
       wire |-> [s.wire EXCEPT !.transmit = Append(@, frame.n)]]

(* A frame goes out and one comes in. *)
SpiMoved(s) ==
  LET frame == Head(s.p.transmit)
      in == IF s.wire.receive = <<>> THEN 0 ELSE Head(s.wire.receive)
      full == Len(s.p.receive) >= SpiDepth
  IN  [p |-> [s.p EXCEPT !.transmit = Tail(@), !.receive = IF full THEN @ ELSE Append(@, in),
                         !.overflow = @ \/ full,
                         !.tcf = TRUE, !.count = @ + 1, !.eoqf = @ \/ frame.last, !.left = 0],
       wire |-> [receive |-> IF in = 0 THEN <<>> ELSE Tail(s.wire.receive),
                 transmit |-> Append(s.wire.transmit, frame.n)]]

RECURSIVE SpiRun(_, _)
SpiRun(s, cycles) ==
  LET left == IF s.p.left = 0 THEN SpiFrame ELSE s.p.left
  IN  IF cycles = 0 \/ ~s.p.gate \/ s.p.halted \/ s.p.transmit = <<>> THEN s
      ELSE IF cycles < left THEN [s EXCEPT !.p.left = left - cycles]
      ELSE SpiRun(SpiMoved(s), cycles - left)

SpiAdvance(cycles) ==
  LET s == SpiRun([p |-> spi, wire |-> spiWire], cycles)
  IN  /\ spi' = s.p
      /\ spiWire' = s.wire
      /\ UNCHANGED spiMade

SpiSet(p) == spi.gate /\ spi' = p /\ UNCHANGED <<spiWire, spiMade>>

(* MCR flushes either FIFO; the frame that is under way keeps its cycles. *)
WriteMcr(halted, rx, tx) ==
  SpiSet([spi EXCEPT !.halted = halted, !.receive = IF rx THEN <<>> ELSE @,
                     !.transmit = IF tx THEN <<>> ELSE @])

WriteSr == SpiSet([spi EXCEPT !.tcf = FALSE, !.eoqf = FALSE, !.underflow = FALSE, !.overflow = FALSE])

WritePushr(last) ==
  /\ spiMade.firmware < SpiFrames
  /\ spi.gate
  /\ spi' = IF Len(spi.transmit) < SpiDepth
              THEN [spi EXCEPT !.transmit = Append(@, [n |-> spiMade.firmware + 1, last |-> last])]
              ELSE [spi EXCEPT !.underflow = TRUE]
  /\ spiMade' = [spiMade EXCEPT !.firmware = @ + 1]
  /\ UNCHANGED spiWire

(* An empty receive FIFO gives the last frame again, and says so. *)
ReadPopr ==
  SpiSet(IF spi.receive = <<>> THEN [spi EXCEPT !.overflow = TRUE]
         ELSE [spi EXCEPT !.receive = Tail(@)])

SpiPushReceive ==
  /\ spiMade.host < SpiFrames
  /\ spiWire' = [spiWire EXCEPT !.receive = Append(@, spiMade.host + 1)]
  /\ spiMade' = [spiMade EXCEPT !.host = @ + 1]
  /\ UNCHANGED spi

SpiPopTransfer ==
  /\ spiWire.transmit # <<>>
  /\ spiWire' = [spiWire EXCEPT !.transmit = Tail(@)]
  /\ UNCHANGED <<spi, spiMade>>

SpiGateChanges == spi' = [spi EXCEPT !.gate = ~@] /\ UNCHANGED <<spiWire, spiMade>>
SpiReset == spi' = SpiOff /\ spiWire' = SpiWires /\ UNCHANGED spiMade

SpiNext ==
  \/ \E cycles \in SpiSteps : SpiAdvance(cycles)
  \/ \E halted, rx, tx \in BOOLEAN : WriteMcr(halted, rx, tx)
  \/ WriteSr
  \/ \E last \in BOOLEAN : WritePushr(last)
  \/ ReadPopr
  \/ SpiPushReceive
  \/ SpiPopTransfer
  \/ SpiGateChanges
  \/ SpiReset

-----------------------------------------------------------------------------
(* Every frame that goes out brings one in, of the host or of an idle wire, or
   the overflow is told (advance_spi). *)
SpiFrameForFrame ==
  Len(spiWire'.transmit) > Len(spiWire.transmit)
    => \/ Len(spi'.receive) - Len(spi.receive) = Len(spiWire'.transmit) - Len(spiWire.transmit)
       \/ spi'.overflow /\ Len(spi'.receive) = SpiDepth

(* Frames keep their order each way, and those that go out are counted
   (the FIFOs, TCR). *)
SpiRising(ns) == \A i, j \in DOMAIN ns : i < j /\ ns[i] # 0 /\ ns[j] # 0 => ns[i] < ns[j]

SpiInOrder ==
  /\ SpiRising(spi.receive \o spiWire.receive)
  /\ SpiRising(spiWire.transmit \o [i \in DOMAIN spi.transmit |-> spi.transmit[i].n])
  /\ spi.count >= Len(spiWire.transmit)
=============================================================================
