-------------------------------- MODULE I2s --------------------------------
(* The two FIFOs of the I2S interface: read_i2s, write_i2s and
   k22_io_internal_update_i2s_requests in gpio/peripherals.c, the host's side and
   the interrupts in gpio/api.c. Both data channels share one FIFO each way.
   Samples are numbered in the order firmware (or the host) made them. *)
EXTENDS Naturals, Sequences, FiniteSets

CONSTANTS
  I2sDepth,     \* K22_IO_FIFO_CAPACITY
  I2sSamples    \* bound: samples each way

VARIABLES
  i2sOut,       \* transmit side: its FIFO and control register
  i2sIn,        \* receive side
  i2sWire       \* samples made each way, taken by the other end, lost on the way

i2sVars == <<i2sOut, i2sIn, i2sWire>>

Side0 == [fifo |-> <<>>, on |-> FALSE, request |-> FALSE, error |-> FALSE,
          requestIe |-> FALSE, errorIe |-> FALSE]

I2sTypeOK ==
  /\ \A s \in {i2sOut, i2sIn} :
       /\ s.fifo \in Seq(1 .. I2sSamples) /\ Len(s.fifo) <= I2sDepth
       /\ {s.on, s.request, s.error, s.requestIe, s.errorIe} \subseteq BOOLEAN
  /\ i2sWire.made \in 0 .. I2sSamples /\ i2sWire.came \in 0 .. I2sSamples

I2sInit ==
  /\ i2sOut = Side0 /\ i2sIn = Side0
  /\ i2sWire = [made |-> 0, came |-> 0, taken |-> <<>>, read |-> <<>>,
                lost |-> {}, cleared |-> {}, gone |-> {}]

-----------------------------------------------------------------------------
(* The FIFOs and the request flags, which follow both FIFOs after every operation
   that changes either, and after every write to a control register *)

HasRoom(s) == Len(s.fifo) < I2sDepth

RequestKept(s, request) == [s EXCEPT !.request = @ \/ request]  \* mutant: never withdrawn

Requests(s, request) == [s EXCEPT !.request = request]

I2sRequested(out, in) ==
  /\ i2sOut' = Requests(out, HasRoom(out))
  /\ i2sIn' = Requests(in, in.fifo # <<>>)

(* TDR: a sample that finds the FIFO full is lost, and the error flag says so. *)
Transmit ==
  /\ i2sWire.made < I2sSamples   \* bound
  /\ LET n == i2sWire.made + 1
     IN  IF HasRoom(i2sOut)
         THEN /\ I2sRequested([i2sOut EXCEPT !.fifo = Append(@, n)], i2sIn)
              /\ i2sWire' = [i2sWire EXCEPT !.made = n]
         ELSE /\ i2sOut' = [i2sOut EXCEPT !.error = TRUE]
              /\ i2sWire' = [i2sWire EXCEPT !.made = n, !.lost = @ \cup {n}]
              /\ UNCHANGED i2sIn

(* RDR: reading an empty FIFO returns zero and sets the error flag. *)
ReadSample ==
  /\ IF i2sIn.fifo = <<>>
     THEN /\ I2sRequested(i2sOut, [i2sIn EXCEPT !.error = TRUE])
          /\ UNCHANGED i2sWire
     ELSE /\ I2sRequested(i2sOut, [i2sIn EXCEPT !.fifo = Tail(@)])
          /\ i2sWire' = [i2sWire EXCEPT !.read = Append(@, Head(i2sIn.fifo))]

(* The flags of a control register are cleared by writing ones; a write with the
   enable bit clear empties the FIFO. *)
FifoKept(s, on) == s.fifo  \* mutant: disabling leaves the samples

FifoLeft(s, on) == IF on THEN s.fifo ELSE <<>>

Controlled(s, on, requestIe, errorIe, clear) ==
  [s EXCEPT !.on = on, !.requestIe = requestIe, !.errorIe = errorIe,
            !.error = @ /\ ~clear, !.fifo = FifoLeft(s, on)]

Dropped(s, on) == {s.fifo[i] : i \in {k \in DOMAIN s.fifo : ~on}}

WriteTcsr(on, requestIe, errorIe, clear) ==
  /\ I2sRequested(Controlled(i2sOut, on, requestIe, errorIe, clear), i2sIn)
  /\ i2sWire' = [i2sWire EXCEPT !.cleared = @ \cup Dropped(i2sOut, on)]

WriteRcsr(on, requestIe, errorIe, clear) ==
  /\ I2sRequested(i2sOut, Controlled(i2sIn, on, requestIe, errorIe, clear))
  /\ i2sWire' = [i2sWire EXCEPT !.gone = @ \cup Dropped(i2sIn, on)]

(* The host takes the oldest sample, whether or not the transmitter is enabled. *)
HostTakes ==
  /\ i2sOut.fifo # <<>>
  /\ I2sRequested([i2sOut EXCEPT !.fifo = Tail(@)], i2sIn)
  /\ i2sWire' = [i2sWire EXCEPT !.taken = Append(@, Head(i2sOut.fifo))]

(* It gives one to a receiver that is enabled and has room, and is told otherwise. *)
HostGives ==
  /\ i2sIn.on /\ HasRoom(i2sIn)
  /\ i2sWire.came < I2sSamples   \* bound
  /\ I2sRequested(i2sOut, [i2sIn EXCEPT !.fifo = Append(@, i2sWire.came + 1)])
  /\ i2sWire' = [i2sWire EXCEPT !.came = @ + 1]

I2sNext ==
  \/ Transmit
  \/ ReadSample
  \/ \E on, requestIe, errorIe, clear \in BOOLEAN : WriteTcsr(on, requestIe, errorIe, clear)
  \/ \E on, requestIe, errorIe, clear \in BOOLEAN : WriteRcsr(on, requestIe, errorIe, clear)
  \/ HostTakes
  \/ HostGives

-----------------------------------------------------------------------------
(* Properties *)

I2sRising(s) == \A i \in 1 .. Len(s) - 1 : s[i] < s[i + 1]
ValuesOf(s) == {s[i] : i \in DOMAIN s}

(* No sample is doubled, reordered or lost in silence, whatever the two ends and
   the control registers do between: each one firmware wrote is taken by the host
   in order, waits in the FIFO behind those, was refused with the error flag, or
   was cleared by disabling the transmitter; and so for the receiver
   (k22_io_internal_fifo_push and _pop, write_i2s). *)
SamplesInOrder ==
  /\ I2sRising(i2sWire.taken \o i2sOut.fifo)
  /\ ValuesOf(i2sWire.taken \o i2sOut.fifo) =
       (1 .. i2sWire.made) \ (i2sWire.lost \cup i2sWire.cleared)
  /\ I2sRising(i2sWire.read \o i2sIn.fifo)
  /\ ValuesOf(i2sWire.read \o i2sIn.fifo) = (1 .. i2sWire.came) \ i2sWire.gone

(* The request flags are true whenever a side is enabled: a DMA channel or a
   handler that waits for one is never left waiting with room in the FIFO or a
   sample in it, nor called without (k22_io_internal_update_i2s_requests). *)
RequestsTrue ==
  /\ i2sOut.request => HasRoom(i2sOut)
  /\ i2sOut.on => i2sOut.request = HasRoom(i2sOut)
  /\ i2sIn.request = (i2sIn.fifo # <<>>)
=============================================================================
