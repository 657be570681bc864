-------------------------------- MODULE I2c ---------------------------------
(***************************************************************************)
(* An inter-integrated circuit interface (communication/serial): as a master    *)
(* it tells the host of starts, stops and bytes through a queue of events, as a   *)
(* slave it is addressed by the host.  The bytes themselves are left out.            *)
(***************************************************************************)
EXTENDS Naturals

CONSTANTS
  I2cFrame,      \* the cycles a byte takes
  I2cSteps       \* the cycles one advance brings

VARIABLES
  i2c,        \* C1, S and the transfer under way
  i2cBus      \* whether a transaction is open on the bus, as the host was told

i2cVars == <<i2c, i2cBus>>

I2cOff ==
  [gate |-> FALSE, on |-> FALSE, ie |-> FALSE, master |-> FALSE, tx |-> FALSE,
   busy |-> FALSE, flag |-> FALSE, lost |-> FALSE, addressed |-> FALSE, nack |-> FALSE,
   pending |-> FALSE, reading |-> FALSE, left |-> 0, ack |-> TRUE, sends |-> FALSE]

I2cTypeOK ==
  /\ i2c.left \in 0..(I2cFrame - 1)
  /\ i2c.left # 0 => i2c.pending

I2cInit == i2c = I2cOff /\ i2cBus = "idle"

-----------------------------------------------------------------------------
(* An event for the host; EventRing has the queue it waits in. *)
I2cTell(event) ==
  i2cBus' = CASE event = "start" -> "busy" [] event = "stop" -> "idle" [] OTHER -> i2cBus

I2cQuiet == UNCHANGED i2cBus

CancelledPending(t) ==  \* mutant: a stop leaves the byte that is under way
  [t EXCEPT !.left = 0]

Cancelled(t) == [t EXCEPT !.pending = FALSE, !.left = 0]

(* C1: losing the enable closes what is open and clears the status; a rise of
   MST starts, a fall stops. *)
I2cDisable(ie, master, tx) ==
  LET t == [Cancelled(i2c) EXCEPT !.on = FALSE, !.ie = ie, !.master = master, !.tx = tx,
                                  !.busy = FALSE, !.flag = FALSE, !.lost = FALSE,
                                  !.addressed = FALSE, !.nack = FALSE]
  IN  /\ i2c.gate
      /\ i2c' = t
      /\ IF i2c.master \/ i2c.busy THEN I2cTell("stop") ELSE I2cQuiet

I2cControl(ie, master, tx) == [i2c EXCEPT !.on = TRUE, !.ie = ie, !.master = master, !.tx = tx]

I2cStart(ie, tx) ==
  /\ i2c.gate /\ ~i2c.master
  /\ i2c' = [I2cControl(ie, TRUE, tx) EXCEPT !.busy = TRUE]
  /\ I2cTell("start")

I2cStop(ie, tx) ==
  /\ i2c.gate /\ i2c.master
  /\ i2c' = [Cancelled(I2cControl(ie, FALSE, tx)) EXCEPT !.busy = FALSE]
  /\ I2cTell("stop")

I2cKeepRole(ie, tx, restart) ==
  /\ i2c.gate
  /\ i2c' = I2cControl(ie, i2c.master, tx)
  /\ IF restart /\ i2c.master THEN I2cTell("restart") ELSE I2cQuiet

(* D: a byte of a master begins a transfer; reading one begins the next. *)
I2cByte(reading, event) ==
  /\ i2c' = [i2c EXCEPT !.pending = TRUE, !.reading = reading, !.left = 0]
  /\ I2cTell(event)

I2cWriteData == i2c.gate /\ i2c.master /\ i2c.tx /\ I2cByte(FALSE, "write")
I2cReadData == i2c.gate /\ i2c.master /\ ~i2c.tx /\ I2cByte(TRUE, "read")

I2cClearStatus ==
  /\ i2c.gate
  /\ i2c' = [i2c EXCEPT !.flag = FALSE, !.lost = FALSE]
  /\ I2cQuiet

I2cAdvance(cycles) ==
  LET left == IF i2c.left = 0 THEN I2cFrame ELSE i2c.left
  IN  /\ i2c.gate /\ i2c.pending
      /\ i2c' = IF cycles < left THEN [i2c EXCEPT !.left = left - cycles]
                ELSE [Cancelled(i2c) EXCEPT !.flag = TRUE, !.nack = ~i2c.ack]
      /\ I2cQuiet

-----------------------------------------------------------------------------
(* The host *)

I2cSetAcknowledge(ack) == i2c' = [i2c EXCEPT !.ack = ack] /\ I2cQuiet

LoseArbitration ==
  /\ i2c.gate
  /\ i2c' = [Cancelled(i2c) EXCEPT !.flag = TRUE, !.lost = TRUE, !.busy = FALSE, !.master = FALSE]
  /\ i2cBus' = "idle"

SlaveAddress(sends) ==
  /\ i2c.gate /\ i2c.on
  /\ i2c' = [i2c EXCEPT !.addressed = TRUE, !.flag = TRUE, !.sends = sends]
  /\ I2cQuiet

SlaveByte ==
  /\ i2c.addressed /\ ~i2c.sends
  /\ i2c' = [i2c EXCEPT !.flag = TRUE]
  /\ I2cQuiet

I2cGateChanges == i2c' = [i2c EXCEPT !.gate = ~@] /\ I2cQuiet

I2cReset ==
  /\ i2c' = I2cOff
  /\ i2cBus' = "idle"

I2cNext ==
  \/ \E ie, master, tx \in BOOLEAN : I2cDisable(ie, master, tx)
  \/ \E ie, tx \in BOOLEAN : I2cStart(ie, tx) \/ I2cStop(ie, tx)
  \/ \E ie, tx, restart \in BOOLEAN : I2cKeepRole(ie, tx, restart)
  \/ I2cWriteData
  \/ I2cReadData
  \/ I2cClearStatus
  \/ \E cycles \in I2cSteps : I2cAdvance(cycles)
  \/ \E ack \in BOOLEAN : I2cSetAcknowledge(ack)
  \/ LoseArbitration
  \/ \E sends \in BOOLEAN : SlaveAddress(sends)
  \/ SlaveByte
  \/ I2cGateChanges
  \/ I2cReset

-----------------------------------------------------------------------------
(* The bus is busy exactly while a start was told to the host that no stop
   followed and no arbitration was lost (write_i2c, i2c_stop). *)
I2cBusyTold == i2c.busy = (i2cBus = "busy")

(* A byte is under way only for a master: a stop, a loss of arbitration or of the
   enable that comes before its last cycle takes it back (i2c_stop, advance_i2c). *)
I2cNoByteAfterStop == i2c.pending => i2c.master
=============================================================================
