-------------------------------- MODULE Pdb ---------------------------------
(***************************************************************************)
(* The programmable delay block (timing/counters.c, timing/registers.c): one  *)
(* counter whose passing of a delay pretriggers an ADC, of an interval the      *)
(* DACs, of IDLY the interrupt.  A block that is not continuous stops when the   *)
(* counter wraps.                                                                *)
(***************************************************************************)
EXTENDS Naturals

CONSTANTS
  PdbModuli,    \* values software writes to MOD
  PdbDelays,    \* values software writes to IDLY, the delays and the intervals
  PdbSteps      \* the ticks one advance brings

VARIABLES
  pdb,          \* SC, MOD, IDLY and the counter
  pdbOutput,    \* pdbOutput[output]: its enable, its delay, its status flag
  pdbLine       \* the interrupt line

pdbVars == <<pdb, pdbOutput, pdbLine>>

(* One ADC pretrigger and one DAC interval stand for the four and the two. *)
PdbOutputs == {"adc", "dac"}

PdbMaxModulus == CHOOSE m \in PdbModuli : \A n \in PdbModuli : n <= m

PdbReset0 ==
  [on |-> FALSE, continuous |-> FALSE, ie |-> FALSE, flag |-> FALSE, gate |-> FALSE,
   modulo |-> PdbMaxModulus, idly |-> PdbMaxModulus, counter |-> 0]

PdbTypeOK ==
  /\ pdb.counter \in 0..PdbMaxModulus
  /\ pdb.modulo \in PdbModuli
  /\ {pdb.on, pdb.continuous, pdb.ie, pdb.flag, pdb.gate, pdbLine} \subseteq BOOLEAN
  /\ pdbOutput \in [PdbOutputs -> [on : BOOLEAN, delay : PdbDelays \cup {0}, status : BOOLEAN]]

PdbInit ==
  /\ pdb = PdbReset0
  /\ pdbOutput = [o \in PdbOutputs |-> [on |-> FALSE, delay |-> 0, status |-> FALSE]]
  /\ pdbLine = FALSE

-----------------------------------------------------------------------------
(* Time *)

Period(p) == p.modulo + 1

(* counter_reached: a batch of a period or more passes every value. The second
   difference is unsigned: from a counter beyond the modulus it may wrap, and
   then it is never reached. *)
PassesBeyond(p, ticks, target) ==  \* mutant: a batch that ends on the value misses it
  \/ ticks >= Period(p)
  \/ target > p.counter /\ ticks > target - p.counter
  \/ target <= p.counter /\ ticks > Period(p) - (p.counter - target)

PassesTarget(p, ticks, target) ==
  LET start == p.counter
  IN  \/ ticks >= Period(p)
      \/ target > start /\ ticks >= target - start
      \/ target <= start /\ start - target <= Period(p) /\ ticks >= Period(p) - (start - target)

Delayed(p, ticks) == p.idly <= p.modulo /\ PassesTarget(p, ticks, p.idly)

(* The outputs that trigger. A DAC interval above the modulus is never passed; an ADC delay may be. *)
Sent(p, outputs, ticks) ==
  {o \in PdbOutputs :
     /\ outputs[o].on
     /\ PassesTarget(p, ticks, outputs[o].delay)
     /\ o = "dac" => outputs[o].delay <= p.modulo}

PdbElapsed(p, ticks) ==
  [p EXCEPT !.counter = (@ + ticks) % Period(p),
            !.flag = @ \/ Delayed(p, ticks),
            !.on = @ /\ (p.continuous \/ p.counter + ticks < Period(p))]

PdbAdvance(ticks) ==
  /\ pdb.gate /\ pdb.on
  /\ pdb' = PdbElapsed(pdb, ticks)
  /\ pdbOutput' = [o \in PdbOutputs |->
                     [pdbOutput[o] EXCEPT !.status = @ \/ (o = "adc" /\ o \in Sent(pdb, pdbOutput, ticks))]]
  /\ pdbLine' = (pdbLine \/ (Delayed(pdb, ticks) /\ pdb.ie))

-----------------------------------------------------------------------------
(* Registers *)

(* SC: the flag is cleared by writing it as zero, with the line; a software
   trigger starts the counter again. *)
PdbLineLeft(clear) == pdbLine  \* mutant: clearing the flag leaves the line up

PdbLineCleared(clear) == pdbLine /\ ~clear

PdbWriteSc(on, continuous, ie, clear, trigger) ==
  /\ pdb.gate
  /\ pdb' = [pdb EXCEPT !.on = on, !.continuous = continuous, !.ie = ie,
                        !.flag = @ /\ ~clear, !.counter = IF trigger THEN 0 ELSE @]
  /\ pdbLine' = PdbLineCleared(clear)
  /\ UNCHANGED pdbOutput

PdbWriteMod(modulo) ==
  /\ pdb.gate
  /\ pdb' = [pdb EXCEPT !.modulo = modulo]
  /\ UNCHANGED <<pdbOutput, pdbLine>>

WriteIdly(delay) ==
  /\ pdb.gate
  /\ pdb' = [pdb EXCEPT !.idly = delay]
  /\ UNCHANGED <<pdbOutput, pdbLine>>

WriteOutput(o, on, delay) ==
  /\ pdb.gate
  /\ pdbOutput' = [pdbOutput EXCEPT ![o].on = on, ![o].delay = delay]
  /\ UNCHANGED <<pdb, pdbLine>>

PdbClearStatus(o) ==
  /\ pdb.gate
  /\ pdbOutput' = [pdbOutput EXCEPT ![o].status = FALSE]
  /\ UNCHANGED <<pdb, pdbLine>>

PdbGateChanges ==
  /\ pdb' = [pdb EXCEPT !.gate = ~@]
  /\ UNCHANGED <<pdbOutput, pdbLine>>

PdbReset ==
  /\ pdb' = PdbReset0
  /\ pdbOutput' = [o \in PdbOutputs |-> [on |-> FALSE, delay |-> 0, status |-> FALSE]]
  /\ pdbLine' = FALSE

PdbNext ==
  \/ \E ticks \in PdbSteps : PdbAdvance(ticks)
  \/ \E on, continuous, ie, clear, trigger \in BOOLEAN :
       PdbWriteSc(on, continuous, ie, clear, trigger)
  \/ \E modulo \in PdbModuli : PdbWriteMod(modulo)
  \/ \E delay \in PdbDelays : WriteIdly(delay)
  \/ \E o \in PdbOutputs, on \in BOOLEAN, delay \in PdbDelays : WriteOutput(o, on, delay)
  \/ \E o \in PdbOutputs : PdbClearStatus(o)
  \/ PdbGateChanges
  \/ PdbReset

-----------------------------------------------------------------------------
(* In a continuous block whose counter is within its modulus, how time is cut
   into batches shows neither in the counter nor in what a delay within the
   modulus triggers (counter_reached, k22_timing_internal_advance_pdb). *)
PdbSplits ==
  pdb.continuous /\ pdb.counter <= pdb.modulo =>
    \A a, b \in PdbSteps :
      LET first == PdbElapsed(pdb, a)
          inside == [o \in PdbOutputs |->
                       [pdbOutput[o] EXCEPT !.on = @ /\ pdbOutput[o].delay <= pdb.modulo]]
      IN  /\ PdbElapsed(first, b) = PdbElapsed(pdb, a + b)
          /\ Sent(pdb, inside, a) \cup Sent(first, inside, b) = Sent(pdb, inside, a + b)

(* The interrupt is never left up without its flag: clearing the flag always drops
   the line (k22_timing_internal_advance_pdb, the PDB_SC write). *)
PdbLineHasFlag == pdbLine => pdb.flag
=============================================================================
