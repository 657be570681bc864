------------------------------- MODULE Lptmr --------------------------------
(***************************************************************************)
(* The low-power timer (timing/counters.c, timing/registers.c): a counter    *)
(* of clock ticks, or of the edges of an input pin, taken as they come or      *)
(* through a glitch filter.                                                    *)
(***************************************************************************)
EXTENDS Naturals

CONSTANTS
  LptmrWidth,      \* the values of the 16-bit counter, 65536
  LptmrCompares,   \* values software writes to CMR
  LptmrPrescales,  \* values of the PRESCALE field
  LptmrInputs,     \* the inputs the host drives
  LptmrSteps       \* the ticks one advance brings

ASSUME LptmrAssumption ==
  /\ LptmrWidth \in Nat \ {0} /\ LptmrCompares \subseteq 0..(LptmrWidth - 1)
  /\ LptmrSteps \subseteq Nat /\ LptmrPrescales \subseteq Nat

VARIABLES
  lptmr,       \* CSR, PSR, CMR, the counter, its latched copy and the filter
  lptmrInput,  \* the level of each input
  lptmrGate,   \* the clock gate in SIM
  lptmrLine    \* the interrupt line, as the core holds it

lptmrVars == <<lptmr, lptmrInput, lptmrGate, lptmrLine>>

LptmrOff ==
  [on |-> FALSE, pulse |-> FALSE, free |-> FALSE, low |-> FALSE, input |-> 0, ie |-> FALSE,
   flag |-> FALSE, bypass |-> FALSE, prescale |-> 0, compare |-> 0, counter |-> 0,
   latched |-> 0, observed |-> FALSE, filter |-> 0]

LptmrTypeOK ==
  /\ {lptmr.counter, lptmr.latched, lptmr.compare} \subseteq 0..(LptmrWidth - 1)
  /\ lptmr.filter \in 0..(2 ^ lptmr.prescale)
  /\ {lptmr.on, lptmr.pulse, lptmr.free, lptmr.low, lptmr.ie, lptmr.flag, lptmr.bypass,
      lptmr.observed, lptmrGate, lptmrLine} \subseteq BOOLEAN
  /\ lptmrInput \in [LptmrInputs -> BOOLEAN]

LptmrInit ==
  /\ lptmr = LptmrOff
  /\ lptmrInput = [i \in LptmrInputs |-> FALSE]
  /\ lptmrGate = FALSE
  /\ lptmrLine = FALSE

LptmrWants(t) == t.flag /\ t.ie

-----------------------------------------------------------------------------
(* Counting *)

SelectedActive(t, inputs) == t.input \in LptmrInputs /\ inputs[t.input] # t.low

(* The ticks after which the flag is set: at the compare value the counter goes
   back to zero, or runs on when it is free. *)
ReachedExactly(t, ticks) ==  \* mutant: a batch that goes past the value misses it
  t.counter + ticks = t.compare + 1

Reached(t, ticks) ==
  IF t.free THEN ticks >= ((LptmrWidth + t.compare - t.counter) % LptmrWidth) + 1
  ELSE t.counter + ticks >= t.compare + 1

Expires(t, ticks) == ticks > 0 /\ Reached(t, ticks)

IncrementedOn(t, ticks) ==  \* mutant: a batch past the value is not brought back
  IF ticks = 0 THEN t
  ELSE [t EXCEPT !.counter = IF ~t.free /\ @ = t.compare THEN 0 ELSE @ + ticks,
                 !.flag = @ \/ Expires(t, ticks)]

Incremented(t, ticks) ==
  IF ticks = 0 THEN t
  ELSE [t EXCEPT !.counter = (@ + ticks) % (IF t.free THEN LptmrWidth ELSE t.compare + 1),
                 !.flag = @ \/ Expires(t, ticks)]

(* The filter lets a level through that was sampled 2^prescale times; without a
   prescale it does not sample. *)
Passes(t, active, ticks) ==
  t.prescale > 0 /\ active # t.observed /\ t.filter + ticks >= 2 ^ t.prescale

Sampled(t, active, ticks) ==
  IF t.prescale = 0 THEN t
  ELSE IF Passes(t, active, ticks) THEN [t EXCEPT !.filter = 0, !.observed = active]
  ELSE [t EXCEPT !.filter = IF active = t.observed THEN 0 ELSE @ + ticks]

(* What a batch of ticks counts, and where it leaves the timer. *)
Counts(t, active, ticks) ==
  IF ~t.pulse THEN ticks
  ELSE IF ~t.bypass /\ active /\ Passes(t, active, ticks) THEN 1
  ELSE 0

LptmrElapsed(t, active, ticks) ==
  Incremented(IF t.pulse /\ ~t.bypass THEN Sampled(t, active, ticks) ELSE t,
              Counts(t, active, ticks))

LptmrRunning == lptmrGate /\ lptmr.on

LptmrAdvance(ticks) ==
  LET active == SelectedActive(lptmr, lptmrInput)
  IN  /\ LptmrRunning
      /\ lptmr' = LptmrElapsed(lptmr, active, ticks)
      /\ lptmrLine' = (lptmrLine \/ (lptmr.ie /\ Expires(lptmr, Counts(lptmr, active, ticks))))
      /\ UNCHANGED <<lptmrInput, lptmrGate>>

(* An edge of the selected input, when the filter is bypassed. *)
LptmrSetInput(i, high) ==
  LET inputs == [lptmrInput EXCEPT ![i] = high]
      active == SelectedActive(lptmr, inputs)
      counted == LptmrRunning /\ lptmr.pulse /\ lptmr.bypass /\ lptmr.input = i
                   /\ active # lptmr.observed
      edge == IF counted /\ active THEN 1 ELSE 0
  IN  /\ lptmrInput' = inputs
      /\ lptmr' = Incremented([lptmr EXCEPT !.observed = IF counted THEN active ELSE @], edge)
      /\ lptmrLine' = (lptmrLine \/ (lptmr.ie /\ Expires(lptmr, edge)))
      /\ UNCHANGED lptmrGate

-----------------------------------------------------------------------------
(* Registers *)

Stilled(t) == [t EXCEPT !.flag = FALSE, !.counter = 0, !.latched = 0, !.filter = 0]

Started(t) ==
  [t EXCEPT !.observed = SelectedActive(t, lptmrInput), !.filter = 0]

LptmrSet(t) ==
  /\ lptmr' = t
  /\ lptmrLine' = LptmrWants(t)
  /\ UNCHANGED <<lptmrInput, lptmrGate>>

(* CSR of a timer that is off takes everything but the flag. *)
WriteCsrOff(on, pulse, free, low, input, ie) ==
  LET t == [lptmr EXCEPT !.on = on, !.pulse = pulse, !.free = free, !.low = low,
                         !.input = input, !.ie = ie]
  IN  /\ lptmrGate /\ ~lptmr.on
      /\ LptmrSet(IF on THEN Started(t) ELSE Stilled(t))

(* CSR of one that runs takes the enables, and clears the flag it was written. *)
WriteCsrOn(on, ie, clear) ==
  LET t == [lptmr EXCEPT !.on = on, !.ie = ie, !.flag = @ /\ ~clear]
  IN  /\ lptmrGate /\ lptmr.on
      /\ LptmrSet(IF on THEN t ELSE Stilled(t))

WritePsr(bypass, prescale) ==
  /\ lptmrGate /\ ~lptmr.on
  /\ lptmr' = [lptmr EXCEPT !.bypass = bypass, !.prescale = prescale]
  /\ UNCHANGED <<lptmrInput, lptmrGate, lptmrLine>>

CompareWritable == ~lptmr.on \/ lptmr.flag

WriteCmr(compare) ==
  /\ lptmrGate /\ CompareWritable
  /\ lptmr' = [lptmr EXCEPT !.compare = compare]
  /\ UNCHANGED <<lptmrInput, lptmrGate, lptmrLine>>

(* Any write of CNR latches the counter for the reads that follow. *)
WriteCnr ==
  /\ lptmrGate
  /\ lptmr' = [lptmr EXCEPT !.latched = lptmr.counter]
  /\ UNCHANGED <<lptmrInput, lptmrGate, lptmrLine>>

LptmrGateChanges ==
  /\ lptmrGate' = ~lptmrGate
  /\ UNCHANGED <<lptmr, lptmrInput, lptmrLine>>

(* A reset gates the clock. The timer survives a reset whose cause is not one of
   those that clear it; the core's reset, which comes after, drops the line. *)
LptmrReset(retained) ==
  /\ lptmr' = IF retained THEN lptmr ELSE LptmrOff
  /\ lptmrInput' = IF retained THEN lptmrInput ELSE [i \in LptmrInputs |-> FALSE]
  /\ lptmrGate' = FALSE
  /\ lptmrLine' = FALSE

LptmrNext ==
  \/ \E ticks \in LptmrSteps : LptmrAdvance(ticks)
  \/ \E i \in LptmrInputs, high \in BOOLEAN : LptmrSetInput(i, high)
  \/ \E on, pulse, free, low, ie \in BOOLEAN, input \in LptmrInputs :
       WriteCsrOff(on, pulse, free, low, input, ie)
  \/ \E on, ie, clear \in BOOLEAN : WriteCsrOn(on, ie, clear)
  \/ \E bypass \in BOOLEAN, prescale \in LptmrPrescales : WritePsr(bypass, prescale)
  \/ \E compare \in LptmrCompares : WriteCmr(compare)
  \/ WriteCnr
  \/ LptmrGateChanges
  \/ \E retained \in BOOLEAN : LptmrReset(retained)

LptmrSpec == LptmrInit /\ [][LptmrNext]_lptmrVars

-----------------------------------------------------------------------------
(* How time is cut into batches does not show: counter, flag and filter are those
   of one batch of the sum (increment_lptmr, sample_lptmr_filter). *)
LptmrSplits ==
  \A a, b \in LptmrSteps, active \in BOOLEAN :
    LptmrElapsed(LptmrElapsed(lptmr, active, a), active, b)
      = LptmrElapsed(lptmr, active, a + b)

(* A timer that was not told to stop sets its flag at its compare value: it never
   counts past it in silence, though firmware may write any register while it runs
   (lptmr_csr, lptmr_cmr in write_timed_register, increment_lptmr). *)
NeverPastInSilence ==
  ~lptmr.free /\ lptmr.on /\ lptmr'.on /\ lptmr'.counter < lptmr.counter
    => lptmr'.flag

(* The line is what the flag and the enable ask for; only a reset of the core
   leaves the two apart, with a request that was retained
   (k22_timing_warm_reset, then cortex_m4_reset). *)
LptmrLineKept ==
  lptmrLine = LptmrWants(lptmr) =>
    \/ lptmrLine' = LptmrWants(lptmr')
    \/ ~lptmrLine' /\ ~lptmrGate' /\ lptmr' = lptmr

(* The compare of the low-power timer is flagged when the counter passes it and never
   stepped over, its line stays up until the handler acts, and how time is cut into
   batches does not show (timing/counters.c, timing/registers.c). *)
LptmrHonest ==
  /\ [](LptmrRunning => LptmrSplits)
  /\ [][NeverPastInSilence /\ LptmrLineKept]_lptmrVars
=============================================================================
