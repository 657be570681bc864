------------------------------- MODULE Analog -------------------------------
(* The analog peripherals, device/kinetis_k22/memory/analog.c and runtime.c: the
   digital-to-analog converter, the comparator, the voltage reference and the
   analog-to-digital converter. The four share no state.

   The converter to digital has two result slots, is started by a write to a
   slot's SC1 or by a pretrigger of the PDB, and is advanced by k22_data_advance.
   A conversion takes AdcCycles cycles: how the configuration registers make the
   number is left out, as is the masking of a result to the mode's bits. *)
EXTENDS Integers

CONSTANTS
  DacLast,       \* last word of the buffer (15)
  DacValues,     \* values of a word
  CmpInputs,     \* the inputs of the comparator; 7 is the one its own DAC may replace
  CmpLevels,     \* levels of an input
  VrefCycles,    \* cycles until the reference is stable (100)
  VrefSteps      \* cycles that pass in one step

ASSUME AnalogAssumption ==
  /\ DacLast \in Nat /\ 0 \in DacValues
  /\ 0 \in CmpInputs /\ CmpLevels \subseteq Nat /\ 0 \in CmpLevels
  /\ VrefCycles \in Nat /\ VrefSteps \subseteq Nat

VARIABLES
  dac,           \* C0, C1, C2, SR and the output
  dacWord,       \* the buffer
  dacLine,
  dacPlayed,     \* the words output since the pointer last came round, if it did
  cmp,           \* CR1, SCR, MUXCR and DACCR
  cmpInput,      \* the levels the host drives
  cmpLine,
  vref,          \* SC and vref_cycles
  vrefWaited     \* cycles passed since the last write

dacVars == <<dac, dacWord, dacLine, dacPlayed>>
cmpVars == <<cmp, cmpInput, cmpLine>>
vrefVars == <<vref, vrefWaited>>

-----------------------------------------------------------------------------
(* The DAC *)

DacPointers == 0 .. DacLast
DacFlags == {"bottom", "top", "watermark"}
Dac0 == [on |-> FALSE, enables |-> {}, buffered |-> FALSE, down |-> FALSE,
         pointer |-> 0, upper |-> DacLast, flags |-> {"top"}, output |-> 0]
NotPlayed == [whole |-> FALSE, words |-> {}]

DacInit ==
  /\ dac = Dac0
  /\ dacWord \in [DacPointers -> {0}]
  /\ dacLine = FALSE
  /\ dacPlayed = NotPlayed

(* dac_update_output *)
OutputOf(d, words) == IF d.on THEN words[d.pointer] ELSE 0
Updated(d, words) == [d EXCEPT !.output = OutputOf(d, words)]

(* A register other than SR is written. *)
DacWrites(d, words) ==
  /\ dac' = Updated(d, words)
  /\ dacWord' = words
  /\ dacPlayed' = IF words = dacWord THEN NotPlayed ELSE dacPlayed
  /\ UNCHANGED dacLine

DacWriteWord(p, value) == DacWrites(dac, [dacWord EXCEPT ![p] = value])
DacWriteC0(on, enables) == DacWrites([dac EXCEPT !.on = on, !.enables = enables], dacWord)
DacWriteC1(buffered, down) == DacWrites([dac EXCEPT !.buffered = buffered, !.down = down], dacWord)
DacWriteC2(pointer, upper) == DacWrites([dac EXCEPT !.pointer = pointer, !.upper = upper], dacWord)

(* SR: written ones clear their flags, and any write drops the line. *)
DacLineAfterClear == FALSE

DacWriteSr(cleared) ==
  /\ dac' = [dac EXCEPT !.flags = @ \ cleared]
  /\ dacLine' = DacLineAfterClear
  /\ UNCHANGED <<dacWord, dacPlayed>>

(* k22_data_dac_trigger: the pointer moves on, or back; the flags of the places it
   comes to. *)
Moved(d) ==
  IF d.down THEN [pointer |-> IF d.pointer = 0 THEN d.upper ELSE d.pointer - 1,
                  flags |-> IF d.pointer = 0 THEN {"top"} ELSE {}]
  ELSE LET next == d.pointer + 1
       IN  [pointer |-> IF next > d.upper THEN 0 ELSE next,
            flags |-> IF next = d.upper THEN {"watermark"}
                      ELSE IF next > d.upper THEN {"bottom"} ELSE {}]

CameRound(d) == Moved(d).flags \cap {"top", "bottom"} # {}

(* dac_flags: the line is set by the flags of this trigger alone. *)
DacTrigger ==
  /\ dac.on /\ dac.buffered
  /\ LET moved == Moved(dac)
     IN  /\ dac' = Updated([dac EXCEPT !.pointer = moved.pointer, !.flags = @ \cup moved.flags], dacWord)
         /\ dacLine' = (dac.enables \cap moved.flags # {})
         /\ dacPlayed' = IF CameRound(dac) THEN [whole |-> TRUE, words |-> {moved.pointer}]
                         ELSE [dacPlayed EXCEPT !.words = @ \cup {moved.pointer}]
  /\ UNCHANGED dacWord

DacResets ==
  /\ dac' = Dac0
  /\ dacWord' = [p \in DacPointers |-> 0]
  /\ dacLine' = FALSE
  /\ dacPlayed' = NotPlayed

DacNext ==
  \/ \E p \in DacPointers, value \in DacValues : DacWriteWord(p, value)
  \/ \E on \in BOOLEAN, enables \in {{}, DacFlags} : DacWriteC0(on, enables)
  \/ \E buffered \in BOOLEAN, down \in BOOLEAN : DacWriteC1(buffered, down)
  \/ \E pointer \in DacPointers, upper \in DacPointers : DacWriteC2(pointer, upper)
  \/ \E cleared \in {{}, {"bottom"}, DacFlags} : DacWriteSr(cleared)
  \/ DacTrigger
  \/ DacResets

-----------------------------------------------------------------------------
(* The comparator *)

Cmp0 == [on |-> FALSE, invert |-> FALSE, plus |-> 0, minus |-> 0, replaced |-> FALSE,
         level |-> 0, rising |-> FALSE, falling |-> FALSE, rose |-> FALSE, fell |-> FALSE,
         output |-> FALSE]

CmpInit ==
  /\ cmp = Cmp0
  /\ cmpInput \in [CmpInputs -> {0}]
  /\ cmpLine = FALSE

(* cmp_level *)
LevelAt(c, inputs, i) == IF i = 7 /\ c.replaced THEN c.level ELSE inputs[i]

Compares(c, inputs) == (c.on /\ LevelAt(c, inputs, c.plus) > LevelAt(c, inputs, c.minus)) # c.invert

Edged(c, out) == [c EXCEPT !.output = out,
                           !.rose = @ \/ (~c.output /\ out),
                           !.fell = @ \/ (c.output /\ ~out)]

LineOf(c) == (c.rising /\ c.rose) \/ (c.falling /\ c.fell)

(* cmp_evaluate: after every write and every move of an input. *)
Evaluated(c, inputs) ==
  LET now == Edged(c, Compares(c, inputs))
  IN  /\ cmp' = now
      /\ cmpLine' = LineOf(now)
      /\ cmpInput' = inputs

CmpWriteCr1(on, invert) == Evaluated([cmp EXCEPT !.on = on, !.invert = invert], cmpInput)
CmpWriteMux(plus, minus) == Evaluated([cmp EXCEPT !.plus = plus, !.minus = minus], cmpInput)
CmpWriteDac(replaced, level) ==
  Evaluated([cmp EXCEPT !.replaced = replaced, !.level = level], cmpInput)
CmpDrive(i, level) == Evaluated(cmp, [cmpInput EXCEPT ![i] = level])

(* SCR: written ones clear the flags. *)
CmpWriteScr(rising, falling, rose, fell) ==
  Evaluated([cmp EXCEPT !.rising = rising, !.falling = falling,
                        !.rose = @ /\ ~rose, !.fell = @ /\ ~fell], cmpInput)

CmpResets ==
  /\ cmp' = Cmp0
  /\ cmpLine' = FALSE
  /\ UNCHANGED cmpInput

CmpNext ==
  \/ \E on \in BOOLEAN, invert \in BOOLEAN : CmpWriteCr1(on, invert)
  \/ \E plus \in CmpInputs, minus \in CmpInputs : CmpWriteMux(plus, minus)
  \/ \E replaced \in BOOLEAN, level \in CmpLevels : CmpWriteDac(replaced, level)
  \/ \E i \in CmpInputs, level \in CmpLevels : CmpDrive(i, level)
  \/ \E rising, falling, rose, fell \in BOOLEAN : CmpWriteScr(rising, falling, rose, fell)
  \/ CmpResets

-----------------------------------------------------------------------------
(* The reference *)

Vref0 == [on |-> FALSE, stable |-> FALSE, left |-> 0]

VrefInit == vref = Vref0 /\ vrefWaited = 0

(* A write of TRM or SC starts the wait again. *)
Rewritten(on) == [on |-> on, stable |-> FALSE, left |-> IF on THEN VrefCycles ELSE 0]

VrefWrite(on) ==
  /\ vref' = Rewritten(on)
  /\ vrefWaited' = 0

VrefAdvance(cycles) ==
  /\ vref.left # 0
  /\ vref' = IF cycles >= vref.left THEN [vref EXCEPT !.left = 0, !.stable = TRUE]
             ELSE [vref EXCEPT !.left = @ - cycles]
  /\ vrefWaited' = vrefWaited + cycles

VrefResets ==
  /\ vref' = Vref0
  /\ vrefWaited' = 0

VrefNext ==
  \/ \E on \in BOOLEAN : VrefWrite(on)
  \/ \E cycles \in VrefSteps : VrefAdvance(cycles)
  \/ VrefResets

-----------------------------------------------------------------------------
(* Properties *)

(* Types; the wait of the reference runs only while it is on. *)
AnalogTypeOK ==
  /\ dac \in [on : BOOLEAN, enables : SUBSET DacFlags, buffered : BOOLEAN, down : BOOLEAN,
              pointer : DacPointers, upper : DacPointers, flags : SUBSET DacFlags,
              output : DacValues]
  /\ dacWord \in [DacPointers -> DacValues] /\ dacLine \in BOOLEAN
  /\ dacPlayed \in [whole : BOOLEAN, words : SUBSET DacPointers]
  /\ cmp \in [on : BOOLEAN, invert : BOOLEAN, plus : CmpInputs, minus : CmpInputs,
              replaced : BOOLEAN, level : CmpLevels, rising : BOOLEAN, falling : BOOLEAN,
              rose : BOOLEAN, fell : BOOLEAN, output : BOOLEAN]
  /\ cmpInput \in [CmpInputs -> CmpLevels] /\ cmpLine \in BOOLEAN
  /\ vref \in [on : BOOLEAN, stable : BOOLEAN, left : 0 .. VrefCycles]
  /\ vref.left # 0 => vref.on
  /\ vrefWaited \in Nat

(* The output is the word under the pointer, or zero when the converter is off,
   whichever of the word, the pointer and the enable moved last
   (dac_update_output, called by every write and trigger). *)
OutputFollows == dac.output = IF dac.on THEN dacWord[dac.pointer] ELSE 0

(* The line is up only with a flag for the handler to find (dac_flags, dac_write). *)
DacLineHasFlag == dacLine => dac.flags # {}

(* The whole buffer is played: between two turns of the pointer, each word up to the
   upper limit has been output (k22_data_dac_trigger). *)
WholeBufferPlayed ==
  DacTrigger /\ CameRound(dac) /\ dacPlayed.whole => dacPlayed.words = 0 .. dac.upper

(* The line of the comparator follows its flags and their enables at every moment
   (cmp_evaluate). *)
CmpLineInStep == cmpLine <=> (cmp.rising /\ cmp.rose) \/ (cmp.falling /\ cmp.fell)

(* No edge of the output is lost: one that happens in the very write that clears the
   flags is flagged again (cmp_write and cmp_evaluate). *)
OutputEdgesTold ==
  cmp' # Cmp0 => /\ ~cmp.output /\ cmp'.output => cmp'.rose
                 /\ cmp.output /\ ~cmp'.output => cmp'.fell

(* The reference is called stable only after its whole time since the last write to it,
   and only while it is on (k22_data_write, k22_data_advance). *)
StableWaited == vref.stable => vref.on /\ vrefWaited >= VrefCycles

-----------------------------------------------------------------------------
(* The ADC *)

CONSTANTS
  AdcCycles,     \* cycles of one conversion
  AdcChannels,   \* input channels; 31 is none of them
  AdcInputs,     \* values the host sets an input to
  AdcSetups,     \* values of SC2, CV1 and CV2 that firmware writes
  AdcSteps       \* cycles that pass in one step

AdcDisabled == 31
AdcSlots == {0, 1}
AdcSettings ==
  [trigger : BOOLEAN, continuous : BOOLEAN, compare : BOOLEAN, greater : BOOLEAN,
   range : BOOLEAN, cv1 : Int, cv2 : Int]

ASSUME AdcAssumption ==
  /\ AdcCycles \in Nat \ {0} /\ AdcSteps \subseteq Nat
  /\ AdcInputs \subseteq Nat /\ AdcSetups \subseteq AdcSettings

AdcSlotChannels == AdcChannels \cup {AdcDisabled}

VARIABLES
  adc,           \* converting, active_slot, remaining_cycles
  adcSlot,       \* SC1 and R of each slot: channel, ie, coco, result
  adcSetup,      \* SC2, SC3 and the compare values
  adcInput,      \* inputs
  adcLine,       \* the interrupt line
  adcTold        \* of each slot since its SC1 was written: whether a conversion was under
                 \* way, the channel of the last result, and whether it was a calibration
                 \* that raised the flag

adcVars == <<adc, adcSlot, adcSetup, adcInput, adcLine, adcTold>>

AdcSetup0 == [trigger |-> FALSE, continuous |-> FALSE,
              compare |-> FALSE, greater |-> FALSE, range |-> FALSE, cv1 |-> 0, cv2 |-> 0]
AdcSlot0 == [channel |-> AdcDisabled, ie |-> FALSE, coco |-> FALSE, result |-> 0]
AdcIdle == [on |-> FALSE, slot |-> 0, left |-> 0]
AdcNotTold == [begun |-> FALSE, of |-> AdcDisabled, calibrated |-> FALSE]

AdcTypeOK ==
  /\ adc \in [on : BOOLEAN, slot : AdcSlots, left : 0 .. AdcCycles]
  /\ adcSlot \in [AdcSlots -> [channel : AdcSlotChannels, ie : BOOLEAN, coco : BOOLEAN,
                               result : AdcInputs \cup {0}]]
  /\ adcSetup \in AdcSettings
  /\ adcInput \in [AdcSlotChannels -> AdcInputs \cup {0}]
  /\ adcLine \in BOOLEAN
  /\ adcTold \in [AdcSlots -> [begun : BOOLEAN, of : AdcSlotChannels, calibrated : BOOLEAN]]
  /\ adc.on => adc.left > 0

AdcInit ==
  /\ adc = AdcIdle
  /\ adcSlot = [s \in AdcSlots |-> AdcSlot0]
  /\ adcSetup = AdcSetup0
  /\ adcInput \in [AdcSlotChannels -> {0}]
  /\ adcLine = FALSE
  /\ adcTold = [s \in AdcSlots |-> AdcNotTold]

-----------------------------------------------------------------------------
(* A conversion *)

StartedSlot(s) == [on |-> TRUE, slot |-> s, left |-> AdcCycles]

(* adc_schedule: a slot whose channel is 31 starts nothing, and stops nothing. Another
   slot's conversion is dropped. *)
AdcScheduled(slots, s) == IF slots[s].channel = AdcDisabled THEN adc ELSE StartedSlot(s)

AdcCleared(slots, s) ==
  IF slots[s].channel = AdcDisabled THEN slots ELSE [slots EXCEPT ![s].coco = FALSE]

(* adc_compare *)
InRange(v) == adcSetup.cv1 <= v /\ v <= adcSetup.cv2

AcceptsInverted(v) ==  \* mutant: a range is taken inside whatever ACFGT says
  \/ ~adcSetup.compare
  \/ IF adcSetup.range THEN InRange(v)
     ELSE IF adcSetup.greater THEN v > adcSetup.cv1 ELSE v < adcSetup.cv1

AdcAccepts(v) ==
  \/ ~adcSetup.compare
  \/ IF adcSetup.range THEN InRange(v) # adcSetup.greater
     ELSE IF adcSetup.greater THEN v > adcSetup.cv1 ELSE v < adcSetup.cv1

(* adc_complete: a result the comparison refuses leaves no trace. The slot is
   converted again in continuous mode. *)
AdcCompletes ==
  LET s == adc.slot
      value == adcInput[adcSlot[s].channel]
  IN  /\ IF AdcAccepts(value)
         THEN /\ adcSlot' = [adcSlot EXCEPT ![s].coco = TRUE, ![s].result = value]
              /\ adcLine' = (adcLine \/ adcSlot[s].ie)
              /\ adcTold' = [adcTold EXCEPT ![s].of = adcSlot[s].channel, ![s].calibrated = FALSE]
         ELSE UNCHANGED <<adcSlot, adcLine, adcTold>>
      /\ adc' = IF adcSetup.continuous /\ adcSlot[s].channel # AdcDisabled THEN StartedSlot(s)
                ELSE [adc EXCEPT !.on = FALSE, !.left = 0]

AdcExpires(cycles) == cycles >= adc.left

AdcAdvance(cycles) ==
  /\ adc.on
  /\ IF AdcExpires(cycles) THEN AdcCompletes
     ELSE /\ adc' = [adc EXCEPT !.left = @ - cycles]
          /\ UNCHANGED <<adcSlot, adcLine, adcTold>>
  /\ UNCHANGED <<adcSetup, adcInput>>

-----------------------------------------------------------------------------
(* Registers, triggers and the host *)

SlotWritten(s, channel, ie) ==
  [adcSlot EXCEPT ![s].channel = channel, ![s].ie = ie, ![s].coco = FALSE]

LineKept(s) == adcLine  \* mutant: writing SC1 leaves the line up

LineDropped(s) == FALSE

(* SC1: the flag is dropped with the write, and the line with it whichever slot
   raised it; a conversion begins at once unless the PDB triggers them. *)
AdcWriteSlot(s, channel, ie) ==
  /\ adcSlot' = SlotWritten(s, channel, ie)
  /\ adcLine' = LineDropped(s)
  /\ adc' = IF adcSetup.trigger THEN adc ELSE AdcScheduled(SlotWritten(s, channel, ie), s)
  /\ adcTold' = [adcTold EXCEPT ![s] = [AdcNotTold EXCEPT !.begun = adc'.on /\ adc'.slot = s]]
  /\ UNCHANGED <<adcSetup, adcInput>>

(* adc_pretrigger: the slot's flag is dropped, its line is not. *)
AdcPretrigger(s) ==
  /\ adcSetup.trigger
  /\ adc' = AdcScheduled(adcSlot, s)
  /\ adcSlot' = AdcCleared(adcSlot, s)
  /\ adcTold' = [adcTold EXCEPT ![s].begun = @ \/ (adc'.on /\ adc'.slot = s),
                                ![s].calibrated = @ /\ adcSlot'[s].coco]
  /\ UNCHANGED <<adcSetup, adcInput, adcLine>>

(* Reading a result drops its flag, and the line whatever the other slot holds. *)
AdcReadResult(s) ==
  /\ adcSlot' = [adcSlot EXCEPT ![s].coco = FALSE]
  /\ adcLine' = FALSE
  /\ adcTold' = [adcTold EXCEPT ![s].calibrated = FALSE]
  /\ UNCHANGED <<adc, adcSetup, adcInput>>

(* SC2 and the compare values; ADCO is in SC3. *)
AdcWriteSetup(setup) ==
  /\ adcSetup' = [setup EXCEPT !.continuous = adcSetup.continuous]
  /\ UNCHANGED <<adc, adcSlot, adcInput, adcLine, adcTold>>

(* SC3: a calibration is over at once. It raises the flag of slot A, whatever SC1 and
   the comparison ask for, stores no result and raises no line. *)
AdcWriteControl(continuous, calibrate) ==
  /\ adcSetup' = [adcSetup EXCEPT !.continuous = continuous]
  /\ adcSlot' = [adcSlot EXCEPT ![0].coco = @ \/ calibrate]
  /\ adcTold' = [adcTold EXCEPT ![0].calibrated = @ \/ (calibrate /\ ~adcSlot[0].coco)]
  /\ UNCHANGED <<adc, adcInput, adcLine>>

AdcDrive(channel, value) ==
  /\ adcInput' = [adcInput EXCEPT ![channel] = value]
  /\ UNCHANGED <<adc, adcSlot, adcSetup, adcLine, adcTold>>

(* k22_data_reset: the inputs are the host's. *)
AdcResets ==
  /\ adc' = AdcIdle
  /\ adcSlot' = [s \in AdcSlots |-> AdcSlot0]
  /\ adcSetup' = AdcSetup0
  /\ adcLine' = FALSE
  /\ adcTold' = [s \in AdcSlots |-> AdcNotTold]
  /\ UNCHANGED adcInput

AdcNext ==
  \/ \E cycles \in AdcSteps : AdcAdvance(cycles)
  \/ \E s \in AdcSlots, channel \in AdcSlotChannels, ie \in BOOLEAN : AdcWriteSlot(s, channel, ie)
  \/ \E s \in AdcSlots : AdcPretrigger(s)
  \/ \E s \in AdcSlots : AdcReadResult(s)
  \/ \E setup \in AdcSetups : AdcWriteSetup(setup)
  \/ \E continuous, calibrate \in BOOLEAN : AdcWriteControl(continuous, calibrate)
  \/ \E channel \in AdcChannels, value \in AdcInputs : AdcDrive(channel, value)
  \/ AdcResets

-----------------------------------------------------------------------------
(* Properties *)

(* A result that is flagged is of the channel SC1 names, and of a conversion of this
   slot that was under way when SC1 was last written, or began since: never one left
   over from another channel (adc_write, adc_complete). A flag without a result is that
   of a calibration, which slot A alone has; a conversion that ends or a write of SC1
   takes its place. *)
FlaggedIsAsked ==
  \A s \in AdcSlots :
    adcSlot[s].coco => IF adcTold[s].calibrated THEN s = 0
                       ELSE adcTold[s].begun /\ adcTold[s].of = adcSlot[s].channel

(* The line is up only for a slot that asks for it: both writes of SC1 and reads of
   a result drop it, so no slot without AIEN is left holding the line
   (adc_write, adc_read). *)
AdcLineAsked == adcLine => \E s \in AdcSlots : adcSlot[s].ie

FlagsResult(s) == adcSlot'[s].coco /\ ~adcSlot[s].coco /\ ~adcTold'[s].calibrated
StoresResult(s) == adcSlot'[s].result \notin {adcSlot[s].result, AdcSlot0.result}

(* A result outside the comparison is never stored: what step stores or flags a result,
   and is no calibration, leaves a value the function of SC2 lets through, whatever was
   written during the conversion (adc_compare). *)
ComparedResults ==
  \A s \in AdcSlots :
    adcSetup.compare /\ (FlagsResult(s) \/ StoresResult(s)) =>
      LET v == adcSlot'[s].result
          over == v > adcSetup.cv1
          under == v < adcSetup.cv1
      IN  CASE ~adcSetup.range /\ adcSetup.greater -> over
            [] ~adcSetup.range /\ ~adcSetup.greater -> under
            [] adcSetup.range /\ adcSetup.greater -> under \/ v > adcSetup.cv2
            [] OTHER -> ~under /\ v <= adcSetup.cv2

-----------------------------------------------------------------------------
(* The whole: the four share no state *)

AnalogSpec ==
  /\ DacInit /\ [][DacNext]_dacVars
  /\ CmpInit /\ [][CmpNext]_cmpVars
  /\ VrefInit /\ [][VrefNext]_vrefVars
  /\ AdcInit /\ [][AdcNext]_adcVars

(* What is computed is what was asked, and the lines are those of the flags: a result
   of the ADC is of the channel asked for and one its comparison admits, the word
   under the DAC's pointer and each word of its buffer is output, each edge of the
   comparator is told, and a reference is called stable after its time
   (memory/analog.c, memory/runtime.c). *)
AnalogHonest ==
  /\ [](OutputFollows /\ DacLineHasFlag /\ CmpLineInStep /\ StableWaited)
  /\ [](AdcLineAsked /\ FlaggedIsAsked)
  /\ [][WholeBufferPlayed]_dacVars
  /\ [][OutputEdgesTold]_cmpVars
  /\ [][ComparedResults]_adcVars
=============================================================================
