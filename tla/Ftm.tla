-------------------------------- MODULE Ftm ---------------------------------
(***************************************************************************)
(* A FlexTimer module: firmware's registers (timing/registers.c), the host's   *)
(* inputs and the passing of time (FtmTime).  Channel mode, pair mode and          *)
(* synchronization are configured by writes like any other.                          *)
(***************************************************************************)
EXTENDS FtmTime

CONSTANTS
  FtmUses,      \* what the instance is used for: the writes firmware makes
  FtmStarts,    \* FtmStarts[use]: the configurations it is found in
  FtmModuli,    \* values of MOD
  FtmValues,    \* values of the channel registers and of CNTIN
  FtmNumtofs,   \* values of NUMTOF
  FtmModes,     \* <<MS, ELS>> of a channel
  FtmPairs,     \* COMBINE and DEADTIME of the pair
  FtmSyncs,     \* SYNCONF
  FtmPoints,    \* <<CNTMIN, CNTMAX, REINIT, SYNCHOM>> of SYNC
  FtmSteps      \* the cycles one advance brings

VARIABLES
  ftm,       \* the state of the module
  ftmLine,   \* its interrupt line
  ftmUse     \* which of FtmUses this one is for

ftmVars == <<ftm, ftmLine, ftmUse>>

FtmInit ==
  /\ ftmUse \in FtmUses
  /\ ftm \in FtmStarts[ftmUse]
  /\ ftmLine = FALSE

-----------------------------------------------------------------------------
(* The counter and the channels *)

FtmSetQuietly(f) ==  \* mutant: a write that changes a flag or an enable leaves the line
  ftm.gate /\ ftm' = f /\ UNCHANGED <<ftmLine, ftmUse>>

FtmSet(f) == ftm.gate /\ ftm' = f /\ ftmLine' = FtmWants(f) /\ UNCHANGED ftmUse
FtmKeep(f) == ftm.gate /\ ftm' = f /\ UNCHANGED <<ftmLine, ftmUse>>

FtmRead(f, event) == FtmKeep([f EXCEPT !.unseen = @ \ event])

ReadSc == FtmRead([ftm EXCEPT !.tof.read = @ \/ ftm.tof.set], {<<"overflow", 0>>})

ReadChannel(c) ==
  FtmRead([ftm EXCEPT !.ch[c].read = @ \/ ftm.ch[c].flag], {<<"channel", c>>})

(* SC: a zero clears TOF when the register was read with the flag set. *)
WriteSc(clock, updown, ie, clear) ==
  LET f == [ftm EXCEPT !.clock = clock, !.updown = updown, !.ie = ie,
                       !.tof = [set |-> @.set /\ ~(clear /\ @.read), read |-> FALSE]]
      starts == ~ftm.clock /\ clock /\ ftm.counter = ftm.initial
  IN  FtmSet(IF starts THEN Triggers(f, "initial") ELSE f)

WriteChannel(c, mode, ie, reset, clear) ==
  FtmSet([ftm EXCEPT !.ch[c].ms = mode[1], !.ch[c].edges = mode[2], !.ch[c].ie = ie,
                     !.ch[c].reset = reset, !.ch[c].flag = @ /\ ~(clear /\ ftm.ch[c].read),
                     !.ch[c].read = FALSE])

(* STATUS clears the flags that are written zero, read or not. *)
WriteStatus(cleared) ==
  FtmSet([ftm EXCEPT !.ch = [c \in FtmChannels |->
                               IF c \in cleared THEN [@[c] EXCEPT !.flag = FALSE, !.read = FALSE]
                               ELSE @[c]]])

AllInitialised(f, cs) ==
  [f EXCEPT !.ch = [c \in FtmChannels |->
                      IF c \in cs THEN [@[c] EXCEPT !.output = c \in f.outinit] ELSE @[c]]]

WriteCnt ==
  LET f == [ftm EXCEPT !.counter = ftm.initial, !.down = FALSE, !.overflows = 0]
  IN  FtmKeep(Triggers(AllInitialised(f, {c \in FtmChannels : ~OutputCompare(f, c)}), "initial"))

WriteNumtof(n) == FtmKeep([ftm EXCEPT !.numtof = n])
WriteOutinit(cs) == FtmKeep([ftm EXCEPT !.outinit = cs])

(* MOD, CNTIN and CnV wait in their buffers while the counter has a clock. *)
Waiting(f, register) == [f EXCEPT !.pending = @ \cup {register}]

WriteMod(v) ==
  LET f == [ftm EXCEPT !.buffer.modulo = v]
  IN  FtmKeep(IF ftm.clock THEN Waiting(f, "modulo") ELSE ApplyModulo(Waiting(f, "modulo")))

WriteCntin(v) ==
  LET f == [ftm EXCEPT !.buffer.initial = v]
  IN  FtmKeep(IF ftm.clock THEN Waiting(f, "initial") ELSE ApplyInitial(Waiting(f, "initial")))

WriteCnv(c, v) ==
  LET f == [ftm EXCEPT !.buffer.value[c] = v]
  IN  /\ ~InputCapture(ftm, c)
      /\ FtmKeep(IF ftm.clock THEN Waiting(f, Named(c)) ELSE ApplyValues(Waiting(f, Named(c)), {c}))

(* EXTTRIG with its flag. *)
ReadExttrig == FtmKeep([ftm EXCEPT !.trigf.read = @ \/ ftm.trigf.set])

WriteExttrig(sources, clear) ==
  FtmKeep([ftm EXCEPT !.triggers = sources,
                      !.trigf = [set |-> @.set /\ ~(clear /\ @.read), read |-> FALSE]])

-----------------------------------------------------------------------------
(* Pairs, synchronization *)

(* COMBINE, DEADTIME and QDCTRL: some bits only with the protection off. *)
WritePair(p, dead) ==
  FtmKeep([ftm EXCEPT !.pair =
             IF ftm.wpdis THEN [p EXCEPT !.dead = dead]
             ELSE [@ EXCEPT !.sync = p.sync, !.dual = @.dual]])

WriteQuadrature(on, direction, filters) ==
  FtmKeep([ftm EXCEPT !.quad.on = IF ftm.wpdis THEN on ELSE @, !.quad.direction = direction,
                      !.quad.filters = filters])

WriteFilters(cs) == FtmKeep([ftm EXCEPT !.filters = cs])
WriteSynconf(c) == FtmKeep([ftm EXCEPT !.conf = c])
WriteLoad(ok, on) == FtmKeep([ftm EXCEPT !.load = [ok |-> ok, on |-> on]])

(* SYNC: a one in SWSYNC synchronizes, a zero forgets one that waits. *)
WriteSync(points, trigger, now) ==
  LET f == [ftm EXCEPT !.cntmin = points[1], !.cntmax = points[2], !.reinit = points[3],
                       !.synchom = points[4], !.trigger = trigger, !.swsync = now]
  IN  FtmKeep(IF now THEN SoftwareSync(f) ELSE [f EXCEPT !.waits.software = FALSE])

WriteMask(cs) == FtmKeep(Waiting([ftm EXCEPT !.buffer.mask = cs], "mask"))
WriteInvert(on) == FtmKeep(Waiting([ftm EXCEPT !.buffer.invert = on], "invert"))
WriteSoft(on, high) ==
  FtmKeep(Waiting([ftm EXCEPT !.buffer.soft = [on |-> on, high |-> high]], "soft"))

Trigger ==
  /\ ftm' = [ftm EXCEPT !.triggered = TRUE]
  /\ UNCHANGED <<ftmLine, ftmUse>>

-----------------------------------------------------------------------------
(* Faults *)

(* A write of MODE, FLTCTRL or FLTPOL: without a mode nothing is held off, and
   an input that is not enabled is forgotten. *)
FaultsRearmed(f) ==
  LET enabled == EnabledFaults(f)
  IN  FaultStatus([f EXCEPT !.fault.off = @ /\ f.fault.mode # 0,
                            !.fault.release = @ /\ f.fault.mode # 0,
                            !.fault.filtered = @ \cap enabled,
                            !.fault.age = [i \in {0, 1} |-> IF i \in enabled THEN @[i] ELSE 0]])

(* MODE: FTMEN and FAULTM are protected; WPDIS takes a one only when WPEN was
   read; INIT initialises the outputs. *)
WriteMode(ftmen, pwmsync, faultmode, faultie, unlock, init) ==
  LET unlocks == ~ftm.wpdis /\ unlock /\ ftm.wpen.read
      f == IF init THEN AllInitialised(ftm, FtmChannels) ELSE ftm
  IN  FtmSet(FaultsRearmed(
        [f EXCEPT !.ftmen = IF ftm.wpdis THEN ftmen ELSE @, !.pwmsync = pwmsync,
                    !.fault.mode = IF ftm.wpdis THEN faultmode ELSE @, !.fault.ie = faultie,
                    !.wpdis = @ \/ unlocks,
                    !.wpen = IF unlocks THEN [set |-> FALSE, read |-> FALSE] ELSE @]))

WriteFltctrl(enabled, filters) ==
  FtmSet(FaultsRearmed(
    IF ftm.wpdis THEN [ftm EXCEPT !.fault.enabled = enabled, !.fault.filters = filters] ELSE ftm))

WriteFltpol(polarity) ==
  FtmSet(FaultsRearmed([ftm EXCEPT !.fault.polarity = IF ftm.wpdis THEN polarity ELSE @]))

ReadFms ==
  FtmRead([ftm EXCEPT !.wpen.read = @ \/ ftm.wpen.set, !.fault.read = @ \cup ftm.fault.flags,
                      !.fault.allread = @ \/ ftm.fault.flags # {}],
          {<<"fault", i>> : i \in {0, 1}})

(* FMS: of the flags that were read, those are cleared that are written zero and
   whose input is inactive; FAULTF clears all of them. *)
WriteFms(kept, all, protect) ==
  LET active == ActiveFaults(ftm)
      left == IF ftm.fault.allread /\ all /\ active = {} THEN {}
              ELSE ftm.fault.flags \ ((ftm.fault.read \ kept) \ active)
      free == IF ftm.fault.mode = 3 THEN active = {} ELSE left = {}
  IN  FtmSet(FaultStatus(
        [ftm EXCEPT !.fault.flags = left, !.fault.read = {}, !.fault.allread = FALSE,
                    !.fault.release = IF ftm.fault.off THEN free ELSE @,
                    !.wpdis = @ /\ ~protect,
                    !.wpen = [set |-> @.set \/ protect, read |-> FALSE]]))

-----------------------------------------------------------------------------
(* The host and time *)

SetFault(i, high) ==
  /\ (i \in ftm.fault.level) # high
  /\ ftm' = [ftm EXCEPT !.fault.level = IF high THEN @ \cup {i} ELSE @ \ {i}, !.fault.age[i] = 0]
  /\ UNCHANGED <<ftmLine, ftmUse>>

SetInput(c, high) ==
  /\ (c \in ftm.input) # high
  /\ ftm' = [ftm EXCEPT !.input = IF high THEN @ \cup {c} ELSE @ \ {c}, !.age[c] = 0]
  /\ UNCHANGED <<ftmLine, ftmUse>>

FtmGateChanges == ftm' = [ftm EXCEPT !.gate = ~@] /\ UNCHANGED <<ftmLine, ftmUse>>

FtmAdvance(cycles) ==
  /\ ftm' = Elapsed(ftm, cycles)
  /\ ftmLine' = FtmWants(ftm')
  /\ UNCHANGED ftmUse

FtmReset ==
  /\ ftm' = [FtmOff EXCEPT !.gate = FALSE]
  /\ ftmLine' = FALSE
  /\ UNCHANGED ftmUse

-----------------------------------------------------------------------------
(* The writes a use of the module makes. *)

FtmCounts ==
  \/ \E clock, updown, clear \in BOOLEAN : WriteSc(clock, updown, TRUE, clear)
  \/ \E v \in FtmModuli : WriteMod(v)
  \/ \E v \in FtmValues : WriteCntin(v)
  \/ \E n \in FtmNumtofs : WriteNumtof(n)
  \/ ReadSc
  \/ WriteCnt
  \/ FtmGateChanges

FtmCompares ==
  \/ \E updown \in BOOLEAN : WriteSc(TRUE, updown, FALSE, FALSE)
  \/ \E mode \in FtmModes, clear \in BOOLEAN : WriteChannel(0, mode, TRUE, FALSE, clear)
  \/ \E v \in FtmModuli : WriteMod(v)
  \/ \E v \in FtmValues : WriteCnv(0, v)
  \/ \E cs \in SUBSET {0} : WriteStatus(cs)
  \/ ReadChannel(0)
  \/ WriteOutinit({0})
  \/ WriteMode(FALSE, FALSE, 0, FALSE, FALSE, TRUE)

FtmUpdates ==
  \/ \E v \in FtmModuli : WriteMod(v)
  \/ WriteCnv(0, 1)
  \/ WriteCntin(1)

FtmSoftware ==
  \/ \E points \in FtmPoints, now \in BOOLEAN : WriteSync(points, FALSE, now)
  \/ \E c \in FtmSyncs : WriteSynconf(c)
  \/ WriteLoad(TRUE, {0})

FtmHardware ==
  \/ \E points \in FtmPoints : WriteSync(points, TRUE, FALSE)
  \/ WriteMask({0})
  \/ Trigger

FtmFaults ==
  \/ \E mode \in {1, 3} : WriteMode(FALSE, FALSE, mode, TRUE, TRUE, FALSE)
  \/ \E enabled \in {{0}, {0, 1}} : WriteFltctrl(enabled, {0})
  \/ \E all, protect \in BOOLEAN : WriteFms({0}, all, protect)
  \/ \E high \in BOOLEAN : SetFault(0, high)
  \/ WriteFltpol({1})
  \/ ReadFms

FtmPaired ==
  \/ \E p \in FtmPairs : WritePair(p, 2)
  \/ \E v \in FtmValues : WriteCnv(0, v)
  \/ \E on \in {{}, FtmChannels} : WriteSoft(on, FtmChannels)
  \/ \E on \in BOOLEAN : WriteInvert(on)

FtmCaptures ==
  \/ \E edges \in {1, 3} : WriteChannel(0, <<0, edges>>, TRUE, edges = 3, FALSE)
  \/ \E direction \in BOOLEAN : WriteQuadrature(TRUE, direction, {0})
  \/ WriteFilters({0})
  \/ \E c \in FtmChannels, high \in BOOLEAN : SetInput(c, high)
  \/ \E clear \in BOOLEAN : WriteExttrig({"first", "initial"}, clear)
  \/ ReadExttrig

FtmNext ==
  \/ \E cycles \in FtmSteps : FtmAdvance(cycles)
  \/ ftmUse = "counts" /\ FtmCounts
  \/ ftmUse = "compares" /\ FtmCompares
  \/ ftmUse \in {"software", "hardware"} /\ FtmUpdates
  \/ ftmUse = "software" /\ FtmSoftware
  \/ ftmUse = "hardware" /\ FtmHardware
  \/ ftmUse = "faults" /\ FtmFaults
  \/ ftmUse = "pairs" /\ FtmPaired
  \/ ftmUse = "captures" /\ FtmCaptures
  \/ FtmReset

-----------------------------------------------------------------------------
(* Properties *)

(* The ages of the filters stay below their thresholds, the counter in its
   width, and only registers that were written wait. *)
FtmTypeOK ==
  /\ ftm.counter \in 0..(FtmWidth - 1) /\ ftm.overflows \in 0..31
  /\ {ftm.initial, ftm.modulo} \cup {ftm.ch[c].value : c \in FtmChannels} \subseteq 0..(FtmWidth - 1)
  /\ ftm.pending \subseteq {"initial", "modulo", "mask", "invert", "soft", "first", "second"}
  /\ \A c \in FtmChannels : /\ ftm.age[c] \in 0..(FtmLongFilter - 1)
                            /\ ftm.ch[c].dead.left \in 0..2
                            /\ ftm.ch[c].dead.left # 0 => ~ftm.ch[c].dead.out
  /\ \A i \in {0, 1} : ftm.fault.age[i] \in 0..(FtmLongFilter - 1)

(* How time is cut into batches does not show, while no buffer waits: counter,
   flags, outputs and filters are those of one batch of the sum
   (advance_ftm_counter, advance_ftm_up_down, ftm_overflow). *)
FtmSplits ==
  (ftm.pending = {} /\ ~ftm.triggered /\ ftm.overflows <= ftm.numtof) =>
     \A later \in {Elapsed(ftm, 1)}, a \in FtmSteps : Elapsed(later, a) = Elapsed(ftm, 1 + a)

(* The line is what the flags and their enables ask for
   (k22_timing_internal_update_ftm_irq, after every change of one of them). *)
FtmLineInStep == ftmLine = FtmWants(ftm)

(* Flags set since software last looked survive a write of the register that
   shows them; only STATUS, which clears unseen, a reset, and the faults of a
   mode that clears them by itself do otherwise (the read marks of
   ftm_channel_event, ftm_overflow, ftm_detect_fault). *)
FtmFlags(f) ==
  (IF f.tof.set THEN {<<"overflow", 0>>} ELSE {})
    \cup {<<"channel", c>> : c \in {d \in FtmChannels : f.ch[d].flag}}
    \cup {<<"fault", i>> : i \in IF f.fault.mode = 3 THEN {} ELSE f.fault.flags}

UnseenEventsStay ==
  \/ (FtmFlags(ftm) \cap ftm.unseen) \subseteq FtmFlags(ftm')
  \/ ~ftm'.gate \/ ftm'.fault.mode = 3
  \/ \E cs \in SUBSET FtmChannels : WriteStatus(cs)

(* While an enabled fault is active the outputs are held off, and no release
   waits (ftm_detect_fault, the release of FMS and of ftm_advance_fault_inputs). *)
FaultsHoldOutputs ==
  ActiveFaults(ftm) # {} => ftm.fault.off /\ ~ftm.fault.release

(* MOD and the value of a synchronized channel that wait together change
   together: no cycle runs with one new and the other old (FTMEN; the loading
   points, software and hardware synchronization). *)
UpdatesTogether ==
  (ftm.ftmen /\ ftm.pair.sync /\ ftm.clock /\ {"modulo", "first"} \subseteq ftm.pending /\ ftm'.gate)
    => {"modulo", "first"} \cap ftm'.pending \in {{}, {"modulo", "first"}}

(* SWSYNC reads one exactly while a software synchronization waits for its
   loading point. *)
SwsyncWaits == ftm.swsync = ftm.waits.software

(* A complementary pair with dead time never drives both outputs, unless
   software controls one of them alone (ftm_advance_deadtime). *)
NeverBothOn ==
  ftm.gate /\ DeadtimeOn(ftm) /\ (\A c \in FtmChannels : ftm.ch[c].edges # 0) =>
    \A f \in {Elapsed(ftm, cycles) : cycles \in FtmSteps} :
      f.soft.on \in {{}, FtmChannels} => \E c \in FtmChannels : ~Driven(f, c)
=============================================================================
