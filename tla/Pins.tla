-------------------------------- MODULE Pins --------------------------------
(***************************************************************************)
(* One port: its pins, their PCRs, the digital filter and the interrupt        *)
(* flags (gpio/core.c, gpio/api.c).  Software writes the registers, the world   *)
(* drives and releases pins, time lets a filtered pin follow what it is driven   *)
(* to.  With its clock gate off a port refuses every register access, which       *)
(* changes nothing; the outside and time act whatever the gate.                    *)
(***************************************************************************)
EXTENDS Naturals

CONSTANTS
  Pins,         \* the pins the package brings out
  PinSetups,    \* what software writes to a PCR: mux, ode, pull, irqc, lock
  PinWidths,    \* the filter widths software writes to DFWR
  PinSteps      \* the cycles one advance brings

VARIABLES
  pin,          \* pin[p]: the PCR of p, its ISF bit in isf
  pinIsfr,      \* ISFR
  pinDir,       \* PDDR: the outputs
  pinOut,       \* PDOR: the pins set high
  pinDrive,     \* pinDrive[p]: how the world drives p
  pinFilter,    \* the digital filter: the pins in DFER, DFWR, and each pin's level, target and age
  pinSeen       \* observer: the edges software asked for and has not cleared; how long the
                \* last drive of each pin has held, if it came through the filter

pinsVars == <<pin, pinIsfr, pinDir, pinOut, pinDrive, pinFilter, pinSeen>>

Drives == {"none", "low", "high"}
PinReset0 == [mux |-> FALSE, ode |-> FALSE, pull |-> "none", irqc |-> 0, lock |-> FALSE, isf |-> FALSE]

PinSettings ==
  [mux : BOOLEAN, ode : BOOLEAN, pull : {"none", "up", "down"}, irqc : 0..15, lock : BOOLEAN,
   isf : BOOLEAN]

ASSUME PinsAssumption ==
  /\ PinSetups \subseteq PinSettings
  /\ PinWidths \subseteq Nat /\ \E w \in PinWidths : \A v \in PinWidths : v <= w
  /\ PinSteps \subseteq Nat

MaxWidth == CHOOSE w \in PinWidths : \A v \in PinWidths : v <= w
HeldBound == MaxWidth + 1

-----------------------------------------------------------------------------
(* The level of a pin *)

(* An output drives its pin, unless it is open drain and high; then the outside, then the pull. *)
High(setup, out, drive, dir) ==
  IF dir /\ setup.mux /\ (~setup.ode \/ ~out) THEN out
  ELSE IF drive # "none" THEN drive = "high"
  ELSE setup.pull = "up"

RawLevel(setups, dir, out, drive) ==
  {p \in Pins : High(setups[p], p \in out, drive[p], p \in dir)}

Raw == RawLevel(pin, pinDir, pinOut, pinDrive)

(* k22_io_internal_pin_level: a filtered pin reads what its filter has let through. *)
Level == {p \in Pins : IF p \in pinFilter.on THEN p \in pinFilter.level ELSE p \in Raw}

-----------------------------------------------------------------------------
(* Interrupt flags *)

Triggers(irqc, high) ==
  CASE irqc \in {1, 9, 12} -> high
    [] irqc \in {2, 10, 8} -> ~high
    [] irqc \in {3, 11}    -> TRUE
    [] OTHER               -> FALSE

(* update_pin_event: the flag of a pin whose level has changed the way its IRQC asks. *)
Flagged(p, previous, high) == (previous # high) /\ Triggers(pin[p].irqc, high)

FlagsOf(flags, raised) == flags \cup raised

(* The pins in "moved" go to their level in "levels": their flags, in both registers. *)
Raise(moved, levels) ==
  LET flagged == {p \in moved : Flagged(p, p \in Level, p \in levels)}
  IN  /\ pin' = [p \in Pins |-> [pin[p] EXCEPT !.isf = @ \/ p \in flagged]]
      /\ pinIsfr' = FlagsOf(pinIsfr, flagged)

-----------------------------------------------------------------------------
(* The outside *)

Restarted(f, p) == [f EXCEPT !.age[p] = 0]

(* k22_io_drive_pin, k22_io_release_pin: a filtered pin restarts its filter, an unfiltered one moves. *)
Drive(p, how) ==
  LET drive  == [pinDrive EXCEPT ![p] = how]
      target == RawLevel(pin, pinDir, pinOut, drive)
      moved  == {p} \ pinFilter.on
      Follow(levels, q) == IF q \in target THEN levels \cup {q} ELSE levels \ {q}
  IN  /\ pinDrive' = drive
      /\ Raise(moved, target)
      /\ pinFilter' = IF p \in pinFilter.on
                      THEN [Restarted(pinFilter, p) EXCEPT !.target = Follow(@, p)]
                      ELSE [pinFilter EXCEPT !.level = Follow(@, p)]
      /\ pinSeen' =
           [edges |-> pinSeen.edges \cup
                        {q \in moved : (q \in Level) # (q \in target) /\ Triggers(pin[q].irqc, q \in target)},
            held  |-> IF p \in moved \/ pinDrive[p] = how THEN pinSeen.held
                      ELSE [pinSeen.held EXCEPT ![p] = 0]]
      /\ UNCHANGED <<pinDir, pinOut>>

(* k22_io_advance: a filtered pin that has differed from its target for DFWR + 1 cycles follows it. *)
Due(f, cycles) ==
  {p \in f.on : (p \in f.target) # (p \in f.level) /\ f.age[p] + cycles > f.width}

Aged(f, cycles) ==
  LET due == Due(f, cycles)
      waiting == {p \in f.on \ due : (p \in f.target) # (p \in f.level)}
  IN  [f EXCEPT !.level = (@ \ due) \cup (f.target \cap due),
                !.age = [p \in Pins |-> IF p \in due THEN 0
                                        ELSE IF p \in waiting THEN f.age[p] + cycles ELSE f.age[p]]]

AgedLate(f, cycles) ==  \* mutant: a filter that moves keeps its age
  LET due == Due(f, cycles)
      differ == {p \in f.on : (p \in f.target) # (p \in f.level)}
  IN  [f EXCEPT !.level = (@ \ due) \cup (f.target \cap due),
                !.age = [p \in Pins |-> IF p \in differ THEN f.age[p] + cycles ELSE f.age[p]]]

PinsAdvanced(f, cycles) == Aged(f, cycles)

PinsAdvance(cycles) ==
  LET f == PinsAdvanced(pinFilter, cycles)
      moved == Due(pinFilter, cycles)
  IN  /\ pinFilter' = f
      /\ Raise(moved, f.level)
      /\ pinSeen' = [edges |-> pinSeen.edges \cup
                                 {q \in moved : (q \in Level) # (q \in f.level) /\ Triggers(pin[q].irqc, q \in f.level)},
                     held  |-> [p \in Pins |-> IF pinSeen.held[p] + cycles > HeldBound THEN HeldBound
                                               ELSE pinSeen.held[p] + cycles]]
      /\ UNCHANGED <<pinDir, pinOut, pinDrive>>

-----------------------------------------------------------------------------
(* Registers *)

(* write_pcr: a locked PCR takes only the clearing of its flag. *)
Written(old, new, clear) ==
  IF old.lock THEN [old EXCEPT !.isf = @ /\ ~clear] ELSE [new EXCEPT !.isf = old.isf /\ ~clear]

ForgetCleared(cleared) == pinSeen' = [pinSeen EXCEPT !.edges = @ \ cleared]

WritePcr(p, setup, clear) ==
  /\ pin' = [pin EXCEPT ![p] = Written(@, setup, clear)]
  /\ pinIsfr' = IF clear THEN pinIsfr \ {p} ELSE pinIsfr
  /\ ForgetCleared(IF clear THEN {p} ELSE {})
  /\ UNCHANGED <<pinDir, pinOut, pinDrive, pinFilter>>

(* GPCLR and GPCHR write sixteen bits to the PCRs they select: the upper half, IRQC with it, is zero. *)
WriteGlobal(selected, setup) ==
  /\ pin' = [p \in Pins |-> IF p \in selected
                            THEN Written(pin[p], [setup EXCEPT !.irqc = 0], FALSE) ELSE pin[p]]
  /\ ForgetCleared({})
  /\ UNCHANGED <<pinIsfr, pinDir, pinOut, pinDrive, pinFilter>>

ClearedOnly(setups, cleared) == setups  \* mutant: ISFR leaves the ISF bits of the PCRs

ClearedIn(setups, cleared) ==
  [p \in Pins |-> [setups[p] EXCEPT !.isf = @ /\ p \notin cleared]]

WriteIsfr(cleared) ==
  /\ pinIsfr' = pinIsfr \ cleared
  /\ pin' = ClearedIn(pin, cleared)
  /\ ForgetCleared(cleared)
  /\ UNCHANGED <<pinDir, pinOut, pinDrive, pinFilter>>

(* DFER takes every level of the port as it stands; targets and ages stay as they were. *)
WriteDfer(on) ==
  /\ pinFilter' = [pinFilter EXCEPT !.on = on, !.level = Raw]
  /\ pinSeen' = [pinSeen EXCEPT !.held = [p \in Pins |-> IF p \in on THEN @[p] ELSE HeldBound]]
  /\ UNCHANGED <<pin, pinIsfr, pinDir, pinOut, pinDrive>>

WriteDfwr(width) ==
  /\ pinFilter' = [pinFilter EXCEPT !.width = width]
  /\ UNCHANGED <<pin, pinIsfr, pinDir, pinOut, pinDrive, pinSeen>>

(* PDOR and its set, clear and toggle registers. The host is told of outputs that
   change; no flag is raised. *)
WriteOut(out) ==
  /\ pinOut' = out
  /\ UNCHANGED <<pin, pinIsfr, pinDir, pinDrive, pinFilter, pinSeen>>

WriteDir(dir) ==
  /\ pinDir' = dir
  /\ UNCHANGED <<pin, pinIsfr, pinOut, pinDrive, pinFilter, pinSeen>>

-----------------------------------------------------------------------------
(* Reset and the whole *)

PinsCleared(drive) ==
  LET raw == RawLevel([p \in Pins |-> PinReset0], {}, {}, drive)
  IN  [on |-> {}, width |-> 0, level |-> raw, target |-> raw, age |-> [p \in Pins |-> 0]]

(* kinetis_k22_peripheral_reset: what the world drives outlives the reset of the module. *)
PinsReset ==
  /\ pin' = [p \in Pins |-> PinReset0]
  /\ pinIsfr' = {} /\ pinDir' = {} /\ pinOut' = {}
  /\ pinFilter' = PinsCleared(pinDrive)
  /\ pinSeen' = [edges |-> {}, held |-> [p \in Pins |-> HeldBound]]
  /\ UNCHANGED pinDrive

PinsInit ==
  /\ pin = [p \in Pins |-> PinReset0]
  /\ pinIsfr = {} /\ pinDir = {} /\ pinOut = {}
  /\ pinDrive = [p \in Pins |-> "none"]
  /\ pinFilter = PinsCleared(pinDrive)
  /\ pinSeen = [edges |-> {}, held |-> [p \in Pins |-> HeldBound]]

PinsNext ==
  \/ \E p \in Pins, how \in Drives : Drive(p, how)
  \/ \E cycles \in PinSteps : PinsAdvance(cycles)
  \/ \E p \in Pins, setup \in PinSetups, clear \in BOOLEAN : WritePcr(p, setup, clear)
  \/ \E selected \in SUBSET Pins, setup \in PinSetups : WriteGlobal(selected, setup)
  \/ \E cleared \in SUBSET Pins : WriteIsfr(cleared)
  \/ \E on \in SUBSET Pins : WriteDfer(on)
  \/ \E width \in PinWidths : WriteDfwr(width)
  \/ \E out \in SUBSET Pins : WriteOut(out)
  \/ \E dir \in SUBSET Pins : WriteDir(dir)
  \/ PinsReset

PinsSpec == PinsInit /\ [][PinsNext]_pinsVars

-----------------------------------------------------------------------------
(* Properties *)

(* Everything keeps its type; an age stays below what its filter waits for, or
   below what it waited for before the width was written (k22_io_advance). *)
PinsTypeOK ==
  /\ pin \in [Pins -> PinSettings]
  /\ {pinIsfr, pinDir, pinOut} \subseteq SUBSET Pins
  /\ pinDrive \in [Pins -> Drives]
  /\ pinFilter \in [on : SUBSET Pins, width : PinWidths \cup {0}, level : SUBSET Pins,
                    target : SUBSET Pins, age : [Pins -> 0..MaxWidth]]
  /\ pinSeen \in [edges : SUBSET Pins, held : [Pins -> 0..HeldBound]]

(* ISFR and the ISF bits of the PCRs are two copies of the same flags, written by
   six paths (write_pcr, the global controls, ISFR, an event, a filter, a reset). *)
FlagsAgree == pinIsfr = {p \in Pins : pin[p].isf}

(* An edge the outside or a filter brings, and that the pin was set up to detect,
   stays flagged until software clears it, whatever is written between
   (update_pin_event, write_pcr). *)
EdgesFlagged == pinSeen.edges \subseteq pinIsfr

(* A filtered pin never follows a drive that came through its filter and has not
   lasted DFWR + 1 cycles (k22_io_advance and the restarts of k22_io_drive_pin, k22_io_release_pin). *)
GlitchesFiltered ==
  pinFilter'.on = pinFilter.on /\ pinSeen'.held # pinSeen.held =>
    \A p \in pinFilter.on :
      (p \in pinFilter.level) # (p \in pinFilter'.level) => pinSeen'.held[p] > pinFilter.width

(* Until a reset a locked pin keeps its setup, through its own register and the
   global ones (write_pcr). *)
LockedSetupsKept ==
  \A p \in Pins : pin[p].lock =>
    \/ [pin'[p] EXCEPT !.isf = FALSE] = [pin[p] EXCEPT !.isf = FALSE]
    \/ pin' = [q \in Pins |-> PinReset0]

(* The two copies of a flag agree, and an edge that the pin was set up to detect stays
   flagged until software clears it, whatever is written between; a drive that does
   not outlast the filter it came through is not followed; a locked setup stays
   (gpio/core.c, gpio/api.c). *)
PinsHonest ==
  /\ [](FlagsAgree /\ EdgesFlagged)
  /\ [][GlitchesFiltered /\ LockedSetupsKept]_pinsVars

(* How time is cut into batches does not show in a filter (k22_io_advance). *)
PinsSplit ==
  \A a, b \in PinSteps : PinsAdvanced(PinsAdvanced(pinFilter, a), b) = PinsAdvanced(pinFilter, a + b)
=============================================================================
