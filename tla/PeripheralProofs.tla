-------------------------- MODULE PeripheralProofs --------------------------
(***************************************************************************)
(* Theorems about peripherals: the pins of a port, for every set of pins,   *)
(* setups and filter widths; the transfers of the card, for every size of      *)
(* card and block; the power modes, wakeups and causes of resets; the analog    *)
(* peripherals; and the low-power timer, for every width and every cut of time.  *)
(***************************************************************************)
EXTENDS Pins, Sdhc, Power, Analog, Lptmr, TLAPS

(* Pins *)

(* The filters' widths are numbers, and the longest is one of them. *)
LEMMA WidthsBounded ==
  /\ MaxWidth \in Nat
  /\ \A w \in PinWidths \cup {0} : w \in Nat /\ w <= MaxWidth
<1>1. MaxWidth \in PinWidths /\ \A v \in PinWidths : v <= MaxWidth
  BY PinsAssumption, Zenon DEF MaxWidth
<1> QED
  BY <1>1, PinsAssumption

(* The time a drive has held counts for what the filter saw of it; a pin outside
   the filter owes it nothing. *)
HeldLongEnough ==
  /\ \A p \in Pins : pinFilter.age[p] <= pinSeen.held[p] \/ pinSeen.held[p] = HeldBound
  /\ \A p \in Pins \ pinFilter.on : pinSeen.held[p] = HeldBound

PinsInv == PinsTypeOK /\ FlagsAgree /\ EdgesFlagged /\ HeldLongEnough

(* A register file at reset. *)
LEMMA ResetSettings == PinReset0 \in PinSettings /\ PinReset0.isf = FALSE
BY DEF PinReset0, PinSettings

(* The filter after a reset follows the pins as they stand. *)
LEMMA ClearedFilter ==
  ASSUME NEW drive
  PROVE  /\ PinsCleared(drive) \in [on : SUBSET Pins, width : PinWidths \cup {0}, level : SUBSET Pins,
                                    target : SUBSET Pins, age : [Pins -> 0..MaxWidth]]
         /\ PinsCleared(drive).on = {}
         /\ PinsCleared(drive).age = [p \in Pins |-> 0]
BY WidthsBounded DEF PinsCleared, RawLevel

(* The initial states and those after a reset are sound. *)
LEMMA PinsInitially == PinsInit => PinsInv
<1> SUFFICES ASSUME PinsInit PROVE PinsInv
  OBVIOUS
<1> USE ResetSettings, WidthsBounded, ClearedFilter DEF PinsInit
<1>1. PinsTypeOK
  BY DEF PinsTypeOK, Drives, HeldBound
<1>2. FlagsAgree /\ EdgesFlagged
  BY DEF FlagsAgree, EdgesFlagged
<1>3. HeldLongEnough
  BY DEF HeldLongEnough, HeldBound
<1> QED
  BY <1>1, <1>2, <1>3 DEF PinsInv

(* What raises flags raises them in both registers, and leaves the setups alone. *)
LEMMA RaisedTogether ==
  ASSUME PinsTypeOK, FlagsAgree, NEW moved \in SUBSET Pins, NEW levels \in SUBSET Pins,
         Raise(moved, levels)
  PROVE  /\ pin' \in [Pins -> PinSettings]
         /\ pinIsfr' = {p \in Pins : pin'[p].isf}
         /\ pinIsfr \subseteq pinIsfr'
         /\ {q \in moved : (q \in Level) # (q \in levels) /\ Triggers(pin[q].irqc, q \in levels)}
              \subseteq pinIsfr'
         /\ \A p \in Pins : [pin'[p] EXCEPT !.isf = FALSE] = [pin[p] EXCEPT !.isf = FALSE]
<1> DEFINE flagged == {p \in moved : Flagged(p, p \in Level, p \in levels)}
<1>1. pin' = [p \in Pins |-> [pin[p] EXCEPT !.isf = @ \/ p \in flagged]]
  BY DEF Raise
<1>2. pinIsfr' = pinIsfr \cup flagged
  BY DEF Raise, FlagsOf
<1>3. \A p \in Pins : pin[p] \in PinSettings
  BY DEF PinsTypeOK
<1>4. ASSUME NEW p \in Pins
      PROVE  /\ pin'[p] \in PinSettings
             /\ pin'[p].isf <=> (pin[p].isf \/ p \in flagged)
             /\ [pin'[p] EXCEPT !.isf = FALSE] = [pin[p] EXCEPT !.isf = FALSE]
  <2> HIDE DEF flagged
  <2>1. pin'[p] = [pin[p] EXCEPT !.isf = pin[p].isf \/ p \in flagged]
    BY <1>1
  <2> QED
    BY <1>3, <2>1 DEF PinSettings
<1>5. pin' \in [Pins -> PinSettings]
  BY <1>1, <1>4
<1>6. pinIsfr' = {p \in Pins : pin'[p].isf}
  BY <1>2, <1>4 DEF FlagsAgree
<1>7. {q \in moved : (q \in Level) # (q \in levels) /\ Triggers(pin[q].irqc, q \in levels)}
        \subseteq flagged
  BY DEF Flagged
<1> QED
  BY <1>2, <1>4, <1>5, <1>6, <1>7

PinsStepSound == PinsInv' /\ GlitchesFiltered /\ LockedSetupsKept

(* What writes no register of a pin locks in every setup. *)
LEMMA SetupsStay ==
  ASSUME \A p \in Pins : [pin'[p] EXCEPT !.isf = FALSE] = [pin[p] EXCEPT !.isf = FALSE]
  PROVE  LockedSetupsKept
BY DEF LockedSetupsKept

(* A drive moves an unfiltered pin at once and restarts the filter of another. *)
LEMMA DriveSound ==
  ASSUME PinsInv, NEW p \in Pins, NEW how \in Drives, Drive(p, how)
  PROVE  PinsStepSound
<1> DEFINE drive == [pinDrive EXCEPT ![p] = how]
           target == RawLevel(pin, pinDir, pinOut, drive)
           moved == {p} \ pinFilter.on
<1>1. target \in SUBSET Pins /\ moved \in SUBSET Pins
  BY DEF RawLevel
<1>2. Raise(moved, target)
  BY DEF Drive
<1>3. pinDrive' = drive /\ UNCHANGED <<pinDir, pinOut>>
  BY DEF Drive
<1>4. pinFilter' = IF p \in pinFilter.on
                   THEN [Restarted(pinFilter, p) EXCEPT
                           !.target = IF p \in target THEN @ \cup {p} ELSE @ \ {p}]
                   ELSE [pinFilter EXCEPT
                           !.level = IF p \in target THEN @ \cup {p} ELSE @ \ {p}]
  BY DEF Drive
<1>5. pinSeen' =
        [edges |-> pinSeen.edges \cup
                     {q \in moved : (q \in Level) # (q \in target) /\ Triggers(pin[q].irqc, q \in target)},
         held  |-> IF p \in moved \/ pinDrive[p] = how THEN pinSeen.held
                   ELSE [pinSeen.held EXCEPT ![p] = 0]]
  BY DEF Drive
<1> HIDE DEF drive, target
<1>6. PinsTypeOK /\ FlagsAgree /\ EdgesFlagged /\ HeldLongEnough
  BY DEF PinsInv
<1>7. PinsTypeOK'
  <2>1. pin' \in [Pins -> PinSettings] /\ pinIsfr' \in SUBSET Pins
    BY <1>1, <1>2, <1>6, RaisedTogether
  <2>2. pinDrive' \in [Pins -> Drives] /\ {pinDir', pinOut'} \subseteq SUBSET Pins
    BY <1>3, <1>6 DEF PinsTypeOK, drive
  <2>3. pinFilter' \in [on : SUBSET Pins, width : PinWidths \cup {0}, level : SUBSET Pins,
                        target : SUBSET Pins, age : [Pins -> 0..MaxWidth]]
    <3>1. CASE p \in pinFilter.on
      <4>1. pinFilter' = [pinFilter EXCEPT !.age = [pinFilter.age EXCEPT ![p] = 0],
                            !.target = IF p \in target THEN @ \cup {p} ELSE @ \ {p}]
        BY <1>4, <1>6, <3>1 DEF PinsTypeOK, Restarted
      <4>2. [pinFilter.age EXCEPT ![p] = 0] \in [Pins -> 0..MaxWidth]
        BY <1>6, WidthsBounded DEF PinsTypeOK
      <4> HIDE DEF moved
      <4> QED
        BY <1>6, <4>1, <4>2 DEF PinsTypeOK
    <3>2. CASE p \notin pinFilter.on
      BY <1>4, <1>6, <3>2 DEF PinsTypeOK
    <3> QED
      BY <3>1, <3>2
  <2>4. pinSeen' \in [edges : SUBSET Pins, held : [Pins -> 0..HeldBound]]
    BY <1>5, <1>6, <1>1, WidthsBounded DEF PinsTypeOK, HeldBound
  <2> QED
    BY <2>1, <2>2, <2>3, <2>4 DEF PinsTypeOK
<1>8. FlagsAgree' /\ EdgesFlagged'
  <2>1. /\ pinIsfr' = {q \in Pins : pin'[q].isf}
        /\ pinIsfr \subseteq pinIsfr'
        /\ {q \in moved : (q \in Level) # (q \in target) /\ Triggers(pin[q].irqc, q \in target)}
             \subseteq pinIsfr'
    BY <1>1, <1>2, <1>6, RaisedTogether
  <2>2. pinSeen'.edges \subseteq pinIsfr'
    BY <1>5, <1>6, <2>1 DEF EdgesFlagged
  <2> QED
    BY <2>1, <2>2 DEF FlagsAgree, EdgesFlagged
<1>9. HeldLongEnough'
  <2>1. pinFilter'.on = pinFilter.on
    BY <1>4, <1>6 DEF PinsTypeOK, Restarted
  <2>2. \A q \in Pins : /\ q # p => pinFilter'.age[q] = pinFilter.age[q]
                        /\ p \in pinFilter.on => pinFilter'.age[p] = 0
                        /\ p \notin pinFilter.on => pinFilter'.age[p] = pinFilter.age[p]
    BY <1>4, <1>6 DEF PinsTypeOK, Restarted
  <2>3. \A q \in Pins : /\ q # p => pinSeen'.held[q] = pinSeen.held[q]
                        /\ p \notin pinFilter.on => pinSeen'.held[p] = pinSeen.held[p]
                        /\ pinSeen'.held[p] \in 0..HeldBound
    BY <1>5, <1>6, WidthsBounded DEF PinsTypeOK, HeldBound
  <2> QED
    BY <1>6, <2>1, <2>2, <2>3 DEF HeldLongEnough
<1>10. GlitchesFiltered
  BY <1>4, <1>6 DEF GlitchesFiltered, PinsTypeOK, Restarted
<1>11. LockedSetupsKept
  BY <1>1, <1>2, <1>6, RaisedTogether, SetupsStay
<1> QED
  BY <1>7, <1>8, <1>9, <1>10, <1>11 DEF PinsInv, PinsStepSound

(* A filtered pin moves when it has differed for longer than its width, and what it
   was driven to has held at least as long. *)
LEMMA AdvanceSound ==
  ASSUME PinsInv, NEW cycles \in PinSteps, PinsAdvance(cycles)
  PROVE  PinsStepSound
<1> DEFINE f == PinsAdvanced(pinFilter, cycles)
           moved == Due(pinFilter, cycles)
<1>1. PinsTypeOK /\ FlagsAgree /\ EdgesFlagged /\ HeldLongEnough /\ cycles \in Nat
  BY PinsAssumption DEF PinsInv
<1>2. /\ pinFilter' = f
      /\ Raise(moved, f.level)
      /\ pinSeen' = [edges |-> pinSeen.edges \cup
                       {q \in moved : (q \in Level) # (q \in f.level) /\ Triggers(pin[q].irqc, q \in f.level)},
                     held  |-> [p \in Pins |-> IF pinSeen.held[p] + cycles > HeldBound THEN HeldBound
                                               ELSE pinSeen.held[p] + cycles]]
      /\ UNCHANGED <<pinDir, pinOut, pinDrive>>
  BY DEF PinsAdvance
<1>3. moved \subseteq pinFilter.on /\ moved \in SUBSET Pins
  BY <1>1 DEF PinsTypeOK, Due
<1>4. \A p \in moved : pinFilter.age[p] + cycles > pinFilter.width
  BY DEF Due
<1>5. ASSUME NEW p \in Pins
      PROVE  /\ f.age[p] \in {0, pinFilter.age[p], pinFilter.age[p] + cycles}
             /\ f.age[p] \in 0..MaxWidth
  <2>1. f.age[p] = IF p \in moved THEN 0
                   ELSE IF p \in {q \in pinFilter.on \ moved :
                                    (q \in pinFilter.target) # (q \in pinFilter.level)}
                   THEN pinFilter.age[p] + cycles ELSE pinFilter.age[p]
    BY <1>1 DEF PinsAdvanced, Aged, PinsTypeOK
  <2>2. p \in {q \in pinFilter.on \ moved : (q \in pinFilter.target) # (q \in pinFilter.level)}
          => ~(pinFilter.age[p] + cycles > pinFilter.width)
    BY DEF Due
  <2> HIDE DEF f, moved
  <2> QED
    BY <1>1, <2>1, <2>2, WidthsBounded DEF PinsTypeOK
<1>6. /\ f.on = pinFilter.on /\ f.width = pinFilter.width /\ f.target = pinFilter.target
      /\ f.level = (pinFilter.level \ moved) \cup (pinFilter.target \cap moved)
      /\ f = [on |-> f.on, width |-> f.width, level |-> f.level, target |-> f.target, age |-> f.age]
      /\ f.age = [p \in Pins |-> f.age[p]]
  <2> DEFINE age == [p \in Pins |-> IF p \in moved THEN 0
                       ELSE IF p \in {q \in pinFilter.on \ moved :
                                        (q \in pinFilter.target) # (q \in pinFilter.level)}
                       THEN pinFilter.age[p] + cycles ELSE pinFilter.age[p]]
             level == (pinFilter.level \ moved) \cup (pinFilter.target \cap moved)
  <2>1. f = [pinFilter EXCEPT !.level = level, !.age = age]
    BY Zenon DEF PinsAdvanced, Aged
  <2>2. age = [p \in Pins |-> age[p]]
    OBVIOUS
  <2> HIDE DEF f, age, level, moved
  <2>3. /\ f.on = pinFilter.on /\ f.width = pinFilter.width /\ f.target = pinFilter.target
        /\ f.level = level /\ f.age = age
        /\ f = [on |-> f.on, width |-> f.width, level |-> f.level, target |-> f.target,
                age |-> f.age]
    BY <1>1, <2>1 DEF PinsTypeOK
  <2> QED
    BY <2>2, <2>3 DEF level
<1> HIDE DEF f, moved
<1>7. PinsTypeOK'
  <2>1. pin' \in [Pins -> PinSettings] /\ pinIsfr' \in SUBSET Pins
    BY <1>1, <1>2, <1>3, <1>6, RaisedTogether DEF PinsTypeOK
  <2>2. f \in [on : SUBSET Pins, width : PinWidths \cup {0}, level : SUBSET Pins,
               target : SUBSET Pins, age : [Pins -> 0..MaxWidth]]
    <3>1. f.age \in [Pins -> 0..MaxWidth]
      BY <1>5, <1>6
    <3> QED
      BY <1>1, <1>6, <3>1 DEF PinsTypeOK
  <2>3. pinSeen' \in [edges : SUBSET Pins, held : [Pins -> 0..HeldBound]]
    BY <1>1, <1>2, <1>3, WidthsBounded DEF PinsTypeOK, HeldBound
  <2> QED
    BY <1>1, <1>2, <2>1, <2>2, <2>3 DEF PinsTypeOK
<1>8. FlagsAgree' /\ EdgesFlagged'
  <2>1. /\ pinIsfr' = {q \in Pins : pin'[q].isf}
        /\ pinIsfr \subseteq pinIsfr'
        /\ {q \in moved : (q \in Level) # (q \in f.level) /\ Triggers(pin[q].irqc, q \in f.level)}
             \subseteq pinIsfr'
    BY <1>1, <1>2, <1>3, <1>6, RaisedTogether DEF PinsTypeOK
  <2>2. pinSeen'.edges \subseteq pinIsfr'
    BY <1>1, <1>2, <2>1 DEF EdgesFlagged
  <2> QED
    BY <2>1, <2>2 DEF FlagsAgree, EdgesFlagged
<1>9. \A p \in Pins : /\ pinSeen'.held[p] = IF pinSeen.held[p] + cycles > HeldBound THEN HeldBound
                                            ELSE pinSeen.held[p] + cycles
                      /\ pinSeen.held[p] \in Nat /\ pinFilter.age[p] \in Nat
  BY <1>1, <1>2, WidthsBounded DEF PinsTypeOK, HeldBound
<1>10. HeldLongEnough'
  BY <1>1, <1>2, <1>5, <1>6, <1>9, WidthsBounded DEF HeldLongEnough, HeldBound
<1>11. GlitchesFiltered
  <2> SUFFICES ASSUME NEW p \in pinFilter.on, (p \in pinFilter.level) # (p \in pinFilter'.level)
               PROVE  pinSeen'.held[p] > pinFilter.width
    BY DEF GlitchesFiltered
  <2>1. p \in moved /\ p \in Pins
    BY <1>1, <1>2, <1>3, <1>6 DEF PinsTypeOK
  <2>2. pinFilter.width \in Nat /\ pinFilter.width < HeldBound
    BY <1>1, WidthsBounded DEF PinsTypeOK, HeldBound
  <2> QED
    BY <1>1, <1>4, <1>9, <2>1, <2>2, WidthsBounded DEF HeldLongEnough, HeldBound
<1>12. LockedSetupsKept
  BY <1>1, <1>2, <1>3, <1>6, RaisedTogether, SetupsStay DEF PinsTypeOK
<1> QED
  BY <1>7, <1>8, <1>10, <1>11, <1>12 DEF PinsInv, PinsStepSound

(* Registers of the pins: the filter and what it has held do not move. *)
LEMMA SetupSound ==
  ASSUME PinsInv, pin' \in [Pins -> PinSettings], NEW cleared \in SUBSET Pins,
         pinIsfr' = pinIsfr \ cleared, ForgetCleared(cleared),
         \A p \in Pins : pin'[p].isf <=> (pin[p].isf /\ p \notin cleared),
         UNCHANGED <<pinDir, pinOut, pinDrive, pinFilter>>
  PROVE  PinsInv' /\ GlitchesFiltered
<1>1. PinsTypeOK'
  BY DEF PinsInv, PinsTypeOK, ForgetCleared
<1>2. FlagsAgree' /\ EdgesFlagged'
  BY DEF PinsInv, PinsTypeOK, FlagsAgree, EdgesFlagged, ForgetCleared
<1>3. pinSeen'.held = pinSeen.held
  BY DEF PinsInv, PinsTypeOK, ForgetCleared
<1> QED
  BY <1>1, <1>2, <1>3 DEF PinsInv, HeldLongEnough, GlitchesFiltered

(* A locked register takes only the clearing of its flag, any other all it is
   written but the flag. *)
LEMMA WrittenSetting ==
  ASSUME NEW old \in PinSettings, NEW new \in PinSettings, NEW clear \in BOOLEAN
  PROVE  /\ Written(old, new, clear) \in PinSettings
         /\ Written(old, new, clear).isf <=> (old.isf /\ ~clear)
         /\ old.lock => [Written(old, new, clear) EXCEPT !.isf = FALSE] = [old EXCEPT !.isf = FALSE]
BY DEF Written, PinSettings

LEMMA WritePcrSound ==
  ASSUME PinsInv, NEW p \in Pins, NEW setup \in PinSetups, NEW clear \in BOOLEAN,
         WritePcr(p, setup, clear)
  PROVE  PinsStepSound
<1> DEFINE cleared == IF clear THEN {p} ELSE {}
<1>1. \A q \in Pins : pin[q] \in PinSettings
  BY DEF PinsInv, PinsTypeOK
<1>2. pin' = [pin EXCEPT ![p] = Written(pin[p], setup, clear)]
  BY DEF WritePcr
<1>3. setup \in PinSettings
  BY PinsAssumption
<1>4. pin' \in [Pins -> PinSettings]
  BY <1>1, <1>2, <1>3, WrittenSetting DEF PinsInv, PinsTypeOK
<1>5. \A q \in Pins : pin'[q] = IF q = p THEN Written(pin[p], setup, clear) ELSE pin[q]
  BY <1>2 DEF PinsInv, PinsTypeOK
<1>6. /\ Written(pin[p], setup, clear).isf <=> (pin[p].isf /\ ~clear)
      /\ pin[p].lock => [Written(pin[p], setup, clear) EXCEPT !.isf = FALSE]
                          = [pin[p] EXCEPT !.isf = FALSE]
  BY <1>1, <1>3, WrittenSetting
<1>7. PinsInv' /\ GlitchesFiltered
  <2>1. cleared \in SUBSET Pins /\ pinIsfr' = pinIsfr \ cleared /\ ForgetCleared(cleared)
    BY DEF WritePcr
  <2>2. \A q \in Pins : pin'[q].isf <=> (pin[q].isf /\ q \notin cleared)
    <3> SUFFICES ASSUME NEW q \in Pins PROVE pin'[q].isf <=> (pin[q].isf /\ q \notin cleared)
      OBVIOUS
    <3>1. CASE q = p
      BY <1>5, <1>6, <3>1, Zenon
    <3>2. CASE q # p
      BY <1>5, <3>2
    <3> QED
      BY <3>1, <3>2
  <2> HIDE DEF cleared
  <2> QED
    BY <1>4, <2>1, <2>2, SetupSound DEF WritePcr
<1>8. LockedSetupsKept
  <2> SUFFICES ASSUME NEW q \in Pins, pin[q].lock
               PROVE  [pin'[q] EXCEPT !.isf = FALSE] = [pin[q] EXCEPT !.isf = FALSE]
    BY DEF LockedSetupsKept
  <2>1. CASE q = p
    BY <1>5, <1>6, <2>1
  <2>2. CASE q # p
    BY <1>5, <2>2
  <2> QED
    BY <2>1, <2>2
<1> QED
  BY <1>7, <1>8 DEF PinsStepSound

LEMMA WriteGlobalSound ==
  ASSUME PinsInv, NEW selected \in SUBSET Pins, NEW setup \in PinSetups,
         WriteGlobal(selected, setup)
  PROVE  PinsStepSound
<1> DEFINE new == [setup EXCEPT !.irqc = 0]
<1>1. \A q \in Pins : pin[q] \in PinSettings
  BY DEF PinsInv, PinsTypeOK
<1>2. pin' = [q \in Pins |-> IF q \in selected THEN Written(pin[q], new, FALSE) ELSE pin[q]]
  BY DEF WriteGlobal
<1>3. new \in PinSettings
  BY PinsAssumption DEF PinSettings
<1> HIDE DEF new
<1>4. pin' \in [Pins -> PinSettings]
  BY <1>1, <1>2, <1>3, WrittenSetting
<1>5. \A q \in Pins : pin'[q].isf <=> (pin[q].isf /\ q \notin {})
  BY <1>1, <1>2, <1>3, WrittenSetting
<1>6. PinsInv' /\ GlitchesFiltered
  BY <1>4, <1>5, SetupSound DEF WriteGlobal
<1>7. LockedSetupsKept
  BY <1>1, <1>2, <1>3, WrittenSetting DEF LockedSetupsKept
<1> QED
  BY <1>6, <1>7 DEF PinsStepSound

LEMMA WriteIsfrSound ==
  ASSUME PinsInv, NEW cleared \in SUBSET Pins, WriteIsfr(cleared)
  PROVE  PinsStepSound
<1>1. \A q \in Pins : pin[q] \in PinSettings
  BY DEF PinsInv, PinsTypeOK
<1>2. pin' = [q \in Pins |-> [pin[q] EXCEPT !.isf = @ /\ q \notin cleared]]
  BY DEF WriteIsfr, ClearedIn
<1>3. ASSUME NEW q \in Pins
      PROVE  /\ pin'[q] \in PinSettings
             /\ pin'[q].isf <=> (pin[q].isf /\ q \notin cleared)
             /\ [pin'[q] EXCEPT !.isf = FALSE] = [pin[q] EXCEPT !.isf = FALSE]
  <2>1. pin'[q] = [pin[q] EXCEPT !.isf = pin[q].isf /\ q \notin cleared]
    BY <1>2
  <2> QED
    BY <1>1, <2>1 DEF PinSettings
<1>4. pin' \in [Pins -> PinSettings]
  BY <1>2, <1>3
<1> QED
  BY <1>3, <1>4, SetupSound, SetupsStay DEF WriteIsfr, PinsStepSound

(* The other registers of the port, and a reset. *)
LEMMA PortSound ==
  ASSUME PinsInv,
         \/ \E on \in SUBSET Pins : WriteDfer(on)
         \/ \E width \in PinWidths : WriteDfwr(width)
         \/ \E out \in SUBSET Pins : WriteOut(out)
         \/ \E dir \in SUBSET Pins : WriteDir(dir)
  PROVE  PinsStepSound
<1>1. pin' = pin /\ pinIsfr' = pinIsfr
  BY DEF WriteDfer, WriteDfwr, WriteOut, WriteDir
<1>2. PinsTypeOK'
  <2>1. ASSUME NEW on \in SUBSET Pins, WriteDfer(on) PROVE PinsTypeOK'
    <3>1. pinFilter' = [pinFilter EXCEPT !.on = on, !.level = Raw] /\ Raw \in SUBSET Pins
      BY <2>1 DEF WriteDfer, Raw, RawLevel
    <3>2. pinFilter' \in [on : SUBSET Pins, width : PinWidths \cup {0}, level : SUBSET Pins,
                          target : SUBSET Pins, age : [Pins -> 0..MaxWidth]]
      BY <3>1 DEF PinsInv, PinsTypeOK
    <3>3. pinSeen' \in [edges : SUBSET Pins, held : [Pins -> 0..HeldBound]]
      <4>1. pinSeen' = [pinSeen EXCEPT !.held = [p \in Pins |-> IF p \in on THEN pinSeen.held[p]
                                                                ELSE HeldBound]]
        BY <2>1, Zenon DEF WriteDfer
      <4>2. [p \in Pins |-> IF p \in on THEN pinSeen.held[p] ELSE HeldBound] \in [Pins -> 0..HeldBound]
        BY WidthsBounded DEF PinsInv, PinsTypeOK, HeldBound
      <4> QED
        BY <4>1, <4>2 DEF PinsInv, PinsTypeOK
    <3> QED
      BY <2>1, <3>2, <3>3 DEF PinsInv, PinsTypeOK, WriteDfer
  <2>2. ASSUME NEW width \in PinWidths, WriteDfwr(width) PROVE PinsTypeOK'
    BY <2>2 DEF PinsInv, PinsTypeOK, WriteDfwr
  <2>3. ASSUME NEW S \in SUBSET Pins, WriteOut(S) \/ WriteDir(S) PROVE PinsTypeOK'
    BY <2>3 DEF PinsInv, PinsTypeOK, WriteOut, WriteDir
  <2> QED
    BY <2>1, <2>2, <2>3
<1>3. FlagsAgree' /\ EdgesFlagged'
  BY <1>1 DEF PinsInv, PinsTypeOK, FlagsAgree, EdgesFlagged, WriteDfer, WriteDfwr, WriteOut, WriteDir
<1>4. HeldLongEnough' /\ GlitchesFiltered
  <2>1. CASE \E on \in SUBSET Pins : WriteDfer(on)
    <3>1. PICK on \in SUBSET Pins : WriteDfer(on)
      BY <2>1
    <3>2. /\ pinFilter'.on = on /\ pinFilter'.age = pinFilter.age
          /\ pinSeen'.held = [p \in Pins |-> IF p \in on THEN pinSeen.held[p] ELSE HeldBound]
      BY <3>1 DEF PinsInv, PinsTypeOK, WriteDfer
    <3>3. on = pinFilter.on => pinSeen'.held = pinSeen.held
      BY <3>2 DEF PinsInv, PinsTypeOK, HeldLongEnough
    <3> QED
      BY <3>2, <3>3 DEF PinsInv, HeldLongEnough, GlitchesFiltered
  <2>2. CASE \/ \E width \in PinWidths : WriteDfwr(width)
             \/ \E out \in SUBSET Pins : WriteOut(out)
             \/ \E dir \in SUBSET Pins : WriteDir(dir)
    BY <2>2 DEF PinsInv, PinsTypeOK, HeldLongEnough, GlitchesFiltered, WriteDfwr, WriteOut, WriteDir
  <2> QED
    BY <2>1, <2>2
<1> QED
  BY <1>1, <1>2, <1>3, <1>4, SetupsStay DEF PinsInv, PinsStepSound

LEMMA PinsResetSound ==
  ASSUME PinsInv, PinsReset
  PROVE  PinsStepSound
<1> USE ResetSettings, WidthsBounded, ClearedFilter
<1>1. PinsTypeOK'
  BY DEF PinsInv, PinsTypeOK, PinsReset, HeldBound
<1>2. FlagsAgree' /\ EdgesFlagged' /\ HeldLongEnough' /\ LockedSetupsKept
  BY DEF FlagsAgree, EdgesFlagged, HeldLongEnough, LockedSetupsKept, PinsReset, HeldBound
<1>3. GlitchesFiltered
  BY DEF GlitchesFiltered, PinsReset
<1> QED
  BY <1>1, <1>2, <1>3 DEF PinsInv, PinsStepSound

(* An edge the outside or a filter brings is flagged in both registers until it is
   cleared, a glitch does not pass the filter, and a locked setup stays: for every
   number of pins, every setting and every width. *)
THEOREM PinsAreHonest == PinsSpec => PinsHonest
<1>1. ASSUME PinsInv, [PinsNext]_pinsVars PROVE PinsStepSound
  <2>1. CASE UNCHANGED pinsVars
    BY <1>1, <2>1 DEF pinsVars, PinsStepSound, PinsInv, PinsTypeOK, FlagsAgree, EdgesFlagged,
                      HeldLongEnough, GlitchesFiltered, LockedSetupsKept
  <2> QED
    BY <1>1, <2>1, DriveSound, AdvanceSound, WritePcrSound, WriteGlobalSound, WriteIsfrSound,
       PortSound, PinsResetSound DEF PinsNext
<1>2. PinsStepSound => PinsInv' /\ GlitchesFiltered /\ LockedSetupsKept
  BY DEF PinsStepSound
<1>3. PinsInv => FlagsAgree /\ EdgesFlagged
  BY DEF PinsInv
<1> QED
  BY <1>1, <1>2, <1>3, PinsInitially, PTL DEF PinsSpec, PinsHonest

-----------------------------------------------------------------------------
(* Transfers of the card *)

(* The largest card is one of them. *)
LEMMA CardsBounded == SdLargest \in Nat /\ \A s \in SdCards \cup {0} : s \in Nat /\ s <= SdLargest
<1>1. SdLargest \in SdCards /\ \A t \in SdCards : t <= SdLargest
  BY SdAssumption, Zenon DEF SdLargest
<1> QED
  BY <1>1, SdAssumption

(* A transfer never runs past the end of the largest card, and one that writes was
   begun with a card that may be written. *)
MoveBegunSoundly ==
  /\ sdMove.address + sdMove.left <= SdLargest
  /\ sdMove.left > 0 /\ ~sdMove.read /\ ~sdSwapped => ~sd.protected

SdInv == SdTypeOK /\ MovesInCard /\ MoveBegunSoundly

SdStepSound == SdInv' /\ ProtectedUntouched /\ MovesTold

SdTypes == [present : BOOLEAN, size : SdCards \cup {0}, protected : BOOLEAN,
            selected : BOOLEAN, app : BOOLEAN, length : SdLengths \cup {SdBlock}]
MoveTypes == [address : 0 .. SdLargest, left : 0 .. SdLargest, read : BOOLEAN]

(* The sizes of the card and of what it moves are numbers. *)
LEMMA CardNumbers ==
  ASSUME SdInv
  PROVE  /\ sd.size \in Nat /\ sd.size <= SdLargest
         /\ sdMove.address \in Nat /\ sdMove.left \in Nat
         /\ sd \in SdTypes /\ sdMove \in MoveTypes
BY CardsBounded DEF SdInv, SdTypeOK, SdTypes, MoveTypes

(* What is asked of the card is a number of words. *)
LEMMA WordsAreNumbers ==
  ASSUME SdInv, NEW size \in SdSizes, NEW count \in SdCounts, NEW multiple \in BOOLEAN,
         NEW arg \in 0 .. 1
  PROVE  Words(size, count, multiple) \in Nat /\ arg * SdBlock \in Nat
<1>1. sd.length \in Nat
  BY SdAssumption DEF SdInv, SdTypeOK
<1>2. size \in Nat /\ count \in Nat
  BY SdAssumption
<1>3. \A a, b \in Nat : a * b \in Nat
  OBVIOUS
<1> DEFINE length == IF size = 0 THEN sd.length ELSE size
           blocks == IF multiple /\ count > 0 THEN count ELSE 1
<1>4. length \in Nat /\ blocks \in Nat
  BY <1>1, <1>2
<1>5. Words(size, count, multiple) = length * blocks
  BY DEF Words
<1> HIDE DEF length, blocks
<1> QED
  BY <1>3, <1>4, <1>5, SdAssumption

(* Events are recorded as far as they are enabled. *)
LEMMA EventsTyped ==
  ASSUME SdInv, NEW events, sdIrq' = Status(events)
  PROVE  sdIrq' \subseteq SdEvents /\ \A e \in events : e \in sdIrq' \/ e \notin sdEnable
BY SdAssumption DEF SdInv, SdTypeOK, Status

(* A step that leaves the transfer and the card alone keeps them sound. *)
LEMMA SdUntouched ==
  ASSUME SdInv, SdTypeOK', sdMove' = sdMove, sdCard' = sdCard, sdSwapped' = sdSwapped,
         sd'.present = sd.present, sd'.size = sd.size, sd'.protected = sd.protected
  PROVE  SdStepSound
BY CardNumbers
   DEF SdInv, SdStepSound, MovesInCard, MoveBegunSoundly, ProtectedUntouched, MovesTold, MoveTypes

(* Commands that move nothing. *)
LEMMA AnswerSound ==
  ASSUME SdInv, NEW app \in BOOLEAN, NEW selected \in BOOLEAN, NEW length \in SdLengths \cup {SdBlock},
         NEW events, sdIrq' = Status(events),
         sd' = [sd EXCEPT !.app = app, !.selected = selected, !.length = length],
         UNCHANGED <<sdCard, sdMove, sdEnable, sdClock, sdSwapped>>
  PROVE  SdStepSound
<1>1. /\ sd' \in SdTypes /\ sd'.present = sd.present /\ sd'.size = sd.size
      /\ sd'.protected = sd.protected
  BY CardNumbers DEF SdTypes
<1>2. SdTypeOK'
  BY <1>1, EventsTyped DEF SdInv, SdTypeOK, SdTypes
<1> QED
  BY <1>1, <1>2, SdUntouched

LEMMA RefusedSound ==
  ASSUME SdInv, NEW arg, NEW words, NEW read, SdRefused(arg, words, read)
  PROVE  SdStepSound
<1>1. sd' = [sd EXCEPT !.app = FALSE, !.selected = sd.selected, !.length = sd.length]
  BY CardNumbers DEF SdRefused, SdTypes
<1>2. sd.selected \in BOOLEAN /\ sd.length \in SdLengths \cup {SdBlock}
  BY CardNumbers DEF SdTypes
<1>3. PICK events : sdIrq' = Status(events)
  BY DEF SdRefused, Answered
<1> QED
  BY <1>1, <1>2, <1>3, AnswerSound DEF SdRefused, Answered

LEMMA OtherSound ==
  ASSUME SdInv, SdOther
  PROVE  SdStepSound
<1>1. PICK app \in BOOLEAN, selected \in BOOLEAN, length \in SdLengths \cup {SdBlock} :
        \E events : SdCommand(app, selected, length, events)
  BY CardNumbers DEF SdOther, SdTypes
<1>2. PICK events : SdCommand(app, selected, length, events)
  BY <1>1
<1> QED
  BY <1>1, <1>2, AnswerSound DEF SdCommand, Answered

(* What begins lies on a card that is there, and is not protected if it writes. *)
LEMMA BeginsSound ==
  ASSUME SdInv, NEW arg, arg * SdBlock \in Nat, NEW words \in Nat, NEW read \in BOOLEAN,
         SdBegins(arg, words, read)
  PROVE  SdStepSound
<1>1. /\ sd.present /\ words > 0 /\ arg * SdBlock + words <= sd.size /\ (read \/ ~sd.protected)
      /\ sd' = [sd EXCEPT !.app = FALSE]
      /\ sdMove' = [address |-> arg * SdBlock, left |-> words, read |-> read]
      /\ sdIrq' = Status({"ready", "command"}) /\ sdSwapped' = FALSE
      /\ UNCHANGED <<sdCard, sdEnable, sdClock>>
  BY DEF SdBegins, Allowed, Possible, InCard, MoveStarted, Answered
<1> DEFINE address == arg * SdBlock
<1> HIDE DEF address
<1>2. address \in Nat /\ address + words <= sd.size /\ sdMove'.address = address
      /\ sdMove'.left = words /\ sdMove'.read = read
  BY <1>1 DEF address
<1>3. /\ sd' \in SdTypes /\ sd'.present = sd.present /\ sd'.size = sd.size
      /\ sd'.protected = sd.protected
  BY <1>1, CardNumbers DEF SdTypes
<1>4. sdMove' \in MoveTypes
  BY <1>1, <1>2, CardNumbers, CardsBounded DEF MoveTypes, address
<1>5. SdTypeOK'
  BY <1>1, <1>3, <1>4, EventsTyped DEF SdInv, SdTypeOK, SdTypes, MoveTypes
<1>6. MovesInCard'
  BY <1>1, <1>2, <1>3 DEF MovesInCard
<1>7. MoveBegunSoundly'
  <2>1. address + words <= SdLargest
    BY <1>2, CardNumbers, CardsBounded
  <2>2. ~read => ~sd.protected
    BY <1>1
  <2> QED
    BY <1>2, <1>3, <2>1, <2>2, Zenon DEF MoveBegunSoundly
<1>8. ProtectedUntouched /\ MovesTold
  BY <1>1, <1>2 DEF ProtectedUntouched, MovesTold
<1> QED
  BY <1>5, <1>6, <1>7, <1>8 DEF SdStepSound, SdInv

(* The words that DMA moved are of the card; what is left of a failure too. *)
LEMMA DmaSound ==
  ASSUME SdInv, NEW arg, arg * SdBlock \in Nat, NEW words \in Nat, NEW read \in BOOLEAN,
         NEW good \in Nat, SdMovesByDma(arg, words, read, good)
  PROVE  SdStepSound
<1> DEFINE address == arg * SdBlock
<1>1. /\ sd.present /\ words > 0 /\ address + words <= sd.size /\ (read \/ ~sd.protected)
      /\ good <= words
      /\ sd' = [sd EXCEPT !.app = FALSE]
      /\ sdMove' = [address |-> address + good, left |-> words - good, read |-> read]
      /\ sdCard' = IF read THEN sdCard ELSE sdCard \cup (address .. address + good - 1)
      /\ sdSwapped' = FALSE
      /\ UNCHANGED <<sdEnable, sdClock>>
  BY DEF SdMovesByDma, Allowed, Possible, InCard, Answered
<1>2. PICK events : /\ sdIrq' = Status(events)
                    /\ good = words => "transfer" \in events
  BY DEF SdMovesByDma, Answered
<1>3. address \in Nat
  OBVIOUS
<1> HIDE DEF address
<1>4. /\ sd' \in SdTypes /\ sd'.present = sd.present /\ sd'.size = sd.size
      /\ sd'.protected = sd.protected
  BY <1>1, CardNumbers DEF SdTypes
<1>5. /\ sdMove' \in MoveTypes /\ sdMove'.address + sdMove'.left = address + words
      /\ sdMove'.left = words - good /\ sdMove'.read = read
  BY <1>1, <1>3, CardNumbers, CardsBounded DEF MoveTypes
<1>6. sdCard' \subseteq 0 .. SdLargest - 1
  BY <1>1, <1>3, CardNumbers, CardsBounded DEF SdInv, SdTypeOK
<1>7. SdTypeOK'
  BY <1>1, <1>2, <1>4, <1>5, <1>6, EventsTyped DEF SdInv, SdTypeOK, SdTypes, MoveTypes
<1>8. MovesInCard' /\ MoveBegunSoundly'
  <2>1. MovesInCard'
    BY <1>1, <1>4, <1>5 DEF MovesInCard
  <2>2. address + words <= SdLargest
    BY <1>1, <1>3, CardNumbers, CardsBounded
  <2>3. ~read => ~sd.protected
    BY <1>1
  <2> QED
    BY <1>4, <1>5, <2>1, <2>2, <2>3, Zenon DEF MoveBegunSoundly
<1>9. ProtectedUntouched
  BY <1>1, CardNumbers DEF ProtectedUntouched, SdTypes
<1>10. MovesTold
  <2>1. sdMove'.left = 0 => good = words
    BY <1>1, <1>5
  <2> QED
    BY <1>2, <2>1, EventsTyped DEF MovesTold
<1> QED
  BY <1>7, <1>8, <1>9, <1>10 DEF SdStepSound, SdInv

(* The port moves the next word of the transfer, which is on the card or was when
   it began. *)
LEMMA PortMoveSound ==
  ASSUME SdInv, NEW read \in BOOLEAN, SdPort(read)
  PROVE  SdStepSound
<1>1. /\ sdMove.left > 0 /\ sdMove.read = read
      /\ sdMove' = [sdMove EXCEPT !.address = @ + 1, !.left = @ - 1]
      /\ sdCard' = IF read THEN sdCard ELSE sdCard \cup {sdMove.address}
      /\ sdIrq' = Status(Completed(sdMove.left - 1))
      /\ UNCHANGED <<sd, sdEnable, sdClock, sdSwapped>>
  BY DEF SdPort
<1>2. sdMove.address + sdMove.left <= SdLargest
  BY DEF SdInv, MoveBegunSoundly
<1>3. /\ sdMove' \in MoveTypes /\ sdMove'.address = sdMove.address + 1
      /\ sdMove'.left = sdMove.left - 1 /\ sdMove'.read = sdMove.read
  <2>1. sdMove' = [address |-> sdMove.address + 1, left |-> sdMove.left - 1, read |-> sdMove.read]
    BY <1>1, CardNumbers DEF MoveTypes
  <2>2. /\ sdMove.address + 1 \in 0 .. SdLargest /\ sdMove.left - 1 \in 0 .. SdLargest
        /\ sdMove.read \in BOOLEAN
    BY <1>1, <1>2, CardNumbers, CardsBounded DEF MoveTypes
  <2> QED
    BY <2>1, <2>2 DEF MoveTypes
<1>4. sdCard' \subseteq 0 .. SdLargest - 1
  BY <1>1, <1>2, CardNumbers, CardsBounded DEF SdInv, SdTypeOK
<1>5. SdTypeOK'
  BY <1>1, <1>3, <1>4, EventsTyped DEF SdInv, SdTypeOK, MoveTypes
<1>6. MovesInCard' /\ MoveBegunSoundly'
  BY <1>1, <1>2, <1>3, CardNumbers DEF SdInv, MovesInCard, MoveBegunSoundly
<1>7. ProtectedUntouched
  BY <1>1 DEF SdInv, MoveBegunSoundly, ProtectedUntouched
<1>8. MovesTold
  BY <1>1, <1>3, EventsTyped DEF MovesTold, Completed
<1> QED
  BY <1>5, <1>6, <1>7, <1>8 DEF SdStepSound, SdInv

LEMMA StopsSound ==
  ASSUME SdInv, SdStops
  PROVE  SdStepSound
<1>1. /\ sd' \in SdTypes
      /\ sdMove' \in MoveTypes /\ sdMove'.left = 0 /\ sdMove'.address = sdMove.address
  <2>1. sd' \in SdTypes
    BY CardNumbers DEF SdStops, SdTypes
  <2> QED
    BY <2>1, CardNumbers, CardsBounded DEF SdStops, MoveTypes
<1>2. SdTypeOK'
  BY <1>1, EventsTyped DEF SdStops, Answered, SdInv, SdTypeOK, SdTypes, MoveTypes
<1>3. MovesTold
  <2>1. "transfer" \in sdIrq' \/ "transfer" \notin sdEnable
    BY EventsTyped DEF SdStops, Answered
  <2> QED
    BY <2>1 DEF MovesTold
<1> QED
  BY <1>1, <1>2, <1>3, CardNumbers, CardsBounded
     DEF SdStops, SdStepSound, SdInv, MovesInCard, MoveBegunSoundly, ProtectedUntouched, MoveTypes

(* The registers of status and the gate of the clock. *)
LEMMA StatusSound ==
  ASSUME SdInv, UNCHANGED <<sd, sdCard, sdMove, sdSwapped>>,
         sdIrq' \subseteq SdEvents, sdEnable' \in SdEnables, sdClock' \in BOOLEAN
  PROVE  SdStepSound
<1>1. SdTypeOK'
  BY DEF SdInv, SdTypeOK
<1> QED
  BY <1>1, SdUntouched

LEMMA SdResetSound ==
  ASSUME SdInv, NEW clock \in BOOLEAN, SdReset(clock)
  PROVE  SdStepSound
<1>1. sd' \in SdTypes
  BY CardNumbers DEF SdReset, SdTypes
<1>2. NoMove \in MoveTypes /\ NoMove.left = 0 /\ NoMove.address = 0
  BY CardsBounded DEF NoMove, MoveTypes
<1>3. SdTypeOK'
  BY <1>1, <1>2, SdAssumption DEF SdReset, SdInv, SdTypeOK, SdTypes, MoveTypes
<1> QED
  BY <1>2, <1>3, CardsBounded
     DEF SdReset, SdStepSound, SdInv, MovesInCard, MoveBegunSoundly, ProtectedUntouched, MovesTold

(* A card put in during a transfer is told from the one it began with. *)
LEMMA InsertSound ==
  ASSUME SdInv, NEW size \in SdCards, NEW protected \in BOOLEAN, SdInsert(size, protected)
  PROVE  SdStepSound
<1>1. sd' \in SdTypes
  BY CardNumbers DEF SdInsert, SdTypes
<1>2. SdTypeOK'
  BY <1>1, EventsTyped DEF SdInsert, SdInv, SdTypeOK, SdTypes
<1>3. /\ sdMove' = sdMove /\ sdCard' = {} /\ sdMove.left \in Nat
      /\ sdMove.left > 0 => sdSwapped'
  BY CardNumbers DEF SdInsert
<1>4. MovesInCard' /\ MovesTold /\ ProtectedUntouched
  BY <1>3 DEF MovesInCard, MovesTold, ProtectedUntouched
<1>5. MoveBegunSoundly'
  BY <1>3 DEF SdInv, MoveBegunSoundly
<1> QED
  BY <1>2, <1>4, <1>5 DEF SdStepSound, SdInv

LEMMA EjectSound ==
  ASSUME SdInv, SdEject
  PROVE  SdStepSound
<1>1. sd' \in SdTypes /\ ~sd'.present
  BY CardNumbers DEF SdEject, SdTypes
<1>2. sdMove' \in MoveTypes /\ sdMove'.left = 0 /\ sdMove'.address = sdMove.address
  BY CardNumbers, CardsBounded DEF SdEject, EjectedMove, MoveTypes
<1>3. SdTypeOK'
  BY <1>1, <1>2, EventsTyped DEF SdEject, SdInv, SdTypeOK, SdTypes, MoveTypes
<1> QED
  BY <1>1, <1>2, <1>3, CardNumbers
     DEF SdEject, SdStepSound, SdInv, MovesInCard, MoveBegunSoundly, ProtectedUntouched, MovesTold,
         MoveTypes

(* The socket starts empty, and nothing moves. *)
LEMMA SdInitially == SdInit => SdInv
<1> SUFFICES ASSUME SdInit PROVE SdInv
  OBVIOUS
<1>1. Sd0 \in SdTypes
  BY SdAssumption DEF Sd0, SdTypes
<1>2. NoMove \in MoveTypes /\ NoMove.left = 0 /\ NoMove.address = 0
  BY CardsBounded DEF NoMove, MoveTypes
<1>3. SdTypeOK
  <2>1. {} \in SdEnables
    BY SdAssumption
  <2> QED
    BY <1>1, <1>2, <2>1 DEF SdInit, SdTypeOK, SdTypes, MoveTypes
<1>4. MovesInCard /\ MoveBegunSoundly
  BY <1>2, CardsBounded DEF SdInit, MovesInCard, MoveBegunSoundly
<1> QED
  BY <1>3, <1>4 DEF SdInv

(* A transfer stays inside its card through partial DMA, ejection, resets and new
   commands, writes nothing on a protected card, and its end is told, for every
   size of card, block and transfer. *)
THEOREM CardTransfersAreHonest == SdSpec => TransfersHonest
<1>1. ASSUME SdInv, [SdNext]_sdVars PROVE SdStepSound
  <2>1. CASE UNCHANGED sdVars
    <3>1. sdIrq' \subseteq SdEvents /\ sdEnable' \in SdEnables /\ sdClock' \in BOOLEAN
      BY <1>1, <2>1 DEF sdVars, SdInv, SdTypeOK
    <3> QED
      BY <1>1, <2>1, <3>1, StatusSound DEF sdVars
  <2>2. ASSUME NEW arg \in 0 .. 1, NEW size \in SdSizes, NEW count \in SdCounts,
               NEW multiple \in BOOLEAN, NEW read \in BOOLEAN,
               SdIssues(arg, size, count, multiple, read)
        PROVE  SdStepSound
    BY <1>1, <2>2, WordsAreNumbers, RefusedSound, BeginsSound DEF SdIssues
  <2>3. ASSUME NEW arg \in 0 .. 1, NEW size \in SdSizes, NEW count \in SdCounts,
               NEW multiple \in BOOLEAN, NEW read \in BOOLEAN, NEW good \in 0 .. SdLargest,
               SdIssuesDma(arg, size, count, multiple, read, good)
        PROVE  SdStepSound
    BY <1>1, <2>3, WordsAreNumbers, DmaSound, CardsBounded DEF SdIssuesDma
  <2>4. CASE SdNoCard \/ (\E event \in SdEvents : SdWriteStatus({event}) \/ SdForce(event))
             \/ SdWriteStatus(SdEvents) \/ (\E enable \in SdEnables : SdWriteEnable(enable))
             \/ (\E on \in BOOLEAN : SdGate(on))
    <3>1. sdIrq' \subseteq SdEvents
      BY <1>1, <2>4 DEF SdNoCard, SdWriteStatus, SdForce, SdWriteEnable, SdGate, Status, SdInv,
                        SdTypeOK, SdEvents
    <3> QED
      BY <1>1, <2>4, <3>1, StatusSound
         DEF SdNoCard, SdWriteStatus, SdForce, SdWriteEnable, SdGate, SdInv, SdTypeOK
  <2>5. SdReset(sdClock) \/ SdReset(FALSE) => SdStepSound
    BY <1>1, SdResetSound DEF SdInv, SdTypeOK
  <2> QED
    BY <1>1, <2>1, <2>2, <2>3, <2>4, <2>5, OtherSound, StopsSound, PortMoveSound, InsertSound,
       EjectSound DEF SdNext, SdClocked
<1>2. SdStepSound => SdInv' /\ ProtectedUntouched /\ MovesTold
  BY DEF SdStepSound
<1>3. SdInv => MovesInCard
  BY DEF SdInv
<1> QED
  BY <1>1, <1>2, <1>3, SdInitially, PTL DEF SdSpec, TransfersHonest

-----------------------------------------------------------------------------
(* Power modes *)

PowerInv == PowerTypeOK /\ ModesAllowed /\ StoppedOnlyAsleep /\ PowerLinesInStep

PowerStepSound == PowerInv' /\ CausesStick

PowerTypes == [allow : SUBSET PowerModes, stop : PowerStops \cup {"stop"}, run : Running,
               stat : Running \cup Stopped \cup {"vlls"}, sleeping : BOOLEAN, deep : BOOLEAN]
WakeTypes == [high : BOOLEAN, edge : PowerEdges \cup {"none"}, flag : BOOLEAN,
              fedge : PowerEdges \cup {"none"}, fflag : BOOLEAN, module : BOOLEAN, mflag : BOOLEAN]
SupplyTypes == [detected : BOOLEAN, resets : BOOLEAN, written : BOOLEAN, die : BOOLEAN,
                warned : BOOLEAN, wie : BOOLEAN]
CauseTypes == [last : SUBSET ResetCauses, sticky : SUBSET ResetCauses, cleared : SUBSET ResetCauses]

(* What each mode asks of PMPROT. *)
LEMMA ModesProtected ==
  /\ Protects("run") = {} /\ Protects("stop") = {}
  /\ Protects("vlpr") = {"vlp"} /\ Protects("vlpw") = {"vlp"} /\ Protects("vlps") = {"vlp"}
  /\ Protects("lls") = {"lls"} /\ Protects("vlls") = {"vlls"} /\ Protects("hsrun") = {"hsrun"}
BY DEF Protects

(* The registers after a reset. *)
LEMMA RegistersOff ==
  /\ PowerOff \in PowerTypes /\ WakeOff \in WakeTypes /\ SupplyOff \in SupplyTypes
  /\ ~PowerOff.deep /\ PowerOff.stat = "run" /\ PowerOff.run = "run"
  /\ ~WakeOff.flag /\ ~WakeOff.fflag /\ ~WakeOff.mflag
  /\ ~SupplyOff.detected /\ ~SupplyOff.warned
  /\ LinesOff = [llwu |-> FALSE, lvd |-> FALSE]
BY DEF PowerOff, PowerTypes, WakeOff, WakeTypes, SupplyOff, SupplyTypes, LinesOff, Running, Stopped

(* What is switched off is sound, whatever the causes. *)
LEMMA OffSound ==
  ASSUME power' = PowerOff, wake' = WakeOff, supply' = SupplyOff, powerLine' = LinesOff,
         causes' \in CauseTypes, causes'.last \subseteq causes'.sticky \cup causes'.cleared
  PROVE  PowerInv'
<1>1. PowerTypeOK'
  BY RegistersOff DEF PowerTypeOK, PowerTypes, WakeTypes, SupplyTypes, CauseTypes
<1>2. ModesAllowed' /\ StoppedOnlyAsleep'
  BY RegistersOff, ModesProtected DEF ModesAllowed, StoppedOnlyAsleep, Stopped
<1>3. PowerLinesInStep'
  BY RegistersOff DEF PowerLinesInStep
<1> QED
  BY <1>1, <1>2, <1>3 DEF PowerInv

LEMMA PowerInitially == PowerInit => PowerInv
<1> SUFFICES ASSUME PowerInit PROVE PowerInv
  OBVIOUS
<1>1. PowerTypeOK
  BY RegistersOff
     DEF PowerInit, PowerTypeOK, PowerTypes, WakeTypes, SupplyTypes, ResetCauses
<1>2. ModesAllowed /\ StoppedOnlyAsleep
  BY RegistersOff, ModesProtected DEF PowerInit, ModesAllowed, StoppedOnlyAsleep, Stopped
<1>3. PowerLinesInStep
  BY RegistersOff DEF PowerInit, PowerLinesInStep
<1> QED
  BY <1>1, <1>2, <1>3 DEF PowerInv

LEMMA ResetBySound ==
  ASSUME PowerInv, NEW cause \in ResetCauses, ResetBy(cause)
  PROVE  PowerStepSound
<1>1. causes' \in CauseTypes /\ causes'.last \subseteq causes'.sticky \cup causes'.cleared
      /\ causes.sticky \subseteq causes'.sticky
  BY DEF ResetBy, PowerInv, PowerTypeOK, CauseTypes
<1>2. PowerInv'
  BY <1>1, OffSound DEF ResetBy
<1> QED
  BY <1>1, <1>2 DEF PowerStepSound, CausesStick

LEMMA PowerOnSound ==
  ASSUME PowerOn
  PROVE  PowerStepSound
<1>1. causes' \in CauseTypes /\ causes'.last = {"por", "lvd"}
      /\ causes'.last \subseteq causes'.sticky \cup causes'.cleared
  BY DEF PowerOn, CauseTypes, ResetCauses
<1>2. PowerInv'
  BY <1>1, OffSound DEF PowerOn
<1> QED
  BY <1>1, <1>2 DEF PowerStepSound, CausesStick

(* A write of the LLWU's registers, or an event there, refreshes its line. *)
LEMMA WakeSetSound ==
  ASSUME PowerInv, NEW w \in WakeTypes, WakeSet(w)
  PROVE  PowerStepSound
<1>1. PowerTypeOK'
  <2>1. powerLine' \in [llwu : BOOLEAN, lvd : BOOLEAN]
    BY DEF WakeSet, WakeFlags, WakeTypes, PowerInv, PowerTypeOK
  <2> QED
    BY <2>1 DEF WakeSet, WakeTypes, PowerInv, PowerTypeOK
<1>2. ModesAllowed' /\ StoppedOnlyAsleep' /\ CausesStick
  BY DEF WakeSet, PowerInv, ModesAllowed, StoppedOnlyAsleep, CausesStick
<1>3. PowerLinesInStep'
  BY DEF WakeSet, WakeFlags, PowerInv, PowerTypeOK, PowerLinesInStep
<1> QED
  BY <1>1, <1>2, <1>3 DEF PowerStepSound, PowerInv

LEMMA SupplySetSound ==
  ASSUME PowerInv, NEW s \in SupplyTypes, SupplySet(s)
  PROVE  PowerStepSound
<1>1. PowerTypeOK'
  <2>1. powerLine' \in [llwu : BOOLEAN, lvd : BOOLEAN]
    BY DEF SupplySet, SupplyFlags, SupplyTypes, PowerInv, PowerTypeOK
  <2> QED
    BY <2>1 DEF SupplySet, SupplyTypes, PowerInv, PowerTypeOK
<1>2. ModesAllowed' /\ StoppedOnlyAsleep' /\ CausesStick
  BY DEF SupplySet, PowerInv, ModesAllowed, StoppedOnlyAsleep, CausesStick
<1>3. PowerLinesInStep'
  BY DEF SupplySet, SupplyFlags, PowerInv, PowerTypeOK, PowerLinesInStep
<1> QED
  BY <1>1, <1>2, <1>3 DEF PowerStepSound, PowerInv

(* The SMC changes neither flags nor lines. *)
LEMMA PowerSetSound ==
  ASSUME PowerInv, NEW p \in PowerTypes, p.deep => p.sleeping,
         \A mode \in {p.stat, p.run} : Protects(mode) \subseteq p.allow,
         p.stat \in Stopped => p.sleeping,
         PowerSet(p)
  PROVE  PowerStepSound
<1>1. PowerTypeOK'
  BY DEF PowerSet, PowerTypes, PowerInv, PowerTypeOK
<1>2. ModesAllowed' /\ StoppedOnlyAsleep' /\ CausesStick
  BY DEF PowerSet, ModesAllowed, StoppedOnlyAsleep, CausesStick
<1>3. PowerLinesInStep'
  BY DEF PowerSet, PowerInv, PowerLinesInStep
<1> QED
  BY <1>1, <1>2, <1>3 DEF PowerStepSound, PowerInv

LEMMA AllowSound ==
  ASSUME PowerInv, NEW allow \in PowerAllows, WritePmprot(allow)
  PROVE  PowerStepSound
<1> DEFINE p == [power EXCEPT !.allow = @ \cup allow]
<1>1. power \in PowerTypes /\ allow \subseteq PowerModes
  BY PowerAssumption DEF PowerInv, PowerTypeOK, PowerTypes
<1>2. p \in PowerTypes /\ p.stat = power.stat /\ p.run = power.run /\ p.sleeping = power.sleeping
      /\ p.deep = power.deep /\ power.allow \subseteq p.allow
  BY <1>1 DEF PowerTypes
<1>3. PowerSet(p)
  BY DEF WritePmprot
<1> HIDE DEF p
<1> QED
  BY <1>2, <1>3, PowerSetSound DEF PowerInv, ModesAllowed, StoppedOnlyAsleep, PowerTypeOK

(* The run mode PMCTRL asks for is taken only if it is allowed. *)
LEMMA ControlSound ==
  ASSUME PowerInv, NEW run \in PowerRuns, NEW stop \in PowerStops, WritePmctrl(run, stop)
  PROVE  PowerStepSound
<1> DEFINE now == RunAsAsked(run)
           stat == IF power.sleeping THEN power.stat ELSE now
           p == [power EXCEPT !.run = now, !.stop = stop, !.stat = stat]
<1>1. power \in PowerTypes
  BY DEF PowerInv, PowerTypeOK, PowerTypes
<1>2. now \in Running /\ Protects(now) \subseteq power.allow
  BY <1>1, PowerAssumption DEF RunAsAsked, PowerTypes, PowerInv, ModesAllowed
<1>3. PowerSet(p)
  BY DEF WritePmctrl
<1> HIDE DEF now
<1>4. /\ stat \in Running \cup Stopped \cup {"vlls"} /\ Protects(stat) \subseteq power.allow
      /\ stat \in Stopped => power.sleeping
  BY <1>1, <1>2 DEF PowerTypes, PowerInv, ModesAllowed, StoppedOnlyAsleep, Running, Stopped
<1> HIDE DEF stat
<1>5. p \in PowerTypes /\ p.stat = stat /\ p.run = now /\ p.sleeping = power.sleeping
      /\ p.deep = power.deep /\ p.allow = power.allow
  BY <1>1, <1>2, <1>4 DEF PowerTypes
<1> HIDE DEF p
<1> QED
  BY <1>2, <1>3, <1>4, <1>5, PowerSetSound DEF PowerInv, PowerTypeOK

(* Falling asleep and waking lead to modes that are allowed, and no stop mode is shown
   by a core that runs. *)
LEMMA SleepSound ==
  ASSUME PowerInv, NEW sleeping \in BOOLEAN, NEW deep \in BOOLEAN, SetCpuSleeping(sleeping, deep)
  PROVE  PowerStepSound
<1> DEFINE depth == Depth(sleeping, deep)
           stat == IF ~sleeping THEN Woken
                   ELSE IF deep THEN StopMode
                   ELSE IF power.run = "vlpr" THEN "vlpw" ELSE power.run
           p == [power EXCEPT !.sleeping = sleeping, !.deep = depth, !.stat = stat]
<1>1. power \in PowerTypes
  BY DEF PowerInv, PowerTypeOK, PowerTypes
<1>2. PowerSet(p)
  BY DEF SetCpuSleeping
<1>3. depth \in BOOLEAN /\ (depth => sleeping)
  BY DEF Depth
<1>4. /\ stat \in Running \cup Stopped \cup {"vlls"} /\ Protects(stat) \subseteq power.allow
      /\ stat \in Stopped => sleeping
  <2>1. CASE ~sleeping
    BY <1>1, <2>1 DEF Woken, PowerTypes, PowerInv, ModesAllowed, Running, Stopped
  <2>2. CASE sleeping /\ deep
    <3>1. stat = StopMode
      BY <2>2
    <3>2. CASE power.stop \in StopModes /\ Protects(power.stop) \subseteq power.allow
      BY <2>2, <3>1, <3>2 DEF StopMode, StopModes, Stopped
    <3>3. CASE ~(power.stop \in StopModes /\ Protects(power.stop) \subseteq power.allow)
      BY <1>1, <2>2, <3>1, <3>3 DEF StopMode, PowerTypes, PowerInv, ModesAllowed
    <3> QED
      BY <3>2, <3>3
  <2>3. CASE sleeping /\ ~deep
    <3>1. CASE power.run = "vlpr"
      BY <1>1, <2>3, <3>1, ModesProtected DEF PowerInv, ModesAllowed, Stopped
    <3>2. CASE power.run # "vlpr"
      BY <1>1, <2>3, <3>2 DEF PowerTypes, PowerInv, ModesAllowed
    <3> QED
      BY <3>1, <3>2
  <2> QED
    BY <2>1, <2>2, <2>3
<1> HIDE DEF stat, depth
<1>5. p \in PowerTypes /\ p.stat = stat /\ p.run = power.run /\ p.sleeping = sleeping
      /\ p.deep = depth /\ p.allow = power.allow
  BY <1>1, <1>3, <1>4 DEF PowerTypes
<1> HIDE DEF p
<1> QED
  BY <1>2, <1>3, <1>4, <1>5, PowerSetSound DEF PowerInv, ModesAllowed

(* A wakeup ends in the interrupt or in the reset. *)
LEMMA WakeBySound ==
  ASSUME PowerInv, NEW w \in WakeTypes, WakeBy(w)
  PROVE  PowerStepSound
BY WakeSetSound, ResetBySound DEF WakeBy, ResetCauses

(* The pin moves: seen in low leakage only. *)
LEMMA WakePinSound ==
  ASSUME PowerInv, NEW high \in BOOLEAN, SetLlwuPin(high)
  PROVE  PowerStepSound
<1> DEFINE pinEdge == EdgeSeen(wake.edge, wake.high, high)
           filter == EdgeSeen(wake.fedge, wake.high, high)
           flag == wake.flag \/ pinEdge
           fflag == wake.fflag \/ filter
           seen == [wake EXCEPT !.high = high, !.flag = flag, !.fflag = fflag]
           moved == [wake EXCEPT !.high = high]
<1>1. wake \in WakeTypes
  BY DEF PowerInv, PowerTypeOK, WakeTypes
<1>2. flag \in BOOLEAN /\ fflag \in BOOLEAN
  OBVIOUS
<1>3. \/ WakeBy(seen)
      \/ wake' = moved /\ UNCHANGED <<power, supply, causes, powerLine>>
  BY DEF SetLlwuPin
<1> HIDE DEF flag, fflag
<1>4. seen \in WakeTypes /\ moved \in WakeTypes /\ moved.flag = wake.flag
      /\ moved.fflag = wake.fflag /\ moved.mflag = wake.mflag
  BY <1>1, <1>2 DEF WakeTypes
<1> HIDE DEF seen, moved
<1>5. CASE wake' = moved /\ UNCHANGED <<power, supply, causes, powerLine>>
  <2>1. PowerTypeOK'
    BY <1>4, <1>5 DEF PowerInv, PowerTypeOK, WakeTypes
  <2>2. ModesAllowed' /\ StoppedOnlyAsleep' /\ CausesStick
    BY <1>5 DEF PowerInv, ModesAllowed, StoppedOnlyAsleep, CausesStick
  <2>3. PowerLinesInStep'
    BY <1>4, <1>5 DEF PowerInv, PowerLinesInStep
  <2> QED
    BY <2>1, <2>2, <2>3 DEF PowerStepSound, PowerInv
<1> QED
  BY <1>3, <1>4, <1>5, WakeBySound

(* The LLWU's registers keep their types. *)
LEMMA WakeWritten ==
  ASSUME PowerInv
  PROVE  /\ [wake EXCEPT !.mflag = TRUE] \in WakeTypes
         /\ [wake EXCEPT !.flag = FALSE] \in WakeTypes
         /\ \A edge \in PowerEdges : [wake EXCEPT !.edge = edge] \in WakeTypes
         /\ \A on \in BOOLEAN : [wake EXCEPT !.module = on] \in WakeTypes
         /\ \A edge \in PowerEdges, clear \in BOOLEAN :
              [wake EXCEPT !.fedge = edge, !.fflag = @ /\ ~clear] \in WakeTypes
<1>1. wake \in WakeTypes
  BY DEF PowerInv, PowerTypeOK, WakeTypes
<1>2. ASSUME NEW edge \in PowerEdges, NEW clear \in BOOLEAN
      PROVE  [wake EXCEPT !.fedge = edge, !.fflag = @ /\ ~clear] \in WakeTypes
  <2> DEFINE fflag == wake.fflag /\ ~clear
  <2>1. fflag \in BOOLEAN
    OBVIOUS
  <2> HIDE DEF fflag
  <2>2. [wake EXCEPT !.fedge = edge, !.fflag = fflag] \in WakeTypes
    BY <1>1, <2>1 DEF WakeTypes
  <2> QED
    BY <2>2 DEF fflag
<1> QED
  BY <1>1, <1>2 DEF WakeTypes

(* So do those of the PMC. *)
LEMMA SupplyWritten ==
  ASSUME PowerInv
  PROVE  /\ [supply EXCEPT !.warned = TRUE] \in SupplyTypes
         /\ [supply EXCEPT !.detected = TRUE] \in SupplyTypes
         /\ \A ack, ie \in BOOLEAN :
              [supply EXCEPT !.warned = @ /\ ~ack, !.wie = ie] \in SupplyTypes
         /\ \A ack, ie, resets \in BOOLEAN :
              [supply EXCEPT !.detected = @ /\ ~ack, !.die = ie, !.written = TRUE,
                             !.resets = IF supply.written THEN @ ELSE resets] \in SupplyTypes
<1>1. supply \in SupplyTypes
  BY DEF PowerInv, PowerTypeOK, SupplyTypes
<1>2. ASSUME NEW ack \in BOOLEAN, NEW ie \in BOOLEAN, NEW resets \in BOOLEAN
      PROVE  /\ [supply EXCEPT !.warned = @ /\ ~ack, !.wie = ie] \in SupplyTypes
             /\ [supply EXCEPT !.detected = @ /\ ~ack, !.die = ie, !.written = TRUE,
                               !.resets = IF supply.written THEN @ ELSE resets] \in SupplyTypes
  <2> DEFINE warned == supply.warned /\ ~ack
             detected == supply.detected /\ ~ack
             kept == IF supply.written THEN supply.resets ELSE resets
  <2>1. warned \in BOOLEAN /\ detected \in BOOLEAN /\ kept \in BOOLEAN
    BY <1>1 DEF SupplyTypes
  <2> HIDE DEF warned, detected, kept
  <2>2. [supply EXCEPT !.warned = warned, !.wie = ie] \in SupplyTypes
    BY <1>1, <2>1 DEF SupplyTypes
  <2>3. [supply EXCEPT !.detected = detected, !.die = ie, !.written = TRUE, !.resets = kept]
          \in SupplyTypes
    BY <1>1, <2>1 DEF SupplyTypes
  <2> QED
    BY <2>2, <2>3 DEF warned, detected, kept
<1>3. [supply EXCEPT !.warned = TRUE] \in SupplyTypes /\ [supply EXCEPT !.detected = TRUE] \in SupplyTypes
  BY <1>1 DEF SupplyTypes
<1> QED
  BY <1>2, <1>3, Zenon

(* Clearing causes shows in what was cleared. *)
LEMMA ClearSound ==
  ASSUME PowerInv, NEW cleared \in SUBSET ResetCauses, cleared # {}, ClearCauses(cleared)
  PROVE  PowerStepSound
<1>1. causes \in CauseTypes /\ causes.last \subseteq causes.sticky \cup causes.cleared
  BY DEF PowerInv, PowerTypeOK, CauseTypes
<1>2. causes' = [causes EXCEPT !.sticky = @ \ cleared, !.cleared = @ \cup cleared]
      /\ UNCHANGED <<power, wake, supply, powerLine>>
  BY DEF ClearCauses
<1>3. /\ causes' \in CauseTypes /\ causes'.cleared # {}
      /\ causes'.last \subseteq causes'.sticky \cup causes'.cleared
  BY <1>1, <1>2 DEF CauseTypes
<1>4. PowerTypeOK'
  BY <1>2, <1>3 DEF PowerInv, PowerTypeOK, CauseTypes
<1>5. ModesAllowed' /\ StoppedOnlyAsleep' /\ PowerLinesInStep' /\ CausesStick
  BY <1>2, <1>3 DEF PowerInv, ModesAllowed, StoppedOnlyAsleep, PowerLinesInStep, CausesStick
<1> QED
  BY <1>4, <1>5 DEF PowerStepSound, PowerInv

(* No mode is entered that PMPROT does not allow, the lines are those of the flags
   and a sticky cause outlives every reset from within, for whatever modes, edges and
   orders of writes, sleeps, wakeups and resets. *)
THEOREM PowerIsHonest == PowerSpec => PowerHonest
<1>1. ASSUME PowerInv, [PowerNext]_powerVars PROVE PowerStepSound
  <2>1. CASE UNCHANGED powerVars
    BY <1>1, <2>1 DEF powerVars, PowerStepSound, PowerInv, PowerTypeOK, ModesAllowed,
                      StoppedOnlyAsleep, PowerLinesInStep, CausesStick
  <2>2. CASE PowerNext
    <3>1. CASE \E allow \in PowerAllows : WritePmprot(allow)
      BY <1>1, <3>1, AllowSound
    <3>2. CASE \E run \in PowerRuns, stop \in PowerStops : WritePmctrl(run, stop)
      BY <1>1, <3>2, ControlSound
    <3>3. CASE \E sleeping, deep \in BOOLEAN : SetCpuSleeping(sleeping, deep)
      BY <1>1, <3>3, SleepSound
    <3>4. CASE \E high \in BOOLEAN : SetLlwuPin(high)
      BY <1>1, <3>4, WakePinSound
    <3>5. CASE TriggerLlwuModule
      BY <1>1, <3>5, WakeBySound, WakeWritten DEF TriggerLlwuModule
    <3>6. CASE \/ \E edge \in PowerEdges : WritePinEdge(edge)
               \/ \E on \in BOOLEAN : WriteModules(on)
               \/ ClearPinFlag
               \/ \E edge \in PowerEdges, clear \in BOOLEAN : WriteFilter(edge, clear)
      BY <1>1, <3>6, WakeSetSound, WakeWritten
         DEF WritePinEdge, WriteModules, ClearPinFlag, WriteFilter
    <3>7. CASE \/ \E ack, ie, resets \in BOOLEAN : WriteDetection(ack, ie, resets)
               \/ \E ack, ie \in BOOLEAN : WriteWarning(ack, ie)
               \/ LowVoltageWarning
      BY <1>1, <3>7, SupplySetSound, SupplyWritten
         DEF WriteDetection, WriteWarning, LowVoltageWarning
    <3>8. CASE LowVoltageDetect
      BY <1>1, <3>8, SupplySetSound, SupplyWritten, ResetBySound DEF LowVoltageDetect, ResetCauses
    <3>9. CASE \E cause \in {"por", "lvd", "wakeup"} : ClearCauses({cause})
      BY <1>1, <3>9, ClearSound DEF ResetCauses
    <3>10. CASE WatchdogResets \/ PowerOn
      BY <1>1, <3>10, ResetBySound, PowerOnSound DEF WatchdogResets, ResetCauses
    <3> QED
      BY <2>2, <3>1, <3>2, <3>3, <3>4, <3>5, <3>6, <3>7, <3>8, <3>9, <3>10 DEF PowerNext
  <2> QED
    BY <1>1, <2>1, <2>2
<1>2. PowerStepSound => PowerInv' /\ CausesStick
  BY DEF PowerStepSound
<1>3. PowerInv => ModesAllowed /\ StoppedOnlyAsleep /\ PowerLinesInStep
  BY DEF PowerInv
<1> QED
  BY <1>1, <1>2, <1>3, PowerInitially, PTL DEF PowerSpec, PowerHonest

-----------------------------------------------------------------------------
(* The analog peripherals *)

DacTypes == [on : BOOLEAN, enables : SUBSET DacFlags, buffered : BOOLEAN, down : BOOLEAN,
             pointer : DacPointers, upper : DacPointers, flags : SUBSET DacFlags,
             output : DacValues]

(* Since the pointer came round it has been at the places between the end it came
   from and its own, and at no other. *)
PlayedSoFar ==
  dacPlayed.whole =>
    /\ dac.pointer <= dac.upper
    /\ dacPlayed.words = IF dac.down THEN dac.pointer .. dac.upper ELSE 0 .. dac.pointer

DacInv ==
  /\ dac \in DacTypes
  /\ dacWord \in [DacPointers -> DacValues] /\ dacLine \in BOOLEAN
  /\ dacPlayed \in [whole : BOOLEAN, words : SUBSET DacPointers]
  /\ OutputFollows /\ DacLineHasFlag /\ PlayedSoFar

LEMMA DacInitially == DacInit => DacInv
<1> SUFFICES ASSUME DacInit PROVE DacInv
  OBVIOUS
<1>1. Dac0 \in DacTypes /\ ~Dac0.on /\ Dac0.output = 0
  BY AnalogAssumption DEF Dac0, DacTypes, DacPointers, DacFlags
<1>2. NotPlayed \in [whole : BOOLEAN, words : SUBSET DacPointers] /\ ~NotPlayed.whole
  BY DEF NotPlayed
<1> QED
  BY <1>1, <1>2, AnalogAssumption
     DEF DacInit, DacInv, OutputFollows, DacLineHasFlag, PlayedSoFar

(* The output is refreshed with the registers and the words that were written. *)
LEMMA DacWritesSound ==
  ASSUME DacInv, NEW d \in DacTypes, NEW words \in [DacPointers -> DacValues],
         d.flags = dac.flags, words = dacWord \/ d = dac,
         DacWrites(d, words)
  PROVE  DacInv'
<1> DEFINE output == OutputOf(d, words)
<1>1. output \in DacValues
  BY AnalogAssumption DEF OutputOf, DacTypes
<1>2. dac' = [d EXCEPT !.output = output] /\ dacWord' = words /\ dacLine' = dacLine
      /\ dacPlayed' = IF words = dacWord THEN NotPlayed ELSE dacPlayed
  BY DEF DacWrites, Updated
<1>3. output = IF d.on THEN words[d.pointer] ELSE 0
  BY DEF OutputOf
<1> HIDE DEF output
<1>4. /\ dac' \in DacTypes /\ dac'.on = d.on /\ dac'.pointer = d.pointer /\ dac'.upper = d.upper
      /\ dac'.down = d.down /\ dac'.flags = d.flags /\ dac'.output = output
  BY <1>1, <1>2 DEF DacTypes
<1>5. OutputFollows' /\ DacLineHasFlag'
  BY <1>2, <1>3, <1>4 DEF OutputFollows, DacLineHasFlag, DacInv
<1>6. dacPlayed' \in [whole : BOOLEAN, words : SUBSET DacPointers] /\ PlayedSoFar'
  BY <1>2, <1>4 DEF PlayedSoFar, DacInv, NotPlayed
<1> QED
  BY <1>2, <1>4, <1>5, <1>6 DEF DacInv

(* The pointer stays in the buffer and the places it was at are those behind it. *)
LEMMA DacTriggerSound ==
  ASSUME DacInv, DacTrigger
  PROVE  DacInv'
<1> DEFINE p == Moved(dac).pointer
           f == Moved(dac).flags
           flags == dac.flags \cup f
           d == [dac EXCEPT !.pointer = p, !.flags = flags]
           output == OutputOf(d, dacWord)
<1>1. dac \in DacTypes /\ dac.pointer \in 0 .. DacLast /\ dac.upper \in 0 .. DacLast
      /\ DacLast \in Nat
  BY AnalogAssumption DEF DacInv, DacTypes, DacPointers
<1>2. p \in DacPointers /\ f \subseteq DacFlags
  BY <1>1 DEF Moved, DacPointers, DacFlags
<1>3. /\ dac' = [d EXCEPT !.output = output]
      /\ dacLine' = (dac.enables \cap f # {}) /\ dacWord' = dacWord
      /\ dacPlayed' = IF CameRound(dac) THEN [whole |-> TRUE, words |-> {p}]
                      ELSE [dacPlayed EXCEPT !.words = @ \cup {p}]
  BY DEF DacTrigger, Updated
<1>4. flags \subseteq DacFlags
  BY <1>1, <1>2 DEF DacTypes
<1>5. /\ CameRound(dac) => p = (IF dac.down THEN dac.upper ELSE 0)
      /\ ~CameRound(dac) /\ dac.pointer <= dac.upper =>
           p = (IF dac.down THEN dac.pointer - 1 ELSE dac.pointer + 1) /\ p <= dac.upper
  <2>1. CASE dac.down
    BY <1>1, <2>1 DEF CameRound, Moved
  <2>2. CASE ~dac.down
    <3> DEFINE next == dac.pointer + 1
    <3>1. /\ p = (IF next > dac.upper THEN 0 ELSE next)
          /\ f = (IF next = dac.upper THEN {"watermark"}
                  ELSE IF next > dac.upper THEN {"bottom"} ELSE {})
      BY <2>2 DEF Moved
    <3>2. CameRound(dac) <=> next > dac.upper
      BY <1>1, <3>1 DEF CameRound
    <3> QED
      BY <1>1, <2>2, <3>1, <3>2
  <2> QED
    BY <2>1, <2>2
<1>6. output = IF d.on THEN dacWord[d.pointer] ELSE 0
  BY DEF OutputOf
<1> HIDE DEF p, f, flags, output
<1>7. /\ d \in DacTypes /\ d.on = dac.on /\ d.pointer = p /\ d.upper = dac.upper
      /\ d.down = dac.down /\ d.flags = flags
  BY <1>1, <1>2, <1>4 DEF DacTypes
<1> HIDE DEF d
<1>8. output \in DacValues
  BY <1>2, <1>6, <1>7, AnalogAssumption DEF DacInv
<1>9. /\ dac' \in DacTypes /\ dac'.on = dac.on /\ dac'.pointer = p /\ dac'.upper = dac.upper
      /\ dac'.down = dac.down /\ dac'.flags = flags /\ dac'.output = output
  BY <1>3, <1>7, <1>8 DEF DacTypes
<1>10. OutputFollows'
  BY <1>3, <1>6, <1>7, <1>9 DEF OutputFollows
<1>11. dacLine' \in BOOLEAN /\ DacLineHasFlag'
  BY <1>3, <1>9 DEF DacLineHasFlag, flags
<1>12. dacPlayed' \in [whole : BOOLEAN, words : SUBSET DacPointers] /\ PlayedSoFar'
  <2>1. CASE CameRound(dac)
    <3>1. dacPlayed'.words = {p} /\ dacPlayed'.whole
      BY <1>3, <2>1
    <3>2. p <= dac.upper /\ {p} = (IF dac.down THEN p .. dac.upper ELSE 0 .. p)
      BY <1>1, <1>2, <1>5, <2>1
    <3> QED
      BY <1>2, <1>3, <1>9, <2>1, <3>1, <3>2 DEF PlayedSoFar
  <2>2. CASE ~CameRound(dac)
    <3>1. dacPlayed' \in [whole : BOOLEAN, words : SUBSET DacPointers]
          /\ dacPlayed'.whole = dacPlayed.whole /\ dacPlayed'.words = dacPlayed.words \cup {p}
      BY <1>2, <1>3, <2>2 DEF DacInv
    <3>2. ASSUME dacPlayed.whole
          PROVE  /\ p <= dac.upper
                 /\ dacPlayed.words \cup {p} = IF dac.down THEN p .. dac.upper ELSE 0 .. p
      <4>1. /\ dac.pointer <= dac.upper
            /\ dacPlayed.words = IF dac.down THEN dac.pointer .. dac.upper ELSE 0 .. dac.pointer
        BY <3>2 DEF DacInv, PlayedSoFar
      <4>2. p = (IF dac.down THEN dac.pointer - 1 ELSE dac.pointer + 1) /\ p <= dac.upper
        BY <1>5, <2>2, <4>1
      <4>3. CASE dac.down
        <5>1. (dac.pointer .. dac.upper) \cup {dac.pointer - 1} = (dac.pointer - 1) .. dac.upper
          BY <1>1, <4>1
        <5> QED
          BY <4>1, <4>2, <4>3, <5>1
      <4>4. CASE ~dac.down
        <5>1. (0 .. dac.pointer) \cup {dac.pointer + 1} = 0 .. (dac.pointer + 1)
          BY <1>1
        <5> QED
          BY <4>1, <4>2, <4>4, <5>1
      <4> QED
        BY <4>3, <4>4
    <3> QED
      BY <1>9, <3>1, <3>2 DEF PlayedSoFar
  <2> QED
    BY <2>1, <2>2
<1> QED
  BY <1>3, <1>9, <1>10, <1>11, <1>12 DEF DacInv

LEMMA DacHolds ==
  DacInit /\ [][DacNext]_dacVars =>
    [](OutputFollows /\ DacLineHasFlag) /\ [][WholeBufferPlayed]_dacVars
<1>1. ASSUME DacInv, [DacNext]_dacVars PROVE DacInv'
  <2> USE <1>1
  <2>1. CASE UNCHANGED dacVars
    BY <2>1 DEF dacVars, DacInv, OutputFollows, DacLineHasFlag, PlayedSoFar
  <2>2. ASSUME NEW p \in DacPointers, NEW value \in DacValues, DacWriteWord(p, value)
        PROVE  DacInv'
    <3>1. [dacWord EXCEPT ![p] = value] \in [DacPointers -> DacValues]
      BY DEF DacInv
    <3> QED
      BY <2>2, <3>1, DacWritesSound DEF DacWriteWord, DacInv
  <2>3. ASSUME NEW on \in BOOLEAN, NEW enables \in {{}, DacFlags}, DacWriteC0(on, enables)
        PROVE  DacInv'
    <3> DEFINE d == [dac EXCEPT !.on = on, !.enables = enables]
    <3>1. d \in DacTypes /\ d.flags = dac.flags
      BY DEF DacInv, DacTypes
    <3>2. DacWrites(d, dacWord)
      BY <2>3 DEF DacWriteC0
    <3> HIDE DEF d
    <3> QED
      BY <3>1, <3>2, DacWritesSound DEF DacInv
  <2>4. ASSUME NEW buffered \in BOOLEAN, NEW down \in BOOLEAN, DacWriteC1(buffered, down)
        PROVE  DacInv'
    <3> DEFINE d == [dac EXCEPT !.buffered = buffered, !.down = down]
    <3>1. d \in DacTypes /\ d.flags = dac.flags
      BY DEF DacInv, DacTypes
    <3>2. DacWrites(d, dacWord)
      BY <2>4 DEF DacWriteC1
    <3> HIDE DEF d
    <3> QED
      BY <3>1, <3>2, DacWritesSound DEF DacInv
  <2>5. ASSUME NEW pointer \in DacPointers, NEW upper \in DacPointers, DacWriteC2(pointer, upper)
        PROVE  DacInv'
    <3> DEFINE d == [dac EXCEPT !.pointer = pointer, !.upper = upper]
    <3>1. d \in DacTypes /\ d.flags = dac.flags
      BY DEF DacInv, DacTypes
    <3>2. DacWrites(d, dacWord)
      BY <2>5 DEF DacWriteC2
    <3> HIDE DEF d
    <3> QED
      BY <3>1, <3>2, DacWritesSound DEF DacInv
  <2>6. ASSUME NEW cleared, DacWriteSr(cleared)
        PROVE  DacInv'
    <3>1. dac' \in DacTypes /\ dac' = [dac EXCEPT !.flags = @ \ cleared] /\ dacLine' = FALSE
          /\ UNCHANGED <<dacWord, dacPlayed>>
      BY <2>6 DEF DacWriteSr, DacLineAfterClear, DacInv, DacTypes
    <3>2. dac'.on = dac.on /\ dac'.pointer = dac.pointer /\ dac'.upper = dac.upper
          /\ dac'.down = dac.down /\ dac'.output = dac.output
      BY <3>1 DEF DacInv, DacTypes
    <3> QED
      BY <3>1, <3>2 DEF DacInv, OutputFollows, DacLineHasFlag, PlayedSoFar
  <2>7. CASE DacResets
    <3>1. dac' = Dac0 /\ dacWord' = [p \in DacPointers |-> 0] /\ dacLine' = FALSE
          /\ dacPlayed' = NotPlayed
      BY <2>7 DEF DacResets
    <3>2. Dac0 \in DacTypes /\ ~Dac0.on /\ Dac0.output = 0
      BY AnalogAssumption DEF Dac0, DacTypes, DacPointers, DacFlags
    <3>3. NotPlayed \in [whole : BOOLEAN, words : SUBSET DacPointers] /\ ~NotPlayed.whole
      BY DEF NotPlayed
    <3> QED
      BY <3>1, <3>2, <3>3, AnalogAssumption
         DEF DacInv, OutputFollows, DacLineHasFlag, PlayedSoFar
  <2> QED
    BY <2>1, <2>2, <2>3, <2>4, <2>5, <2>6, <2>7, DacTriggerSound DEF DacNext
<1>2. DacInv => OutputFollows /\ DacLineHasFlag /\ WholeBufferPlayed
  <2> SUFFICES ASSUME DacInv, DacTrigger, CameRound(dac), dacPlayed.whole
               PROVE  dacPlayed.words = 0 .. dac.upper
    BY DEF DacInv, WholeBufferPlayed
  <2>1. dac.pointer \in 0 .. DacLast /\ dac.upper \in 0 .. DacLast /\ DacLast \in Nat
    BY AnalogAssumption DEF DacInv, DacTypes, DacPointers
  <2>2. dac.pointer <= dac.upper => dac.pointer = (IF dac.down THEN 0 ELSE dac.upper)
    BY <2>1 DEF CameRound, Moved
  <2> QED
    BY <2>1, <2>2 DEF DacInv, PlayedSoFar
<1> QED
  BY <1>1, <1>2, DacInitially, PTL

(* The comparator *)

CmpTypes == [on : BOOLEAN, invert : BOOLEAN, plus : CmpInputs, minus : CmpInputs,
             replaced : BOOLEAN, level : CmpLevels, rising : BOOLEAN, falling : BOOLEAN,
             rose : BOOLEAN, fell : BOOLEAN, output : BOOLEAN]

CmpInv == cmp \in CmpTypes /\ cmpLine \in BOOLEAN /\ CmpLineInStep

(* An evaluation flags the edge it makes, whatever was written before it. *)
LEMMA EvaluationTells ==
  ASSUME CmpInv, NEW c \in CmpTypes, c.output = cmp.output, NEW inputs, Evaluated(c, inputs)
  PROVE  CmpInv' /\ OutputEdgesTold
<1> DEFINE out == Compares(c, inputs)
           rose == c.rose \/ (~c.output /\ out)
           fell == c.fell \/ (c.output /\ ~out)
<1>1. out \in BOOLEAN /\ rose \in BOOLEAN /\ fell \in BOOLEAN
  BY DEF Compares
<1>2. cmp' = [c EXCEPT !.output = out, !.rose = rose, !.fell = fell]
      /\ cmpLine' = LineOf(cmp')
  BY DEF Evaluated, Edged
<1>3. (~c.output /\ out => rose) /\ (c.output /\ ~out => fell)
  OBVIOUS
<1> HIDE DEF out, rose, fell
<1>4. cmp' \in CmpTypes /\ cmp'.output = out /\ cmp'.rose = rose /\ cmp'.fell = fell
  BY <1>1, <1>2 DEF CmpTypes
<1>5. cmpLine' \in BOOLEAN /\ CmpLineInStep'
  BY <1>2 DEF LineOf, CmpLineInStep
<1> QED
  BY <1>3, <1>4, <1>5 DEF CmpInv, OutputEdgesTold

LEMMA CmpHolds ==
  CmpInit /\ [][CmpNext]_cmpVars => []CmpLineInStep /\ [][OutputEdgesTold]_cmpVars
<1>1. Cmp0 \in CmpTypes /\ ~Cmp0.rising /\ ~Cmp0.falling
  BY AnalogAssumption DEF Cmp0, CmpTypes
<1>2. CmpInit => CmpInv
  BY <1>1 DEF CmpInit, CmpInv, CmpLineInStep
<1>3. ASSUME CmpInv, [CmpNext]_cmpVars PROVE CmpInv' /\ [OutputEdgesTold]_cmpVars
  <2> USE <1>3
  <2>1. CASE UNCHANGED cmpVars
    BY <2>1 DEF cmpVars, CmpInv, CmpLineInStep
  <2>2. ASSUME NEW on \in BOOLEAN, NEW invert \in BOOLEAN, CmpWriteCr1(on, invert)
        PROVE  CmpInv' /\ OutputEdgesTold
    <3>1. [cmp EXCEPT !.on = on, !.invert = invert] \in CmpTypes
          /\ [cmp EXCEPT !.on = on, !.invert = invert].output = cmp.output
      BY DEF CmpInv, CmpTypes
    <3> QED
      BY <2>2, <3>1, EvaluationTells DEF CmpWriteCr1
  <2>3. ASSUME NEW plus \in CmpInputs, NEW minus \in CmpInputs, CmpWriteMux(plus, minus)
        PROVE  CmpInv' /\ OutputEdgesTold
    <3>1. [cmp EXCEPT !.plus = plus, !.minus = minus] \in CmpTypes
          /\ [cmp EXCEPT !.plus = plus, !.minus = minus].output = cmp.output
      BY DEF CmpInv, CmpTypes
    <3> QED
      BY <2>3, <3>1, EvaluationTells DEF CmpWriteMux
  <2>4. ASSUME NEW replaced \in BOOLEAN, NEW level \in CmpLevels, CmpWriteDac(replaced, level)
        PROVE  CmpInv' /\ OutputEdgesTold
    <3>1. [cmp EXCEPT !.replaced = replaced, !.level = level] \in CmpTypes
          /\ [cmp EXCEPT !.replaced = replaced, !.level = level].output = cmp.output
      BY DEF CmpInv, CmpTypes
    <3> QED
      BY <2>4, <3>1, EvaluationTells DEF CmpWriteDac
  <2>5. ASSUME NEW i \in CmpInputs, NEW level \in CmpLevels, CmpDrive(i, level)
        PROVE  CmpInv' /\ OutputEdgesTold
    BY <2>5, EvaluationTells DEF CmpDrive, CmpInv
  <2>6. ASSUME NEW rising \in BOOLEAN, NEW falling \in BOOLEAN, NEW rose \in BOOLEAN,
               NEW fell \in BOOLEAN, CmpWriteScr(rising, falling, rose, fell)
        PROVE  CmpInv' /\ OutputEdgesTold
    <3> DEFINE keptRose == cmp.rose /\ ~rose
               keptFell == cmp.fell /\ ~fell
               c == [cmp EXCEPT !.rising = rising, !.falling = falling, !.rose = keptRose,
                                !.fell = keptFell]
    <3>1. keptRose \in BOOLEAN /\ keptFell \in BOOLEAN
      OBVIOUS
    <3>2. Evaluated(c, cmpInput)
      BY <2>6 DEF CmpWriteScr
    <3> HIDE DEF keptRose, keptFell
    <3>3. c \in CmpTypes /\ c.output = cmp.output
      BY <3>1 DEF CmpInv, CmpTypes
    <3> HIDE DEF c
    <3> QED
      BY <3>2, <3>3, EvaluationTells
  <2>7. CASE CmpResets
    BY <1>1, <2>7 DEF CmpResets, CmpInv, CmpLineInStep, OutputEdgesTold
  <2> QED
    BY <2>1, <2>2, <2>3, <2>4, <2>5, <2>6, <2>7 DEF CmpNext
<1>4. CmpInv => CmpLineInStep
  BY DEF CmpInv
<1> QED
  BY <1>2, <1>3, <1>4, PTL

(* The reference *)

(* While it waits, what it has waited and what is left make the whole time. *)
VrefInv ==
  /\ vref \in [on : BOOLEAN, stable : BOOLEAN, left : 0 .. VrefCycles] /\ vrefWaited \in Nat
  /\ vref.left # 0 => vref.on /\ ~vref.stable /\ vref.left + vrefWaited = VrefCycles
  /\ StableWaited

LEMMA VrefHolds == VrefInit /\ [][VrefNext]_vrefVars => []StableWaited
<1>1. VrefInit => VrefInv
  BY AnalogAssumption DEF VrefInit, Vref0, VrefInv, StableWaited
<1>2. ASSUME VrefInv, [VrefNext]_vrefVars PROVE VrefInv'
  <2> USE <1>2, AnalogAssumption
  <2>1. CASE UNCHANGED vrefVars
    BY <2>1 DEF vrefVars, VrefInv, StableWaited
  <2>2. ASSUME NEW on \in BOOLEAN, VrefWrite(on) PROVE VrefInv'
    BY <2>2 DEF VrefWrite, Rewritten, VrefInv, StableWaited
  <2>3. ASSUME NEW cycles \in VrefSteps, VrefAdvance(cycles) PROVE VrefInv'
    <3>1. /\ vref.left \in 1 .. VrefCycles /\ vref.on /\ ~vref.stable /\ cycles \in Nat
          /\ vref.left + vrefWaited = VrefCycles /\ vrefWaited' = vrefWaited + cycles
          /\ vref' = IF cycles >= vref.left THEN [vref EXCEPT !.left = 0, !.stable = TRUE]
                     ELSE [vref EXCEPT !.left = @ - cycles]
          /\ vref \in [on : BOOLEAN, stable : BOOLEAN, left : 0 .. VrefCycles] /\ vrefWaited \in Nat
      BY <2>3 DEF VrefAdvance, VrefInv
    <3>2. CASE cycles >= vref.left
      <4>1. /\ vref' \in [on : BOOLEAN, stable : BOOLEAN, left : 0 .. VrefCycles]
            /\ vref'.left = 0 /\ vref'.on
        <5>1. vref' = [vref EXCEPT !.left = 0, !.stable = TRUE]
          BY <3>1, <3>2, Zenon
        <5>2. 0 \in 0 .. VrefCycles
          OBVIOUS
        <5> QED
          BY <3>1, <5>1, <5>2
      <4> QED
        BY <3>1, <3>2, <4>1 DEF VrefInv, StableWaited
    <3>3. CASE ~(cycles >= vref.left)
      <4>1. /\ vref' \in [on : BOOLEAN, stable : BOOLEAN, left : 0 .. VrefCycles]
            /\ vref'.left = vref.left - cycles /\ vref'.on /\ ~vref'.stable
        <5>1. vref' = [vref EXCEPT !.left = @ - cycles]
          BY <3>1, <3>3, Zenon
        <5>2. vref.left - cycles \in 0 .. VrefCycles
          BY <3>1, <3>3
        <5> QED
          BY <3>1, <5>1, <5>2
      <4> QED
        BY <3>1, <3>3, <4>1 DEF VrefInv, StableWaited
    <3> QED
      BY <3>2, <3>3
  <2>4. CASE VrefResets
    BY <2>4 DEF VrefResets, Vref0, VrefInv, StableWaited
  <2> QED
    BY <2>1, <2>2, <2>3, <2>4 DEF VrefNext
<1>3. VrefInv => StableWaited
  BY DEF VrefInv
<1> QED
  BY <1>1, <1>2, <1>3, PTL

(* The converter *)

AdcSlotTypes == [channel : AdcSlotChannels, ie : BOOLEAN, coco : BOOLEAN,
                 result : AdcInputs \cup {0}]
AdcToldTypes == [begun : BOOLEAN, of : AdcSlotChannels, calibrated : BOOLEAN]

(* A conversion that is under way is one its slot asked for. *)
RunningBegun == adc.on => adcTold[adc.slot].begun

AdcInv == AdcTypeOK /\ FlaggedIsAsked /\ AdcLineAsked /\ RunningBegun

AdcStepSound == AdcInv' /\ ComparedResults

LEMMA AdcInitially == AdcInit => AdcInv
<1> SUFFICES ASSUME AdcInit PROVE AdcInv
  OBVIOUS
<1>1. AdcIdle \in [on : BOOLEAN, slot : AdcSlots, left : 0 .. AdcCycles] /\ ~AdcIdle.on
  BY AdcAssumption DEF AdcIdle, AdcSlots
<1>2. AdcSlot0 \in AdcSlotTypes /\ ~AdcSlot0.coco /\ AdcNotTold \in AdcToldTypes
      /\ AdcSetup0 \in AdcSettings
  BY DEF AdcSlot0, AdcSlotTypes, AdcSlotChannels, AdcNotTold, AdcToldTypes, AdcSetup0, AdcSettings
<1>3. AdcTypeOK
  BY <1>1, <1>2 DEF AdcInit, AdcTypeOK, AdcSlotTypes, AdcToldTypes
<1> QED
  BY <1>1, <1>2, <1>3 DEF AdcInit, AdcInv, FlaggedIsAsked, AdcLineAsked, RunningBegun

(* A conversion that ends as the comparison lets it flags its slot. *)
LEMMA CompletionSound ==
  ASSUME AdcInv, adc.on, AdcCompletes, UNCHANGED <<adcSetup, adcInput>>
  PROVE  AdcStepSound
<1> DEFINE s == adc.slot
           value == adcInput[adcSlot[s].channel]
<1>1. s \in AdcSlots /\ adcSlot \in [AdcSlots -> AdcSlotTypes] /\ adcTold \in [AdcSlots -> AdcToldTypes]
      /\ adc \in [on : BOOLEAN, slot : AdcSlots, left : 0 .. AdcCycles] /\ adcSetup \in AdcSettings
  BY DEF AdcInv, AdcTypeOK, AdcSlotTypes, AdcToldTypes
<1>2. value \in AdcInputs \cup {0} /\ value \in Nat
  <2>1. adcSlot[s].channel \in AdcSlotChannels
    BY <1>1 DEF AdcSlotTypes
  <2>2. adcInput \in [AdcSlotChannels -> AdcInputs \cup {0}]
    BY DEF AdcInv, AdcTypeOK
  <2>3. value \in AdcInputs \cup {0}
    BY <2>1, <2>2
  <2> HIDE DEF value
  <2>4. AdcInputs \subseteq Nat
    BY AdcAssumption
  <2> QED
    BY <2>3, <2>4
<1>3. /\ adc' \in [on : BOOLEAN, slot : AdcSlots, left : 0 .. AdcCycles]
      /\ adc'.on => adc'.left > 0
      /\ adc'.slot = s
  <2>1. adc' = StartedSlot(s) \/ adc' = [adc EXCEPT !.on = FALSE, !.left = 0]
    BY DEF AdcCompletes
  <2>2. CASE adc' = StartedSlot(s)
    BY <1>1, <2>2, AdcAssumption DEF StartedSlot
  <2>3. CASE adc' = [adc EXCEPT !.on = FALSE, !.left = 0]
    <3>1. 0 \in 0 .. AdcCycles
      BY AdcAssumption
    <3> QED
      BY <1>1, <2>3, <3>1
  <2> QED
    BY <2>1, <2>2, <2>3
<1>4. adcTold[s].begun
  BY DEF AdcInv, RunningBegun
<1>5. CASE ~AdcAccepts(value)
  <2>1. UNCHANGED <<adcSlot, adcLine, adcTold>>
    BY <1>5 DEF AdcCompletes
  <2> QED
    BY <1>3, <1>4, <2>1
       DEF AdcStepSound, AdcInv, AdcTypeOK, FlaggedIsAsked, AdcLineAsked, RunningBegun,
           ComparedResults, FlagsResult, StoresResult
<1>6. CASE AdcAccepts(value)
  <2>1. /\ adcSlot' = [adcSlot EXCEPT ![s].coco = TRUE, ![s].result = value]
        /\ adcLine' = (adcLine \/ adcSlot[s].ie)
        /\ adcTold' = [adcTold EXCEPT ![s].of = adcSlot[s].channel, ![s].calibrated = FALSE]
    BY <1>6 DEF AdcCompletes
  <2> HIDE DEF s, value
  <2>2. /\ adcSlot'[s] \in AdcSlotTypes /\ adcSlot'[s].channel = adcSlot[s].channel
        /\ adcSlot'[s].ie = adcSlot[s].ie /\ adcSlot'[s].result = value
        /\ adcTold'[s] \in AdcToldTypes /\ adcTold'[s].begun = adcTold[s].begun
        /\ adcTold'[s].of = adcSlot[s].channel /\ ~adcTold'[s].calibrated
    BY <1>1, <1>2, <2>1 DEF AdcSlotTypes, AdcToldTypes
  <2>3. /\ \A t \in AdcSlots \ {s} : adcSlot'[t] = adcSlot[t] /\ adcTold'[t] = adcTold[t]
        /\ adcSlot' \in [AdcSlots -> AdcSlotTypes] /\ adcTold' \in [AdcSlots -> AdcToldTypes]
    BY <1>1, <2>1, <2>2
  <2>4. AdcTypeOK'
    BY <1>3, <2>1, <2>3 DEF AdcInv, AdcTypeOK, AdcSlotTypes, AdcToldTypes
  <2>5. FlaggedIsAsked'
    BY <1>4, <2>2, <2>3 DEF AdcInv, FlaggedIsAsked
  <2>6. AdcLineAsked'
    BY <1>1, <2>1, <2>2, <2>3 DEF AdcInv, AdcLineAsked
  <2>7. RunningBegun'
    BY <1>3, <1>4, <2>2 DEF RunningBegun, s
  <2>8. ComparedResults
    <3>1. AdcAccepts(value) /\ value \in Nat
      BY <1>2, <1>6
    <3>2. ASSUME adcSetup.compare
          PROVE  CASE ~adcSetup.range /\ adcSetup.greater -> value > adcSetup.cv1
                   [] ~adcSetup.range /\ ~adcSetup.greater -> value < adcSetup.cv1
                   [] adcSetup.range /\ adcSetup.greater ->
                        value < adcSetup.cv1 \/ value > adcSetup.cv2
                   [] OTHER -> ~(value < adcSetup.cv1) /\ value <= adcSetup.cv2
      BY <1>1, <3>1, <3>2 DEF AdcAccepts, InRange, AdcSettings
    <3> QED
      BY <2>2, <2>3, <3>2 DEF ComparedResults, FlagsResult, StoresResult
  <2> QED
    BY <2>4, <2>5, <2>6, <2>7, <2>8 DEF AdcStepSound, AdcInv
<1> QED
  BY <1>5, <1>6

LEMMA AdcAdvanceSound ==
  ASSUME AdcInv, NEW cycles \in AdcSteps, AdcAdvance(cycles)
  PROVE  AdcStepSound
<1>1. CASE AdcExpires(cycles)
  BY <1>1, CompletionSound DEF AdcAdvance
<1>2. CASE ~AdcExpires(cycles)
  <2>1. /\ adc' = [adc EXCEPT !.left = @ - cycles]
        /\ UNCHANGED <<adcSlot, adcLine, adcTold, adcSetup, adcInput>>
    BY <1>2 DEF AdcAdvance
  <2>2. /\ adc \in [on : BOOLEAN, slot : AdcSlots, left : 0 .. AdcCycles]
        /\ adc.left - cycles \in 1 .. AdcCycles
    BY <1>2, AdcAssumption DEF AdcExpires, AdcInv, AdcTypeOK
  <2>3. /\ adc' \in [on : BOOLEAN, slot : AdcSlots, left : 0 .. AdcCycles]
        /\ adc'.left > 0 /\ adc'.on = adc.on /\ adc'.slot = adc.slot
    BY <2>1, <2>2, AdcAssumption
  <2> QED
    BY <2>1, <2>3
       DEF AdcStepSound, AdcInv, AdcTypeOK, FlaggedIsAsked, AdcLineAsked, RunningBegun,
           ComparedResults, FlagsResult, StoresResult
<1> QED
  BY <1>1, <1>2

(* Scheduling starts the slot or leaves the converter as it is. *)
LEMMA ScheduledTypes ==
  ASSUME AdcInv, NEW slots, NEW s \in AdcSlots
  PROVE  /\ AdcScheduled(slots, s) \in [on : BOOLEAN, slot : AdcSlots, left : 0 .. AdcCycles]
         /\ AdcScheduled(slots, s).on => AdcScheduled(slots, s).left > 0
         /\ AdcScheduled(slots, s) = adc \/ AdcScheduled(slots, s).slot = s
<1>1. CASE slots[s].channel = AdcDisabled
  BY <1>1 DEF AdcScheduled, AdcInv, AdcTypeOK
<1>2. CASE slots[s].channel # AdcDisabled
  BY <1>2, AdcAssumption DEF AdcScheduled, StartedSlot
<1> QED
  BY <1>1, <1>2

LEMMA WriteSlotSound ==
  ASSUME AdcInv, NEW s \in AdcSlots, NEW channel \in AdcSlotChannels, NEW ie \in BOOLEAN,
         AdcWriteSlot(s, channel, ie)
  PROVE  AdcStepSound
<1> DEFINE begun == adc'.on /\ adc'.slot = s
<1>1. adcSlot \in [AdcSlots -> AdcSlotTypes] /\ adcTold \in [AdcSlots -> AdcToldTypes]
  BY DEF AdcInv, AdcTypeOK, AdcSlotTypes, AdcToldTypes
<1>2. /\ adcSlot' = [adcSlot EXCEPT ![s].channel = channel, ![s].ie = ie, ![s].coco = FALSE]
      /\ adcLine' = FALSE
      /\ adc' = adc \/ adc' = AdcScheduled(adcSlot', s)
      /\ adcTold' = [adcTold EXCEPT ![s] = [AdcNotTold EXCEPT !.begun = begun]]
      /\ UNCHANGED <<adcSetup, adcInput>>
  BY DEF AdcWriteSlot, SlotWritten, LineDropped
<1>3. /\ adc' \in [on : BOOLEAN, slot : AdcSlots, left : 0 .. AdcCycles]
      /\ adc'.on => adc'.left > 0
      /\ adc' = adc \/ adc'.slot = s
  BY <1>2, ScheduledTypes DEF AdcInv, AdcTypeOK
<1>4. /\ adcSlot'[s] \in AdcSlotTypes /\ ~adcSlot'[s].coco
      /\ adcSlot'[s].result = adcSlot[s].result
      /\ \A t \in AdcSlots \ {s} : adcSlot'[t] = adcSlot[t]
      /\ adcSlot' \in [AdcSlots -> AdcSlotTypes]
  BY <1>1, <1>2 DEF AdcSlotTypes
<1>5. /\ adcTold'[s].begun = begun
      /\ \A t \in AdcSlots \ {s} : adcTold'[t] = adcTold[t]
      /\ adcTold' \in [AdcSlots -> AdcToldTypes]
  <2>1. begun \in BOOLEAN
    OBVIOUS
  <2> HIDE DEF begun
  <2>2. /\ [AdcNotTold EXCEPT !.begun = begun] \in AdcToldTypes
        /\ [AdcNotTold EXCEPT !.begun = begun].begun = begun
    BY <2>1 DEF AdcToldTypes, AdcSlotChannels, AdcNotTold
  <2> QED
    BY <1>1, <1>2, <2>2
<1>6. AdcTypeOK'
  BY <1>2, <1>3, <1>4, <1>5 DEF AdcInv, AdcTypeOK, AdcSlotTypes, AdcToldTypes
<1>7. FlaggedIsAsked' /\ AdcLineAsked' /\ ComparedResults
  BY <1>2, <1>4, <1>5
     DEF AdcInv, FlaggedIsAsked, AdcLineAsked, ComparedResults, FlagsResult, StoresResult
<1>8. RunningBegun'
  <2> SUFFICES ASSUME adc'.on PROVE adcTold'[adc'.slot].begun
    BY DEF RunningBegun
  <2>1. CASE adc'.slot = s
    BY <1>5, <2>1
  <2>2. CASE adc'.slot # s
    <3>1. adc' = adc /\ adc'.slot \in AdcSlots \ {s}
      BY <1>3, <2>2
    <3> QED
      BY <1>5, <3>1 DEF AdcInv, RunningBegun
  <2> QED
    BY <2>1, <2>2
<1> QED
  BY <1>6, <1>7, <1>8 DEF AdcStepSound, AdcInv

LEMMA PretriggerSound ==
  ASSUME AdcInv, NEW s \in AdcSlots, AdcPretrigger(s)
  PROVE  AdcStepSound
<1> DEFINE begun == adcTold[s].begun \/ (adc'.on /\ adc'.slot = s)
           calibrated == adcTold[s].calibrated /\ adcSlot'[s].coco
<1>1. adcSlot \in [AdcSlots -> AdcSlotTypes] /\ adcTold \in [AdcSlots -> AdcToldTypes]
  BY DEF AdcInv, AdcTypeOK, AdcSlotTypes, AdcToldTypes
<1>2. /\ adc' = AdcScheduled(adcSlot, s)
      /\ adcSlot' = adcSlot \/ adcSlot' = [adcSlot EXCEPT ![s].coco = FALSE]
      /\ adcTold' = [adcTold EXCEPT ![s].begun = begun, ![s].calibrated = calibrated]
      /\ UNCHANGED <<adcSetup, adcInput, adcLine>>
  BY DEF AdcPretrigger, AdcCleared
<1>3. /\ adc' \in [on : BOOLEAN, slot : AdcSlots, left : 0 .. AdcCycles]
      /\ adc'.on => adc'.left > 0
      /\ adc' = adc \/ adc'.slot = s
  BY <1>2, ScheduledTypes
<1>4. /\ adcSlot' \in [AdcSlots -> AdcSlotTypes]
      /\ \A t \in AdcSlots : /\ adcSlot'[t].channel = adcSlot[t].channel
                             /\ adcSlot'[t].ie = adcSlot[t].ie
                             /\ adcSlot'[t].result = adcSlot[t].result
                             /\ adcSlot'[t].coco => adcSlot[t].coco
  <2>1. CASE adcSlot' = adcSlot
    BY <1>1, <2>1
  <2>2. CASE adcSlot' = [adcSlot EXCEPT ![s].coco = FALSE]
    BY <1>1, <2>2 DEF AdcSlotTypes
  <2> QED
    BY <1>2, <2>1, <2>2
<1>5. /\ adcTold'[s].begun = begun /\ adcTold'[s].of = adcTold[s].of
      /\ adcTold'[s].calibrated = calibrated
      /\ \A t \in AdcSlots \ {s} : adcTold'[t] = adcTold[t]
      /\ adcTold' \in [AdcSlots -> AdcToldTypes]
  <2>1. begun \in BOOLEAN /\ calibrated \in BOOLEAN
    BY <1>1 DEF AdcToldTypes
  <2> HIDE DEF begun, calibrated
  <2>2. [adcTold[s] EXCEPT !.begun = begun, !.calibrated = calibrated] \in AdcToldTypes
    BY <1>1, <2>1 DEF AdcToldTypes
  <2> QED
    BY <1>1, <1>2, <2>1, <2>2 DEF AdcToldTypes
<1>6. AdcTypeOK'
  BY <1>2, <1>3, <1>4, <1>5 DEF AdcInv, AdcTypeOK, AdcSlotTypes, AdcToldTypes
<1>7. FlaggedIsAsked'
  BY <1>4, <1>5 DEF AdcInv, FlaggedIsAsked
<1>8. AdcLineAsked' /\ ComparedResults
  BY <1>2, <1>4 DEF AdcInv, AdcLineAsked, ComparedResults, FlagsResult, StoresResult
<1>9. RunningBegun'
  <2> SUFFICES ASSUME adc'.on PROVE adcTold'[adc'.slot].begun
    BY DEF RunningBegun
  <2>1. CASE adc'.slot = s
    BY <1>5, <2>1
  <2>2. CASE adc'.slot # s
    <3>1. adc' = adc /\ adc'.slot \in AdcSlots \ {s}
      BY <1>3, <2>2
    <3> QED
      BY <1>5, <3>1 DEF AdcInv, RunningBegun
  <2> QED
    BY <2>1, <2>2
<1> QED
  BY <1>6, <1>7, <1>8, <1>9 DEF AdcStepSound, AdcInv

(* Reading a result takes its flag, and the record of a calibration with it. *)
LEMMA ReadResultSound ==
  ASSUME AdcInv, NEW s \in AdcSlots, AdcReadResult(s)
  PROVE  AdcStepSound
<1>1. adcSlot \in [AdcSlots -> AdcSlotTypes] /\ adcTold \in [AdcSlots -> AdcToldTypes]
  BY DEF AdcInv, AdcTypeOK, AdcSlotTypes, AdcToldTypes
<1>2. /\ adcSlot' = [adcSlot EXCEPT ![s].coco = FALSE] /\ adcLine' = FALSE
      /\ adcTold' = [adcTold EXCEPT ![s].calibrated = FALSE]
      /\ UNCHANGED <<adc, adcSetup, adcInput>>
  BY DEF AdcReadResult
<1>3. /\ adcSlot' \in [AdcSlots -> AdcSlotTypes] /\ ~adcSlot'[s].coco
      /\ \A t \in AdcSlots : adcSlot'[t].result = adcSlot[t].result
      /\ \A t \in AdcSlots \ {s} : adcSlot'[t] = adcSlot[t]
  BY <1>1, <1>2 DEF AdcSlotTypes
<1>4. /\ adcTold' \in [AdcSlots -> AdcToldTypes]
      /\ \A t \in AdcSlots : adcTold'[t].begun = adcTold[t].begun
      /\ \A t \in AdcSlots \ {s} : adcTold'[t] = adcTold[t]
  BY <1>1, <1>2 DEF AdcToldTypes
<1>5. AdcTypeOK'
  BY <1>2, <1>3, <1>4 DEF AdcInv, AdcTypeOK, AdcSlotTypes, AdcToldTypes
<1>6. FlaggedIsAsked' /\ AdcLineAsked' /\ RunningBegun'
  BY <1>2, <1>3, <1>4 DEF AdcInv, AdcTypeOK, FlaggedIsAsked, AdcLineAsked, RunningBegun
<1>7. ComparedResults
  BY <1>3 DEF ComparedResults, FlagsResult, StoresResult
<1> QED
  BY <1>5, <1>6, <1>7 DEF AdcStepSound, AdcInv

(* A calibration raises the flag of slot A, and is on record unless the flag was up. *)
LEMMA ControlWriteSound ==
  ASSUME AdcInv, NEW continuous \in BOOLEAN, NEW calibrate \in BOOLEAN,
         AdcWriteControl(continuous, calibrate)
  PROVE  AdcStepSound
<1> DEFINE coco == adcSlot[0].coco \/ calibrate
           calibrated == adcTold[0].calibrated \/ (calibrate /\ ~adcSlot[0].coco)
<1>1. /\ adcSlot \in [AdcSlots -> AdcSlotTypes] /\ adcTold \in [AdcSlots -> AdcToldTypes]
      /\ adcSetup \in AdcSettings /\ 0 \in AdcSlots
  BY DEF AdcInv, AdcTypeOK, AdcSlotTypes, AdcToldTypes, AdcSlots
<1>2. /\ adcSetup' = [adcSetup EXCEPT !.continuous = continuous]
      /\ adcSlot' = [adcSlot EXCEPT ![0].coco = coco]
      /\ adcTold' = [adcTold EXCEPT ![0].calibrated = calibrated]
      /\ UNCHANGED <<adc, adcInput, adcLine>>
  BY DEF AdcWriteControl
<1>3. coco \in BOOLEAN /\ calibrated \in BOOLEAN
  BY <1>1 DEF AdcSlotTypes, AdcToldTypes
<1>4. coco /\ ~adcSlot[0].coco => calibrated
  OBVIOUS
<1>5. coco /\ ~calibrated => adcSlot[0].coco /\ ~adcTold[0].calibrated
  OBVIOUS
<1> HIDE DEF coco, calibrated
<1>6. adcSetup' \in AdcSettings
  BY <1>1, <1>2 DEF AdcSettings
<1>7. /\ adcSlot' \in [AdcSlots -> AdcSlotTypes] /\ adcSlot'[0].coco = coco
      /\ \A t \in AdcSlots : /\ adcSlot'[t].result = adcSlot[t].result
                             /\ adcSlot'[t].channel = adcSlot[t].channel
                             /\ adcSlot'[t].ie = adcSlot[t].ie
      /\ \A t \in AdcSlots \ {0} : adcSlot'[t] = adcSlot[t]
  BY <1>1, <1>2, <1>3 DEF AdcSlotTypes
<1>8. /\ adcTold' \in [AdcSlots -> AdcToldTypes] /\ adcTold'[0].calibrated = calibrated
      /\ \A t \in AdcSlots : /\ adcTold'[t].begun = adcTold[t].begun
                             /\ adcTold'[t].of = adcTold[t].of
      /\ \A t \in AdcSlots \ {0} : adcTold'[t] = adcTold[t]
  BY <1>1, <1>2, <1>3 DEF AdcToldTypes
<1>9. AdcTypeOK'
  BY <1>2, <1>6, <1>7, <1>8 DEF AdcInv, AdcTypeOK, AdcSlotTypes, AdcToldTypes
<1>10. FlaggedIsAsked'
  <2> SUFFICES ASSUME NEW t \in AdcSlots, adcSlot'[t].coco, ~(t = 0 /\ adcTold'[t].calibrated)
               PROVE  /\ ~adcTold'[t].calibrated
                      /\ adcTold'[t].begun /\ adcTold'[t].of = adcSlot'[t].channel
    BY DEF FlaggedIsAsked
  <2>1. adcSlot[t].coco /\ ~adcTold[t].calibrated /\ ~adcTold'[t].calibrated
    BY <1>5, <1>7, <1>8 DEF AdcInv, FlaggedIsAsked
  <2> QED
    BY <1>7, <1>8, <2>1 DEF AdcInv, FlaggedIsAsked
<1>11. AdcLineAsked' /\ RunningBegun'
  BY <1>1, <1>2, <1>7, <1>8 DEF AdcInv, AdcTypeOK, AdcLineAsked, RunningBegun
<1>12. ComparedResults
  BY <1>4, <1>7, <1>8 DEF ComparedResults, FlagsResult, StoresResult
<1> QED
  BY <1>9, <1>10, <1>11, <1>12 DEF AdcStepSound, AdcInv

LEMMA AdcHolds ==
  AdcInit /\ [][AdcNext]_adcVars =>
    [](AdcLineAsked /\ FlaggedIsAsked) /\ [][ComparedResults]_adcVars
<1>1. ASSUME AdcInv, [AdcNext]_adcVars PROVE AdcStepSound
  <2> USE <1>1
  <2>1. CASE UNCHANGED adcVars
    BY <2>1
       DEF adcVars, AdcStepSound, AdcInv, AdcTypeOK, FlaggedIsAsked, AdcLineAsked, RunningBegun,
           ComparedResults, FlagsResult, StoresResult
  <2>2. ASSUME NEW s \in AdcSlots, AdcReadResult(s) PROVE AdcStepSound
    BY <2>2, ReadResultSound
  <2>3. ASSUME NEW setup \in AdcSetups, AdcWriteSetup(setup) PROVE AdcStepSound
    <3>1. adcSetup' \in AdcSettings
      BY <2>3, AdcAssumption DEF AdcWriteSetup, AdcInv, AdcTypeOK, AdcSettings
    <3> QED
      BY <2>3, <3>1
         DEF AdcWriteSetup, AdcStepSound, AdcInv, AdcTypeOK, FlaggedIsAsked, AdcLineAsked,
             RunningBegun, ComparedResults, FlagsResult, StoresResult
  <2>4. ASSUME NEW channel \in AdcChannels, NEW value \in AdcInputs, AdcDrive(channel, value)
        PROVE  AdcStepSound
    <3>1. adcInput' \in [AdcSlotChannels -> AdcInputs \cup {0}]
      BY <2>4 DEF AdcDrive, AdcInv, AdcTypeOK
    <3> QED
      BY <2>4, <3>1
         DEF AdcDrive, AdcStepSound, AdcInv, AdcTypeOK, FlaggedIsAsked, AdcLineAsked,
             RunningBegun, ComparedResults, FlagsResult, StoresResult
  <2>5. CASE AdcResets
    <3>1. AdcIdle \in [on : BOOLEAN, slot : AdcSlots, left : 0 .. AdcCycles] /\ ~AdcIdle.on
      BY AdcAssumption DEF AdcIdle, AdcSlots
    <3>2. AdcSlot0 \in AdcSlotTypes /\ ~AdcSlot0.coco /\ AdcNotTold \in AdcToldTypes
          /\ AdcSetup0 \in AdcSettings
      BY DEF AdcSlot0, AdcSlotTypes, AdcSlotChannels, AdcNotTold, AdcToldTypes, AdcSetup0,
             AdcSettings
    <3>3. AdcTypeOK'
      BY <2>5, <3>1, <3>2 DEF AdcResets, AdcInv, AdcTypeOK, AdcSlotTypes, AdcToldTypes
    <3> QED
      BY <2>5, <3>1, <3>2, <3>3
         DEF AdcResets, AdcStepSound, AdcInv, FlaggedIsAsked, AdcLineAsked, RunningBegun,
             ComparedResults, FlagsResult, StoresResult
  <2> QED
    BY <2>1, <2>2, <2>3, <2>4, <2>5, AdcAdvanceSound, WriteSlotSound, PretriggerSound,
       ControlWriteSound DEF AdcNext
<1>2. AdcStepSound => AdcInv' /\ ComparedResults
  BY DEF AdcStepSound
<1>3. AdcInv => AdcLineAsked /\ FlaggedIsAsked
  BY DEF AdcInv
<1> QED
  BY <1>1, <1>2, <1>3, AdcInitially, PTL

(* The four parts keep their promises together, for any size of buffer, any inputs
   and levels, and any times of conversion and of the reference. *)
THEOREM AnalogIsHonest == AnalogSpec => AnalogHonest
BY DacHolds, CmpHolds, VrefHolds, AdcHolds, PTL DEF AnalogSpec, AnalogHonest

-----------------------------------------------------------------------------
(* The low-power timer *)

(* The only multiple of a number between its negative and itself is zero. *)
LEMMA NoMultiple ==
  ASSUME NEW k \in Int, NEW d \in Nat \ {0}, -d < k * d, k * d < d
  PROVE  k = 0
<1>1. CASE k >= 1
  <2>1. (k - 1) * d >= 0
    BY <1>1
  <2>2. (k - 1) * d = k * d - d
    OBVIOUS
  <2> QED
    BY <2>1, <2>2
<1>2. CASE k <= -1
  <2>1. (-k - 1) * d >= 0
    BY <1>2
  <2>2. (-k - 1) * d = -(k * d) - d
    OBVIOUS
  <2> QED
    BY <2>1, <2>2
<1> QED
  BY <1>1, <1>2

(* A remainder may be taken between two additions. *)
LEMMA RemainderOfSum ==
  ASSUME NEW x \in Nat, NEW b \in Nat, NEW m \in Nat \ {0}
  PROVE  ((x % m) + b) % m = (x + b) % m
<1> DEFINE q == x \div m
           r == x % m
           s == (r + b) \div m
           t == (r + b) % m
           u == (x + b) \div m
           v == (x + b) % m
<1>1. q \in Int /\ r \in 0 .. m - 1 /\ x = q * m + r
  BY SMT
<1>2. s \in Int /\ t \in 0 .. m - 1 /\ r + b = s * m + t
  BY <1>1, SMT
<1>3. u \in Int /\ v \in 0 .. m - 1 /\ x + b = u * m + v
  BY SMT
<1> HIDE DEF q, r, s, t, u, v
<1>4. (q + s - u) * m = v - t
  BY <1>1, <1>2, <1>3
<1>5. q + s - u = 0
  <2>1. -m < v - t /\ v - t < m
    BY <1>2, <1>3
  <2> QED
    BY <1>1, <1>2, <1>3, <1>4, <2>1, NoMultiple
<1>6. v - t = 0
  BY <1>4, <1>5
<1>7. v = t
  BY <1>2, <1>3, <1>6
<1> QED
  BY <1>7 DEF t, v, r

(* Once round at most, the remainder is found by one subtraction. *)
LEMMA OnceRound ==
  ASSUME NEW m \in Nat \ {0}, NEW x \in 0 .. 2 * m - 1
  PROVE  x % m = IF x < m THEN x ELSE x - m
<1>1. CASE x < m
  BY <1>1
<1>2. CASE ~(x < m)
  <2>1. x - m \in 0 .. m - 1
    BY <1>2
  <2> QED
    BY <1>2, <2>1
<1> QED
  BY <1>1, <1>2

LptmrTypes ==
  [on : BOOLEAN, pulse : BOOLEAN, free : BOOLEAN, low : BOOLEAN, input : LptmrInputs \cup {0},
   ie : BOOLEAN, flag : BOOLEAN, bypass : BOOLEAN, prescale : Nat, compare : 0 .. LptmrWidth - 1,
   counter : 0 .. LptmrWidth - 1, latched : 0 .. LptmrWidth - 1, observed : BOOLEAN, filter : Nat]

LptmrInv == lptmr \in LptmrTypes /\ lptmrLine \in BOOLEAN

(* The count a timer goes back to zero at. *)
Modulus(t) == IF t.free THEN LptmrWidth ELSE t.compare + 1

LEMMA ModulusTyped ==
  ASSUME NEW t \in LptmrTypes
  PROVE  Modulus(t) \in 1 .. LptmrWidth /\ LptmrWidth \in Nat \ {0}
BY LptmrAssumption DEF Modulus, LptmrTypes

(* A batch in full; an empty one changes nothing. *)
LEMMA IncrementIs ==
  ASSUME NEW t, NEW k \in Nat
  PROVE  /\ k = 0 => Incremented(t, k) = t
         /\ k # 0 => Incremented(t, k) = [t EXCEPT !.counter = (t.counter + k) % Modulus(t),
                                                   !.flag = t.flag \/ Expires(t, k)]
BY DEF Incremented, Modulus

(* Where a batch leaves counter and flag; it touches nothing else. *)
LEMMA IncrementTells ==
  ASSUME NEW t \in LptmrTypes, NEW k \in Nat
  PROVE  /\ Incremented(t, k) \in LptmrTypes
         /\ k # 0 => Incremented(t, k).counter = (t.counter + k) % Modulus(t)
         /\ Incremented(t, k).flag <=> (t.flag \/ Expires(t, k))
         /\ Incremented(t, k).on = t.on /\ Incremented(t, k).ie = t.ie
         /\ Incremented(t, k).pulse = t.pulse /\ Incremented(t, k).free = t.free
         /\ Incremented(t, k).compare = t.compare
<1>1. CASE k = 0
  BY <1>1 DEF Incremented, Expires
<1>2. CASE k # 0
  <2> DEFINE c == (t.counter + k) % Modulus(t)
             f == t.flag \/ Expires(t, k)
  <2>1. Incremented(t, k) = [t EXCEPT !.counter = c, !.flag = f]
    BY <1>2, IncrementIs
  <2>2. c \in 0 .. LptmrWidth - 1
    <3>1. Modulus(t) \in Nat \ {0} /\ Modulus(t) <= LptmrWidth /\ LptmrWidth \in Nat
      BY ModulusTyped
    <3>2. t.counter + k \in Nat
      BY DEF LptmrTypes
    <3>3. c \in 0 .. Modulus(t) - 1
      BY <3>1, <3>2
    <3> HIDE DEF c
    <3> QED
      BY <3>1, <3>3
  <2>3. f \in BOOLEAN
    OBVIOUS
  <2> HIDE DEF c, f
  <2> DEFINE u == [t EXCEPT !.counter = c, !.flag = f]
  <2>4. /\ u \in LptmrTypes /\ u.counter = c /\ u.flag = f /\ u.on = t.on /\ u.ie = t.ie
        /\ u.pulse = t.pulse /\ u.free = t.free /\ u.compare = t.compare
    BY <2>2, <2>3 DEF LptmrTypes
  <2> HIDE DEF u
  <2>5. Incremented(t, k) = u
    BY <2>1 DEF u
  <2> QED
    BY <1>2, <2>1, <2>4, <2>5, Zenon DEF c, f
<1> QED
  BY <1>1, <1>2

LEMMA IncrementKeeps ==
  ASSUME NEW t \in LptmrTypes, NEW k \in Nat
  PROVE  LET u == Incremented(t, k)
         IN  /\ u \in LptmrTypes /\ u.pulse = t.pulse /\ u.bypass = t.bypass
             /\ u.observed = t.observed /\ u.prescale = t.prescale /\ u.filter = t.filter
<1> DEFINE c == (t.counter + k) % Modulus(t)
           f == t.flag \/ Expires(t, k)
<1>1. Incremented(t, k) = t \/ Incremented(t, k) = [t EXCEPT !.counter = c, !.flag = f]
  BY IncrementIs
<1> HIDE DEF c, f
<1>2. Incremented(t, k) \in LptmrTypes
  BY IncrementTells
<1> QED
  BY <1>1, <1>2 DEF LptmrTypes

(* The ticks to the compare value shrink by the ticks of a batch that does not reach
   it. *)
LEMMA ReachSplits ==
  ASSUME NEW t \in LptmrTypes, NEW a \in Nat \ {0}, NEW b \in Nat \ {0},
         NEW u \in LptmrTypes, u.free = t.free, u.compare = t.compare,
         u.counter = (t.counter + a) % Modulus(t)
  PROVE  Expires(t, a) \/ Expires(u, b) <=> Expires(t, a + b)
<1> DEFINE c == t.counter
           d == u.counter
           v == t.compare
           W == LptmrWidth
           left == (W + v - c) % W
           then == (W + v - d) % W
<1>1. /\ W \in Nat \ {0} /\ c \in 0 .. W - 1 /\ d \in 0 .. W - 1 /\ v \in 0 .. W - 1
      /\ u.compare = v /\ u.free = t.free
  BY LptmrAssumption DEF LptmrTypes
<1>2. CASE t.free
  <2>1. d = (c + a) % W
    BY <1>2 DEF Modulus
  <2>2. /\ Expires(t, a) <=> a >= left + 1
        /\ Expires(u, b) <=> b >= then + 1
        /\ Expires(t, a + b) <=> a + b >= left + 1
    BY <1>1, <1>2 DEF Expires, Reached
  <2>3. left = (IF v >= c THEN v - c ELSE W + v - c)
    <3>1. W + v - c \in 0 .. 2 * W - 1
      BY <1>1
    <3>2. left = IF W + v - c < W THEN W + v - c ELSE W + v - c - W
      BY <1>1, <3>1, OnceRound
    <3> HIDE DEF left
    <3> QED
      BY <1>1, <3>2
  <2>4. then = (IF v >= d THEN v - d ELSE W + v - d)
    <3>1. W + v - d \in 0 .. 2 * W - 1
      BY <1>1
    <3>2. then = IF W + v - d < W THEN W + v - d ELSE W + v - d - W
      BY <1>1, <3>1, OnceRound
    <3> HIDE DEF then
    <3> QED
      BY <1>1, <3>2
  <2> HIDE DEF left, then
  <2>5. CASE a >= left + 1
    BY <1>1, <2>2, <2>3, <2>5
  <2>6. CASE ~(a >= left + 1)
    <3>1. c + a \in 0 .. 2 * W - 1
      BY <1>1, <2>3, <2>6
    <3> HIDE DEF c, d, v, W
    <3>2. d = IF c + a < W THEN c + a ELSE c + a - W
      <4>1. W \in Nat \ {0}
        BY <1>1
      <4>2. (c + a) % W = IF c + a < W THEN c + a ELSE c + a - W
        <5> DEFINE x == c + a
        <5>1. x \in 0 .. 2 * W - 1
          BY <3>1
        <5> HIDE DEF x
        <5>2. x % W = IF x < W THEN x ELSE x - W
          BY <4>1, <5>1, OnceRound
        <5> QED
          BY <1>1, <5>2 DEF x
      <4> QED
        BY <2>1, <4>2
    <3>3. then = left - a
      BY <1>1, <2>3, <2>4, <2>6, <3>2
    <3>4. left \in Int
      BY <1>1, <2>3
    <3>5. b >= then + 1 <=> a + b >= left + 1
      BY <3>3, <3>4
    <3> QED
      BY <2>2, <2>6, <3>5
  <2> QED
    BY <2>5, <2>6
<1>3. CASE ~t.free
  <2>1. d = (c + a) % (v + 1)
    BY <1>3 DEF Modulus
  <2>2. /\ Expires(t, a) <=> c + a >= v + 1
        /\ Expires(u, b) <=> d + b >= v + 1
        /\ Expires(t, a + b) <=> c + (a + b) >= v + 1
    BY <1>1, <1>3 DEF Expires, Reached
  <2> HIDE DEF c, d, v, W
  <2>3. CASE c + a >= v + 1
    BY <1>1, <2>2, <2>3
  <2>4. CASE ~(c + a >= v + 1)
    <3>1. v + 1 \in Nat \ {0} /\ c + a \in 0 .. 2 * (v + 1) - 1 /\ c + a < v + 1
      BY <1>1, <2>4
    <3>2. d = c + a
      BY <2>1, <3>1, OnceRound
    <3> QED
      BY <1>1, <2>2, <2>4, <3>2
  <2> QED
    BY <2>3, <2>4
<1> QED
  BY <1>2, <1>3

(* Two batches leave counter and flag where their sum does. *)
LEMMA IncrementSplits ==
  ASSUME NEW t \in LptmrTypes, NEW a \in Nat, NEW b \in Nat
  PROVE  Incremented(Incremented(t, a), b) = Incremented(t, a + b)
<1> DEFINE u == Incremented(t, a)
<1>1. u \in LptmrTypes
  BY IncrementTells
<1>2. CASE a = 0
  <2>1. u = t /\ a + b = b
    BY <1>2 DEF Incremented
  <2> QED
    BY <2>1
<1>3. CASE b = 0
  <2>1. Incremented(u, b) = u /\ a + b = a
    BY <1>3 DEF Incremented
  <2> QED
    BY <2>1
<1>4. CASE a # 0 /\ b # 0
  <2> DEFINE m == Modulus(t)
             c == (t.counter + a) % m
             f == t.flag \/ Expires(t, a)
  <2>1. u = [t EXCEPT !.counter = c, !.flag = f]
    BY <1>4, IncrementIs
  <2>2. u.counter = c /\ (u.flag <=> f) /\ u.free = t.free /\ u.compare = t.compare
    BY <1>4, IncrementTells
  <2>3. m \in Nat \ {0} /\ t.counter \in Nat /\ Modulus(u) = m
    BY <2>2, ModulusTyped DEF LptmrTypes, Modulus
  <2>4. (c + b) % m = (t.counter + (a + b)) % m
    <3>1. (c + b) % m = ((t.counter + a) + b) % m
      <4>1. m \in Nat \ {0} /\ t.counter + a \in Nat
        BY <2>3
      <4> HIDE DEF m
      <4> QED
        BY <4>1, RemainderOfSum
    <3>2. (t.counter + a) + b = t.counter + (a + b)
      BY <2>3
    <3> QED
      BY <3>1, <3>2
  <2>5. (u.flag \/ Expires(u, b)) = (t.flag \/ Expires(t, a + b))
    <3>1. Expires(t, a) \/ Expires(u, b) <=> Expires(t, a + b)
      BY <1>1, <1>4, <2>2, ReachSplits
    <3> QED
      BY <2>2, <3>1
  <2>6. /\ Incremented(u, b) = [u EXCEPT !.counter = (u.counter + b) % Modulus(u),
                                         !.flag = u.flag \/ Expires(u, b)]
        /\ Incremented(t, a + b) = [t EXCEPT !.counter = (t.counter + (a + b)) % m,
                                             !.flag = t.flag \/ Expires(t, a + b)]
    <3>1. a + b \in Nat /\ a + b # 0
      BY <1>4
    <3> QED
      BY <1>4, <3>1, IncrementIs
  <2> DEFINE n == (t.counter + (a + b)) % m
             g == t.flag \/ Expires(t, a + b)
  <2>7. Incremented(u, b) = [u EXCEPT !.counter = n, !.flag = g]
    BY <2>2, <2>3, <2>4, <2>5, <2>6
  <2>8. Incremented(t, a + b) = [t EXCEPT !.counter = n, !.flag = g]
    BY <2>6
  <2> HIDE DEF u, c, f, n, g
  <2>9. [u EXCEPT !.counter = n, !.flag = g] = [t EXCEPT !.counter = n, !.flag = g]
    BY <2>1 DEF LptmrTypes
  <2> QED
    BY <2>7, <2>8, <2>9 DEF u
<1> QED
  BY <1>2, <1>3, <1>4

(* The filter moves nothing but itself and the level it lets through. *)
LEMMA SampleTells ==
  ASSUME NEW t \in LptmrTypes, NEW active \in BOOLEAN, NEW k \in Nat
  PROVE  /\ Sampled(t, active, k) \in LptmrTypes
         /\ LET v == Sampled(t, active, k)
            IN  /\ v.on = t.on /\ v.free = t.free /\ v.ie = t.ie
                /\ v.flag = t.flag /\ v.compare = t.compare /\ v.counter = t.counter
<1>1. \E observed \in BOOLEAN, filter \in Nat :
        Sampled(t, active, k) = [t EXCEPT !.filter = filter, !.observed = observed]
  <2>1. CASE t.prescale = 0
    <3>1. t = [t EXCEPT !.filter = t.filter, !.observed = t.observed] /\ t.observed \in BOOLEAN
          /\ t.filter \in Nat
      BY DEF LptmrTypes
    <3> QED
      BY <2>1, <3>1 DEF Sampled
  <2>2. CASE t.prescale # 0 /\ Passes(t, active, k)
    BY <2>2 DEF Sampled
  <2>3. CASE t.prescale # 0 /\ ~Passes(t, active, k)
    <3> DEFINE filter == IF active = t.observed THEN 0 ELSE t.filter + k
    <3>1. filter \in Nat /\ t.observed \in BOOLEAN
      BY DEF LptmrTypes
    <3>2. Sampled(t, active, k) = [t EXCEPT !.filter = filter]
      BY <2>3 DEF Sampled
    <3> HIDE DEF filter
    <3>3. [t EXCEPT !.filter = filter] = [t EXCEPT !.filter = filter, !.observed = t.observed]
      BY DEF LptmrTypes
    <3> QED
      BY <3>1, <3>2, <3>3
  <2> QED
    BY <2>1, <2>2, <2>3
<1> QED
  BY <1>1 DEF LptmrTypes

(* Two batches leave the filter where their sum does, and count one edge or none. *)
LEMMA FilterSplits ==
  ASSUME NEW t \in LptmrTypes, t.pulse, ~t.bypass, NEW active \in BOOLEAN,
         NEW a \in Nat, NEW b \in Nat
  PROVE  LptmrElapsed(LptmrElapsed(t, active, a), active, b) = LptmrElapsed(t, active, a + b)
<1> DEFINE N == 2 ^ t.prescale
           e(x, k) == LptmrElapsed(x, active, k)
<1>0. /\ N \in Int /\ t.prescale \in Nat /\ t.filter \in Nat /\ t.observed \in BOOLEAN
      /\ a + b \in Nat /\ t \in LptmrTypes
  BY DEF LptmrTypes
<1>1. \A x \in LptmrTypes, k \in Nat : x.pulse /\ ~x.bypass =>
        e(x, k) = Incremented(Sampled(x, active, k),
                              IF active /\ Passes(x, active, k) THEN 1 ELSE 0)
  BY DEF LptmrElapsed, Counts
<1>2. \A x, k : ~Passes(x, active, k) =>
        /\ x.prescale = 0 => Sampled(x, active, k) = x
        /\ x.prescale # 0 =>
             Sampled(x, active, k) = [x EXCEPT !.filter = IF active = x.observed THEN 0 ELSE @ + k]
  BY DEF Sampled
<1>3. CASE t.prescale = 0
  <2>1. \A k \in Nat : e(t, k) = t
    <3> TAKE k \in Nat
    <3>1. ~Passes(t, active, k) /\ Sampled(t, active, k) = t
      BY <1>3 DEF Passes, Sampled
    <3> QED
      BY <1>1, <3>1 DEF Incremented
  <2> QED
    BY <1>0, <2>1
<1>4. CASE t.prescale # 0 /\ active = t.observed
  <2> DEFINE u == [t EXCEPT !.filter = 0]
  <2>1. u \in LptmrTypes /\ u.pulse /\ ~u.bypass /\ u.prescale = t.prescale /\ u.observed = t.observed
    BY DEF LptmrTypes
  <2>2. [u EXCEPT !.filter = 0] = u
    BY DEF LptmrTypes
  <2> HIDE DEF u
  <2>3. \A k \in Nat : e(t, k) = u /\ e(u, k) = u
    <3> TAKE k \in Nat
    <3>1. ~Passes(t, active, k) /\ ~Passes(u, active, k)
      BY <1>4, <2>1 DEF Passes
    <3>2. Sampled(t, active, k) = u
      BY <1>4, <3>1 DEF Sampled, u
    <3>3. Sampled(u, active, k) = u
      BY <1>4, <2>1, <2>2, <3>1 DEF Sampled
    <3>4. e(t, k) = Incremented(u, 0) /\ e(u, k) = Incremented(u, 0)
      BY <1>0, <1>1, <2>1, <3>1, <3>2, <3>3
    <3> QED
      BY <3>4 DEF Incremented
  <2> QED
    BY <1>0, <2>3
<1>5. CASE t.prescale # 0 /\ active # t.observed /\ t.filter + a >= N
  <2> DEFINE u == [t EXCEPT !.filter = 0, !.observed = active]
             v == Incremented(u, IF active THEN 1 ELSE 0)
  <2>1. u \in LptmrTypes
    BY DEF LptmrTypes
  <2>2. \A k \in {a, a + b} : e(t, k) = v
    <3> TAKE k \in {a, a + b}
    <3>1. k \in Nat /\ t.filter + k >= N
      BY <1>0, <1>5
    <3>2. Passes(t, active, k)
      BY <1>0, <1>5, <3>1 DEF Passes
    <3>3. Sampled(t, active, k) = u
      BY <1>5, <3>2 DEF Sampled
    <3> QED
      BY <1>0, <1>1, <3>1, <3>2, <3>3
  <2>3. /\ v \in LptmrTypes /\ v.pulse /\ ~v.bypass /\ v.observed = active
        /\ v.prescale = t.prescale /\ v.filter = 0
    <3>1. /\ u.pulse /\ ~u.bypass /\ u.observed = active /\ u.prescale = t.prescale /\ u.filter = 0
      BY <1>0 DEF LptmrTypes
    <3> HIDE DEF u
    <3> QED
      BY <2>1, <3>1, IncrementKeeps
  <2> HIDE DEF u, v
  <2>4. e(v, b) = v
    <3>1. ~Passes(v, active, b)
      BY <2>3 DEF Passes
    <3>2. Sampled(v, active, b) = v
      BY <2>3, <3>1 DEF Sampled, LptmrTypes
    <3>3. e(v, b) = Incremented(v, 0)
      BY <1>1, <2>3, <3>1, <3>2
    <3> QED
      BY <3>3 DEF Incremented
  <2> QED
    BY <2>2, <2>4
<1>6. CASE t.prescale # 0 /\ active # t.observed /\ ~(t.filter + a >= N)
  <2> DEFINE u == [t EXCEPT !.filter = t.filter + a]
  <2>1. /\ u \in LptmrTypes /\ u.pulse /\ ~u.bypass /\ u.prescale = t.prescale
        /\ u.observed = t.observed /\ u.filter = t.filter + a
    BY DEF LptmrTypes
  <2>2. /\ [u EXCEPT !.filter = 0, !.observed = active] = [t EXCEPT !.filter = 0, !.observed = active]
        /\ [u EXCEPT !.filter = t.filter + (a + b)] = [t EXCEPT !.filter = t.filter + (a + b)]
    BY DEF LptmrTypes
  <2>3. e(t, a) = u
    <3>1. ~Passes(t, active, a)
      BY <1>6 DEF Passes
    <3>2. Sampled(t, active, a) = u
      BY <1>6, <3>1 DEF Sampled
    <3>3. e(t, a) = Incremented(u, 0)
      BY <1>0, <1>1, <3>1, <3>2
    <3> QED
      BY <3>3 DEF Incremented
  <2> HIDE DEF u
  <2>4. u.filter + b = t.filter + (a + b)
    BY <1>0, <2>1
  <2>5. Passes(u, active, b) <=> Passes(t, active, a + b)
    BY <2>1, <2>4 DEF Passes
  <2>6. Sampled(u, active, b) = Sampled(t, active, a + b)
    BY <1>6, <2>1, <2>2, <2>4, <2>5 DEF Sampled
  <2>7. e(u, b) = e(t, a + b)
    BY <1>0, <1>1, <2>1, <2>5, <2>6
  <2> QED
    BY <2>3, <2>7
<1> QED
  BY <1>3, <1>4, <1>5, <1>6

(* How time is cut into batches shows neither in the counter nor in the filter. *)
LEMMA LptmrBatches == LptmrInv => LptmrSplits
<1> SUFFICES ASSUME LptmrInv, NEW a \in LptmrSteps, NEW b \in LptmrSteps, NEW active \in BOOLEAN
             PROVE  LptmrElapsed(LptmrElapsed(lptmr, active, a), active, b)
                      = LptmrElapsed(lptmr, active, a + b)
  BY DEF LptmrSplits
<1>1. lptmr \in LptmrTypes /\ a \in Nat /\ b \in Nat /\ a + b \in Nat
  BY LptmrAssumption DEF LptmrInv
<1>2. CASE ~lptmr.pulse
  <2>1. ~Incremented(lptmr, a).pulse /\ Incremented(lptmr, a) \in LptmrTypes
    BY <1>1, <1>2, IncrementTells
  <2>2. \A t \in LptmrTypes, k \in Nat :
          ~t.pulse => LptmrElapsed(t, active, k) = Incremented(t, k)
    BY DEF LptmrElapsed, Counts
  <2>3. LptmrElapsed(lptmr, active, a) = Incremented(lptmr, a)
    BY <1>1, <1>2, <2>2
  <2>4. LptmrElapsed(lptmr, active, a + b) = Incremented(lptmr, a + b)
    BY <1>1, <1>2, <2>2
  <2>5. LptmrElapsed(Incremented(lptmr, a), active, b) = Incremented(Incremented(lptmr, a), b)
    BY <1>1, <2>1, <2>2
  <2> QED
    BY <1>1, <2>3, <2>4, <2>5, IncrementSplits
<1>3. CASE lptmr.pulse /\ lptmr.bypass
  <2>1. \A k \in Nat : LptmrElapsed(lptmr, active, k) = lptmr
    BY <1>3 DEF LptmrElapsed, Counts, Incremented
  <2> QED
    BY <1>1, <2>1
<1>4. CASE lptmr.pulse /\ ~lptmr.bypass
  BY <1>1, <1>4, FilterSplits
<1> QED
  BY <1>2, <1>3, <1>4

(* What a step owes: no compare value is passed in silence, and the line is that of
   flag and enable. *)
LptmrStepSound == LptmrInv' /\ NeverPastInSilence /\ LptmrLineKept

(* A batch that takes the counter back has flagged it. *)
LEMMA IncrementFlagged ==
  ASSUME NEW t \in LptmrTypes, ~t.free, NEW k \in Nat, Incremented(t, k).counter < t.counter
  PROVE  Incremented(t, k).flag
<1> DEFINE u == Incremented(t, k)
           m == t.compare + 1
<1>1. t.compare \in Nat /\ t.counter \in Nat /\ m \in Nat \ {0} /\ t.counter + k \in Nat
  BY LptmrAssumption DEF LptmrTypes
<1>2. k # 0
  BY <1>1 DEF Incremented
<1>3. u.counter = (t.counter + k) % m
  BY <1>2, IncrementTells DEF Modulus
<1>4. t.counter + k >= m
  <2> SUFFICES ASSUME ~(t.counter + k >= m) PROVE FALSE
    OBVIOUS
  <2>1. (t.counter + k) % m = t.counter + k
    BY <1>1
  <2> QED
    BY <1>1, <1>3, <2>1
<1>5. Expires(t, k)
  BY <1>1, <1>2, <1>4 DEF Expires, Reached
<1> QED
  BY <1>5, IncrementTells

(* A count, however the filter or the input brought it, with the line it leaves. *)
LEMMA CountSound ==
  ASSUME LptmrInv, NEW s \in LptmrTypes, NEW k \in Nat,
         s.on = lptmr.on, s.free = lptmr.free, s.ie = lptmr.ie, s.flag = lptmr.flag,
         s.compare = lptmr.compare, s.counter = lptmr.counter,
         lptmr' = Incremented(s, k),
         lptmrLine' = (lptmrLine \/ (lptmr.ie /\ Expires(lptmr, k)))
  PROVE  LptmrStepSound
<1>1. lptmr' \in LptmrTypes /\ lptmrLine' \in BOOLEAN
  BY IncrementTells
<1>2. Expires(s, k) <=> Expires(lptmr, k)
  BY DEF Expires, Reached
<1>3. NeverPastInSilence
  BY IncrementFlagged DEF NeverPastInSilence
<1>4. LptmrLineKept
  <2>1. (lptmr'.flag <=> (lptmr.flag \/ Expires(lptmr, k))) /\ lptmr'.ie = lptmr.ie
    BY <1>2, IncrementTells
  <2>2. lptmr \in LptmrTypes /\ lptmr.ie \in BOOLEAN /\ lptmr.flag \in BOOLEAN
    BY DEF LptmrInv, LptmrTypes
  <2> SUFFICES ASSUME lptmrLine = LptmrWants(lptmr) PROVE lptmrLine' = LptmrWants(lptmr')
    BY DEF LptmrLineKept
  <2>3. lptmrLine <=> lptmr.flag /\ lptmr.ie
    BY DEF LptmrWants
  <2>4. lptmrLine' <=> lptmr'.flag /\ lptmr'.ie
    BY <2>1, <2>2, <2>3
  <2> QED
    BY <1>1, <2>4, Zenon DEF LptmrWants
<1> QED
  BY <1>1, <1>3, <1>4 DEF LptmrStepSound, LptmrInv

LEMMA ElapseSound ==
  ASSUME LptmrInv, NEW ticks \in LptmrSteps, LptmrAdvance(ticks)
  PROVE  LptmrStepSound
<1> DEFINE active == SelectedActive(lptmr, lptmrInput)
           k == Counts(lptmr, active, ticks)
           s == IF lptmr.pulse /\ ~lptmr.bypass THEN Sampled(lptmr, active, ticks) ELSE lptmr
<1>1. lptmr' = Incremented(s, k)
      /\ lptmrLine' = (lptmrLine \/ (lptmr.ie /\ Expires(lptmr, k)))
  BY DEF LptmrAdvance, LptmrElapsed
<1>2. active \in BOOLEAN
  BY DEF SelectedActive
<1> HIDE DEF active
<1>3. lptmr \in LptmrTypes /\ ticks \in Nat
  BY LptmrAssumption DEF LptmrInv
<1>4. k \in Nat
  BY <1>3 DEF Counts
<1>5. /\ s \in LptmrTypes /\ s.on = lptmr.on /\ s.free = lptmr.free /\ s.ie = lptmr.ie
      /\ s.flag = lptmr.flag /\ s.compare = lptmr.compare /\ s.counter = lptmr.counter
  <2>1. CASE s = lptmr
    BY <1>3, <2>1
  <2>2. CASE s = Sampled(lptmr, active, ticks)
    <3> HIDE DEF s
    <3> QED
      BY <1>2, <1>3, <2>2, SampleTells
  <2> QED
    BY <2>1, <2>2
<1> HIDE DEF s, k
<1> QED
  BY <1>1, <1>4, <1>5, CountSound

LEMMA InputSound ==
  ASSUME LptmrInv, NEW i \in LptmrInputs, NEW high \in BOOLEAN, LptmrSetInput(i, high)
  PROVE  LptmrStepSound
<1> DEFINE inputs == [lptmrInput EXCEPT ![i] = high]
           active == SelectedActive(lptmr, inputs)
           counted == LptmrRunning /\ lptmr.pulse /\ lptmr.bypass /\ lptmr.input = i
                        /\ active # lptmr.observed
           edge == IF counted /\ active THEN 1 ELSE 0
           observed == IF counted THEN active ELSE lptmr.observed
           s == [lptmr EXCEPT !.observed = observed]
<1>1. lptmr' = Incremented(s, edge)
      /\ lptmrLine' = (lptmrLine \/ (lptmr.ie /\ Expires(lptmr, edge)))
  BY DEF LptmrSetInput
<1>2. active \in BOOLEAN
  BY DEF SelectedActive
<1> HIDE DEF active
<1>3. observed \in BOOLEAN /\ edge \in Nat
  BY <1>2 DEF LptmrInv, LptmrTypes
<1> HIDE DEF observed, edge
<1>4. /\ s \in LptmrTypes /\ s.on = lptmr.on /\ s.free = lptmr.free /\ s.ie = lptmr.ie
      /\ s.flag = lptmr.flag /\ s.compare = lptmr.compare /\ s.counter = lptmr.counter
  BY <1>3 DEF LptmrInv, LptmrTypes
<1> HIDE DEF s
<1> QED
  BY <1>1, <1>3, <1>4, CountSound

(* A write of CSR leaves the line flag and enable ask for; it takes the counter back
   only where it stops the timer. *)
LEMMA LptmrSetSound ==
  ASSUME LptmrInv, NEW t \in LptmrTypes, LptmrSet(t),
         ~t.on \/ ~lptmr.on \/ t.counter = lptmr.counter
  PROVE  LptmrStepSound
<1>1. lptmr' = t /\ lptmrLine' = LptmrWants(lptmr')
  BY DEF LptmrSet
<1>2. lptmrLine' \in BOOLEAN
  BY <1>1 DEF LptmrWants
<1>3. NeverPastInSilence
  BY <1>1 DEF NeverPastInSilence, LptmrInv, LptmrTypes
<1> QED
  BY <1>1, <1>2, <1>3 DEF LptmrStepSound, LptmrInv, LptmrLineKept

(* A timer that stops is cleared; one that starts looks at its input. *)
LEMMA StilledTyped ==
  ASSUME NEW t \in LptmrTypes
  PROVE  /\ Stilled(t) \in LptmrTypes /\ Stilled(t).on = t.on
         /\ Started(t) \in LptmrTypes
<1>1. 0 \in 0 .. LptmrWidth - 1
  BY LptmrAssumption
<1>2. Stilled(t) \in LptmrTypes /\ Stilled(t).on = t.on
  BY <1>1 DEF Stilled, LptmrTypes
<1>3. Started(t) \in LptmrTypes
  <2>1. SelectedActive(t, lptmrInput) \in BOOLEAN
    BY DEF SelectedActive
  <2> QED
    BY <2>1 DEF Started, LptmrTypes
<1> QED
  BY <1>2, <1>3

LEMMA CsrOffSound ==
  ASSUME LptmrInv, NEW on \in BOOLEAN, NEW pulse \in BOOLEAN, NEW free \in BOOLEAN,
         NEW low \in BOOLEAN, NEW input \in LptmrInputs, NEW ie \in BOOLEAN,
         WriteCsrOff(on, pulse, free, low, input, ie)
  PROVE  LptmrStepSound
<1> DEFINE t == [lptmr EXCEPT !.on = on, !.pulse = pulse, !.free = free, !.low = low,
                              !.input = input, !.ie = ie]
<1>1. t \in LptmrTypes
  BY DEF LptmrInv, LptmrTypes
<1>2. ~lptmr.on /\ LptmrSet(IF on THEN Started(t) ELSE Stilled(t))
  BY DEF WriteCsrOff
<1> HIDE DEF t
<1> QED
  BY <1>1, <1>2, StilledTyped, LptmrSetSound

LEMMA CsrOnSound ==
  ASSUME LptmrInv, NEW on \in BOOLEAN, NEW ie \in BOOLEAN, NEW clear \in BOOLEAN,
         WriteCsrOn(on, ie, clear)
  PROVE  LptmrStepSound
<1> DEFINE flag == lptmr.flag /\ ~clear
           t == [lptmr EXCEPT !.on = on, !.ie = ie, !.flag = flag]
<1>1. flag \in BOOLEAN
  OBVIOUS
<1>2. LptmrSet(IF on THEN t ELSE Stilled(t))
  BY DEF WriteCsrOn
<1> HIDE DEF flag
<1>3. t \in LptmrTypes /\ t.on = on /\ t.counter = lptmr.counter
  BY <1>1 DEF LptmrInv, LptmrTypes
<1> HIDE DEF t
<1> QED
  BY <1>2, <1>3, StilledTyped, LptmrSetSound

(* The other registers leave counter, flag and enables alone. *)
LEMMA AsideSound ==
  ASSUME LptmrInv, lptmr' \in LptmrTypes, lptmr'.counter = lptmr.counter,
         lptmr'.flag = lptmr.flag, lptmr'.ie = lptmr.ie, lptmrLine' = lptmrLine
  PROVE  LptmrStepSound
BY DEF LptmrStepSound, LptmrInv, LptmrTypes, NeverPastInSilence, LptmrLineKept, LptmrWants

LEMMA LptmrOffTyped == LptmrOff \in LptmrTypes /\ ~LptmrOff.on /\ ~LptmrOff.flag
<1>1. 0 \in 0 .. LptmrWidth - 1
  BY LptmrAssumption
<1> QED
  BY <1>1 DEF LptmrOff, LptmrTypes

(* Batches split, no compare value is passed in silence and the line is that of flag
   and enable, for counters of any width, any prescale, any inputs and any steps. *)
THEOREM LptmrIsHonest == LptmrSpec => LptmrHonest
<1>1. LptmrInit => LptmrInv
  BY LptmrOffTyped DEF LptmrInit, LptmrInv
<1>2. ASSUME LptmrInv, [LptmrNext]_lptmrVars PROVE LptmrStepSound
  <2> USE <1>2
  <2>1. CASE UNCHANGED lptmrVars
    BY <2>1, AsideSound DEF lptmrVars, LptmrInv
  <2>2. ASSUME NEW bypass \in BOOLEAN, NEW prescale \in LptmrPrescales, WritePsr(bypass, prescale)
        PROVE  LptmrStepSound
    BY <2>2, AsideSound, LptmrAssumption DEF WritePsr, LptmrInv, LptmrTypes
  <2>3. ASSUME NEW compare \in LptmrCompares, WriteCmr(compare)
        PROVE  LptmrStepSound
    BY <2>3, AsideSound, LptmrAssumption DEF WriteCmr, LptmrInv, LptmrTypes
  <2>4. CASE WriteCnr
    BY <2>4, AsideSound DEF WriteCnr, LptmrInv, LptmrTypes
  <2>5. CASE LptmrGateChanges
    BY <2>5, AsideSound DEF LptmrGateChanges, LptmrInv
  <2>6. ASSUME NEW retained \in BOOLEAN, LptmrReset(retained) PROVE LptmrStepSound
    <3>1. /\ lptmr' = IF retained THEN lptmr ELSE LptmrOff
          /\ lptmrLine' = FALSE /\ lptmrGate' = FALSE
      BY <2>6 DEF LptmrReset
    <3>2. CASE retained
      <4>1. lptmr' = lptmr /\ lptmr.counter \in Int
        BY <3>1, <3>2 DEF LptmrInv, LptmrTypes
      <4>2. NeverPastInSilence
        BY <4>1 DEF NeverPastInSilence
      <4> QED
        BY <3>1, <4>1, <4>2 DEF LptmrStepSound, LptmrInv, LptmrLineKept
    <3>3. CASE ~retained
      BY <3>1, <3>3, LptmrOffTyped
         DEF LptmrStepSound, LptmrInv, NeverPastInSilence, LptmrLineKept, LptmrWants
    <3> QED
      BY <3>2, <3>3
  <2> QED
    BY <2>1, <2>2, <2>3, <2>4, <2>5, <2>6, ElapseSound, InputSound, CsrOffSound, CsrOnSound
       DEF LptmrNext
<1>3. LptmrStepSound => LptmrInv' /\ NeverPastInSilence /\ LptmrLineKept
  BY DEF LptmrStepSound
<1>4. LptmrInv => LptmrSplits
  BY LptmrBatches
<1> QED
  BY <1>1, <1>2, <1>3, <1>4, PTL DEF LptmrSpec, LptmrHonest
=============================================================================
