------------------------------- MODULE UsbDcd -------------------------------
(* The USB charger detection sequence, communication/usb_dcd.c: it is started by
   firmware, advances by milliseconds, looks at the charger the host has attached,
   and raises its interrupt at each result. *)
EXTENDS Naturals

CONSTANTS
  DcdTimeout,      \* milliseconds until the timeout flag (1000)
  DcdElapsedMax,   \* where the sequence counter of TIMER0 stops (0xfff)
  DcdPrelude,      \* TSEQ_INIT values firmware writes
  DcdTimes,        \* the other phase times: [contact, primary, delay, second]
  DcdSteps         \* milliseconds that pass in one step

VARIABLES
  dcd,             \* phase, its elapsed time, the sequence counter, the timers
  dcdStatus,       \* the STATUS register
  dcdControl,      \* the CONTROL register
  dcdPort          \* what the host has attached, the pull-up

dcdVars == <<dcd, dcdStatus, dcdControl, dcdPort>>

Chargers == {"none", "host", "charging", "dedicated", "error"}
Phases == {"idle", "contact", "primaryDelay", "primary", "pullup", "delay", "secondary"}
Status0 == [active |-> FALSE, timeout |-> FALSE, error |-> FALSE, phase |-> 0, result |-> 0]

DcdTypeOK ==
  /\ dcd.phase \in Phases /\ dcd.elapsed \in 0 .. DcdElapsedMax
  /\ dcd.age \in 0 .. DcdElapsedMax /\ dcd.times \in DcdTimes /\ dcd.prelude \in DcdPrelude
  /\ dcdStatus \in [active : BOOLEAN, timeout : BOOLEAN, error : BOOLEAN,
                    phase : 0 .. 3, result : 0 .. 3]
  /\ dcdControl \in [flag : BOOLEAN, ie : BOOLEAN, bc12 : BOOLEAN]
  /\ dcdPort \in [charger : Chargers, pullup : BOOLEAN]

DcdInit ==
  /\ \E times \in DcdTimes, prelude \in DcdPrelude :
       dcd = [phase |-> "idle", elapsed |-> 0, age |-> 0, times |-> times, prelude |-> prelude]
  /\ dcdStatus = Status0
  /\ dcdControl = [flag |-> FALSE, ie |-> TRUE, bc12 |-> FALSE]
  /\ dcdPort = [charger |-> "none", pullup |-> FALSE]

-----------------------------------------------------------------------------
(* One millisecond of the sequence. A state is [d, s, c]: the sequence, STATUS and
   CONTROL together. *)

DcdState == [d |-> dcd, s |-> dcdStatus, c |-> dcdControl]

Enters(x, phase) == [x EXCEPT !.d.phase = phase, !.d.age = 0]
Signalled(x) == [x EXCEPT !.c.flag = TRUE]

FinishedOn(x, phase, result, error) ==  \* mutant: the phase is left as it was
  Signalled([x EXCEPT !.s = [active |-> FALSE, timeout |-> x.s.timeout,
                             error |-> error \/ x.s.timeout, phase |-> phase, result |-> result]])

(* finish: the timeout stays in the status, and makes the result an error. *)
Finished(x, phase, result, error) ==
  Signalled([x EXCEPT !.s = [active |-> FALSE, timeout |-> x.s.timeout,
                             error |-> error \/ x.s.timeout, phase |-> phase, result |-> result],
                      !.d.phase = "idle"])

Reports(x, phase, result) ==
  [x EXCEPT !.s = [x.s EXCEPT !.active = TRUE, !.phase = phase, !.result = result]]

(* The sequence counter, and the timeout after a second of a running sequence or of
   what is left of the batch in which it ended. *)
AgedFor(x) ==
  LET elapsed == IF x.d.elapsed < DcdElapsedMax THEN x.d.elapsed + 1 ELSE x.d.elapsed
      late == elapsed >= DcdTimeout /\ ~x.s.timeout
      y == [x EXCEPT !.d.elapsed = elapsed, !.d.age = @ + 1]
  IN  IF late THEN Signalled([y EXCEPT !.s.timeout = TRUE, !.s.error = TRUE]) ELSE y

Outlasted(x, time) == x.d.age >= time

Contact(x) ==
  IF dcdPort.charger = "none" THEN [x EXCEPT !.d.age = 0]
  ELSE IF Outlasted(x, x.d.times.contact) THEN Enters(Reports(x, 1, 0), "primaryDelay")
  ELSE x

Primary(x) ==
  IF ~Outlasted(x, x.d.times.primary) THEN x
  ELSE CASE dcdPort.charger = "host" -> Finished(x, 2, 1, FALSE)
         [] dcdPort.charger = "error" -> Finished(x, 2, 0, TRUE)
         [] OTHER -> Enters(x, "delay")

(* A charging port has been found: the interrupt tells it before the sequence ends,
   and BC1.2 decides whether the secondary detection waits for the pull-up. *)
Port(x) ==
  IF ~Outlasted(x, x.d.times.delay) THEN x
  ELSE Enters(Signalled(Reports(x, 2, 2)), IF x.c.bc12 THEN "secondary" ELSE "pullup")

Secondary(x) ==
  IF ~Outlasted(x, x.d.times.second) THEN x
  ELSE Finished(x, 3, IF dcdPort.charger = "dedicated" THEN 3 ELSE 2, FALSE)

Millisecond(x) ==
  LET y == AgedFor(x)
  IN  CASE y.d.phase = "contact" -> Contact(y)
        [] y.d.phase = "primaryDelay" -> IF Outlasted(y, 1) THEN Enters(y, "primary") ELSE y
        [] y.d.phase = "primary" -> Primary(y)
        [] y.d.phase = "pullup" -> IF dcdPort.pullup THEN Enters(y, "secondary") ELSE y
        [] y.d.phase = "delay" -> Port(y)
        [] y.d.phase = "secondary" -> Secondary(y)
        [] OTHER -> y

(* k22_usbdcd_advance: all of a batch's milliseconds run, those after the end of
   the sequence included. *)
Milliseconds(x, n) ==
  LET run[k \in 0 .. n] == IF k = 0 THEN x ELSE Millisecond(run[k - 1])
  IN  run[n]

DcdAdvance(n) ==
  /\ dcdStatus.active
  /\ dcd' = [Milliseconds(DcdState, n).d EXCEPT !.age =
               IF @ > DcdElapsedMax THEN DcdElapsedMax ELSE @]   \* bound
  /\ dcdStatus' = Milliseconds(DcdState, n).s
  /\ dcdControl' = Milliseconds(DcdState, n).c
  /\ UNCHANGED dcdPort

-----------------------------------------------------------------------------
(* Registers and host *)

Began(d) == [d EXCEPT !.phase = "contact", !.elapsed = d.prelude, !.age = 0]

(* CONTROL: acknowledging clears the flag; a software reset drops everything but
   the configuration it finds; START is ignored while a sequence runs. *)
DcdWriteControl(ack, ie, bc12, begin) ==
  /\ LET flag == dcdControl.flag /\ ~ack
     IN  dcdControl' = [flag |-> flag, ie |-> ie, bc12 |-> bc12]
  /\ IF begin /\ ~dcdStatus.active
     THEN dcd' = Began(dcd) /\ dcdStatus' = [Status0 EXCEPT !.active = TRUE]
     ELSE UNCHANGED <<dcd, dcdStatus>>
  /\ UNCHANGED dcdPort

DcdSoftReset ==
  /\ dcd' = [dcd EXCEPT !.phase = "idle", !.elapsed = 0, !.age = 0]
  /\ dcdStatus' = Status0
  /\ dcdControl' = [dcdControl EXCEPT !.flag = FALSE]
  /\ UNCHANGED dcdPort

(* The clock and the timers cannot be written while a sequence runs. *)
DcdWriteTimers(times, prelude) ==
  /\ ~dcdStatus.active
  /\ dcd' = [dcd EXCEPT !.times = times, !.prelude = prelude, !.elapsed = 0]
  /\ UNCHANGED <<dcdStatus, dcdControl, dcdPort>>

DcdAttach(charger, pullup) ==
  /\ dcdPort' = [charger |-> charger, pullup |-> pullup]
  /\ UNCHANGED <<dcd, dcdStatus, dcdControl>>

DcdNext ==
  \/ \E n \in DcdSteps : DcdAdvance(n)
  \/ \E ack, ie, bc12, begin \in BOOLEAN : DcdWriteControl(ack, ie, bc12, begin)
  \/ DcdSoftReset
  \/ \E times \in DcdTimes, prelude \in DcdPrelude : DcdWriteTimers(times, prelude)
  \/ \E charger \in Chargers, pullup \in BOOLEAN : DcdAttach(charger, pullup)

-----------------------------------------------------------------------------
(* Properties *)

(* STATUS says a sequence is active exactly while it has a phase to go through, so
   firmware that polls it neither waits for nothing nor starts over a running one. *)
ActiveInStep == dcdStatus.active <=> dcd.phase # "idle"

(* A sequence that ends does so with the interrupt flag set and a result or an
   error in STATUS, unless firmware reset it (finish). *)
EndsTold ==
  dcdStatus.active /\ ~dcdStatus'.active =>
    \/ dcdControl'.flag /\ (dcdStatus'.result # 0 \/ dcdStatus'.error)
    \/ dcdStatus' = Status0 /\ ~dcdControl'.flag

(* A timeout once reported stays until the next sequence, and every result that
   comes after it is marked as an error, whatever the phases did since. *)
TimeoutSticks ==
  dcdStatus.timeout =>
    \/ dcdStatus'.timeout /\ dcdStatus'.error
    \/ ~dcdStatus'.timeout /\ dcdStatus' \in {Status0, [Status0 EXCEPT !.active = TRUE]}
=============================================================================
