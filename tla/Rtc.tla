-------------------------------- MODULE Rtc ---------------------------------
(***************************************************************************)
(* The real time clock (timing/counters.c, rtc_write in timing/registers.c). *)
(* Seconds of a length set by the compensation; an invalid time or an       *)
(* overflow stops it; locks and write accesses that only a reset restores.  *)
(***************************************************************************)
EXTENDS Naturals, Integers

CONSTANTS
  RtcSecond,         \* the ticks of an uncompensated second, 32768
  RtcMax,            \* the highest value of TSR, UINT32_MAX
  RtcSeconds,        \* values software writes to TSR and TAR
  RtcCompensations,  \* pairs <<ticks, interval>> software writes to TCR
  RtcPrescalers,     \* values software writes to TPR
  RtcEnables,        \* sets of enabled interrupts software writes to IER
  RtcLocks,          \* sets of locks software leaves open in a write of LR
  RtcAccesses,       \* sets of registers software leaves writable in WAR
  RtcSteps           \* the ticks one advance brings

VARIABLES
  rtc,               \* the time, its configuration and its flags
  rtcGuard,          \* [lock, writable]: LR, and the registers WAR leaves writable
  rtcLine            \* the interrupt line, as the core holds it

rtcVars == <<rtc, rtcGuard, rtcLine>>

Locks == {"TCL", "CRL", "SRL", "LRL"}
RtcRegisters == {"TSR", "TPR", "TAR", "TCR", "CR", "SR", "LR", "IER"}
RtcFlags == {"TIF", "TOF", "TAF"}

RtcStopped ==
  [seconds |-> 0, ticks |-> 0, alarm |-> 0,
   compensation |-> 0, interval |-> 0, current |-> 0, counter |-> 0,
   oscillator |-> FALSE, update |-> FALSE, running |-> FALSE,
   flags |-> {"TIF"}, enables |-> RtcFlags]

RtcTypeOK ==
  /\ rtc.seconds \in 0..RtcMax
  /\ rtc.alarm \in 0..RtcMax
  /\ rtc.flags \subseteq RtcFlags
  /\ rtc.enables \subseteq RtcFlags \cup {"second"}
  /\ {rtc.oscillator, rtc.update, rtc.running} \subseteq BOOLEAN
  /\ rtc.ticks \in Nat
  /\ rtcGuard.lock \subseteq Locks
  /\ rtcGuard.writable \subseteq RtcRegisters
  /\ rtcLine \in BOOLEAN

RtcInit ==
  /\ rtc = RtcStopped
  /\ rtcGuard = [lock |-> Locks, writable |-> RtcRegisters]
  /\ rtcLine = FALSE

RtcWants(r) == r.flags \cap r.enables # {}

-----------------------------------------------------------------------------
(* Time *)

SecondTicks(r) == RtcSecond - r.current

CompensatedAlways(r) ==  \* mutant: every second of an interval is compensated
  IF r.counter = 0 THEN [r EXCEPT !.counter = r.interval, !.current = r.compensation]
  ELSE [r EXCEPT !.counter = @ - 1]

(* mutant: the alarm is compared with the second that ends. *)
SecondOverLate(r) ==
  LET over == r.seconds = RtcMax
  IN  [r EXCEPT !.seconds = IF over THEN 0 ELSE @ + 1, !.ticks = 0,
                !.flags = @ \cup (IF over THEN {"TOF"} ELSE {})
                            \cup (IF r.seconds = r.alarm THEN {"TAF"} ELSE {})]

(* The end of a second: the compensation of the next one, which is none but in the
   first second of an interval, the count or its overflow, and the alarm. *)
Compensated(r) ==
  IF r.counter = 0 THEN [r EXCEPT !.counter = r.interval, !.current = r.compensation]
  ELSE [r EXCEPT !.counter = @ - 1, !.current = 0]

SecondOver(r) ==
  LET next == Compensated(r)
      over == r.seconds = RtcMax
      counted == [next EXCEPT !.seconds = IF over THEN 0 ELSE @ + 1, !.ticks = 0,
                              !.flags = @ \cup (IF over THEN {"TOF"} ELSE {})]
  IN  [counted EXCEPT !.flags = @ \cup (IF counted.seconds = r.alarm THEN {"TAF"} ELSE {})]

(* One pass of the loop over what remains of a batch. A second that is already
   longer than its length never ends: what it needs is an unsigned difference
   that wrapped. *)
SecondEvents(r) ==
  {"second"} \cup (IF "second" \in r.enables THEN {"pulse"} ELSE {})
    \cup (IF r.seconds = r.alarm THEN {"alarm"} ELSE {})

PassDrops(left) ==  \* mutant: the rest of the batch is lost at the end of a second
  LET r == left.time
      next == SecondOver(r)
  IN  IF left.ticks = 0 \/ "TOF" \in r.flags THEN left
      ELSE IF left.ticks >= SecondTicks(r) - r.ticks
        THEN [ticks |-> 0, time |-> next, events |-> left.events \cup SecondEvents(next)]
        ELSE [left EXCEPT !.ticks = 0, !.time.ticks = @ + left.ticks]

Pass(left) ==
  LET r == left.time
      needed == SecondTicks(r) - r.ticks
      next == SecondOver(r)
  IN  IF left.ticks = 0 \/ "TOF" \in r.flags THEN left
      ELSE IF needed >= 0 /\ left.ticks >= needed
        THEN [ticks |-> left.ticks - needed, time |-> next,
              events |-> left.events \cup SecondEvents(next)]
        ELSE [left EXCEPT !.ticks = 0, !.time.ticks = @ + left.ticks]

RtcElapsed(r, ticks) ==
  LET left[n \in 0..(ticks + 1)] ==
        IF n = 0 THEN [ticks |-> ticks, time |-> r, events |-> {}] ELSE Pass(left[n - 1])
  IN  left[ticks + 1]

RtcRunning(r) == r.oscillator /\ r.running /\ r.flags \cap {"TIF", "TOF"} = {}

(* The line is set from the flags at the end of every second only. *)
RtcAdvance(ticks) ==
  LET after == RtcElapsed(rtc, ticks)
  IN  /\ RtcRunning(rtc)
      /\ rtc' = after.time
      /\ rtcLine' = IF after.events # {} THEN RtcWants(after.time) ELSE rtcLine
      /\ UNCHANGED rtcGuard

-----------------------------------------------------------------------------
(* Registers *)

Accepted(register) == register \in rtcGuard.writable

Changed(r) ==
  /\ rtc' = r
  /\ rtcLine' = RtcWants(r)
  /\ UNCHANGED rtcGuard

Kept(r) ==
  /\ rtc' = r
  /\ UNCHANGED <<rtcLine, rtcGuard>>

WriteSeconds(seconds) ==
  /\ Accepted("TSR")
  /\ ~rtc.running
  /\ Changed([rtc EXCEPT !.seconds = seconds, !.flags = @ \ {"TIF", "TOF"}])

WritePrescaler(ticks) ==
  /\ Accepted("TPR")
  /\ ~rtc.running
  /\ Kept([rtc EXCEPT !.ticks = ticks])

WriteAlarm(seconds) ==
  /\ Accepted("TAR")
  /\ Changed([rtc EXCEPT !.alarm = seconds, !.flags = @ \ {"TAF"}])

WriteCompensation(pair) ==
  /\ Accepted("TCR")
  /\ "TCL" \in rtcGuard.lock
  /\ Kept([rtc EXCEPT !.compensation = pair[1], !.interval = pair[2]])

RtcWriteControl(oscillator, update) ==
  /\ Accepted("CR")
  /\ "CRL" \in rtcGuard.lock
  /\ Kept([rtc EXCEPT !.oscillator = oscillator, !.update = update])

SoftwareReset ==
  /\ Accepted("CR")
  /\ "CRL" \in rtcGuard.lock
  /\ rtc' = RtcStopped
  /\ rtcLine' = TRUE
  /\ rtcGuard' = [rtcGuard EXCEPT !.lock = Locks]

(* SR may be written while it is unlocked, or with the update mode whenever the
   time is invalid, overflown or stopped. *)
StatusWritable ==
  \/ "SRL" \in rtcGuard.lock
  \/ rtc.update /\ ~(rtc.running /\ rtc.flags \cap {"TIF", "TOF"} = {})

RtcWriteStatus(running) ==
  /\ Accepted("SR")
  /\ StatusWritable
  /\ Changed([rtc EXCEPT !.running = running])

WriteLock(lock) ==
  /\ Accepted("LR")
  /\ "LRL" \in rtcGuard.lock
  /\ rtcGuard' = [rtcGuard EXCEPT !.lock = @ \cap lock]
  /\ UNCHANGED <<rtc, rtcLine>>

WriteEnables(enables) ==
  /\ Accepted("IER")
  /\ Changed([rtc EXCEPT !.enables = enables])

RtcWriteAccess(registers) ==
  /\ rtcGuard' = [rtcGuard EXCEPT !.writable = @ \cap registers]
  /\ UNCHANGED <<rtc, rtcLine>>

(* A warm reset retains the clock and its locks and gives the accesses back; the
   core's reset, which comes after, drops the line that was set from the flags. *)
RtcWarmReset ==
  /\ rtcGuard' = [rtcGuard EXCEPT !.writable = RtcRegisters]
  /\ rtcLine' = FALSE
  /\ UNCHANGED rtc

RtcPowerReset ==
  /\ rtc' = RtcStopped
  /\ rtcGuard' = [lock |-> Locks, writable |-> RtcRegisters]
  /\ rtcLine' = FALSE

RtcNext ==
  \/ \E ticks \in RtcSteps : RtcAdvance(ticks)
  \/ \E seconds \in RtcSeconds : WriteSeconds(seconds) \/ WriteAlarm(seconds)
  \/ \E ticks \in RtcPrescalers : WritePrescaler(ticks)
  \/ \E pair \in RtcCompensations : WriteCompensation(pair)
  \/ \E oscillator, update \in BOOLEAN : RtcWriteControl(oscillator, update)
  \/ SoftwareReset
  \/ \E running \in BOOLEAN : RtcWriteStatus(running)
  \/ \E lock \in RtcLocks : WriteLock(lock)
  \/ \E enables \in RtcEnables : WriteEnables(enables)
  \/ \E registers \in RtcAccesses : RtcWriteAccess(registers)
  \/ RtcWarmReset
  \/ RtcPowerReset

-----------------------------------------------------------------------------
(* How time is cut into batches does not show in the clock (the loop of
   k22_timing_internal_advance_rtc): seconds, fraction, compensation and flags are
   those of one batch of the sum, an overflow in the middle included. *)
RtcSplits ==
  RtcRunning(rtc) =>
    \A a, b \in RtcSteps :
      LET first == RtcElapsed(rtc, a).time
      IN  RtcElapsed(rtc, a + b).time =
            IF RtcRunning(first) THEN RtcElapsed(first, b).time ELSE first

(* An interval is compensated once: wherever one begins, its seconds end after as many
   ticks as they have, less the compensation, and the next interval begins with its own
   (rtc_complete_second, rtc_second_ticks). *)
IntervalsCompensated ==
  RtcRunning(rtc) /\ rtc.ticks = 0 /\ rtc.counter = rtc.interval
    /\ rtc.current = rtc.compensation /\ rtc.seconds + rtc.interval < RtcMax =>
    LET after == RtcElapsed(rtc, (rtc.interval + 1) * RtcSecond - rtc.compensation).time
    IN  after = [rtc EXCEPT !.seconds = @ + rtc.interval + 1, !.flags = after.flags]

(* The line is what the flags and the enables ask for, after whatever write or
   batch of time; only a reset of the core leaves the two apart, until the next
   update (k22_timing_internal_update_rtc_irq). *)
RtcLineKept ==
  rtcLine = RtcWants(rtc) =>
    \/ rtcLine' = RtcWants(rtc')
    \/ ~rtcLine' /\ rtcGuard'.writable = RtcRegisters

(* An alarm the clock passes inside a batch is told (rtc_complete_second). *)
AlarmTold ==
  rtc'.seconds > rtc.seconds /\ rtc.running /\ rtc.alarm \in (rtc.seconds + 1)..rtc'.seconds
    => "TAF" \in rtc'.flags

(* A lock that was closed stays closed, and keeps its register, until a software
   reset, which the control register's own lock prevents, or a power-on (rtc_write,
   rtc_software_reset). *)
LocksHold ==
  \/ rtc' = RtcStopped /\ ("CRL" \in rtcGuard.lock \/ rtcGuard'.writable = RtcRegisters)
  \/ /\ rtcGuard'.lock \subseteq rtcGuard.lock
     /\ "CRL" \notin rtcGuard.lock
          => <<rtc.oscillator, rtc.update>> = <<rtc'.oscillator, rtc'.update>>
     /\ "TCL" \notin rtcGuard.lock
          => <<rtc.compensation, rtc.interval>> = <<rtc'.compensation, rtc'.interval>>
     /\ "SRL" \notin rtcGuard.lock /\ rtc.running /\ rtc.flags \cap {"TIF", "TOF"} = {}
          => rtc'.running
=============================================================================
