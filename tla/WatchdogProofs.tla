--------------------------- MODULE WatchdogProofs ---------------------------
(***************************************************************************)
(* Proofs about the watchdogs for all times, values and step sizes.  The   *)
(* actions are compositions of operators on the record of the state, and   *)
(* so is the argument: each operator keeps a record Sound, lets no lock    *)
(* slip, and keeps it Timely or makes it so.                               *)
(***************************************************************************)
EXTENDS Watchdogs, TLAPS

USE TimesAssumption, ValuesAssumption

(* The strengthening: before the first unlock no window is open and no
   interrupt delays a reset, since the configuration is that of the reset. *)
Exclusive(w) ==
  /\ ~(w.unlock_stage /\ w.refresh_stage)
  /\ w.update_open => ~w.unlock_stage /\ ~w.refresh_stage
BeforeUnlock(w) ==
  w.initial_unlock_required => ~w.update_open /\ "IRQRSTEN" \notin w.config.ctrl
BelowTimeout(w) == w.counter = 0 \/ w.counter < w.config.timeout
Line(w) == w.flag \/ (w.ewm.output /\ "INTEN" \in w.ewm.ctrl)

Steady(w) == w \in Watchdog /\ Exclusive(w) /\ BeforeUnlock(w) /\ BelowTimeout(w)
Sound(w) == Steady(w) /\ w.irq = Line(w)

Timely(w) ==
  /\ w.unlock_stage \/ w.refresh_stage => w.sequence_left >= 0
  /\ w.update_open => w.update_left > 0
  /\ w.reset_pending => w.reset_left > 0
  /\ w.initial_unlock_required /\ ~w.initial_debug_pause /\ ~w.unlock_stage =>
       w.update_left >= 0

(* The record r that an operator makes of w leaves a lock as it is. *)
LockedIn(w) ==
  ~w.update_open /\ ~w.initial_unlock_required /\ "ALLOWUPDATE" \notin w.config.ctrl
KeepsLock(w, r) == LockedIn(w) => r.reset \/ (LockedIn(r) /\ r.config = w.config)

-----------------------------------------------------------------------------
(* Resets and exceptions *)

(* A reset leaves a sound state with all its time before it. *)
LEMMA AfterResetSound ==
  ASSUME NEW b \in BOOLEAN
  PROVE  Sound(AfterReset(b)) /\ Timely(AfterReset(b)) /\ AfterReset(b).reset = b
  <1>1. AfterReset(b) \in Watchdog
    BY DEF AfterReset, Watchdog, Monitor, ResetConfig, Configs, Controls, EwmControls, Word,
           Lanes, Bytes, Left
  <1>2. /\ Exclusive(AfterReset(b)) /\ BeforeUnlock(AfterReset(b))
        /\ BelowTimeout(AfterReset(b)) /\ AfterReset(b).irq = Line(AfterReset(b))
    BY DEF AfterReset, ResetConfig, Exclusive, BeforeUnlock, BelowTimeout, Line
  <1>3. Timely(AfterReset(b)) /\ AfterReset(b).reset = b
    BY DEF AfterReset, Timely
  <1> QED  BY <1>1, <1>2, <1>3 DEF Sound, Steady

(* update_watchdog_irq touches the line only, and puts it right. *)
LEMMA UpdateIrqSound ==
  ASSUME NEW w, Steady(w)
  PROVE  /\ Sound(UpdateIrq(w))
         /\ Timely(w) => Timely(UpdateIrq(w))
         /\ KeepsLock(w, UpdateIrq(w))
  <1>1. UpdateIrq(w) \in Watchdog
    BY DEF UpdateIrq, Watchdog, Monitor, Steady
  <1>2. UpdateIrq(w).irq = Line(UpdateIrq(w))
    BY DEF UpdateIrq, Watchdog, Monitor, Steady, Line
  <1>3. /\ Exclusive(UpdateIrq(w)) /\ BeforeUnlock(UpdateIrq(w)) /\ BelowTimeout(UpdateIrq(w))
    BY DEF UpdateIrq, Watchdog, Steady, Exclusive, BeforeUnlock, BelowTimeout
  <1>4. (Timely(w) => Timely(UpdateIrq(w))) /\ KeepsLock(w, UpdateIrq(w))
    BY DEF UpdateIrq, Watchdog, Steady, Timely, KeepsLock, LockedIn
  <1> QED  BY <1>1, <1>2, <1>3, <1>4 DEF Sound, Steady

(* An exception either resets the part or leaves a fresh deadline for the
   reset; before the first unlock it resets. *)
LEMMA WdogExceptionSound ==
  ASSUME NEW w, Steady(w)
  PROVE  /\ Sound(WdogException(w))
         /\ KeepsLock(w, WdogException(w))
         /\ (/\ w.unlock_stage \/ w.refresh_stage => w.sequence_left >= 0
             /\ w.update_open => w.update_left > 0) => Timely(WdogException(w))
  <1> DEFINE v == [w EXCEPT !.counter = 0, !.flag = TRUE,
                            !.reset_pending = TRUE, !.reset_left = ResetDelay]
             OnTime == /\ w.unlock_stage \/ w.refresh_stage => w.sequence_left >= 0
                       /\ w.update_open => w.update_left > 0
  <1>1. CASE "IRQRSTEN" \notin w.config.ctrl \/ w.reset_pending
    BY <1>1, AfterResetSound DEF WdogException, SignalReset, KeepsLock
  <1>2. CASE ~("IRQRSTEN" \notin w.config.ctrl \/ w.reset_pending)
    <2>1. v \in Watchdog
      BY DEF Steady, Watchdog, Left
    <2>2. Exclusive(v) /\ BeforeUnlock(v) /\ BelowTimeout(v)
      BY DEF Steady, Watchdog, Exclusive, BeforeUnlock, BelowTimeout
    <2>3. OnTime => Timely(v)
      BY <1>2 DEF Steady, Watchdog, BeforeUnlock, Timely
    <2>4. KeepsLock(w, v) /\ v.config = w.config
      BY DEF Steady, Watchdog, KeepsLock, LockedIn
    <2> HIDE DEF v
    <2>5. WdogException(w) = UpdateIrq(v)
      BY <1>2 DEF WdogException, v
    <2>6. Sound(UpdateIrq(v)) /\ (Timely(v) => Timely(UpdateIrq(v))) /\ KeepsLock(v, UpdateIrq(v))
      BY <2>1, <2>2, UpdateIrqSound DEF Steady
    <2> QED  BY <2>3, <2>4, <2>5, <2>6 DEF KeepsLock, v, LockedIn, Steady, Watchdog
  <1> QED  BY <1>1, <1>2

-----------------------------------------------------------------------------
(* The passage of time *)

(* Counting a deadline down stays within its type: -1 is the last value,
   however far the bus advances past it. *)
LEMMA LessType == ASSUME NEW left \in Left, NEW ticks \in Nat PROVE Less(left, ticks) \in Left
  BY DEF Less, Left

(* Time that passes changes nothing but what is left of it. *)
LEMMA ElapseSound ==
  ASSUME NEW w, Sound(w), NEW ticks \in Nat
  PROVE  Sound(Elapse(w, ticks)) /\ KeepsLock(w, Elapse(w, ticks))
  <1> DEFINE a == Less(w.sequence_left, ticks)
             b == Less(w.ready_left, ticks)
             c == Less(w.update_left, ticks)
             d == Less(w.reset_left, ticks)
             e == [w.ewm EXCEPT !.service_left = Less(@, ticks)]
             r == [w EXCEPT !.sequence_left = a, !.ready_left = b, !.update_left = c,
                            !.reset_left = d, !.ewm = e]
  <1>1. w \in Watchdog /\ w.ewm \in Monitor  BY DEF Sound, Steady, Watchdog
  <1>2. e \in Monitor /\ e.output = w.ewm.output /\ e.ctrl = w.ewm.ctrl
    BY <1>1, LessType DEF Monitor
  <1>3. Elapse(w, ticks) = r
    BY <1>1 DEF Elapse, Watchdog
  <1>4. a \in Left /\ b \in Left /\ c \in Left /\ d \in Left
    BY <1>1, LessType DEF Watchdog
  <1> HIDE DEF a, b, c, d, e
  <1>5. r \in Watchdog
    BY <1>1, <1>2, <1>4 DEF Watchdog
  <1>6. Exclusive(r) /\ BeforeUnlock(r) /\ BelowTimeout(r) /\ KeepsLock(w, r)
    BY <1>1 DEF Watchdog, Sound, Steady, Exclusive, BeforeUnlock, BelowTimeout, KeepsLock, LockedIn
  <1>7. r.irq = Line(r)
    BY <1>1, <1>2 DEF Watchdog, Sound, Line
  <1> HIDE DEF r
  <1> QED  BY <1>3, <1>5, <1>6, <1>7 DEF Sound, Steady

(* The end of a window leaves the line and the deadlines as they are. *)
LEMMA ApplyUpdateSound ==
  ASSUME NEW w, Sound(w), w.update_open
  PROVE  /\ Sound(ApplyUpdate(w))
         /\ ApplyUpdate(w) \in Watchdog /\ ~ApplyUpdate(w).update_open
         /\ ~ApplyUpdate(w).unlock_stage /\ ~ApplyUpdate(w).refresh_stage
         /\ ~ApplyUpdate(w).initial_unlock_required
         /\ ApplyUpdate(w).reset_pending = w.reset_pending
         /\ ApplyUpdate(w).reset_left = w.reset_left
  <1> DEFINE c == [field \in DOMAIN w.config |->
                     IF field \in w.mask THEN w.pending[field] ELSE w.config[field]]
             r == [w EXCEPT !.config = c, !.update_open = FALSE, !.mask = {}, !.counter = 0]
  <1>1. w \in Watchdog /\ w.config \in Configs /\ w.pending \in Configs
    BY DEF Sound, Steady, Watchdog
  <1>2. DOMAIN w.config = {"ctrl", "timeout", "window"}  BY <1>1 DEF Configs
  <1>3. c \in Configs  BY <1>1, <1>2 DEF Configs
  <1> HIDE DEF c
  <1>4. ApplyUpdate(w) = r
    BY DEF ApplyUpdate, c
  <1>5. r \in Watchdog
    BY <1>1, <1>3 DEF Watchdog
  <1>6. /\ Exclusive(r) /\ BeforeUnlock(r) /\ BelowTimeout(r) /\ r.irq = Line(r)
        /\ ~r.update_open /\ ~r.unlock_stage /\ ~r.refresh_stage /\ ~r.initial_unlock_required
        /\ r.reset_pending = w.reset_pending /\ r.reset_left = w.reset_left
    BY <1>1 DEF Watchdog, Sound, Steady, Exclusive, BeforeUnlock, BelowTimeout, Line
  <1> HIDE DEF r
  <1> QED  BY <1>4, <1>5, <1>6 DEF Sound, Steady

(* A field that ends a sequence, a wait or a window is all that changes when
   its deadline has passed. *)
LEMMA StageEnds ==
  ASSUME NEW w, Sound(w)
  PROVE  /\ Steady([w EXCEPT !.unlock_stage = FALSE])
         /\ Steady([w EXCEPT !.refresh_stage = FALSE])
         /\ Steady([w EXCEPT !.initial_unlock_required = FALSE])
         /\ Steady([w EXCEPT !.update_open = FALSE])
  <1>1. Steady([w EXCEPT !.unlock_stage = FALSE])
    BY DEF Sound, Steady, Watchdog, Exclusive, BeforeUnlock, BelowTimeout
  <1>2. Steady([w EXCEPT !.refresh_stage = FALSE])
    BY DEF Sound, Steady, Watchdog, Exclusive, BeforeUnlock, BelowTimeout
  <1>3. Steady([w EXCEPT !.initial_unlock_required = FALSE])
    BY DEF Sound, Steady, Watchdog, Exclusive, BeforeUnlock, BelowTimeout
  <1>4. Steady([w EXCEPT !.update_open = FALSE])
    BY DEF Sound, Steady, Watchdog, Exclusive, BeforeUnlock, BelowTimeout
  <1> QED  BY <1>1, <1>2, <1>3, <1>4

(* Whatever has run out, wdog_process_bus_time leaves nothing behind that is
   out of time, though it takes one branch only: what the others would have
   ended cannot be there, or ends with the reset. *)
LEMMA ProcessBusTimeSound ==
  ASSUME NEW w, Sound(w)
  PROVE  /\ Sound(ProcessBusTime(w)) /\ Timely(ProcessBusTime(w))
         /\ KeepsLock(w, ProcessBusTime(w))
  <1> DEFINE Due == w.reset_pending /\ w.reset_left <= 0
             UnlockLate == w.unlock_stage /\ w.sequence_left < 0
             RefreshLate == w.refresh_stage /\ w.sequence_left < 0
             FirstLate == /\ w.initial_unlock_required /\ ~w.initial_debug_pause
                          /\ ~w.unlock_stage /\ w.update_left < 0
             WindowEnds == w.update_open /\ w.update_left <= 0
  <1>0. w \in Watchdog
    BY DEF Sound, Steady
  <1>1. CASE Due
    BY <1>1, AfterResetSound DEF ProcessBusTime, SignalReset, KeepsLock
  <1>2. CASE ~Due /\ UnlockLate
    <2> DEFINE v == [w EXCEPT !.unlock_stage = FALSE]
    <2>1. Steady(v)
      BY StageEnds
    <2>2. ProcessBusTime(w) = WdogException(v)
      BY <1>2 DEF ProcessBusTime
    <2>3. ~v.unlock_stage /\ ~v.refresh_stage /\ ~v.update_open /\ KeepsLock(w, v)
          /\ v.config = w.config /\ (LockedIn(w) => LockedIn(v)) /\ v.reset = w.reset
      BY <1>0, <1>2 DEF Watchdog, Sound, Steady, Exclusive, KeepsLock, LockedIn
    <2> HIDE DEF v
    <2> QED  BY <2>1, <2>2, <2>3, WdogExceptionSound DEF KeepsLock
  <1>3. CASE ~Due /\ ~UnlockLate /\ RefreshLate
    <2> DEFINE v == [w EXCEPT !.refresh_stage = FALSE]
    <2>1. Steady(v)
      BY StageEnds
    <2>2. ProcessBusTime(w) = WdogException(v)
      BY <1>3 DEF ProcessBusTime
    <2>3. ~v.unlock_stage /\ ~v.refresh_stage /\ ~v.update_open
          /\ v.config = w.config /\ (LockedIn(w) => LockedIn(v))
      BY <1>0, <1>3 DEF Watchdog, Sound, Steady, Exclusive, KeepsLock, LockedIn
    <2> HIDE DEF v
    <2> QED  BY <2>1, <2>2, <2>3, WdogExceptionSound DEF KeepsLock
  <1>4. CASE ~Due /\ ~UnlockLate /\ ~RefreshLate /\ FirstLate
    <2> DEFINE v == [w EXCEPT !.initial_unlock_required = FALSE]
    <2>1. Steady(v)
      BY StageEnds
    <2>2. ProcessBusTime(w) = WdogException(v)
      BY <1>4 DEF ProcessBusTime
    <2>3. /\ ~v.update_open /\ ~LockedIn(w)
          /\ v.unlock_stage \/ v.refresh_stage => v.sequence_left >= 0
      BY <1>0, <1>4 DEF Watchdog, Left, Sound, Steady, BeforeUnlock, LockedIn
    <2> HIDE DEF v
    <2> QED  BY <2>1, <2>2, <2>3, WdogExceptionSound DEF KeepsLock
  <1>5. CASE ~Due /\ ~UnlockLate /\ ~RefreshLate /\ ~FirstLate /\ WindowEnds /\ w.update_written
    <2>1. ProcessBusTime(w) = ApplyUpdate(w)
      BY <1>5 DEF ProcessBusTime
    <2>2. Timely(ApplyUpdate(w))
      BY <1>0, <1>5, ApplyUpdateSound DEF Timely, Watchdog, Left
    <2> QED  BY <1>5, <2>1, <2>2, ApplyUpdateSound DEF KeepsLock, LockedIn
  <1>6. CASE ~Due /\ ~UnlockLate /\ ~RefreshLate /\ ~FirstLate /\ WindowEnds /\ ~w.update_written
    <2> DEFINE v == [w EXCEPT !.update_open = FALSE]
    <2>1. Steady(v)
      BY StageEnds
    <2>2. ProcessBusTime(w) = WdogException(v)
      BY <1>6 DEF ProcessBusTime
    <2>3. ~v.unlock_stage /\ ~v.refresh_stage /\ ~v.update_open /\ ~LockedIn(w)
      BY <1>0, <1>6 DEF Watchdog, Sound, Steady, Exclusive, LockedIn
    <2> HIDE DEF v
    <2> QED  BY <2>1, <2>2, <2>3, WdogExceptionSound DEF KeepsLock
  <1>7. CASE ~Due /\ ~UnlockLate /\ ~RefreshLate /\ ~FirstLate /\ ~WindowEnds
    <2>1. ProcessBusTime(w) = w
      BY <1>7 DEF ProcessBusTime
    <2>2. Timely(w)
      BY <1>0, <1>7 DEF Timely, Watchdog, Left
    <2> QED  BY <2>1, <2>2 DEF KeepsLock
  <1> QED  BY <1>1, <1>2, <1>3, <1>4, <1>5, <1>6, <1>7

(* A field that the proofs do not look at, set to something of its type. *)
LEMMA ResetFlag ==
  ASSUME NEW w, Sound(w), NEW b \in BOOLEAN
  PROVE  LET r == [w EXCEPT !.reset = b]
         IN  /\ Sound(r) /\ (Timely(w) => Timely(r)) /\ r.config = w.config
             /\ (LockedIn(w) => LockedIn(r)) /\ r.reset = b
  <1> DEFINE r == [w EXCEPT !.reset = b]
  <1>1. w \in Watchdog  BY DEF Sound, Steady
  <1>2. r \in Watchdog  BY <1>1 DEF Watchdog
  <1>3. /\ Exclusive(r) /\ BeforeUnlock(r) /\ BelowTimeout(r) /\ r.irq = Line(r)
        /\ (Timely(w) => Timely(r)) /\ r.config = w.config
        /\ (LockedIn(w) => LockedIn(r)) /\ r.reset = b
    BY <1>1 DEF Watchdog, Sound, Steady, Exclusive, BeforeUnlock, BelowTimeout, Line, Timely, LockedIn
  <1> QED  BY <1>2, <1>3 DEF Sound, Steady

(* wdog_advance_bus: whatever bus time passes, the state it leaves is sound
   and nothing in it is out of time, or the device has been reset. *)
LEMMA AdvanceBusSound ==
  ASSUME NEW w, Sound(w), NEW ticks \in Nat
  PROVE  /\ Sound(AdvanceBus(w, ticks)) /\ Timely(AdvanceBus(w, ticks))
         /\ KeepsLock(w, AdvanceBus(w, ticks))
  <1> DEFINE u == [w EXCEPT !.reset = FALSE]
             v == Elapse(u, ticks)
  <1>1. Sound(u) /\ (LockedIn(w) => LockedIn(u)) /\ u.config = w.config /\ u.reset = FALSE
    BY ResetFlag
  <1> HIDE DEF u
  <1>2. Sound(v) /\ KeepsLock(u, v) /\ v.reset = FALSE
    <2>1. v.reset = u.reset
      BY <1>1 DEF Sound, Steady, Watchdog, Elapse
    <2> QED  BY <1>1, <2>1, ElapseSound
  <1> HIDE DEF v
  <1>3. AdvanceBus(w, ticks) = ProcessBusTime(v)
    BY DEF AdvanceBus, u, v
  <1> QED  BY <1>1, <1>2, <1>3, ProcessBusTimeSound DEF KeepsLock

(* The counter bites before it reaches the timeout. *)
LEMMA CountSound ==
  ASSUME NEW w, Sound(w), Timely(w), NEW ticks \in Nat
  PROVE  Sound(Count(w, ticks)) /\ Timely(Count(w, ticks)) /\ KeepsLock(w, Count(w, ticks))
  <1>1. CASE ticks = 0 \/ ~Running(w)
    BY <1>1 DEF Count, KeepsLock
  <1>2. CASE ~(ticks = 0 \/ ~Running(w)) /\ w.counter + ticks >= w.config.timeout
    BY <1>2, WdogExceptionSound DEF Count, Sound, Timely
  <1>3. CASE ~(ticks = 0 \/ ~Running(w)) /\ ~(w.counter + ticks >= w.config.timeout)
    <2> DEFINE r == [w EXCEPT !.counter = @ + ticks]
    <2>1. Count(w, ticks) = r
      BY <1>3 DEF Count
    <2>2. w \in Watchdog /\ w.config \in Configs /\ w.counter \in Nat
      BY DEF Sound, Steady, Watchdog
    <2>3. w.config.timeout \in Nat
      BY <2>2 DEF Configs
    <2>4. r \in Watchdog
      BY <2>2 DEF Watchdog
    <2>5. r.counter = w.counter + ticks /\ r.config = w.config
      BY <2>2 DEF Watchdog
    <2>6. Exclusive(r) /\ BeforeUnlock(r) /\ Timely(r) /\ r.irq = Line(r) /\ KeepsLock(w, r)
      BY <2>2 DEF Watchdog, Sound, Steady, Exclusive, BeforeUnlock, Line, Timely, KeepsLock, LockedIn
    <2>7. BelowTimeout(r)
      BY <1>3, <2>2, <2>3, <2>5 DEF BelowTimeout
    <2> HIDE DEF r
    <2> QED  BY <2>1, <2>4, <2>6, <2>7 DEF Sound, Steady
  <1> QED  BY <1>1, <1>2, <1>3

(* The watchdog's part of an advance of the core, bus time first and then the
   ticks of its counter, keeps a good state good. *)
LEMMA AdvanceWdogSound ==
  ASSUME NEW w, Sound(w), NEW bus_ticks \in Nat, NEW ticks \in Nat
  PROVE  /\ Sound(AdvanceWdog(w, bus_ticks, ticks)) /\ Timely(AdvanceWdog(w, bus_ticks, ticks))
         /\ KeepsLock(w, AdvanceWdog(w, bus_ticks, ticks))
  <1> DEFINE passed == AdvanceBus(w, bus_ticks)
  <1>1. Sound(passed) /\ Timely(passed) /\ KeepsLock(w, passed)
    BY AdvanceBusSound
  <1> HIDE DEF passed
  <1>2. CASE passed.reset \/ (w.update_open /\ ~passed.update_open)
    BY <1>1, <1>2 DEF AdvanceWdog, passed
  <1>3. CASE ~(passed.reset \/ (w.update_open /\ ~passed.update_open))
    <2>1. AdvanceWdog(w, bus_ticks, ticks) = Count(passed, ticks)
      BY <1>3 DEF AdvanceWdog, passed
    <2> QED  BY <1>1, <1>3, <2>1, CountSound DEF KeepsLock
  <1> QED  BY <1>2, <1>3

-----------------------------------------------------------------------------
(* The monitor, and the reports of the core *)

(* A step of the monitor that leaves its output and its enables alone. *)
LEMMA QuietMonitor ==
  ASSUME NEW w, Sound(w), NEW e \in Monitor, e.output = w.ewm.output, e.ctrl = w.ewm.ctrl
  PROVE  LET r == [w EXCEPT !.ewm = e]
         IN  Sound(r) /\ (Timely(w) => Timely(r)) /\ KeepsLock(w, r) /\ r.ewm = e
  <1> DEFINE r == [w EXCEPT !.ewm = e]
  <1>1. w \in Watchdog  BY DEF Sound, Steady
  <1>2. r \in Watchdog  BY <1>1 DEF Watchdog
  <1>3. /\ Exclusive(r) /\ BeforeUnlock(r) /\ BelowTimeout(r) /\ r.irq = Line(r)
        /\ (Timely(w) => Timely(r)) /\ KeepsLock(w, r) /\ r.ewm = e
    BY <1>1 DEF Watchdog, Sound, Steady, Exclusive, BeforeUnlock, BelowTimeout, Line, Timely,
                KeepsLock, LockedIn
  <1> QED  BY <1>2, <1>3 DEF Sound, Steady

(* Any step of the monitor, when the line is put right after it. *)
LEMMA LoudMonitor ==
  ASSUME NEW w, Sound(w), NEW e \in Monitor
  PROVE  LET r == UpdateIrq([w EXCEPT !.ewm = e])
         IN  Sound(r) /\ (Timely(w) => Timely(r)) /\ KeepsLock(w, r)
  <1> DEFINE v == [w EXCEPT !.ewm = e]
  <1>1. w \in Watchdog  BY DEF Sound, Steady
  <1>2. v \in Watchdog  BY <1>1 DEF Watchdog
  <1>3. /\ Exclusive(v) /\ BeforeUnlock(v) /\ BelowTimeout(v)
        /\ (Timely(w) => Timely(v)) /\ v.config = w.config /\ (LockedIn(w) => LockedIn(v))
    BY <1>1 DEF Watchdog, Sound, Steady, Exclusive, BeforeUnlock, BelowTimeout, Timely, LockedIn
  <1> HIDE DEF v
  <1>4. Steady(v)  BY <1>2, <1>3 DEF Steady
  <1>5. Sound(UpdateIrq(v)) /\ (Timely(v) => Timely(UpdateIrq(v))) /\ KeepsLock(v, UpdateIrq(v))
    BY <1>4, UpdateIrqSound
  <1> QED  BY <1>3, <1>5 DEF v, KeepsLock

(* assert_ewm_output raises the shared line if the monitor's interrupt is
   enabled, so it leaves a sound state sound. *)
LEMMA AssertEwmOutputSound ==
  ASSUME NEW w, Sound(w)
  PROVE  /\ Sound(AssertEwmOutput(w)) /\ (Timely(w) => Timely(AssertEwmOutput(w)))
         /\ KeepsLock(w, AssertEwmOutput(w))
  <1> DEFINE e == [w.ewm EXCEPT !.output = TRUE]
  <1>1. w \in Watchdog /\ w.ewm \in Monitor  BY DEF Sound, Steady, Watchdog
  <1>2. e \in Monitor  BY <1>1 DEF Monitor
  <1>3. [w EXCEPT !.ewm.output = TRUE] = [w EXCEPT !.ewm = e]  BY <1>1 DEF Watchdog
  <1> HIDE DEF e
  <1> QED  BY <1>2, <1>3, LoudMonitor DEF AssertEwmOutput

(* k22_timing_internal_advance_ewm: the counter of the monitor, its saturation
   and its output touch nothing the watchdog's deadlines depend on. *)
LEMMA CountEwmSound ==
  ASSUME NEW w, Sound(w), Timely(w), NEW ticks \in Nat
  PROVE  Sound(CountEwm(w, ticks)) /\ Timely(CountEwm(w, ticks)) /\ KeepsLock(w, CountEwm(w, ticks))
  <1> DEFINE count == IF w.ewm.counter + ticks < CounterLimit THEN w.ewm.counter + ticks
                      ELSE CounterLimit
             e == [w.ewm EXCEPT !.counter = count]
             counted == [w EXCEPT !.ewm = e]
  <1>1. w \in Watchdog /\ w.ewm \in Monitor  BY DEF Sound, Steady, Watchdog
  <1>2. count \in 0..CounterLimit  BY <1>1 DEF Monitor
  <1> HIDE DEF count
  <1>3. e \in Monitor /\ e.output = w.ewm.output /\ e.ctrl = w.ewm.ctrl
    BY <1>1, <1>2 DEF Monitor
  <1>4. [w EXCEPT !.ewm.counter = count] = counted
    BY <1>1 DEF Watchdog
  <1> HIDE DEF e
  <1>5. Sound(counted) /\ Timely(counted) /\ KeepsLock(w, counted)
    BY <1>3, QuietMonitor
  <1>6. /\ Sound(AssertEwmOutput(counted)) /\ Timely(AssertEwmOutput(counted))
        /\ KeepsLock(counted, AssertEwmOutput(counted)) /\ counted.reset = w.reset
    BY <1>1, <1>5, AssertEwmOutputSound DEF Watchdog
  <1>7. CountEwm(w, ticks) \in {w, counted, AssertEwmOutput(counted)}
    BY <1>4 DEF CountEwm, count
  <1>8. KeepsLock(w, AssertEwmOutput(counted))
    <2>1. AssertEwmOutput(counted).reset = counted.reset
      BY <1>5 DEF AssertEwmOutput, UpdateIrq, Sound, Steady, Watchdog
    <2> QED  BY <1>5, <1>6, <2>1 DEF KeepsLock
  <1>9. KeepsLock(w, w)  BY DEF KeepsLock
  <1> QED  BY <1>5, <1>6, <1>7, <1>8, <1>9

(* k22_timing_set_cpu_sleeping: pausing and resuming the service of the
   monitor leaves the watchdog alone. *)
LEMMA SetSleepingSound ==
  ASSUME NEW w, Sound(w), NEW sleep \in {"run", "wait", "stop"}
  PROVE  LET r == SetSleeping(w, sleep)
         IN  Sound(r) /\ r.config = w.config /\ (LockedIn(w) => LockedIn(r))
  <1> DEFINE r == SetSleeping(w, sleep)
             paused == [w.ewm EXCEPT !.service_paused = TRUE,
                                     !.service_remaining = w.ewm.service_left]
             resumed == [w.ewm EXCEPT !.service_paused = FALSE,
                                      !.service_left = w.ewm.service_remaining]
  <1>1. w \in Watchdog /\ w.ewm \in Monitor  BY DEF Sound, Steady, Watchdog
  <1>2. PICK e \in Monitor : /\ e.output = w.ewm.output /\ e.ctrl = w.ewm.ctrl
                             /\ r = [w EXCEPT !.sleep = sleep, !.ewm = e]
    <2>1. CASE /\ sleep # "run" /\ w.sleep = "run"
               /\ w.ewm.service_stage /\ w.ewm.service_left >= 0
      <3>0. w.ewm.service_left \in Nat
        BY <1>1, <2>1 DEF Monitor, Left
      <3>1. paused \in Monitor /\ paused.output = w.ewm.output /\ paused.ctrl = w.ewm.ctrl
        BY <1>1, <3>0 DEF Monitor
      <3>2. r = [w EXCEPT !.sleep = sleep, !.ewm = paused]
        BY <1>1, <2>1 DEF SetSleeping, Watchdog
      <3> QED  BY <3>1, <3>2
    <2>2. CASE sleep = "run" /\ w.ewm.service_paused
      <3>1. resumed \in Monitor /\ resumed.output = w.ewm.output /\ resumed.ctrl = w.ewm.ctrl
        BY <1>1, <2>2 DEF Monitor, Left
      <3>2. r = [w EXCEPT !.sleep = sleep, !.ewm = resumed]
        BY <1>1, <2>2 DEF SetSleeping, Watchdog
      <3> QED  BY <3>1, <3>2
    <2>3. CASE /\ ~(/\ sleep # "run" /\ w.sleep = "run"
                    /\ w.ewm.service_stage /\ w.ewm.service_left >= 0)
               /\ ~(sleep = "run" /\ w.ewm.service_paused)
      <3>1. r = [w EXCEPT !.sleep = sleep]
        BY <2>3 DEF SetSleeping
      <3>2. [w EXCEPT !.sleep = sleep] = [w EXCEPT !.sleep = sleep, !.ewm = w.ewm]
        BY <1>1 DEF Watchdog
      <3> QED  BY <1>1, <3>1, <3>2
    <2> QED  BY <2>1, <2>2, <2>3
  <1> HIDE DEF r
  <1>3. r \in Watchdog  BY <1>1, <1>2 DEF Watchdog
  <1>4. /\ Exclusive(r) /\ BeforeUnlock(r) /\ BelowTimeout(r) /\ r.irq = Line(r)
        /\ r.config = w.config /\ (LockedIn(w) => LockedIn(r))
    BY <1>1, <1>2 DEF Watchdog, Sound, Steady, Exclusive, BeforeUnlock, BelowTimeout, Line, LockedIn
  <1> QED  BY <1>3, <1>4 DEF Sound, Steady, r

(* Taking and giving back the time for the first unlock; a window may be left
   without time by it, which is why nothing is said of Timely. *)
LEMMA SetHaltedSound ==
  ASSUME NEW w, Sound(w), NEW halted \in BOOLEAN
  PROVE  LET r == SetHalted(w, halted)
         IN  Sound(r) /\ r.config = w.config /\ (LockedIn(w) => LockedIn(r))
  <1> DEFINE r == SetHalted(w, halted)
  <1>1. /\ w \in Watchdog /\ w.initial_debug_pause \in BOOLEAN
        /\ w.initial_debug_remaining \in Nat /\ w.update_left \in Left
    BY DEF Sound, Steady, Watchdog
  <1>2. PICK p \in BOOLEAN, n \in Nat, left \in Left :
          r = [w EXCEPT !.halted = halted, !.initial_debug_pause = p,
                        !.initial_debug_remaining = n, !.update_left = left]
    <2>1. CASE w.halted = halted
      <3>1. r = [w EXCEPT !.halted = halted, !.initial_debug_pause = w.initial_debug_pause,
                          !.initial_debug_remaining = w.initial_debug_remaining,
                          !.update_left = w.update_left]
        BY <1>1, <2>1 DEF SetHalted, Watchdog
      <3> HIDE DEF r
      <3> QED  BY <1>1, <3>1
    <2>2. CASE w.halted # halted /\ halted /\ w.initial_unlock_required /\ w.update_left >= 0
      <3>1. r = [w EXCEPT !.halted = halted, !.initial_debug_pause = TRUE,
                          !.initial_debug_remaining = w.update_left,
                          !.update_left = w.update_left]
        BY <1>1, <2>2 DEF SetHalted, Watchdog
      <3>2. w.update_left \in Nat  BY <1>1, <2>2 DEF Left
      <3> HIDE DEF r
      <3> QED  BY <1>1, <3>1, <3>2
    <2>3. CASE w.halted # halted /\ ~halted /\ w.initial_debug_pause
      <3>1. r = [w EXCEPT !.halted = halted, !.initial_debug_pause = FALSE,
                          !.initial_debug_remaining = w.initial_debug_remaining,
                          !.update_left = w.initial_debug_remaining]
        BY <1>1, <2>3 DEF SetHalted, Watchdog
      <3>2. w.initial_debug_remaining \in Left  BY <1>1 DEF Left
      <3> HIDE DEF r
      <3> QED  BY <1>1, <3>1, <3>2
    <2>4. CASE /\ w.halted # halted
               /\ ~(halted /\ w.initial_unlock_required /\ w.update_left >= 0)
               /\ ~(~halted /\ w.initial_debug_pause)
      <3>1. r = [w EXCEPT !.halted = halted, !.initial_debug_pause = w.initial_debug_pause,
                          !.initial_debug_remaining = w.initial_debug_remaining,
                          !.update_left = w.update_left]
        BY <1>1, <2>4 DEF SetHalted, Watchdog
      <3> HIDE DEF r
      <3> QED  BY <1>1, <3>1
    <2> QED  BY <2>1, <2>2, <2>3, <2>4
  <1> HIDE DEF r
  <1>3. r \in Watchdog
    <2> DEFINE a == [w EXCEPT !.halted = halted]
               b == [a EXCEPT !.initial_debug_pause = p]
               c == [b EXCEPT !.initial_debug_remaining = n]
    <2>1. a \in Watchdog  BY <1>1 DEF Watchdog
    <2>2. b \in Watchdog  BY <2>1 DEF Watchdog
    <2>3. c \in Watchdog  BY <2>2 DEF Watchdog
    <2>4. [c EXCEPT !.update_left = left] \in Watchdog  BY <2>3 DEF Watchdog
    <2>5. r = [c EXCEPT !.update_left = left]  BY <1>1, <1>2 DEF Watchdog
    <2> QED  BY <2>4, <2>5
  <1>4. /\ Exclusive(r) /\ BeforeUnlock(r) /\ BelowTimeout(r) /\ r.irq = Line(r)
        /\ r.config = w.config /\ (LockedIn(w) => LockedIn(r))
    BY <1>1, <1>2 DEF Watchdog, Sound, Steady, Exclusive, BeforeUnlock, BelowTimeout, Line, LockedIn
  <1> QED  BY <1>3, <1>4 DEF Sound, Steady, r

-----------------------------------------------------------------------------
(* Register writes *)

(* merge_wdog_write: a word or a byte of a sequence register that is put into
   it leaves two bytes in it. *)
LEMMA MergeType ==
  ASSUME NEW register \in [Lanes -> Bytes], NEW lanes \in SUBSET Lanes, NEW byte \in Bytes
  PROVE  Merge(register, lanes, byte) \in [Lanes -> Bytes]
  BY DEF Merge

(* Only an unlock that may be one is looked at, with no other sequence under
   way. *)
LEMMA AcceptUnlockSound ==
  ASSUME NEW w, Sound(w), Timely(w), ~w.refresh_stage, ~w.update_open
  PROVE  Sound(AcceptUnlock(w)) /\ Timely(AcceptUnlock(w))
  <1> DEFINE begun == [w EXCEPT !.unlock_stage = TRUE, !.sequence_left = SequenceTime]
             open == [w EXCEPT !.unlock_stage = FALSE, !.initial_unlock_required = FALSE,
                               !.update_open = TRUE, !.update_written = FALSE, !.mask = {},
                               !.ready_left = 1, !.update_left = WindowTime + 1,
                               !.pending = w.config]
             failed == [w EXCEPT !.unlock_stage = FALSE]
  <1>1. w \in Watchdog  BY DEF Sound, Steady
  <1>2. Sound(begun) /\ Timely(begun)
    <2>1. begun \in Watchdog  BY <1>1 DEF Watchdog, Left
    <2>2. /\ Exclusive(begun) /\ BeforeUnlock(begun) /\ BelowTimeout(begun)
          /\ begun.irq = Line(begun) /\ Timely(begun)
      BY <1>1 DEF Watchdog, Sound, Steady, Exclusive, BeforeUnlock, BelowTimeout, Line, Timely
    <2> QED  BY <2>1, <2>2 DEF Sound, Steady
  <1>3. Sound(open) /\ Timely(open)
    <2>1. open \in Watchdog
      <3>1. 1 \in Left /\ WindowTime + 1 \in Left /\ w.config \in Configs
        BY <1>1 DEF Watchdog, Left
      <3> QED  BY <1>1, <3>1 DEF Watchdog
    <2>2. /\ Exclusive(open) /\ BeforeUnlock(open) /\ BelowTimeout(open)
          /\ open.irq = Line(open) /\ Timely(open)
      BY <1>1 DEF Watchdog, Sound, Steady, Exclusive, BeforeUnlock, BelowTimeout, Line, Timely
    <2> QED  BY <2>1, <2>2 DEF Sound, Steady
  <1>4. Sound(WdogException(failed)) /\ Timely(WdogException(failed))
    <2>1. ~failed.unlock_stage /\ ~failed.refresh_stage /\ ~failed.update_open
      BY <1>1 DEF Watchdog
    <2> HIDE DEF failed
    <2>2. Steady(failed)  BY StageEnds DEF failed
    <2> QED  BY <2>1, <2>2, WdogExceptionSound
  <1>5. AcceptUnlock(w) \in {begun, open, WdogException(failed)}
    BY DEF AcceptUnlock
  <1> HIDE DEF begun, open, failed
  <1> QED  BY <1>2, <1>3, <1>4, <1>5

(* accept_wdog_refresh: outside unlock and window, a complete word starts the
   refresh, ends it, or is an exception, and the state stays good. *)
LEMMA AcceptRefreshSound ==
  ASSUME NEW w, Sound(w), Timely(w), ~w.unlock_stage, ~w.update_open
  PROVE  Sound(AcceptRefresh(w)) /\ Timely(AcceptRefresh(w)) /\ KeepsLock(w, AcceptRefresh(w))
  <1> DEFINE begun == [w EXCEPT !.refresh_stage = TRUE, !.sequence_left = SequenceTime]
             ended == [w EXCEPT !.refresh_stage = FALSE]
             done == [ended EXCEPT !.counter = 0]
  <1>1. w \in Watchdog  BY DEF Sound, Steady
  <1>2. Sound(begun) /\ Timely(begun) /\ KeepsLock(w, begun)
    <2>1. begun \in Watchdog  BY <1>1 DEF Watchdog, Left
    <2>2. /\ Exclusive(begun) /\ BeforeUnlock(begun) /\ BelowTimeout(begun)
          /\ begun.irq = Line(begun) /\ Timely(begun) /\ KeepsLock(w, begun)
      BY <1>1 DEF Watchdog, Sound, Steady, Exclusive, BeforeUnlock, BelowTimeout, Line, Timely,
                  KeepsLock, LockedIn
    <2> QED  BY <2>1, <2>2 DEF Sound, Steady
  <1>3. Sound(done) /\ Timely(done) /\ KeepsLock(w, done)
    <2>1. done \in Watchdog  BY <1>1 DEF Watchdog
    <2>2. /\ Exclusive(done) /\ BeforeUnlock(done) /\ BelowTimeout(done)
          /\ done.irq = Line(done) /\ Timely(done) /\ KeepsLock(w, done)
      BY <1>1 DEF Watchdog, Sound, Steady, Exclusive, BeforeUnlock, BelowTimeout, Line, Timely,
                  KeepsLock, LockedIn
    <2> QED  BY <2>1, <2>2 DEF Sound, Steady
  <1>4. /\ Sound(WdogException(ended)) /\ Timely(WdogException(ended))
        /\ KeepsLock(w, WdogException(ended))
    <2>1. /\ ~ended.unlock_stage /\ ~ended.refresh_stage /\ ~ended.update_open
          /\ ended.config = w.config /\ (LockedIn(w) => LockedIn(ended))
      BY <1>1 DEF Watchdog, LockedIn
    <2> HIDE DEF ended
    <2>2. Steady(ended)  BY StageEnds DEF ended
    <2> QED  BY <2>1, <2>2, WdogExceptionSound DEF KeepsLock
  <1>5. AcceptRefresh(w) \in {begun, done, WdogException(ended)}
    BY DEF AcceptRefresh
  <1> HIDE DEF begun, ended, done
  <1> QED  BY <1>2, <1>3, <1>4, <1>5

(* A word of a sequence that is merged into its register. *)
LEMMA MergedSound ==
  ASSUME NEW w, Sound(w), Timely(w), NEW word \in [Lanes -> Bytes],
         NEW r \in {[w EXCEPT !.unlock = word], [w EXCEPT !.refresh = word]}
  PROVE  /\ Sound(r) /\ Timely(r) /\ r.config = w.config /\ (LockedIn(w) => LockedIn(r))
         /\ r.unlock_stage = w.unlock_stage /\ r.refresh_stage = w.refresh_stage
         /\ r.update_open = w.update_open
  <1>1. w \in Watchdog  BY DEF Sound, Steady
  <1>2. CASE r = [w EXCEPT !.unlock = word]
    <2>1. r \in Watchdog  BY <1>1, <1>2 DEF Watchdog
    <2>2. /\ Exclusive(r) /\ BeforeUnlock(r) /\ BelowTimeout(r) /\ r.irq = Line(r) /\ Timely(r)
          /\ r.config = w.config /\ (LockedIn(w) => LockedIn(r))
          /\ r.unlock_stage = w.unlock_stage /\ r.refresh_stage = w.refresh_stage
          /\ r.update_open = w.update_open
      BY <1>1, <1>2 DEF Watchdog, Sound, Steady, Exclusive, BeforeUnlock, BelowTimeout, Line,
                        Timely, LockedIn
    <2> QED  BY <2>1, <2>2 DEF Sound, Steady
  <1>3. CASE r = [w EXCEPT !.refresh = word]
    <2>1. r \in Watchdog  BY <1>1, <1>3 DEF Watchdog
    <2>2. /\ Exclusive(r) /\ BeforeUnlock(r) /\ BelowTimeout(r) /\ r.irq = Line(r) /\ Timely(r)
          /\ r.config = w.config /\ (LockedIn(w) => LockedIn(r))
          /\ r.unlock_stage = w.unlock_stage /\ r.refresh_stage = w.refresh_stage
          /\ r.update_open = w.update_open
      BY <1>1, <1>3 DEF Watchdog, Sound, Steady, Exclusive, BeforeUnlock, BelowTimeout, Line,
                        Timely, LockedIn
    <2> QED  BY <2>1, <2>2 DEF Sound, Steady
  <1> QED  BY <1>2, <1>3

(* A write to the unlock register, whole or by bytes, ignored or not, keeps a
   good state good. *)
LEMMA WriteUnlockSound ==
  ASSUME NEW w, Sound(w), Timely(w), NEW lanes \in SUBSET Lanes, NEW byte \in Bytes
  PROVE  LET r == WriteUnlock(w, lanes, byte) IN Sound(r) /\ Timely(r) /\ KeepsLock(w, r)
  <1> DEFINE merged == [w EXCEPT !.unlock = Merge(@, lanes, byte)]
  <1>1. CASE UnlockIgnored(w)
    BY <1>1 DEF WriteUnlock, KeepsLock
  <1>2. CASE ~UnlockIgnored(w)
    <2>1. ~w.refresh_stage /\ ~w.update_open /\ ~LockedIn(w)
      BY <1>2 DEF UnlockIgnored, LockedIn
    <2>2. w.unlock \in [Lanes -> Bytes]  BY DEF Sound, Steady, Watchdog
    <2>3. /\ Sound(merged) /\ Timely(merged)
          /\ merged.refresh_stage = w.refresh_stage /\ merged.update_open = w.update_open
      <3> DEFINE word == Merge(w.unlock, lanes, byte)
      <3>1. word \in [Lanes -> Bytes]  BY <2>2, MergeType
      <3> HIDE DEF word
      <3>2. [w EXCEPT !.unlock = word] \in {[w EXCEPT !.unlock = word], [w EXCEPT !.refresh = word]}
        OBVIOUS
      <3> QED  BY <3>1, <3>2, MergedSound DEF word
    <2>4. WriteUnlock(w, lanes, byte) \in {WdogException(merged), AcceptUnlock(merged), merged}
      BY <1>2 DEF WriteUnlock
    <2> HIDE DEF merged
    <2>5. Sound(WdogException(merged)) /\ Timely(WdogException(merged))
      BY <2>3, WdogExceptionSound DEF Sound, Timely
    <2>6. Sound(AcceptUnlock(merged)) /\ Timely(AcceptUnlock(merged))
      BY <2>1, <2>3, AcceptUnlockSound
    <2> QED  BY <2>1, <2>3, <2>4, <2>5, <2>6 DEF KeepsLock
  <1> QED  BY <1>1, <1>2

(* A write to the refresh register, whole or by bytes, ignored or not, keeps
   a good state good. *)
LEMMA WriteRefreshSound ==
  ASSUME NEW w, Sound(w), Timely(w), NEW lanes \in SUBSET Lanes, NEW byte \in Bytes
  PROVE  LET r == WriteRefresh(w, lanes, byte) IN Sound(r) /\ Timely(r) /\ KeepsLock(w, r)
  <1> DEFINE merged == [w EXCEPT !.refresh = Merge(@, lanes, byte)]
  <1>1. CASE w.unlock_stage \/ w.update_open
    BY <1>1 DEF WriteRefresh, KeepsLock
  <1>2. CASE ~(w.unlock_stage \/ w.update_open)
    <2>2. w.refresh \in [Lanes -> Bytes]  BY DEF Sound, Steady, Watchdog
    <2>3. /\ Sound(merged) /\ Timely(merged)
          /\ merged.config = w.config /\ (LockedIn(w) => LockedIn(merged))
          /\ merged.unlock_stage = w.unlock_stage /\ merged.update_open = w.update_open
      <3> DEFINE word == Merge(w.refresh, lanes, byte)
      <3>1. word \in [Lanes -> Bytes]  BY <2>2, MergeType
      <3> HIDE DEF word
      <3>2. [w EXCEPT !.refresh = word] \in {[w EXCEPT !.unlock = word], [w EXCEPT !.refresh = word]}
        OBVIOUS
      <3> QED  BY <3>1, <3>2, MergedSound DEF word
    <2>4. WriteRefresh(w, lanes, byte) \in {WdogException(merged), AcceptRefresh(merged), merged}
      BY <1>2 DEF WriteRefresh
    <2> HIDE DEF merged
    <2>5. /\ Sound(WdogException(merged)) /\ Timely(WdogException(merged))
          /\ KeepsLock(merged, WdogException(merged))
      BY <2>3, WdogExceptionSound DEF Sound, Timely
    <2>6. /\ Sound(AcceptRefresh(merged)) /\ Timely(AcceptRefresh(merged))
          /\ KeepsLock(merged, AcceptRefresh(merged))
      BY <1>2, <2>3, AcceptRefreshSound
    <2> QED  BY <2>3, <2>4, <2>5, <2>6 DEF KeepsLock
  <1> QED  BY <1>1, <1>2

(* A write to STCTRLL, which clears the interrupt flag and counts as a write
   in an open window, keeps a good state good. *)
LEMMA WriteStctrllSound ==
  ASSUME NEW w, Sound(w), Timely(w), NEW clear \in BOOLEAN
  PROVE  LET r == WriteStctrll(w, clear) IN Sound(r) /\ Timely(r) /\ KeepsLock(w, r)
  <1> DEFINE v == [w EXCEPT !.flag = FALSE]
             cleared == IF clear THEN UpdateIrq(v) ELSE w
             written == cleared.update_written \/ (w.update_open /\ w.ready_left <= 0)
             r == [cleared EXCEPT !.update_written = written]
  <1>1. w \in Watchdog  BY DEF Sound, Steady
  <1>2. Sound(cleared) /\ Timely(cleared) /\ KeepsLock(w, cleared)
    <2>1. Steady(v) /\ Timely(v) /\ v.config = w.config /\ (LockedIn(w) => LockedIn(v))
      <3>1. v \in Watchdog  BY <1>1 DEF Watchdog
      <3> QED  BY <1>1, <3>1 DEF Watchdog, Sound, Steady, Exclusive, BeforeUnlock, BelowTimeout,
                                 Timely, LockedIn
    <2> HIDE DEF v
    <2>2. Sound(UpdateIrq(v)) /\ Timely(UpdateIrq(v)) /\ KeepsLock(v, UpdateIrq(v))
      BY <2>1, UpdateIrqSound
    <2> QED  BY <2>1, <2>2 DEF KeepsLock
  <1>3. WriteStctrll(w, clear) = r
    BY DEF WriteStctrll
  <1> HIDE DEF cleared
  <1>4. cleared \in Watchdog  BY <1>2 DEF Sound, Steady
  <1>5. written \in BOOLEAN  BY <1>1, <1>4 DEF Watchdog
  <1> HIDE DEF written
  <1>6. r \in Watchdog  BY <1>4, <1>5 DEF Watchdog
  <1>7. /\ Exclusive(r) /\ BeforeUnlock(r) /\ BelowTimeout(r) /\ r.irq = Line(r)
        /\ Timely(r) /\ r.config = cleared.config /\ (LockedIn(cleared) => LockedIn(r))
        /\ r.reset = cleared.reset
    BY <1>2, <1>4 DEF Watchdog, Sound, Steady, Exclusive, BeforeUnlock, BelowTimeout, Line, Timely,
                      LockedIn
  <1> HIDE DEF r
  <1>8. Sound(r) /\ Timely(r) /\ KeepsLock(w, r)
    BY <1>2, <1>6, <1>7 DEF Sound, Steady, KeepsLock
  <1> QED  BY <1>3, <1>8

(* A value of the type of a configuration register. *)
Value(field) == CASE field = "ctrl" -> SUBSET Controls [] OTHER -> Nat

(* A write to a configuration register keeps a good state good: it changes
   neither deadlines nor flags. *)
LEMMA WriteConfigSound ==
  ASSUME NEW w, Sound(w), Timely(w), NEW field \in {"ctrl", "timeout", "window"},
         NEW value \in Value(field)
  PROVE  LET r == WriteConfig(w, field, value) IN Sound(r) /\ Timely(r) /\ KeepsLock(w, r)
  <1> DEFINE pending == [w.pending EXCEPT ![field] = value]
             config == [w.config EXCEPT !.ctrl = (@ \ Immediate) \cup (value \cap Immediate)]
             written == [w EXCEPT !.pending = pending, !.mask = @ \cup {field},
                                  !.update_written = TRUE]
  <1>1. w \in Watchdog /\ w.pending \in Configs /\ w.config \in Configs
    BY DEF Sound, Steady, Watchdog
  <1>2. CASE ~w.update_open \/ w.ready_left > 0 \/ field \in w.mask
    BY <1>2 DEF WriteConfig, KeepsLock
  <1>3. CASE ~(~w.update_open \/ w.ready_left > 0 \/ field \in w.mask)
    <2>1. pending \in Configs
      <3>1. CASE field = "ctrl"  BY <1>1, <3>1 DEF Configs, Value
      <3>2. CASE field = "timeout"  BY <1>1, <3>2 DEF Configs, Value
      <3>3. CASE field = "window"  BY <1>1, <3>3 DEF Configs, Value
      <3> QED  BY <3>1, <3>2, <3>3
    <2>2. [w EXCEPT !.pending[field] = value, !.mask = @ \cup {field},
                    !.update_written = TRUE] = written
      BY <1>1 DEF Watchdog
    <2> HIDE DEF pending
    <2>3. Sound(written) /\ Timely(written) /\ written.config = w.config
      <3>1. written \in Watchdog  BY <1>1, <2>1 DEF Watchdog
      <3>2. /\ Exclusive(written) /\ BeforeUnlock(written) /\ BelowTimeout(written)
            /\ written.irq = Line(written) /\ Timely(written) /\ written.config = w.config
        BY <1>1 DEF Watchdog, Sound, Steady, Exclusive, BeforeUnlock, BelowTimeout, Line, Timely
      <3> QED  BY <3>1, <3>2 DEF Sound, Steady
    <2>4. CASE field # "ctrl"
      <3>1. WriteConfig(w, field, value) = written
        BY <1>3, <2>2, <2>4 DEF WriteConfig
      <3> QED  BY <1>3, <2>3, <3>1 DEF KeepsLock, LockedIn
    <2>5. CASE field = "ctrl"
      <3> DEFINE r == [written EXCEPT !.config = config]
      <3>1. written \in Watchdog /\ written.update_open
        BY <1>1, <1>3, <2>3 DEF Sound, Steady, Watchdog
      <3>2. WriteConfig(w, field, value) = r
        <4>1. WriteConfig(w, field, value) =
                [written EXCEPT !.config.ctrl = (@ \ Immediate) \cup (value \cap Immediate)]
          BY <1>3, <2>2, <2>5 DEF WriteConfig
        <4> QED  BY <2>3, <3>1, <4>1 DEF Watchdog
      <3>3. config \in Configs /\ config.timeout = w.config.timeout
        BY <1>1, <2>5 DEF Configs, Value
      <3> HIDE DEF config, written
      <3>4. r \in Watchdog  BY <3>1, <3>3 DEF Watchdog
      <3>5. /\ Exclusive(r) /\ BeforeUnlock(r) /\ BelowTimeout(r) /\ r.irq = Line(r) /\ Timely(r)
        BY <2>3, <3>1, <3>3 DEF Watchdog, Sound, Steady, Exclusive, BeforeUnlock, BelowTimeout,
                                Line, Timely
      <3> HIDE DEF r
      <3> QED  BY <1>3, <3>2, <3>4, <3>5 DEF Sound, Steady, KeepsLock, LockedIn
    <2> QED  BY <2>4, <2>5
  <1> QED  BY <1>2, <1>3

(* The one write of the monitor's CTRL, and later ones of its INTEN, leave the
   shared line in step with the flags. *)
LEMMA WriteEwmCtrlSound ==
  ASSUME NEW w, Sound(w), Timely(w), NEW value \in SUBSET EwmControls
  PROVE  LET r == WriteEwmCtrl(w, value) IN Sound(r) /\ Timely(r) /\ KeepsLock(w, r)
  <1> DEFINE first == [w.ewm EXCEPT !.ctrl = value, !.control_written = TRUE,
                                    !.counter = IF "EWMEN" \in value THEN 0 ELSE @,
                                    !.output = IF "EWMEN" \in value THEN FALSE ELSE @]
             again == [w.ewm EXCEPT !.ctrl = value]
  <1>1. w \in Watchdog /\ w.ewm \in Monitor  BY DEF Sound, Steady, Watchdog
  <1>2. first \in Monitor /\ again \in Monitor
    <2>1. 0 \in 0..CounterLimit  OBVIOUS
    <2> QED  BY <1>1, <2>1 DEF Monitor
  <1>3. WriteEwmCtrl(w, value) \in
          {w, UpdateIrq([w EXCEPT !.ewm = first]), UpdateIrq([w EXCEPT !.ewm = again])}
    <2>1. [w EXCEPT !.ewm.ctrl = value, !.ewm.control_written = TRUE,
                    !.ewm.counter = IF "EWMEN" \in value THEN 0 ELSE @,
                    !.ewm.output = IF "EWMEN" \in value THEN FALSE ELSE @] =
          [w EXCEPT !.ewm = first]
      BY <1>1 DEF Watchdog, Monitor
    <2>2. [w EXCEPT !.ewm.ctrl = value] = [w EXCEPT !.ewm = again]
      BY <1>1 DEF Watchdog, Monitor
    <2> HIDE DEF first, again
    <2> QED  BY <2>1, <2>2 DEF WriteEwmCtrl
  <1> HIDE DEF first, again
  <1>4. KeepsLock(w, w)  BY DEF KeepsLock
  <1> QED  BY <1>2, <1>3, <1>4, LoudMonitor

(* Either byte of the monitor's service, accepted or not, keeps a good state
   good. *)
LEMMA WriteEwmServiceSound ==
  ASSUME NEW w, Sound(w), Timely(w), NEW byte \in Bytes
  PROVE  LET r == WriteEwmService(w, byte) IN Sound(r) /\ Timely(r) /\ KeepsLock(w, r)
  <1> DEFINE e == [w.ewm EXCEPT !.service_stage = FALSE, !.service_paused = FALSE]
             begun == [w.ewm EXCEPT !.service_stage = TRUE, !.service_paused = FALSE,
                                    !.service_left = ServiceTime]
             served == [e EXCEPT !.counter = 0]
             ended == [w EXCEPT !.ewm = e]
  <1>1. w \in Watchdog /\ w.ewm \in Monitor  BY DEF Sound, Steady, Watchdog
  <1>2. /\ e \in Monitor /\ e.output = w.ewm.output /\ e.ctrl = w.ewm.ctrl
        /\ served \in Monitor /\ served.output = w.ewm.output /\ served.ctrl = w.ewm.ctrl
    <2>1. 0 \in 0..CounterLimit  OBVIOUS
    <2> QED  BY <1>1, <2>1 DEF Monitor
  <1>3. begun \in Monitor /\ begun.output = w.ewm.output /\ begun.ctrl = w.ewm.ctrl
    BY <1>1 DEF Monitor, Left
  <1>4. [w EXCEPT !.ewm.service_stage = FALSE, !.ewm.service_paused = FALSE] = ended
    BY <1>1 DEF Watchdog, Monitor
  <1>5. [w EXCEPT !.ewm.service_stage = TRUE, !.ewm.service_paused = FALSE,
                  !.ewm.service_left = ServiceTime] = [w EXCEPT !.ewm = begun]
    BY <1>1 DEF Watchdog, Monitor
  <1>6. [ended EXCEPT !.ewm.counter = 0] = [w EXCEPT !.ewm = served]
    BY <1>1 DEF Watchdog, Monitor
  <1> HIDE DEF e, begun, served, ended
  <1>7. WriteEwmService(w, byte) \in
          {[w EXCEPT !.ewm = begun], ended, [w EXCEPT !.ewm = served], AssertEwmOutput(ended)}
    BY <1>4, <1>5, <1>6 DEF WriteEwmService
  <1>8. Sound(ended) /\ Timely(ended) /\ KeepsLock(w, ended)
    BY <1>2, QuietMonitor DEF ended
  <1>9. /\ Sound([w EXCEPT !.ewm = begun]) /\ Timely([w EXCEPT !.ewm = begun])
        /\ KeepsLock(w, [w EXCEPT !.ewm = begun])
    BY <1>3, QuietMonitor
  <1>10. /\ Sound([w EXCEPT !.ewm = served]) /\ Timely([w EXCEPT !.ewm = served])
         /\ KeepsLock(w, [w EXCEPT !.ewm = served])
    BY <1>2, QuietMonitor
  <1>11. /\ Sound(AssertEwmOutput(ended)) /\ Timely(AssertEwmOutput(ended))
         /\ KeepsLock(w, AssertEwmOutput(ended))
    <2>1. AssertEwmOutput(ended).reset = ended.reset
      BY <1>8 DEF AssertEwmOutput, UpdateIrq, Sound, Steady, Watchdog
    <2> QED  BY <1>8, <2>1, AssertEwmOutputSound DEF KeepsLock
  <1> QED  BY <1>7, <1>8, <1>9, <1>10, <1>11

-----------------------------------------------------------------------------
(* The actions *)

Good(w) == Sound(w) /\ Timely(w)

(* An advance by the core, with its reports of sleep and of the debugger,
   leads from a good state to a good state. *)
LEMMA AdvanceByGood ==
  ASSUME Good(wd), NEW bus_ticks \in Nat, NEW ticks \in Nat, NEW ewm_ticks \in Nat,
         AdvanceBy(bus_ticks, ticks, ewm_ticks)
  PROVE  Good(wd') /\ KeepsLock(wd, wd')
  <1>1. PICK sleep \in {"run", "wait", "stop"}, halted \in BOOLEAN :
          wd' = CountEwm(AdvanceWdog(SetHalted(SetSleeping(wd, sleep), halted), bus_ticks, ticks),
                         ewm_ticks)
    BY DEF AdvanceBy, SleepModes
  <1> DEFINE a == SetSleeping(wd, sleep)
             b == SetHalted(a, halted)
             c == AdvanceWdog(b, bus_ticks, ticks)
             d == CountEwm(c, ewm_ticks)
  <1>2. Sound(a) /\ a.config = wd.config /\ (LockedIn(wd) => LockedIn(a))
    BY SetSleepingSound DEF Good
  <1> HIDE DEF a
  <1>3. Sound(b) /\ b.config = a.config /\ (LockedIn(a) => LockedIn(b))
    BY <1>2, SetHaltedSound
  <1> HIDE DEF b
  <1>4. Sound(c) /\ Timely(c) /\ KeepsLock(b, c)
    BY <1>3, AdvanceWdogSound
  <1> HIDE DEF c
  <1>5. Sound(d) /\ Timely(d) /\ KeepsLock(c, d)
    BY <1>4, CountEwmSound
  <1>6. d.reset = c.reset
    BY <1>4 DEF CountEwm, AssertEwmOutput, UpdateIrq, Sound, Steady, Watchdog
  <1> HIDE DEF d
  <1>7. wd' = d
    BY <1>1 DEF a, b, c, d
  <1> QED  BY <1>2, <1>3, <1>4, <1>5, <1>6, <1>7 DEF Good, KeepsLock

(* A register write of the watchdog, before which a bus cycle passes, leads
   from a good state to a good one, if its effect alone does. *)
LEMMA WrittenGood ==
  ASSUME Good(wd), NEW result, Written(result),
         Good(Passed) => Good(result) /\ KeepsLock(Passed, result)
  PROVE  Good(wd') /\ KeepsLock(wd, wd')
  <1>1. Good(Passed) /\ KeepsLock(wd, Passed)
    BY AdvanceBusSound DEF Passed, Good
  <1>2. CASE Passed.reset
    BY <1>1, <1>2 DEF Written
  <1>3. CASE ~Passed.reset
    BY <1>1, <1>3 DEF Written, KeepsLock
  <1> QED  BY <1>2, <1>3

(* Every step of the watchdogs leads from a good state to a good one. *)
LEMMA NextGood ==
  ASSUME Good(wd), Next
  PROVE  Good(wd') /\ KeepsLock(wd, wd')
  <1>1. CASE Advance
    <2>1. EwmSteps \subseteq Nat  BY DEF EwmSteps
    <2> QED  BY <1>1, <2>1, AdvanceByGood DEF Advance
  <1>2. CASE AdvanceCounter
    <2> DEFINE w == [wd EXCEPT !.reset = FALSE]
    <2>1. Sound(w) /\ Timely(w) /\ w.config = wd.config /\ (LockedIn(wd) => LockedIn(w))
      BY ResetFlag DEF Good
    <2>2. PICK ticks \in CounterSteps : wd' = Count(w, ticks)
      BY <1>2 DEF AdvanceCounter
    <2> HIDE DEF w
    <2> QED  BY <2>1, <2>2, CountSound DEF Good, KeepsLock
  <1>3. CASE Unlock
    <2>1. PICK lanes \in SUBSET Lanes, byte \in Bytes : Written(WriteUnlock(Passed, lanes, byte))
      BY <1>3 DEF Unlock, LaneSets, Lanes
    <2>2. Good(Passed) => LET r == WriteUnlock(Passed, lanes, byte)
                          IN  Good(r) /\ KeepsLock(Passed, r)
      BY WriteUnlockSound DEF Good
    <2> QED  BY <2>1, <2>2, WrittenGood
  <1>4. CASE Refresh
    <2>1. PICK lanes \in SUBSET Lanes, byte \in Bytes : Written(WriteRefresh(Passed, lanes, byte))
      BY <1>4 DEF Refresh, LaneSets, Lanes
    <2>2. Good(Passed) => LET r == WriteRefresh(Passed, lanes, byte)
                          IN  Good(r) /\ KeepsLock(Passed, r)
      BY WriteRefreshSound DEF Good
    <2> QED  BY <2>1, <2>2, WrittenGood
  <1>5. CASE WriteStatus
    <2>1. PICK clear \in BOOLEAN : Written(WriteStctrll(Passed, clear))
      BY <1>5 DEF WriteStatus
    <2>2. Good(Passed) => LET r == WriteStctrll(Passed, clear)
                          IN  Good(r) /\ KeepsLock(Passed, r)
      BY WriteStctrllSound DEF Good
    <2> QED  BY <2>1, <2>2, WrittenGood
  <1>6. CASE Configure
    <2>0. PICK field \in {"ctrl", "timeout", "window"} :
            \E value \in Value(field) : Written(WriteConfig(Passed, field, value))
      BY <1>6 DEF Configure, Value
    <2>1. PICK value \in Value(field) : Written(WriteConfig(Passed, field, value))
      BY <2>0
    <2>2. Good(Passed) => LET r == WriteConfig(Passed, field, value)
                          IN  Good(r) /\ KeepsLock(Passed, r)
      BY WriteConfigSound DEF Good
    <2> QED  BY <2>1, <2>2, WrittenGood
  <1>7. CASE WriteEwm
    <2> DEFINE w == [wd EXCEPT !.reset = FALSE]
    <2>1. Sound(w) /\ Timely(w) /\ w.config = wd.config /\ (LockedIn(wd) => LockedIn(w))
      BY ResetFlag DEF Good
    <2>2. w.ewm = wd.ewm /\ w.ewm \in Monitor
      BY DEF Good, Sound, Steady, Watchdog
    <2>3. SUFFICES Good(wd') /\ KeepsLock(w, wd')
      BY <2>1 DEF KeepsLock
    <2>4. \/ \E value \in EwmControlValues : wd' = WriteEwmCtrl(w, value)
          \/ \E byte \in Bytes : wd' = WriteEwmService(w, byte)
          \/ \E value \in Nat :
               wd' = [w EXCEPT !.ewm.cmpl = value, !.ewm.cmpl_written = TRUE]
          \/ \E value \in Nat :
               wd' = [w EXCEPT !.ewm.cmph = value, !.ewm.cmph_written = TRUE]
      BY <1>7 DEF WriteEwm
    <2> HIDE DEF w
    <2>5. w \in Watchdog  BY <2>1 DEF Sound, Steady
    <2>6. CASE \E value \in EwmControlValues : wd' = WriteEwmCtrl(w, value)
      BY <2>1, <2>6, WriteEwmCtrlSound DEF Good
    <2>7. CASE \E byte \in Bytes : wd' = WriteEwmService(w, byte)
      BY <2>1, <2>7, WriteEwmServiceSound DEF Good
    <2>8. CASE \E value \in Nat : wd' = [w EXCEPT !.ewm.cmpl = value, !.ewm.cmpl_written = TRUE]
      <3>1. PICK value \in Nat : wd' = [w EXCEPT !.ewm.cmpl = value, !.ewm.cmpl_written = TRUE]
        BY <2>8
      <3> DEFINE e == [w.ewm EXCEPT !.cmpl = value, !.cmpl_written = TRUE]
      <3>2. e \in Monitor /\ e.output = w.ewm.output /\ e.ctrl = w.ewm.ctrl
        BY <2>2 DEF Monitor
      <3>3. wd' = [w EXCEPT !.ewm = e]  BY <2>2, <2>5, <3>1 DEF Watchdog, Monitor
      <3> HIDE DEF e
      <3> QED  BY <2>1, <3>2, <3>3, QuietMonitor DEF Good
    <2>9. CASE \E value \in Nat : wd' = [w EXCEPT !.ewm.cmph = value, !.ewm.cmph_written = TRUE]
      <3>1. PICK value \in Nat : wd' = [w EXCEPT !.ewm.cmph = value, !.ewm.cmph_written = TRUE]
        BY <2>9
      <3> DEFINE e == [w.ewm EXCEPT !.cmph = value, !.cmph_written = TRUE]
      <3>2. e \in Monitor /\ e.output = w.ewm.output /\ e.ctrl = w.ewm.ctrl
        BY <2>2 DEF Monitor
      <3>3. wd' = [w EXCEPT !.ewm = e]  BY <2>2, <2>5, <3>1 DEF Watchdog, Monitor
      <3> HIDE DEF e
      <3> QED  BY <2>1, <3>2, <3>3, QuietMonitor DEF Good
    <2> QED  BY <2>4, <2>6, <2>7, <2>8, <2>9
  <1>8. CASE SetEwmInput
    <2> DEFINE w == [wd EXCEPT !.reset = FALSE]
    <2>1. Sound(w) /\ Timely(w) /\ w.config = wd.config /\ (LockedIn(wd) => LockedIn(w))
      BY ResetFlag DEF Good
    <2>2. PICK high \in BOOLEAN : wd' = [wd EXCEPT !.ewm.input = high, !.reset = FALSE]
      BY <1>8 DEF SetEwmInput
    <2> DEFINE e == [w.ewm EXCEPT !.input = high]
    <2>3. wd \in Watchdog /\ w \in Watchdog /\ w.ewm \in Monitor
      BY <2>1 DEF Good, Sound, Steady, Watchdog
    <2>4. e \in Monitor /\ e.output = w.ewm.output /\ e.ctrl = w.ewm.ctrl
      BY <2>3 DEF Monitor
    <2>5. wd' = [w EXCEPT !.ewm = e]
      BY <2>2, <2>3 DEF Watchdog, Monitor
    <2> HIDE DEF e, w
    <2> QED  BY <2>1, <2>4, <2>5, QuietMonitor DEF Good, KeepsLock
  <1> QED  BY <1>1, <1>2, <1>3, <1>4, <1>5, <1>6, <1>7, <1>8 DEF Next

-----------------------------------------------------------------------------
(* What a step may change *)

(* The record r is w but for what says when its deadlines run out, and the service
   of the monitor. *)
Alike(w, r) ==
  /\ r.config = w.config /\ r.mask = w.mask /\ r.counter = w.counter
  /\ r.unlock_stage = w.unlock_stage /\ r.refresh_stage = w.refresh_stage
  /\ r.update_open = w.update_open /\ r.reset_pending = w.reset_pending
  /\ r.ewm.output = w.ewm.output /\ r.ewm.counter = w.ewm.counter

(* What bus time makes of w: it passes, or ends in a reset, in a warning, or in the
   update of the configuration. Of the last two no sequence and no window is left. *)
Resets(r) == r.reset /\ ~r.update_open
Warned(w, r) ==
  /\ ~w.reset_pending /\ r.reset_pending
  /\ r.config = w.config
  /\ ~r.unlock_stage /\ ~r.update_open
  /\ r.ewm.output = w.ewm.output /\ r.ewm.counter = w.ewm.counter
Updated(w, r) ==
  /\ w.update_open /\ ~r.update_open /\ ~r.unlock_stage
  /\ \A field \in DOMAIN w.config : field \notin w.mask => r.config[field] = w.config[field]
  /\ DOMAIN r.config = DOMAIN w.config
  /\ r.ewm.output = w.ewm.output /\ r.ewm.counter = w.ewm.counter
Elapsed(w, ticks, r) ==
  \/ Resets(r) \/ Warned(w, r) \/ Updated(w, r)
  \/ Alike(w, r) /\ r.update_left = Less(w.update_left, ticks)

(* What a write or a tick of the counter makes of w: a window opens at the end of an
   unlock only, an open one keeps its time, the configuration takes the immediate
   enables in it, the counter goes back by a warning or a refresh only, and the
   monitor does not forget. *)
Refreshed(w, r) ==
  /\ w.refresh_stage /\ ~r.refresh_stage
  /\ "WINEN" \in w.config.ctrl => w.counter >= w.config.window
Enabled(w, r) ==
  /\ w.update_open /\ r.update_open /\ "ctrl" \notin w.mask
  /\ r.config.ctrl \ Immediate = w.config.ctrl \ Immediate
  /\ r.config.timeout = w.config.timeout /\ r.config.window = w.config.window
Served(w, r) ==
  /\ r.update_open => w.update_open \/ w.unlock_stage
  /\ r.update_open /\ w.update_open => r.update_left = w.update_left
  /\ r.config = w.config \/ Enabled(w, r)
  /\ w.reset_pending => r.reset_pending
  /\ r.counter < w.counter => (r.reset_pending /\ ~w.reset_pending) \/ Refreshed(w, r)
  /\ w.ewm.output => r.ewm.output
  /\ w.ewm.counter <= r.ewm.counter
Acted(w, r) == Resets(r) \/ Served(w, r)

(* An exception resets or warns. *)
LEMMA ExceptionActs ==
  ASSUME NEW w, Steady(w)
  PROVE  LET r == WdogException(w)
         IN  \/ Resets(r)
             \/ /\ ~w.reset_pending /\ r.reset_pending
                /\ r.config = w.config /\ r.mask = w.mask
                /\ r.unlock_stage = w.unlock_stage /\ r.refresh_stage = w.refresh_stage
                /\ r.update_open = w.update_open /\ r.update_left = w.update_left
                /\ r.ewm = w.ewm
  <1> DEFINE v == [w EXCEPT !.counter = 0, !.flag = TRUE,
                            !.reset_pending = TRUE, !.reset_left = ResetDelay]
  <1>1. CASE "IRQRSTEN" \notin w.config.ctrl \/ w.reset_pending
    BY <1>1 DEF WdogException, SignalReset, AfterReset, Resets
  <1>2. CASE ~("IRQRSTEN" \notin w.config.ctrl \/ w.reset_pending)
    <2>1. WdogException(w) = UpdateIrq(v)
      BY <1>2 DEF WdogException
    <2>2. w \in Watchdog  BY DEF Steady
    <2> QED  BY <1>2, <2>1, <2>2 DEF UpdateIrq, Watchdog
  <1> QED  BY <1>1, <1>2

(* Sleep and debugger leave the watchdog alone; a debugger may restore the time that
   was saved. *)
LEMMA ReportsAlike ==
  ASSUME NEW w, Sound(w), NEW sleep \in {"run", "wait", "stop"}, NEW halted \in BOOLEAN
  PROVE  LET r == SetHalted(SetSleeping(w, sleep), halted)
         IN  /\ Alike(w, r)
             /\ r.update_left = w.update_left \/ w.initial_debug_pause
  <1> DEFINE v == SetSleeping(w, sleep)
  <1>1. w \in Watchdog /\ w.ewm \in Monitor  BY DEF Sound, Steady, Watchdog
  <1>2. /\ Alike(w, v) /\ v.update_left = w.update_left
        /\ v.initial_debug_pause = w.initial_debug_pause
    BY <1>1 DEF SetSleeping, Watchdog, Monitor, Alike
  <1>3. v \in Watchdog
    BY SetSleepingSound DEF Sound, Steady
  <1> HIDE DEF v
  <1>4. LET r == SetHalted(v, halted)
        IN  Alike(v, r) /\ (r.update_left = v.update_left \/ v.initial_debug_pause)
    BY <1>3 DEF SetHalted, Watchdog, Alike
  <1> QED  BY <1>2, <1>4 DEF Alike, v

(* Bus time that passes. *)
LEMMA BusTimeElapses ==
  ASSUME NEW w, Sound(w), NEW ticks \in Nat
  PROVE  Elapsed(w, ticks, AdvanceBus(w, ticks))
  <1> DEFINE v == Elapse([w EXCEPT !.reset = FALSE], ticks)
             p == AdvanceBus(w, ticks)
  <1>0. w \in Watchdog /\ w.ewm \in Monitor /\ w.config \in Configs
    BY DEF Sound, Steady, Watchdog
  <1>1. Alike(w, v) /\ v.update_left = Less(w.update_left, ticks)
    BY <1>0 DEF Elapse, Watchdog, Monitor, Alike
  <1>2. Sound(v)
    BY ResetFlag, ElapseSound
  <1>3. p = ProcessBusTime(v)
    BY DEF AdvanceBus
  <1> SUFFICES Elapsed(w, ticks, p)
    OBVIOUS
  <1> HIDE DEF v, p
  <1>4. v \in Watchdog /\ v.config \in Configs
    BY <1>2 DEF Sound, Steady, Watchdog
  <1>5. ASSUME NEW x \in {[v EXCEPT !.unlock_stage = FALSE], [v EXCEPT !.refresh_stage = FALSE],
                          [v EXCEPT !.initial_unlock_required = FALSE],
                          [v EXCEPT !.update_open = FALSE]},
               ~x.unlock_stage, ~x.update_open, p = WdogException(x)
        PROVE  Elapsed(w, ticks, p)
    <2>1. Steady(x)  BY <1>2, <1>5, StageEnds
    <2>2. x.reset_pending = w.reset_pending /\ x.config = w.config /\ x.ewm = v.ewm
      BY <1>1, <1>4, <1>5 DEF Watchdog, Alike
    <2> QED  BY <1>1, <1>5, <2>1, <2>2, ExceptionActs DEF Elapsed, Warned, Alike
  <1>6. CASE v.reset_pending /\ v.reset_left <= 0
    BY <1>3, <1>6 DEF ProcessBusTime, SignalReset, AfterReset, Elapsed, Resets
  <1> DEFINE Due == v.reset_pending /\ v.reset_left <= 0
             UnlockLate == v.unlock_stage /\ v.sequence_left < 0
             RefreshLate == v.refresh_stage /\ v.sequence_left < 0
             FirstLate == /\ v.initial_unlock_required /\ ~v.initial_debug_pause
                          /\ ~v.unlock_stage /\ v.update_left < 0
             WindowEnds == v.update_open /\ v.update_left <= 0
  <1>7. CASE ~Due /\ UnlockLate
    <2> DEFINE x == [v EXCEPT !.unlock_stage = FALSE]
    <2>1. ~x.unlock_stage /\ ~x.update_open
      BY <1>2, <1>4, <1>7 DEF Watchdog, Sound, Steady, Exclusive
    <2>2. p = WdogException(x)  BY <1>3, <1>7 DEF ProcessBusTime
    <2> QED  BY <1>5, <2>1, <2>2
  <1>8. CASE ~Due /\ ~UnlockLate /\ RefreshLate
    <2> DEFINE x == [v EXCEPT !.refresh_stage = FALSE]
    <2>1. ~x.unlock_stage /\ ~x.update_open
      BY <1>2, <1>4, <1>8 DEF Watchdog, Sound, Steady, Exclusive
    <2>2. p = WdogException(x)  BY <1>3, <1>8 DEF ProcessBusTime
    <2> QED  BY <1>5, <2>1, <2>2
  <1>9. CASE ~Due /\ ~UnlockLate /\ ~RefreshLate /\ FirstLate
    <2> DEFINE x == [v EXCEPT !.initial_unlock_required = FALSE]
    <2>1. ~x.unlock_stage /\ ~x.update_open
      BY <1>2, <1>4, <1>9 DEF Watchdog, Sound, Steady, BeforeUnlock
    <2>2. p = WdogException(x)  BY <1>3, <1>9 DEF ProcessBusTime
    <2> QED  BY <1>5, <2>1, <2>2
  <1>10. CASE ~Due /\ ~UnlockLate /\ ~RefreshLate /\ ~FirstLate /\ WindowEnds /\ ~v.update_written
    <2> DEFINE x == [v EXCEPT !.update_open = FALSE]
    <2>1. ~x.unlock_stage /\ ~x.update_open
      BY <1>2, <1>4, <1>10 DEF Watchdog, Sound, Steady, Exclusive
    <2>2. p = WdogException(x)  BY <1>3, <1>10 DEF ProcessBusTime
    <2> QED  BY <1>5, <2>1, <2>2
  <1>11. CASE ~Due /\ ~UnlockLate /\ ~RefreshLate /\ ~FirstLate /\ WindowEnds /\ v.update_written
    <2>1. p = ApplyUpdate(v)  BY <1>3, <1>11 DEF ProcessBusTime
    <2>2. /\ ~p.update_open /\ ~p.unlock_stage
          /\ p.config = [field \in DOMAIN v.config |->
                           IF field \in v.mask THEN v.pending[field] ELSE v.config[field]]
          /\ p.ewm = v.ewm
      BY <1>2, <1>4, <1>11, <2>1 DEF ApplyUpdate, Watchdog, Sound, Steady, Exclusive
    <2>3. DOMAIN p.config = DOMAIN w.config
      BY <1>1, <2>2 DEF Alike
    <2>4. ASSUME NEW field \in DOMAIN w.config, field \notin w.mask
          PROVE  p.config[field] = w.config[field]
      BY <1>1, <2>2, <2>4 DEF Alike
    <2>5. /\ w.update_open
          /\ p.ewm.output = w.ewm.output /\ p.ewm.counter = w.ewm.counter
      BY <1>1, <1>11, <2>2 DEF Alike
    <2>6. Updated(w, p)
      BY <2>2, <2>3, <2>4, <2>5 DEF Updated
    <2> QED  BY <2>6 DEF Elapsed
  <1>12. CASE ~Due /\ ~UnlockLate /\ ~RefreshLate /\ ~FirstLate /\ ~WindowEnds
    <2>1. p = v  BY <1>3, <1>12 DEF ProcessBusTime
    <2> QED  BY <1>1, <2>1 DEF Elapsed
  <1> QED  BY <1>6, <1>7, <1>8, <1>9, <1>10, <1>11, <1>12

(* The counter. *)
LEMMA CountActs ==
  ASSUME NEW w, Sound(w), NEW ticks \in Nat
  PROVE  Acted(w, Count(w, ticks))
  <1>0. w \in Watchdog /\ w.counter \in Nat /\ w.ewm.counter \in Nat
    BY DEF Sound, Steady, Watchdog, Monitor
  <1>1. CASE ticks = 0 \/ ~Running(w)
    BY <1>0, <1>1 DEF Count, Acted, Served
  <1>2. CASE ~(ticks = 0 \/ ~Running(w)) /\ w.counter + ticks >= w.config.timeout
    BY <1>0, <1>2, ExceptionActs DEF Count, Acted, Served, Sound
  <1>3. CASE ~(ticks = 0 \/ ~Running(w)) /\ ~(w.counter + ticks >= w.config.timeout)
    <2>1. Count(w, ticks) = [w EXCEPT !.counter = @ + ticks]
      BY <1>3 DEF Count
    <2> QED  BY <1>0, <2>1 DEF Acted, Served, Watchdog
  <1> QED  BY <1>1, <1>2, <1>3

(* The counter of the monitor moves forward and touches nothing else. *)
LEMMA CountEwmActs ==
  ASSUME NEW w, Sound(w), NEW ticks \in Nat
  PROVE  LET r == CountEwm(w, ticks)
         IN  /\ r.reset = w.reset /\ r.config = w.config /\ r.counter = w.counter
             /\ r.update_open = w.update_open /\ r.update_left = w.update_left
             /\ r.refresh_stage = w.refresh_stage /\ r.reset_pending = w.reset_pending
             /\ w.ewm.output => r.ewm.output
             /\ w.ewm.counter <= r.ewm.counter
  <1>0. w \in Watchdog /\ w.ewm \in Monitor /\ w.ewm.counter \in Nat
    BY DEF Sound, Steady, Watchdog, Monitor
  <1> QED  BY <1>0 DEF CountEwm, AssertEwmOutput, UpdateIrq, Watchdog, Monitor

(* A write to the unlock register opens a window from an unlock only. *)
LEMMA WriteUnlockActs ==
  ASSUME NEW w, Sound(w), NEW lanes \in SUBSET Lanes, NEW byte \in Bytes
  PROVE  Acted(w, WriteUnlock(w, lanes, byte))
  <1> DEFINE merged == [w EXCEPT !.unlock = Merge(@, lanes, byte)]
             begun == [merged EXCEPT !.unlock_stage = TRUE, !.sequence_left = SequenceTime]
             failed == [merged EXCEPT !.unlock_stage = FALSE]
             open == [merged EXCEPT !.unlock_stage = FALSE, !.initial_unlock_required = FALSE,
                               !.update_open = TRUE, !.update_written = FALSE, !.mask = {},
                               !.ready_left = 1, !.update_left = WindowTime + 1,
                               !.pending = merged.config]
  <1>0. w \in Watchdog /\ w.counter \in Nat /\ w.ewm.counter \in Nat
    BY DEF Sound, Steady, Watchdog, Monitor
  <1>1. CASE UnlockIgnored(w)
    BY <1>0, <1>1 DEF WriteUnlock, Acted, Served
  <1>2. CASE ~UnlockIgnored(w)
    <2>1. ~w.update_open
      BY <1>2 DEF UnlockIgnored
    <2>2. Steady(merged)
      <3> DEFINE word == Merge(w.unlock, lanes, byte)
      <3>1. word \in [Lanes -> Bytes]  BY <1>0, MergeType DEF Watchdog
      <3> HIDE DEF word
      <3>2. [w EXCEPT !.unlock = word] \in Watchdog
        BY <1>0, <3>1 DEF Watchdog
      <3>3. LET x == [w EXCEPT !.unlock = word]
            IN  Exclusive(x) /\ BeforeUnlock(x) /\ BelowTimeout(x)
        BY <1>0 DEF Watchdog, Sound, Steady, Exclusive, BeforeUnlock, BelowTimeout
      <3> QED  BY <3>2, <3>3 DEF Steady, word
    <2>3. Alike(w, merged) /\ ~merged.update_open /\ merged.ewm = w.ewm
      BY <1>0, <2>1 DEF Watchdog, Alike
    <2>4. ASSUME NEW x, Steady(x), ~x.update_open, x.counter = w.counter, x.config = w.config,
                 x.reset_pending = w.reset_pending, x.ewm = w.ewm
          PROVE  Acted(w, WdogException(x))
      BY <1>0, <2>1, <2>4, ExceptionActs DEF Acted, Served
    <2>5. Steady(failed)
      <3>1. failed \in Watchdog
        BY <2>2 DEF Steady, Watchdog
      <3>2. Exclusive(failed) /\ BeforeUnlock(failed) /\ BelowTimeout(failed)
        BY <2>2 DEF Watchdog, Steady, Exclusive, BeforeUnlock, BelowTimeout
      <3> QED  BY <3>1, <3>2 DEF Steady
    <2>6. /\ ~failed.update_open /\ failed.counter = w.counter /\ failed.config = w.config
          /\ failed.reset_pending = w.reset_pending /\ failed.ewm = w.ewm
      BY <1>0, <2>1 DEF Watchdog
    <2>7. Acted(w, merged) /\ Acted(w, begun)
      BY <1>0, <2>1 DEF Watchdog, Acted, Served
    <2>8. merged.unlock_stage => Acted(w, open)
      BY <1>0, <2>1 DEF Watchdog, Acted, Served
    <2>9. \/ WriteUnlock(w, lanes, byte)
               \in {merged, begun, WdogException(merged), WdogException(failed)}
          \/ merged.unlock_stage /\ WriteUnlock(w, lanes, byte) = open
      BY <1>2 DEF WriteUnlock, AcceptUnlock
    <2>10. Acted(w, WdogException(merged)) /\ Acted(w, WdogException(failed))
      <3> HIDE DEF merged, failed
      <3> QED  BY <2>2, <2>3, <2>4, <2>5, <2>6 DEF Alike
    <2> HIDE DEF merged, begun, failed, open
    <2> QED  BY <2>7, <2>8, <2>9, <2>10
  <1> QED  BY <1>1, <1>2

(* A write to the refresh register restarts the counter inside its window only. *)
LEMMA WriteRefreshActs ==
  ASSUME NEW w, Sound(w), NEW lanes \in SUBSET Lanes, NEW byte \in Bytes
  PROVE  Acted(w, WriteRefresh(w, lanes, byte))
  <1> DEFINE merged == [w EXCEPT !.refresh = Merge(@, lanes, byte)]
             begun == [merged EXCEPT !.refresh_stage = TRUE, !.sequence_left = SequenceTime]
             ended == [merged EXCEPT !.refresh_stage = FALSE]
             done == [ended EXCEPT !.counter = 0]
  <1>0. /\ w \in Watchdog /\ w.counter \in Nat /\ w.ewm.counter \in Nat
        /\ w.config.window \in Nat
    BY DEF Sound, Steady, Watchdog, Monitor, Configs
  <1>1. CASE w.unlock_stage \/ w.update_open
    BY <1>0, <1>1 DEF WriteRefresh, Acted, Served
  <1>2. CASE ~(w.unlock_stage \/ w.update_open)
    <2>2. Steady(merged)
      <3> DEFINE word == Merge(w.refresh, lanes, byte)
      <3>1. word \in [Lanes -> Bytes]  BY <1>0, MergeType DEF Watchdog
      <3> HIDE DEF word
      <3>2. [w EXCEPT !.refresh = word] \in Watchdog
        BY <1>0, <3>1 DEF Watchdog
      <3>3. LET x == [w EXCEPT !.refresh = word]
            IN  Exclusive(x) /\ BeforeUnlock(x) /\ BelowTimeout(x)
        BY <1>0 DEF Watchdog, Sound, Steady, Exclusive, BeforeUnlock, BelowTimeout
      <3> QED  BY <3>2, <3>3 DEF Steady, word
    <2>3. Alike(w, merged) /\ ~merged.update_open /\ merged.ewm = w.ewm
      BY <1>0, <1>2 DEF Watchdog, Alike
    <2>4. ASSUME NEW x, Steady(x), ~x.update_open, x.counter = w.counter, x.config = w.config,
                 x.reset_pending = w.reset_pending, x.ewm = w.ewm
          PROVE  Acted(w, WdogException(x))
      BY <1>0, <1>2, <2>4, ExceptionActs DEF Acted, Served
    <2>5. Steady(ended)
      <3>1. ended \in Watchdog
        BY <2>2 DEF Steady, Watchdog
      <3>2. Exclusive(ended) /\ BeforeUnlock(ended) /\ BelowTimeout(ended)
        BY <2>2 DEF Watchdog, Steady, Exclusive, BeforeUnlock, BelowTimeout
      <3> QED  BY <3>1, <3>2 DEF Steady
    <2>6. /\ ~ended.update_open /\ ended.counter = w.counter /\ ended.config = w.config
          /\ ended.reset_pending = w.reset_pending /\ ended.ewm = w.ewm
      BY <1>0, <1>2 DEF Watchdog
    <2>7. Acted(w, merged) /\ Acted(w, begun)
      BY <1>0, <1>2 DEF Watchdog, Acted, Served
    <2>8. /\ merged.refresh_stage
          /\ ~("WINEN" \in merged.config.ctrl /\ merged.counter < merged.config.window)
          => Acted(w, done)
      BY <1>0, <1>2 DEF Watchdog, Acted, Served, Refreshed
    <2>9. \/ WriteRefresh(w, lanes, byte)
               \in {merged, begun, WdogException(merged), WdogException(ended)}
          \/ /\ merged.refresh_stage
             /\ ~("WINEN" \in merged.config.ctrl /\ merged.counter < merged.config.window)
             /\ WriteRefresh(w, lanes, byte) = done
      BY <1>2 DEF WriteRefresh, AcceptRefresh
    <2>10. Acted(w, WdogException(merged)) /\ Acted(w, WdogException(ended))
      <3> HIDE DEF merged, ended
      <3> QED  BY <2>2, <2>3, <2>4, <2>5, <2>6 DEF Alike
    <2> HIDE DEF merged, begun, ended, done
    <2> QED  BY <2>7, <2>8, <2>9, <2>10
  <1> QED  BY <1>1, <1>2

(* A write to STCTRLL touches no more than the flag. *)
LEMMA WriteStctrllActs ==
  ASSUME NEW w, Sound(w), NEW clear \in BOOLEAN
  PROVE  Acted(w, WriteStctrll(w, clear))
  <1>0. w \in Watchdog /\ w.counter \in Nat /\ w.ewm.counter \in Nat
    BY DEF Sound, Steady, Watchdog, Monitor
  <1> QED  BY <1>0 DEF WriteStctrll, UpdateIrq, Watchdog, Acted, Served

(* A write to a configuration register takes the immediate enables at once, in an open
   window and once in it. *)
LEMMA WriteConfigActs ==
  ASSUME NEW w, Sound(w), NEW field \in {"ctrl", "timeout", "window"}, NEW value \in Value(field)
  PROVE  Acted(w, WriteConfig(w, field, value))
  <1> DEFINE written == [w EXCEPT !.pending[field] = value, !.mask = @ \cup {field},
                                  !.update_written = TRUE]
             r == [written EXCEPT !.config.ctrl = (@ \ Immediate) \cup (value \cap Immediate)]
  <1>0. /\ w \in Watchdog /\ w.counter \in Nat /\ w.ewm.counter \in Nat
        /\ w.config \in Configs
    BY DEF Sound, Steady, Watchdog, Monitor
  <1>1. CASE ~w.update_open \/ w.ready_left > 0 \/ field \in w.mask
    BY <1>0, <1>1 DEF WriteConfig, Acted, Served
  <1>2. CASE ~(~w.update_open \/ w.ready_left > 0 \/ field \in w.mask)
    <2>1. CASE field # "ctrl"
      <3>1. WriteConfig(w, field, value) = written
        BY <1>2, <2>1 DEF WriteConfig
      <3> QED  BY <1>0, <1>2, <3>1 DEF Watchdog, Acted, Served
    <2>2. CASE field = "ctrl"
      <3>1. WriteConfig(w, field, value) = r
        BY <1>2, <2>2 DEF WriteConfig
      <3>2. /\ r.update_open /\ r.update_left = w.update_left /\ r.counter = w.counter
            /\ r.reset_pending = w.reset_pending /\ r.ewm = w.ewm
        BY <1>0, <1>2 DEF Watchdog
      <3>3. /\ r.config.ctrl = (w.config.ctrl \ Immediate) \cup (value \cap Immediate)
            /\ r.config.timeout = w.config.timeout /\ r.config.window = w.config.window
        BY <1>0 DEF Watchdog, Configs
      <3>4. Enabled(w, r)
        BY <1>2, <2>2, <3>2, <3>3 DEF Enabled
      <3> HIDE DEF r
      <3> QED  BY <1>0, <1>2, <3>1, <3>2, <3>4 DEF Acted, Served
    <2> QED  BY <2>1, <2>2
  <1> QED  BY <1>1, <1>2
(* What every step keeps to: the four properties, of the record w before it and the
   record r after it. *)
Guarded(w, r) ==
  r.config # w.config =>
    \/ r.reset
    \/ /\ w.update_open
       /\ \A field \in DOMAIN w.config :
            r.config[field] # w.config[field] =>
              \/ ~r.update_open /\ field \in w.mask
              \/ /\ r.update_open /\ field = "ctrl" /\ field \notin w.mask
                 /\ r.config.ctrl \ Immediate = w.config.ctrl \ Immediate
Lasts(w, r) ==
  w.update_open /\ r.update_open /\ ~w.initial_debug_pause =>
    \E ticks \in BusSteps \cup {0, 1} : r.update_left = Less(w.update_left, ticks)
Restarts(w, r) ==
  r.counter < w.counter =>
    \/ r.reset
    \/ ~w.reset_pending /\ r.reset_pending
    \/ w.update_open /\ ~r.update_open
    \/ Refreshed(w, r)
Monitors(w, r) ==
  ~r.reset /\ w.ewm.control_written =>
    /\ w.ewm.output => r.ewm.output
    /\ r.ewm.counter < w.ewm.counter =>
         /\ w.ewm.service_stage
         /\ w.ewm.cmpl < w.ewm.counter /\ w.ewm.counter < w.ewm.cmph
         /\ ~EwmInputAsserted(w)
Honest(w, r) == Guarded(w, r) /\ Lasts(w, r) /\ Restarts(w, r) /\ Monitors(w, r)

(* Reports, bus time, a write or the counter, and the monitor, one after the other. *)
LEMMA StagesHonest ==
  ASSUME NEW w, Sound(w), NEW u, Sound(u), NEW p, Sound(p), NEW r, Sound(r), NEW x, Sound(x),
         Alike(w, u), u.update_left = w.update_left \/ w.initial_debug_pause,
         NEW ticks \in BusSteps \cup {0, 1}, Elapsed(u, ticks, p),
         Acted(p, r), p.reset => r = p,
         x.reset = r.reset, x.config = r.config, x.counter = r.counter,
         x.update_open = r.update_open, x.update_left = r.update_left,
         x.refresh_stage = r.refresh_stage, x.reset_pending = r.reset_pending,
         r.ewm.output => x.ewm.output, r.ewm.counter <= x.ewm.counter
  PROVE  Honest(w, x)
  <1>0. /\ w.counter \in Nat /\ p.counter \in Nat /\ r.counter \in Nat
        /\ w.config \in Configs /\ r.config \in Configs
        /\ w.ewm.counter \in Nat /\ u.ewm.counter \in Nat /\ p.ewm.counter \in Nat
        /\ r.ewm.counter \in Nat /\ x.ewm.counter \in Nat
    BY DEF Sound, Steady, Watchdog, Monitor
  <1>1. ASSUME r.reset, ~r.update_open
        PROVE  Honest(w, x)
    BY <1>1 DEF Honest, Guarded, Lasts, Restarts, Monitors
  <1>2. CASE Resets(p) \/ Resets(r)
    BY <1>1, <1>2 DEF Resets
  <1>3. ASSUME w.ewm.output => p.ewm.output, w.ewm.counter <= p.ewm.counter, Served(p, r)
        PROVE  Monitors(w, x)
    BY <1>0, <1>3 DEF Served, Monitors
  <1>4. CASE Served(p, r) /\ Warned(u, p)
    <2>1. ~w.reset_pending /\ x.reset_pending /\ ~x.update_open /\ x.config = w.config
      BY <1>4 DEF Served, Warned, Alike, Enabled
    <2>2. Monitors(w, x)
      BY <1>0, <1>3, <1>4 DEF Warned, Alike
    <2> QED  BY <2>1, <2>2 DEF Honest, Guarded, Lasts, Restarts
  <1>5. CASE Served(p, r) /\ Updated(u, p)
    <2>1. w.update_open /\ ~x.update_open /\ x.config = p.config
      BY <1>5 DEF Served, Updated, Alike, Enabled
    <2>2. \A field \in DOMAIN w.config : field \notin w.mask => x.config[field] = w.config[field]
      BY <1>5, <2>1 DEF Updated, Alike
    <2>3. Monitors(w, x)
      BY <1>0, <1>3, <1>5 DEF Updated, Alike
    <2> QED  BY <2>1, <2>2, <2>3 DEF Honest, Guarded, Lasts, Restarts
  <1>6. CASE Served(p, r) /\ Alike(u, p) /\ p.update_left = Less(u.update_left, ticks)
    <2>1. Alike(w, p)
      BY <1>6 DEF Alike
    <2>2. Guarded(w, x)
      <3>1. CASE r.config = p.config
        BY <2>1, <3>1 DEF Guarded, Alike
      <3>2. CASE Enabled(p, r)
        <4>1. DOMAIN w.config = {"ctrl", "timeout", "window"}
          BY <1>0 DEF Configs
        <4>2. /\ w.update_open /\ x.update_open /\ "ctrl" \notin w.mask
              /\ x.config.ctrl \ Immediate = w.config.ctrl \ Immediate
              /\ x.config.timeout = w.config.timeout /\ x.config.window = w.config.window
          BY <2>1, <3>2 DEF Enabled, Alike
        <4> QED  BY <4>1, <4>2 DEF Guarded
      <3> QED  BY <1>6, <3>1, <3>2 DEF Served
    <2>3. Lasts(w, x)
      BY <1>6, <2>1 DEF Lasts, Served, Alike
    <2>4. Restarts(w, x)
      <3>1. p.counter = w.counter /\ p.reset_pending = w.reset_pending
        BY <2>1 DEF Alike
      <3>2. Refreshed(p, r) => Refreshed(w, x)
        BY <2>1 DEF Refreshed, Alike
      <3> QED  BY <1>6, <3>1, <3>2 DEF Restarts, Served
    <2>5. Monitors(w, x)
      BY <1>0, <1>3, <1>6, <2>1 DEF Alike
    <2> QED  BY <2>2, <2>3, <2>4, <2>5 DEF Honest
  <1> QED  BY <1>2, <1>4, <1>5, <1>6 DEF Elapsed, Acted

(* An advance by the core. *)
LEMMA AdvanceByHonest ==
  ASSUME Good(wd), NEW bus_ticks \in BusSteps, NEW ticks \in Nat, NEW ewm_ticks \in Nat,
         AdvanceBy(bus_ticks, ticks, ewm_ticks)
  PROVE  Honest(wd, wd')
  <1>1. PICK sleep \in {"run", "wait", "stop"}, halted \in BOOLEAN :
          wd' = CountEwm(AdvanceWdog(SetHalted(SetSleeping(wd, sleep), halted), bus_ticks, ticks),
                         ewm_ticks)
    BY DEF AdvanceBy, SleepModes
  <1> DEFINE a == SetSleeping(wd, sleep)
             u == SetHalted(a, halted)
             p == AdvanceBus(u, bus_ticks)
             r == AdvanceWdog(u, bus_ticks, ticks)
             x == CountEwm(r, ewm_ticks)
  <1>2. Sound(wd) /\ Sound(a)
    BY SetSleepingSound DEF Good
  <1>3. Alike(wd, u) /\ (u.update_left = wd.update_left \/ wd.initial_debug_pause)
    BY <1>2, ReportsAlike
  <1> HIDE DEF a
  <1>4. Sound(u)
    BY <1>2, SetHaltedSound
  <1> HIDE DEF u
  <1>5. Sound(p) /\ Timely(p) /\ Elapsed(u, bus_ticks, p) /\ Sound(r) /\ Timely(r)
    BY <1>4, AdvanceBusSound, AdvanceWdogSound, BusTimeElapses
  <1>6. r = p \/ (~p.reset /\ r = Count(p, ticks))
    BY DEF AdvanceWdog
  <1> HIDE DEF p, r
  <1>7. Acted(p, r) /\ (p.reset => r = p)
    <2>1. Acted(p, p)
      BY <1>5 DEF Acted, Served, Sound, Steady, Watchdog, Monitor
    <2> QED  BY <1>5, <1>6, <2>1, CountActs
  <1>8. Sound(x)
    BY <1>5, CountEwmSound
  <1>9. /\ x.reset = r.reset /\ x.config = r.config /\ x.counter = r.counter
        /\ x.update_open = r.update_open /\ x.update_left = r.update_left
        /\ x.refresh_stage = r.refresh_stage /\ x.reset_pending = r.reset_pending
        /\ (r.ewm.output => x.ewm.output) /\ r.ewm.counter <= x.ewm.counter
    BY <1>5, CountEwmActs
  <1> HIDE DEF x
  <1>10. wd' = x
    BY <1>1 DEF a, u, p, r, x
  <1>11. Honest(wd, x)
    BY <1>2, <1>3, <1>4, <1>5, <1>7, <1>8, <1>9, StagesHonest
  <1> QED  BY <1>10, <1>11

(* A register write, after the bus cycle it takes. *)
LEMMA WrittenHonest ==
  ASSUME Good(wd), NEW result, Written(result),
         Good(Passed) => Sound(result) /\ Acted(Passed, result)
  PROVE  Honest(wd, wd')
  <1>1. Sound(wd) /\ Sound(Passed) /\ Timely(Passed) /\ Elapsed(wd, 1, Passed)
    BY AdvanceBusSound, BusTimeElapses DEF Passed, Good
  <1>2. Alike(wd, wd)
    BY DEF Alike
  <1>3. Acted(Passed, Passed)
    BY <1>1 DEF Acted, Served, Sound, Steady, Watchdog, Monitor
  <1>4. Sound(wd') /\ Acted(Passed, wd') /\ (Passed.reset => wd' = Passed)
    BY <1>1, <1>3 DEF Written, Good
  <1>5. wd'.ewm.counter <= wd'.ewm.counter
    BY <1>4 DEF Sound, Steady, Watchdog, Monitor
  <1> QED  BY <1>1, <1>2, <1>4, <1>5, StagesHonest

(* Every step is honest. *)
LEMMA NextHonest ==
  ASSUME Good(wd), Next
  PROVE  Honest(wd, wd')
  <1>0. wd \in Watchdog /\ wd.ewm \in Monitor /\ wd.counter \in Nat /\ wd.ewm.counter \in Nat
    BY DEF Good, Sound, Steady, Watchdog, Monitor
  <1>00. wd.update_open => wd.update_left = Less(wd.update_left, 0)
    BY <1>0 DEF Good, Timely, Less, Watchdog, Left
  <1>1. CASE Advance
    <2>1. EwmSteps \subseteq Nat  BY DEF EwmSteps
    <2> QED  BY <1>1, <2>1, AdvanceByHonest DEF Advance
  <1>2. CASE AdvanceCounter
    <2> DEFINE w == [wd EXCEPT !.reset = FALSE]
    <2>1. Sound(w) /\ Timely(w) /\ w.reset = FALSE
      BY ResetFlag DEF Good
    <2>2. Alike(wd, w) /\ w.update_left = wd.update_left
      BY <1>0 DEF Watchdog, Alike
    <2>3. PICK ticks \in CounterSteps : wd' = Count(w, ticks)
      BY <1>2 DEF AdvanceCounter
    <2>4. Sound(wd) /\ Alike(wd, wd) /\ (wd.update_open => Elapsed(wd, 0, w))
      BY <1>00, <2>2 DEF Good, Alike, Elapsed
    <2> HIDE DEF w
    <2>5. Acted(w, wd') /\ Sound(wd')
      BY <2>1, <2>3, CountActs, CountSound
    <2>6. wd'.ewm.counter <= wd'.ewm.counter
      BY <2>5 DEF Sound, Steady, Watchdog, Monitor
    <2>7. CASE wd.update_open
      BY <2>1, <2>4, <2>5, <2>6, <2>7, StagesHonest
    <2>8. CASE ~wd.update_open
      <3>1. CASE Resets(wd')
        BY <3>1 DEF Resets, Honest, Guarded, Lasts, Restarts, Monitors
      <3>2. CASE Served(w, wd')
        <4>1. wd'.config = wd.config
          BY <2>2, <2>8, <3>2 DEF Served, Alike, Enabled
        <4>2. Restarts(wd, wd')
          BY <2>2, <3>2 DEF Served, Alike, Restarts, Refreshed
        <4>3. Monitors(wd, wd')
          BY <1>0, <2>2, <2>5, <3>2 DEF Served, Alike, Monitors, Sound, Steady, Watchdog, Monitor
        <4> QED  BY <2>8, <4>1, <4>2, <4>3 DEF Honest, Guarded, Lasts
      <3> QED  BY <2>5, <3>1, <3>2 DEF Acted
    <2> QED  BY <2>7, <2>8
  <1>3. CASE Unlock
    <2>1. PICK lanes \in SUBSET Lanes, byte \in Bytes : Written(WriteUnlock(Passed, lanes, byte))
      BY <1>3 DEF Unlock, LaneSets, Lanes
    <2>2. Good(Passed) => LET r == WriteUnlock(Passed, lanes, byte)
                          IN  Sound(r) /\ Acted(Passed, r)
      BY WriteUnlockSound, WriteUnlockActs DEF Good
    <2> QED  BY <2>1, <2>2, WrittenHonest
  <1>4. CASE Refresh
    <2>1. PICK lanes \in SUBSET Lanes, byte \in Bytes : Written(WriteRefresh(Passed, lanes, byte))
      BY <1>4 DEF Refresh, LaneSets, Lanes
    <2>2. Good(Passed) => LET r == WriteRefresh(Passed, lanes, byte)
                          IN  Sound(r) /\ Acted(Passed, r)
      BY WriteRefreshSound, WriteRefreshActs DEF Good
    <2> QED  BY <2>1, <2>2, WrittenHonest
  <1>5. CASE WriteStatus
    <2>1. PICK clear \in BOOLEAN : Written(WriteStctrll(Passed, clear))
      BY <1>5 DEF WriteStatus
    <2>2. Good(Passed) => LET r == WriteStctrll(Passed, clear)
                          IN  Sound(r) /\ Acted(Passed, r)
      BY WriteStctrllSound, WriteStctrllActs DEF Good
    <2> QED  BY <2>1, <2>2, WrittenHonest
  <1>6. CASE Configure
    <2>0. PICK field \in {"ctrl", "timeout", "window"} :
            \E value \in Value(field) : Written(WriteConfig(Passed, field, value))
      BY <1>6 DEF Configure, Value
    <2>1. PICK value \in Value(field) : Written(WriteConfig(Passed, field, value))
      BY <2>0
    <2>2. Good(Passed) => LET r == WriteConfig(Passed, field, value)
                          IN  Sound(r) /\ Acted(Passed, r)
      BY WriteConfigSound, WriteConfigActs DEF Good
    <2> QED  BY <2>1, <2>2, WrittenHonest
  <1>7. ASSUME wd'.config = wd.config, wd'.update_open = wd.update_open,
               wd'.update_left = wd.update_left, wd'.counter = wd.counter, Monitors(wd, wd')
        PROVE  Honest(wd, wd')
    BY <1>0, <1>00, <1>7 DEF Honest, Guarded, Lasts, Restarts
  <1>8. CASE WriteEwm
    <2> DEFINE w == [wd EXCEPT !.reset = FALSE]
    <2>1. w \in Watchdog /\ w.ewm = wd.ewm
      BY <1>0 DEF Watchdog
    <2>2. Alike(wd, w) /\ w.update_left = wd.update_left
      BY <1>0 DEF Watchdog, Alike
    <2>3. CASE \E value \in EwmControlValues : wd' = WriteEwmCtrl(w, value)
      <3>1. PICK value \in EwmControlValues : wd' = WriteEwmCtrl(w, value)
        BY <2>3
      <3>2. /\ wd'.config = w.config /\ wd'.update_open = w.update_open
            /\ wd'.update_left = w.update_left /\ wd'.counter = w.counter
        BY <2>1, <3>1 DEF WriteEwmCtrl, UpdateIrq, Watchdog
      <3>3. w.ewm.control_written => wd'.ewm.output = w.ewm.output /\ wd'.ewm.counter = w.ewm.counter
        BY <1>0, <2>1, <3>1 DEF WriteEwmCtrl, UpdateIrq, Watchdog, Monitor
      <3> QED  BY <1>0, <1>7, <2>1, <2>2, <3>2, <3>3 DEF Alike, Monitors
    <2>4. CASE \E byte \in Bytes : wd' = WriteEwmService(w, byte)
      <3>1. PICK byte \in Bytes : wd' = WriteEwmService(w, byte)
        BY <2>4
      <3>2. /\ wd'.config = w.config /\ wd'.update_open = w.update_open
            /\ wd'.update_left = w.update_left /\ wd'.counter = w.counter
        BY <2>1, <3>1 DEF WriteEwmService, AssertEwmOutput, UpdateIrq, Watchdog
      <3>3. /\ w.ewm.output => wd'.ewm.output
            /\ \/ wd'.ewm.counter = w.ewm.counter
               \/ /\ w.ewm.service_stage /\ ~EwmInputAsserted(w)
                  /\ w.ewm.cmpl < w.ewm.counter /\ w.ewm.counter < w.ewm.cmph
        BY <1>0, <2>1, <3>1 DEF WriteEwmService, AssertEwmOutput, UpdateIrq, Watchdog, Monitor
      <3>4. EwmInputAsserted(w) = EwmInputAsserted(wd)
        BY <2>1 DEF EwmInputAsserted
      <3>5. Monitors(wd, wd')
        BY <1>0, <2>1, <3>3, <3>4 DEF Monitors
      <3> QED  BY <1>7, <2>2, <3>2, <3>5 DEF Alike
    <2>5. CASE \E value \in Compares : wd' = [w EXCEPT !.ewm.cmpl = value, !.ewm.cmpl_written = TRUE]
      <3>1. PICK value \in Compares : wd' = [w EXCEPT !.ewm.cmpl = value, !.ewm.cmpl_written = TRUE]
        BY <2>5
      <3>2. /\ wd'.config = w.config /\ wd'.update_open = w.update_open
            /\ wd'.update_left = w.update_left /\ wd'.counter = w.counter
        <4> HIDE DEF w
        <4> QED  BY <2>1, <3>1 DEF Watchdog
      <3>3. wd'.ewm.output = w.ewm.output /\ wd'.ewm.counter = w.ewm.counter
        <4> HIDE DEF w
        <4> QED  BY <1>0, <2>1, <3>1 DEF Watchdog, Monitor
      <3>4. Monitors(wd, wd')
        <4> HIDE DEF w
        <4> QED  BY <1>0, <2>1, <3>3 DEF Monitors
      <3> QED  BY <1>7, <2>2, <3>2, <3>4 DEF Alike
    <2>6. CASE \E value \in Compares : wd' = [w EXCEPT !.ewm.cmph = value, !.ewm.cmph_written = TRUE]
      <3>1. PICK value \in Compares : wd' = [w EXCEPT !.ewm.cmph = value, !.ewm.cmph_written = TRUE]
        BY <2>6
      <3>2. /\ wd'.config = w.config /\ wd'.update_open = w.update_open
            /\ wd'.update_left = w.update_left /\ wd'.counter = w.counter
        <4> HIDE DEF w
        <4> QED  BY <2>1, <3>1 DEF Watchdog
      <3>3. wd'.ewm.output = w.ewm.output /\ wd'.ewm.counter = w.ewm.counter
        <4> HIDE DEF w
        <4> QED  BY <1>0, <2>1, <3>1 DEF Watchdog, Monitor
      <3>4. Monitors(wd, wd')
        <4> HIDE DEF w
        <4> QED  BY <1>0, <2>1, <3>3 DEF Monitors
      <3> QED  BY <1>7, <2>2, <3>2, <3>4 DEF Alike
    <2> QED  BY <1>8, <2>3, <2>4, <2>5, <2>6 DEF WriteEwm
  <1>9. CASE SetEwmInput
    <2>1. /\ wd'.config = wd.config /\ wd'.update_open = wd.update_open
          /\ wd'.update_left = wd.update_left /\ wd'.counter = wd.counter
          /\ wd'.ewm.output = wd.ewm.output /\ wd'.ewm.counter = wd.ewm.counter
      BY <1>0, <1>9 DEF SetEwmInput, Watchdog, Monitor
    <2> QED  BY <1>0, <1>7, <2>1 DEF Monitors
  <1> QED  BY <1>1, <1>2, <1>3, <1>4, <1>5, <1>6, <1>8, <1>9 DEF Next

-----------------------------------------------------------------------------
(* Every reachable state is sound, and nothing in it is out of time. *)
THEOREM WatchdogInvariant == Spec => []Good(wd)
  <1>1. Init => Good(wd)
    BY AfterResetSound DEF Init, Good
  <1>2. Good(wd) /\ [Next]_wd => Good(wd)'
    BY NextGood
  <1> QED  BY <1>1, <1>2, PTL DEF Spec

(* Whatever the firmware writes and the host does, counters, deadlines and
   registers of watchdogs.c stay within their types; the time saved for a
   debugger is never negative, which in the code is an unsigned wrap. *)
THEOREM WatchdogTypeCorrect == Spec => []TypeOK
  <1>1. Good(wd) => TypeOK  BY DEF Good, Sound, Steady, TypeOK
  <1> QED  BY <1>1, WatchdogInvariant, PTL

(* The unlock and the refresh share one deadline and never overlap, in
   whatever order the firmware writes whole words and single bytes. *)
THEOREM SequencesExclude == Spec => []OneSequence
  <1>1. Good(wd) => OneSequence  BY DEF Good, Sound, Steady, Exclusive, OneSequence
  <1> QED  BY <1>1, WatchdogInvariant, PTL

(* Sequences, window, first unlock and delayed reset end in the step in which
   their time runs out, though wdog_process_bus_time handles one per call. *)
THEOREM DeadlinesAreKept == Spec => []DeadlinesKept
  <1>1. Good(wd) => DeadlinesKept  BY DEF Good, Timely, DeadlinesKept
  <1> QED  BY <1>1, WatchdogInvariant, PTL

(* The interrupt line shared by watchdog and monitor is always what their two
   flags say. *)
THEOREM LineFollowsFlags == Spec => []LineInStep
  <1>1. Good(wd) => LineInStep  BY DEF Good, Sound, Line, LineInStep
  <1> QED  BY <1>1, WatchdogInvariant, PTL

(* The counter is below the timeout, or zero: wdog_counter never passes the
   timeout without an exception. *)
THEOREM CounterStaysBelow == Spec => []CounterBelowTimeout
  <1>1. Good(wd) => CounterBelowTimeout
    BY DEF Good, Sound, Steady, BelowTimeout, CounterBelowTimeout
  <1> QED  BY <1>1, WatchdogInvariant, PTL

(* A configuration that has given up ALLOWUPDATE stays as it is until a reset,
   whatever is written in whatever order. *)
THEOREM LockIsFinal == Spec => LockHolds
  <1>1. Good(wd) /\ [Next]_wd => [Locked => wd'.reset \/ (Locked' /\ wd'.config = wd.config)]_wd
    BY NextGood DEF KeepsLock, LockedIn, Locked
  <1> QED  BY <1>1, WatchdogInvariant, PTL DEF Spec, LockHolds

(* The watchdog is sound: well typed, its sequences apart, nothing out of time, the
   shared line in step and the counter below the timeout. *)
THEOREM WatchdogIsSound == Spec => []WatchdogSound
  BY WatchdogTypeCorrect, SequencesExclude, DeadlinesAreKept, LineFollowsFlags,
     CounterStaysBelow, PTL
     DEF WatchdogSound

(* The configuration changes in a reset, at the end of a window in which the register
   was written, or, for the immediate enables, once in the window; and a lock holds:
   whatever is written in whatever order, and whatever a step lets pass first. *)
THEOREM ConfigIsKept == Spec => ConfigKept
  <1>1. Good(wd) /\ [Next]_wd => [Guarded(wd, wd')]_wd
    BY NextHonest DEF Honest
  <1>2. Spec => [][Guarded(wd, wd')]_wd
    BY <1>1, WatchdogInvariant, PTL DEF Spec
  <1>3. [][Guarded(wd, wd')]_wd => ConfigGuarded
    <2>1. [Guarded(wd, wd')]_wd =>
            [wd'.config # wd.config =>
               \/ wd'.reset
               \/ /\ wd.update_open
                  /\ \A field \in DOMAIN wd.config :
                       wd'.config[field] # wd.config[field] =>
                         \/ ~wd'.update_open /\ field \in wd.mask
                         \/ /\ wd'.update_open /\ field = "ctrl" /\ field \notin wd.mask
                            /\ wd'.config.ctrl \ Immediate = wd.config.ctrl \ Immediate]_wd
      BY DEF Guarded
    <2> QED  BY <2>1, PTL DEF ConfigGuarded
  <1> QED  BY <1>2, <1>3, LockIsFinal DEF ConfigKept

(* An open window loses only the time that passes, whatever debugger and sleep do,
   unless the debugger had halted the core before the unlock; and the counter goes back
   only for a refresh in time, an update, an interrupt or a reset. *)
THEOREM CounterIsKept == Spec => CounterKept
  <1>1. Good(wd) /\ [Next]_wd =>
          /\ [wd.update_open /\ wd'.update_open /\ ~wd.initial_debug_pause => TimeTaken]_wd
          /\ [wd'.counter < wd.counter =>
                \/ wd'.reset
                \/ ~wd.reset_pending /\ wd'.reset_pending
                \/ wd.update_open /\ ~wd'.update_open
                \/ /\ wd.refresh_stage /\ ~wd'.refresh_stage
                   /\ "WINEN" \in wd.config.ctrl => wd.counter >= wd.config.window]_wd
    BY NextHonest DEF Honest, Lasts, Restarts, Refreshed, TimeTaken
  <1> QED
    BY <1>1, WatchdogInvariant, PTL DEF Spec, CounterKept, OnlyTimeClosesTheWindow, CounterHonest

(* Once configured the monitor releases its output in a reset only, and its counter
   goes back only for a service in its window with the pin at rest. *)
THEOREM MonitorIsHonest == Spec => MonitorHonest
  <1>1. Good(wd) /\ [Next]_wd =>
          [~wd'.reset /\ wd.ewm.control_written =>
             /\ wd.ewm.output => wd'.ewm.output
             /\ wd'.ewm.counter < wd.ewm.counter =>
                  /\ wd.ewm.service_stage
                  /\ wd.ewm.cmpl < wd.ewm.counter /\ wd.ewm.counter < wd.ewm.cmph
                  /\ ~EwmInputAsserted(wd)]_wd
    BY NextHonest DEF Honest, Monitors
  <1> QED  BY <1>1, WatchdogInvariant, PTL DEF Spec, MonitorHonest
=============================================================================
