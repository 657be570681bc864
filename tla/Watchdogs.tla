----------------------------- MODULE Watchdogs ------------------------------
(***************************************************************************)
(* The watchdog and the external watchdog monitor of the K22:              *)
(* src/device/kinetis_k22/timing/watchdogs.c, with the resets and the      *)
(* pauses of timing/registers.c.                                           *)
(*                                                                         *)
(* The code keeps absolute times and compares them with wdog_bus_cycles;   *)
(* here each deadline is the number of bus cycles left until it, counted   *)
(* down to -1, since the code never asks how long ago a deadline passed.   *)
(* A register write first lets one bus cycle pass, so its effect is the    *)
(* composition of two operators on the record of the state.                *)
(***************************************************************************)
EXTENDS Integers

CONSTANTS
  SequenceTime,    \* bus cycles between the words of a sequence, 20 in the code
  ServiceTime,     \* bus cycles between the bytes of the EWM service, 15
  WindowTime,      \* bus cycles the update window stays open, 256
  InitialTime,     \* bus cycles until the first unlock after a reset, 256
  ResetDelay,      \* bus cycles from the interrupt to the reset, 256
  ControlValues,   \* sets of STCTRLH bits the firmware writes
  Timeouts,        \* values the firmware writes to TOVAL
  Windows,         \* values the firmware writes to WIN
  ResetTimeout,    \* TOVAL after a reset
  ResetWindow,     \* WIN after a reset
  EwmControlValues, \* sets of CTRL bits the firmware writes to the EWM
  Compares,        \* values the firmware writes to CMPL and CMPH
  NoCompare,       \* 0xff, the CMPH that never compares
  BusSteps,        \* bus cycles that may pass at once
  CounterSteps,    \* ticks of the watchdog's clock that may pass at once
  CounterLimit,    \* UINT32_MAX, where the counter of the EWM stops
  Features         \* which accesses this instance makes

Controls == {"WDOGEN", "IRQRSTEN", "WINEN", "ALLOWUPDATE", "DBGEN", "STOPEN", "WAITEN"}
EwmControls == {"EWMEN", "ASSIN", "INEN", "INTEN"}

ASSUME TimesAssumption ==
  /\ SequenceTime \in Nat /\ ServiceTime \in Nat /\ WindowTime \in Nat
  /\ InitialTime \in Nat /\ ResetDelay \in Nat \ {0}
  /\ BusSteps \subseteq Nat /\ CounterSteps \subseteq Nat
ASSUME ValuesAssumption ==
  /\ ControlValues \subseteq SUBSET Controls /\ EwmControlValues \subseteq SUBSET EwmControls
  /\ Timeouts \subseteq Nat /\ Windows \subseteq Nat
  /\ ResetTimeout \in Nat \ {0} /\ ResetWindow \in Nat
  /\ Compares \subseteq Nat /\ NoCompare \in Nat /\ CounterLimit \in Nat

VARIABLE wd   \* the part of K22Timing the two watchdogs use

(* A 16-bit sequence register by its two bytes, each from the first or the
   second word of the sequence, or neither. *)
Lanes == {"low", "high"}
Bytes == {"first", "second", "other"}
Word(byte) == [lane \in Lanes |-> byte]

Configs == [ctrl : SUBSET Controls, timeout : Nat, window : Nat]
Left == Nat \cup {-1}

Monitor ==
  [ ctrl : SUBSET EwmControls, control_written : BOOLEAN,
    cmpl : Nat, cmpl_written : BOOLEAN, cmph : Nat, cmph_written : BOOLEAN,
    input : BOOLEAN, output : BOOLEAN, counter : 0..CounterLimit,
    service_stage : BOOLEAN, service_paused : BOOLEAN,
    service_left : Left, service_remaining : Nat ]

Watchdog ==
  [ config : Configs,             \* wdog[0], wdog[2..3], wdog[4..5]
    pending : Configs,            \* wdog_pending
    mask : SUBSET {"ctrl", "timeout", "window"},   \* wdog_update_mask
    counter : Nat,                \* wdog_counter
    flag : BOOLEAN,               \* wdog[1] bit 15
    unlock : [Lanes -> Bytes], refresh : [Lanes -> Bytes],   \* wdog[7], wdog[6]
    unlock_stage : BOOLEAN, refresh_stage : BOOLEAN,
    sequence_left : Left, ready_left : Left, update_left : Left, reset_left : Left,
    initial_unlock_required : BOOLEAN,
    initial_debug_pause : BOOLEAN, initial_debug_remaining : Nat,
    update_open : BOOLEAN, update_written : BOOLEAN, reset_pending : BOOLEAN,
    halted : BOOLEAN, sleep : {"run", "wait", "stop"},   \* as last reported by the core
    ewm : Monitor,
    irq : BOOLEAN,                \* the level last reported for IRQ_WDOG_EWM
    reset : BOOLEAN ]             \* signals.reset was called in the last step

TypeOK == wd \in Watchdog

(* k22_timing_reset, k22_timing_warm_reset.  Bits 0, 4, 6 and 7 of STCTRLH. *)
ResetConfig == [ctrl |-> {"WDOGEN", "ALLOWUPDATE", "STOPEN", "WAITEN"},
                timeout |-> ResetTimeout, window |-> ResetWindow]
AfterReset(signalled) ==
  [config |-> ResetConfig, pending |-> ResetConfig, mask |-> {}, counter |-> 0, flag |-> FALSE,
   unlock |-> Word("second"), refresh |-> Word("second"),
   unlock_stage |-> FALSE, refresh_stage |-> FALSE,
   sequence_left |-> 0, ready_left |-> 0, update_left |-> InitialTime, reset_left |-> 0,
   initial_unlock_required |-> TRUE,
   initial_debug_pause |-> FALSE, initial_debug_remaining |-> 0,
   update_open |-> FALSE, update_written |-> FALSE, reset_pending |-> FALSE,
   halted |-> FALSE, sleep |-> "run",
   ewm |-> [ctrl |-> {}, control_written |-> FALSE, cmpl |-> 0, cmpl_written |-> FALSE,
            cmph |-> NoCompare, cmph_written |-> FALSE, input |-> FALSE, output |-> TRUE,
            counter |-> 0, service_stage |-> FALSE, service_paused |-> FALSE,
            service_left |-> 0, service_remaining |-> 0],
   irq |-> FALSE, reset |-> signalled]

Init == wd = AfterReset(FALSE)

(* k22_timing_internal_signal_reset: the callback resets the whole device, and
   the reset_generation keeps it from being reset twice. *)
SignalReset == AfterReset(TRUE)

(* update_watchdog_irq: the two watchdogs share one interrupt line. *)
UpdateIrq(w) ==
  [w EXCEPT !.irq = w.flag \/ (w.ewm.output /\ "INTEN" \in w.ewm.ctrl)]

(* wdog_exception: an interrupt first when IRQRSTEN is set, otherwise a reset
   at once; a second exception while the reset is due does not wait. *)
WdogExceptionWarnsOnly(w) ==  \* mutant: the interrupt instead of the reset
  IF "IRQRSTEN" \notin w.config.ctrl THEN SignalReset
  ELSE UpdateIrq([w EXCEPT !.counter = 0, !.flag = TRUE])
WdogException(w) ==
  IF "IRQRSTEN" \notin w.config.ctrl \/ w.reset_pending
  THEN SignalReset
  ELSE UpdateIrq([w EXCEPT !.counter = 0, !.flag = TRUE,
                           !.reset_pending = TRUE, !.reset_left = ResetDelay])

-----------------------------------------------------------------------------
(* The passage of time *)

Less(left, ticks) == IF ticks <= left THEN left - ticks ELSE -1

(* The bus cycles of wdog_advance_bus. *)
Elapse(w, ticks) ==
  [w EXCEPT !.sequence_left = Less(@, ticks), !.ready_left = Less(@, ticks),
            !.update_left = Less(@, ticks), !.reset_left = Less(@, ticks),
            !.ewm.service_left = Less(@, ticks)]

(* wdog_apply_update: what was written in the window takes effect at its end. *)
ApplyUpdate(w) ==
  [w EXCEPT !.config = [field \in DOMAIN w.config |->
                          IF field \in w.mask THEN w.pending[field] ELSE w.config[field]],
            !.update_open = FALSE, !.mask = {}, !.counter = 0]

(* wdog_process_bus_time: at most one of these things happens. *)
ProcessBusTimeLate(w) ==  \* mutant: the window is open for a cycle too long
  IF w.reset_pending /\ w.reset_left <= 0 THEN SignalReset
  ELSE IF w.unlock_stage /\ w.sequence_left < 0
       THEN WdogException([w EXCEPT !.unlock_stage = FALSE])
  ELSE IF w.refresh_stage /\ w.sequence_left < 0
       THEN WdogException([w EXCEPT !.refresh_stage = FALSE])
  ELSE IF /\ w.initial_unlock_required /\ ~w.initial_debug_pause
          /\ ~w.unlock_stage /\ w.update_left < 0
       THEN WdogException([w EXCEPT !.initial_unlock_required = FALSE])
  ELSE IF w.update_open /\ w.update_left < 0 THEN ApplyUpdate(w)
  ELSE w
ProcessBusTime(w) ==
  IF w.reset_pending /\ w.reset_left <= 0 THEN SignalReset
  ELSE IF w.unlock_stage /\ w.sequence_left < 0
       THEN WdogException([w EXCEPT !.unlock_stage = FALSE])
  ELSE IF w.refresh_stage /\ w.sequence_left < 0
       THEN WdogException([w EXCEPT !.refresh_stage = FALSE])
  ELSE IF /\ w.initial_unlock_required /\ ~w.initial_debug_pause
          /\ ~w.unlock_stage /\ w.update_left < 0
       THEN WdogException([w EXCEPT !.initial_unlock_required = FALSE])
  ELSE IF w.update_open /\ w.update_left <= 0
       THEN IF w.update_written THEN ApplyUpdate(w)
            ELSE WdogException([w EXCEPT !.update_open = FALSE])
  ELSE w

AdvanceBus(w, ticks) == ProcessBusTime(Elapse([w EXCEPT !.reset = FALSE], ticks))

(* wdog_running *)
Running(w) ==
  /\ "WDOGEN" \in w.config.ctrl
  /\ w.halted => "DBGEN" \in w.config.ctrl
  /\ w.sleep = "wait" => "WAITEN" \in w.config.ctrl
  /\ w.sleep = "stop" => "STOPEN" \in w.config.ctrl

(* k22_timing_watchdog_advance *)
CountLate(w, ticks) ==  \* mutant: one tick too late
  IF ticks = 0 \/ ~Running(w) THEN w
  ELSE IF w.counter + ticks > w.config.timeout THEN WdogException(w)
  ELSE [w EXCEPT !.counter = @ + ticks]
Count(w, ticks) ==
  IF ticks = 0 \/ ~Running(w) THEN w
  ELSE IF w.counter + ticks >= w.config.timeout THEN WdogException(w)
  ELSE [w EXCEPT !.counter = @ + ticks]

(* assert_ewm_output *)
AssertEwmOutput(w) == UpdateIrq([w EXCEPT !.ewm.output = TRUE])

(* k22_timing_internal_advance_ewm *)
CountEwm(w, ticks) ==
  IF "EWMEN" \notin w.ewm.ctrl \/ w.ewm.output \/ w.sleep # "run" THEN w
  ELSE LET count == IF w.ewm.counter + ticks < CounterLimit THEN w.ewm.counter + ticks
                    ELSE CounterLimit
           counted == [w EXCEPT !.ewm.counter = count]
       IN  IF w.ewm.cmph # NoCompare /\ count >= w.ewm.cmph THEN AssertEwmOutput(counted)
           ELSE counted

(* k22_timing_set_cpu_sleeping: the service sequence of the EWM stands still
   while the core sleeps. *)
SetSleeping(w, sleep) ==
  LET falls_asleep == sleep # "run" /\ w.sleep = "run"
  IN  IF falls_asleep /\ w.ewm.service_stage /\ w.ewm.service_left >= 0
      THEN [w EXCEPT !.sleep = sleep, !.ewm.service_paused = TRUE,
                     !.ewm.service_remaining = w.ewm.service_left]
      ELSE IF sleep = "run" /\ w.ewm.service_paused
      THEN [w EXCEPT !.sleep = sleep, !.ewm.service_paused = FALSE,
                     !.ewm.service_left = w.ewm.service_remaining]
      ELSE [w EXCEPT !.sleep = sleep]

(* k22_timing_set_debug_halted: so does the time for the first unlock while
   the debugger halts the core. *)
SetHaltedLate(w, halted) ==  \* mutant: the time is taken though it has run out
  IF w.halted = halted THEN w
  ELSE IF halted /\ w.initial_unlock_required
  THEN [w EXCEPT !.halted = halted, !.initial_debug_pause = TRUE,
                 !.initial_debug_remaining = w.update_left]
  ELSE IF ~halted /\ w.initial_debug_pause
  THEN [w EXCEPT !.halted = halted, !.initial_debug_pause = FALSE,
                 !.update_left = w.initial_debug_remaining]
  ELSE [w EXCEPT !.halted = halted]
SetHaltedAlways(w, halted) ==  \* mutant: the time is given back though none was taken
  IF w.halted = halted THEN w
  ELSE IF halted /\ w.initial_unlock_required /\ w.update_left >= 0
  THEN [w EXCEPT !.halted = halted, !.initial_debug_pause = TRUE,
                 !.initial_debug_remaining = w.update_left]
  ELSE IF ~halted
  THEN [w EXCEPT !.halted = halted, !.initial_debug_pause = FALSE,
                 !.update_left = w.initial_debug_remaining]
  ELSE [w EXCEPT !.halted = halted]
SetHalted(w, halted) ==
  IF w.halted = halted THEN w
  ELSE IF halted /\ w.initial_unlock_required /\ w.update_left >= 0
  THEN [w EXCEPT !.halted = halted, !.initial_debug_pause = TRUE,
                 !.initial_debug_remaining = w.update_left]
  ELSE IF ~halted /\ w.initial_debug_pause
  THEN [w EXCEPT !.halted = halted, !.initial_debug_pause = FALSE,
                 !.update_left = w.initial_debug_remaining]
  ELSE [w EXCEPT !.halted = halted]

(* k22_timing_internal_advance_wdog: the counter rests in the advance in which
   an update window closes. *)
AdvanceWdog(w, bus_ticks, ticks) ==
  LET passed == AdvanceBus(w, bus_ticks)
  IN  IF passed.reset \/ (w.update_open /\ ~passed.update_open) THEN passed
      ELSE Count(passed, ticks)

(* kinetis_k22_peripheral_advance, as far as the watchdogs go: the state of the
   core is reported first. *)
SleepModes == {"run"} \cup (Features \cap {"wait", "stop"})
EwmSteps == IF "EWM" \in Features THEN CounterSteps ELSE {0}
AdvanceBy(bus_ticks, ticks, ewm_ticks) ==
  \E sleep \in SleepModes, halted \in BOOLEAN :
    /\ halted => "HALT" \in Features
    /\ LET reported == SetHalted(SetSleeping(wd, sleep), halted)
       IN  wd' = CountEwm(AdvanceWdog(reported, bus_ticks, ticks), ewm_ticks)

Advance ==
  /\ \E bus_ticks \in BusSteps, ticks \in CounterSteps, ewm_ticks \in EwmSteps :
       AdvanceBy(bus_ticks, ticks, ewm_ticks)

(* kinetis_k22_watchdog_advance, by the host. *)
AdvanceCounter ==
  /\ "HOST_TICKS" \in Features
  /\ \E ticks \in CounterSteps : wd' = Count([wd EXCEPT !.reset = FALSE], ticks)

-----------------------------------------------------------------------------
(* Register writes.  An instruction that is stepped through with a debugger
   runs while the last thing the watchdog heard is that the core is halted:
   cortex_m4_debug_instruction_retired halts it before the step's advance. *)

Software == ~wd.halted \/ "STEP" \in Features

(* accept_wdog_unlock: the window opens a bus cycle after the second word. *)
AcceptUnlock(w) ==
  IF w.unlock = Word("first")
  THEN [w EXCEPT !.unlock_stage = TRUE, !.sequence_left = SequenceTime]
  ELSE IF w.unlock = Word("second") /\ w.unlock_stage /\ w.sequence_left >= 0
  THEN [w EXCEPT !.unlock_stage = FALSE, !.initial_unlock_required = FALSE,
                 !.update_open = TRUE, !.update_written = FALSE, !.mask = {},
                 !.ready_left = 1, !.update_left = WindowTime + 1,
                 !.pending = w.config]
  ELSE WdogException([w EXCEPT !.unlock_stage = FALSE])

(* accept_wdog_refresh *)
AcceptRefreshEarly(w) ==  \* mutant: the window for refreshes is not looked at
  IF w.refresh = Word("first")
  THEN [w EXCEPT !.refresh_stage = TRUE, !.sequence_left = SequenceTime]
  ELSE LET ended == [w EXCEPT !.refresh_stage = FALSE]
       IN  IF w.refresh = Word("second") /\ w.refresh_stage /\ w.sequence_left >= 0
           THEN [ended EXCEPT !.counter = 0]
           ELSE WdogException(ended)
AcceptRefresh(w) ==
  IF w.refresh = Word("first")
  THEN [w EXCEPT !.refresh_stage = TRUE, !.sequence_left = SequenceTime]
  ELSE LET ended == [w EXCEPT !.refresh_stage = FALSE]
       IN  IF /\ w.refresh = Word("second") /\ w.refresh_stage /\ w.sequence_left >= 0
              /\ ~("WINEN" \in w.config.ctrl /\ w.counter < w.config.window)
           THEN [ended EXCEPT !.counter = 0]
           ELSE WdogException(ended)

(* A write of the word or of one lane of it: merge_wdog_write, and
   sequence_byte_allowed for single bytes. *)
Merge(register, lanes, byte) ==
  [lane \in Lanes |-> IF lane \in lanes THEN byte ELSE register[lane]]
Complete(register) == register = Word("first") \/ register = Word("second")

UnlockIgnoredUnlocked(w) ==  \* mutant: ALLOWUPDATE is not looked at
  w.refresh_stage \/ w.update_open
UnlockIgnored(w) ==
  \/ w.refresh_stage \/ w.update_open
  \/ ~w.initial_unlock_required /\ "ALLOWUPDATE" \notin w.config.ctrl

WriteUnlock(w, lanes, byte) ==
  LET merged == [w EXCEPT !.unlock = Merge(@, lanes, byte)]
  IN  IF UnlockIgnored(w) THEN w
      ELSE IF lanes # Lanes /\ byte = "other" THEN WdogException(merged)
      ELSE IF lanes = Lanes \/ Complete(merged.unlock) THEN AcceptUnlock(merged)
      ELSE merged

WriteRefreshAnytime(w, lanes, byte) ==  \* mutant: also during an unlock
  LET merged == [w EXCEPT !.refresh = Merge(@, lanes, byte)]
  IN  IF w.update_open THEN w
      ELSE IF lanes # Lanes /\ byte = "other" THEN WdogException(merged)
      ELSE IF lanes = Lanes \/ Complete(merged.refresh) THEN AcceptRefresh(merged)
      ELSE merged
WriteRefresh(w, lanes, byte) ==
  LET merged == [w EXCEPT !.refresh = Merge(@, lanes, byte)]
  IN  IF w.unlock_stage \/ w.update_open THEN w
      ELSE IF lanes # Lanes /\ byte = "other" THEN WdogException(merged)
      ELSE IF lanes = Lanes \/ Complete(merged.refresh) THEN AcceptRefresh(merged)
      ELSE merged

(* STCTRLL: the interrupt flag is cleared by writing one. *)
WriteStctrllQuiet(w, clear) ==  \* mutant: the interrupt line is forgotten
  [w EXCEPT !.flag = @ /\ ~clear,
            !.update_written = @ \/ (w.update_open /\ w.ready_left <= 0)]
WriteStctrllForgives(w, clear) ==  \* mutant: clearing the flag averts the reset
  LET cleared == IF clear
                 THEN UpdateIrq([w EXCEPT !.flag = FALSE, !.reset_pending = FALSE]) ELSE w
  IN  [cleared EXCEPT !.update_written = @ \/ (w.update_open /\ w.ready_left <= 0)]
WriteStctrll(w, clear) ==
  LET cleared == IF clear THEN UpdateIrq([w EXCEPT !.flag = FALSE]) ELSE w
  IN  [cleared EXCEPT !.update_written = @ \/ (w.update_open /\ w.ready_left <= 0)]

(* The other registers take one write per window; the enables of interrupt,
   debug, stop and wait take effect at once. *)
Immediate == {"IRQRSTEN", "DBGEN", "STOPEN", "WAITEN"}
WriteConfigAgain(w, field, value) ==  \* mutant: a register can be written twice
  IF ~w.update_open \/ w.ready_left > 0 THEN w
  ELSE LET written == [w EXCEPT !.pending[field] = value, !.mask = @ \cup {field},
                                !.update_written = TRUE]
       IN  IF field = "ctrl"
           THEN [written EXCEPT !.config.ctrl = (@ \ Immediate) \cup (value \cap Immediate)]
           ELSE written
WriteConfig(w, field, value) ==
  IF ~w.update_open \/ w.ready_left > 0 \/ field \in w.mask THEN w
  ELSE LET written == [w EXCEPT !.pending[field] = value, !.mask = @ \cup {field},
                                !.update_written = TRUE]
       IN  IF field = "ctrl"
           THEN [written EXCEPT !.config.ctrl = (@ \ Immediate) \cup (value \cap Immediate)]
           ELSE written

(* k22_timing_internal_write_wdog: a bus cycle passes first, and a reset in it
   swallows the write. *)
Passed == AdvanceBus(wd, 1)
Written(result) == wd' = IF Passed.reset THEN Passed ELSE result

LaneSets == IF "BYTES" \in Features THEN {Lanes, {"low"}, {"high"}} ELSE {Lanes}

Unlock ==
  /\ Software
  /\ \E lanes \in LaneSets, byte \in Bytes : Written(WriteUnlock(Passed, lanes, byte))

Refresh ==
  /\ Software
  /\ "REFRESH" \in Features
  /\ \E lanes \in LaneSets, byte \in Bytes : Written(WriteRefresh(Passed, lanes, byte))

WriteStatus ==
  /\ Software
  /\ \E clear \in BOOLEAN : Written(WriteStctrll(Passed, clear))

Configure ==
  /\ Software
  /\ \/ \E value \in ControlValues : Written(WriteConfig(Passed, "ctrl", value))
     \/ \E value \in Timeouts : Written(WriteConfig(Passed, "timeout", value))
     \/ \E value \in Windows : Written(WriteConfig(Passed, "window", value))

(* k22_timing_internal_write_ewm: each register but SERV is written once. *)
WriteEwmCtrl(w, value) ==
  IF ~w.ewm.control_written
  THEN UpdateIrq([w EXCEPT !.ewm.ctrl = value, !.ewm.control_written = TRUE,
                           !.ewm.counter = IF "EWMEN" \in value THEN 0 ELSE @,
                           !.ewm.output = IF "EWMEN" \in value THEN FALSE ELSE @])
  ELSE IF value \ {"INTEN"} # w.ewm.ctrl \ {"INTEN"} THEN w
  ELSE UpdateIrq([w EXCEPT !.ewm.ctrl = value])

EwmInputAsserted(w) == "INEN" \in w.ewm.ctrl /\ w.ewm.input = ("ASSIN" \in w.ewm.ctrl)

WriteEwmServiceBlind(w, byte) ==  \* mutant: the input pin is not looked at
  LET ended == [w EXCEPT !.ewm.service_stage = FALSE, !.ewm.service_paused = FALSE]
  IN  IF byte = "first"
      THEN [w EXCEPT !.ewm.service_stage = TRUE, !.ewm.service_paused = FALSE,
                     !.ewm.service_left = ServiceTime]
      ELSE IF \/ byte # "second" \/ ~w.ewm.service_stage
              \/ w.ewm.service_paused \/ w.ewm.service_left < 0
      THEN ended
      ELSE IF w.ewm.cmpl < w.ewm.counter /\ w.ewm.counter < w.ewm.cmph
      THEN [ended EXCEPT !.ewm.counter = 0]
      ELSE AssertEwmOutput(ended)
WriteEwmService(w, byte) ==
  LET ended == [w EXCEPT !.ewm.service_stage = FALSE, !.ewm.service_paused = FALSE]
  IN  IF byte = "first"
      THEN [w EXCEPT !.ewm.service_stage = TRUE, !.ewm.service_paused = FALSE,
                     !.ewm.service_left = ServiceTime]
      ELSE IF \/ byte # "second" \/ ~w.ewm.service_stage
              \/ w.ewm.service_paused \/ w.ewm.service_left < 0
      THEN ended
      ELSE IF /\ w.ewm.cmpl < w.ewm.counter /\ w.ewm.counter < w.ewm.cmph
              /\ ~EwmInputAsserted(w)
      THEN [ended EXCEPT !.ewm.counter = 0]
      ELSE AssertEwmOutput(ended)

WriteEwm ==
  /\ Software
  /\ "EWM" \in Features
  /\ LET w == [wd EXCEPT !.reset = FALSE]
     IN  \/ \E value \in EwmControlValues : wd' = WriteEwmCtrl(w, value)
         \/ \E byte \in Bytes : wd' = WriteEwmService(w, byte)
         \/ \E value \in Compares :
              /\ ~wd.ewm.cmpl_written
              /\ wd' = [w EXCEPT !.ewm.cmpl = value, !.ewm.cmpl_written = TRUE]
         \/ \E value \in Compares :
              /\ ~wd.ewm.cmph_written
              /\ wd' = [w EXCEPT !.ewm.cmph = value, !.ewm.cmph_written = TRUE]

(* k22_timing_set_ewm_input *)
SetEwmInput ==
  /\ "EWM" \in Features
  /\ \E high \in BOOLEAN : wd' = [wd EXCEPT !.ewm.input = high, !.reset = FALSE]

-----------------------------------------------------------------------------
Next ==
  \/ Advance \/ AdvanceCounter \/ Unlock \/ Refresh \/ WriteStatus \/ Configure
  \/ WriteEwm \/ SetEwmInput

Spec == Init /\ [][Next]_wd

(* The host keeps stepping the core, every step reports cycles, and the clocks
   of bus and watchdog make them ticks. *)
TimePasses ==
  \E bus_ticks \in BusSteps \ {0}, ticks \in CounterSteps \ {0}, ewm_ticks \in EwmSteps :
    AdvanceBy(bus_ticks, ticks, ewm_ticks)
FairSpec == Spec /\ WF_wd(TimePasses)
-----------------------------------------------------------------------------
(* Properties *)

(* The two write sequences share one deadline, so at most one is under way,
   and none while the update window is open. *)
OneSequence ==
  /\ ~(wd.unlock_stage /\ wd.refresh_stage)
  /\ wd.update_open => ~wd.unlock_stage /\ ~wd.refresh_stage

(* Nothing outlives its deadline: a half-written sequence, an update window,
   the time for the first unlock and the delay of the reset all end in the very
   advance or write in which their time runs out, though only one of them is
   looked at in each. *)
DeadlinesKept ==
  /\ wd.unlock_stage \/ wd.refresh_stage => wd.sequence_left >= 0
  /\ wd.update_open => wd.update_left > 0
  /\ wd.reset_pending => wd.reset_left > 0
  /\ wd.initial_unlock_required /\ ~wd.initial_debug_pause /\ ~wd.unlock_stage =>
       wd.update_left >= 0

(* The interrupt line that the watchdog and the monitor share is what their
   flags say, whichever of them changed last and however. *)
LineInStep == wd.irq = (wd.flag \/ (wd.ewm.output /\ "INTEN" \in wd.ewm.ctrl))

(* The configuration changes in a reset, at the end of a window in which the
   changed register was written, or, for the enables that take effect at once,
   inside the window. *)
ConfigGuarded ==
  [][wd'.config # wd.config =>
       \/ wd'.reset
       \/ /\ wd.update_open
          /\ \A field \in DOMAIN wd.config :
               wd'.config[field] # wd.config[field] =>
                 \/ ~wd'.update_open /\ field \in wd.mask
                 \/ /\ wd'.update_open /\ field = "ctrl" /\ field \notin wd.mask
                    /\ wd'.config.ctrl \ Immediate = wd.config.ctrl \ Immediate]_wd

(* Once the firmware has given up ALLOWUPDATE nothing it writes changes the
   configuration any more, until a reset. *)
Locked ==
  ~wd.update_open /\ ~wd.initial_unlock_required /\ "ALLOWUPDATE" \notin wd.config.ctrl
LockHolds == [][Locked => wd'.reset \/ (Locked' /\ wd'.config = wd.config)]_wd

(* The time left in an open window changes only by the time that passes,
   unless a debugger had halted the core before the window was opened. *)
TimeTaken == \E ticks \in BusSteps \cup {0, 1} : wd'.update_left = Less(wd.update_left, ticks)
OnlyTimeClosesTheWindow ==
  [][wd.update_open /\ wd'.update_open /\ ~wd.initial_debug_pause => TimeTaken]_wd

(* An unlock gives the firmware the whole window, as the tests of the watchdog
   expect (257 bus cycles), also when it is stepped through with a debugger.
   The code violates this: k22_timing_set_debug_halted, when the core goes on,
   puts the time that was left for the first unlock in place of the window's. *)
WindowLasts == [][wd.update_open /\ wd'.update_open => TimeTaken]_wd

(* The counter restarts only for a refresh in its window, at the end of an
   update, or together with an interrupt or a reset. *)
CounterHonest ==
  [][wd'.counter < wd.counter =>
       \/ wd'.reset
       \/ ~wd.reset_pending /\ wd'.reset_pending
       \/ wd.update_open /\ ~wd'.update_open
       \/ /\ wd.refresh_stage /\ ~wd'.refresh_stage
          /\ "WINEN" \in wd.config.ctrl => wd.counter >= wd.config.window]_wd

(* The counter never reaches the timeout without biting. *)
CounterBelowTimeout == wd.counter = 0 \/ wd.counter < wd.config.timeout

(* The interrupt is a warning only: nothing the firmware does afterwards, not
   even disabling the watchdog, averts the reset. *)
NoEscape == wd.reset_pending ~> wd.reset

(* A watchdog that runs and is neither refreshed nor updated any more resets
   the device, again and again. *)
Restart ==
  /\ ~wd'.reset
  /\ \/ wd.refresh_stage /\ ~wd'.refresh_stage
     \/ wd.update_open /\ ~wd'.update_open
Bites == (<>[]Running(wd) /\ <>[][~Restart]_wd) => []<>wd.reset

(* The counter of the monitor restarts only for a service in its window with
   the input pin at rest, and its output, once it is configured, is released
   only by a reset. *)
MonitorHonest ==
  [][~wd'.reset /\ wd.ewm.control_written =>
       /\ wd.ewm.output => wd'.ewm.output
       /\ wd'.ewm.counter < wd.ewm.counter =>
            /\ wd.ewm.service_stage
            /\ wd.ewm.cmpl < wd.ewm.counter /\ wd.ewm.counter < wd.ewm.cmph
            /\ ~EwmInputAsserted(wd)]_wd

(* The watchdog in one: its types, sequences that exclude each other, deadlines that are
   kept, a line that is what the flags of watchdog and monitor say, and a counter that
   never passes its timeout in silence. *)
WatchdogSound == TypeOK /\ OneSequence /\ DeadlinesKept /\ LineInStep /\ CounterBelowTimeout

(* The configuration moves inside its window only, and not at all once locked. *)
ConfigKept == ConfigGuarded /\ LockHolds

(* Neither the window nor the counter is cut short or stretched by what firmware,
   debugger and sleep do meanwhile. *)
CounterKept == OnlyTimeClosesTheWindow /\ CounterHonest
=============================================================================
