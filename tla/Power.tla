------------------------------- MODULE Power --------------------------------
(***************************************************************************)
(* Power modes, wakeup, low-voltage detection and the causes of a reset       *)
(* (timing/registers.c: SMC, LLWU, PMC and RCM).  What the core does, whether    *)
(* it sleeps and how deep, is sampled before the peripherals advance; a reset     *)
(* runs through the device, which drops every interrupt line with the core's        *)
(* state.                                                                            *)
(***************************************************************************)
EXTENDS Naturals

CONSTANTS
  PowerRuns,      \* values of RUNM firmware writes
  PowerStops,     \* values of STOPM firmware writes
  PowerAllows,    \* sets of modes firmware allows in PMPROT
  PowerEdges      \* edge selections of the wakeup pin and its filter

Running == {"run", "vlpr", "hsrun"}
PowerModes == {"vlp", "lls", "vlls", "hsrun"}

ASSUME PowerAssumption == PowerRuns \subseteq Running /\ PowerAllows \subseteq SUBSET PowerModes

VARIABLES
  power,      \* SMC: what is allowed, the modes asked for and PMSTAT
  wake,       \* LLWU: one pin, one filter on it, one module
  supply,     \* PMC: LVDSC1 and LVDSC2
  causes,     \* RCM: the causes of the last reset, and the sticky ones
  powerLine   \* the interrupt lines

powerVars == <<power, wake, supply, causes, powerLine>>

Stopped == {"vlpw", "stop", "vlps", "lls"}
LowLeakage == {"lls", "vlls"}
StopModes == {"stop", "vlps", "lls", "vlls"}

(* The bit of PMPROT a mode asks for. *)
Protects(mode) ==
  CASE mode \in {"vlpr", "vlpw", "vlps"} -> {"vlp"}
    [] mode = "lls" -> {"lls"}
    [] mode = "vlls" -> {"vlls"}
    [] mode = "hsrun" -> {"hsrun"}
    [] OTHER -> {}

PowerOff ==
  [allow |-> {}, stop |-> "stop", run |-> "run", stat |-> "run",
   sleeping |-> FALSE, deep |-> FALSE]

WakeOff ==
  [high |-> FALSE, edge |-> "none", flag |-> FALSE, fedge |-> "none", fflag |-> FALSE,
   module |-> FALSE, mflag |-> FALSE]

SupplyOff ==
  [detected |-> FALSE, resets |-> TRUE, written |-> FALSE, die |-> FALSE,
   warned |-> FALSE, wie |-> FALSE]

ResetCauses == {"por", "lvd", "wakeup", "wdog"}

LinesOff == [llwu |-> FALSE, lvd |-> FALSE]

PowerTypeOK ==
  /\ power \in [allow : SUBSET PowerModes, stop : PowerStops \cup {"stop"}, run : Running,
                stat : Running \cup Stopped \cup {"vlls"}, sleeping : BOOLEAN, deep : BOOLEAN]
  /\ power.deep => power.sleeping
  /\ wake \in [high : BOOLEAN, edge : PowerEdges \cup {"none"}, flag : BOOLEAN,
               fedge : PowerEdges \cup {"none"}, fflag : BOOLEAN, module : BOOLEAN, mflag : BOOLEAN]
  /\ supply \in [detected : BOOLEAN, resets : BOOLEAN, written : BOOLEAN, die : BOOLEAN,
                 warned : BOOLEAN, wie : BOOLEAN]
  /\ powerLine \in [llwu : BOOLEAN, lvd : BOOLEAN]
  /\ causes \in [last : SUBSET ResetCauses, sticky : SUBSET ResetCauses, cleared : SUBSET ResetCauses]
  /\ causes.last \subseteq causes.sticky \cup causes.cleared

PowerInit ==
  /\ power = PowerOff
  /\ wake = WakeOff
  /\ supply = SupplyOff
  /\ causes = [last |-> {"por", "lvd"}, sticky |-> {"por", "lvd"}, cleared |-> {}]
  /\ powerLine = LinesOff

-----------------------------------------------------------------------------
(* The sources of the two lines *)
WakeFlags == wake'.flag \/ wake'.fflag \/ wake'.mflag
SupplyFlags == (supply'.detected /\ supply'.die) \/ (supply'.warned /\ supply'.wie)

WakeSet(w) ==
  /\ wake' = w
  /\ powerLine' = [powerLine EXCEPT !.llwu = WakeFlags]
  /\ UNCHANGED <<power, supply, causes>>

SupplySet(s) ==
  /\ supply' = s
  /\ powerLine' = [powerLine EXCEPT !.lvd = SupplyFlags]
  /\ UNCHANGED <<power, wake, causes>>

ResetByReplacing(cause) ==  \* mutant: the sticky causes are those of this reset
  /\ power' = PowerOff
  /\ wake' = WakeOff
  /\ supply' = SupplyOff
  /\ causes' = [last |-> {cause}, sticky |-> {cause}, cleared |-> {}]
  /\ powerLine' = LinesOff

(* A reset from within adds its cause to the sticky ones; the level of the pin
   is forgotten with the rest. *)
ResetBy(cause) ==
  /\ power' = PowerOff
  /\ wake' = WakeOff
  /\ supply' = SupplyOff
  /\ causes' = [last |-> {cause}, sticky |-> causes.sticky \cup {cause}, cleared |-> {}]
  /\ powerLine' = LinesOff

PowerOn ==
  /\ power' = PowerOff
  /\ wake' = WakeOff
  /\ supply' = SupplyOff
  /\ causes' = [last |-> {"por", "lvd"}, sticky |-> {"por", "lvd"}, cleared |-> {}]
  /\ powerLine' = LinesOff

WatchdogResets == ResetBy("wdog")

-----------------------------------------------------------------------------
(* SMC *)

PowerSet(p) == power' = p /\ UNCHANGED <<wake, supply, causes, powerLine>>

WritePmprot(allow) == PowerSet([power EXCEPT !.allow = @ \cup allow])

(* The mode PMCTRL asks for, where PMPROT allows it. *)
RunAsAsked(run) == IF Protects(run) \subseteq power.allow THEN run ELSE power.run

WritePmctrl(run, stop) ==
  LET now == RunAsAsked(run)
  IN  PowerSet([power EXCEPT !.run = now, !.stop = stop,
                             !.stat = IF power.sleeping THEN @ ELSE now])

Woken == IF power.stat = "vlls" THEN "vlls" ELSE power.run

Depth(sleeping, deep) == sleeping /\ deep

StopMode ==
  IF power.stop \in StopModes /\ Protects(power.stop) \subseteq power.allow
  THEN power.stop
  ELSE power.stat

(* The mode of a core that sleeps, by SLEEPDEEP: a mode that is not allowed
   leaves PMSTAT as it is. *)
SetCpuSleeping(sleeping, deep) ==
  /\ <<sleeping, deep>> # <<power.sleeping, power.deep>>
  /\ PowerSet([power EXCEPT
       !.sleeping = sleeping,
       !.deep = Depth(sleeping, deep),
       !.stat = IF ~sleeping THEN Woken
                ELSE IF deep THEN StopMode
                ELSE IF power.run = "vlpr" THEN "vlpw" ELSE power.run])

-----------------------------------------------------------------------------
(* LLWU *)

EdgeSeen(edge, was, is) ==
  \/ edge \in {"rising", "any"} /\ ~was /\ is
  \/ edge \in {"falling", "any"} /\ was /\ ~is

(* A wakeup leaves VLLS through a reset, LLS through the interrupt. *)
WakeBy(w) == IF power.stat = "vlls" THEN ResetBy("wakeup") ELSE WakeSet(w)

SetLlwuPin(high) ==
  LET pin == EdgeSeen(wake.edge, wake.high, high)
      filter == EdgeSeen(wake.fedge, wake.high, high)
      seen == [wake EXCEPT !.high = high, !.flag = @ \/ pin, !.fflag = @ \/ filter]
  IN  IF power.stat \in LowLeakage /\ (pin \/ filter) THEN WakeBy(seen)
      ELSE /\ wake' = [wake EXCEPT !.high = high]
           /\ UNCHANGED <<power, supply, causes, powerLine>>

TriggerLlwuModule ==
  /\ power.stat \in LowLeakage
  /\ wake.module
  /\ WakeBy([wake EXCEPT !.mflag = TRUE])

WritePinEdge(edge) == WakeSet([wake EXCEPT !.edge = edge])
WriteModules(on) == WakeSet([wake EXCEPT !.module = on])
ClearPinFlag == WakeSet([wake EXCEPT !.flag = FALSE])

WriteFilterQuietly(edge, clear) ==  \* mutant: the line is left
  /\ wake' = [wake EXCEPT !.fedge = edge, !.fflag = @ /\ ~clear]
  /\ UNCHANGED <<power, supply, causes, powerLine>>

WriteFilter(edge, clear) == WakeSet([wake EXCEPT !.fedge = edge, !.fflag = @ /\ ~clear])

-----------------------------------------------------------------------------
(* PMC: LVDRE can be written once *)

WriteDetection(ack, ie, resets) ==
  SupplySet([supply EXCEPT !.detected = @ /\ ~ack, !.die = ie, !.written = TRUE,
                           !.resets = IF supply.written THEN @ ELSE resets])

WriteWarning(ack, ie) == SupplySet([supply EXCEPT !.warned = @ /\ ~ack, !.wie = ie])

Monitored == power.stat \in {"run", "stop", "hsrun"}

LowVoltageWarning == Monitored /\ SupplySet([supply EXCEPT !.warned = TRUE])

LowVoltageDetect ==
  /\ Monitored
  /\ IF supply.resets THEN ResetBy("lvd") ELSE SupplySet([supply EXCEPT !.detected = TRUE])

(* RCM *)
ClearCauses(cleared) ==
  /\ causes' = [causes EXCEPT !.sticky = @ \ cleared, !.cleared = @ \cup cleared]
  /\ UNCHANGED <<power, wake, supply, powerLine>>

PowerNext ==
  \/ \E allow \in PowerAllows : WritePmprot(allow)
  \/ \E run \in PowerRuns, stop \in PowerStops : WritePmctrl(run, stop)
  \/ \E sleeping, deep \in BOOLEAN : SetCpuSleeping(sleeping, deep)
  \/ \E high \in BOOLEAN : SetLlwuPin(high)
  \/ TriggerLlwuModule
  \/ \E edge \in PowerEdges : WritePinEdge(edge)
  \/ \E on \in BOOLEAN : WriteModules(on)
  \/ ClearPinFlag
  \/ \E edge \in PowerEdges, clear \in BOOLEAN : WriteFilter(edge, clear)
  \/ \E ack, ie, resets \in BOOLEAN : WriteDetection(ack, ie, resets)
  \/ \E ack, ie \in BOOLEAN : WriteWarning(ack, ie)
  \/ LowVoltageWarning
  \/ LowVoltageDetect
  \/ \E cause \in {"por", "lvd", "wakeup"} : ClearCauses({cause})
  \/ WatchdogResets
  \/ PowerOn

PowerSpec == PowerInit /\ [][PowerNext]_powerVars

-----------------------------------------------------------------------------
(* The device is in no mode PMPROT does not allow: neither PMCTRL, the depth of
   a sleep nor a wakeup leads to one (write_control_register,
   k22_timing_set_cpu_sleeping). *)
ModesAllowed == \A mode \in {power.stat, power.run} : Protects(mode) \subseteq power.allow

(* PMSTAT shows a mode the core sleeps in only while it sleeps; VLLS excepted,
   which only a reset leaves (k22_timing_set_cpu_sleeping). *)
StoppedOnlyAsleep == power.stat \in Stopped => power.sleeping

(* The two lines follow their flags through every write, wakeup, warning and
   reset (k22_timing_internal_update_llwu_irq, k22_timing_internal_update_pmc_irq). *)
PowerLinesInStep ==
  /\ powerLine.llwu = (wake.flag \/ wake.fflag \/ wake.mflag)
  /\ powerLine.lvd = ((supply.detected /\ supply.die) \/ (supply.warned /\ supply.wie))

(* A cause stays among the sticky ones through every later reset, until it is
   cleared or the power returns (k22_timing_reset). *)
CausesStick ==
  causes.sticky \ causes'.sticky # {}
    => causes'.cleared # {} \/ causes'.last = {"por", "lvd"}

(* What a wakeup or a reset must find is there: the run mode is one that PMPROT allows,
   the core is in a stop mode only asleep, a sticky cause of reset stays until it is
   cleared, and both lines are those of the flags (timing/registers.c). *)
PowerHonest ==
  /\ [](ModesAllowed /\ StoppedOnlyAsleep /\ PowerLinesInStep)
  /\ [][CausesStick]_powerVars
=============================================================================
