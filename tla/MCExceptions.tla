---------------------------- MODULE MCExceptions ----------------------------
(***************************************************************************)
(* Instances of the exception model for TLC.  A configuration names the    *)
(* features it exercises; the definitions below are those sets.            *)
(***************************************************************************)
EXTENDS Exceptions

(* Two interrupt lines, bus errors on frames and vectors, forged returns. *)
NestingFeatures == {"LEVEL", "FAULTMASK", "STACKING", "VECTOR", "FORGED_RETURN", "SPSEL", "RESET"}

(* Faulting software on a sound memory, no requests from outside. *)
FaultFeatures ==
  {"FAULT", "UNDEFINED", "SHCSR", "FAULTMASK", "ISPR", "ICPR", "FORGED_RETURN", "SPSEL", "RESET"}

(* WFE and sleep-on-exit against events, pulses, lines and the masks, with every
   request at any time. *)
SleepFeatures ==
  {"WFE", "SEVONPEND", "SLEEPONEXIT", "LEVEL", "PULSE", "PRIMASK", "ISPR", "ICPR",
   "ICER", "BREAKPOINT", "RESET"}

(* Firmware that keeps no discipline, and sleeps. *)
UnrestrictedFeatures ==
  {"NONBASE", "RUNTIME_PRIORITY", "FORGED_RETURN", "STACKING", "VECTOR", "PULSE", "WFI",
   "SLEEPONEXIT", "LEVEL", "PRIMASK"}
=============================================================================
