------------------------------- MODULE Guards -------------------------------
(***************************************************************************)
(* What an access passes on its way: the protection unit of the core, that  *)
(* of the system, the bridge and the clock gate of a peripheral. Each keeps  *)
(* registers of its own and is asked by itself, so they step one at a time.  *)
(***************************************************************************)
EXTENDS Mpu, SysMpu, ClockGates

guardsVars == <<mpuVars, sysVars, gatesVars>>

GuardsInit == MpuInit /\ SysInit /\ GatesInit

GuardsNext ==
  \/ MpuNext /\ UNCHANGED <<sysVars, gatesVars>>
  \/ SysNext /\ UNCHANGED <<mpuVars, gatesVars>>
  \/ GatesNext /\ UNCHANGED <<mpuVars, sysVars>>

GuardsSpec == GuardsInit /\ [][GuardsNext]_guardsVars

-----------------------------------------------------------------------------
(* Properties *)

(* No access gets past its guards: a user reaches only what the regions of the core's
   protection unit grant, an access of any master only what the system's unit grants at
   both its ends, and a peripheral only with its clock on and its bridge open; a
   refusal is on record, and the fault handlers are not refused
   (mpu.c, gpio/peripherals.c, platform/peripherals.c). *)
AccessesConfined ==
  /\ [](UserConfined /\ CopiesAgree /\ GatesFollow /\ ReachIsClocked)
  /\ [][HardFaultReaches]_mpuVars
  /\ [][PassedIsAllowed /\ RefusalsTold]_sysVars
  /\ [][BridgeHolds]_gatesVars
=============================================================================
