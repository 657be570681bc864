-------------------------------- MODULE Debug -------------------------------
(***************************************************************************)
(* Halting, stepping and monitoring (cortex_m4/debug.c, the step of core.c).   *)
(* A debug event halts a core whose debugger is attached, pends DebugMonitor     *)
(* otherwise, and HardFault when the monitor cannot take it.  Which pending       *)
(* exception is taken is the exception model's; here any may be.                   *)
(***************************************************************************)
EXTENDS Naturals

CONSTANTS
  DebugControls,  \* what is written to the control bits of DHCSR
  DebugDemcrs,    \* what is written to DEMCR
  DwtWidth,       \* the values the cycle counter takes
  DwtTargets,     \* the values written to comparator 0
  DwtSteps        \* the cycles one instruction takes

VARIABLES
  dbg,            \* the debug unit and what it touches of the core
  dwt,            \* the cycle counter, its comparator and the match flag
  dbgRan,         \* observer: the instructions retired since DHCSR was written, up to two
  dbgHost         \* observer: a breakpoint of the host stopped the core

debugVars == <<dbg, dwt, dbgRan, dbgHost>>

Debuggers == {"debugen", "halt", "step"}
DemcrBits == {"trace", "monen", "monpend", "monstep", "monreq", "catch"}

(* No two instructions take the cycle counter once round. *)
ASSUME DebugAssumption ==
  /\ DebugControls \subseteq SUBSET Debuggers /\ DebugDemcrs \subseteq SUBSET DemcrBits
  /\ DwtWidth \in Nat /\ DwtTargets \subseteq 0..DwtWidth - 1 /\ DwtSteps \subseteq Nat
  /\ 0 < DwtWidth /\ \A a, b \in DwtSteps : a + b < DwtWidth

Causes == {"halted", "event", "external"}
Handlers == {"thread", "monitor", "hardfault"}

DebugReset0 ==
  [control |-> {}, halted |-> FALSE, armed |-> FALSE, demcr |-> {}, dfsr |-> {},
   pending |-> {}, sleeping |-> FALSE, handler |-> "thread", stop |-> FALSE]

DwtReset0 == [count |-> 0, on |-> FALSE, target |-> 0, armed |-> FALSE, matched |-> FALSE]

DebugInit ==
  /\ dbg = DebugReset0
  /\ dwt = DwtReset0
  /\ dbgRan = 0
  /\ dbgHost = FALSE

-----------------------------------------------------------------------------
(* Debug events *)

Pended(d, e) ==
  [d EXCEPT !.pending = @ \cup {e}, !.sleeping = FALSE,
            !.demcr = IF e = "monitor" THEN @ \cup {"monpend"} ELSE @]

(* debug_event *)
Event(d, cause) ==
  LET told == [d EXCEPT !.dfsr = @ \cup {cause}]
  IN  IF "debugen" \in d.control
      THEN [told EXCEPT !.halted = TRUE, !.armed = FALSE, !.sleeping = FALSE]
      ELSE Pended(told, IF "monen" \in d.demcr /\ d.handler # "monitor" THEN "monitor" ELSE "hardfault")

EventIf(happens, d, cause) == IF happens THEN Event(d, cause) ELSE d

(* cortex_m4_debug_exception *)
Caught(d) == EventIf("catch" \in d.demcr, d, "event")

(* cortex_m4_debug_instruction_retired *)
Retired(d) ==
  IF d.armed THEN [d EXCEPT !.armed = FALSE, !.halted = TRUE, !.dfsr = @ \cup {"halted"}]
  ELSE EventIf({"monen", "monstep"} \subseteq d.demcr, d, "halted")

Allowed(d) == ~d.halted \/ d.armed

-----------------------------------------------------------------------------
(* The cycle counter *)

(* cycle_match: the sum has wrapped when it is below where it started. *)
Matched(before, cycles, target) ==
  LET after == (before + cycles) % DwtWidth
  IN  IF after >= before THEN target > before /\ target <= after
      ELSE target > before \/ target <= after

Counting(w, d) == w.on /\ "trace" \in d.demcr
DwtMatches(w, d, cycles) == Counting(w, d) /\ w.armed /\ Matched(w.count, cycles, w.target)

DwtCounted(w, d, cycles) ==
  [w EXCEPT !.count = IF Counting(w, d) THEN (@ + cycles) % DwtWidth ELSE @,
            !.matched = @ \/ DwtMatches(w, d, cycles)]

-----------------------------------------------------------------------------
(* The steps of the core *)

(* What may be taken: DebugMonitor in a thread, HardFault in all but itself. *)
Takes(d, e) ==
  \/ e = "none"
  \/ e \in d.pending /\ (e = "monitor" => d.handler = "thread") /\ d.handler # "hardfault"

(* enter_exception asks for a vector catch before the new exception number is in
   xPSR; taking the exception leaves MON_PEND as it is. *)
EventTaken(d, e) ==
  IF e = "none" THEN d
  ELSE [Caught(d) EXCEPT !.pending = @ \ {e}, !.handler = e, !.sleeping = FALSE]

(* An instruction: its address may match a comparator, it may be a BKPT or match
   as a data access, it retires, its cycles pass, and a halted core stops. *)
Instruction(d, kind, cycles) ==
  LET fetched  == EventIf(kind = "matched" /\ "trace" \in d.demcr, d, "event")
      executed == EventIf(kind = "bkpt", fetched, "event")
      retired  == Retired(executed)
      counted  == EventIf(DwtMatches(dwt, retired, cycles), retired, "event")
      waited   == IF kind = "wfi" /\ counted.pending = {} THEN [counted EXCEPT !.sleeping = TRUE] ELSE counted
      returned == IF kind = "return" THEN [waited EXCEPT !.handler = "thread"] ELSE waited
  IN  [returned EXCEPT !.stop = ~Allowed(returned)]

(* cortex_m4_step of a core that may run: an exception is taken, whether or not it
   is caught, and an instruction runs in the same step, unless the core sleeps. *)
Step(e, kind, cycles) ==
  LET d == EventTaken(dbg, e)
  IN  /\ ~dbg.stop /\ Allowed(dbg)
      /\ Takes(dbg, e)
      /\ ~d.sleeping
      /\ dbg' = Instruction(d, kind, cycles)
      /\ dwt' = DwtCounted(dwt, d, cycles)
      /\ dbgRan' = IF dbgRan = 2 THEN 2 ELSE dbgRan + 1
      /\ UNCHANGED dbgHost

Sleep(cycles) ==
  /\ ~dbg.stop /\ Allowed(dbg) /\ dbg.sleeping
  /\ dbg' = EventIf(DwtMatches(dwt, dbg, cycles), dbg, "event")
  /\ dwt' = DwtCounted(dwt, dbg, cycles)
  /\ UNCHANGED <<dbgRan, dbgHost>>

(* A halted core stops its run when it is stepped. *)
StepRefused ==
  /\ ~dbg.stop /\ ~Allowed(dbg)
  /\ dbg' = [dbg EXCEPT !.stop = TRUE]
  /\ UNCHANGED <<dwt, dbgRan, dbgHost>>

(* A breakpoint of the host stops the run before the instruction. *)
HostBreakpoint ==
  /\ ~dbg.stop /\ Allowed(dbg) /\ ~dbg.sleeping
  /\ dbg' = [dbg EXCEPT !.stop = TRUE]
  /\ dbgHost' = TRUE
  /\ UNCHANGED <<dwt, dbgRan>>

(* cortex_m4_set_breakpoint lets a stopped run go on. *)
HostResumes ==
  /\ dbg.stop
  /\ dbg' = [dbg EXCEPT !.stop = FALSE]
  /\ dbgHost' = FALSE
  /\ UNCHANGED <<dwt, dbgRan>>

Interrupted ==
  /\ dbg.sleeping
  /\ dbg' = [dbg EXCEPT !.sleeping = FALSE]
  /\ UNCHANGED <<dwt, dbgRan, dbgHost>>

-----------------------------------------------------------------------------
(* Registers, written by the debugger or by the program *)

ResumedRunning(d) ==  \* mutant: a step request leaves the run stopped
  IF ~d.halted /\ ~d.armed THEN [d EXCEPT !.stop = FALSE] ELSE d

Resumed(d) == IF ~d.halted THEN [d EXCEPT !.stop = FALSE] ELSE d

(* DHCSR, with its key: a step armed and not taken stays armed when the core is let run. *)
Controlled(d, control) ==
  CASE "debugen" \notin control -> [d EXCEPT !.control = control, !.halted = FALSE, !.armed = FALSE]
    [] {"debugen", "halt"} \subseteq control ->
         [d EXCEPT !.control = control, !.halted = TRUE, !.armed = FALSE]
    [] control = {"debugen", "step"} -> [d EXCEPT !.control = control, !.halted = FALSE, !.armed = TRUE]
    [] OTHER -> [d EXCEPT !.control = control, !.halted = FALSE]

WriteDhcsr(control) ==
  /\ dbg' = Resumed(Controlled(dbg, control))
  /\ dbgRan' = 0
  /\ dbgHost' = (dbgHost /\ dbg'.stop)
  /\ UNCHANGED dwt

(* DEMCR: MON_PEND pends the monitor or takes it back, MON_REQ is a debug event. *)
WriteDemcr(demcr) ==
  LET written == [dbg EXCEPT !.demcr = demcr]
      pended  == IF "monpend" \in demcr THEN Pended(written, "monitor")
                 ELSE [written EXCEPT !.pending = @ \ {"monitor"}]
  IN  /\ dbg' = EventIf("monreq" \in demcr, pended, "external")
      /\ UNCHANGED <<dwt, dbgRan, dbgHost>>

ClearDfsr ==
  /\ dbg' = [dbg EXCEPT !.dfsr = {}]
  /\ UNCHANGED <<dwt, dbgRan, dbgHost>>

WriteDwt(on, count, target, armed) ==
  /\ dwt' = [count |-> count, on |-> on, target |-> target, armed |-> armed, matched |-> FALSE]
  /\ UNCHANGED <<dbg, dbgRan, dbgHost>>

(* FUNCTION0 tells of a match once. *)
ReadMatched ==
  /\ dwt' = [dwt EXCEPT !.matched = FALSE]
  /\ UNCHANGED <<dbg, dbgRan, dbgHost>>

DebugReset ==
  /\ dbg' = DebugReset0
  /\ dwt' = DwtReset0
  /\ dbgRan' = 0
  /\ dbgHost' = FALSE

Kinds0 == {"plain", "matched", "bkpt", "wfi", "return"}

DebugNext ==
  \/ \E e \in {"none", "monitor", "hardfault"}, kind \in Kinds0, cycles \in DwtSteps : Step(e, kind, cycles)
  \/ \E cycles \in DwtSteps : Sleep(cycles)
  \/ StepRefused
  \/ HostBreakpoint
  \/ HostResumes
  \/ Interrupted
  \/ \E control \in DebugControls : WriteDhcsr(control)
  \/ \E demcr \in DebugDemcrs : WriteDemcr(demcr)
  \/ ClearDfsr
  \/ \E on, armed \in BOOLEAN, target \in DwtTargets : WriteDwt(on, 0, target, armed)
  \/ ReadMatched
  \/ DebugReset

DebugSpec == DebugInit /\ [][DebugNext]_debugVars

-----------------------------------------------------------------------------
(* Properties *)

(* Everything keeps its type, and a core is never halted and armed at once. *)
DebugTypeOK ==
  /\ dbg.control \subseteq Debuggers /\ dbg.demcr \subseteq DemcrBits /\ dbg.dfsr \subseteq Causes
  /\ dbg.pending \subseteq Handlers \ {"thread"} /\ dbg.handler \in Handlers
  /\ {dbg.halted, dbg.armed, dbg.sleeping, dbg.stop, dwt.on, dwt.armed, dwt.matched} \subseteq BOOLEAN
  /\ dwt.count \in 0..DwtWidth - 1
  /\ ~(dbg.halted /\ dbg.armed)

(* Only an attached debugger holds the core: without C_DEBUGEN it is neither
   halted nor armed, however it was before (DHCSR, debug_event, the retirement). *)
HaltNeedsDebugger == dbg.halted \/ dbg.armed => "debugen" \in dbg.control

(* A step the debugger asks for retires one instruction at most until DHCSR is
   written again, through sleep, exceptions taken, breakpoints and matches, and a
   halt it asks for none (cortex_m4_step, cortex_m4_debug_instruction_retired). *)
StepRunsOne ==
  /\ {"debugen", "step"} \subseteq dbg.control => dbgRan <= 1
  /\ {"debugen", "halt"} \subseteq dbg.control => dbgRan = 0

(* A pending DebugMonitor shows in DEMCR, so that a program that writes DEMCR back
   does not lose it (debug_event, the write of DEMCR). *)
PendingShows == "monitor" \in dbg.pending => "monpend" \in dbg.demcr

(* A run that stays stopped has a reason: the core is halted, or a breakpoint of the
   host stopped it (the write of DHCSR, cortex_m4_step). *)
StopsExplained == dbg.stop => dbg.halted \/ dbgHost

(* How the cycles are cut into batches does not show in a match, also where the
   counter wraps (cycle_match). *)
DwtSplits ==
  \A a, b \in DwtSteps :
    Matched(dwt.count, a + b, dwt.target) =
      (Matched(dwt.count, a, dwt.target) \/ Matched((dwt.count + a) % DwtWidth, b, dwt.target))

(* Only an attached debugger holds the core, a step of it retires one instruction, a
   stop has a reason, a pending DebugMonitor shows, and a match of the cycle counter
   does not depend on the batches (debug.c, core.c). *)
DebugHonest ==
  HaltNeedsDebugger /\ StepRunsOne /\ PendingShows /\ StopsExplained /\ DwtSplits
=============================================================================
