-------------------------------- MODULE Nvic --------------------------------
(***************************************************************************)
(* The state and the priority rules of the nested vectored interrupt       *)
(* controller: src/architecture/cortex_m4/system.c.  The module has no     *)
(* next-state relation of its own.  Exceptions extends it with the core    *)
(* that takes the exceptions and with the software that writes the         *)
(* registers.                                                              *)
(*                                                                         *)
(* An exception is its architectural number, the value IPSR holds while    *)
(* its handler runs; an external interrupt n is the exception n + 16.      *)
(***************************************************************************)
EXTENDS Integers, FiniteSets

CONSTANTS
  Irqs,            \* external interrupts the device wires, by exception number
  Configurable,    \* system exceptions with a priority register, those in use
  PriorityBits,    \* priority bits implemented (cortex_m4_configure_implementation)
  PriorityValues,  \* logical priorities the firmware writes
  GroupValues,     \* AIRCR.PRIGROUP values the firmware writes
  BasepriValues    \* logical values the firmware writes to BASEPRI

NMI == 2
HardFault == 3
MemManage == 4
BusFault == 5
UsageFault == 6
SVCall == 11
PendSV == 14
SysTick == 15

SystemExceptions == {NMI, HardFault} \cup Configurable
Exceptions == SystemExceptions \cup Irqs
Faults == Configurable \cap {MemManage, BusFault, UsageFault}
None == 0          \* thread mode, and the absence of a candidate

ASSUME IrqsAssumption == Irqs \subseteq {e \in Nat : e >= 16}
ASSUME IrqsFinite == IsFiniteSet(Irqs)
ASSUME ConfigurableAssumption == Configurable \subseteq {4, 5, 6, 11, 12, 14, 15}
ASSUME PriorityAssumption ==
  /\ PriorityBits \in 4..8
  /\ PriorityValues \subseteq Nat
  /\ GroupValues \subseteq 0..7
  /\ BasepriValues \subseteq Nat

VARIABLES
  pending,         \* system_pending and irq_pending
  enabled,         \* irq_enabled
  level,           \* irq_level: request lines the peripherals hold asserted
  irq_active,      \* irq_active
  fault_enabled,   \* shcsr: the faults that have a handler of their own
  priority,        \* system_priority and irq_priority, as logical values
  prigroup,        \* aircr PRIGROUP
  primask, faultmask, basepri,
  scr,             \* scr: the set of SLEEPONEXIT and SEVONPEND bits
  sleeping, event_register

pendVars == <<pending, enabled, level, irq_active>>
configVars == <<fault_enabled, priority, prigroup, scr>>
maskVars == <<primask, faultmask, basepri>>
sleepVars == <<sleeping, event_register>>
nvicVars == <<pendVars, configVars, maskVars, sleepVars>>

NvicTypeOK ==
  /\ pending \subseteq Exceptions
  /\ enabled \subseteq Irqs
  /\ level \subseteq Irqs
  /\ irq_active \subseteq Irqs
  /\ fault_enabled \subseteq Faults
  /\ priority \in [Configurable \cup Irqs -> Nat]
  /\ prigroup \in 0..7
  /\ primask \in BOOLEAN
  /\ faultmask \in BOOLEAN
  /\ basepri \in Nat
  /\ scr \subseteq {"SLEEPONEXIT", "SEVONPEND"}
  /\ sleeping \in BOOLEAN
  /\ event_register \in BOOLEAN

(* cortex_m4_system_reset: every register at its reset value. *)
NvicInit ==
  /\ pending = {}
  /\ enabled = {}
  /\ level = {}
  /\ irq_active = {}
  /\ fault_enabled = {}
  /\ priority = [e \in Configurable \cup Irqs |-> 0]
  /\ prigroup = 0
  /\ primask = FALSE
  /\ faultmask = FALSE
  /\ basepri = 0
  /\ scr = {}
  /\ sleeping = FALSE
  /\ event_register = FALSE

NvicReset ==
  /\ pending' = {}
  /\ enabled' = {}
  /\ level' = {}
  /\ irq_active' = {}
  /\ fault_enabled' = {}
  /\ priority' = [e \in Configurable \cup Irqs |-> 0]
  /\ prigroup' = 0
  /\ primask' = FALSE
  /\ faultmask' = FALSE
  /\ basepri' = 0
  /\ scr' = {}
  /\ sleeping' = FALSE
  /\ event_register' = FALSE

-----------------------------------------------------------------------------
(* Priorities *)

(* cortex_m4_system_priority: PRIGROUP leaves 7 - group bits for preemption,
   the implemented bits that remain are the subpriority.  The value is the
   number of subpriorities, 2 to the subpriority bits.  BASEPRI keeps four
   bits whatever the implementation has, so fewer than four are left out. *)
Subpriorities ==
  LET preemption_bits == IF PriorityBits < 7 - prigroup THEN PriorityBits
                                                        ELSE 7 - prigroup
  IN  <<1, 2, 4, 8, 16, 32, 64, 128, 256>>[PriorityBits - preemption_bits + 1]

Group(value) == value \div Subpriorities
Subpriority(e) == IF e \in {NMI, HardFault} THEN 0
                  ELSE priority[e] % Subpriorities

(* exception_preemption: NMI and HardFault are above every programmed level. *)
Preemption(e) == IF e = NMI THEN -2
                 ELSE IF e = HardFault THEN -1
                 ELSE Group(priority[e])

(* cortex_m4_system_exception_masked *)
Masked(e) ==
  /\ e # NMI
  /\ \/ faultmask
     \/ /\ e # HardFault
        /\ \/ primask
           \/ basepri # 0 /\ Preemption(e) >= Group(basepri)

(* cortex_m4_system_exception_can_preempt *)
CanPreemptEqual(e, current) ==  \* mutant: an equal level preempts
  ~Masked(e) /\ (current = None \/ Preemption(e) <= Preemption(current))

CanPreempt(e, current) ==
  /\ ~Masked(e)
  /\ \/ current = None
     \/ Preemption(e) < Preemption(current)

(* cortex_m4_system_exception_before: preemption level, then subpriority,
   then the lower exception number. *)
Before(e, f) ==
  \/ Preemption(e) < Preemption(f)
  \/ /\ Preemption(e) = Preemption(f)
     /\ \/ Subpriority(e) < Subpriority(f)
        \/ Subpriority(e) = Subpriority(f) /\ e < f

MostUrgent(e, S) == e \in S /\ \A f \in S \ {e} : Before(e, f)

-----------------------------------------------------------------------------
(* Pending state *)

(* exception_pending: an external interrupt counts only while it is enabled. *)
Deliverable == {e \in pending : e \in Irqs => e \in enabled}

(* wakeup_pending, of a given set of pending and of enabled interrupts:
   neither the masks nor the priorities matter for waking up. *)
WakeupPending(p, en) == \E e \in p : e \in Irqs => e \in en

(* cortex_m4_system_set_pending(cpu, e, true) for every e in S: it also sets
   the event register when SEVONPEND is set and e was not pending, and wakes
   the core when something it may be woken by is pending. *)
SetPendingOnEvent(S) ==  \* mutant: only SEVONPEND wakes the core
  /\ pending' = pending \cup S
  /\ event_register' = (event_register \/ ("SEVONPEND" \in scr /\ ~(S \subseteq pending)))
  /\ sleeping' = (sleeping /\ ~("SEVONPEND" \in scr /\ ~(S \subseteq pending)))

SetPending(S) ==
  /\ pending' = pending \cup S
  /\ event_register' = (event_register \/ ("SEVONPEND" \in scr /\ ~(S \subseteq pending)))
  /\ sleeping' = (sleeping /\ ~(S # {} /\ WakeupPending(pending \cup S, enabled)))

(* cortex_m4_system_set_pending(cpu, e, false) for every e in S. *)
ClearPending(S) ==
  /\ pending' = pending \ S
  /\ UNCHANGED sleepVars

(* cortex_m4_system_wait_for_interrupt on a given pending state. *)
WaitForInterrupt(p) == sleeping' = ~WakeupPending(p, enabled)
=============================================================================
