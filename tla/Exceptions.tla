----------------------------- MODULE Exceptions -----------------------------
(***************************************************************************)
(* The exception model of the core: src/architecture/cortex_m4/exceptions/ *)
(* base.c and advanced.c, the frames of system.c and the step of core.c.   *)
(*                                                                         *)
(* cortex_m4_step is three actions, so that the callbacks it makes can be  *)
(* interleaved with it.  At a "boundary" the core selects a pending        *)
(* exception and stacks a frame (TakePending); the bus writes of that      *)
(* stacking may pend other interrupts; CommitEntry then chooses again      *)
(* (late arrival), fetches the vector and enters the handler.  In          *)
(* "execute" one instruction runs, or the core sleeps for a cycle.         *)
(* SetIrq and SetIrqLevel are the calls of the host and of the peripherals *)
(* and may happen between any two actions.                                 *)
(*                                                                         *)
(* The bus is the environment: whether a frame can be written or read and  *)
(* whether a vector is valid is chosen freely where Features allows it,    *)
(* and a frame read back may hold any xPSR, for it lies in memory the      *)
(* firmware can write.                                                     *)
(***************************************************************************)
EXTENDS Nvic

CONSTANTS
  FrameLimit,      \* CORTEX_M4_EXCEPTION_FRAME_LIMIT
  Features         \* what firmware, bus and host of this instance make use of

ASSUME FrameLimitAssumption == FrameLimit \in Nat \ {0}

VARIABLES
  active, depth,        \* active_exceptions, exception_depth
  frames, frame_depth,  \* exception_frames' return_value, exception_frame_depth
  ipsr,                 \* the exception number in xpsr
  spsel,                \* CONTROL.SPSEL
  nonbase,              \* CCR.NONBASETHRDENA
  phase,                \* where in cortex_m4_step the core is
  entering,             \* the exception whose frame is stacked, or None
  instruction_faulted,
  stop                  \* stop

stackVars == <<active, depth, frames, frame_depth, ipsr, spsel>>
stepVars == <<phase, entering, instruction_faulted, stop>>
vars == <<nvicVars, stackVars, nonbase, stepVars>>

Slots == 1..FrameLimit

(* The EXC_RETURN values, without their floating-point bit: a return to a
   handler, to thread mode on MSP, to thread mode on PSP. *)
FrameKinds == {"handler", "msp", "psp"}

TypeOK ==
  /\ NvicTypeOK
  /\ active \in [Slots -> Exceptions \cup {None}]
  /\ depth \in 0..FrameLimit
  /\ frames \in [Slots -> FrameKinds \cup {"none"}]
  /\ frame_depth \in 0..FrameLimit
  /\ ipsr \in Exceptions \cup {None}
  /\ spsel \in BOOLEAN
  /\ nonbase \in BOOLEAN
  /\ phase \in {"boundary", "entering", "execute"}
  /\ entering \in Exceptions \cup {None}
  /\ instruction_faulted \in BOOLEAN
  /\ stop \in {"running", "lockup", "breakpoint", "reset_fault"}

CoreInit ==
  /\ active = [s \in Slots |-> None]
  /\ depth = 0
  /\ frames = [s \in Slots |-> "none"]
  /\ frame_depth = 0
  /\ ipsr = None
  /\ spsel = FALSE
  /\ nonbase = FALSE
  /\ phase = "boundary"
  /\ entering = None
  /\ instruction_faulted = FALSE

CoreReset ==
  /\ active' = [s \in Slots |-> None]
  /\ depth' = 0
  /\ frames' = [s \in Slots |-> "none"]
  /\ frame_depth' = 0
  /\ ipsr' = None
  /\ spsel' = FALSE
  /\ nonbase' = FALSE
  /\ entering' = None
  /\ instruction_faulted' = FALSE

Init == NvicInit /\ CoreInit /\ stop = "running"

(* cortex_m4_exception_advanced_active *)
Active == {active[s] : s \in 1..depth}

-----------------------------------------------------------------------------
(* Faults *)

(* cortex_m4_raise_fault.  A fault inside NMI or HardFault locks the core
   up; one that has no enabled handler, or whose handler cannot preempt, is
   escalated to HardFault, whether or not HardFault can preempt.  Callers
   leave the rest of the NVIC state as it was. *)
RaiseFaultMasked(fault) ==  \* mutant: FAULTMASK counts as HardFault
  /\ instruction_faulted' = TRUE
  /\ IF ipsr \in {NMI, HardFault} \/ faultmask
     THEN stop' = "lockup" /\ UNCHANGED <<pending, sleepVars>>
     ELSE /\ pending' = pending \cup {HardFault}
          /\ event_register' = TRUE
          /\ sleeping' = FALSE
          /\ UNCHANGED stop
  /\ UNCHANGED <<enabled, level, irq_active, configVars, maskVars>>

RaiseFault(fault) ==
  /\ instruction_faulted' = TRUE
  /\ IF ipsr \in {NMI, HardFault}
     THEN stop' = "lockup" /\ UNCHANGED <<pending, sleepVars>>
     ELSE /\ pending' = pending \cup
               (IF fault \in fault_enabled /\ CanPreempt(fault, ipsr)
                THEN {fault} ELSE {HardFault})
          /\ event_register' = TRUE
          /\ sleeping' = FALSE
          /\ UNCHANGED stop
  /\ UNCHANGED <<enabled, level, irq_active, configVars, maskVars>>

(* cortex_m4_exception_advanced_entry_fault: the frame of e was not stacked.
   instruction_faulted is FALSE, as the step left it, unless raise_fault runs. *)
EntryFault(e, fault) ==
  IF e \in {NMI, HardFault}
  THEN /\ stop' = "lockup"
       /\ instruction_faulted' = FALSE
       /\ UNCHANGED nvicVars
  ELSE IF e = fault
  THEN /\ SetPending({HardFault})
       /\ instruction_faulted' = FALSE
       /\ UNCHANGED <<enabled, level, irq_active, configVars, maskVars, stop>>
  ELSE RaiseFault(fault)

-----------------------------------------------------------------------------
(* Entry *)

BoundaryAwake == phase = "boundary" /\ stop = "running" /\ ~sleeping  \* mutant
Boundary == phase = "boundary" /\ stop = "running"

(* cortex_m4_take_pending_exception: what is deliverable and preempts the
   running context.  It does not look whether the exception is active. *)
Candidates == {e \in Deliverable : CanPreempt(e, ipsr)}

(* cortex_m4_step clears instruction_faulted before it selects. *)
NothingPendingInHandler ==  \* mutant: exceptions are only taken in thread mode
  /\ Boundary
  /\ Candidates = {} \/ ipsr # None
  /\ phase' = "execute"
  /\ instruction_faulted' = FALSE
  /\ UNCHANGED <<nvicVars, stackVars, nonbase, entering, stop>>

NothingPending ==
  /\ Boundary
  /\ Candidates = {}
  /\ phase' = "execute"
  /\ instruction_faulted' = FALSE
  /\ UNCHANGED <<nvicVars, stackVars, nonbase, entering, stop>>

RoomForFrameOffByOne == frame_depth <= FrameLimit  \* mutant
RoomForFrame == frame_depth < FrameLimit

(* The kind of return the frame of the running context serves. *)
FrameKindByStack ==  \* mutant: the stack in use decides, as in thread mode
  IF spsel THEN "psp" ELSE IF ipsr # None THEN "handler" ELSE "msp"
FrameKind == IF ipsr # None THEN "handler" ELSE IF spsel THEN "psp" ELSE "msp"

(* enter_exception up to the frame, cortex_m4_system_stack_exception_frame. *)
TakePending ==
  /\ Boundary
  /\ RoomForFrame
  /\ \E e \in Candidates : MostUrgent(e, Candidates) /\ entering' = e
  /\ frames' = [frames EXCEPT ![frame_depth + 1] = FrameKind]
  /\ frame_depth' = frame_depth + 1
  /\ phase' = "entering"
  /\ instruction_faulted' = FALSE
  /\ UNCHANGED <<nvicVars, active, depth, ipsr, spsel, nonbase, stop>>

(* The frame cannot be written, or there is no slot left for it.  The step
   goes on to execute an instruction of the interrupted context. *)
StackingFails ==
  /\ Boundary
  /\ "STACKING" \in Features \/ ~RoomForFrame
  /\ \E e \in Candidates, fault \in {MemManage, BusFault} :
       MostUrgent(e, Candidates) /\ EntryFault(e, fault)
  /\ phase' = "execute"
  /\ UNCHANGED <<stackVars, nonbase, entering>>

(* selected_pending: like the candidates, but an exception that is active is
   left out unless it is the one that is returning. *)
SelectedPendingUnmasked(target, returning) ==  \* mutant: urgency is not compared
  {e \in Deliverable : ~Masked(e) /\ (e \in Active => e = returning)}

SelectedPending(target, returning) ==
  {e \in Deliverable : /\ CanPreempt(e, target)
                       /\ e \in Active => e = returning}

(* cortex_m4_exception_advanced_late_arrival: x is entered in place of e. *)
NoLateArrival(e, x) == x = e  \* mutant

LateArrival(e, x) ==
  LET late == SelectedPending(e, None)
  IN  \/ MostUrgent(x, late) /\ Before(x, e)
      \/ x = e /\ \A f \in late : ~Before(f, e)

(* The part enter_exception and cortex_m4_exception_advanced_tail_chain have
   in common once the vector is known: the slot of the stack gets the handler
   x, which stops being pending.  p is what is pending at that point. *)
ActivateAndForget(x, slot, p, still_active) ==  \* mutant: the overtaken one is cleared too
  /\ active' = [active EXCEPT ![slot] = x]
  /\ pending' = p \ {x, entering}
  /\ irq_active' = still_active \cup ({x} \cap Irqs)
  /\ ipsr' = x
  /\ sleeping' = FALSE

Activate(x, slot, p, still_active) ==
  /\ active' = [active EXCEPT ![slot] = x]
  /\ pending' = p \ {x}
  /\ irq_active' = still_active \cup ({x} \cap Irqs)
  /\ ipsr' = x
  /\ sleeping' = FALSE

(* cortex_m4_exception_advanced_commit_entry: no slot left is a lockup. *)
Enter(x, p) ==
  IF depth < FrameLimit
  THEN /\ Activate(x, depth + 1, p, irq_active)
       /\ depth' = depth + 1
       /\ UNCHANGED stop
  ELSE /\ ipsr' = x
       /\ sleeping' = FALSE
       /\ stop' = "lockup"
       /\ pending' = p
       /\ UNCHANGED <<active, depth, irq_active>>

EventOnPend(e) == event_register \/ ("SEVONPEND" \in scr /\ e \notin pending)

CommitEntry ==
  /\ phase = "entering"
  /\ \E x \in Exceptions : LateArrival(entering, x) /\ Enter(x, pending)
  /\ phase' = "execute"
  /\ entering' = None
  /\ UNCHANGED <<enabled, level, configVars, maskVars, event_register>>
  /\ UNCHANGED <<frames, frame_depth, spsel, nonbase, instruction_faulted>>

(* The vector cannot be read or is not a Thumb address:
   cortex_m4_exception_advanced_vector_fault pends HardFault, whose handler
   is entered instead through the frame that is already there ... *)
EntryVectorFault ==
  /\ phase = "entering"
  /\ "VECTOR" \in Features
  /\ ipsr \notin {NMI, HardFault}
  /\ \E x \in Exceptions \ {HardFault} : LateArrival(entering, x)
  /\ Enter(HardFault, pending \cup {HardFault})
  /\ event_register' = EventOnPend(HardFault)
  /\ phase' = "execute"
  /\ entering' = None
  /\ UNCHANGED <<enabled, level, configVars, maskVars>>
  /\ UNCHANGED <<frames, frame_depth, spsel, nonbase, instruction_faulted>>

(* ... unless the core was already in NMI or HardFault, or the vector of
   HardFault is no better: cortex_m4_exception_advanced_hardfault_vector.
   The frame stays on the stack. *)
EntryVectorLockup ==
  /\ phase = "entering"
  /\ "VECTOR" \in Features
  /\ IF ipsr \in {NMI, HardFault}
     THEN UNCHANGED <<pending, sleepVars>>
     ELSE SetPending({HardFault})
  /\ stop' = "lockup"
  /\ phase' = "execute"
  /\ entering' = None
  /\ UNCHANGED <<enabled, level, irq_active, configVars, maskVars>>
  /\ UNCHANGED <<stackVars, nonbase, instruction_faulted>>

-----------------------------------------------------------------------------
(* Instructions.  One runs, in the step that entered its handler or in a step
   of its own; the step does not look at stop again before it. *)

Executing == phase = "execute" /\ ~sleeping

InstructionEnds == phase' = "boundary" /\ UNCHANGED entering

(* The frame condition of an instruction that only writes the NVIC. *)
CoreUnchanged ==
  /\ Executing
  /\ InstructionEnds
  /\ UNCHANGED <<stackVars, nonbase, instruction_faulted, stop>>

SleepCycle ==
  /\ phase = "execute"
  /\ sleeping
  /\ InstructionEnds
  /\ UNCHANGED <<nvicVars, stackVars, nonbase, instruction_faulted, stop>>

(* Any instruction that changes nothing of this model. *)
OtherInstruction == CoreUnchanged /\ UNCHANGED nvicVars

(* A fetch, a data access or an instruction that faults. *)
FaultingInstruction ==
  /\ Executing
  /\ "FAULT" \in Features
  /\ \E fault \in {MemManage, BusFault, UsageFault} : RaiseFault(fault)
  /\ InstructionEnds
  /\ UNCHANGED <<stackVars, nonbase>>

(* The last lines of cortex_m4_step: an undefined instruction is a usage
   fault unless something of this step already faulted. *)
UndefinedInstruction ==
  /\ Executing
  /\ "UNDEFINED" \in Features
  /\ IF ~instruction_faulted /\ stop = "running"
     THEN RaiseFault(UsageFault)
     ELSE UNCHANGED <<nvicVars, instruction_faulted, stop>>
  /\ InstructionEnds
  /\ UNCHANGED <<stackVars, nonbase>>

(* A breakpoint address is compared before the fetch; it overwrites stop. *)
Breakpoint ==
  /\ Executing
  /\ "BREAKPOINT" \in Features
  /\ stop' = "breakpoint"
  /\ InstructionEnds
  /\ UNCHANGED <<nvicVars, stackVars, nonbase, instruction_faulted>>

Svc ==
  /\ CoreUnchanged
  /\ SVCall \in Configurable
  /\ pending' = pending \cup {SVCall}
  /\ UNCHANGED <<enabled, level, irq_active, configVars, maskVars, sleepVars>>

Wfi ==
  /\ CoreUnchanged
  /\ "WFI" \in Features
  /\ WaitForInterrupt(pending)
  /\ UNCHANGED <<pendVars, configVars, maskVars, event_register>>

(* WFE sleeps when the event register is clear, and always clears it. *)
Wfe ==
  /\ CoreUnchanged
  /\ "WFE" \in Features
  /\ sleeping' = ~event_register
  /\ event_register' = FALSE
  /\ UNCHANGED <<pendVars, configVars, maskVars>>

Sev ==
  /\ CoreUnchanged
  /\ "WFE" \in Features
  /\ event_register' = TRUE
  /\ UNCHANGED <<pendVars, configVars, maskVars, sleeping>>

(* CPS and MSR to PRIMASK, FAULTMASK and BASEPRI, by privileged software. *)
WriteMask ==
  /\ CoreUnchanged
  /\ \/ /\ primask' \in IF "PRIMASK" \in Features THEN BOOLEAN ELSE {primask}
        /\ faultmask' \in IF "FAULTMASK" \in Features THEN BOOLEAN ELSE {faultmask}
        /\ UNCHANGED basepri
     \/ /\ basepri' \in BasepriValues
        /\ UNCHANGED <<primask, faultmask>>
  /\ UNCHANGED <<pendVars, configVars, sleepVars>>

(* MSR to BASEPRI_MAX only ever raises the mask. *)
WriteBasepriMax ==
  /\ CoreUnchanged
  /\ \E value \in BasepriValues \ {0} :
       basepri' = IF basepri = 0 \/ value < basepri THEN value ELSE basepri
  /\ UNCHANGED <<pendVars, configVars, primask, faultmask, sleepVars>>

(* MSR to CONTROL, and a store to CCR. *)
WriteControl ==
  /\ Executing
  /\ \/ "SPSEL" \in Features /\ spsel' \in BOOLEAN /\ UNCHANGED nonbase
     \/ "NONBASE" \in Features /\ nonbase' \in BOOLEAN /\ UNCHANGED spsel
  /\ InstructionEnds
  /\ UNCHANGED <<nvicVars, active, depth, frames, frame_depth, ipsr>>
  /\ UNCHANGED <<instruction_faulted, stop>>

(* Stores to ISER and ICER. *)
WriteEnable ==
  /\ CoreUnchanged
  /\ \E irq \in Irqs :
       \/ /\ enabled' = enabled \cup {irq}
          /\ sleeping' = (sleeping /\ ~WakeupPending(pending, enabled'))
       \/ /\ "ICER" \in Features
          /\ enabled' = enabled \ {irq}
          /\ UNCHANGED sleeping
  /\ UNCHANGED <<pending, level, irq_active, configVars, maskVars, event_register>>

(* Stores to ISPR and STIR, and the set bits of ICSR. *)
WriteSetPending ==
  /\ CoreUnchanged
  /\ "ISPR" \in Features
  /\ \E e \in Irqs \cup {NMI} \cup ({PendSV, SysTick} \cap Configurable) : SetPending({e})
  /\ UNCHANGED <<enabled, level, irq_active, configVars, maskVars>>

(* Stores to ICPR and the clear bits of ICSR: ICPR clears the pending bit of
   an interrupt even while its request line is asserted. *)
WriteClearPending ==
  /\ CoreUnchanged
  /\ "ICPR" \in Features
  /\ \E e \in Irqs \cup ({PendSV, SysTick} \cap Configurable) : ClearPending({e})
  /\ UNCHANGED <<enabled, level, irq_active, configVars, maskVars>>

(* write_shcsr: the enable bits, and the pending bits of four exceptions. *)
WriteShcsr ==
  /\ CoreUnchanged
  /\ "SHCSR" \in Features
  /\ fault_enabled' \in SUBSET Faults
  /\ LET writable == (Faults \cup {SVCall}) \cap Configurable
     IN  \E written \in SUBSET writable :
           /\ pending' = (pending \ writable) \cup written
           /\ event_register' =
                (event_register \/ ("SEVONPEND" \in scr /\ ~(written \subseteq pending)))
           /\ sleeping' = (sleeping /\ written = {})
  /\ UNCHANGED <<enabled, level, irq_active, priority, prigroup, scr, maskVars>>

(* Stores to IPR, SHPR and AIRCR.PRIGROUP: by boot code, while nothing is
   active, or at run time where the firmware does that. *)
WritePriority ==
  /\ CoreUnchanged
  /\ "RUNTIME_PRIORITY" \in Features \/ depth = 0
  /\ \/ \E e \in Configurable \cup Irqs, value \in PriorityValues :
          priority' = [priority EXCEPT ![e] = value] /\ UNCHANGED prigroup
     \/ prigroup' \in GroupValues /\ UNCHANGED priority
  /\ UNCHANGED <<pendVars, fault_enabled, scr, maskVars, sleepVars>>

WriteScr ==
  /\ CoreUnchanged
  /\ scr' \in SUBSET (Features \cap {"SLEEPONEXIT", "SEVONPEND"})
  /\ UNCHANGED <<pendVars, fault_enabled, priority, prigroup, maskVars, sleepVars>>

-----------------------------------------------------------------------------
(* Exception return.  The value branched to is in the firmware's hands, and
   so is the frame: kind is what the firmware returns with and stacked is the
   exception number of the xPSR it finds in the frame, Corrupt standing for a
   word without the Thumb bit. *)

Corrupt == -1

(* cortex_m4_exception_advanced_valid_return; the two bits compared with the
   frame tell PSP from MSP. *)
ValidReturn(kind) ==
  /\ depth # 0 /\ frame_depth # 0 /\ ipsr # None
  /\ kind \in FrameKinds
  /\ active[depth] = ipsr
  /\ (frames[frame_depth] = "psp") = (kind = "psp")
  /\ IF kind = "handler" THEN depth > 1 ELSE depth = 1 \/ nonbase

ReturnTarget(kind) == IF kind = "handler" THEN active[depth - 1] ELSE None

(* cortex_m4_exception_advanced_valid_stacked_xpsr *)
ValidStackedLoose(kind, stacked) ==  \* mutant: only handler and thread mode are told apart
  (stacked = None) = (kind # "handler")

ValidStacked(kind, stacked) ==
  stacked = IF kind = "handler" THEN active[depth - 1] ELSE None

ReturnKinds ==
  {kind \in FrameKinds \cup {"invalid"} :
     \/ frame_depth # 0 /\ kind = frames[frame_depth]
     \/ "FORGED_RETURN" \in Features}

Returning(kind) ==
  /\ Executing
  /\ kind \in ReturnKinds
  /\ InstructionEnds
  /\ UNCHANGED nonbase

(* deactivate_external: an interrupt whose line is still asserted is pending
   again, without waking anyone. *)
PendingAfterPulse(p) == p  \* mutant: the line is not looked at
PendingAfter(p) == p \cup ({ipsr} \cap level)
ActiveAfterChain == irq_active  \* mutant: the active bit stays
ActiveAfter == irq_active \ {ipsr}

(* Leaving any handler but NMI's clears FAULTMASK. *)
LeaveFaultmask == faultmask' = (faultmask /\ ipsr = NMI)

InvalidReturn ==
  \E kind \in ReturnKinds :
    /\ Returning(kind)
    /\ ~ValidReturn(kind)
    /\ RaiseFault(UsageFault)
    /\ UNCHANGED stackVars

(* cortex_m4_exception_advanced_tail_chain: the most urgent exception that
   preempts the context returned to takes over the frame.  It is selected
   before FAULTMASK is cleared. *)
ChainAndPop(x, p) ==  \* mutant: the frame is popped although it is used again
  /\ Activate(x, depth, PendingAfter(p), ActiveAfter)
  /\ LeaveFaultmask
  /\ frame_depth' = frame_depth - 1
  /\ frames' = [frames EXCEPT ![frame_depth] = "none"]
  /\ UNCHANGED <<enabled, level, configVars, primask, basepri>>
  /\ UNCHANGED <<depth, spsel, instruction_faulted, stop>>

Chain(x, p) ==
  /\ Activate(x, depth, PendingAfter(p), ActiveAfter)
  /\ LeaveFaultmask
  /\ UNCHANGED <<enabled, level, configVars, primask, basepri>>
  /\ UNCHANGED <<depth, frames, frame_depth, spsel, instruction_faulted, stop>>

TailChain ==
  \E kind \in ReturnKinds :
    /\ Returning(kind)
    /\ ValidReturn(kind)
    /\ \E x \in Exceptions : /\ MostUrgent(x, SelectedPending(ReturnTarget(kind), ipsr))
                             /\ Chain(x, pending)
    /\ UNCHANGED event_register

TailChainVectorFault ==
  \E kind \in ReturnKinds :
    /\ Returning(kind)
    /\ ValidReturn(kind)
    /\ "VECTOR" \in Features
    /\ ipsr \notin {NMI, HardFault}
    /\ \E x \in Exceptions \ {HardFault} :
         MostUrgent(x, SelectedPending(ReturnTarget(kind), ipsr))
    /\ Chain(HardFault, pending \cup {HardFault})
    /\ event_register' = EventOnPend(HardFault)

TailChainLockup ==
  \E kind \in ReturnKinds :
    /\ Returning(kind)
    /\ ValidReturn(kind)
    /\ "VECTOR" \in Features
    /\ SelectedPending(ReturnTarget(kind), ipsr) # {}
    /\ IF ipsr \in {NMI, HardFault}
       THEN UNCHANGED <<pending, sleepVars>>
       ELSE SetPending({HardFault})
    /\ stop' = "lockup"
    /\ UNCHANGED <<enabled, level, irq_active, configVars, maskVars>>
    /\ UNCHANGED <<stackVars, instruction_faulted>>

Unstacking(kind) ==
  /\ Returning(kind)
  /\ ValidReturn(kind)
  /\ SelectedPending(ReturnTarget(kind), ipsr) = {}

(* The frame cannot be read, or holds an xPSR that does not fit the stack of
   active exceptions: the handler stays active. *)
UnstackingFails ==
  \E kind \in ReturnKinds :
    /\ Unstacking(kind)
    /\ \/ "STACKING" \in Features /\ \E fault \in {MemManage, BusFault} : RaiseFault(fault)
       \/ /\ "FORGED_RETURN" \in Features
          /\ \E stacked \in Exceptions \cup {None, Corrupt} : ~ValidStacked(kind, stacked)
          /\ RaiseFault(UsageFault)
    /\ UNCHANGED stackVars

(* Sleep-on-exit, when the return is to thread mode; p is what is pending
   after the interrupt that returns may have been pended again. *)
SleepOnExitEarly(kind, p) ==  \* mutant: decided before it is pended again
  IF kind # "handler" /\ "SLEEPONEXIT" \in scr THEN WaitForInterrupt(pending)
                                               ELSE UNCHANGED sleeping
SleepOnExit(kind, p) ==
  IF kind # "handler" /\ "SLEEPONEXIT" \in scr THEN WaitForInterrupt(p)
                                               ELSE UNCHANGED sleeping

(* cortex_m4_system_unstack_exception_frame and
   cortex_m4_exception_advanced_commit_return. *)
Return ==
  \E kind \in ReturnKinds :
    /\ Unstacking(kind)
    /\ \E stacked \in Exceptions \cup {None, Corrupt} :
         ValidStacked(kind, stacked) /\ ipsr' = stacked
    /\ active' = [active EXCEPT ![depth] = None]
    /\ depth' = depth - 1
    /\ frames' = [frames EXCEPT ![frame_depth] = "none"]
    /\ frame_depth' = frame_depth - 1
    /\ spsel' = IF kind = "handler" THEN spsel ELSE kind = "psp"
    /\ pending' = PendingAfter(pending)
    /\ irq_active' = ActiveAfter
    /\ LeaveFaultmask
    /\ SleepOnExit(kind, pending')
    /\ UNCHANGED <<enabled, level, configVars, primask, basepri, event_register>>
    /\ UNCHANGED <<instruction_faulted, stop>>

-----------------------------------------------------------------------------
(* The peripherals, the SysTick counter and the host *)

Untouched == UNCHANGED <<stackVars, nonbase, stepVars, enabled, configVars, maskVars>>

(* cortex_m4_set_irq, a pulse, or its withdrawal by the host. *)
SetIrq ==
  /\ "PULSE" \in Features
  /\ \E irq \in Irqs : SetPending({irq}) \/ ClearPending({irq})
  /\ UNCHANGED <<level, irq_active>>
  /\ Untouched

(* cortex_m4_set_irq_level: asserting pends the interrupt, however often it
   is called; deasserting leaves the pending bit as it is. *)
SetIrqLevel ==
  /\ "LEVEL" \in Features
  /\ \E irq \in Irqs :
       \/ level' = level \cup {irq} /\ SetPending({irq})
       \/ level' = level \ {irq} /\ UNCHANGED <<pending, sleepVars>>
  /\ UNCHANGED irq_active
  /\ Untouched

(* cortex_m4_advance: the counter reaches zero with TICKINT set. *)
SysTickExpires ==
  /\ SysTick \in Configurable
  /\ pending' = pending \cup {SysTick}
  /\ event_register' = EventOnPend(SysTick)
  /\ sleeping' = FALSE
  /\ UNCHANGED <<level, irq_active>>
  /\ Untouched

(* cortex_m4_reset, between two steps, at the end of an instruction, or, by a
   watchdog, in the advance that ends an exception entry, after which the step
   goes on to an instruction; it fails when the reset vector cannot be used. *)
Reset ==
  /\ "RESET" \in Features
  /\ phase # "entering"
  /\ NvicReset
  /\ CoreReset
  /\ UNCHANGED phase
  /\ stop' \in {"running", "reset_fault"}

(* cortex_m4_set_breakpoint puts a stopped core back to work. *)
SetBreakpoint ==
  /\ stop = "breakpoint"
  /\ stop' = "running"
  /\ UNCHANGED <<nvicVars, stackVars, nonbase, phase, entering, instruction_faulted>>

-----------------------------------------------------------------------------
Instruction ==
  \/ OtherInstruction \/ FaultingInstruction \/ UndefinedInstruction
  \/ Breakpoint \/ Svc \/ Wfi \/ Wfe \/ Sev
  \/ WriteMask \/ WriteBasepriMax \/ WriteControl \/ WriteEnable
  \/ WriteSetPending \/ WriteClearPending \/ WriteShcsr
  \/ WritePriority \/ WriteScr
  \/ InvalidReturn \/ TailChain \/ TailChainVectorFault \/ TailChainLockup
  \/ UnstackingFails \/ Return

CoreStep ==
  \/ NothingPending \/ TakePending \/ StackingFails
  \/ CommitEntry \/ EntryVectorFault \/ EntryVectorLockup
  \/ SleepCycle \/ Instruction

Environment ==
  SetIrq \/ SetIrqLevel \/ SysTickExpires \/ Reset \/ SetBreakpoint

Next == CoreStep \/ Environment

(* cortex_m4_run calls cortex_m4_step as long as the core is running. *)
Spec == Init /\ [][Next]_vars
FairSpec == Spec /\ WF_vars(CoreStep)

-----------------------------------------------------------------------------
(* Properties. They name the way the firmware must behave for them to hold: see
   Disciplined. *)

(* The firmware programs priorities only while no exception is active, does
   not return to thread mode from a nested handler, and the host sets no
   breakpoint: with any of these the stack of active exceptions need not be
   ordered any more (see the README). *)
Disciplined == {"NONBASE", "RUNTIME_PRIORITY", "BREAKPOINT"} \cap Features = {}

(* The exception number in xPSR is the last exception entered, in every state
   the code can reach: it is rebuilt on return from a frame the firmware can
   write, which cortex_m4_exception_advanced_valid_stacked_xpsr must catch. *)
HandlerIsTop ==
  /\ depth <= frame_depth
  /\ IF ipsr # None THEN depth > 0 /\ active[depth] = ipsr
     ELSE "NONBASE" \in Features \/ depth = 0

(* One frame is stacked per active exception, plus the one of an entry under
   way; a lockup in the middle of an entry leaves its frame behind.  Tail
   chaining and failing returns must keep the two stacks in step. *)
FramesMatchHandlers ==
  "BREAKPOINT" \notin Features =>
    \/ frame_depth = depth + (IF entering # None THEN 1 ELSE 0)
    \/ stop = "lockup" /\ frame_depth = depth + 1

(* There is always a slot for the exception whose frame was stacked, so the
   lockup of cortex_m4_exception_advanced_commit_entry never happens. *)
EntryHasRoom == entering # None => depth < FrameLimit

(* Every active exception preempts all those below it. *)
StrictNesting ==
  Disciplined => \A s, t \in 1..depth : s < t => Preemption(active[t]) < Preemption(active[s])

(* The active bits of the NVIC are the interrupts on the stack, each once. *)
ActiveBitsExact ==
  Disciplined =>
    /\ irq_active = Active \cap Irqs
    /\ Cardinality(Active) = depth

(* Only the outermost frame returns to thread mode. *)
FramesReturnInOrder ==
  Disciplined => \A s \in 1..frame_depth : (frames[s] = "handler") = (s > 1)

(* A request line that is held asserted is never forgotten: its interrupt is
   pending or its handler is active, however entries, tail chains, returns and
   faults follow one another, as long as nobody clears the pending bit. *)
LevelIsHeld ==
  {"ICPR", "PULSE"} \cap Features = {} => level \subseteq pending \cup irq_active

(* A core put to sleep by WFI or by sleep-on-exit has nothing to wake up for. *)
NoSleepOnWork ==
  "WFE" \notin Features => ~(sleeping /\ WakeupPending(pending, enabled))

(* With frames and vectors that can be accessed, the core locks up only where
   the architecture says it does: in the handler of NMI or HardFault. *)
LockupOnlyInFaultHandlers ==
  {"STACKING", "VECTOR"} \cap Features = {} =>
    (stop = "lockup" => ipsr \in {NMI, HardFault})

(* Nesting is bounded by the number of preemption levels in use. *)
DepthBounded ==
  Disciplined =>
    depth <= Cardinality({Preemption(e) : e \in Exceptions})

(* No instruction runs while an exception that preempts its context is
   eligible, entries and tail chains included.  Requests from outside may come
   after the selection of the step, so here software alone makes them. *)
NoInversion ==
  /\ Disciplined
  /\ {"PULSE", "LEVEL", "STACKING", "VECTOR"} \cap Features = {}
  /\ SysTick \notin Configurable
  => (phase = "execute" => Candidates = {})

-----------------------------------------------------------------------------
(* A handler that begins takes only its own exception off the pending ones:
   an exception overtaken by a late arrival, by a tail chain or by HardFault
   after a vector fault stays pending. *)
OnlyTheHandlerIsConsumed ==
  [][ipsr' # None /\ ipsr' # ipsr => pending \ pending' \subseteq {ipsr'}]_vars

(* No exception that is eligible when the vector is fetched preempts the one
   that is entered, though it may have come after the frame was begun.  Among
   equals the exception that was first selected is entered. *)
EntryIsMostUrgent ==
  [][phase = "entering" /\ phase' = "execute" /\ stop' = "running" /\ ipsr' # HardFault
       => \A e \in Candidates \ Active : Preemption(ipsr') <= Preemption(e)]_vars

(* Whatever gives the core something to wake up for wakes it. *)
WorkWakes ==
  [][WakeupPending(pending', enabled') /\ ~WakeupPending(pending, enabled) => ~sleeping']_vars

-----------------------------------------------------------------------------
(* An exception that can preempt the running context does so, or is withdrawn
   or overtaken, asleep or awake, as long as the host keeps stepping. *)
PreemptionHappens ==
  \A e \in Exceptions : e \in Candidates ~> (e \notin Candidates \/ stop # "running")

(* A disciplined core is a stack of handlers nested by urgency. *)
Handlers == INSTANCE NestedHandlers WITH
              handlers <- [s \in 1..depth |-> active[s]],
              waiting <- pending,
              urgency <- [e \in Exceptions |-> Preemption(e)]
NestsByUrgency == Handlers!Spec

-----------------------------------------------------------------------------
(* The stacks of handlers and of frames, the exception number and the entry under
   way agree, and none leaves its array, whatever the firmware does. *)
StacksSound == TypeOK /\ HandlerIsTop /\ EntryHasRoom

(* Frames and handlers correspond one to one, ordered by urgency. *)
NestingSound == FramesMatchHandlers /\ StrictNesting

(* The active bits are those of the handlers on the stack, and their frames lead
   back through them to thread mode. *)
HandlersAccounted == ActiveBitsExact /\ FramesReturnInOrder

(* No request is lost: a held line stays on record, and a handler that begins takes
   off nothing but its own. *)
RequestsSurvive == [](TypeOK /\ LevelIsHeld) /\ OnlyTheHandlerIsConsumed

(* Whatever is entered is the most urgent, and handlers nest as on a stack ordered by
   urgency. *)
EntersByUrgency == EntryIsMostUrgent /\ NestsByUrgency

(* Nothing runs while something more urgent is eligible, and no more handlers are
   active than there are levels of urgency. *)
UrgencyHeld == NoInversion /\ DepthBounded
=============================================================================
