-------------------------- MODULE ExceptionProofs ---------------------------
(***************************************************************************)
(* Theorems about the exception model, for every set of interrupts, every  *)
(* frame limit, every choice of priority bits and every set of features:   *)
(* the stacks stay in step, and no request is lost, consumed by another    *)
(* handler or slept on.                                                    *)
(***************************************************************************)
EXTENDS Exceptions, TLAPS

USE IrqsAssumption, ConfigurableAssumption, PriorityAssumption, FrameLimitAssumption

Stops == {"running", "lockup", "breakpoint", "reset_fault"}

(* The numbers of the exceptions are positive, so that None is not one. *)
LEMMA ExceptionNumbers ==
  /\ Exceptions \subseteq Nat \ {None}
  /\ HardFault \in Exceptions
  /\ NMI \in Exceptions
  /\ Irqs \subseteq Exceptions
  /\ Configurable \subseteq Exceptions
  /\ Faults \subseteq Exceptions
BY DEF Exceptions, SystemExceptions, None, NMI, HardFault, Faults

(* cortex_m4_raise_fault keeps the types of everything it writes. *)
LEMMA RaiseFaultType ==
  ASSUME NvicTypeOK, NEW fault, stop \in Stops, RaiseFault(fault)
  PROVE  NvicTypeOK' /\ instruction_faulted' \in BOOLEAN /\ stop' \in Stops
<1>1. fault \in fault_enabled => fault \in Exceptions
  BY ExceptionNumbers DEF NvicTypeOK
<1> QED
  BY <1>1, ExceptionNumbers DEF NvicTypeOK, RaiseFault, sleepVars, configVars, maskVars, Stops

(* So does cortex_m4_system_set_pending. *)
LEMMA SetPendingType ==
  ASSUME NvicTypeOK, NEW S \in SUBSET Exceptions, SetPending(S),
         UNCHANGED <<enabled, level, irq_active, configVars, maskVars>>
  PROVE  NvicTypeOK'
BY DEF NvicTypeOK, SetPending, configVars, maskVars

(* What an instruction that only writes the NVIC leaves alone. *)
LEMMA CoreUnchangedType ==
  ASSUME TypeOK, CoreUnchanged, NvicTypeOK'
  PROVE  TypeOK'
BY DEF TypeOK, CoreUnchanged, Executing, InstructionEnds, stackVars

(* The entry of a handler x into a slot of the stack. *)
LEMMA ActivateType ==
  ASSUME TypeOK, NEW x \in Exceptions, NEW slot \in Slots,
         NEW p \in SUBSET Exceptions, NEW still \in SUBSET Irqs,
         Activate(x, slot, p, still)
  PROVE  /\ active' \in [Slots -> Exceptions \cup {None}]
         /\ pending' \subseteq Exceptions
         /\ irq_active' \subseteq Irqs
         /\ ipsr' \in Exceptions \cup {None}
         /\ sleeping' \in BOOLEAN
BY DEF Activate, TypeOK

(* cortex_m4_exception_advanced_commit_entry keeps the types, whether or not a
   slot is left for the handler. *)
LEMMA EnterType ==
  ASSUME TypeOK, NEW x \in Exceptions, NEW p \in SUBSET Exceptions, Enter(x, p)
  PROVE  /\ active' \in [Slots -> Exceptions \cup {None}]
         /\ depth' \in 0..FrameLimit
         /\ pending' \subseteq Exceptions
         /\ irq_active' \subseteq Irqs
         /\ ipsr' \in Exceptions \cup {None}
         /\ sleeping' \in BOOLEAN
         /\ stop' \in Stops
<1>1. CASE depth < FrameLimit
  <2>1. Activate(x, depth + 1, p, irq_active) /\ depth' = depth + 1 /\ UNCHANGED stop
    BY <1>1 DEF Enter
  <2>2. depth + 1 \in Slots /\ irq_active \in SUBSET Irqs
    BY <1>1 DEF TypeOK, NvicTypeOK, Slots
  <2>3. /\ active' \in [Slots -> Exceptions \cup {None}]
        /\ pending' \subseteq Exceptions
        /\ irq_active' \subseteq Irqs
        /\ ipsr' \in Exceptions \cup {None}
        /\ sleeping' \in BOOLEAN
    BY <2>1, <2>2, ActivateType
  <2>4. depth' \in 0..FrameLimit /\ stop' \in Stops
    BY <1>1, <2>1 DEF TypeOK, Stops
  <2> QED
    BY <2>3, <2>4
<1>2. CASE ~(depth < FrameLimit)
  BY <1>2 DEF Enter, TypeOK, NvicTypeOK, Stops
<1> QED
  BY <1>1, <1>2

(* Every step keeps every variable in its type: no path of the exception code
   pushes past the end of the stack of active exceptions or of frames, or
   pops either when it is empty. *)
LEMMA TypeStep == TypeOK /\ [Next]_vars => TypeOK'
<1> SUFFICES ASSUME TypeOK, [Next]_vars PROVE TypeOK'
  OBVIOUS
<1> USE DEF Stops
<1>0. NvicTypeOK
  BY DEF TypeOK
<1>1. ASSUME NothingPending PROVE TypeOK'
  BY <1>1 DEF NothingPending, TypeOK, NvicTypeOK, nvicVars, pendVars, configVars, maskVars,
              sleepVars, stackVars
<1>2. ASSUME TakePending PROVE TypeOK'
  <2>1. NvicTypeOK'
    BY <1>2, <1>0 DEF TakePending, NvicTypeOK, nvicVars, pendVars, configVars, maskVars, sleepVars
  <2>2. entering' \in Exceptions
    BY <1>2, <1>0 DEF TakePending, Candidates, Deliverable, MostUrgent, NvicTypeOK
  <2>3. frame_depth + 1 \in Slots /\ frame_depth' \in 0..FrameLimit
    BY <1>2 DEF TakePending, RoomForFrame, TypeOK, Slots
  <2>4. frames' \in [Slots -> FrameKinds \cup {"none"}]
    BY <1>2, <2>3 DEF TakePending, TypeOK, FrameKinds, FrameKind
  <2> QED
    BY <1>2, <2>1, <2>2, <2>3, <2>4 DEF TakePending, TypeOK
<1>3. ASSUME StackingFails PROVE TypeOK'
  <2>1. PICK e \in Candidates, fault \in {MemManage, BusFault} : EntryFault(e, fault)
    BY <1>3 DEF StackingFails
  <2>2. NvicTypeOK' /\ instruction_faulted' \in BOOLEAN /\ stop' \in Stops
    <3>1. CASE e \in {NMI, HardFault}
      BY <1>0, <2>1, <3>1 DEF EntryFault, NvicTypeOK, nvicVars, pendVars, configVars, maskVars,
                              sleepVars
    <3>2. CASE e \notin {NMI, HardFault} /\ e = fault
      BY <1>0, <2>1, <3>2, SetPendingType, ExceptionNumbers DEF EntryFault, TypeOK
    <3>3. CASE e \notin {NMI, HardFault} /\ e # fault
      BY <1>0, <2>1, <3>3, RaiseFaultType DEF EntryFault, TypeOK
    <3> QED
      BY <3>1, <3>2, <3>3
  <2> QED
    BY <1>3, <2>2 DEF StackingFails, TypeOK, stackVars
<1>4. ASSUME CommitEntry PROVE TypeOK'
  <2>1. PICK x \in Exceptions : Enter(x, pending)
    BY <1>4 DEF CommitEntry
  <2>2. /\ active' \in [Slots -> Exceptions \cup {None}]
        /\ depth' \in 0..FrameLimit
        /\ pending' \subseteq Exceptions
        /\ irq_active' \subseteq Irqs
        /\ ipsr' \in Exceptions \cup {None}
        /\ sleeping' \in BOOLEAN
        /\ stop' \in Stops
    BY <1>0, <2>1, EnterType DEF NvicTypeOK
  <2>3. NvicTypeOK'
    BY <1>4, <1>0, <2>2 DEF CommitEntry, NvicTypeOK, configVars, maskVars
  <2> QED
    BY <1>4, <2>2, <2>3 DEF CommitEntry, TypeOK
<1>5. ASSUME EntryVectorFault PROVE TypeOK'
  <2>1. pending \cup {HardFault} \in SUBSET Exceptions
    BY <1>0, ExceptionNumbers DEF NvicTypeOK
  <2>2. /\ active' \in [Slots -> Exceptions \cup {None}]
        /\ depth' \in 0..FrameLimit
        /\ pending' \subseteq Exceptions
        /\ irq_active' \subseteq Irqs
        /\ ipsr' \in Exceptions \cup {None}
        /\ sleeping' \in BOOLEAN
        /\ stop' \in Stops
    BY <1>5, <2>1, EnterType, ExceptionNumbers DEF EntryVectorFault
  <2>3. NvicTypeOK'
    BY <1>5, <1>0, <2>2 DEF EntryVectorFault, NvicTypeOK, configVars, maskVars, EventOnPend
  <2> QED
    BY <1>5, <2>2, <2>3 DEF EntryVectorFault, TypeOK
<1>6. ASSUME EntryVectorLockup PROVE TypeOK'
  <2>1. NvicTypeOK'
    <3>1. CASE ipsr \in {NMI, HardFault}
      BY <1>6, <1>0, <3>1 DEF EntryVectorLockup, NvicTypeOK, configVars, maskVars, sleepVars
    <3>2. CASE ipsr \notin {NMI, HardFault}
      BY <1>6, <1>0, <3>2, SetPendingType, ExceptionNumbers DEF EntryVectorLockup
    <3> QED
      BY <3>1, <3>2
  <2> QED
    BY <1>6, <2>1 DEF EntryVectorLockup, TypeOK, stackVars
<1>7. ASSUME SleepCycle PROVE TypeOK'
  BY <1>7, <1>0 DEF SleepCycle, InstructionEnds, TypeOK, NvicTypeOK, nvicVars, pendVars,
                    configVars, maskVars, sleepVars, stackVars
<1>8. ASSUME OtherInstruction PROVE TypeOK'
  <2>1. NvicTypeOK'
    BY <1>8, <1>0 DEF OtherInstruction, NvicTypeOK, nvicVars, pendVars, configVars, maskVars,
                      sleepVars
  <2> QED
    BY <1>8, <2>1, CoreUnchangedType DEF OtherInstruction
<1>9. ASSUME FaultingInstruction PROVE TypeOK'
  <2>1. NvicTypeOK' /\ instruction_faulted' \in BOOLEAN /\ stop' \in Stops
    BY <1>9, <1>0, RaiseFaultType DEF FaultingInstruction, TypeOK
  <2> QED
    BY <1>9, <2>1 DEF FaultingInstruction, TypeOK, stackVars, InstructionEnds
<1>10. ASSUME UndefinedInstruction PROVE TypeOK'
  <2>1. NvicTypeOK' /\ instruction_faulted' \in BOOLEAN /\ stop' \in Stops
    <3>1. CASE ~instruction_faulted /\ stop = "running"
      BY <1>10, <1>0, <3>1, RaiseFaultType DEF UndefinedInstruction, TypeOK
    <3>2. CASE ~(~instruction_faulted /\ stop = "running")
      BY <1>10, <1>0, <3>2 DEF UndefinedInstruction, TypeOK, NvicTypeOK, nvicVars, pendVars,
                               configVars, maskVars, sleepVars
    <3> QED
      BY <3>1, <3>2
  <2> QED
    BY <1>10, <2>1 DEF UndefinedInstruction, TypeOK, stackVars, InstructionEnds
<1>11. ASSUME Breakpoint PROVE TypeOK'
  BY <1>11, <1>0 DEF Breakpoint, InstructionEnds, TypeOK, NvicTypeOK, nvicVars, pendVars,
                     configVars, maskVars, sleepVars, stackVars
<1>12. ASSUME \/ Svc \/ Wfi \/ Wfe \/ Sev \/ WriteMask \/ WriteBasepriMax
              \/ WriteEnable \/ WriteShcsr \/ WritePriority \/ WriteScr
       PROVE  TypeOK'
  <2>1. CASE Svc
    BY <2>1, <1>0, CoreUnchangedType, ExceptionNumbers
       DEF Svc, NvicTypeOK, configVars, maskVars, sleepVars
  <2>2. CASE Wfi
    BY <2>2, <1>0, CoreUnchangedType
       DEF Wfi, WaitForInterrupt, NvicTypeOK, pendVars, configVars, maskVars
  <2>3. CASE Wfe
    BY <2>3, <1>0, CoreUnchangedType DEF Wfe, NvicTypeOK, pendVars, configVars, maskVars
  <2>4. CASE Sev
    BY <2>4, <1>0, CoreUnchangedType DEF Sev, NvicTypeOK, pendVars, configVars, maskVars
  <2>5. CASE WriteMask
    BY <2>5, <1>0, CoreUnchangedType
       DEF WriteMask, NvicTypeOK, pendVars, configVars, sleepVars
  <2>6. CASE WriteBasepriMax
    BY <2>6, <1>0, CoreUnchangedType
       DEF WriteBasepriMax, NvicTypeOK, pendVars, configVars, sleepVars
  <2>7. CASE WriteEnable
    BY <2>7, <1>0, CoreUnchangedType DEF WriteEnable, NvicTypeOK, configVars, maskVars
  <2>8. CASE WriteShcsr
    BY <2>8, <1>0, CoreUnchangedType, ExceptionNumbers DEF WriteShcsr, NvicTypeOK, maskVars
  <2>9. CASE WritePriority
    BY <2>9, <1>0, CoreUnchangedType
       DEF WritePriority, NvicTypeOK, pendVars, maskVars, sleepVars
  <2>10. CASE WriteScr
    BY <2>10, <1>0, CoreUnchangedType DEF WriteScr, NvicTypeOK, pendVars, maskVars, sleepVars
  <2> QED
    BY <1>12, <2>1, <2>2, <2>3, <2>4, <2>5, <2>6, <2>7, <2>8, <2>9, <2>10
<1>13. ASSUME WriteControl PROVE TypeOK'
  BY <1>13, <1>0 DEF WriteControl, InstructionEnds, TypeOK, NvicTypeOK, nvicVars, pendVars,
                     configVars, maskVars, sleepVars
<1>14. ASSUME WriteSetPending \/ WriteClearPending PROVE TypeOK'
  <2>1. CASE WriteSetPending
    <3>1. PICK e \in Exceptions : SetPending({e})
      BY <2>1, ExceptionNumbers DEF WriteSetPending
    <3>2. {e} \in SUBSET Exceptions
      OBVIOUS
    <3>3. NvicTypeOK'
      BY <2>1, <1>0, <3>1, <3>2, SetPendingType DEF WriteSetPending
    <3> QED
      BY <2>1, <3>3, CoreUnchangedType DEF WriteSetPending
  <2>2. CASE WriteClearPending
    BY <2>2, <1>0, CoreUnchangedType
       DEF WriteClearPending, ClearPending, NvicTypeOK, configVars, maskVars, sleepVars
  <2> QED
    BY <1>14, <2>1, <2>2
<1>15. ASSUME InvalidReturn PROVE TypeOK'
  <2>1. NvicTypeOK' /\ instruction_faulted' \in BOOLEAN /\ stop' \in Stops
    BY <1>15, <1>0, RaiseFaultType DEF InvalidReturn, TypeOK
  <2> QED
    BY <1>15, <2>1 DEF InvalidReturn, Returning, TypeOK, stackVars, InstructionEnds
<1>16. ASSUME NEW kind, Returning(kind), ValidReturn(kind),
              NEW x \in Exceptions, NEW p \in SUBSET Exceptions, Chain(x, p),
              event_register' \in BOOLEAN
       PROVE  TypeOK'
  <2>1. depth \in Slots /\ PendingAfter(p) \in SUBSET Exceptions /\ ActiveAfter \in SUBSET Irqs
    BY <1>16, <1>0, ExceptionNumbers
       DEF ValidReturn, TypeOK, Slots, PendingAfter, ActiveAfter, NvicTypeOK
  <2>2. /\ active' \in [Slots -> Exceptions \cup {None}]
        /\ pending' \subseteq Exceptions
        /\ irq_active' \subseteq Irqs
        /\ ipsr' \in Exceptions \cup {None}
        /\ sleeping' \in BOOLEAN
    BY <1>16, <2>1, ActivateType DEF Chain
  <2>3. NvicTypeOK'
    BY <1>16, <1>0, <2>2 DEF Chain, LeaveFaultmask, NvicTypeOK, configVars
  <2> QED
    BY <1>16, <2>2, <2>3 DEF Chain, Returning, InstructionEnds, TypeOK
<1>17. ASSUME TailChain PROVE TypeOK'
  <2>1. pending \in SUBSET Exceptions /\ event_register \in BOOLEAN
    BY <1>0 DEF NvicTypeOK
  <2> QED
    BY <1>17, <2>1, <1>16 DEF TailChain
<1>18. ASSUME TailChainVectorFault PROVE TypeOK'
  <2>1. /\ pending \cup {HardFault} \in SUBSET Exceptions
        /\ HardFault \in Exceptions
        /\ EventOnPend(HardFault) \in BOOLEAN
    BY <1>0, ExceptionNumbers DEF NvicTypeOK, EventOnPend
  <2> QED
    BY <1>18, <2>1, <1>16 DEF TailChainVectorFault
<1>19. ASSUME TailChainLockup PROVE TypeOK'
  <2>1. NvicTypeOK'
    <3>1. CASE ipsr \in {NMI, HardFault}
      BY <1>19, <1>0, <3>1 DEF TailChainLockup, NvicTypeOK, configVars, maskVars, sleepVars
    <3>2. CASE ipsr \notin {NMI, HardFault}
      BY <1>19, <1>0, <3>2, SetPendingType, ExceptionNumbers DEF TailChainLockup
    <3> QED
      BY <3>1, <3>2
  <2> QED
    BY <1>19, <2>1 DEF TailChainLockup, Returning, InstructionEnds, TypeOK, stackVars
<1>20. ASSUME UnstackingFails PROVE TypeOK'
  <2>1. NvicTypeOK' /\ instruction_faulted' \in BOOLEAN /\ stop' \in Stops
    BY <1>20, <1>0, RaiseFaultType DEF UnstackingFails, TypeOK
  <2> QED
    BY <1>20, <2>1 DEF UnstackingFails, Unstacking, Returning, InstructionEnds, TypeOK, stackVars
<1>21. ASSUME Return PROVE TypeOK'
  <2>1. PICK kind \in ReturnKinds :
          /\ Unstacking(kind)
          /\ \E stacked \in Exceptions \cup {None, Corrupt} :
               ValidStacked(kind, stacked) /\ ipsr' = stacked
          /\ active' = [active EXCEPT ![depth] = None]
          /\ depth' = depth - 1
          /\ frames' = [frames EXCEPT ![frame_depth] = "none"]
          /\ frame_depth' = frame_depth - 1
          /\ spsel' = IF kind = "handler" THEN spsel ELSE kind = "psp"
          /\ pending' = PendingAfter(pending)
          /\ irq_active' = ActiveAfter
          /\ LeaveFaultmask
          /\ SleepOnExit(kind, pending')
          /\ UNCHANGED <<enabled, level, configVars, primask, basepri, event_register>>
          /\ UNCHANGED <<instruction_faulted, stop>>
    BY <1>21 DEF Return
  <2>2. /\ depth \in Slots /\ frame_depth \in Slots
        /\ kind = "handler" => depth > 1
    BY <2>1 DEF Unstacking, ValidReturn, TypeOK, Slots
  <2>3. ipsr' \in Exceptions \cup {None}
    BY <2>1, <2>2 DEF ValidStacked, TypeOK, Slots
  <2>4. NvicTypeOK'
    BY <2>1, <1>0, ExceptionNumbers DEF PendingAfter, ActiveAfter, LeaveFaultmask,
       SleepOnExit, WaitForInterrupt, NvicTypeOK, configVars
  <2>5. /\ active' \in [Slots -> Exceptions \cup {None}]
        /\ frames' \in [Slots -> FrameKinds \cup {"none"}]
    BY <2>1, <2>2 DEF TypeOK
  <2>6. depth' \in 0..FrameLimit /\ frame_depth' \in 0..FrameLimit
    BY <2>1, <2>2 DEF TypeOK, Slots
  <2>7. spsel' \in BOOLEAN
    BY <2>1 DEF TypeOK
  <2> QED
    BY <2>1, <2>3, <2>4, <2>5, <2>6, <2>7 DEF Unstacking, Returning, InstructionEnds, TypeOK
<1>22. ASSUME Environment PROVE TypeOK'
  <2>1. CASE SetIrq
    <3>1. PICK irq \in Irqs : SetPending({irq}) \/ ClearPending({irq})
      BY <2>1 DEF SetIrq
    <3>2. CASE SetPending({irq})
      <4>1. {irq} \in SUBSET Exceptions
        BY ExceptionNumbers
      <4>2. NvicTypeOK'
        BY <2>1, <1>0, <3>2, <4>1, SetPendingType DEF SetIrq, Untouched
      <4> QED
        BY <2>1, <4>2 DEF SetIrq, Untouched, TypeOK, stackVars, stepVars
    <3>3. CASE ClearPending({irq})
      BY <2>1, <1>0, <3>3 DEF SetIrq, ClearPending, Untouched, TypeOK, NvicTypeOK, stackVars,
                              stepVars, configVars, maskVars, sleepVars
    <3> QED
      BY <3>1, <3>2, <3>3
  <2>2. CASE SetIrqLevel
    <3>1. PICK irq \in Irqs :
            \/ level' = level \cup {irq} /\ SetPending({irq})
            \/ level' = level \ {irq} /\ UNCHANGED <<pending, sleepVars>>
      BY <2>2 DEF SetIrqLevel
    <3>2. NvicTypeOK'
      BY <2>2, <1>0, <3>1, ExceptionNumbers DEF SetIrqLevel, SetPending, Untouched, NvicTypeOK,
                                                configVars, maskVars, sleepVars
    <3> QED
      BY <2>2, <3>2 DEF SetIrqLevel, Untouched, TypeOK, stackVars, stepVars
  <2>3. CASE SysTickExpires
    BY <2>3, <1>0, ExceptionNumbers
       DEF SysTickExpires, EventOnPend, Untouched, TypeOK, NvicTypeOK, stackVars, stepVars,
           configVars, maskVars
  <2>4. CASE Reset
    <3>0. /\ primask' \in BOOLEAN /\ faultmask' \in BOOLEAN
          /\ sleeping' \in BOOLEAN /\ event_register' \in BOOLEAN
          /\ spsel' \in BOOLEAN /\ nonbase' \in BOOLEAN /\ instruction_faulted' \in BOOLEAN
      BY <2>4, Zenon DEF Reset, NvicReset, CoreReset
    <3>1. NvicTypeOK'
      BY <2>4, <3>0 DEF Reset, NvicReset, NvicTypeOK
    <3>2. active' \in [Slots -> Exceptions \cup {None}]
      BY <2>4 DEF Reset, CoreReset
    <3>3. frames' \in [Slots -> FrameKinds \cup {"none"}]
      BY <2>4 DEF Reset, CoreReset
    <3> QED
      BY <2>4, <3>0, <3>1, <3>2, <3>3 DEF Reset, CoreReset, TypeOK
  <2>5. CASE SetBreakpoint
    BY <2>5, <1>0 DEF SetBreakpoint, TypeOK, NvicTypeOK, nvicVars, pendVars, configVars,
                      maskVars, sleepVars, stackVars
  <2> QED
    BY <1>22, <2>1, <2>2, <2>3, <2>4, <2>5 DEF Environment
<1>23. CASE UNCHANGED vars
  BY <1>23, <1>0 DEF vars, TypeOK, NvicTypeOK, nvicVars, pendVars, configVars, maskVars,
                     sleepVars, stackVars, stepVars
<1> QED
  BY <1>1, <1>2, <1>3, <1>4, <1>5, <1>6, <1>7, <1>8, <1>9, <1>10, <1>11, <1>12, <1>13, <1>14,
     <1>15, <1>17, <1>18, <1>19, <1>20, <1>21, <1>22, <1>23
     DEF Next, CoreStep, Instruction

(* The program starts with every type correct. *)
LEMMA TypeInitial ==
  ASSUME Init
  PROVE  TypeOK
<1>0. /\ primask \in BOOLEAN /\ faultmask \in BOOLEAN
      /\ sleeping \in BOOLEAN /\ event_register \in BOOLEAN
      /\ spsel \in BOOLEAN /\ nonbase \in BOOLEAN /\ instruction_faulted \in BOOLEAN
  BY Zenon DEF Init, NvicInit, CoreInit
<1>1. NvicTypeOK
  BY <1>0 DEF Init, NvicInit, NvicTypeOK
<1>2. active \in [Slots -> Exceptions \cup {None}]
  BY DEF Init, CoreInit
<1>3. frames \in [Slots -> FrameKinds \cup {"none"}]
  BY DEF Init, CoreInit
<1> QED
  BY <1>0, <1>1, <1>2, <1>3 DEF Init, CoreInit, TypeOK

(* The state of the core and of the NVIC keeps its type in every behaviour:
   the two stacks of exceptions/advanced.c and system.c never leave their
   arrays, whatever the firmware, the bus and the host do. *)
THEOREM TypeCorrect == Spec => []TypeOK
BY TypeInitial, TypeStep, PTL DEF Spec

-----------------------------------------------------------------------------
(* The two stacks *)

(* The inductive invariant that ties the stack of active exceptions, the stack
   of frames, IPSR and the entry under way to each other. *)
Balance ==
  /\ phase = "entering" <=> entering # None
  /\ nonbase => "NONBASE" \in Features
  /\ stop = "breakpoint" => "BREAKPOINT" \in Features
  /\ \A s \in 1..depth : active[s] # None
  /\ depth + (IF entering # None THEN 1 ELSE 0) <= frame_depth
  /\ HandlerIsTop
  /\ FramesMatchHandlers

(* A step that leaves the stacks, the handler and the entry alone keeps the
   balance, if it neither sets NONBASETHRDENA nor stops at a breakpoint and a
   locked-up core stays locked up. *)
LEMMA BalanceKept ==
  ASSUME TypeOK, Balance, UNCHANGED <<active, depth, frame_depth, ipsr, entering>>,
         phase' = "entering" <=> phase = "entering",
         nonbase' => nonbase \/ "NONBASE" \in Features,
         stop' = "breakpoint" => stop = "breakpoint",
         stop = "lockup" => stop' = "lockup"
  PROVE  Balance'
BY DEF Balance, HandlerIsTop, FramesMatchHandlers

(* A handler that is entered with a frame of its own. *)
LEMMA BalanceEntered ==
  ASSUME TypeOK, Balance, entering # None, NEW x \in Exceptions, NEW p, Enter(x, p),
         entering' = None, phase' = "execute", UNCHANGED <<frame_depth, nonbase>>
  PROVE  Balance' /\ depth < FrameLimit /\ UNCHANGED stop
<1>1. depth + 1 <= frame_depth /\ frame_depth <= FrameLimit /\ depth \in Nat /\ frame_depth \in Nat
  BY DEF Balance, TypeOK
<1>2. depth < FrameLimit /\ depth + 1 \in Slots
  BY <1>1 DEF Slots
<1>3. /\ active' = [active EXCEPT ![depth + 1] = x] /\ depth' = depth + 1
      /\ ipsr' = x /\ stop' = stop
  BY <1>2 DEF Enter, Activate
<1>4. x # None
  BY ExceptionNumbers
<1>5. active'[depth'] = ipsr' /\ \A s \in 1..depth' : active'[s] # None
  BY <1>1, <1>2, <1>3, <1>4 DEF Balance, TypeOK, Slots
<1>6. HandlerIsTop'
  BY <1>1, <1>3, <1>4, <1>5 DEF HandlerIsTop
<1>7. FramesMatchHandlers'
  BY <1>1, <1>3 DEF Balance, FramesMatchHandlers
<1> QED
  BY <1>1, <1>2, <1>3, <1>5, <1>6, <1>7 DEF Balance

(* A handler that takes over the frame of the one that returns. *)
LEMMA BalanceChained ==
  ASSUME TypeOK, Balance, NEW kind, Returning(kind), ValidReturn(kind),
         NEW x \in Exceptions, NEW p, Chain(x, p)
  PROVE  Balance'
<1>1. depth \in Slots /\ depth \in Nat /\ frame_depth \in Nat
  BY DEF ValidReturn, TypeOK, Slots
<1>2. /\ active' = [active EXCEPT ![depth] = x] /\ ipsr' = x
      /\ UNCHANGED <<depth, frame_depth, stop, nonbase, entering>>
      /\ phase' = "boundary" /\ phase = "execute"
  BY DEF Chain, Activate, Returning, Executing, InstructionEnds
<1>3. x # None
  BY ExceptionNumbers
<1>4. active'[depth'] = ipsr' /\ \A s \in 1..depth' : active'[s] # None
  BY <1>1, <1>2, <1>3 DEF Balance, TypeOK, Slots
<1>5. HandlerIsTop'
  <2>1. depth' <= frame_depth' /\ depth' > 0
    BY <1>1, <1>2 DEF Balance, HandlerIsTop, Slots
  <2>2. ipsr' # None
    BY <1>2, <1>3
  <2> QED
    BY <1>4, <2>1, <2>2 DEF HandlerIsTop
<1>6. FramesMatchHandlers'
  BY <1>1, <1>2 DEF Balance, FramesMatchHandlers
<1> QED
  BY <1>1, <1>2, <1>4, <1>5, <1>6 DEF Balance

(* A return that pops one handler and one frame. *)
LEMMA BalanceReturned == TypeOK /\ Balance /\ Return => Balance'
<1> SUFFICES ASSUME TypeOK, Balance, Return PROVE Balance'
  OBVIOUS
<1>1. PICK kind \in ReturnKinds :
        /\ ValidReturn(kind) /\ phase = "execute" /\ phase' = "boundary"
        /\ ipsr' = IF kind = "handler" THEN active[depth - 1] ELSE None
        /\ active' = [active EXCEPT ![depth] = None]
        /\ depth' = depth - 1 /\ frame_depth' = frame_depth - 1
        /\ UNCHANGED <<nonbase, entering, stop>>
  BY DEF Return, Unstacking, Returning, InstructionEnds, Executing, ValidStacked
<1>2. depth \in Slots /\ frame_depth \in Slots /\ depth \in Nat /\ frame_depth \in Nat
  BY <1>1 DEF ValidReturn, TypeOK, Slots
<1>3. depth' \in Nat /\ frame_depth' \in Nat /\ depth' <= frame_depth'
  BY <1>1, <1>2 DEF Balance, HandlerIsTop, Slots
<1>4. \A s \in 1..depth' : active'[s] = active[s] /\ active[s] # None
  BY <1>1, <1>2 DEF Balance, TypeOK, Slots
<1>5. HandlerIsTop'
  <2>1. CASE kind = "handler"
    <3>1. depth > 1 /\ ipsr' = active[depth - 1]
      BY <1>1, <2>1 DEF ValidReturn
    <3>2. depth' \in 1..depth' /\ depth' > 0
      BY <1>1, <1>2, <3>1
    <3>3. active'[depth'] = ipsr' /\ ipsr' # None
      BY <1>1, <1>4, <3>1, <3>2
    <3> QED
      BY <1>3, <3>2, <3>3 DEF HandlerIsTop
  <2>2. CASE kind # "handler"
    <3>1. depth = 1 \/ "NONBASE" \in Features
      BY <1>1, <2>2 DEF ValidReturn, Balance
    <3> QED
      BY <1>1, <1>2, <1>3, <2>2, <3>1 DEF HandlerIsTop
  <2> QED
    BY <2>1, <2>2
<1>6. FramesMatchHandlers'
  BY <1>1, <1>2 DEF Balance, FramesMatchHandlers
<1>7. entering' = None /\ entering = None
  BY <1>1 DEF Balance
<1> QED
  BY <1>1, <1>3, <1>4, <1>5, <1>6, <1>7 DEF Balance

(* cortex_m4_raise_fault never sets a breakpoint and never ends a lockup. *)
LEMMA RaiseFaultStop ==
  ASSUME stop \in Stops, NEW fault, RaiseFault(fault)
  PROVE  /\ stop' = "breakpoint" => stop = "breakpoint"
         /\ stop = "lockup" => stop' = "lockup"
BY DEF RaiseFault, Stops

(* Every step keeps the two stacks in balance. *)
LEMMA BalanceStep == TypeOK /\ Balance /\ [Next]_vars => Balance'
<1> SUFFICES ASSUME TypeOK, Balance, [Next]_vars PROVE Balance'
  OBVIOUS
<1> DEFINE Kept == /\ UNCHANGED <<active, depth, frame_depth, ipsr, entering>>
                   /\ phase' = "entering" <=> phase = "entering"
                   /\ nonbase' => nonbase \/ "NONBASE" \in Features
                   /\ stop' = "breakpoint" => stop = "breakpoint"
                   /\ stop = "lockup" => stop' = "lockup"
<1>0. Kept => Balance'
  BY BalanceKept
<1>1. CASE NothingPending
  BY <1>0, <1>1 DEF NothingPending, Boundary, stackVars
<1>2. CASE TakePending
  <2>1. PICK e \in Exceptions : entering' = e
    BY <1>2 DEF TakePending, MostUrgent, Candidates, Deliverable, TypeOK, NvicTypeOK
  <2>2. /\ entering = None /\ entering' # None /\ phase' = "entering"
        /\ frame_depth' = frame_depth + 1 /\ stop' = "running" /\ stop = "running"
        /\ UNCHANGED <<active, depth, ipsr, nonbase>>
    BY <1>2, <2>1, ExceptionNumbers DEF TakePending, Boundary, Balance
  <2>3. depth \in Nat /\ frame_depth \in Nat /\ depth <= frame_depth
    BY DEF TypeOK, Balance, HandlerIsTop
  <2>4. HandlerIsTop'
    BY <2>2, <2>3 DEF Balance, HandlerIsTop
  <2>5. FramesMatchHandlers'
    BY <2>2, <2>3 DEF Balance, FramesMatchHandlers
  <2> QED
    BY <2>2, <2>3, <2>4, <2>5 DEF Balance
<1>3. CASE StackingFails
  <2>1. stop = "running" /\ stop' # "breakpoint"
    BY <1>3 DEF StackingFails, Boundary, EntryFault, RaiseFault, TypeOK, nvicVars
  <2> QED
    BY <1>0, <1>3, <2>1 DEF StackingFails, Boundary, stackVars
<1>4. CASE CommitEntry
  <2>1. entering # None /\ entering' = None /\ phase' = "execute"
        /\ UNCHANGED <<frame_depth, nonbase>>
    BY <1>4 DEF CommitEntry, Balance
  <2>2. PICK x \in Exceptions : Enter(x, pending)
    BY <1>4 DEF CommitEntry
  <2> QED
    BY <2>1, <2>2, BalanceEntered
<1>5. CASE EntryVectorFault
  <2>1. entering # None /\ entering' = None /\ phase' = "execute"
        /\ UNCHANGED <<frame_depth, nonbase>>
    BY <1>5 DEF EntryVectorFault, Balance
  <2> QED
    BY <1>5, <2>1, BalanceEntered, ExceptionNumbers DEF EntryVectorFault
<1>6. CASE EntryVectorLockup
  <2>1. /\ entering # None /\ entering' = None /\ phase' = "execute" /\ stop' = "lockup"
        /\ UNCHANGED <<active, depth, frame_depth, ipsr, nonbase>>
    BY <1>6 DEF EntryVectorLockup, Balance, stackVars
  <2>2. depth \in Nat /\ frame_depth \in Nat /\ depth + 1 <= frame_depth
    BY <2>1 DEF TypeOK, Balance
  <2>3. HandlerIsTop'
    BY <2>1 DEF Balance, HandlerIsTop
  <2>4. "BREAKPOINT" \notin Features => frame_depth = depth + 1
    BY <2>1, <2>2 DEF Balance, FramesMatchHandlers
  <2>5. FramesMatchHandlers'
    BY <2>1, <2>4 DEF FramesMatchHandlers
  <2> QED
    BY <2>1, <2>2, <2>3, <2>5 DEF Balance
<1>7. CASE SleepCycle
  BY <1>0, <1>7 DEF SleepCycle, InstructionEnds, stackVars
<1>8. CASE FaultingInstruction
  BY <1>0, <1>8, RaiseFaultStop
     DEF FaultingInstruction, Executing, InstructionEnds, stackVars, TypeOK, Stops
<1>9. CASE UndefinedInstruction
  <2>1. /\ stop' = "breakpoint" => stop = "breakpoint"
        /\ stop = "lockup" => stop' = "lockup"
    BY <1>9 DEF UndefinedInstruction, RaiseFault, TypeOK
  <2> QED
    BY <1>0, <1>9, <2>1 DEF UndefinedInstruction, Executing, InstructionEnds, stackVars
<1>10. CASE Breakpoint
  <2>1. /\ UNCHANGED <<active, depth, frame_depth, ipsr, entering, nonbase>>
        /\ stop' = "breakpoint" /\ "BREAKPOINT" \in Features
        /\ phase = "execute" /\ phase' = "boundary"
    BY <1>10 DEF Breakpoint, Executing, InstructionEnds, stackVars
  <2> QED
    BY <2>1 DEF Balance, HandlerIsTop, FramesMatchHandlers
<1>11. CASE CoreUnchanged
  BY <1>0, <1>11 DEF CoreUnchanged, Executing, InstructionEnds, stackVars
<1>12. CASE WriteControl
  BY <1>0, <1>12 DEF WriteControl, Executing, InstructionEnds, TypeOK
<1>13. CASE InvalidReturn
  BY <1>0, <1>13, RaiseFaultStop
     DEF InvalidReturn, Returning, Executing, InstructionEnds, stackVars, TypeOK, Stops
<1>14. CASE TailChain
  BY <1>14, BalanceChained DEF TailChain
<1>15. CASE TailChainVectorFault
  BY <1>15, BalanceChained, ExceptionNumbers DEF TailChainVectorFault
<1>16. CASE TailChainLockup
  BY <1>0, <1>16 DEF TailChainLockup, Returning, Executing, InstructionEnds, stackVars
<1>17. CASE UnstackingFails
  BY <1>0, <1>17, RaiseFaultStop
     DEF UnstackingFails, Unstacking, Returning, Executing, InstructionEnds, stackVars, TypeOK,
         Stops
<1>18. CASE Return
  BY <1>18, BalanceReturned
<1>19. CASE SetIrq \/ SetIrqLevel \/ SysTickExpires
  BY <1>0, <1>19 DEF SetIrq, SetIrqLevel, SysTickExpires, Untouched, stackVars, stepVars
<1>20. CASE Reset
  <2>1. /\ depth' = 0 /\ frame_depth' = 0 /\ ipsr' = None /\ phase' # "entering"
        /\ entering' = None /\ ~nonbase' /\ stop' # "breakpoint"
    BY <1>20 DEF Reset, CoreReset
  <2> QED
    BY <2>1 DEF Balance, HandlerIsTop, FramesMatchHandlers
<1>21. CASE SetBreakpoint
  <2>1. /\ UNCHANGED <<active, depth, frame_depth, ipsr, entering, nonbase, phase>>
        /\ stop' = "running" /\ "BREAKPOINT" \in Features
    BY <1>21 DEF SetBreakpoint, stackVars, Balance
  <2> QED
    BY <2>1 DEF Balance, HandlerIsTop, FramesMatchHandlers
<1>22. CASE UNCHANGED vars
  BY <1>0, <1>22 DEF vars, stackVars, stepVars
<1>23. Instruction =>
         \/ CoreUnchanged \/ FaultingInstruction \/ UndefinedInstruction \/ Breakpoint
         \/ WriteControl \/ InvalidReturn \/ TailChain \/ TailChainVectorFault
         \/ TailChainLockup \/ UnstackingFails \/ Return
  BY DEF Instruction, OtherInstruction, Svc, Wfi, Wfe, Sev, WriteMask, WriteBasepriMax,
         WriteEnable, WriteSetPending, WriteClearPending, WriteShcsr, WritePriority, WriteScr
<1> QED
  BY <1>1, <1>2, <1>3, <1>4, <1>5, <1>6, <1>7, <1>8, <1>9, <1>10, <1>11, <1>12, <1>13, <1>14,
     <1>15, <1>16, <1>17, <1>18, <1>19, <1>20, <1>21, <1>22, <1>23
     DEF Next, CoreStep, Environment

(* The stack of active exceptions, the stack of frames, IPSR and the entry
   under way stay in step in every behaviour. *)
THEOREM BalanceInvariant == Spec => [](TypeOK /\ Balance)
<1>1. Init => Balance
  BY DEF Init, NvicInit, CoreInit, Balance, HandlerIsTop, FramesMatchHandlers
<1> QED
  BY <1>1, TypeCorrect, BalanceStep, PTL DEF Spec

(* The handler that IPSR names is the last exception entered, though IPSR is
   rebuilt on return from a frame the firmware can write. *)
THEOREM HandlerOnTop == Spec => []HandlerIsTop
BY BalanceInvariant, PTL DEF Balance

(* There is one frame per active exception and per entry under way. *)
THEOREM FramesInStep == Spec => []FramesMatchHandlers
BY BalanceInvariant, PTL DEF Balance

(* An exception whose frame was stacked finds a slot in the stack of active
   exceptions: the lockup that ends cortex_m4_exception_advanced_commit_entry
   cannot happen. *)
THEOREM RoomToEnter == Spec => []EntryHasRoom
<1>1. TypeOK /\ Balance => EntryHasRoom
  BY DEF TypeOK, Balance, EntryHasRoom
<1> QED
  BY <1>1, BalanceInvariant, PTL

(* The stacks of handlers and of frames, the exception number and the entry under
   way agree in every behaviour, whatever the firmware does. *)
THEOREM StacksAreSound == Spec => []StacksSound
BY TypeCorrect, HandlerOnTop, RoomToEnter, PTL DEF StacksSound

-----------------------------------------------------------------------------
(* What becomes of a request *)

(* No system exception shares its number with an interrupt. *)
LEMMA SystemIsNotExternal ==
  /\ Configurable \cap Irqs = {}
  /\ NMI \notin Irqs /\ HardFault \notin Irqs /\ None \notin Irqs
BY DEF NMI, HardFault, None

-----------------------------------------------------------------------------
(* Request lines *)

Held == level \subseteq pending \cup irq_active

(* Whatever only adds to what is pending holds the lines. *)
LEMMA HeldByMore ==
  ASSUME Held, level' \subseteq level, pending \subseteq pending', UNCHANGED irq_active
  PROVE  Held'
BY DEF Held

(* The entry of a handler moves its interrupt from pending to active.  A chain
   first pends the one that returns again if its line is asserted. *)
LEMMA HeldByActivate ==
  ASSUME Held, level' = level, NEW x, NEW slot, NEW p, pending \subseteq p, NEW still,
         level \subseteq Irqs,
         level \cap irq_active \subseteq p \cup still,
         Activate(x, slot, p, still)
  PROVE  Held'
BY DEF Held, Activate

(* cortex_m4_raise_fault pends a fault and clears nothing. *)
LEMMA RaiseFaultHolds ==
  ASSUME Held, NEW fault, RaiseFault(fault)
  PROVE  Held'
BY DEF RaiseFault, Held

(* No step lets go of an asserted line, unless something clears pending bits. *)
LEMMA HeldStep ==
  ASSUME {"ICPR", "PULSE"} \cap Features = {}
  PROVE  TypeOK /\ Held /\ [Next]_vars => Held'
<1> SUFFICES ASSUME TypeOK, Held, [Next]_vars PROVE Held'
  OBVIOUS
<1>0. level \subseteq Irqs
  BY DEF TypeOK, NvicTypeOK
<1>1. CASE NothingPending \/ TakePending \/ SleepCycle \/ Breakpoint \/ WriteControl
           \/ SetBreakpoint \/ OtherInstruction
  BY <1>1 DEF NothingPending, TakePending, SleepCycle, Breakpoint, WriteControl, SetBreakpoint,
              OtherInstruction, nvicVars, pendVars, Held
<1>2. CASE StackingFails
  <2>1. PICK e \in Candidates, fault \in {MemManage, BusFault} : EntryFault(e, fault)
    BY <1>2 DEF StackingFails
  <2> QED
    BY <2>1, RaiseFaultHolds DEF EntryFault, SetPending, nvicVars, pendVars, Held
<1>3. CASE CommitEntry \/ EntryVectorFault
  <2>1. PICK x, p : Enter(x, p) /\ pending \subseteq p /\ level' = level
    BY <1>3 DEF CommitEntry, EntryVectorFault
  <2>2. CASE depth < FrameLimit
    BY <1>0, <2>1, <2>2, HeldByActivate DEF Enter
  <2>3. CASE ~(depth < FrameLimit)
    BY <2>1, <2>3 DEF Enter, Held
  <2> QED
    BY <2>2, <2>3
<1>4. CASE EntryVectorLockup
  BY <1>4 DEF EntryVectorLockup, SetPending, Held
<1>5. CASE FaultingInstruction \/ InvalidReturn \/ UnstackingFails
  BY <1>5, RaiseFaultHolds DEF FaultingInstruction, InvalidReturn, UnstackingFails
<1>6. CASE UndefinedInstruction
  BY <1>6, RaiseFaultHolds DEF UndefinedInstruction, nvicVars, pendVars, Held
<1>7. CASE Svc \/ Wfi \/ Wfe \/ Sev \/ WriteMask \/ WriteBasepriMax \/ WriteEnable
           \/ WriteSetPending \/ WritePriority \/ WriteScr
  BY <1>7 DEF Svc, Wfi, Wfe, Sev, WriteMask, WriteBasepriMax, WriteEnable, WriteSetPending,
              WritePriority, WriteScr, SetPending, pendVars, Held
<1>8. CASE WriteClearPending
  BY <1>8 DEF WriteClearPending
<1>9. CASE WriteShcsr
  BY <1>0, <1>9, SystemIsNotExternal DEF WriteShcsr, Held
<1>10. CASE TailChain \/ TailChainVectorFault
  <2>1. PICK x, p : Chain(x, p) /\ pending \subseteq p
    BY <1>10 DEF TailChain, TailChainVectorFault
  <2>2. level \cap irq_active \subseteq PendingAfter(p) \cup ActiveAfter
    BY DEF PendingAfter, ActiveAfter
  <2> QED
    BY <1>0, <2>1, <2>2, HeldByActivate DEF Chain, PendingAfter
<1>11. CASE TailChainLockup
  BY <1>11 DEF TailChainLockup, SetPending, Held
<1>12. CASE Return
  BY <1>12 DEF Return, PendingAfter, ActiveAfter, Held
<1>13. CASE SetIrq
  BY <1>13 DEF SetIrq
<1>14. CASE SetIrqLevel
  BY <1>14 DEF SetIrqLevel, SetPending, Held
<1>15. CASE SysTickExpires
  BY <1>15 DEF SysTickExpires, Held
<1>16. CASE Reset
  BY <1>16 DEF Reset, NvicReset, Held
<1>17. CASE UNCHANGED vars
  BY <1>17 DEF vars, nvicVars, pendVars, Held
<1> QED
  BY <1>1, <1>2, <1>3, <1>4, <1>5, <1>6, <1>7, <1>8, <1>9, <1>10, <1>11, <1>12, <1>13, <1>14,
     <1>15, <1>16, <1>17 DEF Next, CoreStep, Instruction, Environment

(* A request line that is held is never forgotten, unless the firmware or the
   host clears its pending bit: however often its handler is entered, chained
   or returned from, or fails to be, its interrupt is pending or active. *)
THEOREM LinesAreHeld == Spec => []LevelIsHeld
<1>1. CASE {"ICPR", "PULSE"} \cap Features = {}
  <2>1. Init => Held
    BY DEF Init, NvicInit, Held
  <2>2. TypeOK /\ Held /\ [Next]_vars => Held'
    BY <1>1, HeldStep
  <2>3. Held => LevelIsHeld
    BY DEF Held, LevelIsHeld
  <2> QED
    BY <2>1, <2>2, <2>3, TypeCorrect, PTL DEF Spec
<1>2. CASE {"ICPR", "PULSE"} \cap Features # {}
  <2>1. LevelIsHeld
    BY <1>2 DEF LevelIsHeld
  <2> QED
    BY <2>1, PTL
<1> QED
  BY <1>1, <1>2

-----------------------------------------------------------------------------
(* Sleep *)

Rested == ~(sleeping /\ WakeupPending(pending, enabled))

(* A core that sleeps after a step slept before it, with no less to do then. *)
LEMMA RestedKept ==
  ASSUME Rested, sleeping' => sleeping, pending' \subseteq pending, enabled' \subseteq enabled
  PROVE  Rested'
BY DEF Rested, WakeupPending

(* cortex_m4_system_set_pending wakes a core that then has something to do. *)
LEMMA RestedAfterSetPending ==
  ASSUME Rested, NEW S, SetPending(S), UNCHANGED enabled
  PROVE  Rested'
<1>1. CASE S = {}
  BY <1>1 DEF Rested, WakeupPending, SetPending
<1>2. CASE S # {}
  BY <1>2 DEF Rested, WakeupPending, SetPending
<1> QED
  BY <1>1, <1>2

(* No step leaves the core asleep with something to wake up for, except WFE. *)
LEMMA RestedStep ==
  ASSUME "WFE" \notin Features
  PROVE  TypeOK /\ Rested /\ [Next]_vars => Rested'
<1> SUFFICES ASSUME TypeOK, Rested, [Next]_vars PROVE Rested'
  OBVIOUS
<1>1. CASE ~sleeping'
  BY <1>1 DEF Rested
<1>2. CASE NothingPending \/ TakePending \/ SleepCycle \/ SetBreakpoint
  BY <1>2, RestedKept DEF NothingPending, TakePending, SleepCycle, SetBreakpoint, nvicVars,
                          pendVars, sleepVars
<1>3. CASE StackingFails
  <2>1. PICK e \in Candidates, fault \in {MemManage, BusFault} : EntryFault(e, fault)
    BY <1>3 DEF StackingFails
  <2>2. CASE e \in {NMI, HardFault}
    BY <2>1, <2>2, RestedKept DEF EntryFault, nvicVars, pendVars, sleepVars
  <2>3. CASE e \notin {NMI, HardFault} /\ e = fault
    BY <2>1, <2>3, RestedAfterSetPending DEF EntryFault
  <2>4. CASE e \notin {NMI, HardFault} /\ e # fault
    BY <2>1, <2>4, RestedKept DEF EntryFault, RaiseFault, sleepVars, Rested
  <2> QED
    BY <2>2, <2>3, <2>4
<1>4. CASE CommitEntry \/ EntryVectorFault
  BY <1>1, <1>4 DEF CommitEntry, EntryVectorFault, Enter, Activate
<1>5. CASE EntryVectorLockup
  BY <1>5, RestedAfterSetPending, RestedKept DEF EntryVectorLockup, sleepVars
<1>6. CASE Executing /\ sleeping' = sleeping
  BY <1>6, <1>1 DEF Executing, TypeOK, NvicTypeOK
<1>7. CASE Wfi
  BY <1>7 DEF Wfi, WaitForInterrupt, pendVars, Rested
<1>8. CASE Wfe
  BY <1>8 DEF Wfe
<1>9. CASE WriteEnable \/ WriteSetPending \/ WriteShcsr
  BY <1>1, <1>9 DEF WriteEnable, WriteSetPending, WriteShcsr, SetPending, CoreUnchanged,
                    Executing
<1>10. CASE FaultingInstruction \/ UndefinedInstruction \/ InvalidReturn \/ UnstackingFails
            \/ TailChainLockup
  BY <1>1, <1>10 DEF FaultingInstruction, UndefinedInstruction, InvalidReturn, UnstackingFails,
       TailChainLockup, RaiseFault, SetPending, Unstacking, Returning, Executing, nvicVars,
       sleepVars
<1>11. CASE TailChain \/ TailChainVectorFault
  BY <1>1, <1>11 DEF TailChain, TailChainVectorFault, Chain, Activate
<1>12. CASE Return
  BY <1>1, <1>12 DEF Return, SleepOnExit, WaitForInterrupt, Unstacking, Returning, Executing, Rested
<1>13. CASE SetIrq
  BY <1>13, RestedAfterSetPending, RestedKept
     DEF SetIrq, Untouched, ClearPending, sleepVars
<1>14. CASE SetIrqLevel
  BY <1>14, RestedAfterSetPending, RestedKept DEF SetIrqLevel, Untouched, sleepVars
<1>15. CASE SysTickExpires \/ Reset
  BY <1>1, <1>15 DEF SysTickExpires, Reset, NvicReset
<1>16. CASE UNCHANGED vars
  BY <1>16, RestedKept DEF vars, nvicVars, pendVars, sleepVars
<1>17. Instruction =>
         \/ (Executing /\ sleeping' = sleeping) \/ Wfi \/ Wfe
         \/ WriteEnable \/ WriteSetPending \/ WriteShcsr
         \/ FaultingInstruction \/ UndefinedInstruction \/ InvalidReturn \/ UnstackingFails
         \/ TailChainLockup \/ TailChain \/ TailChainVectorFault \/ Return
  BY DEF Instruction, OtherInstruction, Breakpoint, Svc, Sev, WriteMask, WriteBasepriMax,
         WriteControl, WriteClearPending, ClearPending, WritePriority, WriteScr, CoreUnchanged,
         nvicVars, sleepVars
<1> QED
  BY <1>2, <1>3, <1>4, <1>5, <1>6, <1>7, <1>8, <1>9, <1>10, <1>11, <1>12, <1>13, <1>14, <1>15,
     <1>16, <1>17 DEF Next, CoreStep, Environment

(* Without WFE, a core that sleeps has nothing to wake up for: WFI and
   sleep-on-exit look before they sleep, and every path that pends or enables
   an exception wakes the core. *)
THEOREM SleepIsSafe == Spec => []NoSleepOnWork
<1>1. CASE "WFE" \notin Features
  <2>1. Init => Rested
    BY DEF Init, NvicInit, Rested
  <2>2. TypeOK /\ Rested /\ [Next]_vars => Rested'
    BY <1>1, RestedStep
  <2>3. Rested => NoSleepOnWork
    BY DEF Rested, NoSleepOnWork
  <2> QED
    BY <2>1, <2>2, <2>3, TypeCorrect, PTL DEF Spec
<1>2. CASE "WFE" \in Features
  <2>1. NoSleepOnWork
    BY <1>2 DEF NoSleepOnWork
  <2> QED
    BY <2>1, PTL
<1> QED
  BY <1>1, <1>2

(* Whatever step gives the core its first reason to wake up also wakes it; in
   particular no step puts it to sleep on a reason that the same step made. *)
THEOREM WorkAwakens == Spec => WorkWakes
<1> DEFINE Woken == WakeupPending(pending', enabled') /\ ~WakeupPending(pending, enabled)
                      => ~sleeping'
<1>1. ASSUME [Next]_vars PROVE Woken
  <2>1. CASE ~sleeping'
    BY <2>1
  <2>2. CASE pending' \subseteq pending /\ enabled' \subseteq enabled
    BY <2>2 DEF WakeupPending
  <2>3. ASSUME NEW S, SetPending(S), UNCHANGED enabled PROVE Woken
    <3>1. CASE S = {}
      BY <2>3, <3>1, <2>2 DEF SetPending
    <3>2. CASE S # {}
      BY <2>3, <3>2 DEF SetPending
    <3> QED
      BY <3>1, <3>2
  <2>4. CASE NothingPending \/ TakePending \/ SleepCycle \/ SetBreakpoint \/ Wfi \/ Wfe
    BY <2>2, <2>4 DEF NothingPending, TakePending, SleepCycle, SetBreakpoint, Wfi, Wfe,
                      nvicVars, pendVars
  <2>5. CASE StackingFails
    <3>1. PICK e \in Candidates, fault \in {MemManage, BusFault} : EntryFault(e, fault)
      BY <2>5 DEF StackingFails
    <3> QED
      BY <3>1, <2>1, <2>2, <2>3 DEF EntryFault, RaiseFault, nvicVars, pendVars
  <2>6. CASE CommitEntry \/ EntryVectorFault
    BY <2>1, <2>6 DEF CommitEntry, EntryVectorFault, Enter, Activate
  <2>7. CASE EntryVectorLockup
    BY <2>2, <2>3, <2>7 DEF EntryVectorLockup
  <2>8. CASE ~sleeping /\ sleeping' = sleeping
    BY <2>1, <2>8
  <2>9. CASE WriteEnable \/ WriteSetPending \/ WriteShcsr
    BY <2>1, <2>9 DEF WriteEnable, WriteSetPending, WriteShcsr, SetPending, CoreUnchanged,
                      Executing
  <2>10. CASE FaultingInstruction \/ UndefinedInstruction \/ InvalidReturn
              \/ UnstackingFails \/ TailChainLockup
    BY <2>1, <2>10 DEF FaultingInstruction, UndefinedInstruction, InvalidReturn,
         UnstackingFails, TailChainLockup, RaiseFault, SetPending, Unstacking, Returning,
         Executing, nvicVars, sleepVars
  <2>11. CASE TailChain \/ TailChainVectorFault
    BY <2>1, <2>11 DEF TailChain, TailChainVectorFault, Chain, Activate
  <2>12. CASE Return
    <3>1. ~sleeping /\ enabled' = enabled
      BY <2>12 DEF Return, Unstacking, Returning, Executing
    <3>2. sleeping' = ~WakeupPending(pending', enabled) \/ sleeping' = sleeping
      BY <2>12 DEF Return, SleepOnExit, WaitForInterrupt
    <3> QED
      BY <3>1, <3>2
  <2>13. CASE SetIrq
    BY <2>2, <2>3, <2>13 DEF SetIrq, Untouched, ClearPending
  <2>14. CASE SetIrqLevel
    BY <2>2, <2>3, <2>14 DEF SetIrqLevel, Untouched
  <2>15. CASE SysTickExpires \/ Reset
    BY <2>1, <2>15 DEF SysTickExpires, Reset, NvicReset
  <2>16. CASE UNCHANGED vars
    BY <2>2, <2>16 DEF vars, nvicVars, pendVars
  <2>17. Instruction =>
           \/ (~sleeping /\ sleeping' = sleeping) \/ Wfi \/ Wfe
           \/ WriteEnable \/ WriteSetPending \/ WriteShcsr
           \/ FaultingInstruction \/ UndefinedInstruction \/ InvalidReturn \/ UnstackingFails
           \/ TailChainLockup \/ TailChain \/ TailChainVectorFault \/ Return
    BY DEF Instruction, OtherInstruction, Breakpoint, Svc, Sev, WriteMask, WriteBasepriMax,
           WriteControl, WriteClearPending, ClearPending, WritePriority, WriteScr, CoreUnchanged,
           Executing, nvicVars, sleepVars
  <2> QED
    BY <1>1, <2>4, <2>5, <2>6, <2>7, <2>8, <2>9, <2>10, <2>11, <2>12, <2>13, <2>14, <2>15,
       <2>16, <2>17 DEF Next, CoreStep, Environment
<1> QED
  BY <1>1, PTL DEF Spec, WorkWakes

(* A handler that begins takes only its own exception off the pending ones:
   what a late arrival, a tail chain or HardFault overtakes stays pending. *)
THEOREM NothingElseConsumed == Spec => OnlyTheHandlerIsConsumed
<1> DEFINE Kept == ipsr' # None /\ ipsr' # ipsr => pending \ pending' \subseteq {ipsr'}
<1>1. ASSUME [Next]_vars PROVE Kept
  <2>1. CASE ipsr' = ipsr \/ ipsr' = None
    BY <2>1
  <2>2. ASSUME NEW x, NEW slot, NEW p, NEW still, pending \subseteq p,
               Activate(x, slot, p, still)
        PROVE  Kept
    BY <2>2 DEF Activate
  <2>3. CASE CommitEntry \/ EntryVectorFault
    <3>1. PICK x, p : Enter(x, p) /\ pending \subseteq p
      BY <2>3 DEF CommitEntry, EntryVectorFault
    <3> QED
      BY <2>2, <3>1 DEF Enter
  <2>4. CASE TailChain \/ TailChainVectorFault
    <3>1. PICK x, p : Chain(x, p) /\ pending \subseteq p
      BY <2>4 DEF TailChain, TailChainVectorFault
    <3> QED
      BY <2>2, <3>1 DEF Chain, PendingAfter
  <2>5. CASE Return
    BY <2>5 DEF Return, PendingAfter
  <2>6. CASE Reset
    BY <2>1, <2>6 DEF Reset, CoreReset
  <2>7. CoreStep \/ Environment \/ UNCHANGED vars =>
          \/ ipsr' = ipsr \/ CommitEntry \/ EntryVectorFault
          \/ TailChain \/ TailChainVectorFault \/ Return \/ Reset
    BY DEF CoreStep, Environment, Instruction, NothingPending, TakePending, StackingFails,
           EntryVectorLockup, SleepCycle, OtherInstruction, FaultingInstruction,
           UndefinedInstruction, Breakpoint, Svc, Wfi, Wfe, Sev, WriteMask, WriteBasepriMax,
           WriteControl, WriteEnable, WriteSetPending, WriteClearPending, WriteShcsr,
           WritePriority, WriteScr, InvalidReturn, TailChainLockup, UnstackingFails, SetIrq,
           SetIrqLevel, SysTickExpires, SetBreakpoint, Untouched, CoreUnchanged, stackVars, vars
  <2> QED
    BY <1>1, <2>1, <2>3, <2>4, <2>5, <2>6, <2>7 DEF Next
<1> QED
  BY <1>1, PTL DEF Spec, OnlyTheHandlerIsConsumed

(* No request is lost, and a handler that begins takes off nothing but its own. *)
THEOREM RequestsAreKept == Spec => RequestsSurvive
BY TypeCorrect, LinesAreHeld, NothingElseConsumed, PTL DEF RequestsSurvive
=============================================================================
