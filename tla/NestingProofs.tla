--------------------------- MODULE NestingProofs ----------------------------
(***************************************************************************)
(* Theorems about the order of the active exceptions, for every set of     *)
(* exceptions and every grouping of the priority bits: in a core whose     *)
(* firmware is disciplined every handler is more urgent than the one it    *)
(* interrupted, the NVIC and the frames agree with the stack of handlers,  *)
(* nothing runs while something more urgent is eligible, and the whole is  *)
(* the stack of NestedHandlers.                                            *)
(***************************************************************************)
EXTENDS ExceptionProofs, FiniteSetTheorems, SequenceTheorems

USE IrqsAssumption, ConfigurableAssumption, PriorityAssumption, FrameLimitAssumption

(* The priority group is a division by a positive number. *)
LEMMA SubprioritiesPositive ==
  ASSUME NvicTypeOK
  PROVE  Subpriorities \in Nat \ {0}
<1> DEFINE bits == IF PriorityBits < 7 - prigroup THEN PriorityBits ELSE 7 - prigroup
           i == PriorityBits - bits + 1
<1>1. i \in 1..9
  BY DEF NvicTypeOK
<1>2. \A j \in 1..9 : <<1, 2, 4, 8, 16, 32, 64, 128, 256>>[j] \in Nat \ {0}
  OBVIOUS
<1> QED
  BY <1>1, <1>2 DEF Subpriorities

(* Preemption levels are integers; only NMI and HardFault are below zero. *)
LEMMA PreemptionLevel ==
  ASSUME NvicTypeOK, NEW e \in Exceptions
  PROVE  /\ Preemption(e) \in Int
         /\ e \notin {NMI, HardFault} => Preemption(e) >= 0
         /\ Preemption(NMI) = -2 /\ Preemption(HardFault) = -1
<1>1. Preemption(NMI) = -2 /\ Preemption(HardFault) = -1
  BY DEF Preemption, NMI, HardFault
<1>2. CASE e \in {NMI, HardFault}
  BY <1>1, <1>2
<1>3. CASE e \notin {NMI, HardFault}
  <2>1. priority[e] \in Nat
    BY <1>3 DEF NvicTypeOK, Exceptions, SystemExceptions
  <2>2. priority[e] \div Subpriorities \in Nat
    BY <2>1, SubprioritiesPositive
  <2> QED
    BY <1>1, <1>3, <2>2 DEF Preemption, Group
<1> QED
  BY <1>2, <1>3

(* Preemption levels stand still in a step that programs no priorities. *)
LEMMA PreemptionKept ==
  ASSUME UNCHANGED <<priority, prigroup>>, NEW e
  PROVE  Preemption(e)' = Preemption(e)
BY DEF Preemption, Group, Subpriorities

-----------------------------------------------------------------------------
(* The inductive invariant: what is entered preempts what runs, and what runs
   preempts what it interrupted. *)
Nested ==
  /\ \A s, t \in 1..depth : s < t => Preemption(active[t]) < Preemption(active[s])
  /\ entering # None => ipsr = None \/ Preemption(entering) < Preemption(ipsr)

(* A step that leaves the stack, the entry under way and the priorities alone
   leaves the nesting alone. *)
LEMMA NestedKept ==
  ASSUME Nested, UNCHANGED <<active, depth, ipsr, entering, priority, prigroup>>
  PROVE  Nested'
<1>1. \A e : Preemption(e)' = Preemption(e)
  BY PreemptionKept
<1> QED
  BY <1>1 DEF Nested

(* A handler pushed on the stack, more urgent than the one that runs. *)
LEMMA NestedPushed ==
  ASSUME TypeOK, Balance, Nested, Disciplined, NEW x \in Exceptions,
         ipsr = None \/ Preemption(x) < Preemption(ipsr),
         depth < FrameLimit, active' = [active EXCEPT ![depth + 1] = x], depth' = depth + 1,
         entering' = None, UNCHANGED <<priority, prigroup>>
  PROVE  Nested'
<1>0. \A e : Preemption(e)' = Preemption(e)
  BY PreemptionKept
<1>1. depth \in Nat /\ 1..depth' \subseteq Slots /\ depth + 1 \in Slots
  BY DEF TypeOK, Slots
<1>2. \A s \in 1..depth : active'[s] = active[s] /\ active[s] \in Exceptions
  BY <1>1 DEF TypeOK, Balance, Slots
<1>3. active'[depth + 1] = x
  BY <1>1 DEF TypeOK
<1>4. \A s \in 1..depth : Preemption(active[s]) \in Int
  BY <1>2, PreemptionLevel DEF TypeOK
<1>5. \A s \in 1..depth : Preemption(x) < Preemption(active[s])
  <2> SUFFICES ASSUME NEW s \in 1..depth PROVE Preemption(x) < Preemption(active[s])
    OBVIOUS
  <2>1. ipsr # None /\ active[depth] = ipsr /\ depth \in 1..depth
    BY <1>1 DEF Balance, HandlerIsTop, Disciplined
  <2>2. Preemption(x) < Preemption(active[depth])
    BY <2>1
  <2>3. s = depth \/ Preemption(active[depth]) < Preemption(active[s])
    BY <1>1, <2>1 DEF Nested
  <2> QED
    BY <1>4, <2>1, <2>2, <2>3, PreemptionLevel DEF TypeOK
<1>6. \A s, t \in 1..depth' : s < t => Preemption(active'[t]) < Preemption(active'[s])
  <2> SUFFICES ASSUME NEW s \in 1..depth', NEW t \in 1..depth', s < t
               PROVE  Preemption(active'[t]) < Preemption(active'[s])
    OBVIOUS
  <2>1. s \in 1..depth
    BY <1>1
  <2>2. CASE t = depth + 1
    BY <1>2, <1>3, <1>5, <2>1, <2>2
  <2>3. CASE t # depth + 1
    <3>1. t \in 1..depth
      BY <1>1, <2>3
    <3> QED
      BY <1>2, <2>1, <3>1 DEF Nested
  <2> QED
    BY <2>2, <2>3
<1> QED
  BY <1>0, <1>6 DEF Nested

(* A handler that replaces the top of the stack, more urgent than the one below. *)
LEMMA NestedReplaced ==
  ASSUME TypeOK, Balance, Nested, NEW x \in Exceptions, depth \in Slots,
         depth > 1 => Preemption(x) < Preemption(active[depth - 1]),
         active' = [active EXCEPT ![depth] = x], depth' = depth,
         entering' = None, UNCHANGED <<priority, prigroup>>
  PROVE  Nested'
<1>0. \A e : Preemption(e)' = Preemption(e)
  BY PreemptionKept
<1>1. depth \in Nat /\ 1..depth \subseteq Slots
  BY DEF Slots
<1>2. \A s \in 1..depth : active[s] \in Exceptions /\ Preemption(active[s]) \in Int
  BY <1>1, PreemptionLevel DEF TypeOK, Balance
<1>3. \A s \in 1..depth : active'[s] = IF s = depth THEN x ELSE active[s]
  BY <1>1 DEF TypeOK
<1>4. \A s, t \in 1..depth : s < t => Preemption(active'[t]) < Preemption(active'[s])
  <2> SUFFICES ASSUME NEW s \in 1..depth, NEW t \in 1..depth, s < t
               PROVE  Preemption(active'[t]) < Preemption(active'[s])
    OBVIOUS
  <2>1. active'[s] = active[s]
    BY <1>1, <1>3
  <2>2. CASE t = depth
    <3>1. depth > 1 /\ depth - 1 \in 1..depth /\ active'[t] = x
      BY <1>1, <1>3, <2>2
    <3>2. s = depth - 1 \/ Preemption(active[depth - 1]) < Preemption(active[s])
      BY <1>1, <2>2, <3>1 DEF Nested
    <3> QED
      BY <1>2, <2>1, <3>1, <3>2, PreemptionLevel DEF TypeOK
  <2>3. CASE t # depth
    BY <1>3, <2>1, <2>3 DEF Nested
  <2> QED
    BY <2>2, <2>3
<1> QED
  BY <1>0, <1>4 DEF Nested

(* Late arrival picks an exception that is at least as urgent as the one
   whose frame was stacked. *)
LEMMA LateArrivalPreempts ==
  ASSUME NEW e, NEW x, e # None, LateArrival(e, x)
  PROVE  x = e \/ Preemption(x) < Preemption(e)
BY DEF LateArrival, MostUrgent, SelectedPending, CanPreempt

(* Every step of a disciplined core keeps its handlers nested by urgency. *)
LEMMA NestedStep ==
  ASSUME Disciplined
  PROVE  TypeOK /\ Balance /\ Nested /\ [Next]_vars => Nested'
<1> SUFFICES ASSUME TypeOK, Balance, Nested, [Next]_vars PROVE Nested'
  OBVIOUS
<1> DEFINE Unmoved == UNCHANGED <<active, depth, ipsr, entering, priority, prigroup>>
<1>0. NvicTypeOK
  BY DEF TypeOK
<1>1. CASE Unmoved
  BY <1>1, NestedKept
<1>2. CASE TakePending
  <2>1. PICK e \in Candidates : entering' = e
    BY <1>2 DEF TakePending, MostUrgent
  <2>2. ipsr = None \/ Preemption(e) < Preemption(ipsr)
    BY <2>1 DEF Candidates, CanPreempt
  <2>3. UNCHANGED <<active, depth, ipsr, priority, prigroup>>
    BY <1>2 DEF TakePending, nvicVars, configVars
  <2>4. \A f : Preemption(f)' = Preemption(f)
    BY <2>3, PreemptionKept
  <2> QED
    BY <2>1, <2>2, <2>3, <2>4 DEF Nested
<1>3. CASE CommitEntry
  <2>1. PICK x \in Exceptions : LateArrival(entering, x) /\ Enter(x, pending)
    BY <1>3 DEF CommitEntry
  <2>2. entering # None /\ entering \in Exceptions /\ entering' = None
        /\ UNCHANGED <<priority, prigroup, frame_depth, nonbase>> /\ phase' = "execute"
    BY <1>3 DEF CommitEntry, Balance, TypeOK, configVars
  <2>3. ipsr = None \/ Preemption(x) < Preemption(ipsr)
    <3>1. CASE ipsr # None
      BY <1>0, <2>1, <2>2, <3>1, LateArrivalPreempts, PreemptionLevel DEF Nested, TypeOK
    <3> QED
      BY <3>1
  <2>4. depth < FrameLimit
    BY <2>1, <2>2, BalanceEntered
  <2> QED
    BY <2>1, <2>2, <2>3, <2>4, NestedPushed DEF Enter, Activate
<1>4. CASE EntryVectorFault
  <2>1. entering # None /\ entering' = None
        /\ UNCHANGED <<priority, prigroup, frame_depth, nonbase>> /\ phase' = "execute"
    BY <1>4 DEF EntryVectorFault, Balance, configVars
  <2>2. Enter(HardFault, pending \cup {HardFault}) /\ ipsr \notin {NMI, HardFault}
    BY <1>4 DEF EntryVectorFault
  <2>3. ipsr = None \/ Preemption(HardFault) < Preemption(ipsr)
    BY <1>0, <2>2, PreemptionLevel DEF TypeOK
  <2>4. depth < FrameLimit
    BY <2>1, <2>2, ExceptionNumbers, BalanceEntered
  <2> QED
    BY <2>1, <2>2, <2>3, <2>4, ExceptionNumbers, NestedPushed DEF Enter, Activate
<1>5. CASE TailChain
  <2>1. PICK kind \in ReturnKinds, x \in Exceptions :
          /\ Returning(kind) /\ ValidReturn(kind) /\ Chain(x, pending)
          /\ CanPreempt(x, ReturnTarget(kind))
    BY <1>5 DEF TailChain, MostUrgent, SelectedPending
  <2>2. depth \in Slots /\ (kind = "handler" => depth > 1) /\ (kind # "handler" => depth = 1)
    BY <2>1 DEF ValidReturn, TypeOK, Slots, Balance, Disciplined
  <2>3. /\ active' = [active EXCEPT ![depth] = x] /\ depth' = depth
        /\ entering = None /\ entering' = None /\ UNCHANGED <<priority, prigroup>>
    BY <2>1 DEF Chain, Activate, Returning, Executing, InstructionEnds, Balance, configVars
  <2>4. depth > 1 => Preemption(x) < Preemption(active[depth - 1])
    <3>1. SUFFICES ASSUME depth > 1 PROVE Preemption(x) < Preemption(active[depth - 1])
      OBVIOUS
    <3>2. depth - 1 \in 1..depth /\ kind = "handler"
      BY <2>2, <3>1 DEF Slots
    <3>3. ReturnTarget(kind) = active[depth - 1] /\ active[depth - 1] # None
      BY <3>2 DEF ReturnTarget, Balance
    <3> QED
      BY <2>1, <3>3 DEF CanPreempt
  <2> QED
    BY <2>2, <2>3, <2>4, NestedReplaced
<1>6. CASE TailChainVectorFault
  <2>1. PICK kind \in ReturnKinds :
          /\ Returning(kind) /\ ValidReturn(kind) /\ Chain(HardFault, pending \cup {HardFault})
          /\ ipsr \notin {NMI, HardFault}
    BY <1>6 DEF TailChainVectorFault
  <2>2. depth \in Slots /\ active[depth] = ipsr /\ ipsr # None
    BY <2>1 DEF ValidReturn, TypeOK, Slots
  <2>3. /\ active' = [active EXCEPT ![depth] = HardFault] /\ depth' = depth
        /\ entering = None /\ entering' = None /\ UNCHANGED <<priority, prigroup>>
    BY <2>1 DEF Chain, Activate, Returning, Executing, InstructionEnds, Balance, configVars
  <2>4. depth > 1 => Preemption(HardFault) < Preemption(active[depth - 1])
    <3>1. SUFFICES ASSUME depth > 1
                   PROVE  Preemption(HardFault) < Preemption(active[depth - 1])
      OBVIOUS
    <3>2. depth - 1 \in 1..depth /\ depth \in 1..depth /\ depth - 1 < depth
      BY <2>2, <3>1 DEF Slots
    <3>3. Preemption(ipsr) < Preemption(active[depth - 1])
      BY <2>2, <3>2 DEF Nested
    <3>4. ipsr \in Exceptions /\ active[depth - 1] \in Exceptions
      BY <2>2, <3>2 DEF TypeOK, Balance, Slots
    <3> QED
      BY <1>0, <2>1, <3>3, <3>4, PreemptionLevel
  <2> QED
    BY <2>2, <2>3, <2>4, ExceptionNumbers, NestedReplaced
<1>7. CASE Return
  <2>1. /\ depth \in Slots /\ active' = [active EXCEPT ![depth] = None] /\ depth' = depth - 1
        /\ entering = None /\ entering' = None /\ UNCHANGED <<priority, prigroup>>
    BY <1>7 DEF Return, Unstacking, ValidReturn, Returning, Executing, InstructionEnds, Balance,
                configVars, TypeOK, Slots
  <2>2. \A s \in 1..depth' : s \in 1..depth /\ active'[s] = active[s]
    BY <2>1 DEF TypeOK, Slots
  <2>3. \A e : Preemption(e)' = Preemption(e)
    BY <2>1, PreemptionKept
  <2> QED
    BY <2>1, <2>2, <2>3 DEF Nested
<1>8. CASE WritePriority
  <2>1. depth = 0 /\ depth' = 0 /\ entering = None /\ entering' = None
    BY <1>8 DEF WritePriority, CoreUnchanged, Executing, InstructionEnds, Balance, Disciplined,
                stackVars
  <2> QED
    BY <2>1 DEF Nested
<1>9. CASE Reset
  <2>1. depth' = 0 /\ entering' = None
    BY <1>9 DEF Reset, CoreReset
  <2> QED
    BY <2>1 DEF Nested
<1>10. CASE StackingFails
  <2>1. PICK e \in Candidates, fault \in {MemManage, BusFault} : EntryFault(e, fault)
    BY <1>10 DEF StackingFails
  <2>2. UNCHANGED <<priority, prigroup>>
    BY <2>1 DEF EntryFault, RaiseFault, nvicVars, configVars
  <2> QED
    BY <1>1, <1>10, <2>2 DEF StackingFails, stackVars
<1>11. CASE NothingPending \/ SleepCycle \/ TailChainLockup
  BY <1>1, <1>11 DEF NothingPending, SleepCycle, TailChainLockup, Returning, InstructionEnds,
                     stackVars, nvicVars, configVars
<1>15. CASE EntryVectorLockup
  <2>1. entering' = None /\ UNCHANGED <<active, depth, priority, prigroup>>
    BY <1>15 DEF EntryVectorLockup, stackVars, configVars
  <2>2. \A e : Preemption(e)' = Preemption(e)
    BY <2>1, PreemptionKept
  <2> QED
    BY <2>1, <2>2 DEF Nested
<1>12. CASE FaultingInstruction \/ UndefinedInstruction \/ InvalidReturn \/ UnstackingFails
  BY <1>1, <1>12 DEF FaultingInstruction, UndefinedInstruction, InvalidReturn, UnstackingFails,
       Unstacking, Returning, RaiseFault, InstructionEnds, stackVars, nvicVars, configVars
<1>13. CASE \/ OtherInstruction \/ Breakpoint \/ Svc \/ Wfi \/ Wfe \/ Sev \/ WriteMask
            \/ WriteBasepriMax \/ WriteControl \/ WriteEnable \/ WriteSetPending
            \/ WriteClearPending \/ WriteShcsr \/ WriteScr
  BY <1>1, <1>13 DEF OtherInstruction, Breakpoint, Svc, Wfi, Wfe, Sev, WriteMask,
       WriteBasepriMax, WriteControl, WriteEnable, WriteSetPending, WriteClearPending,
       WriteShcsr, WriteScr, CoreUnchanged, InstructionEnds, stackVars, nvicVars, configVars
<1>14. CASE SetIrq \/ SetIrqLevel \/ SysTickExpires \/ SetBreakpoint \/ UNCHANGED vars
  BY <1>1, <1>14 DEF SetIrq, SetIrqLevel, SysTickExpires, SetBreakpoint, Untouched, stackVars,
       stepVars, nvicVars, configVars, vars
<1> QED
  BY <1>2, <1>3, <1>4, <1>5, <1>6, <1>7, <1>8, <1>9, <1>10, <1>11, <1>12, <1>13, <1>14, <1>15
     DEF Next, CoreStep, Instruction, Environment

-----------------------------------------------------------------------------
(* The stack of active exceptions and the active bits *)

(* No exception is active twice: each preempts the one it interrupted. *)
LEMMA NoRepeats ==
  ASSUME TypeOK, Balance, Nested
  PROVE  \A s, t \in 1..depth : active[s] = active[t] => s = t
<1> SUFFICES ASSUME NEW s \in 1..depth, NEW t \in 1..depth, active[s] = active[t], s < t
             PROVE  FALSE
  BY DEF TypeOK
<1>1. s \in Slots /\ active[s] \in Exceptions
  BY DEF TypeOK, Balance, Slots
<1>2. Preemption(active[s]) \in Int
  BY <1>1, PreemptionLevel DEF TypeOK
<1> QED
  BY <1>2 DEF Nested

(* An entry adds the handler that is entered to the active exceptions ... *)
LEMMA ActivePushed ==
  ASSUME TypeOK, depth < FrameLimit, NEW x,
         active' = [active EXCEPT ![depth + 1] = x], depth' = depth + 1
  PROVE  Active' = Active \cup {x}
<1>1. depth \in Nat /\ 1..(depth + 1) = 1..depth \cup {depth + 1} /\ depth + 1 \in Slots
  BY DEF TypeOK, Slots
<1>2. /\ active'[depth + 1] = x
      /\ \A s \in 1..depth : s \in Slots /\ s # depth + 1 /\ active'[s] = active[s]
  BY <1>1 DEF TypeOK, Slots
<1> QED
  BY <1>1, <1>2 DEF Active

(* ... a tail chain puts it in the place of the one that ends ... *)
LEMMA ActiveReplaced ==
  ASSUME TypeOK, Balance, Nested, depth \in Slots, NEW x,
         active' = [active EXCEPT ![depth] = x], depth' = depth
  PROVE  Active' = (Active \ {active[depth]}) \cup {x}
<1>1. depth \in 1..depth /\ 1..depth \subseteq Slots
  BY DEF TypeOK, Slots
<1>2. \A s \in 1..depth : active'[s] = IF s = depth THEN x ELSE active[s]
  BY <1>1 DEF TypeOK
<1>3. \A s \in 1..depth : s # depth => active[s] # active[depth]
  BY <1>1, NoRepeats
<1> QED
  BY <1>1, <1>2, <1>3 DEF Active

(* ... and a return takes off the one that ends. *)
LEMMA ActivePopped ==
  ASSUME TypeOK, Balance, Nested, depth \in Slots,
         active' = [active EXCEPT ![depth] = None], depth' = depth - 1
  PROVE  Active' = Active \ {active[depth]}
<1>1. depth \in 1..depth /\ 1..depth \subseteq Slots /\ 1..depth = 1..(depth - 1) \cup {depth}
  BY DEF TypeOK, Slots
<1>2. \A s \in 1..(depth - 1) : s \in 1..depth /\ s # depth /\ active'[s] = active[s]
  BY <1>1 DEF TypeOK, Slots
<1>3. \A s \in 1..depth : s # depth => active[s] # active[depth]
  BY <1>1, NoRepeats
<1> QED
  BY <1>1, <1>2, <1>3 DEF Active

(* There are as many active exceptions as slots in use. *)
LEMMA ActiveCounted ==
  ASSUME TypeOK, Balance, Nested
  PROVE  Cardinality(Active) = depth /\ Active \subseteq Exceptions
<1> DEFINE f == [s \in 1..depth |-> active[s]]
<1>1. depth \in Nat /\ depth \in Int /\ 1 \in Int
  BY DEF TypeOK
<1>2. f \in Surjection(1..depth, Active)
  BY DEF Surjection, Active
<1>3. f \in Injection(1..depth, Active)
  BY NoRepeats DEF Injection, IsInjective, Active
<1>4. IsFiniteSet(1..depth) /\ Cardinality(1..depth) = depth
  BY <1>1, FS_Interval
<1>5. Cardinality(Active) = Cardinality(1..depth)
  BY <1>2, <1>3, <1>4, FS_Surjection
<1>6. \A s \in 1..depth : active[s] \in Exceptions
  BY DEF TypeOK, Balance, Slots
<1> QED
  BY <1>4, <1>5, <1>6 DEF Active

(* The inductive invariant: the active bits are those of the interrupts on the
   stack, and the frames lead through handlers down to thread mode. *)
Accounted ==
  /\ irq_active = Active \cap Irqs
  /\ \A s \in 1..frame_depth : (frames[s] = "handler") = (s > 1)

(* A step that leaves both stacks and the active bits alone keeps the account. *)
LEMMA AccountKept ==
  ASSUME Accounted, UNCHANGED <<active, depth, irq_active, frames, frame_depth>>
  PROVE  Accounted'
BY DEF Accounted, Active

(* Every step of a disciplined core keeps the account of its handlers. *)
LEMMA AccountStep ==
  ASSUME Disciplined
  PROVE  TypeOK /\ Balance /\ Nested /\ Accounted /\ [Next]_vars => Accounted'
<1> SUFFICES ASSUME TypeOK, Balance, Nested, Accounted, [Next]_vars PROVE Accounted'
  OBVIOUS
<1> DEFINE Unmoved == UNCHANGED <<active, depth, irq_active, frames, frame_depth>>
<1>0. Unmoved => Accounted'
  BY AccountKept
<1>1. CASE TakePending
  <2>1. /\ UNCHANGED <<active, depth, irq_active>> /\ frame_depth' = frame_depth + 1
        /\ frames' = [frames EXCEPT ![frame_depth + 1] = FrameKind]
        /\ phase = "boundary" /\ stop = "running" /\ frame_depth < FrameLimit
    BY <1>1 DEF TakePending, Boundary, RoomForFrame, nvicVars, pendVars
  <2>2. frame_depth = depth /\ depth \in Nat /\ (ipsr # None <=> depth > 0)
    BY <2>1 DEF Balance, FramesMatchHandlers, HandlerIsTop, Disciplined, TypeOK
  <2>3. (FrameKind = "handler") = (depth > 0)
    BY <2>2 DEF FrameKind
  <2>4. /\ \A s \in 1..frame_depth : frames'[s] = frames[s]
        /\ frames'[frame_depth + 1] = FrameKind
    BY <2>1, <2>2 DEF TypeOK, Slots
  <2>5. \A s \in 1..(frame_depth + 1) : (frames'[s] = "handler") = (s > 1)
    <3> SUFFICES ASSUME NEW s \in 1..(frame_depth + 1)
                 PROVE  (frames'[s] = "handler") = (s > 1)
      OBVIOUS
    <3>1. CASE s = frame_depth + 1
      BY <3>1, <2>2, <2>3, <2>4
    <3>2. CASE s # frame_depth + 1
      BY <3>2, <2>2, <2>4 DEF Accounted
    <3> QED
      BY <3>1, <3>2
  <2> QED
    BY <2>1, <2>5 DEF Accounted, Active
<1>2. ASSUME NEW x \in Exceptions, NEW p, Enter(x, p), entering # None, entering' = None,
             phase' = "execute", UNCHANGED <<frames, frame_depth, nonbase>>
      PROVE  Accounted'
  <2>1. depth < FrameLimit
    BY <1>2, BalanceEntered
  <2>2. /\ active' = [active EXCEPT ![depth + 1] = x] /\ depth' = depth + 1
        /\ irq_active' = irq_active \cup ({x} \cap Irqs)
    BY <1>2, <2>1 DEF Enter, Activate
  <2>3. Active' = Active \cup {x}
    BY <2>1, <2>2, ActivePushed
  <2> QED
    BY <1>2, <2>2, <2>3 DEF Accounted
<1>3. CASE CommitEntry
  BY <1>2, <1>3 DEF CommitEntry, Balance
<1>4. CASE EntryVectorFault
  BY <1>2, <1>4, ExceptionNumbers DEF EntryVectorFault, Balance
<1>5. ASSUME NEW kind, NEW x \in Exceptions, NEW p, Returning(kind), ValidReturn(kind), Chain(x, p)
      PROVE  Accounted'
  <2>1. /\ depth \in Slots /\ active[depth] = ipsr /\ depth' = depth
        /\ active' = [active EXCEPT ![depth] = x]
        /\ irq_active' = (irq_active \ {ipsr}) \cup ({x} \cap Irqs)
        /\ UNCHANGED <<frames, frame_depth>>
    BY <1>5 DEF ValidReturn, TypeOK, Slots, Chain, Activate, ActiveAfter
  <2>2. Active' = (Active \ {ipsr}) \cup {x}
    BY <2>1, ActiveReplaced
  <2> QED
    BY <2>1, <2>2 DEF Accounted
<1>6. CASE TailChain
  BY <1>5, <1>6 DEF TailChain
<1>7. CASE TailChainVectorFault
  BY <1>5, <1>7, ExceptionNumbers DEF TailChainVectorFault
<1>8. CASE Return
  <2>1. PICK kind \in ReturnKinds :
          /\ ValidReturn(kind) /\ irq_active' = irq_active \ {ipsr}
          /\ active' = [active EXCEPT ![depth] = None] /\ depth' = depth - 1
          /\ frames' = [frames EXCEPT ![frame_depth] = "none"] /\ frame_depth' = frame_depth - 1
    BY <1>8 DEF Return, Unstacking, ActiveAfter
  <2>2. depth \in Slots /\ active[depth] = ipsr /\ frame_depth \in Slots
    BY <2>1 DEF ValidReturn, TypeOK, Slots
  <2>3. Active' = Active \ {ipsr}
    BY <2>1, <2>2, ActivePopped
  <2>4. \A s \in 1..frame_depth' : s \in 1..frame_depth /\ frames'[s] = frames[s]
    BY <2>1, <2>2 DEF TypeOK, Slots
  <2> QED
    BY <2>1, <2>3, <2>4 DEF Accounted
<1>9. CASE Reset
  <2>1. depth' = 0 /\ frame_depth' = 0 /\ irq_active' = {}
    BY <1>9 DEF Reset, CoreReset, NvicReset
  <2> QED
    BY <2>1 DEF Accounted, Active
<1>10. CASE StackingFails
  <2>1. PICK e \in Candidates, fault \in {MemManage, BusFault} : EntryFault(e, fault)
    BY <1>10 DEF StackingFails
  <2>2. UNCHANGED irq_active
    BY <2>1 DEF EntryFault, RaiseFault, nvicVars, pendVars
  <2> QED
    BY <1>0, <1>10, <2>2 DEF StackingFails, stackVars
<1>11. CASE NothingPending \/ SleepCycle \/ TailChainLockup \/ EntryVectorLockup
  BY <1>0, <1>11 DEF NothingPending, SleepCycle, TailChainLockup, EntryVectorLockup, Returning,
                     InstructionEnds, stackVars, nvicVars, pendVars
<1>12. CASE FaultingInstruction \/ UndefinedInstruction \/ InvalidReturn \/ UnstackingFails
  BY <1>0, <1>12 DEF FaultingInstruction, UndefinedInstruction, InvalidReturn, UnstackingFails,
       Unstacking, Returning, RaiseFault, InstructionEnds, stackVars, nvicVars, pendVars
<1>13. CASE \/ OtherInstruction \/ Breakpoint \/ Svc \/ Wfi \/ Wfe \/ Sev \/ WriteMask
            \/ WriteBasepriMax \/ WriteControl \/ WriteEnable \/ WriteSetPending
            \/ WriteClearPending \/ WriteShcsr \/ WritePriority \/ WriteScr
  BY <1>0, <1>13 DEF OtherInstruction, Breakpoint, Svc, Wfi, Wfe, Sev, WriteMask,
       WriteBasepriMax, WriteControl, WriteEnable, WriteSetPending, WriteClearPending,
       WriteShcsr, WritePriority, WriteScr, CoreUnchanged, InstructionEnds, stackVars, nvicVars,
       pendVars
<1>14. CASE SetIrq \/ SetIrqLevel \/ SysTickExpires \/ SetBreakpoint \/ UNCHANGED vars
  BY <1>0, <1>14 DEF SetIrq, SetIrqLevel, SysTickExpires, SetBreakpoint, Untouched, stackVars,
       stepVars, nvicVars, pendVars, vars
<1> QED
  BY <1>1, <1>3, <1>4, <1>6, <1>7, <1>8, <1>9, <1>10, <1>11, <1>12, <1>13, <1>14
     DEF Next, CoreStep, Instruction, Environment

-----------------------------------------------------------------------------
(* The most urgent exception is entered *)

(* Entry ends in one of three ways. *)
LEMMA EntriesEnd ==
  ASSUME [Next]_vars, phase = "entering", phase' = "execute"
  PROVE  CommitEntry \/ EntryVectorFault \/ EntryVectorLockup
<1>1. CASE NothingPending \/ TakePending \/ StackingFails \/ SleepCycle
  BY <1>1 DEF NothingPending, TakePending, StackingFails, SleepCycle, Boundary
<1>2. CASE InvalidReturn \/ TailChain \/ TailChainVectorFault \/ TailChainLockup
            \/ UnstackingFails \/ Return
  BY <1>2 DEF InvalidReturn, TailChain, TailChainVectorFault, TailChainLockup, UnstackingFails,
              Return, Unstacking, Returning, Executing
<1>3. CASE \/ FaultingInstruction \/ UndefinedInstruction
            \/ OtherInstruction \/ Breakpoint \/ Svc \/ Wfi \/ Wfe \/ Sev \/ WriteMask
            \/ WriteBasepriMax \/ WriteControl \/ WriteEnable \/ WriteSetPending
            \/ WriteClearPending \/ WriteShcsr \/ WritePriority \/ WriteScr
  BY <1>3 DEF FaultingInstruction, UndefinedInstruction, OtherInstruction, Breakpoint, Svc, Wfi,
       Wfe, Sev, WriteMask, WriteBasepriMax, WriteControl, WriteEnable, WriteSetPending,
       WriteClearPending, WriteShcsr, WritePriority, WriteScr, CoreUnchanged, Executing
<1>4. CASE SetIrq \/ SetIrqLevel \/ SysTickExpires \/ Reset \/ SetBreakpoint \/ UNCHANGED vars
  BY <1>4 DEF SetIrq, SetIrqLevel, SysTickExpires, Reset, SetBreakpoint, Untouched, stepVars, vars
<1> QED
  BY <1>1, <1>2, <1>3, <1>4 DEF Next, CoreStep, Instruction, Environment

(* Late arrival leaves nothing behind that preempts what it picks, except among the
   exceptions that are active already. *)
LEMMA LateArrivalIsMostUrgent ==
  ASSUME NvicTypeOK, NEW e \in Exceptions, NEW x \in Exceptions, LateArrival(e, x),
         NEW f \in Deliverable, f \notin Active, ~Masked(f)
  PROVE  Preemption(x) <= Preemption(f)
<1>1. f \in Exceptions /\ e # None
  BY ExceptionNumbers DEF NvicTypeOK, Deliverable
<1>2. Preemption(x) \in Int /\ Preemption(f) \in Int /\ Preemption(e) \in Int
  BY <1>1, PreemptionLevel
<1>3. CASE ~CanPreempt(f, e)
  BY <1>1, <1>2, <1>3, LateArrivalPreempts DEF CanPreempt
<1>4. CASE CanPreempt(f, e)
  <2>1. f \in SelectedPending(e, None)
    BY <1>4 DEF SelectedPending
  <2>2. CASE MostUrgent(x, SelectedPending(e, None))
    BY <1>2, <2>1, <2>2 DEF MostUrgent, Before
  <2>3. CASE x = e /\ ~Before(f, e)
    BY <1>1, <1>4, <2>3 DEF Before, CanPreempt
  <2> QED
    BY <2>1, <2>2, <2>3 DEF LateArrival
<1> QED
  BY <1>3, <1>4

(* No exception that is eligible when the vector is fetched preempts the one that
   is entered. *)
LEMMA UrgentStep ==
  ASSUME TypeOK, Balance, [Next]_vars, phase = "entering", phase' = "execute",
         stop' = "running", ipsr' # HardFault, NEW f \in Candidates \ Active
  PROVE  Preemption(ipsr') <= Preemption(f)
<1>1. CASE CommitEntry
  <2>1. PICK x \in Exceptions : LateArrival(entering, x) /\ Enter(x, pending)
    BY <1>1 DEF CommitEntry
  <2>2. ipsr' = x
    BY <2>1 DEF Enter, Activate
  <2>3. entering \in Exceptions /\ NvicTypeOK
    BY DEF Balance, TypeOK
  <2>4. f \in Deliverable /\ ~Masked(f)
    BY DEF Candidates, CanPreempt
  <2> QED
    BY <2>1, <2>2, <2>3, <2>4, LateArrivalIsMostUrgent
<1>2. CASE EntryVectorFault
  BY <1>2 DEF EntryVectorFault, Enter, Activate
<1>3. CASE EntryVectorLockup
  BY <1>3 DEF EntryVectorLockup
<1> QED
  BY <1>1, <1>2, <1>3, EntriesEnd

-----------------------------------------------------------------------------
(* Nothing runs while something more urgent is eligible *)

(* As many frames fit as there are exceptions in use: the arrays of the code have
   sixteen slots, and firmware that keeps to fewer exceptions cannot fill them. *)
RoomForAll == Cardinality(Exceptions) <= FrameLimit

(* Finitely many exceptions are in use. *)
LEMMA ExceptionsFinite == IsFiniteSet(Exceptions)
<1> DEFINE low == 0
           high == 15
           numbers == low..high
<1>1. SystemExceptions \in SUBSET numbers
  BY DEF SystemExceptions, NMI, HardFault
<1>2. low \in Int /\ high \in Int
  OBVIOUS
<1> HIDE DEF low, high
<1>3. IsFiniteSet(numbers)
  BY <1>2, FS_Interval
<1> HIDE DEF numbers
<1>4. IsFiniteSet(SystemExceptions)
  BY <1>1, <1>3, FS_Subset
<1> QED
  BY <1>4, IrqsFinite, FS_Union DEF Exceptions

(* What preempts the running handler is not active. *)
LEMMA CandidatesAreInactive ==
  ASSUME Disciplined, TypeOK, Balance, Nested, NEW e \in Exceptions,
         ipsr = None \/ Preemption(e) < Preemption(ipsr)
  PROVE  e \notin Active
<1> SUFFICES ASSUME NEW s \in 1..depth, e = active[s] PROVE FALSE
  BY DEF Active
<1>1. /\ ipsr # None /\ active[depth] = ipsr /\ depth \in 1..depth
      /\ Preemption(e) \in Int /\ Preemption(ipsr) \in Int
  BY PreemptionLevel DEF Balance, HandlerIsTop, Disciplined, TypeOK
<1>2. s = depth \/ Preemption(active[depth]) < Preemption(active[s])
  BY <1>1 DEF Nested, TypeOK
<1> QED
  BY <1>1, <1>2

(* There is room for the frame of whatever is selected. *)
LEMMA RoomAtBoundary ==
  ASSUME Disciplined, RoomForAll, TypeOK, Balance, Nested, Boundary, NEW e \in Candidates
  PROVE  RoomForFrame
<1>1. e \in Exceptions /\ e \notin Active
  <2>1. e \in Exceptions
    BY DEF Candidates, Deliverable, TypeOK, NvicTypeOK
  <2> QED
    BY <2>1, CandidatesAreInactive DEF Candidates, CanPreempt
<1>2. Active \subseteq Exceptions /\ Cardinality(Active) = depth
  BY ActiveCounted
<1>3. /\ Cardinality(Active) <= Cardinality(Exceptions)
      /\ Cardinality(Active) # Cardinality(Exceptions)
      /\ Cardinality(Exceptions) \in Nat
  BY <1>1, <1>2, ExceptionsFinite, FS_Subset, FS_CardinalityType
<1>4. frame_depth = depth /\ depth \in Nat /\ FrameLimit \in Nat
  BY DEF Boundary, Balance, FramesMatchHandlers, Disciplined, TypeOK
<1> QED
  BY <1>2, <1>3, <1>4 DEF RoomForFrame, RoomForAll

(* What is eligible depends on the registers of the NVIC and on IPSR. *)
LEMMA CandidatesKept ==
  ASSUME UNCHANGED <<nvicVars, ipsr>>
  PROVE  Candidates' = Candidates
BY DEF Candidates, Deliverable, CanPreempt, Masked, Preemption, Group, Subpriorities, nvicVars,
       pendVars, configVars, maskVars

(* Once a handler is entered nothing eligible preempts it. *)
LEMMA NothingLeftBehind ==
  ASSUME Disciplined, TypeOK, Balance, Nested, CommitEntry
  PROVE  Candidates' = {}
<1>1. PICK x \in Exceptions : LateArrival(entering, x) /\ Enter(x, pending)
  BY DEF CommitEntry
<1>2. /\ entering \in Exceptions /\ NvicTypeOK /\ entering' = None /\ phase' = "execute"
      /\ UNCHANGED <<enabled, priority, prigroup, maskVars, frame_depth, nonbase>>
  BY DEF CommitEntry, Balance, TypeOK, configVars
<1>3. depth < FrameLimit
  BY <1>1, <1>2, BalanceEntered, ExceptionNumbers
<1>4. ipsr' = x /\ pending' = pending \ {x} /\ x # None
  BY <1>1, <1>3, ExceptionNumbers DEF Enter, Activate
<1>5. ipsr = None \/ Preemption(x) < Preemption(ipsr)
  BY <1>1, <1>2, LateArrivalPreempts, PreemptionLevel, ExceptionNumbers DEF Nested, TypeOK
<1> SUFFICES ASSUME NEW f \in Candidates' PROVE FALSE
  OBVIOUS
<1>6. f \in Deliverable /\ f \in Exceptions
  BY <1>2, <1>4 DEF Candidates, Deliverable, NvicTypeOK
<1>7. ~Masked(f) /\ Preemption(f) < Preemption(x)
  BY <1>2, <1>4 DEF Candidates, CanPreempt, Masked, Preemption, Group, Subpriorities, maskVars
<1>8. ipsr = None \/ Preemption(f) < Preemption(ipsr)
  BY <1>2, <1>5, <1>6, <1>7, PreemptionLevel DEF TypeOK
<1>9. f \notin Active
  BY <1>6, <1>8, CandidatesAreInactive
<1>10. Preemption(x) <= Preemption(f)
  BY <1>1, <1>2, <1>6, <1>7, <1>9, LateArrivalIsMostUrgent
<1> QED
  BY <1>2, <1>6, <1>7, <1>10, PreemptionLevel

(* Instructions and exception returns end the step. *)
LEMMA InstructionsEnd ==
  ASSUME Instruction \/ SleepCycle
  PROVE  phase = "execute" /\ phase' = "boundary"
<1>1. CASE InvalidReturn \/ TailChain \/ TailChainVectorFault \/ TailChainLockup
            \/ UnstackingFails \/ Return \/ SleepCycle
  BY <1>1 DEF InvalidReturn, TailChain, TailChainVectorFault, TailChainLockup, UnstackingFails,
              Return, SleepCycle, Unstacking, Returning, Executing, InstructionEnds
<1>2. CASE \/ FaultingInstruction \/ UndefinedInstruction
            \/ OtherInstruction \/ Breakpoint \/ Svc \/ Wfi \/ Wfe \/ Sev \/ WriteMask
            \/ WriteBasepriMax \/ WriteControl \/ WriteEnable \/ WriteSetPending
            \/ WriteClearPending \/ WriteShcsr \/ WritePriority \/ WriteScr
  BY <1>2 DEF FaultingInstruction, UndefinedInstruction, OtherInstruction, Breakpoint, Svc, Wfi,
       Wfe, Sev, WriteMask, WriteBasepriMax, WriteControl, WriteEnable, WriteSetPending,
       WriteClearPending, WriteShcsr, WritePriority, WriteScr, CoreUnchanged, Executing,
       InstructionEnds
<1> QED
  BY <1>1, <1>2 DEF Instruction

(* Software alone makes requests, and memory works. *)
Undisturbed ==
  /\ {"PULSE", "LEVEL", "STACKING", "VECTOR"} \cap Features = {}
  /\ SysTick \notin Configurable

(* Every step keeps an instruction from running below an eligible exception. *)
LEMMA InversionStep ==
  ASSUME Disciplined, Undisturbed, RoomForAll
  PROVE  TypeOK /\ Balance /\ Nested /\ NoInversion /\ [Next]_vars => NoInversion'
<1> SUFFICES ASSUME TypeOK, Balance, Nested, NoInversion, [Next]_vars, phase' = "execute"
             PROVE  Candidates' = {}
  BY DEF NoInversion
<1>1. CASE NothingPending
  BY <1>1, CandidatesKept DEF NothingPending, stackVars
<1>2. CASE StackingFails
  BY <1>2, RoomAtBoundary DEF StackingFails, Undisturbed
<1>3. CASE CommitEntry
  BY <1>3, NothingLeftBehind
<1>4. CASE Reset
  BY <1>4 DEF Reset, NvicReset, Candidates, Deliverable
<1>5. CASE SetBreakpoint \/ UNCHANGED vars
  BY <1>5, CandidatesKept DEF SetBreakpoint, stackVars, vars, stepVars, NoInversion, Disciplined,
                              Undisturbed
<1>6. CASE EntryVectorFault \/ EntryVectorLockup \/ SetIrq \/ SetIrqLevel \/ SysTickExpires
  BY <1>6 DEF EntryVectorFault, EntryVectorLockup, SetIrq, SetIrqLevel, SysTickExpires, Undisturbed
<1>7. CASE TakePending
  BY <1>7 DEF TakePending
<1> QED
  BY <1>1, <1>2, <1>3, <1>4, <1>5, <1>6, <1>7, InstructionsEnd DEF Next, CoreStep, Environment

(* There are no more active handlers than levels of urgency. *)
LEMMA NestingIsBounded == TypeOK /\ Balance /\ Nested => DepthBounded
<1> SUFFICES ASSUME TypeOK, Balance, Nested PROVE DepthBounded
  OBVIOUS
<1> DEFINE levels == {Preemption(e) : e \in Exceptions}
           level_of == [e \in Exceptions |-> Preemption(e)]
           f == [s \in 1..depth |-> Preemption(active[s])]
<1>1. IsFiniteSet(levels) /\ Cardinality(levels) \in Nat
  <2>1. level_of \in Surjection(Exceptions, levels)
    BY DEF Surjection
  <2> QED
    BY <2>1, ExceptionsFinite, FS_Surjection, FS_CardinalityType
<1>2. \A s \in 1..depth : active[s] \in Exceptions /\ Preemption(active[s]) \in Int
  BY PreemptionLevel DEF TypeOK, Balance, Slots
<1>3. f \in Injection(1..depth, levels)
  <2>1. \A s, t \in 1..depth : f[s] = f[t] => s = t
    <3> SUFFICES ASSUME NEW s \in 1..depth, NEW t \in 1..depth, f[s] = f[t], s < t PROVE FALSE
      BY DEF TypeOK
    <3> QED
      BY <1>2 DEF Nested
  <2>2. f \in [1..depth -> levels]
    BY <1>2
  <2> HIDE DEF f, levels
  <2> QED
    BY <2>1, <2>2 DEF Injection, IsInjective
<1>4. depth \in Nat /\ Cardinality(1..depth) = depth
  BY FS_Interval DEF TypeOK
<1>5. Cardinality(1..depth) <= Cardinality(levels)
  BY <1>1, <1>3, FS_Injection
<1> QED
  BY <1>4, <1>5 DEF DepthBounded

-----------------------------------------------------------------------------
(* Lockup *)

(* A core that locks up is in the handler of NMI or HardFault and runs no more. *)
LockedUp == stop = "lockup" => ipsr \in {NMI, HardFault} /\ phase = "boundary"

(* With memory that works, the core locks up only in those handlers. *)
LEMMA LockupStep ==
  ASSUME Disciplined, RoomForAll, {"STACKING", "VECTOR"} \cap Features = {}
  PROVE  TypeOK /\ Balance /\ Nested /\ LockedUp /\ [Next]_vars => LockedUp'
<1> SUFFICES ASSUME TypeOK, Balance, Nested, LockedUp, [Next]_vars, stop' = "lockup"
             PROVE  ipsr' \in {NMI, HardFault} /\ phase' = "boundary"
  BY DEF LockedUp
<1>1. CASE SetIrq \/ SetIrqLevel \/ SysTickExpires \/ UNCHANGED vars
  BY <1>1 DEF SetIrq, SetIrqLevel, SysTickExpires, Untouched, stackVars, stepVars, vars, LockedUp
<1>2. CASE Reset \/ SetBreakpoint
  BY <1>2 DEF Reset, SetBreakpoint
<1>3. CASE NothingPending \/ TakePending
  BY <1>3 DEF NothingPending, TakePending, Boundary
<1>4. CASE StackingFails
  BY <1>4, RoomAtBoundary DEF StackingFails
<1>5. CASE CommitEntry
  <2>1. PICK x \in Exceptions : LateArrival(entering, x) /\ Enter(x, pending)
    BY <1>5 DEF CommitEntry
  <2>2. /\ entering # None /\ entering' = None /\ phase = "entering" /\ phase' = "execute"
        /\ UNCHANGED <<frame_depth, nonbase>>
    BY <1>5 DEF CommitEntry, Balance
  <2>3. stop' = stop
    BY <2>1, <2>2, BalanceEntered
  <2> QED
    BY <2>2, <2>3 DEF LockedUp
<1>6. CASE EntryVectorFault \/ EntryVectorLockup \/ TailChainVectorFault \/ TailChainLockup
  BY <1>6 DEF EntryVectorFault, EntryVectorLockup, TailChainVectorFault, TailChainLockup
<1>7. CASE FaultingInstruction \/ UndefinedInstruction \/ InvalidReturn \/ UnstackingFails
  <2>1. UNCHANGED ipsr /\ phase = "execute" /\ phase' = "boundary"
    BY <1>7, InstructionsEnd DEF FaultingInstruction, UndefinedInstruction, InvalidReturn,
       UnstackingFails, Instruction, stackVars
  <2>2. stop' = stop \/ \E fault : RaiseFault(fault)
    BY <1>7 DEF FaultingInstruction, UndefinedInstruction, InvalidReturn, UnstackingFails
  <2> QED
    BY <2>1, <2>2 DEF RaiseFault, LockedUp
<1>8. CASE \/ OtherInstruction \/ Breakpoint \/ Svc \/ Wfi \/ Wfe \/ Sev \/ WriteMask
           \/ WriteBasepriMax \/ WriteControl \/ WriteEnable \/ WriteSetPending
           \/ WriteClearPending \/ WriteShcsr \/ WritePriority \/ WriteScr
           \/ TailChain \/ Return \/ SleepCycle
  <2>1. phase = "execute"
    BY <1>8, InstructionsEnd DEF Instruction
  <2>2. stop' # "lockup" \/ stop' = stop
    BY <1>8 DEF OtherInstruction, Breakpoint, Svc, Wfi, Wfe, Sev, WriteMask, WriteBasepriMax,
       WriteControl, WriteEnable, WriteSetPending, WriteClearPending, WriteShcsr, WritePriority,
       WriteScr, CoreUnchanged, TailChain, Chain, Return, SleepCycle
  <2> QED
    BY <2>1, <2>2 DEF LockedUp
<1> QED
  BY <1>1, <1>2, <1>3, <1>4, <1>5, <1>6, <1>7, <1>8 DEF Next, CoreStep, Instruction, Environment

-----------------------------------------------------------------------------
(* A disciplined core implements the stack of handlers of NestedHandlers *)

(* As long as the host withdraws no pulse, the exception whose frame is stacked is
   still pending when the entry is committed. *)
EntryWaits == entering # None => entering \in pending

(* Every step keeps it so. *)
LEMMA EntryWaitsStep ==
  ASSUME "PULSE" \notin Features
  PROVE  TypeOK /\ Balance /\ EntryWaits /\ [Next]_vars => EntryWaits'
<1> SUFFICES ASSUME TypeOK, Balance, EntryWaits, [Next]_vars, entering' # None
             PROVE  entering' \in pending'
  BY DEF EntryWaits
<1>1. CASE TakePending
  BY <1>1 DEF TakePending, MostUrgent, Candidates, Deliverable, nvicVars, pendVars
<1>2. CASE SetIrqLevel \/ SysTickExpires
  <2>1. UNCHANGED entering
    BY <1>2 DEF SetIrqLevel, SysTickExpires, Untouched, stepVars
  <2>2. pending \subseteq pending'
    <3>1. CASE SetIrqLevel
      BY <3>1 DEF SetIrqLevel, SetPending
    <3>2. CASE SysTickExpires
      BY <3>2 DEF SysTickExpires, SetPending
    <3> QED
      BY <1>2, <3>1, <3>2
  <2> QED
    BY <2>1, <2>2 DEF EntryWaits
<1>3. CASE SetIrq \/ Reset \/ CommitEntry \/ EntryVectorFault \/ EntryVectorLockup
  BY <1>3 DEF SetIrq, Reset, CoreReset, CommitEntry, EntryVectorFault, EntryVectorLockup
<1>4. CASE SetBreakpoint \/ UNCHANGED vars
  BY <1>4 DEF SetBreakpoint, vars, stepVars, nvicVars, pendVars, EntryWaits
<1>5. CASE NothingPending \/ StackingFails
  BY <1>5 DEF NothingPending, StackingFails, Boundary, Balance
<1>6. CASE Instruction \/ SleepCycle
  <2>1. UNCHANGED entering
    BY <1>6 DEF Instruction, SleepCycle, InvalidReturn, TailChain, TailChainVectorFault,
       TailChainLockup, UnstackingFails, Return, Unstacking, Returning, FaultingInstruction,
       UndefinedInstruction, OtherInstruction, Breakpoint, Svc, Wfi,
       Wfe, Sev, WriteMask, WriteBasepriMax, WriteControl, WriteEnable, WriteSetPending,
       WriteClearPending, WriteShcsr, WritePriority, WriteScr, CoreUnchanged, InstructionEnds
  <2> QED
    BY <1>6, <2>1, InstructionsEnd DEF Balance
<1> QED
  BY <1>1, <1>2, <1>3, <1>4, <1>5, <1>6 DEF Next, CoreStep, Environment

(* The variables of the abstract stack. *)
Stack == [s \in 1..depth |-> active[s]]
Urgency == [e \in Exceptions |-> Preemption(e)]

(* Urgencies are integers. *)
LEMMA UrgencyTyped == NvicTypeOK => Urgency \in [Exceptions -> Int]
BY PreemptionLevel DEF Urgency

(* They are so after a step as well. *)
LEMMA UrgencyTypedNext == TypeOK' => Urgency' \in [Exceptions -> Int]
<1>1. TypeOK => Urgency \in [Exceptions -> Int]
  BY UrgencyTyped DEF TypeOK
<1>2. (TypeOK => Urgency \in [Exceptions -> Int])'
  BY <1>1, PTL
<1> QED
  BY <1>2

(* Urgencies stand still where no priority is programmed. *)
LEMMA UrgencyKept ==
  ASSUME UNCHANGED <<priority, prigroup>>
  PROVE  Urgency' = Urgency
<1>1. \A e : Preemption(e)' = Preemption(e)
  BY PreemptionKept
<1> QED
  BY <1>1 DEF Urgency

(* The stack in use is a sequence, and the handler that runs is its last element. *)
LEMMA StackSequence ==
  ASSUME Disciplined, TypeOK, Balance
  PROVE  /\ Stack \in Seq(Exceptions) /\ Len(Stack) = depth /\ depth \in Nat
         /\ (Stack = <<>> <=> depth = 0)
         /\ \A s \in 1..depth : Stack[s] = active[s]
         /\ (depth = 0 <=> ipsr = None)
         /\ depth # 0 => Stack[Len(Stack)] = ipsr
<1>1. depth \in Nat /\ \A s \in 1..depth : active[s] \in Exceptions
  BY DEF TypeOK, Balance, Slots
<1>2. Stack \in Seq(Exceptions) /\ Len(Stack) = depth
  BY <1>1 DEF Stack
<1>3. \A s \in 1..depth : Stack[s] = active[s]
  BY <1>1 DEF Stack
<1>4. (depth = 0 <=> ipsr = None) /\ (depth # 0 => active[depth] = ipsr)
  BY <1>1 DEF Balance, HandlerIsTop, Disciplined
<1>5. Stack = <<>> <=> depth = 0
  BY <1>1, <1>2, EmptySeq DEF Stack
<1> QED
  BY <1>1, <1>2, <1>3, <1>4, <1>5

(* The initial states are those of the abstract stack. *)
LEMMA HandlersInit == Init => Handlers!Init
<1> SUFFICES ASSUME Init PROVE Handlers!Init
  OBVIOUS
<1>1. depth = 0 /\ pending = {}
  BY DEF Init, NvicInit, CoreInit
<1>2. Stack = <<>>
  BY <1>1 DEF Stack
<1>3. TypeOK
  BY TypeInitial
<1>4. Urgency \in [Exceptions -> Int]
  BY <1>3, UrgencyTyped DEF TypeOK
<1> QED
  BY <1>1, <1>2, <1>4 DEF Handlers!Init, Stack, Urgency

(* An entry is the beginning of a handler ... *)
LEMMA BeginStep ==
  ASSUME Disciplined, TypeOK, Balance, Nested, NEW x \in Exceptions, x \in pending \cup {HardFault},
         ipsr = None \/ Preemption(x) < Preemption(ipsr), depth < FrameLimit,
         active' = [active EXCEPT ![depth + 1] = x], depth' = depth + 1,
         pending' = pending \ {x}, UNCHANGED <<priority, prigroup>>
  PROVE  Handlers!Begin(x)
<1>1. Stack' = Append(Stack, x)
  <2>1. depth \in Nat /\ depth + 1 \in Slots /\ 1..(depth + 1) \subseteq Slots
    BY DEF TypeOK, Slots
  <2>2. \A s \in 1..(depth + 1) : active'[s] = IF s = depth + 1 THEN x ELSE active[s]
    BY <2>1 DEF TypeOK
  <2>3. Append([s \in 1..depth |-> active[s]], x)
          = [s \in 1..(depth + 1) |-> IF s = depth + 1 THEN x ELSE active[s]]
    BY <2>1
  <2> QED
    BY <2>2, <2>3 DEF Stack
<1>2. Urgency' = Urgency
  BY UrgencyKept
<1>3. Stack # <<>> => Urgency[x] < Urgency[Stack[Len(Stack)]]
  BY StackSequence DEF Urgency, TypeOK
<1> QED
  BY <1>1, <1>2, <1>3 DEF Handlers!Begin, Handlers!Running, Stack, Urgency

(* ... a tail chain is one handler taking over from another ... *)
LEMMA TakeOverStep ==
  ASSUME Disciplined, TypeOK, Balance, Nested, NEW x \in Exceptions, x \in pending \cup {HardFault},
         NEW kind, ValidReturn(kind), Returning(kind), NEW p, Chain(x, p),
         p \in {pending, pending \cup {x}},
         depth > 1 => Preemption(x) < Preemption(active[depth - 1])
  PROVE  Handlers!TakeOver(x)
<1>1. /\ depth \in Slots /\ ipsr # None /\ active[depth] = ipsr /\ depth' = depth
      /\ active' = [active EXCEPT ![depth] = x]
      /\ pending' = (p \cup ({ipsr} \cap level)) \ {x}
      /\ UNCHANGED <<priority, prigroup>>
  BY DEF ValidReturn, TypeOK, Slots, Chain, Activate, PendingAfter, configVars
<1>2. Stack' = [Stack EXCEPT ![Len(Stack)] = x]
  <2>1. Len(Stack) = depth /\ depth \in Nat /\ 1..depth \subseteq Slots /\ depth \in 1..depth
    BY <1>1, StackSequence DEF Slots
  <2>2. \A s \in 1..depth : active'[s] = IF s = depth THEN x ELSE active[s]
    BY <1>1, <2>1 DEF TypeOK
  <2>3. Stack' = [s \in 1..depth |-> IF s = depth THEN x ELSE active[s]]
    BY <1>1, <2>2 DEF Stack
  <2>4. [Stack EXCEPT ![depth] = x] = [s \in 1..depth |-> IF s = depth THEN x ELSE active[s]]
    BY DEF Stack
  <2> QED
    BY <2>1, <2>3, <2>4
<1>3. Urgency' = Urgency
  BY <1>1, UrgencyKept
<1>4. Stack # <<>> /\ Stack[Len(Stack)] = ipsr /\ Len(Stack) = depth
  BY <1>1, StackSequence DEF Slots
<1>5. Len(Stack) > 1 => Urgency[x] < Urgency[Stack[Len(Stack) - 1]]
  <2>1. SUFFICES ASSUME depth > 1 PROVE Urgency[x] < Urgency[Stack[depth - 1]]
    BY <1>4
  <2>2. depth - 1 \in 1..depth /\ depth - 1 \in Slots
    BY <1>1, <2>1 DEF Slots
  <2>3. Stack[depth - 1] = active[depth - 1] /\ active[depth - 1] \in Exceptions
    BY <2>2, StackSequence DEF TypeOK, Balance
  <2> QED
    BY <2>1, <2>3 DEF Urgency
<1> QED
  BY <1>1, <1>2, <1>3, <1>4, <1>5 DEF Handlers!TakeOver, Handlers!Running, Stack, Urgency

(* ... and a return is its end. *)
LEMMA EndStep ==
  ASSUME Disciplined, TypeOK, Balance, Return
  PROVE  Handlers!End
<1>1. PICK kind \in ReturnKinds :
        /\ ValidReturn(kind)
        /\ active' = [active EXCEPT ![depth] = None] /\ depth' = depth - 1
        /\ pending' = pending \cup ({ipsr} \cap level) /\ UNCHANGED <<priority, prigroup>>
  BY DEF Return, Unstacking, PendingAfter, configVars
<1>2. depth \in Slots /\ active[depth] = ipsr /\ ipsr # None
  BY <1>1 DEF ValidReturn, TypeOK, Slots
<1>3. Stack' = SubSeq(Stack, 1, Len(Stack) - 1)
  <2>1. Len(Stack) = depth /\ depth \in Nat \ {0}
    BY <1>2, StackSequence DEF Slots
  <2>2. \A s \in 1..(depth - 1) : active'[s] = active[s]
    BY <1>1, <1>2 DEF TypeOK, Slots
  <2>3. SubSeq([s \in 1..depth |-> active[s]], 1, depth - 1) = [s \in 1..(depth - 1) |-> active[s]]
    BY <2>1
  <2> QED
    BY <1>1, <2>1, <2>2, <2>3 DEF Stack
<1>4. Urgency' = Urgency
  BY <1>1, UrgencyKept
<1>5. Stack # <<>> /\ Stack[Len(Stack)] = ipsr
  BY <1>2, StackSequence DEF Slots
<1> QED
  BY <1>1, <1>3, <1>4, <1>5 DEF Handlers!End, Handlers!Running, Stack, Urgency

(* Every step of a disciplined core is a step of the abstract stack or leaves it
   alone. *)
LEMMA HandlersStep ==
  ASSUME Disciplined, TypeOK, TypeOK', Balance, Nested, EntryWaits, [Next]_vars
  PROVE  [Handlers!Next]_<<Stack, pending, Urgency>>
<1>0. NvicTypeOK /\ pending' \subseteq Exceptions
  BY DEF TypeOK, NvicTypeOK
<1>1. ASSUME UNCHANGED <<active, depth, priority, prigroup>>
      PROVE  Handlers!Request
  <2>1. Stack' = Stack /\ Urgency' = Urgency
    BY <1>1, UrgencyKept DEF Stack
  <2> QED
    BY <1>0, <2>1 DEF Handlers!Request, Stack, Urgency
<1>2. CASE CommitEntry
  <2>1. PICK x \in Exceptions : LateArrival(entering, x) /\ Enter(x, pending)
    BY <1>2 DEF CommitEntry
  <2>2. /\ entering # None /\ entering \in Exceptions /\ entering' = None /\ phase' = "execute"
        /\ UNCHANGED <<priority, prigroup, frame_depth, nonbase>>
    BY <1>2 DEF CommitEntry, Balance, TypeOK, configVars
  <2>3. ipsr = None \/ Preemption(x) < Preemption(ipsr)
    BY <1>0, <2>1, <2>2, LateArrivalPreempts, PreemptionLevel DEF Nested, TypeOK
  <2>4. depth < FrameLimit
    BY <2>1, <2>2, BalanceEntered
  <2>5. x \in pending
    BY <2>1, <2>2 DEF LateArrival, MostUrgent, SelectedPending, Deliverable, EntryWaits
  <2>6. Handlers!Begin(x)
    BY <2>1, <2>2, <2>3, <2>4, <2>5, BeginStep DEF Enter, Activate
  <2> QED
    BY <2>6 DEF Handlers!Next
<1>3. CASE EntryVectorFault
  <2>1. /\ entering # None /\ entering' = None /\ phase' = "execute"
        /\ UNCHANGED <<priority, prigroup, frame_depth, nonbase>>
        /\ Enter(HardFault, pending \cup {HardFault}) /\ ipsr \notin {NMI, HardFault}
    BY <1>3 DEF EntryVectorFault, Balance, configVars
  <2>2. ipsr = None \/ Preemption(HardFault) < Preemption(ipsr)
    BY <1>0, <2>1, PreemptionLevel DEF TypeOK
  <2>3. depth < FrameLimit
    BY <2>1, ExceptionNumbers, BalanceEntered
  <2>4. /\ active' = [active EXCEPT ![depth + 1] = HardFault] /\ depth' = depth + 1
        /\ pending' = pending \ {HardFault}
    BY <2>1, <2>3 DEF Enter, Activate
  <2>5. Handlers!Begin(HardFault)
    BY <2>1, <2>2, <2>3, <2>4, ExceptionNumbers, BeginStep
  <2> QED
    BY <2>5, ExceptionNumbers DEF Handlers!Next
<1>4. CASE TailChain
  <2>1. PICK kind \in ReturnKinds, x \in Exceptions :
          /\ Returning(kind) /\ ValidReturn(kind) /\ Chain(x, pending)
          /\ CanPreempt(x, ReturnTarget(kind)) /\ x \in pending
    BY <1>4 DEF TailChain, MostUrgent, SelectedPending, Deliverable
  <2>2. depth > 1 => Preemption(x) < Preemption(active[depth - 1])
    <3>1. SUFFICES ASSUME depth > 1 PROVE Preemption(x) < Preemption(active[depth - 1])
      OBVIOUS
    <3>2. depth - 1 \in 1..depth /\ kind = "handler"
      BY <2>1, <3>1 DEF ValidReturn, TypeOK, Slots, Balance, Disciplined
    <3>3. ReturnTarget(kind) = active[depth - 1] /\ active[depth - 1] # None
      BY <3>2 DEF ReturnTarget, Balance
    <3> QED
      BY <2>1, <3>3 DEF CanPreempt
  <2>3. Handlers!TakeOver(x)
    BY <2>1, <2>2, TakeOverStep
  <2> QED
    BY <2>3 DEF Handlers!Next
<1>5. CASE TailChainVectorFault
  <2>1. PICK kind \in ReturnKinds :
          /\ Returning(kind) /\ ValidReturn(kind) /\ Chain(HardFault, pending \cup {HardFault})
          /\ ipsr \notin {NMI, HardFault}
    BY <1>5 DEF TailChainVectorFault
  <2>2. depth > 1 => Preemption(HardFault) < Preemption(active[depth - 1])
    <3>1. SUFFICES ASSUME depth > 1
                   PROVE  Preemption(HardFault) < Preemption(active[depth - 1])
      OBVIOUS
    <3>2. /\ depth - 1 \in 1..depth /\ depth \in 1..depth /\ depth - 1 < depth
          /\ active[depth] = ipsr /\ depth \in Slots /\ 1..depth \subseteq Slots
      BY <2>1, <3>1 DEF ValidReturn, TypeOK, Slots
    <3>3. Preemption(ipsr) < Preemption(active[depth - 1])
      BY <3>2 DEF Nested
    <3>4. ipsr \in Exceptions /\ active[depth - 1] \in Exceptions
      BY <2>1, <3>2 DEF ValidReturn, TypeOK, Balance
    <3> QED
      BY <1>0, <2>1, <3>3, <3>4, PreemptionLevel
  <2>3. Handlers!TakeOver(HardFault)
    BY <2>1, <2>2, ExceptionNumbers, TakeOverStep
  <2> QED
    BY <2>3, ExceptionNumbers DEF Handlers!Next
<1>6. CASE Return
  BY <1>6, EndStep DEF Handlers!Next
<1>7. CASE WritePriority
  <2>1. depth = 0 /\ UNCHANGED <<active, depth, pending>>
    BY <1>7 DEF WritePriority, Disciplined, CoreUnchanged, stackVars, pendVars
  <2>2. Stack' = Stack /\ Stack = <<>>
    BY <2>1 DEF Stack
  <2>3. Urgency' \in [Exceptions -> Int]
    BY UrgencyTypedNext
  <2> QED
    BY <2>1, <2>2, <2>3 DEF Handlers!Reprogram, Handlers!Next, Stack, Urgency
<1>8. CASE Reset
  <2>1. depth' = 0 /\ pending' = {}
    BY <1>8 DEF Reset, CoreReset, NvicReset
  <2>2. Stack' = <<>>
    BY <2>1 DEF Stack
  <2>3. Urgency' \in [Exceptions -> Int]
    BY UrgencyTypedNext
  <2> QED
    BY <2>1, <2>2, <2>3 DEF Handlers!Reset, Handlers!Next, Stack, Urgency
<1>9. CASE StackingFails
  <2>1. PICK e \in Candidates, fault \in {MemManage, BusFault} : EntryFault(e, fault)
    BY <1>9 DEF StackingFails
  <2>2. UNCHANGED <<priority, prigroup>>
    BY <2>1 DEF EntryFault, RaiseFault, nvicVars, configVars
  <2> QED
    BY <1>1, <1>9, <2>2 DEF StackingFails, stackVars, Handlers!Next
<1>10. CASE NothingPending \/ TakePending \/ SleepCycle \/ TailChainLockup \/ EntryVectorLockup
  <2>1. UNCHANGED <<active, depth, priority, prigroup>>
    BY <1>10 DEF NothingPending, TakePending, SleepCycle, TailChainLockup, EntryVectorLockup,
                 Returning, InstructionEnds, stackVars, nvicVars, configVars
  <2> QED
    BY <1>1, <2>1 DEF Handlers!Next
<1>11. CASE FaultingInstruction \/ UndefinedInstruction \/ InvalidReturn \/ UnstackingFails
  <2>1. UNCHANGED <<active, depth, priority, prigroup>>
    BY <1>11 DEF FaultingInstruction, UndefinedInstruction, InvalidReturn, UnstackingFails,
       Unstacking, Returning, RaiseFault, InstructionEnds, stackVars, nvicVars, configVars
  <2> QED
    BY <1>1, <2>1 DEF Handlers!Next
<1>12. CASE \/ OtherInstruction \/ Breakpoint \/ Svc \/ Wfi \/ Wfe \/ Sev \/ WriteMask
            \/ WriteBasepriMax \/ WriteControl \/ WriteEnable \/ WriteSetPending
            \/ WriteClearPending \/ WriteShcsr \/ WriteScr
  <2>1. UNCHANGED <<active, depth, priority, prigroup>>
    BY <1>12 DEF OtherInstruction, Breakpoint, Svc, Wfi, Wfe, Sev, WriteMask,
       WriteBasepriMax, WriteControl, WriteEnable, WriteSetPending, WriteClearPending,
       WriteShcsr, WriteScr, CoreUnchanged, InstructionEnds, stackVars, nvicVars, configVars
  <2> QED
    BY <1>1, <2>1 DEF Handlers!Next
<1>13. CASE SetIrq \/ SetIrqLevel \/ SysTickExpires \/ SetBreakpoint \/ UNCHANGED vars
  <2>1. UNCHANGED <<active, depth, priority, prigroup>>
    BY <1>13 DEF SetIrq, SetIrqLevel, SysTickExpires, SetBreakpoint, Untouched, stackVars,
       stepVars, nvicVars, configVars, vars
  <2> QED
    BY <1>1, <2>1 DEF Handlers!Next
<1> QED
  BY <1>2, <1>3, <1>4, <1>5, <1>6, <1>7, <1>8, <1>9, <1>10, <1>11, <1>12, <1>13
     DEF Next, CoreStep, Instruction, Environment

-----------------------------------------------------------------------------
(* The theorems *)

(* The inductive invariant of a disciplined core holds in every state. *)
LEMMA Discipline ==
  ASSUME Disciplined
  PROVE  Spec => [](TypeOK /\ Balance /\ Nested /\ Accounted)
<1>1. Init => Nested /\ Accounted
  BY DEF Init, NvicInit, CoreInit, Nested, Accounted, Active
<1>2. TypeOK /\ Balance /\ Nested /\ [Next]_vars => Nested'
  BY NestedStep
<1>3. TypeOK /\ Balance /\ Nested /\ Accounted /\ [Next]_vars => Accounted'
  BY AccountStep
<1> QED
  BY <1>1, <1>2, <1>3, BalanceInvariant, PTL DEF Spec

(* The handlers of a disciplined core are nested by urgency in every
   behaviour: through late arrivals, tail chains, vector faults and returns
   through forged frames, each one preempts all those below it, and each has one
   frame. *)
THEOREM HandlersNest == Spec => []NestingSound
<1>1. CASE Disciplined
  <2>1. Nested => StrictNesting
    BY DEF Nested, StrictNesting
  <2> QED
    BY <1>1, <2>1, Discipline, FramesInStep, PTL DEF NestingSound
<1>2. CASE ~Disciplined
  <2>1. StrictNesting
    BY <1>2 DEF StrictNesting
  <2> QED
    BY <2>1, FramesInStep, PTL DEF NestingSound
<1> QED
  BY <1>1, <1>2

(* The active bits that the NVIC shows are those of the interrupts on the stack, no
   exception is active twice, and only the outermost frame returns to thread mode. *)
THEOREM HandlersAreAccounted == Spec => []HandlersAccounted
<1>1. CASE Disciplined
  <2>1. TypeOK /\ Balance /\ Nested /\ Accounted => HandlersAccounted
    BY ActiveCounted DEF Accounted, HandlersAccounted, ActiveBitsExact, FramesReturnInOrder
  <2> QED
    BY <1>1, <2>1, Discipline, PTL
<1>2. CASE ~Disciplined
  <2>1. HandlersAccounted
    BY <1>2 DEF HandlersAccounted, ActiveBitsExact, FramesReturnInOrder
  <2> QED
    BY <2>1, PTL
<1> QED
  BY <1>1, <1>2

(* In a core with as many frames as exceptions in use, no instruction runs while an
   eligible exception preempts its context, and the nesting is no deeper than the
   levels of urgency. *)
THEOREM UrgencyIsHeld == RoomForAll => (Spec => []UrgencyHeld)
<1> SUFFICES ASSUME RoomForAll PROVE Spec => []UrgencyHeld
  OBVIOUS
<1>1. CASE ~Disciplined
  <2>1. UrgencyHeld
    BY <1>1 DEF UrgencyHeld, NoInversion, DepthBounded
  <2> QED
    BY <2>1, PTL
<1>2. CASE Disciplined
  <2>1. CASE Undisturbed
    <3>1. Init => NoInversion
      BY DEF Init, CoreInit, NoInversion
    <3>2. TypeOK /\ Balance /\ Nested /\ NoInversion /\ [Next]_vars => NoInversion'
      BY <1>2, <2>1, InversionStep
    <3> QED
      BY <1>2, <3>1, <3>2, Discipline, NestingIsBounded, PTL DEF Spec, UrgencyHeld
  <2>2. CASE ~Undisturbed
    <3>1. NoInversion
      BY <2>2 DEF NoInversion, Undisturbed
    <3> QED
      BY <1>2, <3>1, Discipline, NestingIsBounded, PTL DEF UrgencyHeld
  <2> QED
    BY <2>1, <2>2
<1> QED
  BY <1>1, <1>2

(* With memory that works and room for every frame, a disciplined core locks up only
   in the handlers of NMI and HardFault. *)
THEOREM LockupIsConfined ==
  Disciplined /\ RoomForAll => (Spec => []LockupOnlyInFaultHandlers)
<1> SUFFICES ASSUME Disciplined, RoomForAll PROVE Spec => []LockupOnlyInFaultHandlers
  OBVIOUS
<1>1. CASE {"STACKING", "VECTOR"} \cap Features = {}
  <2>1. Init => LockedUp
    BY DEF Init, LockedUp
  <2>2. TypeOK /\ Balance /\ Nested /\ LockedUp /\ [Next]_vars => LockedUp'
    BY <1>1, LockupStep
  <2>3. LockedUp => LockupOnlyInFaultHandlers
    BY DEF LockedUp, LockupOnlyInFaultHandlers
  <2> QED
    BY <2>1, <2>2, <2>3, Discipline, PTL DEF Spec
<1>2. CASE {"STACKING", "VECTOR"} \cap Features # {}
  <2>1. LockupOnlyInFaultHandlers
    BY <1>2 DEF LockupOnlyInFaultHandlers
  <2> QED
    BY <2>1, PTL
<1> QED
  BY <1>1, <1>2

(* A disciplined core enters the most urgent of the exceptions that are eligible when
   the vector is fetched. *)
THEOREM MostUrgentIsEntered == Spec => EntryIsMostUrgent
<1>1. TypeOK /\ Balance /\ [Next]_vars
      => [phase = "entering" /\ phase' = "execute" /\ stop' = "running" /\ ipsr' # HardFault
            => \A e \in Candidates \ Active : Preemption(ipsr') <= Preemption(e)]_vars
  BY UrgentStep
<1> QED
  BY <1>1, BalanceInvariant, PTL DEF Spec, EntryIsMostUrgent

(* A disciplined core whose host withdraws no pulse implements the abstract stack of
   handlers: its steps begin, hand over and end handlers in the order of urgency, and
   nothing but the handler that begins stops waiting. *)
THEOREM HandlersAreImplemented ==
  Disciplined /\ "PULSE" \notin Features => (Spec => EntersByUrgency)
<1> SUFFICES ASSUME Disciplined, "PULSE" \notin Features PROVE Spec => EntersByUrgency
  OBVIOUS
<1>1. Init => EntryWaits
  BY DEF Init, CoreInit, EntryWaits
<1>2. TypeOK /\ Balance /\ EntryWaits /\ [Next]_vars => EntryWaits'
  BY EntryWaitsStep
<1>3. TypeOK /\ TypeOK' /\ Balance /\ Nested /\ EntryWaits /\ [Next]_vars
      => [Handlers!Next]_Handlers!vars
  BY HandlersStep DEF Handlers!vars, Stack, Urgency
<1>4. Spec => NestsByUrgency
  BY <1>1, <1>2, <1>3, HandlersInit, Discipline, PTL DEF Spec, NestsByUrgency, Handlers!Spec
<1> QED
  BY <1>4, MostUrgentIsEntered DEF EntersByUrgency
=============================================================================
