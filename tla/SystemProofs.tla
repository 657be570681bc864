---------------------------- MODULE SystemProofs ----------------------------
(***************************************************************************)
(* Theorems about what guards the accesses of the core and keeps its time: *)
(* the exclusive monitor and the store buffer, for every granule, size and *)
(* number of wait cycles; the clock gates and the bridge, for every set of *)
(* peripherals; both protection units, for every number of regions;        *)
(* and about the ring of events for the host, for every capacity, and the  *)
(* debug unit, for every width of its cycle counter.                       *)
(***************************************************************************)
EXTENDS Exclusive, Guards, EventRing, Debug, SequenceTheorems, TLAPS

(* The exclusive monitor and the store buffer *)

ExTyped ==
  /\ exGranule \in ExGranules
  /\ exReserved \in [valid : BOOLEAN, address : ExWords, base : Int, size : ExSizes]
  /\ exRefused \subseteq ExWords
  /\ exSince \in [loaded : SUBSET (ExWords \X ExSizes), written : SUBSET ExWords,
                  broken : BOOLEAN, wins : Nat]
  /\ exStore \in [cycles : Nat, bus : ExBuses]
  /\ exInstr \in [on : BOOLEAN, exception : BOOLEAN, wait : Nat, store : Nat, bus : ExBuses]
  /\ exDebt \in Nat

(* A reservation that stands has not been used. *)
Unused == exReserved.valid => exSince.wins = 0

(* A store on its way owes everything by itself, for the access that would add to
   the debt waits for it first; an instruction that is over owes nothing. *)
DebtPlaced ==
  /\ exStore.cycles > 0 => exInstr.store = 0 /\ exDebt <= exStore.cycles
  /\ exStore.cycles = 0 => exDebt <= exInstr.store + exInstr.wait
  /\ ~exInstr.on => exInstr.store = 0 /\ exInstr.wait = 0

ExInv == ExTyped /\ ReservationFresh /\ Unused /\ DebtPlaced

(* The waits of the initial and the idle instruction. *)
LEMMA ExIdleTyped ==
  /\ ExIdle \in [on : BOOLEAN, exception : BOOLEAN, wait : Nat, store : Nat, bus : ExBuses]
  /\ ExIdle.wait = 0 /\ ExIdle.store = 0 /\ ~ExIdle.on
BY DEF ExIdle, ExBuses

(* What is known of the last exclusive load when nothing is. *)
LEMMA ExQuietTyped ==
  /\ ExQuiet \in [loaded : SUBSET (ExWords \X ExSizes), written : SUBSET ExWords,
                  broken : BOOLEAN, wins : Nat]
  /\ ExQuiet.wins = 0 /\ ExQuiet.written = {} /\ ~ExQuiet.broken
BY DEF ExQuiet

(* The reservation of a reset is none. *)
LEMMA ExNoneTyped ==
  /\ ExNone \in [valid : BOOLEAN, address : ExWords, base : Int, size : ExSizes]
  /\ ~ExNone.valid
BY ExPlacesAssumption DEF ExNone

(* The initial states are sound. *)
LEMMA ExInitially == ExInit => ExInv
<1> SUFFICES ASSUME ExInit PROVE ExInv
  OBVIOUS
<1>1. exRefused \subseteq ExWords
  <2>1. \E w \in ExWords : \A v \in ExWords : v <= w
    BY ExPlacesAssumption
  <2> QED
    BY <2>1 DEF ExInit
<1>2. exStore \in [cycles : Nat, bus : ExBuses] /\ exStore.cycles = 0
  BY DEF ExInit, ExBuses
<1> QED
  BY <1>1, <1>2, ExIdleTyped, ExQuietTyped, ExNoneTyped
     DEF ExInit, ExInv, ExTyped, ReservationFresh, Unused, DebtPlaced

(* A step of the monitor leaves the buffer alone. *)
LEMMA BufferKept ==
  ASSUME DebtPlaced, UNCHANGED bufferVars
  PROVE  DebtPlaced'
BY DEF DebtPlaced, bufferVars

(* Whatever ends the reservation leaves nothing to be fresh. *)
LEMMA ReservationGone ==
  ASSUME ~exReserved'.valid
  PROVE  ReservationFresh' /\ Unused'
BY DEF ReservationFresh, Unused

(* The monitor: loads reserve, every accepted write of the granule is seen. *)
LEMMA MonitorStep ==
  ASSUME ExInv,
         \/ \E a \in ExWords, s \in ExSizes, faults \in BOOLEAN : LoadExclusive(a, s, faults)
         \/ \E a \in ExWords, s \in ExSizes : StoreExclusive(a, s)
         \/ \E a \in ExWords : Write(a)
         \/ \E refused \in SUBSET ExWords : MpuWritten(refused)
         \/ ClearExclusive
         \/ \E g \in ExGranules : SetGranule(g)
  PROVE  ExInv'
<1> USE DEF ExInv
<1>1. ASSUME NEW a \in ExWords, NEW s \in ExSizes, NEW faults \in BOOLEAN, LoadExclusive(a, s, faults)
      PROVE  ExInv'
  <2>1. CASE faults
    BY <1>1, <2>1, BufferKept DEF LoadExclusive, ExTyped, ReservationFresh, Unused, bufferVars
  <2>2. CASE ~faults
    <3>1. exSince' = [ExQuiet EXCEPT !.loaded = {<<a, s>>}] /\ UNCHANGED <<exGranule, exRefused, bufferVars>>
          /\ exReserved' = [valid |-> TRUE, address |-> a, base |-> Base(exGranule, a), size |-> s]
      BY <1>1, <2>2 DEF LoadExclusive
    <3>2. /\ exSince' \in [loaded : SUBSET (ExWords \X ExSizes), written : SUBSET ExWords,
                          broken : BOOLEAN, wins : Nat]
          /\ exSince'.wins = 0 /\ exSince'.written = {} /\ ~exSince'.broken /\ exSince'.loaded = {<<a, s>>}
      <4>1. {<<a, s>>} \in SUBSET (ExWords \X ExSizes)
        OBVIOUS
      <4> QED
        BY <3>1, <4>1 DEF ExQuiet
    <3>3. Base(exGranule, a) \in Int
      BY ExPlacesAssumption DEF Base, ExTyped
    <3> QED
      BY <3>1, <3>2, <3>3, BufferKept DEF ExTyped, ReservationFresh, Unused, bufferVars
  <2> QED
    BY <2>1, <2>2
<1>2. ASSUME NEW a \in ExWords, NEW s \in ExSizes, StoreExclusive(a, s)
      PROVE  ExInv'
  <2>1. ~exReserved'.valid /\ UNCHANGED <<exGranule, exRefused, bufferVars>>
    BY <1>2 DEF StoreExclusive, Consumed, ExTyped
  <2>2. exReserved' \in [valid : BOOLEAN, address : ExWords, base : Int, size : ExSizes]
    BY <1>2 DEF StoreExclusive, Consumed, ExTyped
  <2>3. exSince' \in [loaded : SUBSET (ExWords \X ExSizes), written : SUBSET ExWords,
                     broken : BOOLEAN, wins : Nat]
    <3>1. /\ exSince.loaded \cup {<<a, s>>} \in SUBSET (ExWords \X ExSizes)
          /\ exSince.written \cup {a} \in SUBSET ExWords
          /\ (IF exSince.wins < 2 THEN exSince.wins + 1 ELSE exSince.wins) \in Nat
      BY DEF ExTyped
    <3> QED
      BY <1>2, <3>1 DEF StoreExclusive, Broken, ExTyped
  <2>4. ExTyped'
    BY <2>1, <2>2, <2>3 DEF ExTyped, bufferVars
  <2> QED
    BY <2>1, <2>4, BufferKept, ReservationGone
<1>3. ASSUME NEW a \in ExWords, Write(a) PROVE ExInv'
  <2>1. CASE a \in exRefused
    BY <1>3, <2>1, BufferKept DEF Write, ExTyped, ReservationFresh, Unused, bufferVars
  <2>2. CASE a \notin exRefused
    <3>1. /\ exReserved' = Observed(exReserved, a) /\ exSince' = Wrote(a)
          /\ UNCHANGED <<exGranule, exRefused, bufferVars>>
      BY <1>3, <2>2 DEF Write
    <3>2. ExTyped'
      BY <3>1 DEF ExTyped, Observed, Wrote, bufferVars
    <3>3. ReservationFresh' /\ Unused'
      BY <3>1 DEF ReservationFresh, Unused, Observed, Wrote, ExTyped
    <3> QED
      BY <3>1, <3>2, <3>3, BufferKept
  <2> QED
    BY <2>1, <2>2
<1>4. ASSUME NEW refused \in SUBSET ExWords, MpuWritten(refused) PROVE ExInv'
  <2>1. ~exReserved'.valid /\ ExTyped'
    BY <1>4 DEF MpuWritten, Broken, ExTyped, bufferVars
  <2> QED
    BY <1>4, <2>1, BufferKept, ReservationGone DEF MpuWritten
<1>5. CASE ClearExclusive
  <2>1. ~exReserved'.valid /\ ExTyped'
    BY <1>5 DEF ClearExclusive, Broken, ExTyped, bufferVars
  <2> QED
    BY <1>5, <2>1, BufferKept, ReservationGone DEF ClearExclusive
<1>6. ASSUME NEW g \in ExGranules, SetGranule(g) PROVE ExInv'
  <2>1. ~exReserved'.valid /\ ExTyped'
    BY <1>6 DEF SetGranule, Broken, ExTyped, bufferVars
  <2> QED
    BY <1>6, <2>1, BufferKept, ReservationGone DEF SetGranule
<1> QED
  BY <1>1, <1>2, <1>3, <1>4, <1>5, <1>6

(* A step of the buffer leaves the monitor alone. *)
LEMMA MonitorKept ==
  ASSUME ReservationFresh, Unused, UNCHANGED monitorVars
  PROVE  ReservationFresh' /\ Unused'
BY DEF ReservationFresh, Unused, monitorVars

(* The buffer: an access that adds to the debt waits for the store on its way first,
   and the cycles of an instruction pay for both alike. *)
LEMMA BufferStep ==
  ASSUME ExInv,
         \/ \E exception \in BOOLEAN : ExBegins(exception)
         \/ \E fetch \in BOOLEAN, bus \in ExBuses, wait \in ExWaits : Reads(fetch, bus, wait)
         \/ \E wait \in ExWaits : StoresDirectly(wait)
         \/ \E bus \in ExBuses, wait \in ExWaits : Stores(bus, wait)
         \/ \E base \in ExBases, barrier \in {"none", "dmb", "dsb", "isb"} : Completes(base, barrier)
         \/ Aborts \/ Taken \/ ExResets
  PROVE  ExInv'
<1> USE ExTimesAssumption DEF ExInv
<1>1. ASSUME NEW exception \in BOOLEAN, ExBegins(exception) PROVE ExInv'
  <2>1. ExTyped' /\ DebtPlaced'
    <3>1. /\ exInstr' \in [on : BOOLEAN, exception : BOOLEAN, wait : Nat, store : Nat, bus : ExBuses]
          /\ exInstr'.wait = 0 /\ exInstr'.store = 0
      BY <1>1 DEF ExBegins, ExIdle, ExBuses
    <3>2. UNCHANGED <<exStore, exGranule, exReserved, exRefused, exSince>>
      BY <1>1 DEF ExBegins, monitorVars
    <3>3. exDebt' \in Nat /\ exDebt' <= exStore.cycles
      <4>1. exDebt \in Nat /\ exStore.cycles \in Nat
        BY DEF ExTyped
      <4>2. exDebt' = Least(exDebt, exStore.cycles)
        BY <1>1 DEF ExBegins
      <4> QED
        BY <4>1, <4>2 DEF Least
    <3> QED
      BY <3>1, <3>2, <3>3 DEF ExTyped, DebtPlaced
  <2> QED
    BY <1>1, <2>1, MonitorKept DEF ExBegins
<1>2. ASSUME NEW fetch \in BOOLEAN, NEW bus \in ExBuses, NEW wait \in ExWaits, Reads(fetch, bus, wait)
      PROVE  ExInv'
  <2>1. ExTyped' /\ DebtPlaced'
    <3>1. PICK drained \in {0, exStore.cycles} :
            /\ exInstr.on
            /\ exInstr' = [exInstr EXCEPT !.wait = @ + drained + wait]
            /\ exStore' = [exStore EXCEPT !.cycles = @ - drained]
            /\ exDebt' = (IF fetch THEN exDebt ELSE exDebt + wait)
            /\ ~fetch => drained = exStore.cycles
            /\ UNCHANGED <<exGranule, exReserved, exRefused, exSince>>
      BY <1>2 DEF Reads, Conflicts, monitorVars
    <3>2. ExTyped'
      BY <3>1 DEF ExTyped
    <3>3. CASE drained = exStore.cycles
      BY <3>1, <3>2, <3>3 DEF ExTyped, DebtPlaced
    <3>4. CASE drained = 0 /\ fetch
      BY <3>1, <3>2, <3>4 DEF ExTyped, DebtPlaced
    <3> QED
      BY <3>1, <3>2, <3>3, <3>4
  <2> QED
    BY <1>2, <2>1, MonitorKept DEF Reads
<1>3. ASSUME NEW wait \in ExWaits, StoresDirectly(wait) PROVE ExInv'
  <2>1. ExTyped' /\ DebtPlaced'
    BY <1>3 DEF StoresDirectly, ExTyped, DebtPlaced, monitorVars
  <2> QED
    BY <1>3, <2>1, MonitorKept DEF StoresDirectly
<1>4. ASSUME NEW bus \in ExBuses, NEW wait \in ExWaits, Stores(bus, wait) PROVE ExInv'
  <2>1. ExTyped' /\ DebtPlaced'
    <3>1. /\ exInstr.on /\ UNCHANGED <<exGranule, exReserved, exRefused, exSince>>
          /\ exInstr' = [exInstr EXCEPT !.wait = @ + exStore.cycles + exInstr.store,
                                      !.store = wait, !.bus = bus]
          /\ exStore' = [exStore EXCEPT !.cycles = 0] /\ exDebt' = exDebt + wait
      BY <1>4 DEF Stores, Buffered, monitorVars
    <3>2. ExTyped'
      <4>1. /\ wait \in Nat /\ exInstr.wait + exStore.cycles + exInstr.store \in Nat
            /\ exDebt + wait \in Nat
        BY DEF ExTyped
      <4>2. exInstr' \in [on : BOOLEAN, exception : BOOLEAN, wait : Nat, store : Nat, bus : ExBuses]
        BY <3>1, <4>1 DEF ExTyped
      <4>3. exStore' \in [cycles : Nat, bus : ExBuses]
        BY <3>1 DEF ExTyped
      <4> QED
        BY <3>1, <4>1, <4>2, <4>3 DEF ExTyped
    <3> QED
      BY <3>1, <3>2 DEF ExTyped, DebtPlaced
  <2> QED
    BY <1>4, <2>1, MonitorKept DEF Stores
<1>5. ASSUME NEW base \in ExBases, NEW barrier \in {"none", "dmb", "dsb", "isb"},
             Completes(base, barrier)
      PROVE  ExInv'
  <2> DEFINE elapsed == TimeElapsed(base, barrier)
             left == Left(elapsed, barrier)
  <2>1. /\ elapsed \in Nat /\ elapsed >= exInstr.wait /\ elapsed >= Drains(barrier)
        /\ Drains(barrier) \in {0, exStore.cycles}
    BY DEF TimeElapsed, Drains, ExTyped
  <2>2. left \in Nat /\ left <= exStore.cycles /\ left >= exStore.cycles - elapsed
    BY <2>1 DEF Left, Progressed, ExTyped
  <2>3. exStore' = Kept(left) /\ exDebt' = Paid(exDebt, elapsed) /\ exInstr' = ExIdle
        /\ UNCHANGED monitorVars
    BY <1>5 DEF Completes
  <2> HIDE DEF elapsed, left
  <2>4. exDebt' \in Nat /\ exDebt' <= exDebt /\ (exDebt' > 0 => exDebt' = exDebt - elapsed)
    BY <2>1, <2>3 DEF Paid, ExTyped
  <2>5. /\ exStore' \in [cycles : Nat, bus : ExBuses]
        /\ exStore'.cycles >= left /\ exStore'.cycles >= exInstr.store
    BY <2>2, <2>3 DEF Kept, ExTyped
  <2>6. exDebt' <= exStore'.cycles
    BY <2>1, <2>2, <2>4, <2>5 DEF DebtPlaced, ExTyped
  <2> QED
    BY <2>3, <2>4, <2>5, <2>6, ExIdleTyped, MonitorKept DEF ExTyped, DebtPlaced, monitorVars
<1>6. CASE Aborts
  <2>1. ExTyped' /\ DebtPlaced'
    BY <1>6, ExIdleTyped DEF Aborts, Least, ExTyped, DebtPlaced, monitorVars
  <2> QED
    BY <1>6, <2>1, MonitorKept DEF Aborts
<1>7. CASE Taken
  <2>1. ExTyped' /\ DebtPlaced' /\ ~exReserved'.valid
    <3>1. /\ exStore' = [exStore EXCEPT !.cycles = 0] /\ exDebt' = 0 /\ exInstr' = ExIdle
          /\ exReserved' = [exReserved EXCEPT !.valid = FALSE]
          /\ exSince' = [exSince EXCEPT !.broken = TRUE] /\ UNCHANGED <<exGranule, exRefused>>
      BY <1>7 DEF Taken, Broken
    <3>2. ExTyped'
      BY <3>1, ExIdleTyped DEF ExTyped
    <3> QED
      BY <3>1, <3>2, ExIdleTyped DEF ExTyped, DebtPlaced
  <2> QED
    BY <2>1, ReservationGone
<1>8. CASE ExResets
  <2>1. exStore' \in [cycles : Nat, bus : ExBuses] /\ exStore'.cycles = 0
    BY <1>8 DEF ExResets, ExBuses
  <2>2. ExTyped' /\ DebtPlaced' /\ ~exReserved'.valid
    <3>1. /\ exDebt' = 0 /\ exInstr' = ExIdle /\ exReserved' = ExNone
          /\ exSince' = [exSince EXCEPT !.broken = TRUE] /\ UNCHANGED <<exGranule, exRefused>>
      BY <1>8 DEF ExResets, Broken
    <3>2. exSince' \in [loaded : SUBSET (ExWords \X ExSizes), written : SUBSET ExWords,
                       broken : BOOLEAN, wins : Nat]
      BY <3>1 DEF ExTyped
    <3>3. ExTyped'
      BY <2>1, <3>1, <3>2, ExIdleTyped, ExNoneTyped DEF ExTyped
    <3> QED
      BY <2>1, <3>1, <3>3, ExIdleTyped, ExNoneTyped DEF DebtPlaced
  <2> QED
    BY <2>2, ReservationGone
<1> QED
  BY <1>1, <1>2, <1>3, <1>4, <1>5, <1>6, <1>7, <1>8

(* A reservation that is used is the fresh one of the last exclusive load. *)
LEMMA WonStep == ExInv /\ [ExNext]_exVars => [WonFairly]_exVars
<1> SUFFICES ASSUME ExInv, ExNext, exSince'.wins > exSince.wins PROVE WonFairly
  BY DEF WonFairly
<1> USE DEF ExInv
<1>1. exSince.wins \in Nat
  BY DEF ExTyped
<1>2. PICK a \in ExWords, s \in ExSizes : StoreExclusive(a, s)
  <2>1. exSince' # exSince /\ exSince' # Broken /\ exSince'.wins # 0
    BY <1>1 DEF Broken, ExTyped
  <2>2. \A a \in ExWords, s \in ExSizes, faults \in BOOLEAN : ~LoadExclusive(a, s, faults)
    BY <2>1 DEF LoadExclusive, ExQuiet
  <2>3. \A a \in ExWords : ~Write(a)
    BY <1>1 DEF Write, Wrote, ExTyped
  <2>4. ~ClearExclusive /\ ~Taken /\ ~ExResets /\ ~Aborts
    BY <2>1 DEF ClearExclusive, Taken, ExResets, Aborts, monitorVars
  <2>5. (\A refused \in SUBSET ExWords : ~MpuWritten(refused)) /\ \A g \in ExGranules : ~SetGranule(g)
    BY <2>1 DEF MpuWritten, SetGranule
  <2>6. ~(\/ \E exception \in BOOLEAN : ExBegins(exception)
          \/ \E fetch \in BOOLEAN, bus \in ExBuses, wait \in ExWaits : Reads(fetch, bus, wait)
          \/ \E wait \in ExWaits : StoresDirectly(wait)
          \/ \E bus \in ExBuses, wait \in ExWaits : Stores(bus, wait)
          \/ \E base \in ExBases, barrier \in {"none", "dmb", "dsb", "isb"} : Completes(base, barrier))
    BY <2>1 DEF ExBegins, Reads, StoresDirectly, Stores, Completes, monitorVars
  <2> QED
    BY <2>2, <2>3, <2>4, <2>5, <2>6 DEF ExNext
<1>3. Reserves(a, s) /\ a \notin exRefused
  BY <1>1, <1>2 DEF StoreExclusive, Broken, ExTyped
<1>4. exReserved.valid /\ exReserved.size = s /\ (exGranule # 0 => exReserved.address = a)
  BY <1>3 DEF Reserves
<1>5. exSince'.loaded = exSince.loaded \cup {<<a, s>>}
  BY <1>2, <1>3 DEF StoreExclusive, ExTyped
<1>6. exGranule # 0 => exSince'.loaded = exSince.loaded
  BY <1>4, <1>5 DEF ReservationFresh
<1>7. \A l \in exSince.loaded : Base(exGranule, l[1]) = exReserved.base
  BY <1>4 DEF ReservationFresh
<1> QED
  BY <1>4, <1>6, <1>7 DEF WonFairly, Unused, ReservationFresh

(* The inductive invariant of the monitor and the buffer: the reservation is fresh and
   unused, and what the clock has not passed yet has its place. *)
THEOREM MonitorInvariant == ExSpec => []ExInv
<1>1. ExInv /\ [ExNext]_exVars => ExInv'
  <2> SUFFICES ASSUME ExInv, [ExNext]_exVars PROVE ExInv'
    OBVIOUS
  <2>1. CASE UNCHANGED exVars
    <3>1. UNCHANGED <<exGranule, exReserved, exRefused, exSince, exStore, exInstr, exDebt>>
      BY <2>1 DEF exVars
    <3>2. ExTyped' /\ DebtPlaced'
      BY <3>1 DEF ExInv, ExTyped, DebtPlaced
    <3> QED
      BY <3>1, <3>2, MonitorKept DEF ExInv, monitorVars
  <2>2. CASE ExNext
    BY <2>2, MonitorStep, BufferStep DEF ExNext
  <2> QED
    BY <2>1, <2>2
<1> QED
  BY <1>1, ExInitially, PTL DEF ExSpec

(* For every granule, size and number of wait cycles: a reservation that stands is
   fresh, one that is used was fairly won, once, and no wait cycle is lost. *)
THEOREM ReservationsAreFair == ExSpec => ReservationsFair
<1>1. ExInv => ReservationFresh /\ WaitsOwed
  BY DEF ExInv, ExTyped, DebtPlaced, WaitsOwed
<1> QED
  BY <1>1, MonitorInvariant, WonStep, PTL DEF ExSpec, ReservationsFair

-----------------------------------------------------------------------------
(* The clock gates and the bridge *)

GatesTyped == gateBehind \in BOOLEAN /\ gateOn \subseteq OwnGate

(* The modules' own flags are the SIM's bits, whoever accesses what and whoever turned
   a clock on for the length of an access, until a byte of SCGC1 is written alone. *)
THEOREM GatesAlwaysFollow == GatesSpec => [](GatesTyped /\ GatesFollow)
<1>1. GatesInit => GatesTyped /\ GatesFollow
  BY DEF GatesInit, GatesTyped, GatesFollow
<1>2. GatesTyped /\ GatesFollow /\ [GatesNext]_gatesVars => (GatesTyped /\ GatesFollow)'
  <2> SUFFICES ASSUME GatesTyped, GatesFollow, [GatesNext]_gatesVars
               PROVE  GatesTyped' /\ GatesFollow'
    OBVIOUS
  <2>1. ASSUME NEW who \in Requesters, NEW p \in Peripherals, NEW write \in BOOLEAN,
               NEW readonly \in BOOLEAN, PeripheralAccess(who, p, write, readonly)
        PROVE  GatesTyped' /\ GatesFollow'
    BY <2>1 DEF PeripheralAccess, SyncedAfter, GatesTyped, GatesFollow
  <2>2. CASE \E bits \in SUBSET Peripherals : WriteGates(bits)
    BY <2>2 DEF WriteGates, Copied, GatesTyped, GatesFollow
  <2>3. CASE \E bits \in SUBSET RawGate : WriteGateByte(bits)
    BY <2>3 DEF WriteGateByte, GatesTyped, GatesFollow
  <2>4. CASE \/ \E setup \in BridgeSetups : WriteBridge(setup)
             \/ \E user \in BOOLEAN : CoreChanges(user)
             \/ UNCHANGED gatesVars
    BY <2>4 DEF WriteBridge, CoreChanges, gatesVars, GatesTyped, GatesFollow
  <2>5. CASE HostCalls \/ \E setup \in BridgeSetups : GatesReset(setup)
    BY <2>5 DEF HostCalls, GatesReset, GatesTyped, GatesFollow
  <2> QED
    BY <2>1, <2>2, <2>3, <2>4, <2>5 DEF GatesNext
<1> QED
  BY <1>1, <1>2, PTL DEF GatesSpec

(* An access that is not the debugger's reaches clocked peripherals only, and every
   read of the debugger reaches its own. *)
THEOREM AccessesAreClocked == GatesSpec => []ReachIsClocked
<1>1. GatesInit => ReachIsClocked
  BY DEF GatesInit, ReachIsClocked, NoAccess
<1>2. ReachIsClocked /\ [GatesNext]_gatesVars => ReachIsClocked'
  <2> SUFFICES ASSUME ReachIsClocked, [GatesNext]_gatesVars PROVE ReachIsClocked'
    OBVIOUS
  <2>1. ASSUME NEW who \in Requesters, NEW p \in Peripherals, NEW write \in BOOLEAN,
               NEW readonly \in BOOLEAN, PeripheralAccess(who, p, write, readonly)
        PROVE  ReachIsClocked'
    BY <2>1 DEF PeripheralAccess, BridgeAllows, Clocked, Answers, EnabledFor, ReachIsClocked
  <2>2. CASE UNCHANGED gateLast
    BY <2>2 DEF ReachIsClocked
  <2> QED
    BY <2>1, <2>2 DEF GatesNext, WriteGates, WriteGateByte, WriteBridge, CoreChanges, HostCalls,
       GatesReset, gatesVars
<1> QED
  BY <1>1, <1>2, PTL DEF GatesSpec

(* Where the bridge shuts users out no step of theirs gets through, and nothing but the
   debugger writes what is protected, for every setting of the bridge. *)
THEOREM BridgeAlwaysHolds == GatesSpec => [][BridgeHolds]_gatesVars
<1>1. [GatesNext]_gatesVars => [BridgeHolds]_gatesVars
  <2> SUFFICES ASSUME GatesNext PROVE BridgeHolds
    OBVIOUS
  <2>1. ASSUME NEW who \in Requesters, NEW q \in Peripherals, NEW write \in BOOLEAN,
               NEW readonly \in BOOLEAN, PeripheralAccess(who, q, write, readonly)
        PROVE  BridgeHolds
    <3> SUFFICES ASSUME NEW p \in Peripherals, gateLast'.reached, gateLast'.to = p,
                        gateLast'.who # "debug"
                 PROVE  /\ bridge[p].user => gateLast'.who # "unprivileged" /\ ~coreUser
                        /\ bridge[p].write => ~gateLast'.write
      BY DEF BridgeHolds
    <3>1. /\ gateLast'.who = who /\ gateLast'.write = write /\ p = q
          /\ BridgeAllows(who, p, write)
      BY <2>1 DEF PeripheralAccess
    <3> QED
      BY <3>1 DEF BridgeAllows, IsUser, Requesters
  <2>2. CASE UNCHANGED gateLast
    BY <2>2 DEF BridgeHolds
  <2> QED
    BY <2>1, <2>2 DEF GatesNext, WriteGates, WriteGateByte, WriteBridge, CoreChanges, HostCalls,
       GatesReset
<1> QED
  BY <1>1, PTL DEF GatesSpec

-----------------------------------------------------------------------------
(* The system protection unit *)

SysTyped ==
  /\ sys \in [on : BOOLEAN, gate : BOOLEAN, error : BOOLEAN, at : SysAddresses, master : SysMasters]
  /\ sysUser \in BOOLEAN
  /\ sysRegion \in [SysRegions -> [valid : BOOLEAN, bounds : SysBounds, rights : SysRights]]
  /\ sysAlternate \in [SysRegions -> SysRights]

(* What the unit answers for the two ends of an access: no refusal when both are
   granted, and otherwise an end that is refused. *)
LEMMA RefusalIsAnEnd ==
  ASSUME NEW master, NEW user, NEW op, NEW a \in Nat, NEW size \in Nat \ {0}, a + size <= SysSpace
  PROVE  LET at == RefusedAt(master, user, op, a, size)
         IN  \/ /\ at = SysSpace
                /\ Grants(master, user, op, a) /\ Grants(master, user, op, a + size - 1)
             \/ at \in a .. a + size - 1
<1> DEFINE ends == Ends(a, size)
           refused == {k \in DOMAIN ends : ~Grants(master, user, op, ends[k])}
           first == CHOOSE k \in refused : \A j \in refused : k <= j
<1>1. DOMAIN ends = {1, 2} /\ ends[1] = a /\ ends[2] = a + size - 1
  BY DEF Ends
<1>2. RefusedAt(master, user, op, a, size) = IF refused = {} THEN SysSpace ELSE ends[first]
  BY DEF RefusedAt
<1> HIDE DEF ends
<1>3. CASE refused = {}
  <2>1. Grants(master, user, op, ends[1]) /\ Grants(master, user, op, ends[2])
    BY <1>1, <1>3
  <2> QED
    BY <1>1, <1>2, <1>3, <2>1
<1>4. CASE refused # {}
  <2>1. \E k \in refused : \A j \in refused : k <= j
    <3>1. refused \subseteq {1, 2}
      BY <1>1
    <3>2. CASE 1 \in refused
      BY <3>1, <3>2
    <3>3. CASE 1 \notin refused
      <4>1. 2 \in refused
        BY <1>4, <3>1, <3>3
      <4>2. refused = {2}
        BY <3>1, <3>3, <4>1
      <4> QED
        BY <4>2
    <3> QED
      BY <3>2, <3>3
  <2>2. first \in refused
    BY <2>1
  <2>3. first \in {1, 2}
    BY <1>1, <2>2
  <2> QED
    BY <1>1, <1>2, <1>4, <2>3, SysAssumption
<1> QED
  BY <1>3, <1>4

(* The two copies of a region's access control never part, for any number of regions. *)
THEOREM CopiesAlwaysAgree == SysSpec => [](SysTyped /\ CopiesAgree)
<1>1. SysInit => SysTyped /\ CopiesAgree
  <2>1. SomeBounds \in SysBounds /\ SomeRights \in SysRights
    BY SysAssumption DEF SomeBounds, SomeRights
  <2>2. Sys0 \in [on : BOOLEAN, gate : BOOLEAN, error : BOOLEAN, at : SysAddresses, master : SysMasters]
    BY SysAssumption DEF Sys0, SysAddresses, SysMasters
  <2>3. SysRegion0 \in [valid : BOOLEAN, bounds : SysBounds, rights : SysRights]
        /\ SysRegion0.rights = SomeRights
    BY <2>1 DEF SysRegion0
  <2> QED
    BY <2>1, <2>2, <2>3 DEF SysInit, SysTyped, CopiesAgree
<1>2. SysTyped /\ CopiesAgree /\ [SysNext]_sysVars => (SysTyped /\ CopiesAgree)'
  <2> SUFFICES ASSUME SysTyped, CopiesAgree, [SysNext]_sysVars
               PROVE  SysTyped' /\ CopiesAgree'
    OBVIOUS
  <2>1. ASSUME NEW r \in SysRegions, NEW rights \in SysRights,
               WriteDescriptorRights(r, rights) \/ WriteAlternate(r, rights)
        PROVE  SysTyped' /\ CopiesAgree'
    BY <2>1 DEF WriteDescriptorRights, WriteAlternate, CopyWritten, SysTyped, CopiesAgree
  <2>2. ASSUME NEW r \in SysRegions, NEW bounds \in SysBounds, WriteBounds(r, bounds)
        PROVE  SysTyped' /\ CopiesAgree'
    BY <2>2 DEF WriteBounds, SysTyped, CopiesAgree
  <2>3. ASSUME NEW r \in SysRegions, NEW valid \in BOOLEAN, WriteValid(r, valid)
        PROVE  SysTyped' /\ CopiesAgree'
    BY <2>3 DEF WriteValid, SysTyped, CopiesAgree
  <2>4. ASSUME NEW master \in SysMasters, NEW user, NEW op, NEW a \in SysAddresses,
               NEW size \in Nat \ {0}, MasterAccess(master, user, op, a, size)
        PROVE  SysTyped' /\ CopiesAgree'
    <3> DEFINE at == RefusedAt(master, user, op, a, size)
    <3>1. at \in Int /\ (at < SysSpace => at \in SysAddresses)
      <4>1. a \in Nat /\ a + size <= SysSpace
        BY <2>4, SysAssumption DEF MasterAccess, SysAddresses
      <4>2. at = SysSpace \/ at \in a .. a + size - 1
        BY <4>1, RefusalIsAnEnd
      <4> HIDE DEF at
      <4> QED
        BY <4>1, <4>2, SysAssumption DEF SysAddresses
    <3>2. sys' = IF sys.gate /\ at < SysSpace THEN ErrorKept(master, at) ELSE sys
      BY <2>4 DEF MasterAccess
    <3> HIDE DEF at
    <3>3. sys' \in [on : BOOLEAN, gate : BOOLEAN, error : BOOLEAN, at : SysAddresses,
                   master : SysMasters]
      BY <3>1, <3>2 DEF ErrorKept, SysTyped
    <3> QED
      BY <2>4, <3>3 DEF MasterAccess, SysTyped, CopiesAgree
  <2>5. ASSUME NEW on \in BOOLEAN, NEW clear \in BOOLEAN, WriteCesr(on, clear) \/ SysClock(on)
        PROVE  SysTyped' /\ CopiesAgree'
    <3>1. sys' \in [on : BOOLEAN, gate : BOOLEAN, error : BOOLEAN, at : SysAddresses,
                   master : SysMasters]
      BY <2>5 DEF WriteCesr, SysClock, SysTyped
    <3> QED
      BY <2>5, <3>1 DEF WriteCesr, SysClock, SysTyped, CopiesAgree
  <2>6. CASE (\E user \in BOOLEAN : CoreMode(user)) \/ UNCHANGED sysVars
    BY <2>6 DEF CoreMode, sysVars, SysTyped, CopiesAgree
  <2>7. ASSUME NEW a \in SysAddresses, NEW size \in {2, 4}, CoreFetch(a, size)
        PROVE  SysTyped' /\ CopiesAgree'
    <3>1. MasterAccess("fetch", sysUser, "execute", a, size) /\ size \in Nat \ {0}
      BY <2>7 DEF CoreFetch
    <3> QED
      BY <3>1, <2>4 DEF SysMasters
  <2>8. ASSUME NEW unprivileged \in BOOLEAN, NEW op, NEW a \in SysAddresses, NEW size \in {1, 2},
               CoreData(unprivileged, op, a, size)
        PROVE  SysTyped' /\ CopiesAgree'
    <3>1. MasterAccess("data", unprivileged, op, a, size) /\ size \in Nat \ {0}
      BY <2>8 DEF CoreData
    <3> QED
      BY <3>1, <2>4 DEF SysMasters
  <2>9. ASSUME NEW op, NEW a \in SysAddresses, DmaAccess(op, a, 1)
        PROVE  SysTyped' /\ CopiesAgree'
    <3>1. MasterAccess("dma", FALSE, op, a, 1)
      BY <2>9, Zenon DEF DmaAccess
    <3>2. 1 \in Nat \ {0} /\ "dma" \in SysMasters
      BY DEF SysMasters
    <3> QED
      BY <3>1, <3>2, <2>4, Zenon
  <2> QED
    BY <2>1, <2>2, <2>3, <2>5, <2>6, <2>7, <2>8, <2>9 DEF SysNext
<1> QED
  BY <1>1, <1>2, PTL DEF SysSpec

(* A region that grants an access at an address holds it, and gives the right asked for. *)
LEMMA GrantedByRegion ==
  ASSUME NEW master, NEW user \in BOOLEAN, NEW op, NEW a, sys.on, Grants(master, user, op, a)
  PROVE  \E r \in SysRegions :
           /\ sysRegion[r].valid /\ sysRegion[r].bounds[1] <= a /\ a <= sysRegion[r].bounds[2]
           /\ LET right == sysRegion[r].rights[master]
              IN  IF user \/ right.mode = 3 THEN op \in right.user
                  ELSE op \notin (CASE right.mode = 1 -> {"write"}
                                    [] right.mode = 2 -> {"execute"}
                                    [] OTHER -> {})
<1>1. PICK r \in SysRegions : /\ InBounds(sysRegion[r], a)
                              /\ Allows(sysRegion[r].rights[master], user, op)
  BY DEF Grants
<1> DEFINE right == sysRegion[r].rights[master]
           Given == IF user \/ right.mode = 3 THEN op \in right.user
                    ELSE op \notin (CASE right.mode = 1 -> {"write"}
                                      [] right.mode = 2 -> {"execute"}
                                      [] OTHER -> {})
<1>2. Allows(right, user, op)
  BY <1>1
<1> HIDE DEF right
<1>3. Given
  BY <1>2 DEF Allows
<1> QED
  BY <1>1, <1>3 DEF InBounds, right

(* What passes was allowed at both of its ends, and every refusal is on record, for any
   space, bounds and rights. *)
THEOREM RefusalsAndGrants == SysSpec => [][PassedIsAllowed /\ RefusalsTold]_sysVars
<1>1. SysTyped /\ [SysNext]_sysVars => [PassedIsAllowed /\ RefusalsTold]_sysVars
  <2> SUFFICES ASSUME SysTyped, SysNext PROVE PassedIsAllowed /\ RefusalsTold
    OBVIOUS
  <2>1. CASE UNCHANGED sysLast
    BY <2>1 DEF PassedIsAllowed, RefusalsTold
  <2>2. ASSUME NEW master \in SysMasters, NEW user \in BOOLEAN, NEW op, NEW a \in SysAddresses,
               NEW size \in {1, 2, 4}, MasterAccess(master, user, op, a, size),
               master = "fetch" => user = sysUser
        PROVE  PassedIsAllowed /\ RefusalsTold
    <3> DEFINE at == RefusedAt(master, user, op, a, size)
    <3>1. a \in Nat /\ size \in Nat \ {0} /\ a + size <= SysSpace
      BY <2>2, SysAssumption DEF MasterAccess, SysAddresses
    <3>2. \/ at = SysSpace /\ Grants(master, user, op, a) /\ Grants(master, user, op, a + size - 1)
          \/ at \in a .. a + size - 1
      BY <3>1, RefusalIsAnEnd
    <3>3. /\ sys' = IF sys.gate /\ at < SysSpace THEN ErrorKept(master, at) ELSE sys
          /\ sysLast' = [master |-> master, user |-> user, op |-> op, at |-> a, size |-> size,
                        allowed |-> ~(sys.gate /\ at < SysSpace), watched |-> sys.gate /\ sys.on]
      BY <2>2 DEF MasterAccess
    <3> HIDE DEF at
    <3>4. PassedIsAllowed
      <4> SUFFICES ASSUME sysLast'.allowed, sysLast'.watched,
                          NEW end \in {a, a + size - 1}
                   PROVE  \E r \in SysRegions :
                            /\ sysRegion[r].valid
                            /\ end \in sysRegion[r].bounds[1] .. sysRegion[r].bounds[2]
                            /\ LET right == sysRegion[r].rights[master]
                               IN  IF user \/ right.mode = 3 THEN op \in right.user
                                   ELSE op \notin (CASE right.mode = 1 -> {"write"}
                                                     [] right.mode = 2 -> {"execute"}
                                                     [] OTHER -> {})
        BY <2>2, <3>3 DEF PassedIsAllowed
      <4>1. sys.on /\ ~(at < SysSpace)
        BY <3>3
      <4>5. Grants(master, user, op, end)
        BY <3>1, <3>2, <4>1, SysAssumption
      <4>2. end \in Int
        BY <3>1
      <4>3. \A r \in SysRegions : /\ sysRegion[r].bounds[1] \in Int
                                  /\ sysRegion[r].bounds[2] \in Int
        BY SysAssumption DEF SysTyped, SysAddresses
      <4>4. \A r \in SysRegions :
              sysRegion[r].bounds[1] <= end /\ end <= sysRegion[r].bounds[2]
                => end \in sysRegion[r].bounds[1] .. sysRegion[r].bounds[2]
        BY <4>2, <4>3
      <4> QED
        BY <4>1, <4>5, <4>4, GrantedByRegion
    <3>5. RefusalsTold
      <4> SUFFICES ASSUME ~sysLast'.allowed
                   PROVE  sys'.error /\ sys'.master = master /\ sys'.at \in a .. a + size - 1
        BY <3>3 DEF RefusalsTold
      <4>1. at < SysSpace /\ sys' = ErrorKept(master, at)
        BY <3>3
      <4>2. at \in a .. a + size - 1
        BY <3>2, <4>1, SysAssumption
      <4> QED
        BY <4>1, <4>2 DEF ErrorKept, SysTyped
    <3> QED
      BY <3>4, <3>5
  <2>3. ASSUME NEW a \in SysAddresses, NEW size \in {2, 4}, CoreFetch(a, size)
        PROVE  PassedIsAllowed /\ RefusalsTold
    <3>1. MasterAccess("fetch", sysUser, "execute", a, size) /\ size \in {1, 2, 4}
      BY <2>3 DEF CoreFetch
    <3>2. sysUser \in BOOLEAN /\ "fetch" \in SysMasters
      BY DEF SysTyped, SysMasters
    <3> QED
      BY <2>2, <3>1, <3>2
  <2>4. ASSUME NEW unprivileged \in BOOLEAN, NEW op, NEW a \in SysAddresses, NEW size \in {1, 2},
               CoreData(unprivileged, op, a, size)
        PROVE  PassedIsAllowed /\ RefusalsTold
    <3>1. MasterAccess("data", unprivileged, op, a, size)
      BY <2>4, Zenon DEF CoreData
    <3>2. "data" \in SysMasters /\ "data" # "fetch" /\ size \in {1, 2, 4}
      BY DEF SysMasters
    <3> QED
      BY <2>2, <3>1, <3>2, Zenon
  <2>5. ASSUME NEW op, NEW a \in SysAddresses, DmaAccess(op, a, 1)
        PROVE  PassedIsAllowed /\ RefusalsTold
    <3>1. MasterAccess("dma", FALSE, op, a, 1)
      BY <2>5, Zenon DEF DmaAccess
    <3>2. "dma" \in SysMasters /\ "dma" # "fetch" /\ 1 \in {1, 2, 4} /\ FALSE \in BOOLEAN
      BY DEF SysMasters
    <3> QED
      BY <2>2, <3>1, <3>2, Zenon
  <2>6. \/ UNCHANGED sysLast
        \/ \E a \in SysAddresses, size \in {2, 4} : CoreFetch(a, size)
        \/ \E unprivileged \in BOOLEAN, op \in {"read", "write"}, a \in SysAddresses,
              size \in {1, 2} : CoreData(unprivileged, op, a, size)
        \/ \E op \in {"read", "write"}, a \in SysAddresses : DmaAccess(op, a, 1)
    BY DEF SysNext, WriteDescriptorRights, WriteAlternate, WriteBounds, WriteValid, WriteCesr,
           SysClock, CoreMode
  <2> QED
    BY <2>1, <2>3, <2>4, <2>5, <2>6, Zenon
<1> QED
  BY <1>1, CopiesAlwaysAgree, PTL DEF SysSpec

-----------------------------------------------------------------------------
(* The ring of events *)

RingEvent == [endpoint : Endpoints \cup {0}, n : Nat]
Ring == [slot : [Slots -> RingEvent], read : Slots, write : Slots, count : 0..Capacity]
RingSound(r) == r \in Ring /\ r.write = (r.read + r.count) % Capacity
RingInv == RingSound(ring) /\ ringMade \in Nat

(* The events that wait in a ring, the oldest first. *)
Waiting(r) == [i \in 1..r.count |-> At(r, i - 1)]

(* An index runs past the end of the ring once at most. *)
Wrap(x) == IF x < Capacity THEN x ELSE x - Capacity
LEMMA Wraps ==
  ASSUME NEW x \in 0..(2 * Capacity - 1)
  PROVE  x % Capacity = Wrap(x) /\ Wrap(x) \in Slots
  <1>0. Capacity \in Nat \ {0}  BY RingAssumption
  <1>1. CASE x < Capacity
    BY <1>0, <1>1 DEF Wrap, Slots
  <1>2. CASE ~(x < Capacity)
    <2>1. x - Capacity \in 0..(Capacity - 1)
      BY <1>0, <1>2
    <2> QED  BY <1>0, <1>2, <2>1 DEF Wrap, Slots
  <1> QED  BY <1>1, <1>2

LEMMA WaitingTyped ==
  ASSUME NEW r, RingSound(r)
  PROVE  /\ Waiting(r) \in Seq(RingEvent) /\ Len(Waiting(r)) = r.count
         /\ \A o \in 0..(r.count - 1) :
              /\ At(r, o) = r.slot[Wrap(r.read + o)] /\ At(r, o) \in RingEvent
              /\ Waiting(r)[o + 1] = At(r, o)
  <1>0. /\ Capacity \in Nat \ {0} /\ r.count \in 0..Capacity /\ r.read \in Slots
        /\ r.slot \in [Slots -> RingEvent]
    BY RingAssumption DEF RingSound, Ring
  <1>1. ASSUME NEW o \in 0..(r.count - 1)
        PROVE  At(r, o) = r.slot[Wrap(r.read + o)] /\ At(r, o) \in RingEvent
    <2>1. r.read + o \in 0..(2 * Capacity - 1)
      BY <1>0 DEF Slots
    <2> QED  BY <1>0, <2>1, Wraps DEF At
  <1>2. \A i \in 1..r.count : At(r, i - 1) \in RingEvent
    BY <1>0, <1>1
  <1>3. Waiting(r) \in Seq(RingEvent) /\ Len(Waiting(r)) = r.count
    BY <1>0, <1>2 DEF Waiting
  <1> QED  BY <1>0, <1>1, <1>3 DEF Waiting

(* Two sequences are the same if they have the same events. *)
LEMMA SameEvents ==
  ASSUME NEW p \in Seq(RingEvent), NEW q \in Seq(RingEvent), Len(p) = Len(q),
         \A i \in 1..Len(p) : p[i] = q[i]
  PROVE  p = q
  BY SeqEqual

(* The oldest event leaves. *)
LEMMA OldestLeaves ==
  ASSUME NEW r, RingSound(r), r.count # 0
  PROVE  LET t == [r EXCEPT !.read = (@ + 1) % Capacity, !.count = @ - 1]
         IN  RingSound(t) /\ Waiting(t) = Tail(Waiting(r))
  <1> DEFINE t == [r EXCEPT !.read = (@ + 1) % Capacity, !.count = @ - 1]
  <1>0. /\ Capacity \in Nat \ {0} /\ r \in Ring /\ r.count \in 1..Capacity
        /\ r.read \in 0..(Capacity - 1) /\ r.write \in 0..(Capacity - 1)
    BY RingAssumption DEF RingSound, Ring, Slots
  <1>1. t.slot = r.slot /\ t.read = Wrap(r.read + 1) /\ t.count = r.count - 1 /\ t.write = r.write
    BY <1>0, Wraps DEF Ring
  <1>2. RingSound(t)
    <2>1. t \in Ring
      <3>1. ASSUME NEW x \in Slots, NEW n \in 0..Capacity
            PROVE  [r EXCEPT !.read = x, !.count = n] \in Ring
        BY <1>0 DEF Ring
      <3>2. r.read + 1 \in 0..(2 * Capacity - 1) /\ r.count - 1 \in 0..Capacity
        BY <1>0
      <3>3. (r.read + 1) % Capacity \in Slots
        BY <3>2, Wraps
      <3> QED  BY <3>1, <3>2, <3>3
    <2>2. r.write = Wrap(r.read + r.count)
      BY <1>0, Wraps DEF RingSound
    <2>3. t.read + t.count \in 0..(2 * Capacity - 1)
      BY <1>0, <1>1 DEF Wrap
    <2>4. Wrap(t.read + t.count) = Wrap(r.read + r.count)
      BY <1>0, <1>1 DEF Wrap
    <2> QED  BY <1>1, <2>1, <2>2, <2>3, <2>4, Wraps DEF RingSound
  <1> HIDE DEF t
  <1>3. /\ Tail(Waiting(r)) \in Seq(RingEvent) /\ Len(Tail(Waiting(r))) = r.count - 1
        /\ \A i \in 1..(r.count - 1) : Tail(Waiting(r))[i] = Waiting(r)[i + 1]
    BY <1>0, WaitingTyped DEF RingSound
  <1>4. ASSUME NEW i \in 1..(r.count - 1)
        PROVE  Waiting(t)[i] = Waiting(r)[i + 1]
    <2>1. Wrap(t.read + (i - 1)) = Wrap(r.read + i)
      BY <1>0, <1>1 DEF Wrap
    <2>2. i - 1 \in 0..(t.count - 1) /\ i \in 0..(r.count - 1)
      BY <1>0, <1>1
    <2>3. Waiting(t)[i] = t.slot[Wrap(t.read + (i - 1))]
      BY <1>2, <2>2, WaitingTyped
    <2>4. Waiting(r)[i + 1] = r.slot[Wrap(r.read + i)]
      BY <2>2, WaitingTyped
    <2> QED  BY <1>1, <2>1, <2>3, <2>4
  <1>5. Waiting(t) \in Seq(RingEvent) /\ Len(Waiting(t)) = r.count - 1
    BY <1>1, <1>2, WaitingTyped
  <1>6. Waiting(t) = Tail(Waiting(r))
    BY <1>3, <1>4, <1>5, SameEvents
  <1> QED  BY <1>2, <1>6 DEF t

(* An event is written behind those that wait, where there is room. *)
LEMMA EventJoins ==
  ASSUME NEW r, RingSound(r), r.count < Capacity, NEW event \in RingEvent
  PROVE  LET t == [r EXCEPT !.slot[r.write] = event, !.write = (@ + 1) % Capacity,
                            !.count = @ + 1]
         IN  RingSound(t) /\ Waiting(t) = Append(Waiting(r), event)
  <1> DEFINE t == [r EXCEPT !.slot[r.write] = event, !.write = (@ + 1) % Capacity,
                            !.count = @ + 1]
  <1>0. /\ Capacity \in Nat \ {0} /\ r \in Ring /\ r.count \in 0..(Capacity - 1)
        /\ r.read \in 0..(Capacity - 1) /\ r.write \in Slots /\ r.slot \in [Slots -> RingEvent]
    BY RingAssumption DEF RingSound, Ring, Slots
  <1>1. r.write = Wrap(r.read + r.count)
    BY <1>0, Wraps DEF RingSound
  <1>2. /\ t.slot = [r.slot EXCEPT ![r.write] = event] /\ t.read = r.read
        /\ t.count = r.count + 1 /\ t.write = Wrap(r.write + 1)
    BY <1>0, Wraps DEF Ring, Slots
  <1>3. RingSound(t)
    <2>1. t \in Ring
      <3>1. ASSUME NEW x \in Slots, NEW n \in 0..Capacity
            PROVE  [r EXCEPT !.slot[r.write] = event, !.write = x, !.count = n] \in Ring
        <4>1. [r.slot EXCEPT ![r.write] = event] \in [Slots -> RingEvent]
          BY <1>0
        <4> QED  BY <1>0, <4>1 DEF Ring
      <3>2. r.write + 1 \in 0..(2 * Capacity - 1) /\ r.count + 1 \in 0..Capacity
        BY <1>0 DEF Slots
      <3>3. (r.write + 1) % Capacity \in Slots
        BY <3>2, Wraps
      <3> QED  BY <3>1, <3>2, <3>3
    <2>2. t.read + t.count \in 0..(2 * Capacity - 1)
      BY <1>0, <1>2
    <2>3. Wrap(t.read + t.count) = t.write
      BY <1>0, <1>1, <1>2 DEF Wrap
    <2> QED  BY <2>1, <2>2, <2>3, Wraps DEF RingSound
  <1> HIDE DEF t
  <1>4. /\ Append(Waiting(r), event) \in Seq(RingEvent)
        /\ Len(Append(Waiting(r), event)) = r.count + 1
        /\ \A i \in 1..r.count : Append(Waiting(r), event)[i] = Waiting(r)[i]
        /\ Append(Waiting(r), event)[r.count + 1] = event
    BY <1>0, WaitingTyped, AppendProperties
  <1>5. ASSUME NEW i \in 1..(r.count + 1)
        PROVE  Waiting(t)[i] = Append(Waiting(r), event)[i]
    <2>1. Waiting(t)[i] = t.slot[Wrap(r.read + (i - 1))]
      <3>1. i - 1 \in 0..(t.count - 1) /\ (i - 1) + 1 = i
        BY <1>0, <1>2
      <3>2. Waiting(t)[(i - 1) + 1] = t.slot[Wrap(t.read + (i - 1))]
        BY <1>3, <3>1, WaitingTyped
      <3> QED  BY <1>2, <3>1, <3>2
    <2>2. CASE i = r.count + 1
      <3>1. t.slot[r.write] = event
        BY <1>0, <1>2
      <3>2. r.read + (i - 1) = r.read + r.count
        BY <1>0, <2>2
      <3> QED  BY <1>1, <1>4, <2>1, <2>2, <3>1, <3>2
    <2>3. CASE i # r.count + 1
      <3>1. i \in 1..r.count /\ i - 1 \in 0..(r.count - 1)
        BY <1>0, <2>3
      <3>2. Wrap(r.read + (i - 1)) # r.write
        BY <1>0, <1>1, <3>1 DEF Wrap
      <3>3. Wrap(r.read + (i - 1)) \in Slots
        BY <1>0, <3>1, Wraps
      <3>4. Waiting(r)[i] = r.slot[Wrap(r.read + (i - 1))]
        BY <3>1, WaitingTyped
      <3> QED  BY <1>0, <1>2, <1>4, <2>1, <3>1, <3>2, <3>3, <3>4
    <2> QED  BY <2>2, <2>3
  <1>6. Waiting(t) \in Seq(RingEvent) /\ Len(Waiting(t)) = r.count + 1
    BY <1>2, <1>3, WaitingTyped
  <1>7. Waiting(t) = Append(Waiting(r), event)
    BY <1>4, <1>5, <1>6, SameEvents
  <1> QED  BY <1>3, <1>7 DEF t

(* queue_event: the newest events that fit. *)
LEMMA QueuedIsNewest ==
  ASSUME NEW r, RingSound(r), NEW event \in RingEvent
  PROVE  /\ RingSound(Queued(r, event))
         /\ Waiting(Queued(r, event)) = Queue!Newest(Append(Waiting(r), event))
  <1>0. Capacity \in Nat \ {0} /\ r.count \in 0..Capacity
    BY RingAssumption DEF RingSound, Ring
  <1>1. /\ Waiting(r) \in Seq(RingEvent) /\ Len(Waiting(r)) = r.count
        /\ Len(Append(Waiting(r), event)) = r.count + 1
    BY WaitingTyped
  <1>2. CASE r.count < Capacity
    <2>1. RoomMade(r) = r
      BY <1>0, <1>2 DEF RoomMade
    <2>2. Queue!Newest(Append(Waiting(r), event)) = Append(Waiting(r), event)
      BY <1>0, <1>1, <1>2 DEF Queue!Newest
    <2> QED  BY <1>2, <2>1, <2>2, EventJoins DEF Queued
  <1>3. CASE r.count = Capacity
    <2> DEFINE room == [r EXCEPT !.read = (@ + 1) % Capacity, !.count = @ - 1]
    <2>1. RoomMade(r) = room
      BY <1>3 DEF RoomMade
    <2>2. RingSound(room) /\ Waiting(room) = Tail(Waiting(r))
      BY <1>0, <1>3, OldestLeaves
    <2>3. room.count < Capacity
      BY <1>0, <1>3 DEF RingSound, Ring
    <2> HIDE DEF room
    <2>4. /\ RingSound(Queued(r, event))
          /\ Waiting(Queued(r, event)) = Append(Tail(Waiting(r)), event)
      BY <2>1, <2>2, <2>3, EventJoins DEF Queued
    <2>5. Queue!Newest(Append(Waiting(r), event)) = Tail(Append(Waiting(r), event))
      BY <1>0, <1>1, <1>3 DEF Queue!Newest
    <2>6. Tail(Append(Waiting(r), event)) = Append(Tail(Waiting(r)), event)
      <3>1. Len(Waiting(r)) > 0
        BY <1>0, <1>1, <1>3
      <3> QED  BY <1>1, <3>1
    <2> QED  BY <2>4, <2>5, <2>6
  <1> QED  BY <1>0, <1>2, <1>3

(* pop_serial_event: the events behind the one taken move up, those before it stay. *)
LEMMA ClosedTakesOne ==
  ASSUME NEW r, RingSound(r), NEW offset \in 0..(r.count - 1)
  PROVE  /\ RingSound(Closed(r, offset))
         /\ Waiting(Closed(r, offset)) =
              SubSeq(Waiting(r), 1, offset) \o SubSeq(Waiting(r), offset + 2, Len(Waiting(r)))
  <1> DEFINE t == Closed(r, offset)
             q == Waiting(r)
             a == SubSeq(q, 1, offset)
             b == SubSeq(q, offset + 2, Len(q))
  <1>0. /\ Capacity \in Nat \ {0} /\ r \in Ring /\ r.count \in 1..Capacity
        /\ r.read \in 0..(Capacity - 1) /\ r.write \in 0..(Capacity - 1)
        /\ r.slot \in [Slots -> RingEvent]
    BY RingAssumption DEF RingSound, Ring, Slots
  <1>1. r.write = Wrap(r.read + r.count)
    BY <1>0, Wraps DEF RingSound
  <1>2. /\ t.slot = [s \in Slots |->
                       LET o == (s + Capacity - r.read) % Capacity
                       IN  IF offset <= o /\ o + 1 < r.count THEN At(r, o + 1) ELSE r.slot[s]]
        /\ t.read = r.read /\ t.count = r.count - 1 /\ t.write = Wrap(r.write + Capacity - 1)
    BY <1>0, Wraps DEF Closed, Ring
  <1>3. ASSUME NEW o \in 0..(Capacity - 1)
        PROVE  /\ Wrap(r.read + o) \in Slots
               /\ (Wrap(r.read + o) + Capacity - r.read) % Capacity = o
    <2>1. Wrap(r.read + o) \in Slots
      BY <1>0, Wraps
    <2>2. Wrap(r.read + o) + Capacity - r.read \in 0..(2 * Capacity - 1)
      BY <1>0, <2>1 DEF Slots
    <2>3. Wrap(Wrap(r.read + o) + Capacity - r.read) = o
      BY <1>0 DEF Wrap
    <2> QED  BY <2>1, <2>2, <2>3, Wraps
  <1>4. t.slot \in [Slots -> RingEvent]
    <2>1. ASSUME NEW s \in Slots
          PROVE  (s + Capacity - r.read) % Capacity \in 0..(Capacity - 1)
      <3>1. s + Capacity - r.read \in 0..(2 * Capacity - 1)
        BY <1>0 DEF Slots
      <3> QED  BY <3>1, Wraps DEF Slots
    <2>2. ASSUME NEW o \in 0..(Capacity - 1), o + 1 < r.count
          PROVE  At(r, o + 1) \in RingEvent
      BY <1>0, <2>2, WaitingTyped
    <2> QED  BY <1>0, <1>2, <2>1, <2>2
  <1>5. RingSound(t)
    <2>1. r.write + Capacity - 1 \in 0..(2 * Capacity - 1)
      BY <1>0
    <2>2. t \in Ring
      <3>1. ASSUME NEW f \in [Slots -> RingEvent], NEW x \in Slots, NEW n \in 0..Capacity
            PROVE  [r EXCEPT !.slot = f, !.write = x, !.count = n] \in Ring
        BY <1>0 DEF Ring
      <3>2. (r.write + Capacity - 1) % Capacity \in Slots
        BY <2>1, Wraps
      <3>3. r.count - 1 \in 0..Capacity
        BY <1>0
      <3> QED  BY <1>2, <1>4, <3>1, <3>2, <3>3 DEF Closed
    <2>3. t.read + t.count \in 0..(2 * Capacity - 1)
      BY <1>0, <1>2
    <2>4. Wrap(t.read + t.count) = t.write
      BY <1>0, <1>1, <1>2 DEF Wrap
    <2> QED  BY <2>2, <2>3, <2>4, Wraps DEF RingSound
  <1>6. q \in Seq(RingEvent) /\ Len(q) = r.count
    BY WaitingTyped
  <1>7. /\ a \in Seq(RingEvent) /\ Len(a) = offset /\ (\A i \in 1..offset : a[i] = q[i])
        /\ b \in Seq(RingEvent) /\ Len(b) = r.count - 1 - offset
        /\ (\A i \in 1..(r.count - 1 - offset) : b[i] = q[offset + 1 + i])
    <2>1. offset \in 0..Len(q) /\ Len(q) \in Nat
      BY <1>0, <1>6
    <2> HIDE DEF q
    <2>2. a \in Seq(RingEvent) /\ Len(a) = offset /\ (\A i \in 1..offset : a[i] = q[i])
      BY <1>6, <2>1, SubSeqProperties
    <2>3. b \in Seq(RingEvent) /\ Len(b) = r.count - 1 - offset
      BY <1>0, <1>6, <2>1, SubSeqProperties
    <2>4. ASSUME NEW i \in 1..(r.count - 1 - offset)
          PROVE  b[i] = q[offset + 1 + i]
      BY <1>0, <1>6, <2>1, SubSeqProperties
    <2> HIDE DEF a, b
    <2> QED  BY <2>2, <2>3, <2>4
  <1>8. ASSUME NEW i \in 1..(r.count - 1)
        PROVE  Waiting(t)[i] = IF i <= offset THEN q[i] ELSE q[i + 1]
    <2> DEFINE s == Wrap(r.read + (i - 1))
    <2>0. /\ i - 1 \in 0..(Capacity - 1) /\ i - 1 \in 0..(r.count - 1) /\ i - 1 \in 0..(t.count - 1)
          /\ i \in 0..(r.count - 1) /\ (i - 1) + 1 = i
      BY <1>0, <1>2
    <2>1. s \in Slots /\ (s + Capacity - r.read) % Capacity = i - 1
      BY <1>3, <2>0
    <2>2. Waiting(t)[i] = t.slot[s]
      <3>1. Waiting(t)[(i - 1) + 1] = t.slot[Wrap(t.read + (i - 1))]
        BY <1>5, <2>0, WaitingTyped
      <3> QED  BY <1>2, <2>0, <3>1
    <2>3. q[i] = r.slot[s] /\ q[i + 1] = At(r, i)
      <3>1. q[(i - 1) + 1] = r.slot[s] /\ q[i + 1] = At(r, i)
        BY <2>0, WaitingTyped
      <3> QED  BY <2>0, <3>1
    <2> HIDE DEF s, t, q
    <2>4. t.slot[s] = IF offset <= i - 1 /\ i < r.count THEN At(r, i) ELSE r.slot[s]
      BY <1>0, <1>2, <2>1
    <2> QED  BY <1>0, <2>2, <2>3, <2>4
  <1>9. Waiting(t) \in Seq(RingEvent) /\ Len(Waiting(t)) = r.count - 1
    BY <1>2, <1>5, WaitingTyped
  <1> SUFFICES RingSound(t) /\ Waiting(t) = a \o b
    OBVIOUS
  <1> HIDE DEF a, b, q, t
  <1>10. /\ a \o b \in Seq(RingEvent) /\ Len(a \o b) = r.count - 1
         /\ \A i \in 1..(r.count - 1) :
              (a \o b)[i] = IF i <= offset THEN a[i] ELSE b[i - offset]
    <2>1. Len(a) + Len(b) = r.count - 1
      BY <1>0, <1>7
    <2>2. /\ a \o b \in Seq(RingEvent) /\ Len(a \o b) = Len(a) + Len(b)
          /\ \A i \in 1..(Len(a) + Len(b)) :
               (a \o b)[i] = IF i <= Len(a) THEN a[i] ELSE b[i - Len(a)]
      BY <1>7, ConcatProperties
    <2> QED  BY <1>7, <2>1, <2>2
  <1>11. ASSUME NEW i \in 1..(r.count - 1)
         PROVE  Waiting(t)[i] = (a \o b)[i]
    <2>1. CASE i <= offset
      BY <1>0, <1>7, <1>8, <1>10, <2>1
    <2>2. CASE ~(i <= offset)
      <3>1. i - offset \in 1..(r.count - 1 - offset) /\ offset + 1 + (i - offset) = i + 1
        BY <1>0, <2>2
      <3> QED  BY <1>7, <1>8, <1>10, <2>2, <3>1
    <2> QED  BY <2>1, <2>2
  <1> QED  BY <1>5, <1>9, <1>10, <1>11, SameEvents

(* Every step of the ring is a step of the queue. *)
LEMMA RingStep ==
  ASSUME RingInv, [RingNext]_ringVars
  PROVE  RingInv' /\ [Queue!HostNext]_(Queue!hostVars)
  <1> DEFINE q == Waiting(ring)
  <1>0. /\ RingSound(ring) /\ ring \in Ring /\ ringMade \in Nat /\ Capacity \in Nat \ {0}
        /\ ring.count \in 0..Capacity /\ q \in Seq(RingEvent) /\ Len(q) = ring.count
    BY RingAssumption, WaitingTyped DEF RingInv, RingSound, Ring
  <1>1. Queue!hostVars = <<q, ringMade>> /\ Queue!hostVars' = <<q', ringMade'>>
    BY DEF Queue!hostVars, Waiting
  <1>2. CASE \E endpoint \in Endpoints : QueueEvent(endpoint)
    <2>1. PICK endpoint \in Endpoints : QueueEvent(endpoint)
      BY <1>2
    <2> DEFINE event == [endpoint |-> endpoint, n |-> ringMade']
    <2>2. /\ ringMade < EventsMade /\ ringMade' = ringMade + 1
          /\ ring' = Queued(ring, event) /\ event \in RingEvent
      BY <1>0, <2>1 DEF QueueEvent, RingEvent
    <2>3. RingSound(ring') /\ q' = Queue!Newest(Append(q, event))
      BY <1>0, <2>2, QueuedIsNewest
    <2>4. RingInv'
      BY <1>0, <2>2, <2>3 DEF RingInv
    <2>5. Queue!Make(endpoint)
      BY <2>2, <2>3 DEF Queue!Make, Waiting
    <2> QED  BY <2>4, <2>5 DEF Queue!HostNext
  <1>3. CASE \E endpoint \in Endpoints : PopSerialEvent(endpoint)
    <2>1. PICK endpoint \in Endpoints : PopSerialEvent(endpoint)
      BY <1>3
    <2>2. PICK offset \in 0..(ring.count - 1) :
            /\ At(ring, offset).endpoint = endpoint
            /\ \A o \in 0..(offset - 1) : At(ring, o).endpoint # endpoint
            /\ ring' = Closed(ring, offset)
            /\ UNCHANGED ringMade
      BY <2>1 DEF PopSerialEvent
    <2>3. /\ RingSound(ring')
          /\ q' = SubSeq(q, 1, offset) \o SubSeq(q, offset + 2, Len(q))
      BY <1>0, <2>2, ClosedTakesOne
    <2>4. RingInv'
      BY <1>0, <2>2, <2>3 DEF RingInv
    <2>5. offset + 1 \in DOMAIN q /\ (offset + 1) - 1 = offset /\ (offset + 1) + 1 = offset + 2
      BY <1>0 DEF Waiting
    <2>6. Queue!FirstOf(endpoint, q, offset + 1)
      <3>1. q[offset + 1] = At(ring, offset)
        BY <1>0, WaitingTyped
      <3>2. ASSUME NEW j \in 1..offset
            PROVE  q[j].endpoint # endpoint
        <4>1. j - 1 \in 0..(offset - 1) /\ j - 1 \in 0..(ring.count - 1)
          BY <1>0
        <4>2. q[j] = At(ring, j - 1)
          BY <1>0, <4>1, WaitingTyped
        <4> QED  BY <2>2, <4>1, <4>2
      <3> QED  BY <2>2, <2>5, <3>1, <3>2 DEF Queue!FirstOf
    <2>7. Queue!Take(endpoint)
      <3>1. \E i \in DOMAIN q :
              /\ Queue!FirstOf(endpoint, q, i)
              /\ q' = SubSeq(q, 1, i - 1) \o SubSeq(q, i + 1, Len(q))
              /\ UNCHANGED ringMade
        <4> HIDE DEF q
        <4> QED  BY <2>2, <2>3, <2>5, <2>6
      <3> QED  BY <3>1 DEF Queue!Take, Waiting
    <2> QED  BY <2>4, <2>7 DEF Queue!HostNext
  <1>4. CASE NextEvent
    <2>1. RingSound(ring') /\ q' = Tail(q) /\ ringMade' = ringMade
      BY <1>0, <1>4, OldestLeaves DEF NextEvent
    <2>2. RingInv'
      BY <1>0, <2>1 DEF RingInv
    <2>3. q # <<>>
      <3> HIDE DEF q
      <3> QED  BY <1>0, <1>4 DEF NextEvent
    <2>4. Queue!TakeOldest
      BY <2>1, <2>3 DEF Queue!TakeOldest, Waiting
    <2> QED  BY <2>2, <2>4 DEF Queue!HostNext
  <1>5. CASE RingReset
    <2>1. /\ ring' = [ring EXCEPT !.read = 0, !.write = 0, !.count = 0]
          /\ ringMade' = ringMade
      BY <1>5 DEF RingReset
    <2>2. /\ ring'.slot = ring.slot /\ ring'.read = 0 /\ ring'.write = 0 /\ ring'.count = 0
          /\ ring' \in Ring
      <3>1. 0 \in Slots /\ 0 \in 0..Capacity
        BY <1>0 DEF Slots
      <3> QED  BY <1>0, <2>1, <3>1 DEF Ring
    <2>3. RingSound(ring')
      BY <1>0, <2>2, Wraps DEF RingSound, Wrap
    <2>4. q' = <<>>
      BY <1>0, <2>2, <2>3, WaitingTyped
    <2>5. RingInv'
      BY <1>0, <2>1, <2>3 DEF RingInv
    <2>6. Queue!Forget
      BY <2>1, <2>4 DEF Queue!Forget, Waiting
    <2> QED  BY <2>5, <2>6 DEF Queue!HostNext
  <1>6. CASE UNCHANGED ringVars
    <2>1. ring' = ring /\ ringMade' = ringMade
      BY <1>6 DEF ringVars
    <2>2. RingInv'
      BY <1>0, <2>1 DEF RingInv
    <2>3. q' = q
      BY <2>1 DEF Waiting, At
    <2> QED  BY <1>1, <2>1, <2>2, <2>3
  <1> QED  BY <1>2, <1>3, <1>4, <1>5, <1>6 DEF RingNext

(* The ring of events implements the queue the host is promised, for every capacity:
   events leave in the order of their making, a full ring forgets its oldest one, and
   the events of one interface are taken from between the others, though all of it is
   index arithmetic over slots that are used again and again. *)
THEOREM RingImplementsQueue == RingSpec => RingIsQueue
  <1>1. RingInit => RingInv /\ Queue!HostInit
    <2> SUFFICES ASSUME RingInit PROVE RingInv /\ Queue!HostInit
      OBVIOUS
    <2>1. Capacity \in Nat \ {0}  BY RingAssumption
    <2>2. ring \in Ring /\ ring.read = 0 /\ ring.write = 0 /\ ring.count = 0
      BY <2>1 DEF RingInit, Ring, Slots, NoEvent, RingEvent
    <2>3. RingSound(ring)
      BY <2>1, <2>2, Wraps DEF RingSound, Wrap
    <2>4. Waiting(ring) = <<>>
      BY <2>2, <2>3, WaitingTyped
    <2> QED  BY <2>3, <2>4 DEF RingInit, RingInv, Queue!HostInit, Waiting
  <1>2. RingInv /\ [RingNext]_ringVars => RingInv' /\ [Queue!HostNext]_(Queue!hostVars)
    BY RingStep
  <1> QED  BY <1>1, <1>2, PTL DEF RingSpec, RingIsQueue, Queue!HostSpec

-----------------------------------------------------------------------------
(* The debug unit *)

DebugUnit ==
  [control : SUBSET Debuggers, halted : BOOLEAN, armed : BOOLEAN, demcr : SUBSET DemcrBits,
   dfsr : SUBSET Causes, pending : SUBSET {"monitor", "hardfault"}, sleeping : BOOLEAN,
   handler : Handlers, stop : BOOLEAN]

DwtUnit ==
  [count : 0..DwtWidth - 1, on : BOOLEAN, target : 0..DwtWidth - 1, armed : BOOLEAN,
   matched : BOOLEAN]

DebugTyped ==
  /\ dbg \in DebugUnit
  /\ dwt \in DwtUnit
  /\ dbgRan \in 0..2 /\ dbgHost \in BOOLEAN

(* The unit at any point, also between the events of one instruction: whoever holds the
   core is attached, and a core that is to be stepped is armed or halted already. *)
Attached(d) ==
  /\ d \in DebugUnit
  /\ ~(d.halted /\ d.armed)
  /\ d.halted \/ d.armed => "debugen" \in d.control
  /\ "monitor" \in d.pending => "monpend" \in d.demcr
  /\ {"debugen", "step"} \subseteq d.control => d.halted \/ d.armed

(* The strengthening: nothing has retired since the step was armed or the halt asked
   for, and one instruction since the step halted. *)
Counted(d, ran) ==
  /\ d.armed => ran = 0
  /\ {"debugen", "halt"} \subseteq d.control => d.halted /\ ran = 0
  /\ {"debugen", "step"} \subseteq d.control => ran <= 1

DebugInv == DebugTyped /\ Attached(dbg) /\ Counted(dbg, dbgRan) /\ StopsExplained

(* A debug event leaves the run of the host alone, arms nothing, and lets a halted core
   be. *)
Follows(d, r) ==
  /\ Attached(r) /\ r.control = d.control /\ r.stop = d.stop
  /\ (r.armed => d.armed) /\ (d.halted => r.halted)

LEMMA PendedFollows ==
  ASSUME NEW d, Attached(d), NEW e \in {"monitor", "hardfault"}
  PROVE  Follows(d, Pended(d, e))
  <1>1. Pended(d, e) \in DebugUnit
    BY DEF Pended, Attached, DebugUnit, DemcrBits
  <1> QED  BY <1>1 DEF Pended, Attached, DebugUnit, Follows

LEMMA EventFollows ==
  ASSUME NEW d, Attached(d), NEW cause \in Causes
  PROVE  Follows(d, Event(d, cause)) /\ (Event(d, cause).armed => ~Event(d, cause).halted)
  <1> DEFINE told == [d EXCEPT !.dfsr = @ \cup {cause}]
  <1>1. Attached(told) /\ told.control = d.control /\ told.stop = d.stop
        /\ told.armed = d.armed /\ told.halted = d.halted
    <2>1. told \in DebugUnit
      BY DEF Attached, DebugUnit
    <2> QED  BY <2>1 DEF Attached, DebugUnit
  <1>2. CASE "debugen" \in d.control
    <2>1. Event(d, cause) = [told EXCEPT !.halted = TRUE, !.armed = FALSE, !.sleeping = FALSE]
      BY <1>2 DEF Event
    <2> HIDE DEF told
    <2>2. Event(d, cause) \in DebugUnit
      BY <1>1, <2>1 DEF Attached, DebugUnit
    <2> QED  BY <1>1, <1>2, <2>1, <2>2 DEF Attached, DebugUnit, Follows
  <1>3. CASE "debugen" \notin d.control
    <2>1. \E e \in {"monitor", "hardfault"} : Event(d, cause) = Pended(told, e)
      BY <1>3 DEF Event
    <2> HIDE DEF told
    <2> QED  BY <1>1, <2>1, PendedFollows DEF Follows, Attached
  <1> QED  BY <1>2, <1>3

LEMMA EventIfFollows ==
  ASSUME NEW d, Attached(d), NEW cause \in Causes, NEW happens
  PROVE  Follows(d, EventIf(happens, d, cause))
  <1>1. CASE happens
    BY <1>1, EventFollows DEF EventIf
  <1>2. CASE ~happens
    BY <1>2 DEF EventIf, Follows
  <1> QED  BY <1>1, <1>2

(* Taking an exception does not touch what the debugger holds. *)
LEMMA TakenFollows ==
  ASSUME NEW d, Attached(d), NEW e \in {"none", "monitor", "hardfault"}
  PROVE  Follows(d, EventTaken(d, e))
  <1>1. CASE e = "none"
    BY <1>1 DEF EventTaken, Follows
  <1>2. CASE e # "none"
    <2> DEFINE c == Caught(d)
    <2>1. Follows(d, c) /\ c \in DebugUnit
      <3>1. "event" \in Causes
        BY DEF Causes
      <3>2. Follows(d, EventIf("catch" \in d.demcr, d, "event"))
        BY <3>1, EventIfFollows
      <3> QED  BY <3>2 DEF Caught, Follows, Attached
    <2>2. EventTaken(d, e) = [c EXCEPT !.pending = @ \ {e}, !.handler = e, !.sleeping = FALSE]
      BY <1>2 DEF EventTaken
    <2> HIDE DEF c
    <2>3. EventTaken(d, e) \in DebugUnit
      <3>1. e \in Handlers
        BY <1>2 DEF Handlers
      <3> QED  BY <2>1, <2>2, <3>1 DEF DebugUnit
    <2> QED  BY <2>1, <2>2, <2>3 DEF Follows, Attached, DebugUnit
  <1> QED  BY <1>1, <1>2

(* A step that retires is armed no more. *)
LEMMA RetiredFollows ==
  ASSUME NEW d, Attached(d)
  PROVE  Follows(d, Retired(d)) /\ ~Retired(d).armed
  <1>1. CASE d.armed
    <2>1. Retired(d) = [d EXCEPT !.armed = FALSE, !.halted = TRUE, !.dfsr = @ \cup {"halted"}]
      BY <1>1 DEF Retired
    <2>2. Retired(d) \in DebugUnit
      BY <2>1 DEF Attached, DebugUnit, Causes
    <2> QED  BY <1>1, <2>1, <2>2 DEF Follows, Attached, DebugUnit
  <1>2. CASE ~d.armed
    <2>1. Retired(d) = EventIf({"monen", "monstep"} \subseteq d.demcr, d, "halted")
      BY <1>2 DEF Retired
    <2>2. "halted" \in Causes
      BY DEF Causes
    <2>3. Follows(d, EventIf({"monen", "monstep"} \subseteq d.demcr, d, "halted"))
      BY <2>2, EventIfFollows
    <2> QED  BY <1>2, <2>1, <2>3 DEF Follows
  <1> QED  BY <1>1, <1>2

(* After an instruction nothing is armed, and the run stops for a halted core only. *)
LEMMA InstructionFollows ==
  ASSUME NEW d, Attached(d), NEW kind \in Kinds0, NEW cycles
  PROVE  LET r == Instruction(d, kind, cycles)
         IN  Attached(r) /\ ~r.armed /\ r.control = d.control /\ (r.stop => r.halted)
  <1> DEFINE fetched  == EventIf(kind = "matched" /\ "trace" \in d.demcr, d, "event")
             executed == EventIf(kind = "bkpt", fetched, "event")
             retired  == Retired(executed)
             counted  == EventIf(DwtMatches(dwt, retired, cycles), retired, "event")
             waited   == IF kind = "wfi" /\ counted.pending = {}
                         THEN [counted EXCEPT !.sleeping = TRUE] ELSE counted
             returned == IF kind = "return" THEN [waited EXCEPT !.handler = "thread"] ELSE waited
             r        == [returned EXCEPT !.stop = ~Allowed(returned)]
  <1>0. "event" \in Causes  BY DEF Causes
  <1>1. Follows(d, fetched)
    BY <1>0, EventIfFollows
  <1> HIDE DEF fetched
  <1>2. Attached(executed) /\ executed.control = d.control
    BY <1>0, <1>1, EventIfFollows DEF Follows
  <1> HIDE DEF executed
  <1>3. Attached(retired) /\ retired.control = d.control /\ ~retired.armed
    BY <1>2, RetiredFollows DEF Follows
  <1> HIDE DEF retired
  <1>4. DwtMatches(dwt, retired, cycles) \in BOOLEAN
    BY DEF DwtMatches
  <1>5. Attached(counted) /\ counted.control = d.control /\ ~counted.armed
    BY <1>0, <1>3, <1>4, EventIfFollows DEF Follows
  <1> HIDE DEF counted
  <1>6. Attached(waited) /\ waited.control = d.control /\ ~waited.armed
    <2>1. waited \in DebugUnit
      BY <1>5 DEF Attached, DebugUnit
    <2> QED  BY <1>5, <2>1 DEF Attached, DebugUnit
  <1> HIDE DEF waited
  <1>7. Attached(returned) /\ returned.control = d.control /\ ~returned.armed
    <2>1. returned \in DebugUnit
      BY <1>6 DEF Attached, DebugUnit, Handlers
    <2> QED  BY <1>6, <2>1 DEF Attached, DebugUnit
  <1> HIDE DEF returned
  <1>8. Attached(r) /\ r.control = d.control /\ ~r.armed /\ (r.stop => r.halted)
    <2>1. r \in DebugUnit
      BY <1>7 DEF Attached, DebugUnit, Allowed
    <2> QED  BY <1>7, <2>1 DEF Attached, DebugUnit, Allowed
  <1>9. Instruction(d, kind, cycles) = r
    BY DEF Instruction, fetched, executed, retired, counted, waited, returned
  <1> HIDE DEF r
  <1> QED  BY <1>8, <1>9

(* The counter stays within its width. *)
LEMMA DwtCountedTyped ==
  ASSUME DebugTyped, NEW d, NEW cycles \in DwtSteps
  PROVE  DwtCounted(dwt, d, cycles) \in DwtUnit
  <1>1. DwtMatches(dwt, d, cycles) \in BOOLEAN
    BY DEF DwtMatches
  <1>2. (dwt.count + cycles) % DwtWidth \in 0..DwtWidth - 1
    BY DebugAssumption DEF DebugTyped, DwtUnit
  <1> QED  BY <1>1, <1>2 DEF DwtCounted, DebugTyped, DwtUnit

LEMMA ResetTyped ==
  /\ DebugReset0 \in DebugUnit
  /\ DwtReset0 \in DwtUnit
  <1>1. 0 \in 0..DwtWidth - 1
    BY DebugAssumption
  <1>2. DebugReset0 \in DebugUnit
    BY DEF DebugReset0, DebugUnit, Handlers
  <1> QED  BY <1>1, <1>2 DEF DwtReset0, DwtUnit

LEMMA DebugStart ==
  ASSUME DebugInit
  PROVE  DebugInv
  <1>1. dbg \in DebugUnit /\ DebugTyped
    <2>1. dbg \in DebugUnit
      BY ResetTyped DEF DebugInit
    <2>2. dwt \in DwtUnit
      BY ResetTyped DEF DebugInit
    <2>3. dbgRan \in 0..2
      BY DEF DebugInit
    <2>4. dbgHost \in BOOLEAN
      BY Zenon DEF DebugInit
    <2> QED  BY <2>1, <2>2, <2>3, <2>4 DEF DebugTyped
  <1>2. dbg = DebugReset0 /\ dbgRan = 0
    BY DEF DebugInit
  <1>3. dbg.control = {} /\ ~dbg.halted /\ ~dbg.armed /\ dbg.pending = {} /\ ~dbg.stop
    BY <1>2 DEF DebugReset0
  <1> QED  BY <1>1, <1>2, <1>3 DEF DebugInv, Attached, Counted, StopsExplained

LEMMA DebugStep ==
  ASSUME DebugInv, [DebugNext]_debugVars
  PROVE  DebugInv'
  <1>0. /\ dbg \in DebugUnit /\ Attached(dbg) /\ dbgRan \in 0..2 /\ dbgHost \in BOOLEAN
        /\ DebugTyped
    BY DEF DebugInv, DebugTyped
  <1>1. CASE \E e \in {"none", "monitor", "hardfault"}, kind \in Kinds0, cycles \in DwtSteps :
               Step(e, kind, cycles)
    <2>1. PICK e \in {"none", "monitor", "hardfault"}, kind \in Kinds0, cycles \in DwtSteps :
               Step(e, kind, cycles)
      BY <1>1
    <2> DEFINE d == EventTaken(dbg, e)
    <2>2. Follows(dbg, d)
      BY <1>0, TakenFollows
    <2>3. /\ Allowed(dbg) /\ dbg' = Instruction(d, kind, cycles)
          /\ dwt' = DwtCounted(dwt, d, cycles)
          /\ dbgRan' = IF dbgRan = 2 THEN 2 ELSE dbgRan + 1
          /\ dbgHost' = dbgHost
      BY <2>1 DEF Step
    <2> HIDE DEF d
    <2>4. Attached(dbg') /\ ~dbg'.armed /\ dbg'.control = dbg.control /\ (dbg'.stop => dbg'.halted)
      BY <2>2, <2>3, InstructionFollows DEF Follows
    <2>5. DebugTyped'
      BY <1>0, <2>3, <2>4, DwtCountedTyped DEF DebugTyped, Attached
    <2>6. ~dbg.halted
      BY <1>0, <2>3 DEF Allowed, Attached
    <2>7. Counted(dbg', dbgRan')
      BY <1>0, <2>3, <2>4, <2>6 DEF DebugInv, Counted, Attached
    <2> QED  BY <2>4, <2>5, <2>7 DEF DebugInv, StopsExplained
  <1>2. CASE \E cycles \in DwtSteps : Sleep(cycles)
    <2>1. PICK cycles \in DwtSteps : Sleep(cycles)
      BY <1>2
    <2>2. DwtMatches(dwt, dbg, cycles) \in BOOLEAN /\ "event" \in Causes
      BY DEF DwtMatches, Causes
    <2>3. Follows(dbg, dbg') /\ dwt' = DwtCounted(dwt, dbg, cycles) /\ ~dbg.stop
          /\ dbgRan' = dbgRan /\ dbgHost' = dbgHost
      BY <1>0, <2>1, <2>2, EventIfFollows DEF Sleep
    <2>4. DebugTyped'
      BY <1>0, <2>3, DwtCountedTyped DEF DebugTyped, Follows, Attached
    <2> QED  BY <2>3, <2>4 DEF DebugInv, Counted, StopsExplained, Follows
  <1>3. CASE StepRefused
    <2>1. dbg' = [dbg EXCEPT !.stop = TRUE] /\ UNCHANGED <<dwt, dbgRan, dbgHost>> /\ dbg.halted
      BY <1>3 DEF StepRefused, Allowed
    <2>2. dbg' \in DebugUnit
      BY <1>0, <2>1 DEF DebugUnit
    <2> QED  BY <1>0, <2>1, <2>2 DEF DebugInv, DebugTyped, Attached, DebugUnit, Counted, StopsExplained
  <1>4. CASE HostBreakpoint
    <2>1. dbg' = [dbg EXCEPT !.stop = TRUE] /\ UNCHANGED <<dwt, dbgRan>> /\ dbgHost' = TRUE
      BY <1>4 DEF HostBreakpoint
    <2>2. dbg' \in DebugUnit
      BY <1>0, <2>1 DEF DebugUnit
    <2> QED  BY <1>0, <2>1, <2>2 DEF DebugInv, DebugTyped, Attached, DebugUnit, Counted, StopsExplained
  <1>5. CASE HostResumes
    <2>1. dbg' = [dbg EXCEPT !.stop = FALSE] /\ UNCHANGED <<dwt, dbgRan>> /\ dbgHost' = FALSE
      BY <1>5 DEF HostResumes
    <2>2. dbg' \in DebugUnit
      BY <1>0, <2>1 DEF DebugUnit
    <2> QED  BY <1>0, <2>1, <2>2 DEF DebugInv, DebugTyped, Attached, DebugUnit, Counted, StopsExplained
  <1>6. CASE Interrupted
    <2>1. dbg' = [dbg EXCEPT !.sleeping = FALSE] /\ UNCHANGED <<dwt, dbgRan, dbgHost>>
      BY <1>6 DEF Interrupted
    <2>2. dbg' \in DebugUnit
      BY <1>0, <2>1 DEF DebugUnit
    <2> QED  BY <1>0, <2>1, <2>2 DEF DebugInv, DebugTyped, Attached, DebugUnit, Counted, StopsExplained
  <1>7. CASE \E control \in DebugControls : WriteDhcsr(control)
    <2>1. PICK control \in DebugControls : WriteDhcsr(control)
      BY <1>7
    <2>2. control \in SUBSET Debuggers
      BY DebugAssumption
    <2> DEFINE c == Controlled(dbg, control)
    <2>3. /\ c \in DebugUnit /\ c.control = control /\ c.stop = dbg.stop
          /\ c.demcr = dbg.demcr /\ c.pending = dbg.pending
      BY <1>0, <2>2 DEF Controlled, DebugUnit
    <2>4. /\ ~(c.halted /\ c.armed)
          /\ c.halted \/ c.armed => "debugen" \in control
          /\ {"debugen", "halt"} \subseteq control => c.halted
          /\ {"debugen", "step"} \subseteq control => c.halted \/ c.armed
      <3>1. CASE "debugen" \notin control
        BY <1>0, <3>1 DEF Controlled, DebugUnit
      <3>2. CASE "debugen" \in control /\ "halt" \in control
        BY <1>0, <3>2 DEF Controlled, DebugUnit
      <3>3. CASE "debugen" \in control /\ "halt" \notin control /\ "step" \in control
        <4>1. control = {"debugen", "step"}
          BY <2>2, <3>3 DEF Debuggers
        <4>2. c = [dbg EXCEPT !.control = control, !.halted = FALSE, !.armed = TRUE]
          BY <4>1 DEF Controlled
        <4> QED  BY <1>0, <3>3, <4>2 DEF DebugUnit
      <3>4. CASE "debugen" \in control /\ "halt" \notin control /\ "step" \notin control
        <4>1. c = [dbg EXCEPT !.control = control, !.halted = FALSE]
          BY <3>4 DEF Controlled
        <4> QED  BY <1>0, <3>4, <4>1 DEF DebugUnit
      <3> QED  BY <3>1, <3>2, <3>3, <3>4
    <2>5. dbg' = Resumed(c) /\ dbgRan' = 0 /\ dbgHost' = (dbgHost /\ dbg'.stop) /\ dwt' = dwt
      BY <2>1 DEF WriteDhcsr
    <2> HIDE DEF c
    <2>6. /\ dbg' \in DebugUnit /\ dbg'.control = c.control /\ dbg'.halted = c.halted
          /\ dbg'.armed = c.armed /\ dbg'.demcr = c.demcr /\ dbg'.pending = c.pending
          /\ (dbg'.stop => c.halted)
      BY <2>3, <2>5 DEF Resumed, DebugUnit
    <2>7. Attached(dbg')
      BY <1>0, <2>3, <2>4, <2>6 DEF Attached
    <2>8. dbg'.stop \in BOOLEAN
      BY <2>6 DEF DebugUnit
    <2>9. DebugTyped'
      BY <1>0, <2>5, <2>6, <2>8 DEF DebugTyped
    <2> QED  BY <2>3, <2>4, <2>5, <2>6, <2>7, <2>9 DEF DebugInv, Counted, StopsExplained
  <1>8. CASE \E demcr \in DebugDemcrs : WriteDemcr(demcr)
    <2>1. PICK demcr \in DebugDemcrs : WriteDemcr(demcr)
      BY <1>8
    <2>2. demcr \in SUBSET DemcrBits
      BY DebugAssumption
    <2> DEFINE written == [dbg EXCEPT !.demcr = demcr]
               pended == IF "monpend" \in demcr THEN Pended(written, "monitor")
                         ELSE [written EXCEPT !.pending = @ \ {"monitor"}]
    <2>3. /\ pended \in DebugUnit /\ pended.control = dbg.control /\ pended.stop = dbg.stop
          /\ pended.armed = dbg.armed /\ pended.halted = dbg.halted
          /\ ("monitor" \in pended.pending => "monpend" \in pended.demcr)
      <3>1. CASE "monpend" \in demcr
        BY <1>0, <2>2, <3>1 DEF Pended, DebugUnit, DemcrBits
      <3>2. CASE "monpend" \notin demcr
        BY <1>0, <2>2, <3>2 DEF DebugUnit
      <3> QED  BY <3>1, <3>2
    <2>4. dbg' = EventIf("monreq" \in demcr, pended, "external") /\ UNCHANGED <<dwt, dbgRan, dbgHost>>
      BY <2>1 DEF WriteDemcr
    <2> HIDE DEF pended
    <2>5. Attached(pended)
      BY <1>0, <2>3 DEF Attached
    <2>6. Follows(pended, dbg')
      <3>1. "external" \in Causes
        BY DEF Causes
      <3>2. Follows(pended, EventIf("monreq" \in demcr, pended, "external"))
        BY <2>5, <3>1, EventIfFollows
      <3> QED  BY <2>4, <3>2
    <2>7. DebugTyped'
      BY <1>0, <2>4, <2>6 DEF DebugTyped, Follows, Attached
    <2> QED  BY <2>3, <2>4, <2>6, <2>7 DEF DebugInv, Counted, StopsExplained, Follows
  <1>9. CASE ClearDfsr
    <2>1. dbg' = [dbg EXCEPT !.dfsr = {}] /\ UNCHANGED <<dwt, dbgRan, dbgHost>>
      BY <1>9 DEF ClearDfsr
    <2>2. dbg' \in DebugUnit
      BY <1>0, <2>1 DEF DebugUnit
    <2> QED  BY <1>0, <2>1, <2>2 DEF DebugInv, DebugTyped, Attached, DebugUnit, Counted, StopsExplained
  <1>10. CASE \E on, armed \in BOOLEAN, target \in DwtTargets : WriteDwt(on, 0, target, armed)
    <2>1. /\ UNCHANGED <<dbg, dbgRan, dbgHost>>
          /\ dwt' \in DwtUnit
      BY <1>10, DebugAssumption DEF WriteDwt, DwtUnit
    <2> QED  BY <1>0, <2>1 DEF DebugInv, DebugTyped, StopsExplained
  <1>11. CASE ReadMatched
    <2>1. /\ UNCHANGED <<dbg, dbgRan, dbgHost>>
          /\ dwt' \in DwtUnit
      BY <1>0, <1>11 DEF ReadMatched, DebugTyped, DwtUnit
    <2> QED  BY <1>0, <2>1 DEF DebugInv, DebugTyped, StopsExplained
  <1>12. CASE DebugReset
    <2>1. dbg' = DebugReset0 /\ dwt' = DwtReset0 /\ dbgRan' = 0 /\ dbgHost' = FALSE
      BY <1>12 DEF DebugReset
    <2>2. DebugTyped'
      <3>1. dbg' \in DebugUnit
        BY <2>1, ResetTyped
      <3>2. dwt' \in DwtUnit
        BY <2>1, ResetTyped
      <3>3. dbgRan' \in 0..2
        BY <2>1
      <3>4. dbgHost' \in BOOLEAN
        BY <2>1, Zenon
      <3> QED  BY <3>1, <3>2, <3>3, <3>4 DEF DebugTyped
    <2>3. /\ dbg'.control = {} /\ ~dbg'.halted /\ ~dbg'.armed /\ dbg'.pending = {}
          /\ ~dbg'.stop
      BY <2>1 DEF DebugReset0
    <2> QED  BY <2>1, <2>2, <2>3 DEF DebugInv, DebugTyped, Attached, Counted, StopsExplained
  <1>13. CASE UNCHANGED debugVars
    BY <1>13 DEF debugVars, DebugInv, DebugTyped, StopsExplained
  <1> QED  BY <1>1, <1>2, <1>3, <1>4, <1>5, <1>6, <1>7, <1>8, <1>9, <1>10, <1>11, <1>12, <1>13
           DEF DebugNext

(* A batch that is cut in two finds the same match, wrapped or not. *)
Around(x) == IF x < DwtWidth THEN x ELSE x - DwtWidth
LEMMA ComesAround ==
  ASSUME NEW x \in 0..(2 * DwtWidth - 1)
  PROVE  x % DwtWidth = Around(x)
  <1>0. DwtWidth \in Nat \ {0}  BY DebugAssumption
  <1>1. CASE x < DwtWidth
    BY <1>0, <1>1 DEF Around
  <1>2. CASE ~(x < DwtWidth)
    <2>1. x - DwtWidth \in 0..(DwtWidth - 1)
      BY <1>0, <1>2
    <2> QED  BY <1>0, <1>2, <2>1 DEF Around
  <1> QED  BY <1>1, <1>2

LEMMA MatchSplits ==
  ASSUME NEW c \in 0..DwtWidth - 1, NEW t \in 0..DwtWidth - 1, NEW a \in DwtSteps, NEW b \in DwtSteps
  PROVE  Matched(c, a + b, t) = (Matched(c, a, t) \/ Matched((c + a) % DwtWidth, b, t))
  <1>0. /\ DwtWidth \in Nat \ {0} /\ a \in Nat /\ b \in Nat /\ a + b < DwtWidth
        /\ c \in Nat /\ t \in Nat /\ c < DwtWidth /\ t < DwtWidth
    BY DebugAssumption
  <1> DEFINE m == (c + a) % DwtWidth
             n == (c + (a + b)) % DwtWidth
             o == (m + b) % DwtWidth
  <1>1. m = Around(c + a)
    <2>1. c + a \in 0..(2 * DwtWidth - 1)
      BY <1>0
    <2> QED  BY <2>1, ComesAround
  <1>2. n = Around(c + (a + b))
    <2>1. c + (a + b) \in 0..(2 * DwtWidth - 1)
      BY <1>0
    <2> QED  BY <2>1, ComesAround
  <1>3. o = Around(m + b)
    <2>1. m + b \in 0..(2 * DwtWidth - 1)
      BY <1>0, <1>1 DEF Around
    <2> QED  BY <2>1, ComesAround
  <1>4. /\ Matched(c, a + b, t) =
             (IF n >= c THEN t > c /\ t <= n ELSE t > c \/ t <= n)
        /\ Matched(c, a, t) = (IF m >= c THEN t > c /\ t <= m ELSE t > c \/ t <= m)
        /\ Matched(m, b, t) = (IF o >= m THEN t > m /\ t <= o ELSE t > m \/ t <= o)
    BY DEF Matched
  <1> HIDE DEF m, n, o
  <1>5. (IF n >= c THEN t > c /\ t <= n ELSE t > c \/ t <= n) <=>
          \/ (IF m >= c THEN t > c /\ t <= m ELSE t > c \/ t <= m)
          \/ (IF o >= m THEN t > m /\ t <= o ELSE t > m \/ t <= o)
    BY <1>0, <1>1, <1>2, <1>3 DEF Around
  <1>6. Matched(c, a + b, t) = (Matched(c, a, t) \/ Matched(m, b, t))
    BY <1>4, <1>5
  <1> QED  BY <1>6 DEF m

(* Whatever debugger, program and host do to the debug unit: only an attached debugger
   holds the core, a step retires one instruction, a stop of the host's run has its
   reason, a pending monitor shows in DEMCR, and a match of the cycle counter does not
   depend on how the cycles are cut, for every width of the counter. *)
THEOREM DebugIsHonest == DebugSpec => []DebugHonest
  <1>1. DebugInit => DebugInv
    BY DebugStart
  <1>2. DebugInv /\ [DebugNext]_debugVars => DebugInv'
    BY DebugStep
  <1>3. DebugInv => DebugHonest
    <2> SUFFICES ASSUME DebugInv PROVE DebugHonest
      OBVIOUS
    <2>1. DwtSplits
      BY MatchSplits DEF DwtSplits, DebugInv, DebugTyped, DwtUnit
    <2>2. StepRunsOne
      BY DEF StepRunsOne, DebugInv, Counted
    <2> QED  BY <2>1, <2>2 DEF DebugHonest, DebugInv, Attached, HaltNeedsDebugger, PendingShows
  <1> QED  BY <1>1, <1>2, <1>3, PTL DEF DebugSpec

(* The debug unit and the cycle counter keep their types. *)
THEOREM DebugTypesHold == DebugSpec => []DebugTypeOK
  <1>1. DebugInit => DebugInv
    BY DebugStart
  <1>2. DebugInv /\ [DebugNext]_debugVars => DebugInv'
    BY DebugStep
  <1>3. DebugInv => DebugTypeOK
    BY DEF DebugInv, DebugTyped, DebugUnit, DwtUnit, Attached, DebugTypeOK, Handlers
  <1> QED  BY <1>1, <1>2, <1>3, PTL DEF DebugSpec

-----------------------------------------------------------------------------
(* The protection unit of the core *)

MpuRegionSet == [on : BOOLEAN, base : MpuPlaces, size : MpuSizes, cut : SUBSET Subregions,
                 xn : BOOLEAN, ap : 0 .. 7]

(* Two quotients are the same where the remainders fit one divisor. *)
LEMMA SameQuotient ==
  ASSUME NEW d \in Nat \ {0}, NEW k \in Int, NEW q \in Int, NEW a \in Int,
         d * k <= a, a < d * k + d, d * q <= a, a < d * q + d
  PROVE  k = q
  <1>1. \A x, y \in Int : x < y => d * x + d <= d * y
    <2> SUFFICES ASSUME NEW x \in Int, NEW y \in Int, x < y
                 PROVE  d * x + d <= d * y
      OBVIOUS
    <2>1. y - x - 1 \in Nat
      OBVIOUS
    <2>2. d * (y - x - 1) >= 0
      BY <2>1
    <2>3. d * (y - x - 1) = d * y - d * x - d
      OBVIOUS
    <2>4. d * x \in Int /\ d * y \in Int
      OBVIOUS
    <2> QED  BY <2>2, <2>3, <2>4
  <1>2. d * k \in Int /\ d * q \in Int
    OBVIOUS
  <1>3. ~(k < q)
    <2> SUFFICES ASSUME k < q PROVE FALSE
      OBVIOUS
    <2>1. d * k + d <= d * q
      BY <1>1
    <2> QED  BY <1>2, <2>1
  <1>4. ~(q < k)
    <2> SUFFICES ASSUME q < k PROVE FALSE
      OBVIOUS
    <2>1. d * q + d <= d * k
      BY <1>1
    <2> QED  BY <1>2, <2>1
  <1> QED  BY <1>3, <1>4

LEMMA Divides ==
  ASSUME NEW n \in Int, NEW d \in Int, d > 0
  PROVE  /\ n \div d \in Int /\ n % d \in 0 .. d - 1
         /\ n = (n \div d) * d + (n % d)
  <1>1. n \div d \in Int
    OBVIOUS
  <1>2. n % d \in 0 .. d - 1
    OBVIOUS
  <1>3. n = (n \div d) * d + (n % d)
    BY SMT
  <1> QED  BY <1>1, <1>2, <1>3

(* The aligned block a base lies in, computed and drawn. *)
LEMMA InBlock ==
  ASSUME NEW b \in Nat, NEW a \in Nat, NEW d \in Nat \ {0}
  PROVE  LET start == b - (b % d)
         IN  /\ (a >= start /\ a < start + d) <=> (a \div d = b \div d)
             /\ a \div d = b \div d => a - start = a % d
  <1> DEFINE start == b - (b % d)
  <1>1. /\ b \div d \in Int /\ b % d \in 0 .. d - 1 /\ b = (b \div d) * d + (b % d)
        /\ a \div d \in Int /\ a % d \in 0 .. d - 1 /\ a = (a \div d) * d + (a % d)
    BY Divides
  <1>2. d * (b \div d) \in Int /\ d * (a \div d) \in Int
    BY <1>1
  <1>3. start = d * (b \div d)
    BY <1>1, <1>2
  <1>4. d * (a \div d) <= a /\ a < d * (a \div d) + d
    BY <1>1, <1>2
  <1>5. ASSUME a >= start, a < start + d PROVE a \div d = b \div d
    BY <1>1, <1>2, <1>3, <1>4, <1>5, SameQuotient
  <1>6. ASSUME a \div d = b \div d PROVE a >= start /\ a < start + d /\ a - start = a % d
    BY <1>1, <1>2, <1>3, <1>4, <1>6
  <1> QED  BY <1>5, <1>6

(* A region holds the addresses drawn for it. *)
LEMMA RegionDrawn ==
  ASSUME NEW r \in MpuRegionSet, NEW a \in MpuPlaces
  PROVE  RegionHas(r, a) <=> a \in Covered(r)
  <1>0. /\ r.base \in Nat /\ a \in Nat /\ r.size \in Nat \ {0} /\ r.on \in BOOLEAN
        /\ r.cut \subseteq Subregions /\ MpuSubregions \in Nat
    <2>1. r.base \in MpuPlaces /\ r.size \in MpuSizes /\ r.on \in BOOLEAN /\ r.cut \subseteq Subregions
      BY DEF MpuRegionSet
    <2>2. r.size \in Nat \ {0}
      BY <2>1, MpuAssumption
    <2>3. r.base \in Nat /\ a \in Nat
      BY <2>1 DEF MpuPlaces
    <2>4. MpuSubregions \in Nat
      BY MpuAssumption
    <2> QED  BY <2>1, <2>2, <2>3, <2>4
  <1> DEFINE start == RegionStart(r)
             part == ((a % r.size) * MpuSubregions) \div r.size
  <1>1. /\ (a >= start /\ a < start + r.size) <=> (a \div r.size = r.base \div r.size)
        /\ a \div r.size = r.base \div r.size => a - start = a % r.size
    BY <1>0, InBlock DEF RegionStart
  <1>2. a \in Block(r) <=> (a >= start /\ a < start + r.size)
    BY <1>1 DEF Block
  <1>3. a \in Block(r) => ((a - start) * MpuSubregions) \div r.size = part
    BY <1>1, <1>2
  <1>4. a \in Block(r) => (a \in UNION {Part(r, i) : i \in r.cut} <=> part \in r.cut)
    BY DEF Part
  <1>5. RegionHas(r, a) <=>
          /\ r.on /\ a \in Block(r)
          /\ r.size >= MpuSubregions => ((a - start) * MpuSubregions) \div r.size \notin r.cut
    BY <1>2 DEF RegionHas
  <1> HIDE DEF start, part
  <1>6. r.size >= MpuSubregions <=> ~(r.size < MpuSubregions)
    BY <1>0
  <1>7. CASE ~r.on
    BY <1>5, <1>7 DEF Covered
  <1>8. CASE r.on /\ r.size < MpuSubregions
    BY <1>5, <1>6, <1>8 DEF Covered
  <1>9. CASE r.on /\ ~(r.size < MpuSubregions)
    BY <1>3, <1>4, <1>5, <1>6, <1>9 DEF Covered
  <1> QED  BY <1>7, <1>8, <1>9

(* At most one region decides. *)
LEMMA OneDecides ==
  ASSUME NEW a, NEW m \in Deciding(a), NEW n \in Deciding(a)
  PROVE  m = n
  <1>1. /\ m \in MpuNumbers /\ RegionHas(mpuRegion[m], a)
        /\ \A k \in m + 1 .. MpuRegionCount - 1 : ~RegionHas(mpuRegion[k], a)
        /\ n \in MpuNumbers /\ RegionHas(mpuRegion[n], a)
        /\ \A k \in n + 1 .. MpuRegionCount - 1 : ~RegionHas(mpuRegion[k], a)
    BY DEF Deciding
  <1>2. m \in Int /\ n \in Int /\ m <= MpuRegionCount - 1 /\ n <= MpuRegionCount - 1
        /\ MpuRegionCount \in Int
    BY <1>1, MpuAssumption DEF MpuNumbers
  <1>3. ~(m < n)
    <2> SUFFICES ASSUME m < n PROVE FALSE
      OBVIOUS
    <2>1. n \in m + 1 .. MpuRegionCount - 1
      BY <1>2
    <2> QED  BY <1>1, <2>1
  <1>4. ~(n < m)
    <2> SUFFICES ASSUME n < m PROVE FALSE
      OBVIOUS
    <2>1. m \in n + 1 .. MpuRegionCount - 1
      BY <1>2
    <2> QED  BY <1>1, <2>1
  <1> QED  BY <1>2, <1>3, <1>4

(* A byte is a user's where the map says so. *)
Lets(write) == IF write THEN {3} ELSE {2, 3, 6, 7}
LEMMA ByteMapped ==
  ASSUME MpuTypeOK, NEW a \in MpuPlaces, NEW write \in BOOLEAN,
         mpuMode.user, mpuMode.exception = "none"
  PROVE  BytePermitted(a, "data", write) <=> a \in UserMap(write)
  <1>0. mpuRegion \in [MpuNumbers -> MpuRegionSet]
    BY DEF MpuTypeOK, MpuRegionSet
  <1>1. ~Privileged("data")
    BY DEF Privileged
  <1>2. \A n \in MpuNumbers : RegionHas(mpuRegion[n], a) <=> a \in Covered(mpuRegion[n])
    BY <1>0, RegionDrawn
  <1>3. a \in UserMap(write) <=> \E n \in Deciding(a) : mpuRegion[n].ap \in Lets(write)
    <2>1. \A n \in MpuNumbers : n + 1 .. MpuRegionCount - 1 \subseteq MpuNumbers
      BY MpuAssumption DEF MpuNumbers
    <2>2. ASSUME NEW n \in MpuNumbers
          PROVE  n \in Deciding(a) <=>
                   a \in Covered(mpuRegion[n])
                         \ UNION {Covered(mpuRegion[k]) : k \in n + 1 .. MpuRegionCount - 1}
      BY <1>2, <2>1 DEF Deciding
    <2>3. \A n \in Deciding(a) : n \in MpuNumbers
      BY DEF Deciding
    <2> QED  BY <2>2, <2>3 DEF UserMap, Lets
  <1>4. ASSUME NEW n \in Deciding(a)
        PROVE  Permits(mpuRegion[n], FALSE, write, FALSE) <=> mpuRegion[n].ap \in Lets(write)
    <2>1. mpuRegion[n].ap \in 0 .. 7
      BY <1>0 DEF Deciding, MpuRegionSet
    <2> QED  BY <2>1 DEF Permits, Lets
  <1>5. CASE Deciding(a) = {}
    BY <1>1, <1>3, <1>5 DEF BytePermitted
  <1>6. CASE Deciding(a) # {}
    <2>1. PICK n \in Deciding(a) : TRUE
      BY <1>6
    <2>2. \A k \in Deciding(a) : Permits(mpuRegion[k], Privileged("data"), write, "data" = "instruction")
                                  <=> Permits(mpuRegion[k], FALSE, write, FALSE)
      BY <1>1 DEF Permits
    <2>3. BytePermitted(a, "data", write) <=>
            \A k \in Deciding(a) : Permits(mpuRegion[k], Privileged("data"), write, "data" = "instruction")
      BY <1>6 DEF BytePermitted
    <2>4. \A k \in Deciding(a) : k = n
      BY <2>1, OneDecides
    <2> QED  BY <1>3, <1>4, <2>1, <2>2, <2>3, <2>4
  <1> QED  BY <1>5, <1>6

LEMMA UsersConfined ==
  ASSUME MpuTypeOK
  PROVE  UserConfined
  <1> SUFFICES ASSUME mpu.on, mpuMode.user, mpuMode.exception = "none",
                      NEW write \in BOOLEAN, NEW a \in MpuPlaces, NEW size \in {1, 2},
                      a + size <= MpuSpace
               PROVE  Permitted(a, size, "data", write) <=> a .. a + size - 1 \subseteq UserMap(write)
    BY DEF UserConfined
  <1>1. a .. a + size - 1 \subseteq MpuPlaces
    BY MpuAssumption DEF MpuPlaces
  <1>2. MpuActive
    BY DEF MpuActive
  <1>3. \A b \in a .. a + size - 1 : BytePermitted(b, "data", write) <=> b \in UserMap(write)
    BY <1>1, ByteMapped
  <1> QED  BY <1>2, <1>3 DEF Permitted

(* The registers keep their types. *)
LEMMA MpuStep ==
  ASSUME MpuTypeOK, [MpuNext]_mpuVars
  PROVE  MpuTypeOK'
  <1>0. RegionOff \in MpuRegionSet /\ mpuRegion \in [MpuNumbers -> MpuRegionSet]
    <2>1. (CHOOSE s \in MpuSizes : TRUE) \in MpuSizes
      BY MpuAssumption
    <2>2. 0 \in MpuPlaces
      BY MpuAssumption DEF MpuPlaces
    <2> QED  BY <2>1, <2>2 DEF RegionOff, MpuRegionSet, MpuTypeOK
  <1>1. ASSUME NEW a \in MpuPlaces, NEW size \in {1, 2}, NEW access \in MpuAccesses,
               NEW write \in BOOLEAN, MpuAccess(a, size, access, write)
        PROVE  MpuTypeOK'
    <2>1. mpuFault' \in [instruction : BOOLEAN, data : BOOLEAN, address : MpuPlaces \cup {-1}]
      BY <1>1 DEF MpuAccess, Checked, MpuTypeOK
    <2> QED  BY <1>1, <2>1 DEF MpuAccess, MpuTypeOK
  <1>2. ASSUME NEW access, NEW on \in BOOLEAN, NEW hfnmi \in BOOLEAN, NEW background \in BOOLEAN,
               MpuWriteCtrl(access, on, hfnmi, background)
        PROVE  MpuTypeOK'
    BY <1>2 DEF MpuWriteCtrl, MpuTypeOK
  <1>3. ASSUME NEW access, NEW n \in MpuNumbers, MpuWriteRnr(access, n)
        PROVE  MpuTypeOK'
    BY <1>3 DEF MpuWriteRnr, MpuTypeOK
  <1>4. ASSUME NEW access, NEW alias, NEW base \in MpuBases, NEW named \in MpuNumbers \cup {-1},
               MpuWriteRbar(access, alias, base, named)
        PROVE  MpuTypeOK'
    <2>1. PICK n \in MpuNumbers : mpuRegion' = [mpuRegion EXCEPT ![n].base = base]
      BY <1>4 DEF MpuWriteRbar
    <2>2. base \in MpuPlaces
      BY MpuAssumption
    <2>3. [mpuRegion[n] EXCEPT !.base = base] \in MpuRegionSet
      BY <1>0, <2>2 DEF MpuRegionSet
    <2>4. mpuRegion' \in [MpuNumbers -> MpuRegionSet]
      BY <1>0, <2>1, <2>3
    <2>5. mpu' \in [on : BOOLEAN, hfnmi : BOOLEAN, background : BOOLEAN, selected : MpuNumbers]
      BY <1>4 DEF MpuWriteRbar, MpuTypeOK
    <2> QED  BY <1>4, <2>4, <2>5 DEF MpuWriteRbar, MpuTypeOK, MpuRegionSet
  <1>5. ASSUME NEW access, NEW alias, NEW setup \in MpuSetups, MpuWriteRasr(access, alias, setup)
        PROVE  MpuTypeOK'
    <2>1. PICK n \in MpuNumbers :
            mpuRegion' = [mpuRegion EXCEPT ![n] =
              [on |-> setup.on, base |-> @.base, size |-> setup.size, cut |-> setup.cut,
               xn |-> setup.xn, ap |-> setup.ap]]
      BY <1>5 DEF MpuWriteRasr
    <2>2. setup \in [on : BOOLEAN, size : MpuSizes, cut : SUBSET Subregions, xn : BOOLEAN, ap : 0 .. 7]
      BY MpuAssumption
    <2>3. [on |-> setup.on, base |-> mpuRegion[n].base, size |-> setup.size, cut |-> setup.cut,
           xn |-> setup.xn, ap |-> setup.ap] \in MpuRegionSet
      BY <1>0, <2>2 DEF MpuRegionSet
    <2>4. mpuRegion' \in [MpuNumbers -> MpuRegionSet]
      BY <1>0, <2>1, <2>3
    <2> QED  BY <1>5, <2>4 DEF MpuWriteRasr, MpuTypeOK, MpuRegionSet
  <1>6. NoFault \in [instruction : BOOLEAN, data : BOOLEAN, address : MpuPlaces \cup {-1}]
    BY DEF NoFault
  <1>7. CASE MpuClearFaults
    BY <1>6, <1>7 DEF MpuClearFaults, MpuTypeOK
  <1>8. ASSUME NEW user \in BOOLEAN, NEW exception \in MpuExceptions, MpuModeChanges(user, exception)
        PROVE  MpuTypeOK'
    BY <1>8 DEF MpuModeChanges, MpuTypeOK
  <1>9. CASE MpuResets
    <2>1. 0 \in MpuNumbers /\ "none" \in MpuExceptions
      BY MpuAssumption DEF MpuNumbers, MpuExceptions
    <2>2. mpuRegion' \in [MpuNumbers -> MpuRegionSet]
      BY <1>0, <1>9 DEF MpuResets
    <2> QED  BY <1>6, <1>9, <2>1, <2>2 DEF MpuResets, MpuTypeOK, MpuRegionSet
  <1>10. CASE UNCHANGED mpuVars
    BY <1>10 DEF mpuVars, MpuTypeOK
  <1> QED
    BY <1>1, <1>2, <1>3, <1>4, <1>5, <1>7, <1>8, <1>9, <1>10 DEF MpuNext

LEMMA MpuStart ==
  ASSUME MpuInit
  PROVE  MpuTypeOK
  <1>1. RegionOff \in MpuRegionSet
    <2>1. (CHOOSE s \in MpuSizes : TRUE) \in MpuSizes
      BY MpuAssumption
    <2>2. 0 \in MpuPlaces
      BY MpuAssumption DEF MpuPlaces
    <2> QED  BY <2>1, <2>2 DEF RegionOff, MpuRegionSet
  <1>2. 0 \in MpuNumbers /\ "none" \in MpuExceptions
    BY MpuAssumption DEF MpuNumbers, MpuExceptions
  <1>3. mpuRegion \in [MpuNumbers -> MpuRegionSet]
    BY <1>1 DEF MpuInit
  <1> QED  BY <1>2, <1>3 DEF MpuInit, MpuTypeOK, NoFault, MpuRegionSet

(* The registers of the protection unit keep their types, and with the unit on users
   reach exactly what the drawn regions give them: for every space, every number and
   size of regions and every setting of them. *)
THEOREM UsersAreConfined == MpuSpec => [](MpuTypeOK /\ UserConfined)
  <1>1. MpuInit => MpuTypeOK
    BY MpuStart
  <1>2. MpuTypeOK /\ [MpuNext]_mpuVars => MpuTypeOK'
    BY MpuStep
  <1>3. MpuTypeOK => UserConfined
    BY UsersConfined
  <1> QED  BY <1>1, <1>2, <1>3, PTL DEF MpuSpec

(* No map of the regions keeps a handler of HardFault or NMI from memory, unless
   HFNMIENA asks for it. *)
THEOREM HardFaultIsServed == MpuSpec => [][HardFaultReaches]_mpuVars
  <1>1. MpuTypeOK /\ [MpuNext]_mpuVars => [HardFaultReaches]_mpuVars
    <2> SUFFICES ASSUME MpuTypeOK, MpuNext, mpuMode.exception = "hardfault", ~mpu.hfnmi,
                        mpuFault' \notin {mpuFault, NoFault}
                 PROVE  \E access \in MpuAccesses, write \in BOOLEAN :
                          MpuAccess(MpuSpace - 1, 2, access, write)
      BY DEF HardFaultReaches
    <2>1. PICK a \in MpuPlaces, size \in {1, 2}, access \in MpuAccesses, write \in BOOLEAN :
            MpuAccess(a, size, access, write)
      BY DEF MpuNext, MpuWriteCtrl, MpuWriteRnr, MpuWriteRbar, MpuWriteRasr, MpuClearFaults,
         MpuModeChanges, MpuResets
    <2>2. ~Permitted(a, size, access, write)
      BY <2>1 DEF MpuAccess, Checked
    <2>3. ~MpuActive
      BY DEF MpuActive
    <2>4. a + size > MpuSpace
      BY <2>2, <2>3, MpuAssumption DEF Permitted, MpuPlaces
    <2>5. a = MpuSpace - 1 /\ size = 2
      BY <2>4, MpuAssumption DEF MpuPlaces
    <2> QED  BY <2>1, <2>5
  <1>2. MpuSpec => []MpuTypeOK
    BY UsersAreConfined, PTL
  <1> QED  BY <1>1, <1>2, PTL DEF MpuSpec

-----------------------------------------------------------------------------
(* The guards, one after the other *)

(* A step of the guards is one of each of them, or leaves it alone. *)
LEMMA EachGuardSteps == GuardsSpec => MpuSpec /\ SysSpec /\ GatesSpec
  <1>1. GuardsInit => MpuInit /\ SysInit /\ GatesInit
    BY DEF GuardsInit
  <1>2. [GuardsNext]_guardsVars => [MpuNext]_mpuVars
    BY DEF GuardsNext, guardsVars
  <1>3. [GuardsNext]_guardsVars => [SysNext]_sysVars
    BY DEF GuardsNext, guardsVars
  <1>4. [GuardsNext]_guardsVars => [GatesNext]_gatesVars
    BY DEF GuardsNext, guardsVars
  <1> QED  BY <1>1, <1>2, <1>3, <1>4, PTL DEF GuardsSpec, MpuSpec, SysSpec, GatesSpec

(* No access gets past the guards, for every address space, number of regions, set of
   peripherals and setting of the registers. *)
THEOREM GuardsHold == GuardsSpec => AccessesConfined
  <1>1. GuardsSpec => MpuSpec /\ SysSpec /\ GatesSpec
    BY EachGuardSteps
  <1> QED
    BY <1>1, UsersAreConfined, HardFaultIsServed, CopiesAlwaysAgree, RefusalsAndGrants,
       GatesAlwaysFollow, AccessesAreClocked, BridgeAlwaysHolds, PTL DEF AccessesConfined
=============================================================================
