----------------------------- MODULE Exclusive -----------------------------
(* The exclusive monitor and the store buffer of the core,
   architecture/cortex_m4/timing.c, with the instructions that use them
   (instructions/thumb/thumb32.c) and the bus that reports writes to it (bus.c).

   Addresses are words; an exclusive access is of a size out of ExSizes. The words
   of exRefused refuse a write (the protection unit, an unmapped address). *)
EXTENDS Integers, FiniteSets

CONSTANTS
  ExWords,       \* word addresses, 0 .. n
  ExGranules,    \* granules in words: 0, every write counts, or powers of two
  ExSizes,       \* sizes of exclusive accesses
  ExWaits,       \* wait cycles of an access
  ExBases        \* cycles of an instruction without its waits

ASSUME ExTimesAssumption ==
  /\ ExWaits \subseteq Nat /\ ExBases \subseteq Nat
  /\ \E w \in ExWaits : \A v \in ExWaits : v <= w
ASSUME ExPlacesAssumption ==
  /\ ExWords \subseteq Nat /\ \E n \in ExWords : ExWords = 0 .. n
  /\ ExGranules \subseteq Nat /\ ExSizes # {}

VARIABLES
  exGranule,     \* exclusive_granule
  exReserved,    \* the reservation: [valid, address, base, size]
  exRefused,     \* the words a write is refused on
  exSince,       \* of the last exclusive load: words written, events since
  exStore,       \* timing_pending_store_cycles and its bus
  exInstr,       \* the instruction under way: waits, its own last store
  exDebt         \* wait cycles of loads and buffered stores the clock has not passed yet

exVars == <<exGranule, exReserved, exRefused, exSince, exStore, exInstr, exDebt>>
monitorVars == <<exGranule, exReserved, exRefused, exSince>>
bufferVars == <<exStore, exInstr, exDebt>>

ExBuses == {"dcode", "system"}
ExNone == [valid |-> FALSE, address |-> 0, base |-> 0, size |-> CHOOSE s \in ExSizes : TRUE]
ExQuiet == [loaded |-> {}, written |-> {}, broken |-> FALSE, wins |-> 0]
ExIdle == [on |-> FALSE, exception |-> FALSE, wait |-> 0, store |-> 0, bus |-> "dcode"]
ExLongest == CHOOSE w \in ExWaits : \A v \in ExWaits : v <= w

ExTypeOK ==
  /\ exGranule \in ExGranules
  /\ exReserved \in [valid : BOOLEAN, address : ExWords, base : ExWords, size : ExSizes]
  /\ exRefused \subseteq ExWords
  /\ exStore.cycles \in 0 .. ExLongest /\ exStore.bus \in ExBuses
  /\ exInstr.store \in 0 .. ExLongest /\ exInstr.wait \in Nat

ExInit ==
  /\ exGranule \in ExGranules
  /\ exReserved = ExNone
  /\ exRefused \in {{}, {CHOOSE w \in ExWords : \A v \in ExWords : v <= w}}
  /\ exSince = ExQuiet
  /\ exStore = [cycles |-> 0, bus |-> "dcode"]
  /\ exInstr = ExIdle
  /\ exDebt = 0

-----------------------------------------------------------------------------
(* The monitor *)

(* A reservation covers the granule its address lies in; with granule 0 there is
   no base and every write anywhere ends it. *)
Base(g, a) == IF g = 0 THEN 0 ELSE a - (a % g)
Granule(g, base) == IF g = 0 THEN ExWords ELSE {w \in ExWords : base <= w /\ w < base + g}

ObservedAt(r, a) ==  \* mutant: only a write of the reserved word itself counts
  [r EXCEPT !.valid = @ /\ r.address # a]

(* cortex_m4_timing_observe_write: called for every write the bus accepted. *)
Observed(r, a) == [r EXCEPT !.valid = @ /\ a \notin Granule(exGranule, r.base)]

Wrote(a) == [exSince EXCEPT !.written = @ \cup {a}]
Broken == [exSince EXCEPT !.broken = TRUE]

(* LDREX: the load may fault, and then reserves nothing. *)
LoadExclusive(a, s, faults) ==
  /\ IF faults THEN UNCHANGED <<exReserved, exSince>>
     ELSE /\ exReserved' = [valid |-> TRUE, address |-> a, base |-> Base(exGranule, a), size |-> s]
          /\ exSince' = [ExQuiet EXCEPT !.loaded = {<<a, s>>}]
  /\ UNCHANGED <<exGranule, exRefused, bufferVars>>

(* cortex_m4_timing_consume_reservation: matched by address, unless every address
   matches, and by size. *)
Reserves(a, s) == exReserved.valid /\ (exGranule = 0 \/ exReserved.address = a)
                 /\ exReserved.size = s

(* STREX: the reservation is gone before the write is tried; a refused write leaves
   the status register as it was and raises its fault. *)
Consumed(r, a, s) == [r EXCEPT !.valid = FALSE]

StoreExclusive(a, s) ==
  /\ exReserved' = Consumed(exReserved, a, s)
  /\ exSince' = IF Reserves(a, s) /\ a \notin exRefused
                THEN [exSince EXCEPT !.wins = IF @ < 2 THEN @ + 1 ELSE @,
                                     !.written = @ \cup {a}, !.loaded = @ \cup {<<a, s>>}]
                ELSE Broken
  /\ UNCHANGED <<exGranule, exRefused, bufferVars>>

(* Any other write of the core or of the debugger; a refused one changes nothing. *)
Write(a) ==
  /\ IF a \in exRefused THEN UNCHANGED exReserved ELSE exReserved' = Observed(exReserved, a)
  /\ exSince' = IF a \in exRefused THEN exSince ELSE Wrote(a)
  /\ UNCHANGED <<exGranule, exRefused, bufferVars>>

(* An accepted write to the protection unit's registers, CLREX, and the host's
   cortex_m4_set_exclusive_granule end a reservation outright. *)
MpuWritten(refused) ==
  /\ exRefused' = refused
  /\ exReserved' = [exReserved EXCEPT !.valid = FALSE]
  /\ exSince' = Broken
  /\ UNCHANGED <<exGranule, bufferVars>>

ClearExclusive ==
  /\ exReserved' = [exReserved EXCEPT !.valid = FALSE]
  /\ exSince' = Broken
  /\ UNCHANGED <<exGranule, exRefused, bufferVars>>

SetGranule(g) ==
  /\ exGranule' = g
  /\ exReserved' = [exReserved EXCEPT !.valid = FALSE]
  /\ exSince' = Broken
  /\ UNCHANGED <<exRefused, bufferVars>>

-----------------------------------------------------------------------------
(* The store buffer *)

(* progress_pending_store: the store drains while the core goes on. *)
Progressed(cycles, elapsed) == IF elapsed >= cycles THEN 0 ELSE cycles - elapsed
Paid(debt, elapsed) == IF elapsed >= debt THEN 0 ELSE debt - elapsed

Least(a, b) == IF a <= b THEN a ELSE b

(* timing_begin_instruction and _begin_exception. A return begins inside the
   instruction that asked for it, whose waits so far are forgotten. *)
ExBegins(exception) ==
  /\ exInstr.on => exception
  /\ exInstr' = [ExIdle EXCEPT !.on = TRUE, !.exception = exception]
  /\ exDebt' = Least(exDebt, exStore.cycles)
  /\ UNCHANGED <<exStore, monitorVars>>

(* timing_access for a load or a fetch: a store on its way is waited for when the
   access is for data or uses the same bus. *)
Conflicts(fetch, bus) == ~fetch \/ bus = exStore.bus

Reads(fetch, bus, wait) ==
  /\ exInstr.on
  /\ LET drained == IF Conflicts(fetch, bus) THEN exStore.cycles ELSE 0
     IN  /\ exInstr' = [exInstr EXCEPT !.wait = @ + drained + wait]
         /\ exStore' = [exStore EXCEPT !.cycles = @ - drained]
         /\ exDebt' = IF fetch THEN exDebt ELSE exDebt + wait
  /\ exInstr.wait + exStore.cycles + wait <= 3 * ExLongest  \* bound: accesses per instruction
  /\ UNCHANGED monitorVars

(* A store to the private peripheral bus, or of an exception frame, is not buffered, and
   does not wait for the buffered one. *)
StoresDirectly(wait) ==
  /\ exInstr.on
  /\ exInstr' = [exInstr EXCEPT !.wait = @ + wait]
  /\ exInstr.wait + wait <= 3 * ExLongest
  /\ UNCHANGED <<exStore, exDebt, monitorVars>>

BufferedTogether(i, bus, wait) ==  \* mutant: the buffer takes two stores
  [i EXCEPT !.wait = @ + exStore.cycles, !.store = @ + wait, !.bus = bus]

(* Any other store waits for the one before it, of an earlier instruction or of
   this one, and becomes the buffered one. *)
Buffered(i, bus, wait) ==
  [i EXCEPT !.wait = @ + exStore.cycles + i.store, !.store = wait, !.bus = bus]

Stores(bus, wait) ==
  /\ exInstr.on /\ ~exInstr.exception
  /\ exInstr' = Buffered(exInstr, bus, wait)
  /\ exStore' = [exStore EXCEPT !.cycles = 0]
  /\ exDebt' = exDebt + wait
  /\ exInstr.wait + exStore.cycles + exInstr.store <= 3 * ExLongest
  /\ UNCHANGED monitorVars

(* timing_complete_instruction: a DMB or DSB waits for the store first, an ISB costs
   two cycles; what the instruction itself stored is buffered after its cycles. *)
Drains(barrier) == IF barrier \in {"dmb", "dsb"} THEN exStore.cycles ELSE 0
TimeElapsed(base, barrier) == base + exInstr.wait + Drains(barrier) + (IF barrier = "isb" THEN 2 ELSE 0)

Left(elapsed, barrier) == Progressed(exStore.cycles - Drains(barrier), elapsed)

Kept(left) == IF exInstr.store > left THEN [cycles |-> exInstr.store, bus |-> exInstr.bus]
              ELSE [exStore EXCEPT !.cycles = left]

Completes(base, barrier) ==
  /\ exInstr.on /\ ~exInstr.exception
  /\ LET elapsed == TimeElapsed(base, barrier)
     IN  /\ exStore' = Kept(Left(elapsed, barrier))
         /\ exDebt' = Paid(exDebt, elapsed)
         /\ exInstr' = ExIdle
  /\ UNCHANGED monitorVars

(* timing_abort: the instruction faulted, or the entry or return did, and
   its waits are forgotten with it. *)
Aborts ==
  /\ exInstr.on
  /\ exInstr' = ExIdle
  /\ exDebt' = Least(exDebt, exStore.cycles)
  /\ UNCHANGED <<exStore, monitorVars>>

(* timing_exception: entry, return and tail chaining drain the buffer and end a
   reservation. *)
Taken ==
  /\ exInstr.on /\ exInstr.exception
  /\ exStore' = [exStore EXCEPT !.cycles = 0]
  /\ exDebt' = 0
  /\ exInstr' = ExIdle
  /\ exReserved' = [exReserved EXCEPT !.valid = FALSE]
  /\ exSince' = Broken
  /\ UNCHANGED <<exGranule, exRefused>>

(* cortex_m4_reset: the granule outlives the reservation and the buffer. *)
ExResets ==
  /\ exStore' = [cycles |-> 0, bus |-> "dcode"]
  /\ exDebt' = 0
  /\ exInstr' = ExIdle
  /\ exReserved' = ExNone
  /\ exSince' = Broken
  /\ UNCHANGED <<exGranule, exRefused>>

ExNext ==
  \/ \E a \in ExWords, s \in ExSizes, faults \in BOOLEAN : LoadExclusive(a, s, faults)
  \/ \E a \in ExWords, s \in ExSizes : StoreExclusive(a, s)
  \/ \E a \in ExWords : Write(a)
  \/ \E refused \in SUBSET ExWords : MpuWritten(refused)
  \/ ClearExclusive
  \/ \E g \in ExGranules : SetGranule(g)
  \/ \E exception \in BOOLEAN : ExBegins(exception)
  \/ \E fetch \in BOOLEAN, bus \in ExBuses, wait \in ExWaits : Reads(fetch, bus, wait)
  \/ \E wait \in ExWaits : StoresDirectly(wait)
  \/ \E bus \in ExBuses, wait \in ExWaits : Stores(bus, wait)
  \/ \E base \in ExBases, barrier \in {"none", "dmb", "dsb", "isb"} : Completes(base, barrier)
  \/ Aborts
  \/ Taken
  \/ ExResets

ExSpec == ExInit /\ [][ExNext]_exVars

-----------------------------------------------------------------------------
(* Properties *)

(* While a reservation stands, nothing has happened to its granule since the load
   that made it: no accepted write of the core or the debugger, no exception taken
   or returned from, no CLREX, no failed exclusive store, no change of the granule
   or of the protection unit (timing_observe_write and every place that clears
   exclusive_valid). *)
ReservationFresh ==
  exReserved.valid =>
    /\ ~exSince.broken
    /\ exSince.loaded = {<<exReserved.address, exReserved.size>>}
    /\ exReserved.base = Base(exGranule, exReserved.address)
    /\ exSince.written \cap Granule(exGranule, exReserved.base) = {}

(* An exclusive store succeeds once per exclusive load, and only when no write has
   touched the granule and no exception has come between the two; with a granule
   the store is of the word and the size that were loaded
   (timing_consume_reservation). *)
WonFairly ==
  exSince'.wins > exSince.wins =>
    /\ exSince.wins = 0 /\ ~exSince.broken
    /\ exGranule # 0 => exSince'.loaded = exSince.loaded
    /\ \A l \in exSince.loaded :
         exSince.written \cap Granule(exGranule, Base(exGranule, l[1])) = {}

(* Loads and buffered stores follow one another, and no wait cycle of theirs is lost before its
   instruction is aborted: what the clock has not passed yet is still owed by the buffered store or by the instruction under way
   (timing_access, progress_pending_store, timing_complete_instruction). *)
WaitsOwed == exDebt <= exStore.cycles + exInstr.store + exInstr.wait

(* All of it in one: a reservation that stands is fresh, one that is used was fairly
   won, and no wait cycle is lost. *)
ReservationsFair == [](ReservationFresh /\ WaitsOwed) /\ [][WonFairly]_exVars
=============================================================================
