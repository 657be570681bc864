----------------------------- MODULE ClockGates -----------------------------
(* The way of an access to a peripheral register, device/kinetis_k22/platform/
   registers.c and peripherals.c: the protection of the AIPS bridge, the clock
   gates of the SIM and the copies of them the serial and pin modules keep, which the
   debugger turns on for the length of its access. *)
EXTENDS FiniteSets

CONSTANTS
  OwnGate,         \* peripherals whose module keeps its own flag (UART, PORT, SDHC ...)
  RawGate,         \* those of them gated by SCGC1, which the timing module does not keep
  PlainGate,       \* peripherals gated by a bit alone (DMA, FTM ...)
  BridgeSetups     \* what AIPS forbids: [user, write] for each peripheral

ASSUME GatesAssumption == OwnGate \cap PlainGate = {} /\ RawGate \subseteq OwnGate

VARIABLES
  scgc,            \* the peripherals whose bit in SCGC1 .. SCGC7 is set
  gateOn,          \* clock_enabled of those with their own flag
  gateBehind,      \* part of SCGC1 was written by bytes since the flags were copied
  bridge,          \* the bridge's permissions
  coreUser,        \* the core runs an unprivileged thread
  gateLast         \* the last access: who, to what, whether it got there

gatesVars == <<scgc, gateOn, gateBehind, bridge, coreUser, gateLast>>

Peripherals == OwnGate \cup PlainGate
Requesters == {"core", "unprivileged", "debug", "dma"}
NoAccess == [who |-> "core", to |-> CHOOSE p \in Peripherals : TRUE, write |-> FALSE,
             clocked |-> FALSE, reached |-> FALSE]

GatesTypeOK ==
  /\ scgc \subseteq Peripherals /\ gateOn \subseteq OwnGate
  /\ gateBehind \in BOOLEAN /\ coreUser \in BOOLEAN
  /\ bridge \in BridgeSetups /\ gateLast.who \in Requesters /\ gateLast.to \in Peripherals

(* kinetis_k22_create: every gate is off but those of the reset values, left out. *)
GatesInit ==
  /\ scgc = {} /\ gateOn = {} /\ gateBehind = FALSE
  /\ bridge \in BridgeSetups
  /\ coreUser = FALSE
  /\ gateLast = NoAccess

-----------------------------------------------------------------------------
(* An access *)

(* cortex_m4_access_is_unprivileged_data: the bridge asks the core, whoever the
   access is of; a DMA transfer comes as data. *)
IsUser(who) == who = "unprivileged" \/ (who \in {"core", "dma"} /\ coreUser)

UserOnlyMarked(who, p, write) ==  \* mutant: only LDRT and STRT count as unprivileged
  who = "debug" \/ (~(write /\ bridge[p].write) /\ (who = "unprivileged" => ~bridge[p].user))

(* aips_access_allowed *)
BridgeAllows(who, p, write) ==
  who = "debug" \/ (~(write /\ bridge[p].write) /\ (IsUser(who) => ~bridge[p].user))

(* peripheral_clock_enabled is asked for all but the debugger. *)
Clocked(who, p) == who = "debug" \/ p \in scgc

(* enable_debug_clock: the flags while the access runs. *)
EnabledFor(who, p) == IF who = "debug" THEN gateOn \cup ({p} \cap OwnGate) ELSE gateOn

(* sync_clock_gates is called after a debugger's access to a module with its own flag. *)
SyncedAfter(who, p) == IF who = "debug" /\ p \in OwnGate THEN scgc \cap OwnGate ELSE gateOn

(* The handler of a module with its own flag refuses while it is off. *)
Answers(who, p) == p \in OwnGate => p \in EnabledFor(who, p)

(* kinetis_k22_peripheral_read and _write: a write of a read-only register is
   accepted before anything is asked, and does nothing. *)
PeripheralAccess(who, p, write, readonly) ==
  LET allowed == BridgeAllows(who, p, write) /\ Clocked(who, p)
      reached == ~(write /\ readonly) /\ allowed /\ Answers(who, p)
  IN  /\ gateLast' = [who |-> who, to |-> p, write |-> write, clocked |-> p \in scgc,
                      reached |-> reached]
      /\ gateOn' = IF allowed /\ ~(write /\ readonly) THEN SyncedAfter(who, p) ELSE gateOn
      /\ gateBehind' = (gateBehind /\ ~(allowed /\ ~(write /\ readonly) /\ who = "debug" /\ p \in OwnGate))
  /\ UNCHANGED <<scgc, bridge, coreUser>>

(* A whole word of SCGC1 .. SCGC7 is written, or any other register of the timing
   modules: the flags are copied. *)
Copied(bits) == bits \cap OwnGate

WriteGates(bits) ==
  /\ scgc' = bits
  /\ gateOn' = Copied(bits)
  /\ gateBehind' = FALSE
  /\ UNCHANGED <<bridge, coreUser, gateLast>>

(* A byte of SCGC1 that is not its first: the bits change, the flags are not copied. A
   byte of SCGC3 .. SCGC7 goes to a place nothing reads. *)
WriteGateByte(bits) ==
  /\ scgc' = (scgc \ RawGate) \cup bits
  /\ gateBehind' = TRUE
  /\ UNCHANGED <<gateOn, bridge, coreUser, gateLast>>

WriteBridge(setup) ==
  /\ bridge' = setup
  /\ UNCHANGED <<scgc, gateOn, gateBehind, coreUser, gateLast>>

CoreChanges(user) ==
  /\ coreUser' = user
  /\ UNCHANGED <<scgc, gateOn, gateBehind, bridge, gateLast>>

(* A host call to a serial module turns its flag on for the call and copies all of
   them again, as the resets do. *)
HostCalls ==
  /\ gateOn' = scgc \cap OwnGate
  /\ gateBehind' = FALSE
  /\ UNCHANGED <<scgc, bridge, coreUser, gateLast>>

GatesReset(setup) ==
  /\ scgc' = {}
  /\ gateOn' = {}
  /\ gateBehind' = FALSE
  /\ bridge' = setup
  /\ coreUser' = FALSE
  /\ UNCHANGED gateLast

GatesNext ==
  \/ \E who \in Requesters, p \in Peripherals, write, readonly \in BOOLEAN :
       PeripheralAccess(who, p, write, readonly)
  \/ \E bits \in SUBSET Peripherals : WriteGates(bits)
  \/ \E bits \in SUBSET RawGate : WriteGateByte(bits)
  \/ \E setup \in BridgeSetups : WriteBridge(setup)
  \/ \E user \in BOOLEAN : CoreChanges(user)
  \/ HostCalls
  \/ \E setup \in BridgeSetups : GatesReset(setup)

GatesSpec == GatesInit /\ [][GatesNext]_gatesVars

-----------------------------------------------------------------------------
(* Properties *)

(* The modules' own flags are the SIM's bits, between any two accesses and whoever
   made them, the debugger too, save after a byte of SCGC1 (sync_clock_gates and the
   places that call it). *)
GatesFollow == gateBehind \/ gateOn = scgc \cap OwnGate

(* The debugger reaches every module, clocked or not, and what it turned on for that
   lets nobody else in: an access that is not the debugger's reaches only a peripheral
   whose clock firmware turned on (enable_debug_clock). *)
ReachIsClocked ==
  /\ gateLast.reached /\ gateLast.who # "debug" => gateLast.clocked
  /\ gateLast.who = "debug" /\ ~gateLast.write /\ gateLast # NoAccess => gateLast.reached

(* Where the bridge shuts users out, no step of an unprivileged thread or of LDRT and STRT gets
   to the peripheral, and nothing but the debugger writes one that is protected
   against writes (aips_access_allowed). *)
BridgeHolds ==
  \A p \in Peripherals :
    gateLast'.reached /\ gateLast'.to = p /\ gateLast' # gateLast /\ gateLast'.who # "debug" =>
      /\ bridge[p].user => gateLast'.who # "unprivileged" /\ ~coreUser
      /\ bridge[p].write => ~gateLast'.write
=============================================================================
