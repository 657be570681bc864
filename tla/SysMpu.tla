------------------------------- MODULE SysMpu -------------------------------
(* The system protection unit of the larger parts, device/kinetis_k22/gpio/api.c and
   peripherals.c, and the bus that asks it for each access of the core and the DMA
   controller, device/kinetis_k22/device.c. Addresses are bytes. *)
EXTENDS Integers

CONSTANTS
  SysSpace,        \* bytes of the address space
  SysRegionCount,  \* region descriptors (12)
  SysBounds,       \* start and end addresses firmware writes: pairs
  SysRights        \* access control words: for each master [user, mode]

VARIABLES
  sys,             \* CESR, EAR0, EDR0, the clock gate
  sysRegion,       \* the descriptors
  sysAlternate,    \* RGDAAC, the second copy of their access control
  sysUser,         \* the core runs an unprivileged thread
  sysLast          \* the last access

sysVars == <<sys, sysRegion, sysAlternate, sysUser, sysLast>>

SysAddresses == 0 .. SysSpace - 1
SysRegions == 0 .. SysRegionCount - 1
SysMasters == {"fetch", "data", "dma"}  \* 0, 1, 2
NoSysAccess == [master |-> "data", user |-> FALSE, op |-> "read", at |-> 0, size |-> 1,
                allowed |-> TRUE, watched |-> FALSE]

ASSUME SysAssumption ==
  /\ SysSpace \in Nat \ {0}
  /\ SysBounds # {} /\ SysBounds \subseteq SysAddresses \X SysAddresses
  /\ SysRights # {}

SysTypeOK ==
  /\ sys.on \in BOOLEAN /\ sys.gate \in BOOLEAN /\ sys.error \in BOOLEAN
  /\ sys.at \in SysAddresses /\ sys.master \in SysMasters
  /\ \A r \in SysRegions : /\ sysRegion[r].valid \in BOOLEAN
                           /\ sysRegion[r].bounds \in SysBounds /\ sysRegion[r].rights \in SysRights
  /\ sysUser \in BOOLEAN

SomeBounds == CHOOSE b \in SysBounds : TRUE
SomeRights == CHOOSE a \in SysRights : TRUE
Sys0 == [on |-> FALSE, gate |-> TRUE, error |-> FALSE, at |-> 0, master |-> "fetch"]
SysRegion0 == [valid |-> FALSE, bounds |-> SomeBounds, rights |-> SomeRights]

SysInit ==
  /\ sys = Sys0
  /\ sysRegion = [r \in SysRegions |-> SysRegion0]
  /\ sysAlternate = [r \in SysRegions |-> SomeRights]
  /\ sysUser = FALSE
  /\ sysLast = NoSysAccess

-----------------------------------------------------------------------------
(* One question to the unit *)

(* sysmpu_permission for the masters that exist: mode 3 gives a supervisor what a
   user has. *)
Allows(right, user, op) ==
  IF user THEN op \in right.user
  ELSE \/ right.mode = 0
       \/ right.mode = 1 /\ op # "write"
       \/ right.mode = 2 /\ op # "execute"
       \/ right.mode = 3 /\ op \in right.user

InBoundsStart(region, a) == region.valid /\ region.bounds[1] <= a  \* mutant: the end is not looked at

InBounds(region, a) == region.valid /\ region.bounds[1] <= a /\ a <= region.bounds[2]

(* sysmpu_access: one region that allows it is enough. *)
Grants(master, user, op, a) ==
  \/ ~sys.on
  \/ \E r \in SysRegions : InBounds(sysRegion[r], a) /\ Allows(sysRegion[r].rights[master], user, op)

-----------------------------------------------------------------------------
(* An access of a master *)

(* sysmpu_access_allowed asks for the first byte and then for the last. *)
Ends(a, size) == <<a, a + size - 1>>

(* The byte that is refused, if one is. *)
RefusedAt(master, user, op, a, size) ==
  LET ends == Ends(a, size)
      refused == {k \in DOMAIN ends : ~Grants(master, user, op, ends[k])}
  IN  IF refused = {} THEN SysSpace ELSE ends[CHOOSE k \in refused : \A j \in refused : k <= j]

(* A refusal is captured over the one before. *)
ErrorKept(master, at) == [sys EXCEPT !.error = TRUE, !.at = at, !.master = master]

(* Without its clock the unit is not asked at all. *)
MasterAccess(master, user, op, a, size) ==
  LET at == RefusedAt(master, user, op, a, size)
      refused == sys.gate /\ at < SysSpace
  IN  /\ a + size <= SysSpace
      /\ sys' = IF refused THEN ErrorKept(master, at) ELSE sys
      /\ sysLast' = [master |-> master, user |-> user, op |-> op, at |-> a, size |-> size,
                     allowed |-> ~refused, watched |-> sys.gate /\ sys.on]
      /\ UNCHANGED <<sysRegion, sysAlternate, sysUser>>

(* kinetis_k22_memory_read and _write: a fetch is a user's in an unprivileged thread;
   data is a user's for LDRT and STRT alone. *)
CoreFetch(a, size) == MasterAccess("fetch", sysUser, "execute", a, size)
CoreData(unprivileged, op, a, size) == MasterAccess("data", unprivileged, op, a, size)

(* kinetis_k22_dma_read and _write: always a supervisor's. *)
DmaAccess(op, a, size) == MasterAccess("dma", FALSE, op, a, size)

-----------------------------------------------------------------------------
(* Registers *)

(* WORD2 of a descriptor and RGDAAC are the same register at two addresses. *)
CopyWritten(r, rights) == [sysAlternate EXCEPT ![r] = rights]

WriteDescriptorRights(r, rights) ==
  /\ sysRegion' = [sysRegion EXCEPT ![r].rights = rights]
  /\ sysAlternate' = CopyWritten(r, rights)
  /\ UNCHANGED <<sys, sysUser, sysLast>>

WriteAlternate(r, rights) ==
  /\ sysAlternate' = [sysAlternate EXCEPT ![r] = rights]
  /\ sysRegion' = [sysRegion EXCEPT ![r].rights = rights]
  /\ UNCHANGED <<sys, sysUser, sysLast>>

WriteBounds(r, bounds) ==
  /\ sysRegion' = [sysRegion EXCEPT ![r].bounds = bounds]
  /\ UNCHANGED <<sys, sysAlternate, sysUser, sysLast>>

WriteValid(r, valid) ==
  /\ sysRegion' = [sysRegion EXCEPT ![r].valid = valid]
  /\ UNCHANGED <<sys, sysAlternate, sysUser, sysLast>>

(* CESR: the error bits are cleared by writing them. *)
WriteCesr(on, clear) ==
  /\ sys' = [sys EXCEPT !.on = on, !.error = @ /\ ~clear]
  /\ UNCHANGED <<sysRegion, sysAlternate, sysUser, sysLast>>

SysClock(gate) ==
  /\ sys' = [sys EXCEPT !.gate = gate]
  /\ UNCHANGED <<sysRegion, sysAlternate, sysUser, sysLast>>

CoreMode(user) ==
  /\ sysUser' = user
  /\ UNCHANGED <<sys, sysRegion, sysAlternate, sysLast>>

SysNext ==
  \/ \E a \in SysAddresses, size \in {2, 4} : CoreFetch(a, size)
  \/ \E unprivileged \in BOOLEAN, op \in {"read", "write"}, a \in SysAddresses, size \in {1, 2} :
       CoreData(unprivileged, op, a, size)
  \/ \E op \in {"read", "write"}, a \in SysAddresses : DmaAccess(op, a, 1)
  \/ \E r \in SysRegions, rights \in SysRights : WriteDescriptorRights(r, rights)
  \/ \E r \in SysRegions, rights \in SysRights : WriteAlternate(r, rights)
  \/ \E r \in SysRegions, bounds \in SysBounds : WriteBounds(r, bounds)
  \/ \E r \in SysRegions, valid \in BOOLEAN : WriteValid(r, valid)
  \/ \E on \in BOOLEAN, clear \in BOOLEAN : WriteCesr(on, clear)
  \/ \E gate \in BOOLEAN : SysClock(gate)
  \/ \E user \in BOOLEAN : CoreMode(user)

SysSpec == SysInit /\ [][SysNext]_sysVars

-----------------------------------------------------------------------------
(* Properties *)

(* The two copies of a region's access control never part, whichever of the two
   addresses is written (write_direct of SYSMPU). *)
CopiesAgree == \A r \in SysRegions : sysAlternate[r] = sysRegion[r].rights

(* What passes while the unit is on was allowed, at both of its ends, by a valid
   region that holds the end: to a user only what the region gives users, and no fetch of an
   unprivileged thread is taken for the supervisor's (sysmpu_access,
   sysmpu_permission). *)
PassedIsAllowed ==
  sysLast' # sysLast /\ sysLast'.allowed /\ sysLast'.watched =>
    /\ sysLast'.master = "fetch" => sysLast'.user = sysUser
    /\ \A end \in {sysLast'.at, sysLast'.at + sysLast'.size - 1} :
         \E r \in SysRegions :
           /\ sysRegion[r].valid /\ end \in sysRegion[r].bounds[1] .. sysRegion[r].bounds[2]
           /\ LET right == sysRegion[r].rights[sysLast'.master]
              IN  IF sysLast'.user \/ right.mode = 3 THEN sysLast'.op \in right.user
                  ELSE sysLast'.op \notin (CASE right.mode = 1 -> {"write"}
                                             [] right.mode = 2 -> {"execute"}
                                             [] OTHER -> {})

(* Every refusal is on record: CESR tells it, and the captured address and master are
   those of the access that was refused last (sysmpu_access). *)
RefusalsTold ==
  sysLast' # sysLast /\ ~sysLast'.allowed =>
    /\ sys'.error /\ sys'.master = sysLast'.master
    /\ sys'.at \in sysLast'.at .. sysLast'.at + sysLast'.size - 1
=============================================================================
