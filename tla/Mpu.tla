-------------------------------- MODULE Mpu --------------------------------
(* The memory protection unit of the core, architecture/cortex_m4/mpu.c: the
   registers behind RNR, RBAR, RASR and their aliases, the region that decides an
   access, and the fault a refused access leaves behind.

   Addresses are counted in the smallest region size; the unit's eight subregions
   are MpuSubregions and a region too small to be split has no subregions. *)
EXTENDS Integers, FiniteSets

CONSTANTS
  MpuRegionCount,   \* regions the core implements (mpu_region_count, 8 or 0)
  MpuSpace,         \* addresses run from 0 to MpuSpace - 1, a power of two
  MpuSizes,         \* region sizes, powers of two no larger than MpuSpace
  MpuSubregions,    \* subregions of a region large enough to have them (8)
  MpuBases,         \* base addresses firmware writes
  MpuSetups,        \* what it writes to RASR: [on, size, cut, xn, ap]
  MpuBackground     \* addresses instructions may be fetched from by default

VARIABLES
  mpu,              \* the control register and the selected region
  mpuRegion,        \* region number -> its base and attributes
  mpuMode,          \* who executes: privileged or not, the exception running
  mpuFault          \* what the fault status registers hold

mpuVars == <<mpu, mpuRegion, mpuMode, mpuFault>>

MpuNumbers == 0 .. MpuRegionCount - 1
MpuPlaces == 0 .. MpuSpace - 1
Subregions == 0 .. MpuSubregions - 1

(* A core without regions has no unit. *)
ASSUME MpuAssumption ==
  /\ MpuRegionCount \in Nat \ {0} /\ MpuSpace \in Nat \ {0} /\ MpuSubregions \in Nat \ {0}
  /\ MpuSizes # {} /\ MpuSizes \subseteq Nat \ {0}
  /\ MpuBases \subseteq MpuPlaces
  /\ MpuSetups \subseteq [on : BOOLEAN, size : MpuSizes, cut : SUBSET Subregions, xn : BOOLEAN,
                          ap : 0 .. 7]

(* HardFault and NMI run with the unit off unless HFNMIENA is set. *)
MpuExceptions == {"none", "ordinary", "hardfault"}
MpuAccesses == {"instruction", "data", "unprivileged", "debug"}

RegionOff == [on |-> FALSE, base |-> 0, size |-> CHOOSE s \in MpuSizes : TRUE,
              cut |-> {}, xn |-> FALSE, ap |-> 0]
NoFault == [instruction |-> FALSE, data |-> FALSE, address |-> -1]

MpuTypeOK ==
  /\ mpu \in [on : BOOLEAN, hfnmi : BOOLEAN, background : BOOLEAN, selected : MpuNumbers]
  /\ mpuRegion \in [MpuNumbers -> [on : BOOLEAN, base : MpuPlaces, size : MpuSizes,
                                   cut : SUBSET Subregions, xn : BOOLEAN, ap : 0 .. 7]]
  /\ mpuMode \in [user : BOOLEAN, exception : MpuExceptions]
  /\ mpuFault \in [instruction : BOOLEAN, data : BOOLEAN, address : MpuPlaces \cup {-1}]

MpuInit ==
  /\ mpu = [on |-> FALSE, hfnmi |-> FALSE, background |-> FALSE, selected |-> 0]
  /\ mpuRegion = [r \in MpuNumbers |-> RegionOff]
  /\ mpuMode = [user |-> FALSE, exception |-> "none"]
  /\ mpuFault = NoFault

-----------------------------------------------------------------------------
(* The region that decides *)

(* The base register keeps bits below the size of the region; they do not count. *)
RegionStart(r) == r.base - (r.base % r.size)

(* region_contains: only a region of at least eight smallest sizes is cut. *)
RegionHas(r, a) ==
  LET start == RegionStart(r)
  IN  /\ r.on /\ a >= start /\ a < start + r.size
      /\ r.size >= MpuSubregions =>
           (((a - start) * MpuSubregions) \div r.size) \notin r.cut

(* The highest-numbered region that holds the address decides alone. *)
DecidingLowest(a) ==  \* mutant: the search starts from the lowest region
  {n \in MpuNumbers : /\ RegionHas(mpuRegion[n], a)
                      /\ \A k \in 0 .. n - 1 : ~RegionHas(mpuRegion[k], a)}

Deciding(a) ==
  {n \in MpuNumbers : /\ RegionHas(mpuRegion[n], a)
                      /\ \A k \in n + 1 .. MpuRegionCount - 1 : ~RegionHas(mpuRegion[k], a)}

(* region_permission: AP 1 to 3 and 5 to 7; 0 and 4 permit nothing. *)
Permits(r, privileged, write, fetch) ==
  /\ ~(fetch /\ r.xn)
  /\ \/ r.ap = 3
     \/ r.ap \in {1, 2} /\ privileged
     \/ r.ap = 2 /\ ~write
     \/ r.ap = 5 /\ privileged /\ ~write
     \/ r.ap \in {6, 7} /\ ~write

(* privileged_access: every handler is privileged, a translated access never. *)
Privileged(access) ==
  access # "unprivileged" /\ (mpuMode.exception # "none" \/ ~mpuMode.user)

MpuActive == mpu.on /\ (mpuMode.exception # "hardfault" \/ mpu.hfnmi)

BytePermitted(a, access, write) ==
  IF Deciding(a) # {}
  THEN \A n \in Deciding(a) :
         Permits(mpuRegion[n], Privileged(access), write, access = "instruction")
  ELSE /\ Privileged(access) /\ mpu.background
       /\ access = "instruction" => a \in MpuBackground

(* Every byte an access touches is asked for; an access never wraps round. *)
Permitted(a, size, access, write) ==
  /\ a + size <= MpuSpace
  /\ access # "debug" /\ MpuActive =>
       \A b \in a .. a + size - 1 : BytePermitted(b, access, write)

(* cortex_m4_mpu_check: a refused data access records where the access began. *)
Checked(a, size, access, write) ==
  IF Permitted(a, size, access, write) THEN mpuFault
  ELSE IF access = "instruction" THEN [mpuFault EXCEPT !.instruction = TRUE]
  ELSE [mpuFault EXCEPT !.data = TRUE, !.address = a]

MpuAccess(a, size, access, write) ==
  /\ access = "instruction" => ~write
  /\ mpuFault' = Checked(a, size, access, write)
  /\ UNCHANGED <<mpu, mpuRegion, mpuMode>>

-----------------------------------------------------------------------------
(* Registers; firmware without privilege reaches none of them *)

MpuReachable(access) == access = "debug" \/ Privileged(access)

MpuWriteCtrl(access, on, hfnmi, background) ==
  /\ MpuReachable(access)
  /\ mpu' = [mpu EXCEPT !.on = on, !.hfnmi = hfnmi, !.background = background]
  /\ UNCHANGED <<mpuRegion, mpuMode, mpuFault>>

MpuWriteRnr(access, n) ==
  /\ MpuReachable(access)
  /\ mpu' = [mpu EXCEPT !.selected = n]
  /\ UNCHANGED <<mpuRegion, mpuMode, mpuFault>>

(* An alias stands for a region of the same group of four as the selected one. *)
Selected(alias) == IF alias = 0 THEN mpu.selected
                   ELSE (mpu.selected - (mpu.selected % 4)) + alias

(* RBAR: VALID names the region in the value, and selects it. *)
MpuWriteRbar(access, alias, base, named) ==
  /\ MpuReachable(access)
  /\ LET n == IF named = -1 THEN Selected(alias) ELSE named
     IN  /\ n \in MpuNumbers
         /\ mpuRegion' = [mpuRegion EXCEPT ![n].base = base]
         /\ mpu' = IF named = -1 THEN mpu ELSE [mpu EXCEPT !.selected = named]
  /\ UNCHANGED <<mpuMode, mpuFault>>

MpuWriteRasr(access, alias, setup) ==
  /\ MpuReachable(access)
  /\ Selected(alias) \in MpuNumbers
  /\ mpuRegion' = [mpuRegion EXCEPT ![Selected(alias)] =
                     [on |-> setup.on, base |-> @.base, size |-> setup.size, cut |-> setup.cut,
                      xn |-> setup.xn, ap |-> setup.ap]]
  /\ UNCHANGED <<mpu, mpuMode, mpuFault>>

(* The memory management bits of CFSR are cleared by writing ones. *)
MpuClearFaults ==
  /\ Privileged("data")
  /\ mpuFault' = NoFault
  /\ UNCHANGED <<mpu, mpuRegion, mpuMode>>

(* The core changes CONTROL.nPRIV, enters or leaves a handler. *)
MpuModeChanges(user, exception) ==
  /\ user # mpuMode.user => Privileged("data")
  /\ mpuMode' = [user |-> user, exception |-> exception]
  /\ UNCHANGED <<mpu, mpuRegion, mpuFault>>

(* cortex_m4_mpu_reset, with the core's own registers. *)
MpuResets ==
  /\ mpu' = [on |-> FALSE, hfnmi |-> FALSE, background |-> FALSE, selected |-> 0]
  /\ mpuRegion' = [r \in MpuNumbers |-> RegionOff]
  /\ mpuMode' = [user |-> FALSE, exception |-> "none"]
  /\ mpuFault' = NoFault

MpuNext ==
  \/ \E a \in MpuPlaces, size \in {1, 2}, access \in MpuAccesses, write \in BOOLEAN :
       MpuAccess(a, size, access, write)
  \/ \E access \in {"data", "unprivileged", "debug"}, on, hfnmi, background \in BOOLEAN :
       MpuWriteCtrl(access, on, hfnmi, background)
  \/ \E access \in {"data", "unprivileged", "debug"}, n \in MpuNumbers : MpuWriteRnr(access, n)
  \/ \E access \in {"data", "debug"}, alias \in 0 .. 1, base \in MpuBases,
        named \in MpuNumbers \cup {-1} : MpuWriteRbar(access, alias, base, named)
  \/ \E access \in {"data", "debug"}, alias \in 0 .. 1, setup \in MpuSetups :
       MpuWriteRasr(access, alias, setup)
  \/ MpuClearFaults
  \/ \E user \in BOOLEAN, exception \in MpuExceptions : MpuModeChanges(user, exception)
  \/ MpuResets

MpuSpec == MpuInit /\ [][MpuNext]_mpuVars

-----------------------------------------------------------------------------
(* Properties *)

(* The addresses a region covers, drawn rather than computed: the aligned block
   its base lies in, less the parts cut out of it. *)
Block(r) == {b \in MpuPlaces : b \div r.size = r.base \div r.size}
Part(r, i) == {b \in Block(r) : ((b % r.size) * MpuSubregions) \div r.size = i}
Covered(r) == IF ~r.on THEN {}
             ELSE IF r.size < MpuSubregions THEN Block(r)
             ELSE Block(r) \ UNION {Part(r, i) : i \in r.cut}

(* What thread code without privilege may reach, from the drawn map: the last region
   over an address decides, and nothing is allowed outside every region. *)
UserMap(write) ==
  UNION {Covered(mpuRegion[n]) \ UNION {Covered(mpuRegion[k]) : k \in n + 1 .. MpuRegionCount - 1} :
         n \in {m \in MpuNumbers : mpuRegion[m].ap \in (IF write THEN {3} ELSE {2, 3, 6, 7})}}

(* With the unit on, user code reads and writes exactly what the regions drawn over
   the address space give it, every byte of an access counted, whichever order
   RNR, RBAR, RASR and the aliases were written in (region_contains,
   matching_region, region_permission, cortex_m4_mpu_access_permitted). *)
UserConfined ==
  mpu.on /\ mpuMode.user /\ mpuMode.exception = "none" =>
    \A write \in BOOLEAN : LET map == UserMap(write)
                           IN  \A a \in MpuPlaces, size \in {1, 2} :
                                 a + size <= MpuSpace =>
                                   (Permitted(a, size, "data", write) <=> a .. a + size - 1 \subseteq map)

(* A handler of HardFault or NMI is never refused an access inside the address space
   while HFNMIENA is clear, so that the map of the code that failed cannot lock the
   core up (mpu_active). *)
HardFaultReaches ==
  mpuMode.exception = "hardfault" /\ ~mpu.hfnmi =>
    mpuFault' \in {mpuFault, NoFault} \/
    \E access \in MpuAccesses, write \in BOOLEAN :
      MpuAccess(MpuSpace - 1, 2, access, write)
=============================================================================
