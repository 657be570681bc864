------------------------------ MODULE MCSystem ------------------------------
(***************************************************************************)
(* What surrounds the core, side by side for TLC: the flash controller, a      *)
(* FlexTimer module, the debug unit, the two memory protection units, the       *)
(* exclusive monitor with the store buffer, the clock gates with the bridge to    *)
(* the peripherals, and conditional execution in the core.  In a behaviour one of them, the one in focus, takes every  *)
(* step.                                                                              *)
(***************************************************************************)
EXTENDS FlashController, Ftm, Debug, Guards, Exclusive, Instructions

(* A flash whose firmware leaves the cache on, and three that turn it
   off, of one block or two, with a swap and with a data flash. *)

FlashPart(ftfe, halves, data, cached) ==
  [ftfe |-> ftfe, halves |-> halves, data |-> data, cached |-> cached]
CachedPart == FlashPart(FALSE, FALSE, FALSE, TRUE)
HalvesPart == FlashPart(FALSE, TRUE, FALSE, FALSE)
SwapPart == FlashPart(TRUE, TRUE, FALSE, FALSE)
DataPart == FlashPart(TRUE, TRUE, TRUE, FALSE)
FlashParts == {CachedPart, HalvesPart, SwapPart, DataPart}

FlashSectors == <<"config", "code">>
Config == ConfigPlace
Code == <<0, "code">>
OtherCode == <<1, "code">>

Control(mode, locked, ways) ==
  [mode |-> mode, locked |-> locked, enabled |-> Banks \X Kinds, ways |-> ways]

Quiet ==
  [places |-> {}, words |-> {"a"}, enables |-> {}, protection |-> {}, access |-> {},
   control |-> {}, reads |-> {}, writes |-> {}, images |-> {}]

FlashInputs == [p \in FlashParts |->
  CASE p = CachedPart ->
         [Quiet EXCEPT !.places = {Code}, !.reads = {Code, OtherCode},
                       !.writes = {Code}, !.images = {Code},
                       !.control = {Control(3, {}, {0}), Control(3, {3}, {})}]
    [] p = HalvesPart ->
         [Quiet EXCEPT !.places = {Config, Code, OtherCode, Nowhere}, !.reads = {Code},
                       !.protection = {{OtherCode}}, !.access = {{0, 1}},
                       !.images = {Config}, !.enables = {{"CCIE", "RDCOLLIE"}}]
    [] p = SwapPart ->
         [Quiet EXCEPT !.places = ProgramPlaces]
    [] OTHER ->
         [Quiet EXCEPT !.places = {Config, DataPlace}, !.protection = {{DataPlace}},
                       !.reads = {DataPlace}, !.writes = {DataPlace}, !.enables = {{"RDCOLLIE"}}]]

\* A configuration word that was programmed protects the code of the first block.
FlashProtects == [w \in Words |-> IF w = "a" THEN {Code} ELSE {}]

(* A FlexTimer module is found configured for what it is used for. *)
On == [FtmOff EXCEPT !.clock = TRUE, !.modulo = 2]
Pwm == [On EXCEPT !.ch[0].ms = 2, !.ch[0].edges = 2]
Synchronizations ==
  {FtmSyncPlain,
   [FtmSyncPlain EXCEPT !.enhanced = TRUE, !.initial = TRUE, !.swbuffers = TRUE,
                        !.hwbuffers = TRUE, !.hwreset = TRUE]}
Found == [use \in FtmUses |->
  CASE use \in {"counts", "compares"} -> {FtmOff}
    [] use \in {"software", "hardware"} ->
         {[Pwm EXCEPT !.ftmen = TRUE, !.pair.sync = TRUE, !.conf = c] : c \in Synchronizations}
    [] use = "faults" ->
         {[On EXCEPT !.modulo = 1, !.ie = FALSE, !.fault.mode = 1, !.fault.enabled = {0}]}
    [] use = "pairs" -> {[Pwm EXCEPT !.modulo = 1, !.ch[1].edges = 2]}
    [] use = "captures" -> {[On EXCEPT !.modulo = 1]}]
ChannelModes == {<<1, 1>>, <<2, 2>>}
PairModes ==
  {[FtmPairOff EXCEPT !.complement = TRUE, !.deadtime = TRUE, !.sync = TRUE],
   [FtmPairOff EXCEPT !.combine = TRUE, !.complement = TRUE, !.deadtime = TRUE]}
LoadingPoints == {<<TRUE, FALSE, FALSE, FALSE>>, <<FALSE, FALSE, TRUE, TRUE>>}

DebuggerControls == {{}, {"halt"}, {"debugen"}, {"debugen", "halt"}, {"debugen", "step"}}
MonitorControls ==
  {{}, {"trace"}, {"monreq"}, {"monen", "monstep"}, {"monen", "monpend", "catch", "trace"}}

Region == [on |-> TRUE, size |-> 4, cut |-> {}, xn |-> FALSE, ap |-> 3]
RegionSetups ==
  {[Region EXCEPT !.cut = {0}, !.ap = 2], [Region EXCEPT !.on = FALSE],
   [Region EXCEPT !.size = 8, !.ap = 1, !.xn = TRUE]}

Unguarded == [Peripherals -> {[user |-> FALSE, write |-> FALSE]}]
Guarded0 == {[p \in Peripherals |-> [user |-> p # "uart", write |-> p = "port"]]}
BridgeModes == Unguarded \cup Guarded0

Rights(user, mode) ==
  [master \in SysMasters |-> [user |-> user, mode |-> IF master = "dma" THEN 1 ELSE mode]]
RegionRights == {Rights({"read"}, 3), Rights({"execute"}, 2), Rights({}, 0)}
RegionBounds == {<<0, 3>>, <<2, 2>>}

Blocks == {<<0>>, <<11, 10>>, <<8, 9, 8>>, <<0, 0, 1, 0>>}
WordPairs == {<<0, 1>>, <<1, 1>>, <<4, 1>>, <<7, 6>>}

-----------------------------------------------------------------------------
(* The parts side by side *)

VARIABLE focus   \* the part that steps

(* What is explored: a read that collided apart from the errors of a command, and an
   error of a command with the FlexRAM as a reset leaves it; of a FlexTimer each of the
   decoder, masks, software control, inversion, repeated overflows, initial values and
   levels in the plainest setting of the rest; the cycle counter without halts and
   steps; regions in the order of their numbers; the monitor and the store buffer one
   without the other; of conditions a transfer that is cut at one register, and in a
   handler one block. *)
ExploredFlash ==
  /\ status \cap {"RDCOLERR", "ACCERR", "FPVIOL"} # {} => flexRam = [word |-> Zero, eeprom |-> FALSE]
  /\ "RDCOLERR" \in status => status \cap {"ACCERR", "FPVIOL", "MGSTAT0"} = {}
  /\ part = CachedPart => status \cap {"RDCOLERR", "ACCERR"} = {}
  /\ part = SwapPart =>
       flexRam.word # "a" /\ ~flexRam.eeprom /\ status \cap {"ACCERR", "MGSTAT0"} = {}
  /\ part = DataPart /\ flexRam.word = "a" => partition = "none" /\ protected = {}

ExploredFtm ==
  CASE ftmUse = "counts" ->
         /\ ftm.buffer.initial # 0 => ftm.numtof = 0
         /\ ~ftm.gate \/ ftm.updown => ftm.numtof = 0 /\ ftm.buffer.initial = 0
         /\ ~ftm.gate => ~ftm.updown /\ ~ftm.tof.read
    [] ftmUse = "compares" ->
         /\ ftm.outinit # {} => ~ftm.updown /\ ~ftm.ch[0].ie
         /\ ftm.ch[0].read => ftm.pending = {} /\ ftm.modulo = 2
    [] ftmUse = "software" ->
         ftm.buffer.initial # 0 => ftm.buffer.value[0] = 0 /\ ~ftm.waits.software
    [] ftmUse = "hardware" ->
         /\ ftm.triggered => ftm.pending # {}
         /\ ftm.buffer.mask # {} => ftm.conf = FtmSyncPlain /\ ftm.buffer.initial = 0
         /\ ftm.buffer.initial # 0 => ftm.buffer.value[0] = 0 /\ ~ftm.waits.hardware
    [] ftmUse = "faults" ->
         /\ ftm.fault.polarity # {} => 0 \notin ftm.fault.level
         /\ ftm.fault.polarity # {} \/ ~ftm.wpdis => ftm.fault.mode = 1 /\ ftm.fault.enabled = {0}
    [] ftmUse = "pairs" ->
         /\ ftm.buffer.soft.on # {} => ~ftm.buffer.invert /\ ~ftm.pair.combine
         /\ ftm.pair.combine => ~ftm.buffer.invert
         /\ ftm.buffer.soft.on # {} \/ ftm.buffer.invert => ftm.buffer.value[0] = 0
    [] ftmUse = "captures" ->
         /\ ftm.quad.on => ftm.ch[0].edges = 0 /\ ftm.filters = {}
         /\ ftm.triggers # {} => ftm.filters = {}
         /\ ~ftm.quad.on => Cardinality(ftm.input) <= 1
         /\ ftm.quad.on => ftm.triggers = {}

ExploredMpu ==
  /\ mpuRegion[1] # RegionOff => mpuRegion[0] # RegionOff /\ ~mpu.hfnmi
  /\ ~mpu.on => mpuMode = [user |-> FALSE, exception |-> "none"] /\ ~mpu.hfnmi

ExploredDebug ==
  /\ dwt.on => /\ dbg.control \cap {"halt", "step"} = {} /\ dbg.dfsr \in {{}, {"event"}}
               /\ dbg.handler # "hardfault" /\ ~dbgHost
  /\ ~dwt.on => dwt.count = 0 /\ ~dwt.armed /\ ~dwt.matched
  /\ Cardinality(dbg.dfsr) <= 1

ExploredIt ==
  /\ ici \in {0, 2}
  /\ promise.torn => promise.compared \in {NoPair, <<0, 1>>} /\ itFrames = <<>>
  /\ itFrames # <<>> =>
       /\ it \in {0, Encoded(<<0>>)}
       /\ flags = itFrames[1].flags \/ promise.compared = <<0, 1>>

Explored ==
  CASE focus = "flash" -> ExploredFlash
    [] focus = "ftm" -> ExploredFtm
    [] focus = "debug" -> ExploredDebug
    [] focus = "mpu" -> ExploredMpu
    [] focus = "monitor" -> exInstr = ExIdle /\ exStore.cycles = 0 /\ Cardinality(exRefused) <= 1
    [] focus = "buffer" -> exReserved = ExNone /\ exGranule = 0 /\ exRefused = {}
    [] focus = "gates" -> TRUE
    [] focus = "sysmpu" -> sysRegion[1].bounds = SomeBounds
    [] focus = "it" -> ExploredIt

(* What is explored further: nothing after an access that was refused, but with one
   setting of the maps, and nothing after one of the system's that was let through. *)
Continued ==
  CASE focus = "mpu" ->
         mpuFault # NoFault =>
           mpu.background /\ mpu.selected = 0 /\ ~mpu.hfnmi /\ mpuRegion[1] = RegionOff
    [] focus = "sysmpu" ->
         /\ sysLast = NoSysAccess \/ ~sysLast.allowed
         /\ \/ ~sys.error /\ sys.at = 0 /\ sys.master = "fetch"
            \/ \A r \in SysRegions : sysRegion[r] = SysRegion0
    [] focus = "gates" -> ~gateLast.reached \/ gateLast.who = "debug"
    [] OTHER -> TRUE

Init ==
  /\ focus \in {"flash", "ftm", "debug", "mpu", "monitor", "buffer", "gates", "sysmpu", "it"}
  /\ FlashInit /\ FtmInit /\ DebugInit /\ MpuInit /\ ExInit /\ GatesInit /\ SysInit /\ ItInit
  \* what rests, rests in one way
  /\ focus # "flash" => part = CachedPart
  /\ focus # "ftm" => ftmUse = "counts"
  /\ focus \notin {"monitor", "buffer"} => exGranule = 0 /\ exRefused = {}
  /\ focus # "gates" => bridge \in Unguarded
  /\ Explored

Next ==
  /\ UNCHANGED focus
  /\ Continued
  /\ \/ /\ focus = "flash"
        /\ UNCHANGED <<ftmVars, debugVars, mpuVars, exVars, gatesVars, sysVars, itVars>>
        /\ FlashNext
     \/ /\ focus = "ftm"
        /\ UNCHANGED <<flashVars, debugVars, mpuVars, exVars, gatesVars, sysVars, itVars>>
        /\ FtmNext
     \/ /\ focus = "debug"
        /\ UNCHANGED <<flashVars, ftmVars, mpuVars, exVars, gatesVars, sysVars, itVars>>
        /\ DebugNext
     \/ /\ focus = "mpu"
        /\ UNCHANGED <<flashVars, ftmVars, debugVars, exVars, gatesVars, sysVars, itVars>>
        /\ MpuNext
     \/ /\ focus \in {"monitor", "buffer"}
        /\ UNCHANGED <<flashVars, ftmVars, debugVars, mpuVars, gatesVars, sysVars, itVars>>
        /\ ExNext
     \/ /\ focus = "gates"
        /\ UNCHANGED <<flashVars, ftmVars, debugVars, mpuVars, exVars, sysVars, itVars>>
        /\ GatesNext
     \/ /\ focus = "sysmpu"
        /\ UNCHANGED <<flashVars, ftmVars, debugVars, mpuVars, exVars, gatesVars, itVars>>
        /\ SysNext
     \/ /\ focus = "it"
        /\ UNCHANGED <<flashVars, ftmVars, debugVars, mpuVars, exVars, gatesVars, sysVars>>
        /\ ItNext
  /\ Explored'

systemVars ==
  <<focus, flashVars, ftmVars, debugVars, mpuVars, exVars, gatesVars, sysVars, itVars>>

Spec == Init /\ [][Next]_systemVars

(* A state is told from another by the part in focus: the others never move. *)
Focused ==
  <<focus, array, cache,
    CASE focus = "flash" -> flashVars
      [] focus = "ftm" -> ftmVars
      [] focus = "debug" -> debugVars
      [] focus = "mpu" -> mpuVars
      [] focus \in {"monitor", "buffer"} -> exVars
      [] focus = "gates" -> gatesVars
      [] focus = "sysmpu" -> sysVars
      [] focus = "it" -> itVars>>

-----------------------------------------------------------------------------
(* Properties *)

(* The type invariants of all the parts; and the shifter of the core, which keeps no
   state, returns what as many shifts by one do (core.c). *)
SystemTypeOK ==
  CASE focus = "flash" -> FlashTypeOK
    [] focus = "ftm" -> FtmTypeOK
    [] focus = "debug" -> DebugTypeOK
    [] focus = "mpu" -> MpuTypeOK
    [] focus \in {"monitor", "buffer"} -> ExTypeOK
    [] focus = "gates" -> GatesTypeOK
    [] focus = "sysmpu" -> SysTypeOK
    [] focus = "it" -> ItTypeOK /\ ShiftsStepByStep

(* What a FlexTimer counts and flags does not depend on the batches of time, its
   line is what the flags ask for, and no event is cleared that software has not seen;
   a complementary pair never drives both outputs, a fault holds them off, and buffers
   that wait together are loaded together, at a loading point (timing/ftm.c,
   timing/registers.c). *)
FtmHonest ==
  /\ [](focus = "ftm" => /\ FtmSplits /\ FtmLineInStep
                         /\ NeverBothOn /\ FaultsHoldOutputs /\ SwsyncWaits)
  /\ [][focus = "ftm" => UnseenEventsStay /\ UpdatesTogether]_systemVars
=============================================================================
