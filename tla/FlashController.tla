--------------------------- MODULE FlashController ---------------------------
(***************************************************************************)
(* The flash commands (memory/flash.c), the swap of the two halves, and the  *)
(* reads that go through the cache of the flash memory controller (device.c). *)
(* Each sector is modelled by one word: in "config" the word of the            *)
(* configuration field, in another one the word that a swap uses as its        *)
(* indicator. One of the four sets of the cache is modelled: a set never looks *)
(* at the lines of another. A line is named by the logical place it was read   *)
(* from, which stands for its bank and its tag; the masks of the register      *)
(* tables keep the tags of distinct lines apart. The ages are modelled by the  *)
(* order of use they decide. Left out: security and its key, the contents of   *)
(* the record that is programmed once, and of the resources.                   *)
(***************************************************************************)
EXTENDS Integers, FiniteSets, Sequences, SequencesExt

CONSTANTS
  Ways,         \* the ways of a set: 0 .. 3 in every part
  None,         \* what an invalid way holds
  Parts,        \* the parts: [ftfe, halves, data, cached], see FlashTypeOK
  Inputs,       \* for each part, the places, words and settings that are used
  Sectors,      \* the sectors of a half, in the order of their addresses
  Values,       \* words that are programmed
  Zero,         \* the one of them that a reset leaves in the FlexRAM
  Protects,     \* the places a configuration word protects
  Denied        \* what a read that is refused gives

VARIABLES part, array, dataWord, configCopy, protected, status, enables, interrupts,
          remaining, busy, swap, flexRam, partition, masters, cache

flashVars == <<part, array, dataWord, configCopy, protected, status, enables, interrupts,
               remaining, busy, swap, flexRam, partition, masters, cache>>

-----------------------------------------------------------------------------
(* The cache, as operators on a record of its state *)

Kinds == {"INSTRUCTION", "DATA"}
Banks == {0, 1}

\* What a warm or a cold reset leaves: every way invalid, both banks cached.
EmptyCache ==
  [line |-> [w \in Ways |-> None], word |-> [w \in Ways |-> None], order |-> <<>>,
   mode |-> 0, locked |-> {}, enabled |-> Banks \X Kinds]

\* The ways that a miss of this kind of access may fill.
WayAllowed(mode, kind, w) ==
  CASE mode = 2 -> IF kind = "INSTRUCTION" THEN w < 2 ELSE w >= 2
    [] mode = 3 -> IF kind = "INSTRUCTION" THEN w < 3 ELSE w = 3
    [] OTHER -> TRUE

FillableLocked(c, kind) == {w \in Ways : WayAllowed(c.mode, kind, w)}  \* mutant: locks forgotten
Fillable(c, kind) == {w \in Ways \ c.locked : WayAllowed(c.mode, kind, w)}

\* The way a miss replaces: the first invalid one, or the one not used for longest.
Replacements(c, kind) ==
  LET invalid == {w \in Fillable(c, kind) : c.line[w] = None}
  IN IF invalid # {}
     THEN {CHOOSE w \in invalid : \A v \in invalid : w <= v}
     ELSE {w \in Fillable(c, kind) :
             \A v \in Fillable(c, kind) : \E i, j \in DOMAIN c.order :
               c.order[i] = w /\ c.order[j] = v /\ i <= j}

Hits(c, place) == {w \in Ways : c.line[w] = place}

\* A way becomes the one used last.
Used(c, w) == [c EXCEPT !.order = Append(Remove(@, w), w)]

Filled(c, w, place, word) ==
  Used([c EXCEPT !.line[w] = place, !.word[w] = word], w)

\* What a read through the cache returns, of a place whose word is given.
CachedWord(c, place, word) ==
  IF Hits(c, place) # {} THEN c.word[CHOOSE w \in Hits(c, place) : TRUE] ELSE word

\* What a read through the cache makes of it; nothing when no way may be replaced.
AfterRead(c, kind, place, word) ==
  IF Hits(c, place) # {} THEN Used(c, CHOOSE w \in Hits(c, place) : TRUE)
  ELSE IF Replacements(c, kind) = {} THEN c
  ELSE Filled(c, CHOOSE w \in Replacements(c, kind) : TRUE, place, word)

\* The ways in a set are made invalid.
Cleared(c, ways) ==
  [c EXCEPT !.line = [w \in Ways |-> IF w \in ways THEN None ELSE @[w]],
            !.word = [w \in Ways |-> IF w \in ways THEN None ELSE @[w]],
            !.order = SelectSeq(@, LAMBDA w : w \notin ways)]

Invalidated(c, place) == Cleared(c, Hits(c, place))

-----------------------------------------------------------------------------
(* The array *)

Erased == "erased"
Partly == "ff00"          \* the indicator words of a swap
Done == "0000"
Words == Values \cup {Erased, Partly, Done}
ShortTime == 1            \* the 40 and the 2000 cycles of a command
LongTime == 2

SectorSet == Range(Sectors)
ProgramPlaces == {0, 1} \X SectorSet
ConfigPlace == <<0, "config">>
DataPlace == <<2, "data">>
Nowhere == <<3, "none">>
Places == ProgramPlaces \cup {DataPlace}
BankOf(p) == IF p = DataPlace THEN 1 ELSE 0

CacheSettings ==
  [mode : 0 .. 7, locked : SUBSET Ways, enabled : SUBSET (Banks \X Kinds), ways : SUBSET Ways]
InputSets ==
  [places : SUBSET (Places \cup {Nowhere}), words : SUBSET Values,
   enables : SUBSET SUBSET {"CCIE", "RDCOLLIE"}, protection : SUBSET SUBSET Places,
   access : SUBSET SUBSET {0, 1, 2}, control : SUBSET CacheSettings,
   reads : SUBSET Places, writes : SUBSET Places, images : SUBSET ProgramPlaces]

(* What goes past the controller spares what the controller answers for: a debugger
   writes no configuration word, neither debugger nor host writes the sector that a
   swap may use as its indicator, and who turned the cache off leaves it off. *)
ASSUME FlashAssumption ==
  /\ Ways \subseteq Nat
  /\ Parts \subseteq [ftfe : BOOLEAN, halves : BOOLEAN, data : BOOLEAN, cached : BOOLEAN]
  /\ "config" \in SectorSet
  /\ Zero \in Values /\ Denied \notin Words
  /\ Protects \in [Words -> SUBSET Places]
  /\ \A pt \in Parts :
       /\ Inputs[pt] \in InputSets
       /\ ~pt.cached => \A c \in Inputs[pt].control : c.enabled = {}
       /\ ConfigPlace \notin Inputs[pt].writes
       /\ pt.ftfe /\ ~pt.data =>
            \A p \in Inputs[pt].writes \cup Inputs[pt].images : p[2] = "config"

\* The halves change places while block 1 is the current one.
Physical(p) == IF swap.current = 1 THEN <<1 - p[1], p[2]>> ELSE p
WordAt(p) == IF p = DataPlace THEN dataWord ELSE array[Physical(p)]

\* The part of the data flash that the partition leaves to data.
DataPlaces(pt, k) == IF pt.data /\ k # "eeprom" THEN {DataPlace} ELSE {}
Available == ProgramPlaces \cup DataPlaces(part, partition)

BlockOf(p) ==
  CASE p = DataPlace -> DataPlaces(part, partition)
    [] p \in ProgramPlaces /\ part.halves -> {p[1]} \X SectorSet
    [] OTHER -> ProgramPlaces

Active == <<0, swap.sector>>
Nonactive == <<1, swap.sector>>

\* Firmware of a part that is not "cached" turns the cache off right after a reset.
StartCache == IF part.cached THEN EmptyCache ELSE [EmptyCache EXCEPT !.enabled = {}]

\* The indicators of a swap are out of the reach of ordinary commands.
SwapProtected(places, erase) ==
  /\ swap.mode # 0
  /\ \/ Active \in places
     \/ Nonactive \in places /\ (erase => swap.mode \notin {2, 3})
GuardedAtStart(places, erase) ==  \* mutant: only the region a range begins in is asked
  \/ \E p \in places \cap protected : \A q \in places : q[2] = p[2] \/ p = ConfigPlace
  \/ SwapProtected(places, erase)
Guarded(places, erase) == places \cap protected # {} \/ SwapProtected(places, erase)

Lines(st, en) ==
  (IF {"CCIF"} \subseteq st /\ "CCIE" \in en THEN {"FTFA"} ELSE {}) \cup
  (IF {"RDCOLERR"} \subseteq st /\ "RDCOLLIE" \in en THEN {"COLLISION"} ELSE {})

\* A command reads the configuration from its copy, the rest as a bus master does.
Load(c, p) ==
  IF p = ConfigPlace THEN [word |-> configCopy, cache |-> c]
  ELSE IF p = DataPlace THEN [word |-> dataWord, cache |-> c]
  ELSE IF 2 \notin masters THEN [word |-> Denied, cache |-> c]
  ELSE IF <<0, "DATA">> \notin c.enabled THEN [word |-> WordAt(p), cache |-> c]
  ELSE [word |-> CachedWord(c, p, WordAt(p)), cache |-> AfterRead(c, "DATA", p, WordAt(p))]

\* A sequence of places is read up to the first that is not erased.
LoadAll(c, places) ==
  FoldLeft(LAMBDA acc, p : IF acc.word # Erased THEN acc ELSE Load(acc.cache, p),
           [word |-> Erased, cache |-> c], places)

PlacesOf(block) == [i \in DOMAIN Sectors |-> <<block, Sectors[i]>>]
InOrder(places) ==
  SelectSeq(PlacesOf(0) \o PlacesOf(1), LAMBDA p : p \in places)
    \o (IF DataPlace \in places THEN <<DataPlace>> ELSE <<>>)

\* The controller writes the array itself, and the copy of the configuration.
Store(places, w) ==
  /\ array' = [q \in ProgramPlaces |-> IF q \in {Physical(p) : p \in places} THEN w ELSE array[q]]
  /\ dataWord' = IF DataPlace \in places THEN w ELSE dataWord
  /\ configCopy' = IF ConfigPlace \in places THEN w ELSE configCopy

\* A write of CCIF to FSTAT. One that clears flags as well is the same as two.
Launchable == {"CCIF"} = status \cap {"CCIF", "ACCERR", "FPVIOL"}

\* How a command ends its launch; it is then busy for a time.
Launched(valid, guarded, verify, places, time) ==
  /\ Launchable
  /\ status' = (status \cap {"RDCOLERR"}) \cup
               (CASE guarded -> {"FPVIOL"} [] ~guarded /\ ~valid -> {"ACCERR"}
                  [] ~guarded /\ valid /\ verify -> {"MGSTAT0"} [] OTHER -> {})
  /\ interrupts' = Lines(status', enables)
  /\ remaining' = time
  /\ busy' = IF valid /\ ~guarded THEN places ELSE {}
  /\ UNCHANGED <<part, enables, masters>>

Program(p, w) ==
  LET tried == p \in Available /\ ~Guarded({p}, FALSE)
      read == IF tried THEN Load(cache, p) ELSE [word |-> Erased, cache |-> cache]
  IN /\ Store(IF tried /\ read.word = Erased THEN {p} ELSE {}, w)
     /\ cache' = read.cache
     /\ Launched(p \in Available /\ read.word # Denied, p \in Available /\ ~tried,
                 read.word # Erased, BlockOf(p), ShortTime)
     /\ UNCHANGED <<protected, swap, flexRam, partition>>

ProgramWord(p, w) == Program(p, w)
\* The words come from the FlexRAM while that is RAM.
ProgramSection(p) ==
  LET place == IF part.ftfe /\ ~flexRam.eeprom THEN p ELSE Nowhere
  IN Program(place, flexRam.word)

Erase(places, valid) ==
  LET guarded == valid /\ Guarded(places, TRUE)
  IN /\ Store(IF valid /\ ~guarded THEN places ELSE {}, Erased)
     /\ swap' = IF valid /\ ~guarded /\ swap.mode = 2 /\ Nonactive \in places
                THEN [swap EXCEPT !.mode = 3] ELSE swap
     /\ Launched(valid, guarded, FALSE, BlockOf(CHOOSE p \in places : TRUE), LongTime)
     /\ UNCHANGED <<protected, flexRam, partition, cache>>

BlockCommand(p) ==
  /\ p \in Available
  /\ part.ftfe \/ part.halves
  /\ ~(p = DataPlace /\ flexRam.eeprom)

EraseSector(p) == Erase({p}, p \in Available)
EraseBlock(p) == Erase(IF p \in Available THEN BlockOf(p) ELSE {p}, BlockCommand(p))

EraseAll ==
  LET guarded == protected \cap (ProgramPlaces \cup {q \in {DataPlace} : part.data}) # {}
  IN /\ IF guarded THEN UNCHANGED <<array, dataWord, configCopy, swap, flexRam, partition>>
        ELSE /\ Store(ProgramPlaces \cup {DataPlace}, Erased)
             /\ swap' = [mode |-> 0, sector |-> "none", current |-> 0, next |-> 0]
             /\ flexRam' = [word |-> Erased, eeprom |-> FALSE]
             /\ partition' = "none"
     /\ Launched(TRUE, guarded, FALSE, Places, LongTime)
     /\ UNCHANGED <<protected, cache>>

\* Commands that only look: whether places are erased, whether a word is as expected.
\* What is not read through the cache leaves it as it is.
Check(places, valid, block) ==
  LET read == IF valid THEN LoadAll(cache, InOrder(places)) ELSE [word |-> Erased, cache |-> cache]
  IN /\ cache' = IF <<0, "DATA">> \in cache.enabled THEN read.cache ELSE cache
     /\ Launched(valid, FALSE, read.word # Erased, block, ShortTime)
     /\ UNCHANGED <<array, dataWord, configCopy, protected, swap, flexRam, partition>>

ReadOnesSection(p) == Check({p}, p \in Available, BlockOf(p))
ReadOnesBlock(p) == Check(BlockOf(p), BlockCommand(p), BlockOf(p))
ReadOnesAll == Check(Available, TRUE, Places)

ProgramCheck(p, w) ==
  LET read == IF p \in Available THEN Load(cache, p) ELSE [word |-> w, cache |-> cache]
  IN /\ cache' = read.cache
     /\ Launched(p \in Available, FALSE, read.word # w, BlockOf(p), ShortTime)
     /\ UNCHANGED <<array, dataWord, configCopy, protected, swap, flexRam, partition>>

\* Reads of resources, the record programmed once, and codes that are no command.
OtherCommand(valid, p) ==
  /\ Launched(valid, FALSE, FALSE, BlockOf(p), ShortTime)
  /\ UNCHANGED <<array, dataWord, configCopy, protected, swap, flexRam, partition, cache>>

HasFlexRam == part.ftfe

Partition(k) ==
  LET valid == part.ftfe /\ part.data /\ partition = "none"
  IN /\ partition' = IF valid THEN k ELSE partition
     /\ flexRam' = IF valid THEN [word |-> Erased, eeprom |-> k # "data"] ELSE flexRam
     /\ dataWord' = IF valid THEN Erased ELSE dataWord
     /\ Launched(valid, FALSE, FALSE, DataPlaces(part, k), LongTime)
     /\ UNCHANGED <<array, configCopy, protected, swap, cache>>

SetFlexRam(eeprom) ==
  LET valid == HasFlexRam /\ (eeprom => partition # "none")
  IN /\ flexRam' = IF valid THEN [word |-> Erased, eeprom |-> eeprom] ELSE flexRam
     /\ Launched(valid, FALSE, FALSE, DataPlaces(part, partition), ShortTime)
     /\ UNCHANGED <<array, dataWord, configCopy, protected, swap, partition, cache>>

\* The indicator of a physical block, whatever protects the place.
Indicate(block, w) == Store({<<IF block = swap.current THEN 0 ELSE 1, swap'.sector>>}, w)

SwapSteps ==
  \/ /\ swap.mode = 0
     /\ \E s \in SectorSet \ {"config"} :
          swap' = [mode |-> 3, sector |-> s, current |-> 0, next |-> 0]
     /\ Indicate(0, Partly)
  \/ /\ swap.mode = 1
     /\ swap' = [swap EXCEPT !.mode = 2]
     /\ Indicate(swap.current, Partly)
  \/ /\ swap.mode = 3
     /\ swap' = [mode |-> 4, sector |-> swap.sector, current |-> swap.current,
                 next |-> 1 - swap.current]
     /\ Indicate(swap.current, Done)

CanSwap == part.ftfe /\ ~part.data

SwapControl ==
  /\ CanSwap
  /\ SwapSteps
  /\ Launched(TRUE, FALSE, FALSE, BlockOf(<<0, swap'.sector>>), ShortTime)
  /\ UNCHANGED <<protected, flexRam, partition, cache>>

Advance(n) ==
  /\ remaining # 0
  /\ IF n >= remaining
     THEN /\ remaining' = 0
          /\ busy' = {}
          /\ status' = status \cup {"CCIF"}
          /\ interrupts' = Lines(status', enables)
     ELSE /\ remaining' = remaining - n
          /\ UNCHANGED <<busy, status, interrupts>>
  /\ UNCHANGED <<part, array, dataWord, configCopy, protected, enables, swap, flexRam,
                 partition, masters, cache>>

\* Other writes to the registers.
ClearStatus(flags) ==
  /\ flags \subseteq status \cap {"RDCOLERR", "ACCERR", "FPVIOL"}
  /\ status' = status \ flags
  /\ interrupts' = Lines(status', enables)
  /\ UNCHANGED <<part, array, dataWord, configCopy, protected, enables, remaining, busy, swap,
                 flexRam, partition, masters, cache>>

WriteFcnfg(flags) ==
  /\ enables' = flags
  /\ interrupts' = Lines(status, flags)
  /\ UNCHANGED <<part, array, dataWord, configCopy, protected, status, remaining, busy, swap,
                 flexRam, partition, masters, cache>>

\* Protection is only ever added, and not while a command runs.
WriteProtection(places) ==
  /\ "CCIF" \in status
  /\ places \subseteq Available
  /\ protected' = protected \cup places
  /\ UNCHANGED <<part, array, dataWord, configCopy, status, enables, interrupts, remaining, busy,
                 swap, flexRam, partition, masters, cache>>

WriteFlexRam(w) ==
  /\ HasFlexRam
  /\ flexRam' = [flexRam EXCEPT !.word = w]
  /\ UNCHANGED <<part, array, dataWord, configCopy, protected, status, enables, interrupts,
                 remaining, busy, swap, partition, masters, cache>>

WriteAccess(allowed) ==
  /\ masters' = allowed
  /\ UNCHANGED <<part, array, dataWord, configCopy, protected, status, enables, interrupts,
                 remaining, busy, swap, flexRam, partition, cache>>

WriteCacheControl(mode, locked, enabled, ways) ==
  /\ cache' = [Cleared(cache, ways) EXCEPT !.mode = mode, !.locked = locked, !.enabled = enabled]
  /\ UNCHANGED <<part, array, dataWord, configCopy, protected, status, enables, interrupts,
                 remaining, busy, swap, flexRam, partition, masters>>

Collides(p) == remaining # 0 /\ p \in busy

\* A read of the array by the core, by the DMA controller or by a debugger.
ReadArray(kind, p) ==
  /\ p \in ProgramPlaces \cup {q \in {DataPlace} : part.data}
  /\ IF Collides(p)
     THEN /\ status' = status \cup {"RDCOLERR"}
          /\ interrupts' = Lines(status', enables)
          /\ UNCHANGED cache
     ELSE /\ cache' = IF <<BankOf(p), kind>> \in cache.enabled
                      THEN AfterRead(cache, kind, p, WordAt(p)) ELSE cache
          /\ UNCHANGED <<status, interrupts>>
  /\ UNCHANGED <<part, array, dataWord, configCopy, protected, enables, remaining, busy, swap,
                 flexRam, partition, masters>>

Fetch(p) == 0 \in masters /\ ReadArray("INSTRUCTION", p)
ReadData(m, p) == m \in masters \cap {1, 2} /\ ReadArray("DATA", p)
DebugRead(p) == ReadArray("DEBUG", p)

\* A debugger writes a place past the controller; the copy of the configuration stays.
DebugWriteOnly(p, w) ==  \* mutant: the line is not made invalid
  /\ p \in ProgramPlaces \cup {q \in {DataPlace} : part.data}
  /\ array' = IF p = DataPlace THEN array ELSE [array EXCEPT ![Physical(p)] = w]
  /\ dataWord' = IF p = DataPlace THEN w ELSE dataWord
  /\ UNCHANGED <<part, configCopy, protected, status, enables, interrupts, remaining, busy, swap,
                 flexRam, partition, masters, cache>>
DebugWrite(p, w) ==
  /\ p \in ProgramPlaces \cup {q \in {DataPlace} : part.data}
  /\ array' = IF p = DataPlace THEN array ELSE [array EXCEPT ![Physical(p)] = w]
  /\ dataWord' = IF p = DataPlace THEN w ELSE dataWord
  /\ cache' = Invalidated(cache, p)
  /\ UNCHANGED <<part, configCopy, protected, status, enables, interrupts, remaining, busy, swap,
                 flexRam, partition, masters>>

\* The host loads an image at physical places.
LoadImage(p, w) ==
  /\ array' = [array EXCEPT ![p] = w]
  /\ cache' = Cleared(cache, Ways)
  /\ configCopy' = array'[ConfigPlace]
  /\ protected' = Protects[configCopy']
  /\ UNCHANGED <<part, dataWord, status, enables, interrupts, remaining, busy, swap, flexRam,
                 partition, masters>>

Reset ==
  /\ configCopy' = array[ConfigPlace]
  /\ protected' = Protects[configCopy']
  /\ swap' = IF swap.mode = 4
             THEN [mode |-> 1, sector |-> swap.sector, current |-> swap.next, next |-> swap.next]
             ELSE swap
  /\ status' = {"CCIF"}
  /\ enables' = {} /\ interrupts' = {} /\ remaining' = 0 /\ busy' = {}
  /\ flexRam' = [word |-> Zero, eeprom |-> partition \in {"both", "eeprom"}]
  /\ masters' = {0, 1, 2}
  /\ cache' = StartCache
  /\ UNCHANGED <<part, array, dataWord, partition>>

FlashInit ==
  /\ part \in Parts
  /\ array = [q \in ProgramPlaces |-> Erased]
  /\ dataWord = Erased /\ configCopy = Erased /\ protected = Protects[Erased]
  /\ status = {"CCIF"} /\ enables = {} /\ interrupts = {} /\ remaining = 0 /\ busy = {}
  /\ swap = [mode |-> 0, sector |-> "none", current |-> 0, next |-> 0]
  /\ flexRam = [word |-> Zero, eeprom |-> FALSE]
  /\ partition = "none" /\ masters = {0, 1, 2} /\ cache = StartCache

In == Inputs[part]

Command ==
  \/ \E p \in In.places, w \in In.words : ProgramWord(p, w)
  \/ \E p \in In.places : ProgramSection(p)
  \/ \E p \in In.places : EraseSector(p)
  \/ \E p \in In.places : EraseBlock(p)
  \/ EraseAll
  \/ \E p \in In.places : ReadOnesSection(p)
  \/ \E p \in In.places : ReadOnesBlock(p)
  \/ ReadOnesAll
  \/ \E p \in In.places, w \in In.words : ProgramCheck(p, w)
  \/ \E valid \in BOOLEAN, p \in In.places : OtherCommand(valid, p)
  \/ \E k \in {"data", "both", "eeprom"} : Partition(k)
  \/ \E eeprom \in BOOLEAN : SetFlexRam(eeprom)
  \/ SwapControl

RegisterWrite ==
  \/ \E flags \in SUBSET {"RDCOLERR", "ACCERR", "FPVIOL"} : ClearStatus(flags)
  \/ \E flags \in In.enables : WriteFcnfg(flags)
  \/ \E places \in In.protection : WriteProtection(places)
  \/ \E w \in In.words : WriteFlexRam(w)
  \/ \E allowed \in In.access : WriteAccess(allowed)
  \/ \E c \in In.control : WriteCacheControl(c.mode, c.locked, c.enabled, c.ways)

Read ==
  \/ \E p \in In.reads : Fetch(p)
  \/ \E m \in {1, 2}, p \in In.reads : ReadData(m, p)
  \/ \E p \in In.reads : DebugRead(p)

FlashAdvance == \E n \in 1 .. LongTime : Advance(n)

FlashNext ==
  \/ Command
  \/ RegisterWrite
  \/ Read
  \/ FlashAdvance
  \/ \E p \in In.writes, w \in In.words \cup {Erased} : DebugWrite(p, w)
  \/ \E p \in In.images, w \in In.words \cup {Erased} : LoadImage(p, w)
  \/ Reset

FlashSpec == FlashInit /\ [][FlashNext]_flashVars

-----------------------------------------------------------------------------
(* Properties *)

Flags == {"CCIF", "RDCOLERR", "ACCERR", "FPVIOL", "MGSTAT0"}

\* The type invariant of the controller and its cache (memory/internal.h, device.c).
FlashTypeOK ==
  /\ part \in [ftfe : BOOLEAN, halves : BOOLEAN, data : BOOLEAN, cached : BOOLEAN]
  /\ array \in [ProgramPlaces -> Words]
  /\ dataWord \in Words /\ configCopy \in Words
  /\ protected \subseteq Places /\ busy \subseteq Places
  /\ status \subseteq Flags
  /\ enables \subseteq {"CCIE", "RDCOLLIE"}
  /\ interrupts \subseteq {"FTFA", "COLLISION"}
  /\ remaining \in 0 .. LongTime
  /\ swap \in [mode : 0 .. 4, sector : SectorSet \cup {"none"}, current : {0, 1}, next : {0, 1}]
  /\ flexRam \in [word : Words, eeprom : BOOLEAN]
  /\ partition \in {"none", "data", "both", "eeprom"}
  /\ masters \subseteq {0, 1, 2}
  /\ cache \in [line : [Ways -> Places \cup {None}], word : [Ways -> Words \cup {None}],
                order : Seq(Ways), mode : 0 .. 7, locked : SUBSET Ways,
                enabled : SUBSET (Banks \X Kinds)]

CommandStep == "CCIF" \in status /\ "CCIF" \notin status'
WordAfter(p) == IF p = DataPlace THEN dataWord'
                ELSE array'[IF swap'.current = 1 THEN <<1 - p[1], p[2]>> ELSE p]

(* A command changes no protected place, and only places it then keeps busy, so
   that nobody reads an old word meanwhile; the indicator of a swap is written
   whatever protects it, and a new partition takes the data flash
   (flash_memory_range_protected, flash_execute, k22_data_flash_read). *)
ProtectedPlacesKept ==
  CommandStep /\ partition' = partition => \A p \in Places :
    WordAfter(p) # WordAt(p) =>
      /\ p \notin protected \/ (swap'.mode # swap.mode /\ p[2] = swap'.sector)
      /\ p \in busy'

(* The indicators tell where a swap stands, through erases of the other half,
   attempts to overwrite them, and resets at any moment: the step that ends in
   mode 4 is never reached with an indicator that says otherwise, so a reset
   swaps exactly when the sequence was completed (flash_swap_control,
   flash_swap_erased, flash_swap_range_protected, k22_data_reset). *)
SwapIndicatorsTell ==
  LET active == WordAt(Active)
      nonactive == WordAt(Nonactive)
  IN /\ swap.mode = 1 => nonactive = Done
     /\ swap.mode = 2 => active = Partly /\ nonactive = Done
     /\ swap.mode = 3 => active = Partly
     /\ swap.mode = 4 => active = Done /\ swap.next = 1 - swap.current
     /\ swap.mode # 4 => swap.next = swap.current

(* Programming turns no word that is not erased into another. Left out are the
   indicators of a swap; a part whose cache is on, where the controller's own reads
   go through the cache and may see an old line; and the configuration field while block 1 is the
   current one, whose copy was taken from the other block
   (flash_program_words, flash_program_buffer). *)
ErasedBeforeProgrammed ==
  CommandStep /\ ~part.cached =>
    \A p \in Places \ ({<<b, swap'.sector>> : b \in {0, 1}}
                       \cup {q \in {ConfigPlace} : swap.current = 1}) :
      WordAfter(p) \notin {WordAt(p), Erased} => WordAt(p) = Erased

(* The copy of the configuration that resets and commands use keeps up with the
   array while block 0 is the current one (flash_store, sync_flash_configuration). *)
ConfigurationFollows == swap.current = 0 => configCopy = array[ConfigPlace]

(* The lines stand for the flags and their enables after every write, command,
   collision, completion and reset (k22_data_internal_flash_update_interrupts). *)
FlashLinesInStep == interrupts = Lines(status, enables)

(* A busy controller is one whose command still runs, and nothing is busy after. *)
BusyWhileRunning == (remaining = 0 <=> "CCIF" \in status) /\ (remaining = 0 => busy = {})

(* A place is held by one way at most, and the order of use is that of the valid
   ways, whatever is locked, partitioned, invalidated or replaced
   (fmc_cached_byte, fmc_invalidate_line, apply_fmc_control). *)
OneWayPerPlace ==
  /\ \A v, w \in Ways : cache.line[v] = cache.line[w] /\ cache.line[v] # None => v = w
  /\ Range(cache.order) = {w \in Ways : cache.line[w] # None}
  /\ IsInjective(cache.order)

Stale(w) == cache.line[w] # None /\ cache.word[w] # WordAt(cache.line[w])
StaleAfter(w) == cache'.line[w] # None /\ cache'.word[w] # WordAfter(cache'.line[w])

(* A line stops agreeing with the array only by a command of the controller: a
   debugger's write, an image, and the reset that swaps the halves leave no old
   line behind (memory_write_unprotected, kinetis_k22_load, kinetis_k22_warm_reset). *)
OnlyCommandsLeaveOldLines ==
  ~CommandStep => \A w \in Ways : StaleAfter(w) => Stale(w)

(* A locked way keeps its line until it is made invalid: no miss replaces it, of
   an access of either kind or of the controller's own reads
   (fmc_replacement_way). *)
LockedWaysKept ==
  \A w \in cache.locked \cap cache'.locked :
    cache.line[w] # None /\ cache'.line[w] # cache.line[w] => cache'.line[w] = None

(* A flash command keeps what is protected, programs only what was erased, and keeps
   the places it changes busy until it ends; the indicators of a swap tell where it
   stands through resets; flags, lines and the copy of the configuration keep up
   (memory/flash.c). *)
FlashHonest ==
  /\ [](SwapIndicatorsTell /\ ConfigurationFollows /\ FlashLinesInStep /\ BusyWhileRunning)
  /\ [][ProtectedPlacesKept /\ ErasedBeforeProgrammed]_flashVars

(* The flash cache holds a place once, keeps what is locked, and comes to differ
   from the array by a command of the controller only (device.c). *)
CacheHonest ==
  /\ []OneWayPerPlace
  /\ [][OnlyCommandsLeaveOldLines /\ LockedWaysKept]_flashVars
=============================================================================
