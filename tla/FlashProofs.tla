----------------------------- MODULE FlashProofs -----------------------------
(***************************************************************************)
(* Theorems about the flash controller: what a command keeps and changes,    *)
(* and where a swap stands, for every geometry, every set of words and every *)
(* way the firmware uses the registers.                                      *)
(***************************************************************************)
EXTENDS FlashController, TLAPS

SwapStates == [mode : 0 .. 4, sector : SectorSet \cup {"none"}, current : {0, 1}, next : {0, 1}]

FlashTyped ==
  /\ part \in Parts
  /\ array \in [ProgramPlaces -> Words] /\ dataWord \in Words /\ configCopy \in Words
  /\ protected \subseteq Places
  /\ remaining \in 0 .. LongTime
  /\ swap \in SwapStates
  /\ flexRam.word \in Words

(* The strengthening: only a part that can swap does, before the first swap block 0 is
   the current one, an absent data flash is erased, and a cache turned off is off. *)
SwapPlaced ==
  /\ swap.mode = 0 => swap.current = 0
  /\ swap.mode # 0 => CanSwap /\ swap.sector \in SectorSet \ {"config"}
DataAbsent == ~part.data => dataWord = Erased
CacheOff == ~part.cached => "enabled" \in DOMAIN cache /\ cache.enabled = {}

FlashInv ==
  /\ FlashTyped /\ SwapPlaced /\ DataAbsent /\ CacheOff
  /\ SwapIndicatorsTell /\ ConfigurationFollows /\ FlashLinesInStep /\ BusyWhileRunning

(* What a command owes in its step. *)
Kept == ProtectedPlacesKept /\ ErasedBeforeProgrammed

-----------------------------------------------------------------------------
(* Places *)

LEMMA PartTyped ==
  ASSUME FlashTyped
  PROVE  /\ part.ftfe \in BOOLEAN /\ part.halves \in BOOLEAN /\ part.data \in BOOLEAN
         /\ part.cached \in BOOLEAN /\ In \in InputSets
         /\ ~part.cached => \A c \in In.control : c.enabled = {}
         /\ ConfigPlace \notin In.writes
         /\ CanSwap => \A p \in In.writes \cup In.images : p[2] = "config"
  BY FlashAssumption DEF FlashTyped, In, CanSwap

LEMMA PlacesApart ==
  /\ ConfigPlace \in ProgramPlaces /\ DataPlace \notin ProgramPlaces
  /\ \A p \in ProgramPlaces : p = <<p[1], p[2]>> /\ p[1] \in {0, 1} /\ p[2] \in SectorSet
  /\ \A s \in SectorSet : <<0, s>> \in ProgramPlaces /\ <<1, s>> \in ProgramPlaces
  BY FlashAssumption DEF ProgramPlaces, ConfigPlace, DataPlace

LEMMA Halves ==
  ASSUME swap.current \in {0, 1}
  PROVE  /\ \A p \in ProgramPlaces : Physical(p) \in ProgramPlaces
         /\ \A p \in ProgramPlaces, q \in Places : Physical(p) = Physical(q) => p = q
         /\ swap.current = 0 => \A p : Physical(p) = p
  <1>1. swap.current = 0 => \A p : Physical(p) = p
    BY DEF Physical
  <1>2. ASSUME NEW p \in ProgramPlaces PROVE Physical(p) \in ProgramPlaces
    BY PlacesApart DEF Physical
  <1>3. ASSUME NEW p \in ProgramPlaces, NEW q \in Places, Physical(p) = Physical(q)
        PROVE  p = q
    <2>1. CASE swap.current = 0
      BY <1>1, <1>3, <2>1
    <2>2. CASE swap.current = 1
      <3>1. Physical(p) = <<1 - p[1], p[2]>> /\ Physical(q) = <<1 - q[1], q[2]>>
        BY <2>2 DEF Physical
      <3>0. <<1 - p[1], p[2]>> = <<1 - q[1], q[2]>>
        BY <1>3, <3>1
      <3>2. 1 - p[1] = 1 - q[1] /\ p[2] = q[2]
        BY <3>0
      <3>3. CASE q = DataPlace
        BY <3>2, <3>3, PlacesApart DEF DataPlace
      <3>4. CASE q \in ProgramPlaces
        BY <3>2, <3>4, PlacesApart
      <3> QED  BY <3>3, <3>4 DEF Places
    <2> QED  BY <2>1, <2>2
  <1> QED  BY <1>1, <1>2, <1>3

LEMMA Blocks ==
  ASSUME FlashTyped, NEW p \in Available
  PROVE  p \in Places /\ p \in BlockOf(p) /\ BlockOf(p) \subseteq Available
         /\ Available \subseteq Places
         /\ \A q \in BlockOf(p) : BlockOf(q) = BlockOf(p)
  <1>1. CASE p = DataPlace
    BY <1>1, PlacesApart DEF Available, Places, BlockOf, DataPlaces
  <1>2. CASE p # DataPlace
    <2>1. p \in ProgramPlaces
      BY <1>2 DEF Available, DataPlaces
    <2>2. BlockOf(p) = IF part.halves THEN {p[1]} \X SectorSet ELSE ProgramPlaces
      BY <1>2, <2>1 DEF BlockOf
    <2>3. {p[1]} \X SectorSet \subseteq ProgramPlaces /\ p \in {p[1]} \X SectorSet
      BY <2>1, PlacesApart DEF ProgramPlaces
    <2>4. \A q \in {p[1]} \X SectorSet : q[1] = p[1]
      OBVIOUS
    <2>5. \A q \in BlockOf(p) : BlockOf(q) = BlockOf(p)
      BY <2>2, <2>3, <2>4, PlacesApart DEF BlockOf
    <2> QED  BY <2>1, <2>2, <2>3, <2>5 DEF Available, Places, DataPlaces
  <1> QED  BY <1>1, <1>2

(* The word of a place after a step. *)
LEMMA WordAtNext ==
  ASSUME NEW p
  PROVE  (p = DataPlace => WordAt(p)' = dataWord')
         /\ (p # DataPlace => WordAt(p)' = array'[IF swap'.current = 1 THEN <<1 - p[1], p[2]>> ELSE p])
         /\ WordAt(p)' = WordAfter(p)
  BY DEF WordAt, WordAfter, Physical

(* The controller's own write of places. *)
LEMMA Stored ==
  ASSUME FlashTyped, NEW places \in SUBSET Places, NEW w \in Words, Store(places, w),
         swap'.current = swap.current
  PROVE  /\ array' \in [ProgramPlaces -> Words] /\ dataWord' \in Words /\ configCopy' \in Words
         /\ \A p \in Places : WordAfter(p) = IF p \in places THEN w ELSE WordAt(p)
         /\ swap.current = 0 =>
              array'[ConfigPlace] = IF ConfigPlace \in places THEN w ELSE array[ConfigPlace]
         /\ configCopy' = IF ConfigPlace \in places THEN w ELSE configCopy
         /\ dataWord' = IF DataPlace \in places THEN w ELSE dataWord
  <1>0. /\ swap.current \in {0, 1} /\ array \in [ProgramPlaces -> Words] /\ dataWord \in Words
        /\ configCopy \in Words
    BY DEF FlashTyped, SwapStates
  <1>1. /\ array' = [q \in ProgramPlaces |-> IF q \in {Physical(p) : p \in places} THEN w ELSE array[q]]
        /\ dataWord' = IF DataPlace \in places THEN w ELSE dataWord
        /\ configCopy' = IF ConfigPlace \in places THEN w ELSE configCopy
    BY DEF Store
  <1>2. array' \in [ProgramPlaces -> Words] /\ dataWord' \in Words /\ configCopy' \in Words
    BY <1>0, <1>1
  <1>3. ASSUME NEW p \in ProgramPlaces
        PROVE  array'[Physical(p)] = IF p \in places THEN w ELSE array[Physical(p)]
    <2>1. Physical(p) \in ProgramPlaces
      BY <1>0, Halves
    <2>2. Physical(p) \in {Physical(q) : q \in places} <=> p \in places
      BY <1>0, Halves
    <2> QED  BY <1>1, <2>1, <2>2
  <1>4. ASSUME NEW p \in Places
        PROVE  WordAfter(p) = IF p \in places THEN w ELSE WordAt(p)
    <2>1. CASE p = DataPlace
      BY <1>1, <2>1 DEF WordAfter, WordAt
    <2>2. CASE p # DataPlace
      <3>1. p \in ProgramPlaces
        BY <2>2 DEF Places
      <3>2. WordAfter(p) = array'[Physical(p)] /\ WordAt(p) = array[Physical(p)]
        BY <2>2 DEF WordAfter, WordAt, Physical
      <3> QED  BY <1>3, <3>1, <3>2
    <2> QED  BY <2>1, <2>2
  <1>5. swap.current = 0 =>
          array'[ConfigPlace] = IF ConfigPlace \in places THEN w ELSE array[ConfigPlace]
    BY <1>0, <1>3, Halves, PlacesApart
  <1> QED  BY <1>1, <1>2, <1>4, <1>5

-----------------------------------------------------------------------------
(* Commands *)

(* A command that was launched is busy, and the lines are right. *)
LEMMA LaunchTells ==
  ASSUME NEW valid, NEW guarded, NEW verify, NEW places, NEW time \in {ShortTime, LongTime},
         Launched(valid, guarded, verify, places, time)
  PROVE  /\ FlashLinesInStep' /\ BusyWhileRunning' /\ CommandStep
         /\ part' = part /\ remaining' \in 0 .. LongTime
         /\ valid /\ ~guarded => busy' = places
  <1>1. /\ "CCIF" \in status /\ interrupts' = Lines(status', enables) /\ enables' = enables
        /\ remaining' = time /\ part' = part /\ (valid /\ ~guarded => busy' = places)
    BY DEF Launched, Launchable
  <1>2. "CCIF" \notin status'
    <2>1. status' = (status \cap {"RDCOLERR"}) \cup
               (CASE guarded -> {"FPVIOL"} [] ~guarded /\ ~valid -> {"ACCERR"}
                  [] ~guarded /\ valid /\ verify -> {"MGSTAT0"} [] OTHER -> {})
      BY DEF Launched
    <2>2. CASE guarded
      BY <2>1, <2>2
    <2>3. CASE ~guarded /\ ~valid
      BY <2>1, <2>3
    <2>4. CASE ~guarded /\ valid /\ verify
      BY <2>1, <2>4
    <2>5. CASE ~guarded /\ valid /\ ~verify
      BY <2>1, <2>5
    <2> QED  BY <2>2, <2>3, <2>4, <2>5
  <1>3. remaining' \in 0 .. LongTime /\ remaining' # 0
    BY <1>1 DEF ShortTime, LongTime
  <1> QED  BY <1>1, <1>2, <1>3 DEF FlashLinesInStep, BusyWhileRunning, CommandStep

(* Where the places of the indicators are left alone, they tell what they told. *)
LEMMA IndicatorsKept ==
  ASSUME FlashInv, swap'= swap, part' = part,
         swap.mode # 0 => /\ WordAfter(Active) = WordAt(Active)
                          /\ WordAfter(Nonactive) = WordAt(Nonactive)
  PROVE  SwapIndicatorsTell' /\ SwapPlaced'
  <1>1. Active' = Active /\ Nonactive' = Nonactive
    BY DEF Active, Nonactive
  <1>2. WordAt(Active)' = WordAfter(Active) /\ WordAt(Nonactive)' = WordAfter(Nonactive)
    BY <1>1, WordAtNext
  <1>3. SwapPlaced'
    BY DEF FlashInv, SwapPlaced, CanSwap
  <1> QED  BY <1>2, <1>3 DEF FlashInv, SwapIndicatorsTell

(* Where no word changes, nothing is owed. *)
LEMMA WordsKept ==
  ASSUME FlashInv, UNCHANGED <<array, dataWord, configCopy, swap, part>>,
         protected' \subseteq Places, flexRam'.word \in Words, remaining' \in 0 .. LongTime,
         FlashLinesInStep', BusyWhileRunning', CacheOff'
  PROVE  FlashInv' /\ Kept
  <1>1. \A p : WordAfter(p) = WordAt(p)
    BY DEF WordAfter, WordAt, Physical
  <1>2. SwapIndicatorsTell' /\ SwapPlaced'
    BY <1>1, IndicatorsKept
  <1>3. FlashTyped' /\ DataAbsent' /\ ConfigurationFollows'
    BY DEF FlashInv, FlashTyped, DataAbsent, ConfigurationFollows
  <1>4. Kept
    BY <1>1 DEF Kept, ProtectedPlacesKept, ErasedBeforeProgrammed
  <1> QED  BY <1>2, <1>3, <1>4 DEF FlashInv

LEMMA NothingWritten ==
  ASSUME FlashInv, UNCHANGED <<array, dataWord, configCopy, swap, part, protected>>,
         flexRam'.word \in Words, remaining' \in 0 .. LongTime,
         FlashLinesInStep', BusyWhileRunning', CacheOff'
  PROVE  FlashInv' /\ Kept
  <1>1. protected' \subseteq Places
    BY DEF FlashInv, FlashTyped
  <1> QED  BY <1>1, WordsKept

(* What a command leaves of the cache that is off. *)
LEMMA OffLoads ==
  ASSUME FlashInv, ~part.cached, NEW p
  PROVE  Load(cache, p).cache = cache
  BY DEF FlashInv, CacheOff, Load

LEMMA LooksOnly ==
  ASSUME FlashInv,
         NEW valid, NEW verify, NEW block, NEW time \in {ShortTime, LongTime},
         Launched(valid, FALSE, verify, block, time),
         UNCHANGED <<array, dataWord, configCopy, protected, swap>>,
         flexRam'.word \in Words, ~part.cached => cache' = cache
  PROVE  FlashInv' /\ Kept
  <1>1. FlashLinesInStep' /\ BusyWhileRunning' /\ part' = part /\ remaining' \in 0 .. LongTime
    BY LaunchTells
  <1>2. CacheOff'
    BY <1>1 DEF FlashInv, CacheOff
  <1> QED  BY <1>1, <1>2, NothingWritten

LEMMA ErasedIsAWord == Erased \in Words /\ Partly \in Words /\ Done \in Words
  BY DEF Words

LEMMA CheckKeeps ==
  ASSUME FlashInv, NEW places, NEW valid, NEW block, Check(places, valid, block)
  PROVE  FlashInv' /\ Kept
  <1> DEFINE read == IF valid THEN LoadAll(cache, InOrder(places)) ELSE [word |-> Erased, cache |-> cache]
  <1>1. /\ Launched(valid, FALSE, read.word # Erased, block, ShortTime)
        /\ UNCHANGED <<array, dataWord, configCopy, protected, swap, flexRam>>
        /\ cache' = IF <<0, "DATA">> \in cache.enabled THEN read.cache ELSE cache
    BY DEF Check
  <1> HIDE DEF read
  <1>2. ~part.cached => cache' = cache
    BY <1>1 DEF FlashInv, CacheOff
  <1>3. flexRam'.word \in Words
    BY <1>1 DEF FlashInv, FlashTyped
  <1> QED  BY <1>1, <1>2, <1>3, LooksOnly

LEMMA ProgramCheckKeeps ==
  ASSUME FlashInv, NEW p, NEW w, ProgramCheck(p, w)
  PROVE  FlashInv' /\ Kept
  <1> DEFINE read == IF p \in Available THEN Load(cache, p) ELSE [word |-> w, cache |-> cache]
  <1>1. /\ Launched(p \in Available, FALSE, read.word # w, BlockOf(p), ShortTime)
        /\ UNCHANGED <<array, dataWord, configCopy, protected, swap, flexRam>>
        /\ cache' = read.cache
    BY DEF ProgramCheck
  <1>2. ~part.cached => cache' = cache
    BY <1>1, OffLoads
  <1>3. flexRam'.word \in Words
    BY <1>1 DEF FlashInv, FlashTyped
  <1> HIDE DEF read
  <1> QED  BY <1>1, <1>2, <1>3, LooksOnly

LEMMA OthersKeep ==
  ASSUME FlashInv,
         \/ \E valid \in BOOLEAN, p \in In.places : OtherCommand(valid, p)
         \/ \E eeprom \in BOOLEAN : SetFlexRam(eeprom)
  PROVE  FlashInv' /\ Kept
  <1>1. ASSUME NEW valid \in BOOLEAN, NEW p, OtherCommand(valid, p)
        PROVE  FlashInv' /\ Kept
    <2>1. /\ Launched(valid, FALSE, FALSE, BlockOf(p), ShortTime)
          /\ UNCHANGED <<array, dataWord, configCopy, protected, swap, flexRam>> /\ cache' = cache
      BY <1>1 DEF OtherCommand
    <2>2. flexRam'.word \in Words
      BY <2>1 DEF FlashInv, FlashTyped
    <2> QED  BY <2>1, <2>2, LooksOnly
  <1>2. ASSUME NEW eeprom \in BOOLEAN, SetFlexRam(eeprom)
        PROVE  FlashInv' /\ Kept
    <2> DEFINE valid == HasFlexRam /\ (eeprom => partition # "none")
    <2>1. /\ Launched(valid, FALSE, FALSE, DataPlaces(part, partition), ShortTime)
          /\ UNCHANGED <<array, dataWord, configCopy, protected, swap>> /\ cache' = cache
          /\ flexRam' = IF valid THEN [word |-> Erased, eeprom |-> eeprom] ELSE flexRam
      BY <1>2 DEF SetFlexRam
    <2>2. flexRam'.word \in Words
      BY <2>1, ErasedIsAWord DEF FlashInv, FlashTyped
    <2> HIDE DEF valid
    <2> QED  BY <2>1, <2>2, LooksOnly
  <1> QED  BY <1>1, <1>2

(* A new partition takes the data flash, and nothing else. *)
LEMMA PartitionKeeps ==
  ASSUME FlashInv, NEW k \in {"data", "both", "eeprom"}, Partition(k)
  PROVE  FlashInv' /\ Kept
  <1> DEFINE valid == part.ftfe /\ part.data /\ partition = "none"
  <1>1. /\ Launched(valid, FALSE, FALSE, DataPlaces(part, k), LongTime)
        /\ UNCHANGED <<array, configCopy, protected, swap, cache>>
        /\ flexRam' = IF valid THEN [word |-> Erased, eeprom |-> k # "data"] ELSE flexRam
        /\ dataWord' = IF valid THEN Erased ELSE dataWord
        /\ partition' = IF valid THEN k ELSE partition
    BY DEF Partition
  <1>2. FlashLinesInStep' /\ BusyWhileRunning' /\ part' = part /\ remaining' \in 0 .. LongTime
    BY <1>1, LaunchTells
  <1>3. flexRam'.word \in Words
    BY <1>1, ErasedIsAWord DEF FlashInv, FlashTyped
  <1>4. CASE ~valid
    <2>1. ~part.cached => cache' = cache
      BY <1>1
    <2> QED  BY <1>1, <1>3, <1>4, <2>1, LooksOnly
  <1>5. CASE valid
    <2>1. \A p : p # DataPlace => WordAfter(p) = WordAt(p)
      BY <1>1 DEF WordAfter, WordAt, Physical
    <2>2. WordAfter(DataPlace) = Erased /\ partition' # partition
      BY <1>1, <1>5 DEF WordAfter
    <2>3. Kept
      BY <2>1, <2>2 DEF Kept, ProtectedPlacesKept, ErasedBeforeProgrammed
    <2>4. Active # DataPlace /\ Nonactive # DataPlace
      BY DEF Active, Nonactive, DataPlace
    <2>5. SwapIndicatorsTell' /\ SwapPlaced'
      BY <1>1, <1>2, <2>1, <2>4, IndicatorsKept
    <2>6. FlashTyped'
      BY <1>1, <1>2, <1>3, <1>5, ErasedIsAWord DEF FlashInv, FlashTyped
    <2>7. DataAbsent' /\ CacheOff' /\ ConfigurationFollows'
      BY <1>1, <1>2, <1>5 DEF FlashInv, DataAbsent, CacheOff, ConfigurationFollows
    <2> QED  BY <1>2, <2>3, <2>5, <2>6, <2>7 DEF FlashInv
  <1> QED  BY <1>4, <1>5

(* What a command finds erased in a part without a cache is erased, but for the
   configuration of a half that is not the one it was copied from. *)
LEMMA LoadTells ==
  ASSUME FlashInv, ~part.cached, NEW p \in Places, Load(cache, p).word = Erased
  PROVE  WordAt(p) = Erased \/ (p = ConfigPlace /\ swap.current = 1)
  <1>0. Denied # Erased /\ swap.current \in {0, 1}
    BY FlashAssumption DEF Words, FlashInv, FlashTyped, SwapStates
  <1>1. CASE p = ConfigPlace
    <2>0. Load(cache, p) = [word |-> configCopy, cache |-> cache]
      BY <1>1, PlacesApart DEF Load
    <2>1. configCopy = Erased
      BY <2>0
    <2>2. swap.current = 0 => WordAt(p) = array[ConfigPlace]
      BY <1>1 DEF WordAt, Physical, ConfigPlace, DataPlace
    <2> QED  BY <1>0, <1>1, <2>1, <2>2 DEF FlashInv, ConfigurationFollows
  <1>2. CASE p = DataPlace
    <2>1. Load(cache, p) = [word |-> dataWord, cache |-> cache]
      BY <1>2, PlacesApart DEF Load
    <2> QED  BY <1>2, <2>1 DEF WordAt
  <1>3. CASE p # ConfigPlace /\ p # DataPlace
    BY <1>0, <1>3 DEF Load, FlashInv, CacheOff
  <1> QED  BY <1>1, <1>2, <1>3

LEMMA ProgramKeeps ==
  ASSUME FlashInv, NEW p, NEW w \in Words, Program(p, w)
  PROVE  FlashInv' /\ Kept
  <1> DEFINE tried == p \in Available /\ ~Guarded({p}, FALSE)
             read == IF tried THEN Load(cache, p) ELSE [word |-> Erased, cache |-> cache]
             places == IF tried /\ read.word = Erased THEN {p} ELSE {}
             valid == p \in Available /\ read.word # Denied
             guarded == p \in Available /\ ~tried
  <1>0. FlashTyped /\ Erased # Denied
    BY FlashAssumption DEF FlashInv, Words
  <1>1. /\ Store(places, w) /\ cache' = read.cache
        /\ Launched(valid, guarded, read.word # Erased, BlockOf(p), ShortTime)
        /\ UNCHANGED <<protected, swap, flexRam, partition>>
    BY DEF Program
  <1>2. /\ FlashLinesInStep' /\ BusyWhileRunning' /\ part' = part /\ remaining' \in 0 .. LongTime
        /\ valid /\ ~guarded => busy' = BlockOf(p)
    <2> HIDE DEF valid, guarded, read
    <2> QED  BY <1>1, LaunchTells
  <1>3. places \in SUBSET Places /\ (places # {} => places = {p} /\ tried)
    BY <1>0, Blocks
  <1>4. /\ array' \in [ProgramPlaces -> Words] /\ dataWord' \in Words /\ configCopy' \in Words
        /\ \A q \in Places : WordAfter(q) = IF q \in places THEN w ELSE WordAt(q)
        /\ swap.current = 0 =>
             array'[ConfigPlace] = IF ConfigPlace \in places THEN w ELSE array[ConfigPlace]
        /\ configCopy' = IF ConfigPlace \in places THEN w ELSE configCopy
        /\ dataWord' = IF DataPlace \in places THEN w ELSE dataWord
    <2> HIDE DEF places
    <2> QED  BY <1>0, <1>1, <1>3, Stored
  <1>5. tried => p \notin protected /\ (swap.mode # 0 => p # Active /\ p # Nonactive)
    BY DEF Guarded, SwapProtected
  <1>6. DataPlace \in places => part.data
    BY <1>3, PlacesApart DEF Available, DataPlaces
  <1>7. ~part.cached => read.cache = cache
    BY OffLoads
  <1>8. tried /\ read.word = Erased => valid /\ ~guarded
    BY <1>0
  <1>9. ~part.cached /\ places # {} => WordAt(p) = Erased \/ (p = ConfigPlace /\ swap.current = 1)
    BY <1>0, <1>3, LoadTells, Blocks
  <1>10. tried => p \in BlockOf(p)
    BY <1>0, Blocks
  <1>11. places # {} => busy' = BlockOf(p)
    BY <1>2, <1>3, <1>8
  <1> HIDE DEF read, valid, guarded, places
  <1>12. Kept
    <2>1. ProtectedPlacesKept
      BY <1>3, <1>4, <1>5, <1>10, <1>11 DEF ProtectedPlacesKept
    <2>2. ErasedBeforeProgrammed
      BY <1>3, <1>4, <1>9 DEF ErasedBeforeProgrammed
    <2> QED  BY <2>1, <2>2 DEF Kept
  <1>13. SwapIndicatorsTell' /\ SwapPlaced'
    <2>1. swap.mode # 0 => Active \in Places /\ Nonactive \in Places
      BY PlacesApart DEF FlashInv, SwapPlaced, Active, Nonactive, Places
    <2>2. swap.mode # 0 => WordAfter(Active) = WordAt(Active) /\ WordAfter(Nonactive) = WordAt(Nonactive)
      BY <1>3, <1>4, <1>5, <2>1
    <2> QED  BY <1>1, <1>2, <2>2, IndicatorsKept
  <1>14. FlashTyped'
    BY <1>0, <1>1, <1>2, <1>4 DEF FlashTyped
  <1>15. DataAbsent' /\ ConfigurationFollows'
    BY <1>1, <1>2, <1>4, <1>6 DEF FlashInv, DataAbsent, ConfigurationFollows
  <1>16. CacheOff'
    BY <1>1, <1>2, <1>7 DEF FlashInv, CacheOff
  <1> QED  BY <1>2, <1>12, <1>13, <1>14, <1>15, <1>16 DEF FlashInv

(* An erase spares the indicator of the half in use; that of the other half may go
   while the sequence does not rest on it. *)
LEMMA EraseKeeps ==
  ASSUME FlashInv, NEW places, NEW valid \in BOOLEAN, Erase(places, valid),
         valid => /\ places \subseteq Places /\ (DataPlace \in places => part.data)
                  /\ places # {} /\ \A q \in places : places \subseteq BlockOf(q)
  PROVE  FlashInv' /\ Kept
  <1> DEFINE guarded == valid /\ Guarded(places, TRUE)
             taken == IF valid /\ ~guarded THEN places ELSE {}
             block == BlockOf(CHOOSE p \in places : TRUE)
  <1>0. FlashTyped
    BY DEF FlashInv
  <1>1. /\ Store(taken, Erased)
        /\ swap' = IF valid /\ ~guarded /\ swap.mode = 2 /\ Nonactive \in places
                   THEN [swap EXCEPT !.mode = 3] ELSE swap
        /\ Launched(valid, guarded, FALSE, block, LongTime)
        /\ UNCHANGED <<protected, flexRam, partition, cache>>
    BY DEF Erase
  <1>2. /\ FlashLinesInStep' /\ BusyWhileRunning' /\ part' = part /\ remaining' \in 0 .. LongTime
        /\ valid /\ ~guarded => busy' = block
    <2> DEFINE no == FALSE
    <2>1. Launched(valid, guarded, no, block, LongTime)
      BY <1>1
    <2> HIDE DEF guarded, block, no
    <2> QED  BY <2>1, LaunchTells
  <1>3. /\ taken \in SUBSET Places /\ (taken # {} => taken = places /\ valid /\ ~guarded)
        /\ (DataPlace \in taken => part.data)
    OBVIOUS
  <1>4. swap \in SwapStates /\ swap' \in SwapStates /\ swap'.current = swap.current
        /\ swap'.sector = swap.sector /\ swap'.next = swap.next
    <2>1. swap \in SwapStates /\ [swap EXCEPT !.mode = 3] \in SwapStates
          /\ [swap EXCEPT !.mode = 3].current = swap.current
          /\ [swap EXCEPT !.mode = 3].sector = swap.sector
          /\ [swap EXCEPT !.mode = 3].next = swap.next
      BY <1>0 DEF FlashTyped, SwapStates
    <2>2. swap' = swap \/ swap' = [swap EXCEPT !.mode = 3]
      BY <1>1
    <2> QED  BY <2>1, <2>2
  <1>5. /\ array' \in [ProgramPlaces -> Words] /\ dataWord' \in Words /\ configCopy' \in Words
        /\ \A q \in Places : WordAfter(q) = IF q \in taken THEN Erased ELSE WordAt(q)
        /\ swap.current = 0 =>
             array'[ConfigPlace] = IF ConfigPlace \in taken THEN Erased ELSE array[ConfigPlace]
        /\ configCopy' = IF ConfigPlace \in taken THEN Erased ELSE configCopy
        /\ dataWord' = IF DataPlace \in taken THEN Erased ELSE dataWord
    <2> HIDE DEF taken
    <2> QED  BY <1>0, <1>1, <1>3, <1>4, ErasedIsAWord, Stored
  <1>6. taken # {} => /\ places \cap protected = {}
                      /\ swap.mode # 0 => /\ Active \notin places
                                          /\ swap.mode \notin {2, 3} => Nonactive \notin places
    BY DEF Guarded, SwapProtected
  <1>7. taken # {} => taken \subseteq busy'
    BY <1>2
  <1>8. swap.mode # 2 \/ Nonactive \notin taken => swap' = swap
    BY <1>1
  <1>9. swap.mode = 2 /\ Nonactive \in taken => swap'.mode = 3
    BY <1>1, <1>4 DEF SwapStates
  <1> HIDE DEF guarded, taken, block
  <1>10. Kept
    <2>1. ProtectedPlacesKept
      BY <1>3, <1>5, <1>6, <1>7 DEF ProtectedPlacesKept
    <2>2. ErasedBeforeProgrammed
      BY <1>5 DEF ErasedBeforeProgrammed
    <2> QED  BY <2>1, <2>2 DEF Kept
  <1>11. SwapPlaced'
    BY <1>1, <1>2, <1>4, <1>8, <1>9 DEF FlashInv, SwapPlaced, CanSwap
  <1>12. SwapIndicatorsTell'
    <2>1. swap.mode # 0 => Active \in Places /\ Nonactive \in Places
      BY PlacesApart DEF FlashInv, SwapPlaced, Active, Nonactive, Places
    <2>2. Active' = Active /\ Nonactive' = Nonactive
      BY <1>4 DEF Active, Nonactive
    <2>3. WordAt(Active)' = WordAfter(Active) /\ WordAt(Nonactive)' = WordAfter(Nonactive)
      BY <2>2, WordAtNext
    <2>4. swap.mode # 0 => WordAfter(Active) = WordAt(Active)
      BY <1>3, <1>5, <1>6, <2>1
    <2>5. swap.mode \notin {0, 3} /\ Nonactive \notin taken => WordAfter(Nonactive) = WordAt(Nonactive)
      BY <1>5, <2>1
    <2>6. swap.mode \notin {0, 2, 3} => Nonactive \notin taken
      BY <1>3, <1>6
    <2>7. CASE swap.mode = 2 /\ Nonactive \in taken
      BY <1>4, <1>9, <2>3, <2>4, <2>7 DEF FlashInv, SwapIndicatorsTell
    <2>8. CASE ~(swap.mode = 2 /\ Nonactive \in taken)
      BY <1>8, <2>3, <2>4, <2>5, <2>6, <2>8 DEF FlashInv, SwapIndicatorsTell
    <2> QED  BY <2>7, <2>8
  <1>13. FlashTyped'
    BY <1>0, <1>1, <1>2, <1>4, <1>5 DEF FlashTyped
  <1>14. DataAbsent' /\ ConfigurationFollows'
    BY <1>2, <1>3, <1>4, <1>5 DEF FlashInv, DataAbsent, ConfigurationFollows
  <1>15. CacheOff'
    BY <1>1, <1>2 DEF FlashInv, CacheOff
  <1> QED  BY <1>2, <1>10, <1>11, <1>12, <1>13, <1>14, <1>15 DEF FlashInv

LEMMA ErasesKeep ==
  ASSUME FlashInv, NEW p, EraseSector(p) \/ EraseBlock(p)
  PROVE  FlashInv' /\ Kept
  <1>0. FlashTyped
    BY DEF FlashInv
  <1>1. DataPlace \in Available => part.data
    BY PlacesApart DEF Available, DataPlaces
  <1>2. CASE EraseSector(p)
    <2>1. Erase({p}, p \in Available)
      BY <1>2 DEF EraseSector
    <2>2. p \in Available => {p} \subseteq Places /\ (DataPlace \in {p} => part.data)
                             /\ \A q \in {p} : {p} \subseteq BlockOf(q)
      BY <1>0, <1>1, Blocks
    <2>3. (p \in Available) \in BOOLEAN /\ {p} # {}
      OBVIOUS
    <2> QED  BY <2>1, <2>2, <2>3, EraseKeeps
  <1>3. CASE EraseBlock(p)
    <2> DEFINE places == IF p \in Available THEN BlockOf(p) ELSE {p}
    <2>1. Erase(places, BlockCommand(p))
      BY <1>3 DEF EraseBlock
    <2>2. BlockCommand(p) \in BOOLEAN /\ (BlockCommand(p) => p \in Available)
      BY DEF BlockCommand
    <2>3. p \in Available => /\ BlockOf(p) \subseteq Places /\ (DataPlace \in BlockOf(p) => part.data)
                             /\ p \in BlockOf(p)
                             /\ \A q \in BlockOf(p) : BlockOf(q) = BlockOf(p)
      BY <1>0, <1>1, Blocks
    <2>4. BlockCommand(p) => /\ places \subseteq Places /\ (DataPlace \in places => part.data)
                             /\ places # {} /\ \A q \in places : places \subseteq BlockOf(q)
      BY <2>2, <2>3
    <2> HIDE DEF places
    <2> QED  BY <2>1, <2>2, <2>4, EraseKeeps
  <1> QED  BY <1>2, <1>3

LEMMA EraseAllKeeps ==
  ASSUME FlashInv, EraseAll
  PROVE  FlashInv' /\ Kept
  <1> DEFINE guarded == protected \cap (ProgramPlaces \cup {q \in {DataPlace} : part.data}) # {}
  <1>0. FlashTyped /\ Erased \in Words
    BY ErasedIsAWord DEF FlashInv
  <1>1. /\ IF guarded THEN UNCHANGED <<array, dataWord, configCopy, swap, flexRam, partition>>
           ELSE /\ Store(ProgramPlaces \cup {DataPlace}, Erased)
                /\ swap' = [mode |-> 0, sector |-> "none", current |-> 0, next |-> 0]
                /\ flexRam' = [word |-> Erased, eeprom |-> FALSE]
                /\ partition' = "none"
        /\ Launched(TRUE, guarded, FALSE, Places, LongTime)
        /\ UNCHANGED <<protected, cache>>
    BY DEF EraseAll
  <1>2. /\ FlashLinesInStep' /\ BusyWhileRunning' /\ part' = part /\ remaining' \in 0 .. LongTime
        /\ ~guarded => busy' = Places
    <2> DEFINE yes == TRUE
               no == FALSE
    <2>1. Launched(yes, guarded, no, Places, LongTime)
      BY <1>1
    <2> HIDE DEF guarded, yes, no
    <2>2. /\ FlashLinesInStep' /\ BusyWhileRunning' /\ part' = part /\ remaining' \in 0 .. LongTime
          /\ yes /\ ~guarded => busy' = Places
      BY <2>1, LaunchTells
    <2> QED  BY <2>2 DEF yes
  <1>3. CacheOff'
    BY <1>1, <1>2 DEF FlashInv, CacheOff
  <1>4. CASE guarded
    <2>1. flexRam'.word \in Words
      BY <1>0, <1>1, <1>4 DEF FlashTyped
    <2> QED  BY <1>1, <1>2, <1>3, <1>4, <2>1, NothingWritten
  <1>5. CASE ~guarded
    <2>0. swap.current \in {0, 1} /\ protected \subseteq Places
      BY <1>0 DEF FlashTyped, SwapStates
    <2>1. \A q \in ProgramPlaces : \E p \in ProgramPlaces : Physical(p) = q
      <3>1. SUFFICES ASSUME NEW q \in ProgramPlaces
                     PROVE  Physical(q) \in ProgramPlaces /\ Physical(Physical(q)) = q
        OBVIOUS
      <3>2. Physical(q) \in ProgramPlaces
        BY <2>0, Halves
      <3>3. CASE swap.current = 0
        BY <3>3, <2>0, <3>2, Halves
      <3>4. CASE swap.current = 1
        <4>1. Physical(q) = <<1 - q[1], q[2]>>
          BY <3>4 DEF Physical
        <4>2. Physical(Physical(q)) = <<1 - (1 - q[1]), q[2]>>
          BY <3>4, <4>1 DEF Physical
        <4>3. q = <<q[1], q[2]>> /\ q[1] \in {0, 1}
          BY PlacesApart
        <4> QED  BY <3>2, <4>2, <4>3
      <3> QED  BY <2>0, <3>3, <3>4
    <2>2. array' = [q \in ProgramPlaces |-> Erased] /\ dataWord' = Erased /\ configCopy' = Erased
      <3>1. /\ array' = [q \in ProgramPlaces |-> IF q \in {Physical(p) : p \in ProgramPlaces \cup {DataPlace}}
                                                 THEN Erased ELSE array[q]]
            /\ dataWord' = IF DataPlace \in ProgramPlaces \cup {DataPlace} THEN Erased ELSE dataWord
            /\ configCopy' = IF ConfigPlace \in ProgramPlaces \cup {DataPlace} THEN Erased ELSE configCopy
        BY <1>1, <1>5 DEF Store
      <3>2. \A q \in ProgramPlaces : q \in {Physical(p) : p \in ProgramPlaces \cup {DataPlace}}
        BY <2>1
      <3> QED  BY <3>1, <3>2, PlacesApart
    <2>3. swap' = [mode |-> 0, sector |-> "none", current |-> 0, next |-> 0] /\ flexRam'.word = Erased
      BY <1>1, <1>5
    <2>4. \A p \in Places : WordAfter(p) = Erased
      BY <2>2, <2>3 DEF WordAfter, Places
    <2>5. \A p \in Places : WordAfter(p) # WordAt(p) => p \notin protected
      <3>1. \A p \in Places \cap protected : p = DataPlace /\ ~part.data
        BY <1>5 DEF Places
      <3>2. ~part.data => WordAt(DataPlace) = Erased
        BY DEF FlashInv, DataAbsent, WordAt
      <3>3. DataPlace \in Places => WordAfter(DataPlace) = Erased
        BY <2>4
      <3> QED  BY <3>1, <3>2, <3>3
    <2>6. Kept
      <3>1. ProtectedPlacesKept
        BY <1>2, <1>5, <2>5 DEF ProtectedPlacesKept
      <3>2. ErasedBeforeProgrammed
        BY <2>4 DEF ErasedBeforeProgrammed
      <3> QED  BY <3>1, <3>2 DEF Kept
    <2>7. SwapPlaced' /\ SwapIndicatorsTell'
      BY <2>3 DEF SwapPlaced, SwapIndicatorsTell
    <2>8. swap' \in SwapStates
      BY <2>3 DEF SwapStates
    <2>9. FlashTyped'
      BY <1>0, <1>1, <1>2, <2>2, <2>3, <2>8 DEF FlashTyped
    <2>10. DataAbsent' /\ ConfigurationFollows'
      BY <2>2, PlacesApart DEF DataAbsent, ConfigurationFollows
    <2> QED  BY <1>2, <1>3, <2>6, <2>7, <2>9, <2>10 DEF FlashInv
  <1> QED  BY <1>4, <1>5

(* A swap command writes one indicator, and the next mode is the one it then tells. *)
LEMMA SwapKeeps ==
  ASSUME FlashInv, SwapControl
  PROVE  FlashInv' /\ Kept
  <1> DEFINE place == <<0, swap'.sector>>
             word == IF swap.mode = 3 THEN Done ELSE Partly
             block == BlockOf(place)
             yes == TRUE
             no == FALSE
  <1>0. FlashTyped /\ swap \in SwapStates /\ CanSwap
    BY DEF FlashInv, FlashTyped, SwapControl
  <1>1. Launched(yes, no, no, block, ShortTime) /\ UNCHANGED <<protected, flexRam, partition, cache>>
    BY DEF SwapControl
  <1>2. /\ FlashLinesInStep' /\ BusyWhileRunning' /\ part' = part /\ remaining' \in 0 .. LongTime
        /\ yes /\ ~no => busy' = block
    <2> HIDE DEF yes, no, block
    <2> QED  BY <1>1, LaunchTells
  <1>3. /\ swap' \in SwapStates /\ swap'.current = swap.current /\ swap'.sector \in SectorSet \ {"config"}
        /\ swap'.mode # swap.mode /\ Store({place}, word)
        /\ \/ swap.mode = 0 /\ swap'.mode = 3 /\ swap'.next = swap'.current
           \/ swap.mode = 1 /\ swap'.mode = 2 /\ swap'.next = swap'.current /\ swap'.sector = swap.sector
           \/ swap.mode = 3 /\ swap'.mode = 4 /\ swap'.next = 1 - swap'.current
    <2>1. SwapSteps
      BY DEF SwapControl
    <2>2. CASE swap.mode = 0
      <3>1. PICK s \in SectorSet \ {"config"} :
              swap' = [mode |-> 3, sector |-> s, current |-> 0, next |-> 0]
        BY <2>1, <2>2 DEF SwapSteps
      <3>2. Indicate(0, Partly) /\ swap.current = 0
        BY <2>1, <2>2 DEF SwapSteps, FlashInv, SwapPlaced
      <3>3. swap' \in SwapStates
        BY <3>1 DEF SwapStates
      <3> QED  BY <2>2, <3>1, <3>2, <3>3 DEF Indicate
    <2>3. CASE swap.mode = 1
      <3>1. swap' = [swap EXCEPT !.mode = 2] /\ Indicate(swap.current, Partly)
        BY <2>1, <2>3 DEF SwapSteps
      <3>2. swap.next = swap.current /\ swap.sector \in SectorSet \ {"config"}
        BY <2>3 DEF FlashInv, SwapPlaced, SwapIndicatorsTell
      <3>3. /\ swap' \in SwapStates /\ swap'.mode = 2 /\ swap'.current = swap.current
            /\ swap'.next = swap.next /\ swap'.sector = swap.sector
        BY <1>0, <3>1 DEF SwapStates
      <3> QED  BY <2>3, <3>1, <3>2, <3>3 DEF Indicate
    <2>4. CASE swap.mode = 3
      <3>1. /\ swap' = [mode |-> 4, sector |-> swap.sector, current |-> swap.current,
                        next |-> 1 - swap.current]
            /\ Indicate(swap.current, Done)
        BY <2>1, <2>4 DEF SwapSteps
      <3>2. swap.sector \in SectorSet \ {"config"}
        BY <2>4 DEF FlashInv, SwapPlaced
      <3>3. swap'.mode = 4 /\ swap'.current = swap.current /\ swap'.next = 1 - swap.current
            /\ swap'.sector = swap.sector
        BY <1>0, <3>1 DEF SwapStates
      <3>4. swap' \in SwapStates
        <4>1. 1 - swap.current \in {0, 1} /\ swap.current \in {0, 1}
          BY <1>0 DEF SwapStates
        <4> QED  BY <3>1, <3>2, <4>1 DEF SwapStates
      <3> QED  BY <2>4, <3>1, <3>2, <3>3, <3>4 DEF Indicate
    <2> QED  BY <2>1, <2>2, <2>3, <2>4 DEF SwapSteps
  <1>4. place \in Places /\ place # ConfigPlace /\ place # DataPlace /\ place \in Available
    BY <1>3, PlacesApart DEF Places, Available, ConfigPlace
  <1>5. /\ array' \in [ProgramPlaces -> Words] /\ dataWord' \in Words /\ configCopy' \in Words
        /\ \A q \in Places : WordAfter(q) = IF q \in {place} THEN word ELSE WordAt(q)
        /\ swap.current = 0 =>
             array'[ConfigPlace] = IF ConfigPlace \in {place} THEN word ELSE array[ConfigPlace]
        /\ configCopy' = IF ConfigPlace \in {place} THEN word ELSE configCopy
        /\ dataWord' = IF DataPlace \in {place} THEN word ELSE dataWord
    <2>1. word \in Words /\ {place} \in SUBSET Places
      BY <1>4, ErasedIsAWord
    <2> HIDE DEF word, place
    <2> QED  BY <1>0, <1>3, <2>1, Stored
  <1>6. place \in busy'
    BY <1>0, <1>2, <1>4, Blocks
  <1>7. Kept
    <2>1. ProtectedPlacesKept
      BY <1>3, <1>5, <1>6 DEF ProtectedPlacesKept
    <2>2. ErasedBeforeProgrammed
      <3>1. place \in {<<b, swap'.sector>> : b \in {0, 1}}
        OBVIOUS
      <3> HIDE DEF place
      <3> QED  BY <1>5, <3>1 DEF ErasedBeforeProgrammed
    <2> QED  BY <2>1, <2>2 DEF Kept
  <1>8. SwapPlaced'
    BY <1>0, <1>2, <1>3 DEF SwapPlaced, CanSwap
  <1>9. SwapIndicatorsTell'
    <2>1. Active' = place /\ Nonactive' = <<1, swap'.sector>> /\ <<1, swap'.sector>> # place
      BY DEF Active, Nonactive
    <2>2. <<1, swap'.sector>> \in Places
      BY <1>3, PlacesApart DEF Places
    <2>3. WordAt(Active)' = word /\ WordAt(Nonactive)' = WordAt(<<1, swap'.sector>>)
      BY <1>4, <1>5, <2>1, <2>2, WordAtNext
    <2>4. swap.mode = 1 => WordAt(<<1, swap'.sector>>) = Done
      BY <1>3 DEF FlashInv, SwapIndicatorsTell, Nonactive
    <2> HIDE DEF place
    <2> QED  BY <1>3, <2>3, <2>4 DEF SwapIndicatorsTell
  <1>10. FlashTyped'
    BY <1>0, <1>1, <1>2, <1>3, <1>5 DEF FlashTyped
  <1>11. DataAbsent' /\ ConfigurationFollows'
    BY <1>2, <1>3, <1>4, <1>5 DEF FlashInv, DataAbsent, ConfigurationFollows
  <1>12. CacheOff'
    BY <1>1, <1>2 DEF FlashInv, CacheOff
  <1> QED  BY <1>2, <1>7, <1>8, <1>9, <1>10, <1>11, <1>12 DEF FlashInv

LEMMA CommandKeeps ==
  ASSUME FlashInv, Command
  PROVE  FlashInv' /\ Kept
  <1>0. In.words \subseteq Words /\ flexRam.word \in Words
    BY PartTyped DEF FlashInv, FlashTyped, InputSets, Words
  <1>1. ASSUME NEW p \in In.places, NEW w \in In.words, ProgramWord(p, w)
        PROVE  FlashInv' /\ Kept
    BY <1>0, <1>1, ProgramKeeps DEF ProgramWord
  <1>2. ASSUME NEW p \in In.places, ProgramSection(p)
        PROVE  FlashInv' /\ Kept
    <2> DEFINE place == IF part.ftfe /\ ~flexRam.eeprom THEN p ELSE Nowhere
    <2>1. Program(place, flexRam.word)
      BY <1>2 DEF ProgramSection
    <2> HIDE DEF place
    <2> QED  BY <1>0, <2>1, ProgramKeeps
  <1>3. ASSUME NEW p \in In.places, ReadOnesSection(p) \/ ReadOnesBlock(p)
        PROVE  FlashInv' /\ Kept
    <2>1. Check({p}, p \in Available, BlockOf(p)) \/ Check(BlockOf(p), BlockCommand(p), BlockOf(p))
      BY <1>3 DEF ReadOnesSection, ReadOnesBlock
    <2> QED  BY <2>1, CheckKeeps
  <1>4. ASSUME ReadOnesAll PROVE FlashInv' /\ Kept
    <2> DEFINE yes == TRUE
    <2>1. Check(Available, yes, Places)
      BY <1>4 DEF ReadOnesAll
    <2> HIDE DEF yes
    <2> QED  BY <2>1, CheckKeeps
  <1> QED  BY <1>1, <1>2, <1>3, <1>4, ErasesKeep, EraseAllKeeps, ProgramCheckKeeps, OthersKeep,
              PartitionKeeps, SwapKeeps DEF Command

-----------------------------------------------------------------------------
(* Registers, reads, and what goes past the controller *)

LEMMA AdvanceKeeps ==
  ASSUME FlashInv, NEW n \in 1 .. LongTime, Advance(n)
  PROVE  FlashInv' /\ Kept
  <1>1. /\ UNCHANGED <<part, array, dataWord, configCopy, protected, enables, swap, flexRam, cache>>
        /\ remaining # 0 /\ remaining \in 0 .. LongTime /\ protected \subseteq Places
        /\ flexRam.word \in Words
    BY DEF Advance, FlashInv, FlashTyped
  <1>2. CASE n >= remaining
    <2>1. remaining' = 0 /\ busy' = {} /\ "CCIF" \in status' /\ interrupts' = Lines(status', enables)
      BY <1>2 DEF Advance
    <2>2. FlashLinesInStep' /\ BusyWhileRunning' /\ remaining' \in 0 .. LongTime
      BY <1>1, <2>1 DEF FlashLinesInStep, BusyWhileRunning, LongTime
    <2> QED  BY <1>1, <2>2, WordsKept DEF FlashInv, CacheOff
  <1>3. CASE ~(n >= remaining)
    <2>1. remaining' = remaining - n /\ UNCHANGED <<busy, status, interrupts>>
      BY <1>3 DEF Advance
    <2>2. remaining' \in 0 .. LongTime /\ remaining' # 0
      BY <1>1, <1>3, <2>1 DEF LongTime
    <2>3. FlashLinesInStep' /\ BusyWhileRunning'
      BY <1>1, <2>1, <2>2 DEF FlashInv, FlashLinesInStep, BusyWhileRunning
    <2> QED  BY <1>1, <2>2, <2>3, WordsKept DEF FlashInv, CacheOff
  <1> QED  BY <1>2, <1>3

LEMMA RegistersKeep ==
  ASSUME FlashInv, RegisterWrite
  PROVE  FlashInv' /\ Kept
  <1>0. FlashTyped /\ In.words \subseteq Words
    BY PartTyped DEF FlashInv, InputSets, Words
  <1>1. ASSUME NEW flags, ClearStatus(flags) PROVE FlashInv' /\ Kept
    <2>1. "CCIF" \in status' <=> "CCIF" \in status
      BY <1>1 DEF ClearStatus
    <2>2. FlashLinesInStep' /\ BusyWhileRunning'
      BY <1>1, <2>1 DEF ClearStatus, FlashInv, FlashLinesInStep, BusyWhileRunning
    <2>3. CacheOff'
      BY <1>1 DEF ClearStatus, FlashInv, CacheOff
    <2>4. UNCHANGED <<array, dataWord, configCopy, swap, part, protected, flexRam, remaining>>
      BY <1>1 DEF ClearStatus
    <2> QED  BY <1>0, <2>2, <2>3, <2>4, WordsKept DEF FlashTyped
  <1>2. ASSUME NEW flags, WriteFcnfg(flags) PROVE FlashInv' /\ Kept
    <2>1. FlashLinesInStep' /\ BusyWhileRunning'
      BY <1>2 DEF WriteFcnfg, FlashInv, FlashLinesInStep, BusyWhileRunning
    <2>2. CacheOff'
      BY <1>2 DEF WriteFcnfg, FlashInv, CacheOff
    <2>3. UNCHANGED <<array, dataWord, configCopy, swap, part, protected, flexRam, remaining>>
      BY <1>2 DEF WriteFcnfg
    <2> QED  BY <1>0, <2>1, <2>2, <2>3, WordsKept DEF FlashTyped
  <1>3. ASSUME NEW places, WriteProtection(places) PROVE FlashInv' /\ Kept
    <2>1. protected' \subseteq Places
      <3>1. Available \subseteq Places
        BY PlacesApart DEF Available, Places, DataPlaces
      <3> QED  BY <1>0, <1>3, <3>1 DEF WriteProtection, FlashTyped
    <2>2. FlashLinesInStep' /\ BusyWhileRunning'
      BY <1>3 DEF WriteProtection, FlashInv, FlashLinesInStep, BusyWhileRunning
    <2>3. CacheOff'
      BY <1>3 DEF WriteProtection, FlashInv, CacheOff
    <2>4. UNCHANGED <<array, dataWord, configCopy, swap, part, flexRam, remaining>>
      BY <1>3 DEF WriteProtection
    <2> QED  BY <1>0, <2>1, <2>2, <2>3, <2>4, WordsKept DEF FlashTyped
  <1>4. ASSUME NEW w \in In.words, WriteFlexRam(w) PROVE FlashInv' /\ Kept
    <2>1. flexRam'.word \in Words
      <3>1. flexRam' = [flexRam EXCEPT !.word = w]
        BY <1>4 DEF WriteFlexRam
      <3>2. [flexRam EXCEPT !.word = w].word \in Words
        BY <1>0, PartTyped DEF FlashTyped
      <3> QED  BY <3>1, <3>2
    <2>2. FlashLinesInStep' /\ BusyWhileRunning'
      BY <1>4 DEF WriteFlexRam, FlashInv, FlashLinesInStep, BusyWhileRunning
    <2>3. CacheOff'
      BY <1>4 DEF WriteFlexRam, FlashInv, CacheOff
    <2>4. UNCHANGED <<array, dataWord, configCopy, swap, part, protected, remaining>>
      BY <1>4 DEF WriteFlexRam
    <2> QED  BY <1>0, <2>1, <2>2, <2>3, <2>4, WordsKept DEF FlashTyped
  <1>5. ASSUME NEW allowed, WriteAccess(allowed) PROVE FlashInv' /\ Kept
    <2>1. FlashLinesInStep' /\ BusyWhileRunning'
      BY <1>5 DEF WriteAccess, FlashInv, FlashLinesInStep, BusyWhileRunning
    <2>2. CacheOff'
      BY <1>5 DEF WriteAccess, FlashInv, CacheOff
    <2>3. UNCHANGED <<array, dataWord, configCopy, swap, part, protected, flexRam, remaining>>
      BY <1>5 DEF WriteAccess
    <2> QED  BY <1>0, <2>1, <2>2, <2>3, WordsKept DEF FlashTyped
  <1>6. ASSUME NEW c \in In.control, WriteCacheControl(c.mode, c.locked, c.enabled, c.ways)
        PROVE  FlashInv' /\ Kept
    <2>1. FlashLinesInStep' /\ BusyWhileRunning'
      BY <1>6 DEF WriteCacheControl, FlashInv, FlashLinesInStep, BusyWhileRunning
    <2>2. UNCHANGED <<array, dataWord, configCopy, swap, part, protected, flexRam, remaining>>
      BY <1>6 DEF WriteCacheControl
    <2>3. CacheOff'
      <3>1. SUFFICES ASSUME ~part.cached PROVE "enabled" \in DOMAIN cache' /\ cache'.enabled = {}
        BY <2>2 DEF CacheOff
      <3>2. c.enabled = {}
        BY <1>0, <3>1, PartTyped
      <3>3. "enabled" \in DOMAIN cache
        BY <3>1 DEF FlashInv, CacheOff
      <3>4. cache' = [Cleared(cache, c.ways) EXCEPT !.mode = c.mode, !.locked = c.locked,
                                                    !.enabled = c.enabled]
        BY <1>6 DEF WriteCacheControl
      <3>5. DOMAIN Cleared(cache, c.ways) = DOMAIN cache
        BY DEF Cleared
      <3> QED  BY <3>2, <3>3, <3>4, <3>5
    <2> QED  BY <1>0, <2>1, <2>2, <2>3, WordsKept DEF FlashTyped
  <1>7. QED
    BY <1>1, <1>2, <1>3, <1>4, <1>5, <1>6 DEF RegisterWrite

LEMMA ReadsKeep ==
  ASSUME FlashInv, Read
  PROVE  FlashInv' /\ Kept
  <1>1. PICK kind, p : ReadArray(kind, p)
    BY DEF Read, Fetch, ReadData, DebugRead
  <1>2. /\ UNCHANGED <<array, dataWord, configCopy, swap, part, protected, flexRam, remaining, busy, enables>>
        /\ protected \subseteq Places /\ flexRam.word \in Words /\ remaining \in 0 .. LongTime
    BY <1>1 DEF ReadArray, FlashInv, FlashTyped
  <1>3. "CCIF" \in status' <=> "CCIF" \in status
    BY <1>1 DEF ReadArray
  <1>4. interrupts' = Lines(status', enables)
    BY <1>1 DEF ReadArray, FlashInv, FlashLinesInStep
  <1>5. FlashLinesInStep' /\ BusyWhileRunning'
    BY <1>2, <1>3, <1>4 DEF FlashInv, FlashLinesInStep, BusyWhileRunning
  <1>6. CacheOff'
    <2>1. ~part.cached => cache' = cache
      BY <1>1 DEF ReadArray, FlashInv, CacheOff
    <2> QED  BY <1>2, <2>1 DEF FlashInv, CacheOff
  <1> QED  BY <1>2, <1>5, <1>6, WordsKept

(* A debugger or the host writes a place: not as a command. *)
LEMMA DebugWriteKeeps ==
  ASSUME FlashInv, NEW p \in In.writes, NEW w \in In.words \cup {Erased}, DebugWrite(p, w)
  PROVE  FlashInv' /\ Kept
  <1>0. /\ FlashTyped /\ swap.current \in {0, 1} /\ w \in Words /\ p # ConfigPlace
        /\ (CanSwap => p[2] = "config")
    BY PartTyped, ErasedIsAWord DEF FlashInv, FlashTyped, SwapStates, InputSets, Words
  <1>1. /\ p \in ProgramPlaces \cup {q \in {DataPlace} : part.data}
        /\ array' = IF p = DataPlace THEN array ELSE [array EXCEPT ![Physical(p)] = w]
        /\ dataWord' = IF p = DataPlace THEN w ELSE dataWord
        /\ cache' = Invalidated(cache, p)
        /\ UNCHANGED <<part, configCopy, protected, status, enables, interrupts, remaining, busy, swap,
                       flexRam>>
    BY DEF DebugWrite
  <1>2. Kept
    BY <1>1 DEF Kept, ProtectedPlacesKept, ErasedBeforeProgrammed, CommandStep
  <1>3. \A q \in ProgramPlaces : q # p => WordAfter(q) = WordAt(q)
    <2>1. SUFFICES ASSUME NEW q \in ProgramPlaces, q # p
                   PROVE  array'[Physical(q)] = array[Physical(q)]
      BY <1>1, PlacesApart DEF WordAfter, WordAt, Physical
    <2>2. Physical(q) \in ProgramPlaces /\ (p \in ProgramPlaces => Physical(q) # Physical(p))
      BY <1>0, <2>1, Halves DEF Places
    <2> QED  BY <1>0, <1>1, <2>2 DEF FlashTyped
  <1>4. SwapIndicatorsTell' /\ SwapPlaced'
    <2>1. swap.mode # 0 => /\ Active \in ProgramPlaces /\ Nonactive \in ProgramPlaces
                           /\ Active # p /\ Nonactive # p
      BY <1>0, PlacesApart DEF FlashInv, SwapPlaced, Active, Nonactive
    <2> QED  BY <1>1, <1>3, <2>1, IndicatorsKept
  <1>5. array' \in [ProgramPlaces -> Words] /\ dataWord' \in Words
    BY <1>0, <1>1 DEF FlashTyped
  <1>6. FlashTyped' /\ DataAbsent'
    BY <1>0, <1>1, <1>5, PlacesApart DEF FlashInv, FlashTyped, DataAbsent
  <1>7. ConfigurationFollows'
    <2>1. swap.current = 0 => array'[ConfigPlace] = array[ConfigPlace]
      BY <1>0, <1>1, Halves, PlacesApart DEF FlashTyped
    <2> QED  BY <1>1, <2>1 DEF FlashInv, ConfigurationFollows
  <1>8. FlashLinesInStep' /\ BusyWhileRunning'
    BY <1>1 DEF FlashInv, FlashLinesInStep, BusyWhileRunning
  <1>9. CacheOff'
    <2>1. "enabled" \in DOMAIN cache =>
            "enabled" \in DOMAIN cache' /\ cache'.enabled = cache.enabled
      BY <1>1 DEF Invalidated, Cleared
    <2> QED  BY <1>1, <2>1 DEF FlashInv, CacheOff
  <1> QED  BY <1>2, <1>4, <1>6, <1>7, <1>8, <1>9 DEF FlashInv

LEMMA LoadImageKeeps ==
  ASSUME FlashInv, NEW p \in In.images, NEW w \in In.words \cup {Erased}, LoadImage(p, w)
  PROVE  FlashInv' /\ Kept
  <1>0. /\ FlashTyped /\ swap.current \in {0, 1} /\ w \in Words /\ p \in ProgramPlaces
        /\ (CanSwap => p[2] = "config")
    BY PartTyped, ErasedIsAWord DEF FlashInv, FlashTyped, SwapStates, InputSets, Words
  <1>1. /\ array' = [array EXCEPT ![p] = w]
        /\ cache' = Cleared(cache, Ways)
        /\ configCopy' = array'[ConfigPlace] /\ protected' = Protects[configCopy']
        /\ UNCHANGED <<part, dataWord, status, enables, interrupts, remaining, busy, swap, flexRam>>
    BY DEF LoadImage
  <1>2. Kept
    BY <1>1 DEF Kept, ProtectedPlacesKept, ErasedBeforeProgrammed, CommandStep
  <1>3. array' \in [ProgramPlaces -> Words] /\ configCopy' \in Words /\ protected' \subseteq Places
    <2>1. array' \in [ProgramPlaces -> Words]
      BY <1>0, <1>1 DEF FlashTyped
    <2>2. configCopy' \in Words
      BY <1>1, <2>1, PlacesApart
    <2> QED  BY <1>1, <2>1, <2>2, FlashAssumption
  <1>4. \A q \in ProgramPlaces : Physical(q) # p => WordAfter(q) = WordAt(q)
    <2>1. SUFFICES ASSUME NEW q \in ProgramPlaces, Physical(q) # p
                   PROVE  array'[Physical(q)] = array[Physical(q)]
      BY <1>1, PlacesApart DEF WordAfter, WordAt, Physical
    <2> QED  BY <1>0, <1>1, <2>1, Halves DEF FlashTyped
  <1>5. SwapIndicatorsTell' /\ SwapPlaced'
    <2>1. swap.mode # 0 => /\ Active \in ProgramPlaces /\ Nonactive \in ProgramPlaces
                           /\ Physical(Active) # p /\ Physical(Nonactive) # p
      BY <1>0, PlacesApart DEF FlashInv, SwapPlaced, Active, Nonactive, Physical
    <2> QED  BY <1>1, <1>4, <2>1, IndicatorsKept
  <1>6. FlashTyped' /\ DataAbsent' /\ ConfigurationFollows'
    BY <1>0, <1>1, <1>3 DEF FlashInv, FlashTyped, DataAbsent, ConfigurationFollows
  <1>7. FlashLinesInStep' /\ BusyWhileRunning'
    BY <1>1 DEF FlashInv, FlashLinesInStep, BusyWhileRunning
  <1>8. CacheOff'
    <2>1. "enabled" \in DOMAIN cache =>
            "enabled" \in DOMAIN cache' /\ cache'.enabled = cache.enabled
      BY <1>1 DEF Cleared
    <2> QED  BY <1>1, <2>1 DEF FlashInv, CacheOff
  <1> QED  BY <1>2, <1>5, <1>6, <1>7, <1>8 DEF FlashInv

(* The reset that ends a swap gives the halves the names they have in the next. *)
LEMMA ResetKeeps ==
  ASSUME FlashInv, Reset
  PROVE  FlashInv' /\ Kept
  <1>0. FlashTyped /\ swap \in SwapStates /\ configCopy' = array[ConfigPlace]
    BY DEF FlashInv, FlashTyped, Reset
  <1>1. /\ protected' = Protects[configCopy']
        /\ swap' = IF swap.mode = 4
                   THEN [mode |-> 1, sector |-> swap.sector, current |-> swap.next, next |-> swap.next]
                   ELSE swap
        /\ status' = {"CCIF"} /\ enables' = {} /\ interrupts' = {} /\ remaining' = 0 /\ busy' = {}
        /\ flexRam' = [word |-> Zero, eeprom |-> partition \in {"both", "eeprom"}]
        /\ cache' = StartCache /\ UNCHANGED <<part, array, dataWord>>
    BY DEF Reset
  <1>2. Kept
    BY <1>1 DEF Kept, ProtectedPlacesKept, ErasedBeforeProgrammed, CommandStep
  <1>3. configCopy' \in Words /\ protected' \subseteq Places /\ flexRam'.word \in Words
    BY <1>0, <1>1, PlacesApart, FlashAssumption DEF FlashTyped, Words
  <1>4. FlashLinesInStep' /\ BusyWhileRunning'
    BY <1>1 DEF FlashLinesInStep, BusyWhileRunning, Lines
  <1>5. CacheOff'
    BY <1>1 DEF CacheOff, StartCache, EmptyCache
  <1>6. ConfigurationFollows' /\ DataAbsent'
    BY <1>0, <1>1 DEF FlashInv, ConfigurationFollows, DataAbsent
  <1>7. swap' \in SwapStates /\ SwapPlaced' /\ SwapIndicatorsTell'
    <2>1. CASE swap.mode # 4
      <3>1. swap' = swap
        BY <1>1, <2>1
      <3>2. \A q : WordAfter(q) = WordAt(q)
        BY <1>1, <3>1 DEF WordAfter, WordAt, Physical
      <3> QED  BY <1>0, <1>1, <3>1, <3>2, IndicatorsKept
    <2>2. CASE swap.mode = 4
      <3>1. swap.sector \in SectorSet \ {"config"} /\ CanSwap /\ swap.next = 1 - swap.current
            /\ WordAt(Active) = Done
        BY <2>2 DEF FlashInv, SwapPlaced, SwapIndicatorsTell
      <3>2. /\ swap' \in SwapStates /\ swap'.mode = 1 /\ swap'.current = 1 - swap.current
            /\ swap'.next = swap'.current /\ swap'.sector = swap.sector
        <4>1. swap.next \in {0, 1}
          BY <1>0 DEF SwapStates
        <4>2. swap' = [mode |-> 1, sector |-> swap.sector, current |-> swap.next, next |-> swap.next]
          BY <1>1, <2>2
        <4> QED  BY <3>1, <4>1, <4>2 DEF SwapStates
      <3>3. Nonactive' = <<1, swap.sector>> /\ Nonactive' # DataPlace /\ Active # DataPlace
        BY <3>2 DEF Nonactive, Active, DataPlace
      <3>4. WordAt(Nonactive)' = WordAfter(<<1, swap.sector>>)
        BY <3>3, WordAtNext
      <3>5. WordAfter(<<1, swap.sector>>) = array[IF swap'.current = 1 THEN <<0, swap.sector>> ELSE <<1, swap.sector>>]
        BY <1>1, <3>3 DEF WordAfter
      <3>6. WordAt(Active) = array[IF swap.current = 1 THEN <<1, swap.sector>> ELSE <<0, swap.sector>>]
        BY <3>3 DEF WordAt, Physical, Active
      <3>7. swap.current \in {0, 1}
        BY <1>0 DEF SwapStates
      <3>8. WordAt(Nonactive)' = Done
        BY <3>1, <3>2, <3>4, <3>5, <3>6, <3>7
      <3>9. SwapPlaced'
        BY <1>1, <3>1, <3>2 DEF SwapPlaced, CanSwap
      <3>10. SwapIndicatorsTell'
        BY <3>2, <3>8 DEF SwapIndicatorsTell
      <3> QED  BY <3>2, <3>9, <3>10
    <2> QED  BY <2>1, <2>2
  <1>8. FlashTyped'
    <2>1. remaining' \in 0 .. LongTime
      BY <1>1 DEF LongTime
    <2> QED  BY <1>0, <1>1, <1>3, <1>7, <2>1 DEF FlashTyped
  <1> QED  BY <1>2, <1>4, <1>5, <1>6, <1>7, <1>8 DEF FlashInv

-----------------------------------------------------------------------------
LEMMA FlashStart == FlashInit => FlashInv
  <1> SUFFICES ASSUME FlashInit PROVE FlashInv
    OBVIOUS
  <1>1. /\ part \in Parts /\ array = [q \in ProgramPlaces |-> Erased]
        /\ dataWord = Erased /\ configCopy = Erased /\ protected = Protects[Erased]
        /\ status = {"CCIF"} /\ enables = {} /\ interrupts = {} /\ remaining = 0 /\ busy = {}
        /\ swap = [mode |-> 0, sector |-> "none", current |-> 0, next |-> 0]
        /\ flexRam = [word |-> Zero, eeprom |-> FALSE] /\ cache = StartCache
    BY DEF FlashInit
  <1>2. swap \in SwapStates /\ SwapPlaced /\ SwapIndicatorsTell
    BY <1>1 DEF SwapStates, SwapPlaced, SwapIndicatorsTell
  <1>3. flexRam.word \in Words /\ protected \subseteq Places
    BY <1>1, ErasedIsAWord, FlashAssumption DEF Words
  <1>4. FlashTyped
    BY <1>1, <1>2, <1>3, ErasedIsAWord DEF FlashTyped, LongTime
  <1>5. CacheOff
    BY <1>1 DEF CacheOff, StartCache, EmptyCache
  <1>6. DataAbsent /\ ConfigurationFollows /\ FlashLinesInStep /\ BusyWhileRunning
    BY <1>1, PlacesApart DEF DataAbsent, ConfigurationFollows, FlashLinesInStep, BusyWhileRunning, Lines
  <1> QED  BY <1>2, <1>4, <1>5, <1>6 DEF FlashInv

LEMMA FlashStep == FlashInv /\ [FlashNext]_flashVars => FlashInv' /\ (Kept \/ UNCHANGED flashVars)
  <1> SUFFICES ASSUME FlashInv, [FlashNext]_flashVars
               PROVE  FlashInv' /\ (Kept \/ UNCHANGED flashVars)
    OBVIOUS
  <1>1. CASE UNCHANGED flashVars
    <2>1. /\ UNCHANGED <<array, dataWord, configCopy, swap, part, protected, flexRam, remaining,
                         interrupts, status, enables, busy, cache>>
      BY <1>1 DEF flashVars
    <2>2. FlashLinesInStep' /\ BusyWhileRunning' /\ CacheOff'
      BY <2>1 DEF FlashInv, FlashLinesInStep, BusyWhileRunning, CacheOff
    <2>3. flexRam'.word \in Words /\ remaining' \in 0 .. LongTime
      BY <2>1 DEF FlashInv, FlashTyped
    <2> QED  BY <1>1, <2>1, <2>2, <2>3, NothingWritten
  <1>2. CASE FlashNext
    BY <1>2, CommandKeeps, RegistersKeep, ReadsKeep, AdvanceKeeps, DebugWriteKeeps, LoadImageKeeps,
       ResetKeeps DEF FlashNext, FlashAdvance
  <1> QED  BY <1>1, <1>2

(* A flash command keeps what is protected, programs only what was erased, and keeps
   the places it changes busy until it ends; the indicators of a swap tell where it
   stands through resets; flags, lines and the copy of the configuration keep up:
   for every part, every set of words and protections, and every use of the
   registers (memory/flash.c). *)
THEOREM FlashIsHonest == FlashSpec => FlashHonest
  <1>1. FlashSpec => []FlashInv
    BY FlashStart, FlashStep, PTL DEF FlashSpec
  <1>2. FlashInv => SwapIndicatorsTell /\ ConfigurationFollows /\ FlashLinesInStep /\ BusyWhileRunning
    BY DEF FlashInv
  <1>3. FlashInv /\ [FlashNext]_flashVars => [ProtectedPlacesKept /\ ErasedBeforeProgrammed]_flashVars
    BY FlashStep DEF Kept
  <1> QED  BY <1>1, <1>2, <1>3, PTL DEF FlashSpec, FlashHonest
=============================================================================
