-------------------------------- MODULE Sdhc --------------------------------
(* The SD host controller and the card behind it, communication/sdhc.c. Firmware
   issues commands and moves data through the port; a command with DMA moves all of
   it at once through the bus, which may fail part of the way. The host inserts and
   ejects the card. Sizes are in words; the registers a command reads, written
   beforehand, are its parameters. *)
EXTENDS Naturals, FiniteSets

CONSTANTS
  SdCards,      \* card sizes
  SdBlock,      \* words of an address unit of a command (512 bytes)
  SdLengths,    \* block lengths firmware sets
  SdSizes,      \* block sizes in BLKATTR, 0 for the length
  SdCounts,     \* block counts in BLKATTR
  SdEnables     \* values of IRQSTATEN

SdEvents == {"command", "transfer", "dma", "ready", "inserted", "removed",
             "commandTimeout", "dataTimeout", "crc"}

ASSUME SdAssumption ==
  /\ SdCards \subseteq Nat /\ \E s \in SdCards : \A t \in SdCards : t <= s
  /\ SdBlock \in Nat
  /\ SdLengths \subseteq Nat /\ SdSizes \subseteq Nat /\ SdCounts \subseteq Nat
  /\ SdEnables \subseteq SUBSET SdEvents /\ {} \in SdEnables

VARIABLES
  sd,           \* the card: present, size, protected, selected; CMD55 seen; length
  sdCard,       \* words of the card written since it was inserted
  sdMove,       \* the transfer: next word, words left, direction
  sdIrq,        \* IRQSTAT
  sdEnable,     \* IRQSTATEN
  sdClock,      \* whether the module's clock is on
  sdSwapped     \* whether a card was put in over one that was being transferred

sdVars == <<sd, sdCard, sdMove, sdIrq, sdEnable, sdClock, sdSwapped>>

SdLargest == CHOOSE s \in SdCards : \A t \in SdCards : t <= s
NoMove == [address |-> 0, left |-> 0, read |-> FALSE]
Sd0 == [present |-> FALSE, size |-> 0, protected |-> FALSE, selected |-> FALSE,
        app |-> FALSE, length |-> SdBlock]

SdTypeOK ==
  /\ sd \in [present : BOOLEAN, size : SdCards \cup {0}, protected : BOOLEAN,
             selected : BOOLEAN, app : BOOLEAN, length : SdLengths \cup {SdBlock}]
  /\ sdCard \subseteq 0 .. SdLargest - 1
  /\ sdMove \in [address : 0 .. SdLargest, left : 0 .. SdLargest, read : BOOLEAN]
  /\ sdIrq \subseteq SdEvents /\ sdEnable \in SdEnables
  /\ {sdClock, sdSwapped} \subseteq BOOLEAN

SdInit ==
  /\ sd = Sd0 /\ sdCard = {} /\ sdMove = NoMove
  /\ sdIrq = {} /\ sdEnable \in {{}}
  /\ sdClock = FALSE /\ sdSwapped = FALSE

-----------------------------------------------------------------------------
(* An event is recorded only when its status is enabled at that moment. *)
Status(events) == sdIrq \cup (events \cap sdEnable)

(* begin_transfer: the card must be selected and hold every word asked for. *)
InCard(address, words) == address + words <= sd.size

Possible(arg, words) == sd.selected /\ words > 0 /\ InCard(arg * SdBlock, words)

(* Block size 0 stands for the length CMD16 set, a block count of 0 for 1. *)
Words(size, count, multiple) ==
  (IF size = 0 THEN sd.length ELSE size) * (IF multiple /\ count > 0 THEN count ELSE 1)

Answered(events) == /\ sdIrq' = Status(events \cup {"command"})
                    /\ UNCHANGED <<sdEnable, sdClock>>

SdRefused(arg, words, read) ==
  /\ ~Possible(arg, words) \/ (~read /\ sd.protected)
  /\ sd' = [sd EXCEPT !.app = FALSE]
  /\ Answered(IF Possible(arg, words) THEN {"crc"} ELSE {"dataTimeout"})
  /\ UNCHANGED sdSwapped
  /\ UNCHANGED <<sdCard, sdMove>>

Allowed(arg, words, read) == Possible(arg, words) /\ (read \/ ~sd.protected)

(* Without DMA the port is ready for the first word. *)
MoveStarted(arg, words, read) == [address |-> arg * SdBlock, left |-> words, read |-> read]

SdBegins(arg, words, read) ==
  /\ sd.present /\ Allowed(arg, words, read)
  /\ sd' = [sd EXCEPT !.app = FALSE]
  /\ sdMove' = MoveStarted(arg, words, read)
  /\ Answered({"ready"})
  /\ sdSwapped' = FALSE
  /\ UNCHANGED sdCard

(* dma_transfer: the words up to a bus error have moved; the rest of the transfer is
   left behind, and only the data timeout tells of it. *)
SdMovesByDma(arg, words, read, good) ==
  /\ sd.present /\ Allowed(arg, words, read) /\ good <= words
  /\ sd' = [sd EXCEPT !.app = FALSE]
  /\ sdMove' = [address |-> arg * SdBlock + good, left |-> words - good, read |-> read]
  /\ sdCard' = IF read THEN sdCard
               ELSE sdCard \cup (arg * SdBlock .. arg * SdBlock + good - 1)
  /\ Answered(IF good = words THEN {"dma", "transfer"} ELSE {"dataTimeout"})
  /\ sdSwapped' = FALSE

(* The other commands: those that only answer, 0 and 7, 12, 16, 55 and 41, and the
   ones the card does not know. *)
SdCommand(app, selected, length, events) ==
  /\ sd' = [sd EXCEPT !.app = app, !.selected = selected, !.length = length]
  /\ Answered(events)
  /\ UNCHANGED sdSwapped
  /\ UNCHANGED <<sdCard, sdMove>>

SdStops ==
  /\ sd.present
  /\ sd' = [sd EXCEPT !.app = FALSE]
  /\ sdMove' = [sdMove EXCEPT !.left = 0]
  /\ Answered({"transfer"})
  /\ UNCHANGED sdSwapped
  /\ UNCHANGED sdCard

(* A command to an empty socket times out, and is not completed. *)
SdNoCard ==
  /\ ~sd.present
  /\ sdIrq' = Status({"commandTimeout"})
  /\ UNCHANGED <<sd, sdCard, sdMove, sdEnable, sdClock, sdSwapped>>

SdIssues(arg, size, count, multiple, read) ==
  \/ sd.present /\ SdRefused(arg, Words(size, count, multiple), read)
  \/ SdBegins(arg, Words(size, count, multiple), read)

SdIssuesDma(arg, size, count, multiple, read, good) ==
  SdMovesByDma(arg, Words(size, count, multiple), read, good)

SdOther ==
  \/ SdCommand(FALSE, FALSE, sd.length, {})
  \/ \E selected \in BOOLEAN : sd.present /\ SdCommand(FALSE, selected, sd.length, {})
  \/ sd.present /\ SdCommand(TRUE, sd.selected, sd.length, {})
  \/ sd.present /\ SdCommand(FALSE, sd.selected, sd.length, {"commandTimeout"})
  \/ \E length \in SdLengths : sd.present /\ SdCommand(FALSE, sd.selected, length, {})

CompletedBefore(left) ==  \* mutant: the word before the last completes it
  IF left = 1 THEN {"transfer"} ELSE {}

(* DATPORT: one word, in the direction of the transfer; the last one completes it. *)
Completed(left) == IF left = 0 THEN {"transfer"} ELSE {}

SdPort(read) ==
  /\ sdMove.left > 0 /\ sdMove.read = read
  /\ sdMove' = [sdMove EXCEPT !.address = @ + 1, !.left = @ - 1]
  /\ sdCard' = IF read THEN sdCard ELSE sdCard \cup {sdMove.address}
  /\ sdIrq' = Status(Completed(sdMove.left - 1))
  /\ UNCHANGED <<sd, sdEnable, sdClock, sdSwapped>>

SdWriteStatus(clear) ==
  /\ sdIrq' = sdIrq \ clear
  /\ UNCHANGED <<sd, sdCard, sdMove, sdEnable, sdClock, sdSwapped>>

(* FEVT forces events, as far as they are enabled. *)
SdForce(event) ==
  /\ sdIrq' = Status({event})
  /\ UNCHANGED <<sd, sdCard, sdMove, sdEnable, sdClock, sdSwapped>>

SdWriteEnable(enable) ==
  /\ sdEnable' = enable
  /\ UNCHANGED <<sd, sdCard, sdMove, sdIrq, sdClock, sdSwapped>>

(* SYSCTL and the device reset: the card stays where it is, with its lock switch. *)
SdReset(clock) ==
  /\ sd' = [sd EXCEPT !.selected = FALSE, !.app = FALSE, !.length = SdBlock]
  /\ sdMove' = NoMove
  /\ sdIrq' = {} /\ sdEnable' = {}
  /\ sdClock' = clock
  /\ sdSwapped' = FALSE
  /\ UNCHANGED sdCard

(* Firmware reaches the module only with its clock on. *)
SdClocked ==
  /\ sdClock
  /\ \/ \E arg \in 0 .. 1, size \in SdSizes, count \in SdCounts,
          multiple, read \in BOOLEAN : SdIssues(arg, size, count, multiple, read)
     \/ \E arg \in 0 .. 1, size \in SdSizes, count \in SdCounts,
          multiple, read \in BOOLEAN, good \in 0 .. SdLargest :
          SdIssuesDma(arg, size, count, multiple, read, good)
     \/ SdOther
     \/ SdStops
     \/ SdNoCard
     \/ \E read \in BOOLEAN : SdPort(read)
     \/ \E event \in SdEvents : SdWriteStatus({event}) \/ SdForce(event)
     \/ SdWriteStatus(SdEvents)
     \/ \E enable \in SdEnables : SdWriteEnable(enable)
     \/ SdReset(sdClock)

-----------------------------------------------------------------------------
(* Host *)

(* A card is put in whatever the socket holds and whatever is moving. *)
SdInsert(size, protected) ==
  /\ sd' = [sd EXCEPT !.present = TRUE, !.size = size, !.protected = protected,
                      !.selected = FALSE]
  /\ sdCard' = {}
  /\ sdIrq' = Status({"inserted"})
  /\ sdSwapped' = (sdSwapped \/ sdMove.left > 0)
  /\ UNCHANGED <<sdMove, sdEnable, sdClock>>

EjectedMove == [sdMove EXCEPT !.left = 0]

SdEject ==
  /\ sd' = [sd EXCEPT !.present = FALSE, !.size = 0, !.selected = FALSE]
  /\ sdCard' = {}
  /\ sdMove' = EjectedMove
  /\ sdIrq' = Status({"removed"})
  /\ sdSwapped' = FALSE
  /\ UNCHANGED <<sdEnable, sdClock>>

SdGate(on) ==
  /\ sdClock' = on
  /\ UNCHANGED <<sd, sdCard, sdMove, sdIrq, sdEnable, sdSwapped>>

SdNext ==
  \/ SdClocked
  \/ SdReset(FALSE)
  \/ \E size \in SdCards, protected \in BOOLEAN : SdInsert(size, protected)
  \/ SdEject
  \/ \E on \in BOOLEAN : SdGate(on)

SdSpec == SdInit /\ [][SdNext]_sdVars

-----------------------------------------------------------------------------
(* Properties *)

(* Every word a transfer has still to move lies on the card, through partial DMA,
   resets, ejection and new commands, unless another card was put in while it ran
   (begin_transfer, dma_transfer, read_data, write_data). *)
MovesInCard ==
  sdMove.left > 0 /\ ~sdSwapped => sd.present /\ sdMove.address + sdMove.left <= sd.size

(* A protected card is never written: no command and no word of the port changes it,
   unless the transfer was begun with the card before (begin_transfer). *)
ProtectedUntouched ==
  sd.protected /\ sd.present /\ sdCard' # sdCard =>
    sdSwapped \/ sdCard' = {}

(* A transfer that is over has told so, when its status is enabled, or the card is
   gone or the module reset: firmware that waits for the interrupt is not left
   waiting after the last word (complete_transfer). *)
MovesTold ==
  sdMove.left > 0 /\ sdMove'.left = 0 =>
    \/ "transfer" \in sdIrq' \/ "transfer" \notin sdEnable
    \/ ~sd'.present \/ sdEnable' = {}

(* A transfer of the card stays inside it, writes nothing on a protected one, and
   ends in a completion or an error (communication/sdhc.c). *)
TransfersHonest == []MovesInCard /\ [][ProtectedUntouched /\ MovesTold]_sdVars
=============================================================================
