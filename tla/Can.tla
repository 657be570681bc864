-------------------------------- MODULE Can --------------------------------
(* The mailboxes of FlexCAN: write_can in gpio/peripherals.c, k22_io_can_receive
   and the interrupt of k22_io_irq_asserted in gpio/api.c. The wire is the host:
   it delivers frames and takes the transmitted ones from the event ring. *)
EXTENDS Integers, FiniteSets, Sequences

CONSTANTS
  CanMailboxes,   \* the mailboxes, 0 .. n
  CanIds,         \* identifiers of frames
  CanFrames       \* bound: frames the host delivers and firmware sends

VARIABLES
  can,            \* MCR: whether the module runs, the last mailbox it searches
  canBox,         \* mailbox -> its code, identifier, and the frame it holds
  canMatch,       \* whether the mask compares identifiers, or accepts any
  canFlag,        \* IFLAG1
  canMask,        \* IMASK1
  canWire,        \* frames taken from the host so far, frames sent, in order
  canSeen         \* frames firmware overwrote, withdrew or reset away

canVars == <<can, canBox, canMatch, canFlag, canMask, canWire, canSeen>>

(* Codes of a mailbox: what firmware writes, and what the module turns it into. *)
CanCodes == {"inactive", "empty", "full", "idle"}
CanReset0 == [on |-> FALSE, last |-> 15]
BoxReset0 == [code |-> "inactive", id |-> CHOOSE i \in CanIds : TRUE, frame |-> 0]

CanTypeOK ==
  /\ can \in [on : BOOLEAN, last : CanMailboxes \cup {15}]
  /\ canBox \in [CanMailboxes -> [code : CanCodes, id : CanIds, frame : 0 .. CanFrames]]
  /\ canMatch \in BOOLEAN
  /\ canFlag \subseteq CanMailboxes /\ canMask \subseteq CanMailboxes
  /\ canWire \in [taken : 0 .. CanFrames, sent : 0 .. CanFrames]
  /\ canSeen \subseteq 1 .. CanFrames

CanInit ==
  /\ can = CanReset0
  /\ canBox = [b \in CanMailboxes |-> BoxReset0]
  /\ canMatch = TRUE
  /\ canFlag = {} /\ canMask = {}
  /\ canWire = [taken |-> 0, sent |-> 0]
  /\ canSeen = {}

-----------------------------------------------------------------------------
(* Reception *)

AcceptsFull(b, id) ==  \* mutant: a full mailbox takes the next frame too
  /\ b <= can.last /\ canBox[b].code \in {"empty", "full"}
  /\ canMatch => canBox[b].id = id

(* A mailbox takes a frame when it is empty and its identifier agrees with the
   frame's under the mask; one that still holds a frame is passed over. *)
Accepts(b, id) ==
  /\ b <= can.last /\ canBox[b].code = "empty"
  /\ canMatch => canBox[b].id = id

Accepting(id) == {b \in CanMailboxes : Accepts(b, id)}

FlaggedLate(b) == IF b \in canMask THEN canFlag \cup {b} ELSE canFlag  \* mutant

(* The first such mailbox gets the frame; when there is none, or the
   module is disabled, the host is told so and nothing changes. *)
Raised(b) == canFlag \cup {b}

Receive(id) ==
  /\ can.on /\ Accepting(id) # {}
  /\ canWire.taken < CanFrames   \* bound
  /\ LET b == CHOOSE k \in Accepting(id) : \A j \in Accepting(id) : k <= j
     IN  /\ canBox' = [canBox EXCEPT ![b] = [code |-> "full", id |-> id,
                                             frame |-> canWire.taken + 1]]
         /\ canFlag' = Raised(b)
  /\ canWire' = [canWire EXCEPT !.taken = @ + 1]
  /\ UNCHANGED <<can, canMatch, canMask, canSeen>>

-----------------------------------------------------------------------------
(* Firmware *)

Held(b) == IF canBox[b].code = "full" THEN {canBox[b].frame} ELSE {}

(* A write to the code and status word arms, disarms or reads out a mailbox. *)
WriteCode(b, code) ==
  /\ code \in {"inactive", "empty"}
  /\ canSeen' = canSeen \cup Held(b)
  /\ canBox' = [canBox EXCEPT ![b].code = code]
  /\ UNCHANGED <<can, canMatch, canFlag, canMask, canWire>>

(* Codes 12 to 15 send what the mailbox holds at once, whatever state the module
   is in, and leave it idle with its flag set. *)
LeftIdle(b) == [canBox EXCEPT ![b].code = "idle"]

Send(b) ==
  /\ canWire.sent < CanFrames   \* bound
  /\ canSeen' = canSeen \cup Held(b)
  /\ canBox' = LeftIdle(b)
  /\ canFlag' = canFlag \cup {b}
  /\ canWire' = [canWire EXCEPT !.sent = @ + 1]
  /\ UNCHANGED <<can, canMatch, canMask>>

WriteId(b, id) ==
  /\ canBox' = [canBox EXCEPT ![b].id = id]
  /\ UNCHANGED <<can, canMatch, canFlag, canMask, canWire, canSeen>>

ClearFlags(boxes) ==
  /\ canFlag' = canFlag \ boxes
  /\ UNCHANGED <<can, canBox, canMatch, canMask, canWire, canSeen>>

WriteCanMask(boxes, match) ==
  /\ canMask' = boxes /\ canMatch' = match
  /\ UNCHANGED <<can, canBox, canFlag, canWire, canSeen>>

WriteCanMcr(on, last) ==
  /\ can' = [on |-> on, last |-> last]
  /\ UNCHANGED <<canBox, canMatch, canFlag, canMask, canWire, canSeen>>

(* MCR.SOFTRST clears the mailboxes and the flags with the registers. *)
SoftReset ==
  /\ can' = CanReset0
  /\ canBox' = [b \in CanMailboxes |-> BoxReset0]
  /\ canMatch' = TRUE
  /\ canFlag' = {} /\ canMask' = {}
  /\ canSeen' = canSeen \cup UNION {Held(b) : b \in CanMailboxes}
  /\ UNCHANGED canWire

CanNext ==
  \/ \E id \in CanIds : Receive(id)
  \/ \E b \in CanMailboxes, code \in CanCodes : WriteCode(b, code)
  \/ \E b \in CanMailboxes : Send(b)
  \/ \E b \in CanMailboxes, id \in CanIds : WriteId(b, id)
  \/ \E boxes \in SUBSET CanMailboxes : ClearFlags(boxes)
  \/ \E boxes \in SUBSET CanMailboxes, match \in BOOLEAN : WriteCanMask(boxes, match)
  \/ \E on \in BOOLEAN, last \in CanMailboxes : WriteCanMcr(on, last)
  \/ SoftReset

-----------------------------------------------------------------------------
(* Properties *)

(* Every frame the host was told is taken is in exactly one mailbox until firmware
   itself writes that mailbox or resets the module: a frame is never overwritten by
   the next one and never lies in two mailboxes (k22_io_can_receive). *)
FramesKept ==
  \A f \in 1 .. canWire.taken :
    Cardinality({b \in CanMailboxes : canBox[b].code = "full" /\ canBox[b].frame = f})
      = IF f \in canSeen THEN 0 ELSE 1

(* A frame that arrives is never hidden: its mailbox's flag is set with it even
   while the interrupt is masked, so unmasking it later raises the interrupt, and
   only firmware's own write clears the flag (k22_io_can_receive, IFLAG1). *)
ArrivalsFlagged ==
  \A b \in CanMailboxes :
    /\ canBox[b].code # "full" /\ canBox'[b].code = "full" => b \in canFlag'
    /\ b \in canFlag /\ b \notin canFlag' => canBox'[b] = canBox[b] \/ SoftReset
=============================================================================
