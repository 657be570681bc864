---------------------------- MODULE Instructions ----------------------------
(***************************************************************************)
(* Flags, conditions and IT blocks: core.c, instructions/it.c, thumb16.c and    *)
(* thumb32.c.  A comparison sets the flags, the instructions of the block after   *)
(* it are executed or skipped by them, and between any two of them, or within a    *)
(* load of several registers, an exception may stack and restore all of it.         *)
(***************************************************************************)
EXTENDS Integers, Sequences

CONSTANTS
  SignBit,     \* the value of a word's top bit, 2^31
  WordBits,    \* the bits of a word, 32
  ItBlocks,    \* blocks firmware writes: their conditions, each the first one or its opposite
  ItOperands,  \* pairs of words firmware works on
  ItDepth      \* exceptions that nest

VARIABLES
  it,          \* it_state: three bits of the condition, then one for each instruction
  ici,         \* ici_register, or 0: ici_valid is false
  flags,       \* the condition flags
  itPending,   \* an exception is pending that preempts
  itFrames,    \* the stack frames
  promise      \* what firmware wrote: the conditions of the block that are left, the
               \* comparison the flags are of, and whether the block was torn

itVars == <<it, ici, flags, itPending, itFrames, promise>>

Full == 2 * SignBit
ItWords == 0 .. Full - 1
Conditions == 0 .. 13
NoPair == <<>>

ASSUME ItAssumption ==
  /\ SignBit \in Nat \ {0} /\ WordBits \in Nat \ {0} /\ ItDepth \in Nat
  /\ ItOperands \subseteq ItWords \X ItWords
  /\ \A b \in ItBlocks : /\ b \in Seq(Conditions) /\ Len(b) \in 1..4
                         /\ \A k \in 1..Len(b) : b[k] \div 2 = b[1] \div 2

ConditionFlags == [n : BOOLEAN, z : BOOLEAN, c : BOOLEAN, v : BOOLEAN]
FlagsOff == [n |-> FALSE, z |-> FALSE, c |-> FALSE, v |-> FALSE]

-----------------------------------------------------------------------------
(* Arithmetic *)

Negative(x) == x >= SignBit
Not(x) == Full - 1 - x

(* Of two words and a carry the sum wraps once at most. *)
AddWithCarry(left, right, carry) ==
  LET sum == left + right + (IF carry THEN 1 ELSE 0)
      value == IF sum < Full THEN sum ELSE sum - Full
  IN  [value |-> value, c |-> sum >= Full,
       v |-> Negative(left) = Negative(right) /\ Negative(left) # Negative(value)]

SumFlags(sum) == [n |-> Negative(sum.value), z |-> sum.value = 0, c |-> sum.c, v |-> sum.v]

Operations == {"add", "adc", "sbc", "sub", "rsb"}

Operated(operation, left, right, f) ==
  CASE operation = "add" -> AddWithCarry(left, right, FALSE)
    [] operation = "adc" -> AddWithCarry(left, right, f.c)
    [] operation = "sbc" -> AddWithCarry(left, Not(right), f.c)
    [] operation = "sub" -> AddWithCarry(left, Not(right), TRUE)
    [] operation = "rsb" -> AddWithCarry(Not(left), right, TRUE)

PassedCarryOnly(condition, f) ==  \* mutant: HI and LS forget the zero flag
  CASE condition \in {0, 1} -> f.z = (condition = 0)
    [] condition \in {2, 3, 8, 9} -> f.c = (condition \in {2, 8})
    [] condition \in {4, 5} -> f.n = (condition = 4)
    [] condition \in {6, 7} -> f.v = (condition = 6)
    [] condition \in {10, 11} -> (f.n = f.v) = (condition = 10)
    [] condition \in {12, 13} -> (~f.z /\ f.n = f.v) = (condition = 12)

(* cortex_m4_condition_passed: an odd condition is the opposite of the one before. *)
Passed(condition, f) ==
  CASE condition \in {0, 1} -> f.z = (condition = 0)
    [] condition \in {2, 3} -> f.c = (condition = 2)
    [] condition \in {4, 5} -> f.n = (condition = 4)
    [] condition \in {6, 7} -> f.v = (condition = 6)
    [] condition \in {8, 9} -> (f.c /\ ~f.z) = (condition = 8)
    [] condition \in {10, 11} -> (f.n = f.v) = (condition = 10)
    [] condition \in {12, 13} -> (~f.z /\ f.n = f.v) = (condition = 12)

-----------------------------------------------------------------------------
(* Shifts *)

Bit(x, i) == (x \div (2 ^ i)) % 2 = 1

ShiftLeftShort(x, amount, carry) ==  \* mutant: the last bit of all does not reach the carry
  [value |-> IF amount < WordBits THEN (x * 2 ^ amount) % Full ELSE 0,
   c |-> IF amount = 0 THEN carry ELSE amount < WordBits /\ Bit(x, WordBits - amount)]

(* cortex_m4_shift. Of a shift to the right by 0 bits 32 are meant; of a rotation one
   through the carry. *)
ShiftLeft(x, amount, carry) ==
  [value |-> IF amount < WordBits THEN (x * 2 ^ amount) % Full ELSE 0,
   c |-> IF amount = 0 THEN carry ELSE amount <= WordBits /\ Bit(x, WordBits - amount)]

ShiftRight(x, encoded) ==
  LET amount == IF encoded = 0 THEN WordBits ELSE encoded
  IN  [value |-> x \div (2 ^ amount), c |-> Bit(x, amount - 1)]

ShiftArithmetic(x, encoded) ==
  LET amount == IF encoded = 0 THEN WordBits ELSE encoded
      ones == IF amount >= WordBits THEN Full - 1 ELSE Full - 2 ^ (WordBits - amount)
  IN  [value |-> (x \div (2 ^ amount)) + (IF Negative(x) THEN ones ELSE 0),
       c |-> IF amount <= WordBits THEN Bit(x, amount - 1) ELSE Negative(x)]

Rotate(x, encoded, carry) ==
  LET amount == encoded % WordBits
      value == (x \div (2 ^ amount)) + (x % (2 ^ amount)) * 2 ^ (WordBits - amount)
  IN  IF amount = 0
      THEN [value |-> (x \div 2) + (IF carry THEN SignBit ELSE 0), c |-> x % 2 = 1]
      ELSE [value |-> value, c |-> Negative(value)]

Shift(type, x, amount, carry) ==
  CASE type = "lsl" -> ShiftLeft(x, amount, carry)
    [] type = "lsr" -> ShiftRight(x, amount)
    [] type = "asr" -> ShiftArithmetic(x, amount)
    [] type = "ror" -> Rotate(x, amount, carry)

(* cortex_m4_shift_register: of the register the low byte counts. *)
ShiftRegister(type, x, amount, carry) ==
  IF amount = 0 THEN [value |-> x, c |-> carry] ELSE Shift(type, x, amount, carry)

ShiftTypes == {"lsl", "lsr", "asr", "ror"}

-----------------------------------------------------------------------------
(* The state of a block *)

(* What the assembler makes of a block: the first condition, the last bits of those
   that follow, and a one that ends them. *)
Low(block, k) ==
  IF k <= Len(block) THEN block[k] % 2 ELSE IF k = Len(block) + 1 THEN 1 ELSE 0

Encoded(block) ==
  IF block = <<>> THEN 0
  ELSE 16 * block[1] + 8 * Low(block, 2) + 4 * Low(block, 3) + 2 * Low(block, 4) + Low(block, 5)

AdvancedWide(state) == ((state \div 16) * 16) + ((state * 2) % 16)  \* mutant: the condition is left behind

(* cortex_m4_it_advance *)
Advanced(state) == IF state % 8 = 0 THEN 0 ELSE ((state \div 32) * 32) + ((state * 2) % 32)

(* cortex_m4_it_condition_passed *)
Executes == it = 0 \/ Passed(it \div 16, flags)

LastOrNone == it % 8 = 0

(* In the xPSR the transfer's register takes the place of the block. *)
Stacked == IF ici # 0 THEN 16 * ici ELSE it
IsIci(field) == field % 16 = 0 /\ field # 0

-----------------------------------------------------------------------------
(* Instructions *)

Following == IF promise.block = <<>> THEN <<>> ELSE Tail(promise.block)

(* cortex_m4_step: an exception goes before the instruction. A transfer that was cut is
   the next one, but for one torn from its block, which may have been skipped, and one
   that failed. *)
Fetched == ~itPending /\ (ici # 0 => promise.torn)

Room == Len(itFrames) < ItDepth

(* Whatever becomes of the instruction, the block advances; an undefined one pends a
   fault. *)
Retires(undefined) ==
  /\ undefined => Room
  /\ it' = Advanced(it)
  /\ itPending' = undefined
  /\ UNCHANGED itFrames

(* IT, which a block must not contain. *)
ItInstruction(block) ==
  /\ Fetched
  /\ IF it = 0
     THEN /\ it' = Encoded(block)
          /\ promise' = [promise EXCEPT !.block = block, !.torn = @ /\ ici # 0]
          /\ UNCHANGED <<itPending, itFrames>>
     ELSE /\ Retires(Executes)
          /\ promise' = [promise EXCEPT !.block = Following]
  /\ UNCHANGED <<ici, flags>>

FlagsKeptOutside(write) == ~Executes  \* mutant: the narrow forms write the flags in a block too

(* The narrow forms write the flags outside a block only, cortex_m4_it_preserve_flags;
   comparisons and the wide forms that ask for it always. *)
FlagsKept(write) == ~Executes \/ (write = "implicit" /\ it # 0)

(* Firmware means the flags to be those of this instruction. *)
Meant(write) == Executes /\ (write = "explicit" \/ it = 0)

Operate(operation, write, left, right) ==
  /\ Fetched
  /\ Retires(FALSE)
  /\ flags' = IF FlagsKept(write) THEN flags ELSE SumFlags(Operated(operation, left, right, flags))
  /\ promise' = [promise EXCEPT
       !.block = Following,
       !.compared = IF ~Meant(write) THEN @
                    ELSE IF operation = "sub" THEN <<left, right>> ELSE NoPair]
  /\ UNCHANGED ici

(* A bitwise operation of words that are no concern here, its carry that of a shift. *)
Logic(type, write, x, amount) ==
  /\ Fetched
  /\ Retires(FALSE)
  /\ LET result == Shift(type, x, amount, flags.c)
     IN  flags' = IF FlagsKept(write) THEN flags
                  ELSE [flags EXCEPT !.n = Negative(result.value), !.z = result.value = 0,
                                     !.c = result.c]
  /\ promise' = [promise EXCEPT !.block = Following,
                                !.compared = IF Meant(write) THEN NoPair ELSE @]
  /\ UNCHANGED ici

(* A branch may be the last of a block only; its target is outside of it. *)
BranchTaken == Executes /\ LastOrNone

Branch ==
  /\ Fetched
  /\ Retires(Executes /\ ~LastOrNone)
  /\ promise' = [promise EXCEPT !.block = IF BranchTaken THEN <<>> ELSE Following]
  /\ UNCHANGED <<ici, flags>>

(* A transfer of several registers, from the one it was cut at. *)
Multiple ==
  /\ ~itPending
  /\ Retires(FALSE)
  /\ ici' = IF Executes THEN 0 ELSE ici
  /\ promise' = [promise EXCEPT !.block = Following]
  /\ UNCHANGED flags

(* A bus error ends it, but does not end the resumption of one that was cut: the register
   stays for the next transfer to start at. *)
MultipleFails ==
  /\ ~itPending /\ Executes /\ Room
  /\ Retires(TRUE)
  /\ promise' = [promise EXCEPT !.block = Following, !.torn = @ \/ ici # 0]
  /\ UNCHANGED <<ici, flags>>

(* An exception arrives before the last register: the transfer is cut, to be taken up
   again, but cortex_m4_step advances the block. *)
MultipleCut(register) ==
  /\ ~itPending /\ Executes /\ ici < register /\ Room
  /\ ici' = register
  /\ Retires(TRUE)
  /\ promise' = [promise EXCEPT !.torn = @ \/ it # 0]
  /\ UNCHANGED flags

-----------------------------------------------------------------------------
(* Exceptions *)

(* An interrupt is raised or withdrawn between two instructions. *)
Arrives ==
  /\ Room
  /\ itPending' = ~itPending
  /\ UNCHANGED <<it, ici, flags, itFrames, promise>>

Frame == [field |-> Stacked, flags |-> flags, promise |-> promise]

EntryKeepsBlock(frame) == it' = it /\ ici' = 0  \* mutant: the handler begins within the block

EntryClears(frame) == it' = 0 /\ ici' = 0

(* The frame holds the block and the flags; the handler begins outside of any block, with
   the flags as they are. *)
ItEntry ==
  /\ itPending
  /\ itFrames' = <<Frame>> \o itFrames
  /\ EntryClears(Frame)
  /\ itPending' = FALSE
  /\ promise' = [promise EXCEPT !.block = <<>>, !.torn = FALSE]
  /\ UNCHANGED flags

(* A handler returns outside of blocks or by the last instruction of one. *)
Returns == Fetched /\ itFrames # <<>> /\ Executes /\ LastOrNone

(* cortex_m4_load_xpsr; if the handler returned within a block, cortex_m4_step
   advances the one that was restored. *)
ItReturn ==
  /\ Returns
  /\ LET frame == Head(itFrames)
         restored == IF IsIci(frame.field) THEN 0 ELSE frame.field
     IN  /\ it' = IF it = 0 THEN restored ELSE Advanced(restored)
         /\ ici' = IF IsIci(frame.field) THEN frame.field \div 16 ELSE 0
         /\ flags' = frame.flags
         /\ promise' = [frame.promise EXCEPT !.torn = @ \/ (it # 0 /\ restored # 0)]
  /\ itFrames' = Tail(itFrames)
  /\ UNCHANGED itPending

(* Another handler begins on the frame of the one that returns. *)
ItTailChain ==
  /\ Returns
  /\ it' = 0 /\ ici' = 0
  /\ promise' = [promise EXCEPT !.block = <<>>, !.torn = FALSE]
  /\ UNCHANGED <<flags, itPending, itFrames>>

-----------------------------------------------------------------------------

ItInit ==
  /\ it = 0 /\ ici = 0 /\ flags = FlagsOff /\ itPending = FALSE /\ itFrames = <<>>
  /\ promise = [block |-> <<>>, compared |-> NoPair, torn |-> FALSE]

ItNext ==
  \/ \E block \in ItBlocks : ItInstruction(block)
  \/ \E operation \in Operations, write \in {"implicit", "explicit"}, pair \in ItOperands :
       Operate(operation, write, pair[1], pair[2])
  \/ \E type \in ShiftTypes, write \in {"implicit", "explicit"}, pair \in ItOperands :
       Logic(type, write, pair[1], pair[2] % WordBits)
  \/ Branch
  \/ Multiple
  \/ MultipleFails
  \/ \E register \in 1..15 : MultipleCut(register)
  \/ Arrives
  \/ ItEntry
  \/ ItReturn
  \/ ItTailChain

ItSpec == ItInit /\ [][ItNext]_itVars

-----------------------------------------------------------------------------
(* Properties *)

ItTypeOK ==
  /\ it \in 0..255 /\ ici \in 0..15 /\ flags \in ConditionFlags /\ itPending \in BOOLEAN
  /\ Len(itFrames) <= ItDepth
  /\ promise.compared \in {NoPair} \cup ItOperands /\ promise.torn \in BOOLEAN

(* The instructions of a block are executed by the conditions firmware wrote for them, one
   after the other, whatever exceptions come between them. Three ways there are to tear a
   block: a transfer of several registers is cut in it, one that was cut fails when it is
   taken up again, or a handler returns to it from within a block of its own (it.c,
   core.c). *)
BlockKept == promise.torn \/ it = Encoded(promise.block)

Signed(x) == IF Negative(x) THEN x - Full ELSE x

(* What a condition says of the words that were compared *)
Says(condition, left, right) ==
  CASE condition = 0 -> left = right
    [] condition = 1 -> left # right
    [] condition = 2 -> left >= right
    [] condition = 3 -> left < right
    [] condition \in {4, 5} -> Negative(IF left >= right THEN left - right ELSE left - right + Full) = (condition = 4)
    [] condition \in {6, 7} -> (Signed(left) - Signed(right) \in -SignBit .. SignBit - 1) = (condition = 7)
    [] condition = 8 -> left > right
    [] condition = 9 -> left <= right
    [] condition = 10 -> Signed(left) >= Signed(right)
    [] condition = 11 -> Signed(left) < Signed(right)
    [] condition = 12 -> Signed(left) > Signed(right)
    [] condition = 13 -> Signed(left) <= Signed(right)

(* After a comparison every condition says what its name promises of the two words, until
   an instruction that is meant to writes the flags: not one within a block, and no
   handler in between (core.c, it.c). *)
ComparisonTells ==
  promise.compared # NoPair =>
    \A condition \in Conditions :
      Passed(condition, flags) <=> Says(condition, promise.compared[1], promise.compared[2])

(* In a frame a block and a transfer that was cut are never mistaken for each other, and
   of the two one at a time is under way, but in a block that was torn (advanced.c). *)
CutsApart ==
  /\ ici # 0 => promise.torn \/ it = 0
  /\ ~IsIci(it)
(* One bit further, and the bit that fell out *)
ShiftedOnce(type, r) ==
  CASE type = "lsl" -> [value |-> (2 * r.value) % Full, c |-> Negative(r.value)]
    [] type = "lsr" -> [value |-> r.value \div 2, c |-> r.value % 2 = 1]
    [] type = "asr" -> [value |-> (r.value \div 2) + (IF Negative(r.value) THEN SignBit ELSE 0),
                        c |-> r.value % 2 = 1]
    [] type = "ror" -> [value |-> (r.value \div 2) + (IF r.value % 2 = 1 THEN SignBit ELSE 0),
                        c |-> r.value % 2 = 1]

ShiftedBy(type, x, carry, amount) ==
  LET after[k \in 0..amount] ==
        IF k = 0 THEN [value |-> x, c |-> carry] ELSE ShiftedOnce(type, after[k - 1])
  IN  after[amount]

(* A shift by a register's bits is that many shifts by one, carry included; a rotation by a
   register whose low byte is a multiple of the word's width is not, cortex_m4_shift
   takes it for one through the carry (core.c). *)
ShiftsStepByStep ==
  \A type \in ShiftTypes, x \in ItWords, carry \in BOOLEAN, amount \in 0 .. 2 * WordBits :
    type # "ror" \/ amount = 0 \/ amount % WordBits # 0 =>
      ShiftRegister(type, x, amount, carry) = ShiftedBy(type, x, carry, amount)

(* Conditions tell the truth about the comparison before, and decide in every block about
   the instructions they were written for. *)
ConditionsTell == BlockKept /\ ComparisonTells /\ CutsApart
=============================================================================
