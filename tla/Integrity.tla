----------------------------- MODULE Integrity ------------------------------
(* The CRC unit and the random number generator,
   device/kinetis_k22/memory/integrity.c. A register is the set of its bits that are
   one; the widths are parameters, a byte is CrcByte bits. The numbers the generator
   makes are left out. *)
EXTENDS Naturals, Sequences

CONSTANTS
  CrcByte,         \* bits of a byte
  CrcControls,     \* values of CTRL firmware writes
  CrcPolynomials,  \* values of GPOLY
  CrcSeeds,        \* values written to DATA while WAS is set
  CrcBytes,        \* sizes of a data write in bytes: 1, 2 and 4
  CrcMessage,      \* bound: bytes of a message
  RngCycles,       \* cycles until a number is there (64)
  RngSteps         \* cycles that pass in one step

VARIABLES
  crc,             \* crc_value, crc_polynomial, crc_control
  crcFed,          \* the value a message began with, and its bytes
  rng,             \* rng_control, rng_status, rng_cycles
  rngLine,
  rngMade          \* numbers made since firmware last asked for one

crcVars == <<crc, crcFed>>
rngVars == <<rng, rngLine, rngMade>>

-----------------------------------------------------------------------------
(* Registers as sets of bits *)

CrcWidth(wide) == (IF wide THEN 4 ELSE 2) * CrcByte
Places(n) == 0 .. n - 1
XorSets(a, b) == (a \ b) \cup (b \ a)
ShiftedBy(a, n) == {i + n : i \in a}
ByteAt(word, k) == {i \in Places(CrcByte) : i + k * CrcByte \in word}
ReversedBits(byte) == {CrcByte - 1 - i : i \in byte}

CrcControl0 == [in |-> 0, out |-> 0, xor |-> FALSE, seed |-> FALSE, wide |-> FALSE]
CrcAllOnes == Places(CrcWidth(TRUE))

CrcInit ==
  /\ crc = [value |-> CrcAllOnes, polynomial |-> CHOOSE p \in CrcPolynomials : TRUE,
            control |-> CrcControl0]
  /\ crcFed = [from |-> CrcAllOnes, bytes |-> <<>>]

-----------------------------------------------------------------------------
(* The CRC unit *)

(* One bit of crc_accumulate. *)
CrcStep(v, w, p) ==
  XorSets(ShiftedBy(v, 1) \cap Places(w), IF w - 1 \in v THEN p \cap Places(w) ELSE {})

AccumulatedLow(v, byte, w, p) ==  \* mutant: the byte goes in at the low end
  LET state[i \in Places(CrcByte + 1)] ==
        IF i = 0 THEN XorSets(v \cap Places(w), byte) ELSE CrcStep(state[i - 1], w, p)
  IN  state[CrcByte]

(* crc_accumulate: the byte is added at the top, and its bits are shifted out. *)
Accumulated(v, byte, w, p) ==
  LET state[i \in Places(CrcByte + 1)] ==
        IF i = 0 THEN XorSets(v \cap Places(w), ShiftedBy(byte, w - CrcByte))
        ELSE CrcStep(state[i - 1], w, p)
  IN  state[CrcByte]

(* The bytes of a write in the order they are taken: TOT 1 reverses the bits of a byte,
   3 the bytes, 2 both. *)
FedBytes(word, n, tot) ==
  [k \in 1 .. n |->
     LET byte == ByteAt(word, IF tot >= 2 THEN n - k ELSE k - 1)
     IN  IF tot \in {1, 2} THEN ReversedBits(byte) ELSE byte]

WriteCrcData(word, n) ==
  LET w == CrcWidth(crc.control.wide)
      bytes == FedBytes(word, n, crc.control.in)
      after[k \in Places(n + 1)] ==
        IF k = 0 THEN crc.value ELSE Accumulated(after[k - 1], bytes[k], w, crc.polynomial)
  IN  /\ ~crc.control.seed
      /\ Len(crcFed.bytes) + n <= CrcMessage  \* bound
      /\ crc' = [crc EXCEPT !.value = after[n]]
      /\ crcFed' = [crcFed EXCEPT !.bytes = @ \o bytes]

(* With WAS set the bytes from the offset on are replaced. *)
WriteCrcSeed(word, offset, n) ==
  /\ crc.control.seed
  /\ LET covered == {i + offset * CrcByte : i \in Places(n * CrcByte)}
         value == (crc.value \ covered) \cup (ShiftedBy(word, offset * CrcByte) \cap covered)
     IN  /\ crc' = [crc EXCEPT !.value = value]
         /\ crcFed' = [from |-> value, bytes |-> <<>>]

Anew == [from |-> crc.value, bytes |-> <<>>]

WriteCrcControl(control) ==
  /\ crc' = [crc EXCEPT !.control = control]
  /\ crcFed' = IF control.wide = crc.control.wide THEN crcFed ELSE Anew

WriteCrcPolynomial(p) ==
  /\ crc' = [crc EXCEPT !.polynomial = p]
  /\ crcFed' = Anew

CrcResets ==
  /\ crc' = [value |-> CrcAllOnes, polynomial |-> CHOOSE p \in CrcPolynomials : TRUE,
             control |-> CrcControl0]
  /\ crcFed' = [from |-> CrcAllOnes, bytes |-> <<>>]

(* crc_result: what a read of DATA gives, by bytes. *)
CrcResult(value, c) ==
  LET n == CrcWidth(c.wide) \div CrcByte
      byte(k) == IF c.out \in {1, 2} THEN ReversedBits(ByteAt(value, k)) ELSE ByteAt(value, k)
      placed == UNION {ShiftedBy(byte(k), CrcByte * (IF c.out >= 2 THEN n - 1 - k ELSE k)) :
                         k \in Places(n)}
      high == IF c.wide THEN {} ELSE value \ Places(n * CrcByte)
  IN  high \cup (IF c.xor THEN Places(n * CrcByte) \ placed ELSE placed)

CrcNext ==
  \/ \E word \in SUBSET Places(2 * CrcByte), n \in CrcBytes : WriteCrcData(word, n)
  \/ \E word \in CrcSeeds, n \in CrcBytes, offset \in {0, 1} : WriteCrcSeed(word, offset, n)
  \/ \E control \in CrcControls : WriteCrcControl(control)
  \/ \E p \in CrcPolynomials : WriteCrcPolynomial(p)
  \/ CrcResets

-----------------------------------------------------------------------------
(* The generator *)

Rng0 == [go |-> FALSE, ie |-> FALSE, ready |-> FALSE, left |-> 0]

RngInit == rng = Rng0 /\ rngLine = FALSE /\ rngMade = 0

ClearedQuietly(clear) == FALSE  \* mutant: clearing the status leaves the line

RngClears(clear) == clear

(* CR: GO starts, or starts again; CLRERR clears the status with the line. *)
RngWrite(go, ie, clear) ==
  /\ rng' = [go |-> go, ie |-> ie, ready |-> rng.ready /\ ~clear,
             left |-> IF go THEN RngCycles ELSE rng.left]
  /\ rngLine' = (rngLine /\ ~RngClears(clear))
  /\ rngMade' = IF go THEN 0 ELSE rngMade

RngReadOutput ==
  /\ rng' = [rng EXCEPT !.ready = FALSE]
  /\ rngLine' = FALSE
  /\ UNCHANGED rngMade

RngLeft(cycles) == IF cycles >= rng.left THEN 0 ELSE rng.left - cycles

RngAdvance(cycles) ==
  /\ rng.go /\ rng.left # 0
  /\ rng' = [rng EXCEPT !.left = RngLeft(cycles), !.ready = @ \/ cycles >= rng.left]
  /\ rngLine' = (rngLine \/ (cycles >= rng.left /\ rng.ie))
  /\ rngMade' = IF cycles >= rng.left /\ rngMade < 2 THEN rngMade + 1 ELSE rngMade

RngResets ==
  /\ rng' = Rng0
  /\ rngLine' = FALSE
  /\ rngMade' = 0

RngNext ==
  \/ \E go, ie, clear \in BOOLEAN : RngWrite(go, ie, clear)
  \/ RngReadOutput
  \/ \E cycles \in RngSteps : RngAdvance(cycles)
  \/ RngResets

-----------------------------------------------------------------------------
(* Properties *)

(* Types: once a byte has been accumulated the value is as wide as CTRL says
   (crc_accumulate). *)
IntegrityTypeOK ==
  /\ crc.value \subseteq CrcAllOnes /\ crc.control \in CrcControls \cup {CrcControl0}
  /\ crcFed.bytes # <<>> => crc.value \subseteq Places(CrcWidth(crc.control.wide))
  /\ rng.left \in 0 .. RngCycles /\ rng.ready \in BOOLEAN

(* Polynomials over two elements as sets of exponents. *)
PolyTimes(q, g) == {e \in 0 .. 4 * CrcByte + CrcMessage * CrcByte :
                      LET terms == {i \in q : e >= i /\ e - i \in g}
                          odd[s \in SUBSET terms] == IF s = {} THEN FALSE
                            ELSE ~odd[s \ {CHOOSE i \in s : TRUE}]
                      IN  odd[terms]}

(* The value is the remainder the standard defines: some quotient times the generator,
   plus the value, is the message after the seed, shifted by the width
   (crc_accumulate). It holds for every message, split into writes of any size. *)
ValueIsRemainder ==
  LET w == CrcWidth(crc.control.wide)
      n == Len(crcFed.bytes)
      generator == (crc.polynomial \cap Places(w)) \cup {w}
      message == UNION {ShiftedBy(crcFed.bytes[k], w + CrcByte * (n - k)) : k \in 1 .. n}
      dividend == XorSets(ShiftedBy(crcFed.from \cap Places(w), n * CrcByte), message)
  IN  n > 0 => \E q \in SUBSET Places(n * CrcByte) :
                 XorSets(PolyTimes(q, generator), crc.value) = dividend

(* What is read is the value with its bits, its bytes or both turned round over the
   whole width, and inverted when FXOR is set (crc_result). *)
ReadsTurned ==
  LET c == crc.control
      w == CrcWidth(c.wide)
      turned == {CASE c.out = 0 -> i
                   [] c.out = 1 -> (i \div CrcByte) * CrcByte + (CrcByte - 1 - (i % CrcByte))
                   [] c.out = 2 -> w - 1 - i
                   [] OTHER -> w - CrcByte - (i \div CrcByte) * CrcByte + (i % CrcByte) :
                   i \in crc.value \cap Places(w)}
  IN  CrcResult(crc.value, c) \cap Places(w) = IF c.xor THEN Places(w) \ turned ELSE turned

(* The line is up only while a number waits to be read (rng_read, rng_write). *)
RngLineHasNumber == rngLine => rng.ready

(* One number is made each time firmware asks (k22_data_advance). *)
OnePerRequest == rngMade <= 1 /\ (rng.left # 0 => rngMade = 0)
=============================================================================
