------------------------- MODULE InstructionProofs -------------------------
(***************************************************************************)
(* What conditions say and decide, proved for every word, every block and       *)
(* every nesting of handlers.                                                      *)
(***************************************************************************)
EXTENDS Instructions, TLAPS, SequenceTheorems

-----------------------------------------------------------------------------
(* The state of a block *)

(* A block as firmware writes it, or what is left of one *)
WellFormed(block) ==
  /\ block \in Seq(Conditions) /\ Len(block) \in 0..4
  /\ \A k \in 1..Len(block) : block[k] \div 2 = block[1] \div 2

(* A byte of it_state that a frame does not take for a transfer's register *)
Plain(state) == state \in 0..255 /\ (state = 0 \/ state % 16 # 0)

(* Encoded in digits: a condition and four bits. *)
LEMMA EncodedDigits ==
  ASSUME NEW block, WellFormed(block), block # <<>>
  PROVE  /\ block[1] \in 0..13 /\ Len(block) \in 1..4
         /\ \A k \in 2..5 : Low(block, k) \in {0, 1}
         /\ Low(block, Len(block) + 1) = 1
         /\ Encoded(block) = 16 * block[1] + 8 * Low(block, 2) + 4 * Low(block, 3)
                               + 2 * Low(block, 4) + Low(block, 5)
<1>1. Len(block) \in 1..4 /\ block[1] \in 0..13
  <2>1. block \in Seq(0..13) /\ Len(block) \in 0..4
    BY DEF WellFormed, Conditions
  <2>2. Len(block) \in Nat \ {0}
    BY <2>1, EmptySeq
  <2>3. Len(block) \in 1..4
    BY <2>1, <2>2
  <2>4. block[1] \in 0..13
    BY <2>1, <2>3, ElementOfSeq
  <2> QED  BY <2>3, <2>4
<1>2. \A k \in 2..5 : Low(block, k) \in {0, 1}
  BY <1>1 DEF WellFormed, Conditions, Low
<1>3. Encoded(block) = 16 * block[1] + 8 * Low(block, 2) + 4 * Low(block, 3)
                               + 2 * Low(block, 4) + Low(block, 5)
  BY DEF Encoded
<1>4. Low(block, Len(block) + 1) = 1
  BY <1>1 DEF Low
<1> QED  BY <1>1, <1>2, <1>3, <1>4

(* A sum of binary digits, taken apart again *)
LEMMA Digits ==
  /\ \A c \in 0..13, x \in 0..15 : (16 * c + x) % 16 = x /\ 16 * c + x \in 0..255
  /\ \A c \in 0..13, p, q, r, s \in {0, 1} :
       LET state == 16 * c + 8 * p + 4 * q + 2 * r + s
       IN  /\ state % 8 = 4 * q + 2 * r + s
           /\ state \div 32 = c \div 2
           /\ (state * 2) % 32 = 16 * p + 8 * q + 4 * r + 2 * s
<1>1. \A c \in 0..13, x \in 0..15 : (16 * c + x) % 16 = x /\ 16 * c + x \in 0..255
  OBVIOUS
<1>2. ASSUME NEW c \in 0..13, NEW p \in {0, 1}, NEW q \in {0, 1}, NEW r \in {0, 1}, NEW s \in {0, 1}
      PROVE  LET state == 16 * c + 8 * p + 4 * q + 2 * r + s
             IN  /\ state % 8 = 4 * q + 2 * r + s
                 /\ state \div 32 = c \div 2
                 /\ (state * 2) % 32 = 16 * p + 8 * q + 4 * r + 2 * s
  <2>1. c \in Int /\ p \in Int /\ q \in Int /\ r \in Int /\ s \in Int
        /\ 0 <= p /\ p <= 1 /\ 0 <= q /\ q <= 1 /\ 0 <= r /\ r <= 1 /\ 0 <= s /\ s <= 1
    OBVIOUS
  <2>2. (16 * c + 8 * p + 4 * q + 2 * r + s) % 8 = 4 * q + 2 * r + s
    BY <2>1, SMTT(30)
  <2>3. (16 * c + 8 * p + 4 * q + 2 * r + s) \div 32 = c \div 2
    BY <2>1, SMTT(30)
  <2>4. ((16 * c + 8 * p + 4 * q + 2 * r + s) * 2) % 32 = 16 * p + 8 * q + 4 * r + 2 * s
    BY <2>1, SMTT(30)
  <2> QED  BY <2>2, <2>3, <2>4
<1> QED  BY <1>1, <1>2

(* Of no length is one sequence only. *)
LEMMA LengthZero ==
  ASSUME NEW S, NEW t \in Seq(S), Len(t) = 0
  PROVE  t = <<>>
BY EmptySeq

(* A block that is under way is never mistaken for a transfer. *)
LEMMA EncodedPlain ==
  ASSUME NEW block, WellFormed(block)
  PROVE  Plain(Encoded(block))
<1>1. CASE block = <<>>
  BY <1>1 DEF Encoded, Plain
<1>2. CASE block # <<>>
  <2> DEFINE c == block[1]  p == Low(block, 2)  q == Low(block, 3)
             r == Low(block, 4)  s == Low(block, 5)
  <2>1. c \in 0..13 /\ p \in {0, 1} /\ q \in {0, 1} /\ r \in {0, 1} /\ s \in {0, 1}
    BY <1>2, EncodedDigits
  <2>2. Encoded(block) = 16 * c + 8 * p + 4 * q + 2 * r + s
    BY <1>2, EncodedDigits
  <2>3. Len(block) + 1 \in {2, 3, 4, 5} /\ Low(block, Len(block) + 1) = 1
    <3>1. Len(block) \in 1..4 /\ Low(block, Len(block) + 1) = 1
      BY <1>2, EncodedDigits
    <3>2. \A l \in 1..4 : l + 1 \in {2, 3, 4, 5}
      OBVIOUS
    <3> QED  BY <3>1, <3>2
  <2>4. p = 1 \/ q = 1 \/ r = 1 \/ s = 1
    BY <2>3
  <2> HIDE DEF c, p, q, r, s
  <2>5. 8 * p + 4 * q + 2 * r + s \in 1..15
    BY <2>1, <2>4
  <2> DEFINE x == 8 * p + 4 * q + 2 * r + s
  <2>6. Encoded(block) = 16 * c + x
    BY <2>1, <2>2
  <2>7. x \in 1..15
    BY <2>5
  <2> HIDE DEF x
  <2>8. (16 * c + x) % 16 = x /\ 16 * c + x \in 0..255
    BY <2>1, <2>7, Digits
  <2> QED  BY <2>6, <2>7, <2>8 DEF Plain
<1> QED  BY <1>1, <1>2

(* What is left of a block is a block. *)
LEMMA TailWellFormed ==
  ASSUME NEW block, WellFormed(block), block # <<>>
  PROVE  /\ WellFormed(Tail(block)) /\ Len(Tail(block)) = Len(block) - 1
         /\ \A k \in 1 .. Len(block) - 1 : Tail(block)[k] = block[k + 1]
<1>1. /\ Tail(block) \in Seq(Conditions) /\ Len(Tail(block)) = Len(block) - 1
      /\ \A k \in 1 .. Len(block) - 1 : Tail(block)[k] = block[k + 1]
      /\ Len(block) \in 1..4
  <2>1. block \in Seq(Conditions) /\ Len(block) \in 0..4
    BY DEF WellFormed
  <2>2. Len(block) \in Nat \ {0}
    BY <2>1, EmptySeq
  <2>3. Len(block) \in 1..4
    BY <2>1, <2>2
  <2>4. Tail(block) \in Seq(Conditions) /\ Len(Tail(block)) = Len(block) - 1
    BY <2>1, HeadTailProperties
  <2>5. \A k \in 1 .. Len(Tail(block)) : Tail(block)[k] = block[k + 1]
    BY <2>1, HeadTailProperties
  <2> QED  BY <2>3, <2>4, <2>5
<1>2. \A k \in 1 .. Len(Tail(block)) : Tail(block)[k] \div 2 = Tail(block)[1] \div 2
  BY <1>1 DEF WellFormed
<1> QED  BY <1>1, <1>2 DEF WellFormed

(* cortex_m4_it_advance goes from one instruction of a block to the next. *)
LEMMA AdvancedEncoded ==
  ASSUME NEW block, WellFormed(block), block # <<>>
  PROVE  Advanced(Encoded(block)) = Encoded(Tail(block))
<1> DEFINE c == block[1]  p == Low(block, 2)  q == Low(block, 3)
           r == Low(block, 4)  s == Low(block, 5)  n == Len(block)
<1>1. /\ c \in 0..13 /\ p \in {0, 1} /\ q \in {0, 1} /\ r \in {0, 1} /\ s \in {0, 1}
      /\ n \in 1..4
      /\ Encoded(block) = 16 * c + 8 * p + 4 * q + 2 * r + s
  BY EncodedDigits
<1>2. CASE n = 1
  <2>1. q = 0 /\ r = 0 /\ s = 0
    BY <1>2 DEF Low
  <2>2. Tail(block) = <<>>
    <3>1. Tail(block) \in Seq(Conditions) /\ Len(Tail(block)) = 0
      BY <1>2, TailWellFormed DEF WellFormed
    <3> QED  BY <3>1, LengthZero
  <2>3. (16 * c + 8 * p) % 8 = 0
    BY <1>1
  <2> QED  BY <1>1, <2>1, <2>2, <2>3 DEF Advanced, Encoded
<1>3. CASE n > 1
  <2> DEFINE d == Tail(block)[1]
  <2>1. /\ Tail(block) # <<>> /\ WellFormed(Tail(block)) /\ Len(Tail(block)) = n - 1
        /\ d = block[2]
    <3>1. /\ WellFormed(Tail(block)) /\ Len(Tail(block)) = n - 1
          /\ \A k \in 1 .. n - 1 : Tail(block)[k] = block[k + 1]
      BY TailWellFormed
    <3>2. 1 \in 1 .. n - 1
      BY <1>1, <1>3
    <3> QED  BY <1>1, <1>3, <3>1, <3>2
  <2>2. /\ Low(Tail(block), 2) = q /\ Low(Tail(block), 3) = r /\ Low(Tail(block), 4) = s
        /\ Low(Tail(block), 5) = 0
    <3>1. \A k \in 2..4 : Low(Tail(block), k) = Low(block, k + 1)
      <4>1. \A k \in 1 .. Len(block) - 1 : Tail(block)[k] = block[k + 1]
        BY TailWellFormed
      <4>2. Len(Tail(block)) = Len(block) - 1
        BY TailWellFormed
      <4>3. Len(block) \in 1..4
        BY <1>1
      <4> HIDE DEF n, p, q, r, s, c, d
      <4>4. ASSUME NEW k \in 2..4
            PROVE  Low(Tail(block), k) = Low(block, k + 1)
        <5>1. CASE k + 1 <= Len(block)
          <6>1. k \in 1 .. Len(block) - 1 /\ k <= Len(Tail(block))
            BY <4>2, <4>3, <5>1
          <6>2. Tail(block)[k] = block[k + 1]
            BY <4>1, <6>1
          <6> QED  BY <5>1, <6>1, <6>2 DEF Low
        <5>2. CASE k + 1 > Len(block)
          <6>1. ~(k <= Len(Tail(block))) /\ ~(k + 1 <= Len(block))
            BY <4>2, <4>3, <5>2
          <6>2. Len(Tail(block)) + 1 = Len(block)
            BY <4>2, <4>3
          <6>3. k = Len(block) <=> k + 1 = Len(block) + 1
            BY <4>3
          <6> QED  BY <6>1, <6>2, <6>3 DEF Low
        <5> QED  BY <4>3, <5>1, <5>2
      <4> QED  BY <4>4
    <3>2. Low(Tail(block), 5) = 0
      <4>1. Len(Tail(block)) \in 0..3
        <5>1. Len(block) \in 1..4 /\ Len(Tail(block)) = Len(block) - 1
          BY <1>1, TailWellFormed
        <5> QED  BY <5>1
      <4> HIDE DEF n, p, q, r, s, c, d
      <4>2. \A l \in 0..3 : ~(5 <= l) /\ 5 # l + 1
        OBVIOUS
      <4>3. ~(5 <= Len(Tail(block))) /\ 5 # Len(Tail(block)) + 1
        BY <4>1, <4>2, Zenon
      <4> QED  BY <4>3, Zenon DEF Low
    <3> QED  BY <3>1, <3>2
  <2>3. Encoded(Tail(block)) = 16 * d + 8 * q + 4 * r + 2 * s
    <3>1. d \in 0..13
      BY <2>1, EncodedDigits
    <3>2. Encoded(Tail(block)) = 16 * d + 8 * Low(Tail(block), 2) + 4 * Low(Tail(block), 3)
                                   + 2 * Low(Tail(block), 4) + Low(Tail(block), 5)
      BY <2>1, EncodedDigits
    <3> HIDE DEF d, q, r, s
    <3> QED  BY <1>1, <2>2, <3>1, <3>2
  <2>4. d \in 0..13 /\ d \div 2 = c \div 2 /\ p = d % 2
    BY <1>1, <1>3, <2>1 DEF WellFormed, Low, Conditions
  <2>5. q = 1 \/ r = 1 \/ s = 1
    BY <1>1, <1>3, EncodedDigits DEF Low
  <2> HIDE DEF c, d, p, q, r, s, n
  <2> DEFINE state == 16 * c + 8 * p + 4 * q + 2 * r + s
  <2>6. /\ state % 8 = 4 * q + 2 * r + s
        /\ state \div 32 = c \div 2
        /\ (state * 2) % 32 = 16 * p + 8 * q + 4 * r + 2 * s
    BY <1>1, Digits
  <2>9. d = 2 * (c \div 2) + p
    BY <2>4
  <2>10. state % 8 # 0
    BY <1>1, <2>5, <2>6
  <2>11. Advanced(state) = 32 * (c \div 2) + 16 * p + 8 * q + 4 * r + 2 * s
    <3> HIDE DEF state
    <3>1. Advanced(state) = ((state \div 32) * 32) + ((state * 2) % 32)
      BY <2>10 DEF Advanced
    <3> QED  BY <1>1, <3>1, <2>6
  <2>12. Encoded(block) = state
    BY <1>1
  <2> HIDE DEF state
  <2> QED  BY <1>1, <2>3, <2>4, <2>9, <2>11, <2>12
<1>4. n = 1 \/ n > 1
  <2> HIDE DEF n
  <2> QED  BY <1>1
<1> QED  BY <1>2, <1>3, <1>4

(* Advancing leaves a state that is plain. *)
LEMMA AdvancedPlain ==
  ASSUME NEW state, Plain(state)
  PROVE  Plain(Advanced(state)) /\ (state = 0 => Advanced(state) = 0)
<1>1. state \in 0..255
  BY DEF Plain
<1>2. CASE state % 8 = 0
  BY <1>1, <1>2 DEF Advanced, Plain
<1>3. CASE state % 8 # 0
  <2>1. Advanced(state) = ((state \div 32) * 32) + ((state * 2) % 32)
    BY <1>3 DEF Advanced
  <2>2. state \div 32 \in 0..7 /\ (state * 2) % 32 \in 0..31
    BY <1>1
  <2>3. (state * 2) % 16 # 0 /\ ((state * 2) % 32) % 16 = (state * 2) % 16
    BY <1>1, <1>3
  <2>4. \A a \in 0..7, b \in 0..31 : a * 32 + b \in 0..255 /\ (a * 32 + b) % 16 = b % 16
    OBVIOUS
  <2> QED  BY <1>3, <2>1, <2>2, <2>3, <2>4 DEF Plain
<1> QED  BY <1>2, <1>3

-----------------------------------------------------------------------------
(* Comparisons *)

(* The fourteen conditions, by the flags they ask for *)
LEMMA PassedMeans ==
  ASSUME NEW f \in ConditionFlags
  PROVE  /\ Passed(0, f) <=> f.z
         /\ Passed(1, f) <=> ~f.z
         /\ Passed(2, f) <=> f.c
         /\ Passed(3, f) <=> ~f.c
         /\ Passed(4, f) <=> f.n
         /\ Passed(5, f) <=> ~f.n
         /\ Passed(6, f) <=> f.v
         /\ Passed(7, f) <=> ~f.v
         /\ Passed(8, f) <=> (f.c /\ ~f.z)
         /\ Passed(9, f) <=> (~f.c \/ f.z)
         /\ Passed(10, f) <=> (f.n <=> f.v)
         /\ Passed(11, f) <=> (~(f.n <=> f.v))
         /\ Passed(12, f) <=> (~f.z /\ (f.n <=> f.v))
         /\ Passed(13, f) <=> (f.z \/ ~(f.n <=> f.v))
<1>0. f.n \in BOOLEAN /\ f.z \in BOOLEAN /\ f.c \in BOOLEAN /\ f.v \in BOOLEAN
  BY DEF ConditionFlags
<1>1. Passed(0, f) <=> f.z
  BY <1>0 DEF Passed
<1>2. Passed(1, f) <=> ~f.z
  BY <1>0 DEF Passed
<1>3. Passed(2, f) <=> f.c
  BY <1>0 DEF Passed
<1>4. Passed(3, f) <=> ~f.c
  BY <1>0 DEF Passed
<1>5. Passed(4, f) <=> f.n
  BY <1>0 DEF Passed
<1>6. Passed(5, f) <=> ~f.n
  BY <1>0 DEF Passed
<1>7. Passed(6, f) <=> f.v
  BY <1>0 DEF Passed
<1>8. Passed(7, f) <=> ~f.v
  BY <1>0 DEF Passed
<1>9. Passed(8, f) <=> (f.c /\ ~f.z)
  BY <1>0 DEF Passed
<1>10. Passed(9, f) <=> (~f.c \/ f.z)
  BY <1>0 DEF Passed
<1>11. Passed(10, f) <=> (f.n <=> f.v)
  BY <1>0 DEF Passed
<1>12. Passed(11, f) <=> (~(f.n <=> f.v))
  BY <1>0 DEF Passed
<1>13. Passed(12, f) <=> (~f.z /\ (f.n <=> f.v))
  BY <1>0 DEF Passed
<1>14. Passed(13, f) <=> (f.z \/ ~(f.n <=> f.v))
  BY <1>0 DEF Passed
<1> QED  BY <1>1, <1>2, <1>3, <1>4, <1>5, <1>6, <1>7, <1>8, <1>9, <1>10, <1>11, <1>12, <1>13, <1>14

(* What the flags say of the pair that was compared *)
Tells(f, pair) ==
  pair # NoPair =>
    \A condition \in Conditions :
      Passed(condition, f) <=> Says(condition, pair[1], pair[2])

(* The flags of a subtraction, in terms of the operands: equality, order, and the order
   of the numbers they stand for with a sign. *)
LEMMA SubtractionFlags ==
  ASSUME NEW left \in ItWords, NEW right \in ItWords
  PROVE  LET f == SumFlags(AddWithCarry(left, Not(right), TRUE))
             difference == IF left >= right THEN left - right ELSE left - right + Full
         IN  /\ f \in ConditionFlags
             /\ f.z <=> left = right
             /\ f.c <=> left >= right
             /\ f.n <=> Negative(difference)
             /\ f.v <=> Signed(left) - Signed(right) \notin -SignBit .. SignBit - 1
             /\ (f.n <=> f.v) <=> Signed(left) >= Signed(right)
<1> DEFINE sum == left + Not(right) + 1
           value == IF sum < Full THEN sum ELSE sum - Full
           f == SumFlags(AddWithCarry(left, Not(right), TRUE))
           difference == IF left >= right THEN left - right ELSE left - right + Full
<1>1. SignBit \in Nat /\ SignBit > 0
  BY ItAssumption
<1>2. /\ left \in Int /\ 0 <= left /\ left < 2 * SignBit
      /\ right \in Int /\ 0 <= right /\ right < 2 * SignBit
  BY <1>1 DEF ItWords, Full
<1>3. sum = left - right + 2 * SignBit /\ Not(right) = 2 * SignBit - 1 - right
  BY <1>1, <1>2 DEF Not, Full
<1>4. value = difference
  BY <1>1, <1>2, <1>3 DEF Full
<1>5. AddWithCarry(left, Not(right), TRUE)
        = [value |-> value, c |-> sum >= Full,
           v |-> Negative(left) = Negative(Not(right)) /\ Negative(left) # Negative(value)]
  BY DEF AddWithCarry
<1>6. f = [n |-> Negative(value), z |-> value = 0, c |-> sum >= Full,
           v |-> Negative(left) = Negative(Not(right)) /\ Negative(left) # Negative(value)]
  <2> DEFINE r == AddWithCarry(left, Not(right), TRUE)
  <2>1. f = [n |-> Negative(r.value), z |-> r.value = 0, c |-> r.c, v |-> r.v]
    BY DEF SumFlags
  <2>2. /\ r.value = value /\ r.c = (sum >= Full)
        /\ r.v = (Negative(left) = Negative(Not(right)) /\ Negative(left) # Negative(value))
    <3>1. r = [value |-> value, c |-> sum >= Full,
               v |-> Negative(left) = Negative(Not(right)) /\ Negative(left) # Negative(value)]
      BY <1>5
    <3> HIDE DEF r, sum, value
    <3>2. r.value = value
      BY <3>1, Zenon
    <3>3. r.c = (sum >= Full)
      BY <3>1, Zenon
    <3>4. r.v = (Negative(left) = Negative(Not(right)) /\ Negative(left) # Negative(value))
      BY <3>1, Zenon
    <3> QED  BY <3>2, <3>3, <3>4
  <2> HIDE DEF r, f, sum, value
  <2> QED  BY <2>1, <2>2, Zenon
<1> HIDE DEF f, sum, value
<1>7. /\ f.n <=> Negative(value)
      /\ f.z <=> value = 0
      /\ f.c <=> sum >= Full
      /\ f.v <=> (Negative(left) = Negative(Not(right)) /\ Negative(left) # Negative(value))
  BY <1>6, Zenon
<1>8. f \in ConditionFlags
  <2>1. /\ Negative(value) \in BOOLEAN /\ (value = 0) \in BOOLEAN /\ (sum >= Full) \in BOOLEAN
        /\ (Negative(left) = Negative(Not(right)) /\ Negative(left) # Negative(value)) \in BOOLEAN
    BY DEF Negative
  <2> QED  BY <1>6, <2>1, Zenon DEF ConditionFlags
<1>9. f.z <=> left = right
  BY <1>1, <1>2, <1>4, <1>7 DEF Full
<1>10. f.c <=> left >= right
  BY <1>1, <1>2, <1>3, <1>7 DEF Full
<1>11. f.n <=> Negative(difference)
  BY <1>4, <1>7
<1>12. f.v <=> (Negative(left) <=> ~Negative(right)) /\ ~(Negative(left) <=> Negative(difference))
  <2>1. Negative(Not(right)) <=> ~Negative(right)
    BY <1>1, <1>2, <1>3 DEF Negative
  <2> QED  BY <1>4, <1>7, <2>1 DEF Negative
<1> HIDE DEF difference
<1>13. f.v <=> Signed(left) - Signed(right) \notin -SignBit .. SignBit - 1
  BY <1>1, <1>2, <1>12 DEF Negative, Signed, Full, difference
<1>14. (f.n <=> f.v) <=> Signed(left) >= Signed(right)
  BY <1>1, <1>2, <1>11, <1>12 DEF Negative, Signed, Full, difference
<1> QED  BY <1>8, <1>9, <1>10, <1>11, <1>13, <1>14 DEF f, difference

(* After a comparison every condition says what its name promises. *)
LEMMA ComparisonSays ==
  ASSUME NEW left \in ItWords, NEW right \in ItWords
  PROVE  Tells(SumFlags(AddWithCarry(left, Not(right), TRUE)), <<left, right>>)
<1> DEFINE f == SumFlags(AddWithCarry(left, Not(right), TRUE))
           difference == IF left >= right THEN left - right ELSE left - right + Full
<1>1. /\ SignBit \in Int /\ SignBit > 0 /\ left \in Int /\ right \in Int
      /\ Signed(left) \in Int /\ Signed(right) \in Int
      /\ difference \in Int /\ Full \in Int
      /\ left = right <=> Signed(left) = Signed(right)
  BY ItAssumption DEF ItWords, Full, Signed, Negative
<1>2. /\ f \in ConditionFlags
      /\ f.z <=> left = right
      /\ f.c <=> left >= right
      /\ f.n <=> Negative(difference)
      /\ f.v <=> Signed(left) - Signed(right) \notin -SignBit .. SignBit - 1
      /\ (f.n <=> f.v) <=> Signed(left) >= Signed(right)
  BY SubtractionFlags
<1>3. /\ f.z \in BOOLEAN /\ f.c \in BOOLEAN /\ f.n \in BOOLEAN /\ f.v \in BOOLEAN
  BY <1>2 DEF ConditionFlags
<1> HIDE DEF f, difference
<1>4. Passed(0, f) <=> Says(0, left, right)
  <2>1. Says(0, left, right) <=> left = right
    BY <1>1 DEF Says, Negative
  <2> QED  BY <1>1, <1>2, <1>3, <2>1, PassedMeans
<1>5. Passed(1, f) <=> Says(1, left, right)
  <2>1. Says(1, left, right) <=> left # right
    BY <1>1 DEF Says, Negative
  <2> QED  BY <1>1, <1>2, <1>3, <2>1, PassedMeans
<1>6. Passed(2, f) <=> Says(2, left, right)
  <2>1. Says(2, left, right) <=> left >= right
    BY <1>1 DEF Says, Negative
  <2> QED  BY <1>1, <1>2, <1>3, <2>1, PassedMeans
<1>7. Passed(3, f) <=> Says(3, left, right)
  <2>1. Says(3, left, right) <=> left < right
    BY <1>1 DEF Says, Negative
  <2> QED  BY <1>1, <1>2, <1>3, <2>1, PassedMeans
<1>8. Passed(4, f) <=> Says(4, left, right)
  <2>1. Says(4, left, right) <=> Negative(difference)
    BY <1>1 DEF Says, Negative, difference
  <2> QED  BY <1>1, <1>2, <1>3, <2>1, PassedMeans
<1>9. Passed(5, f) <=> Says(5, left, right)
  <2>1. Says(5, left, right) <=> ~Negative(difference)
    BY <1>1 DEF Says, Negative, difference
  <2> QED  BY <1>1, <1>2, <1>3, <2>1, PassedMeans
<1>10. Passed(6, f) <=> Says(6, left, right)
  <2>1. Says(6, left, right) <=> Signed(left) - Signed(right) \notin -SignBit .. SignBit - 1
    BY <1>1 DEF Says, Negative
  <2> QED  BY <1>1, <1>2, <1>3, <2>1, PassedMeans
<1>11. Passed(7, f) <=> Says(7, left, right)
  <2>1. Says(7, left, right) <=> Signed(left) - Signed(right) \in -SignBit .. SignBit - 1
    BY <1>1 DEF Says, Negative
  <2> QED  BY <1>1, <1>2, <1>3, <2>1, PassedMeans
<1>12. Passed(8, f) <=> Says(8, left, right)
  <2>1. Says(8, left, right) <=> left > right
    BY <1>1 DEF Says, Negative
  <2> QED  BY <1>1, <1>2, <1>3, <2>1, PassedMeans
<1>13. Passed(9, f) <=> Says(9, left, right)
  <2>1. Says(9, left, right) <=> left <= right
    BY <1>1 DEF Says, Negative
  <2> QED  BY <1>1, <1>2, <1>3, <2>1, PassedMeans
<1>14. Passed(10, f) <=> Says(10, left, right)
  <2>1. Says(10, left, right) <=> Signed(left) >= Signed(right)
    BY <1>1 DEF Says, Negative
  <2> QED  BY <1>1, <1>2, <1>3, <2>1, PassedMeans
<1>15. Passed(11, f) <=> Says(11, left, right)
  <2>1. Says(11, left, right) <=> Signed(left) < Signed(right)
    BY <1>1 DEF Says, Negative
  <2> QED  BY <1>1, <1>2, <1>3, <2>1, PassedMeans
<1>16. Passed(12, f) <=> Says(12, left, right)
  <2>1. Says(12, left, right) <=> Signed(left) > Signed(right)
    BY <1>1 DEF Says, Negative
  <2> QED  BY <1>1, <1>2, <1>3, <2>1, PassedMeans
<1>17. Passed(13, f) <=> Says(13, left, right)
  <2>1. Says(13, left, right) <=> Signed(left) <= Signed(right)
    BY <1>1 DEF Says, Negative
  <2> QED  BY <1>1, <1>2, <1>3, <2>1, PassedMeans
<1>18. \A condition \in Conditions : Passed(condition, f) <=> Says(condition, left, right)
  <2>1. \A condition \in Conditions : condition \in {0, 1, 2, 3, 4, 5, 6, 7, 8, 9, 10, 11, 12, 13}
    BY DEF Conditions
  <2> QED  BY <2>1, <1>4, <1>5, <1>6, <1>7, <1>8, <1>9, <1>10, <1>11, <1>12, <1>13, <1>14, <1>15, <1>16, <1>17
<1> QED  BY <1>18 DEF Tells, f

-----------------------------------------------------------------------------
(* The inductive invariant *)

Promised ==
  [block : {b \in Seq(Conditions) : WellFormed(b)}, compared : {NoPair} \cup ItOperands,
   torn : BOOLEAN]

Frames == [field : 0..255, flags : ConditionFlags, promise : Promised]

(* The block that cortex_m4_load_xpsr finds in a frame *)
Restored(frame) == IF IsIci(frame.field) THEN 0 ELSE frame.field

(* A frame keeps the promises that were made to what it interrupted: it holds the block
   that is left of it, and flags that tell of its comparison. *)
SoundFrames ==
  {frame \in Frames :
     /\ frame.promise.torn \/ Restored(frame) = Encoded(frame.promise.block)
     /\ Tells(frame.flags, frame.promise.compared)}

ItInv ==
  /\ Plain(it) /\ ici \in 0..15 /\ flags \in ConditionFlags
  /\ itPending \in BOOLEAN /\ promise \in Promised
  /\ itFrames \in Seq(SoundFrames) /\ Len(itFrames) <= ItDepth
  /\ itPending => Len(itFrames) < ItDepth
  /\ BlockKept
  /\ ici # 0 => promise.torn \/ it = 0
  /\ Tells(flags, promise.compared)

(* What the runs check follows from it. *)
LEMMA ItInvTells == ItInv => ItTypeOK /\ ConditionsTell
<1> SUFFICES ASSUME ItInv PROVE ItTypeOK /\ ConditionsTell
  OBVIOUS
<1>1. ItTypeOK
  BY DEF ItInv, ItTypeOK, Plain, Promised
<1>2. ComparisonTells
  BY DEF ItInv, ComparisonTells, Tells
<1>3. CutsApart
  BY DEF ItInv, CutsApart, Plain, IsIci
<1> QED  BY <1>1, <1>2, <1>3 DEF ItInv, ConditionsTell

(* It holds at first. *)
LEMMA ItInvInit == ItInit => ItInv
<1> SUFFICES ASSUME ItInit PROVE ItInv
  OBVIOUS
<1>1. WellFormed(<<>>) /\ <<>> \in Seq(Conditions) /\ <<>> \in Seq(SoundFrames) /\ Len(<<>>) = 0
  BY EmptySeq DEF WellFormed
<1>2. promise \in Promised
  BY <1>1 DEF ItInit, Promised
<1>3. flags \in ConditionFlags
  BY DEF ItInit, ConditionFlags, FlagsOff
<1>4. Tells(flags, promise.compared) /\ BlockKept
  BY DEF ItInit, Tells, BlockKept, Encoded
<1>5. ItDepth \in Nat
  BY ItAssumption
<1>6. Plain(it) /\ ici \in 0..15 /\ itPending = FALSE /\ ici = 0 /\ itFrames = <<>>
  BY DEF ItInit, Plain
<1>7. itFrames \in Seq(SoundFrames) /\ Len(itFrames) <= ItDepth
  BY <1>1, <1>5, <1>6
<1> QED  BY <1>2, <1>3, <1>4, <1>6, <1>7 DEF ItInv

(* Whatever the instruction was, what is left of its block is in it_state. *)
LEMMA Retired ==
  ASSUME ItInv
  PROVE  /\ Plain(Advanced(it)) /\ (it = 0 => Advanced(it) = 0)
         /\ Following \in {b \in Seq(Conditions) : WellFormed(b)}
         /\ promise.torn \/ Advanced(it) = Encoded(Following)
<1>1. Plain(Advanced(it)) /\ (it = 0 => Advanced(it) = 0)
  BY AdvancedPlain DEF ItInv
<1>2. /\ promise.block \in Seq(Conditions) /\ WellFormed(promise.block)
      /\ promise.torn \/ it = Encoded(promise.block)
  BY DEF ItInv, BlockKept, Promised
<1>3. CASE promise.block = <<>>
  BY <1>1, <1>2, <1>3 DEF Following, Encoded
<1>4. CASE promise.block # <<>>
  <2>1. WellFormed(Tail(promise.block)) /\ Tail(promise.block) \in Seq(Conditions)
    BY <1>2, <1>4, TailWellFormed DEF WellFormed
  <2>2. Advanced(Encoded(promise.block)) = Encoded(Tail(promise.block))
    BY <1>2, <1>4, AdvancedEncoded
  <2> QED  BY <1>1, <1>2, <1>4, <2>1, <2>2 DEF Following
<1> QED  BY <1>3, <1>4

(* Shifts return a carry. *)
LEMMA ShiftCarries ==
  ASSUME NEW type \in ShiftTypes, NEW x, NEW amount, NEW carry \in BOOLEAN
  PROVE  Shift(type, x, amount, carry).c \in BOOLEAN
<1>1. \A y, i : Bit(y, i) \in BOOLEAN
  BY DEF Bit
<1>2. \A y : Negative(y) \in BOOLEAN
  BY DEF Negative
<1>3. CASE type = "lsl"
  BY <1>1, <1>3 DEF Shift, ShiftLeft
<1>4. CASE type = "lsr"
  BY <1>1, <1>4 DEF Shift, ShiftRight
<1>5. CASE type = "asr"
  BY <1>1, <1>2, <1>5 DEF Shift, ShiftArithmetic
<1>6. CASE type = "ror"
  BY <1>2, <1>6 DEF Shift, Rotate
<1> QED  BY <1>3, <1>4, <1>5, <1>6 DEF ShiftTypes

(* Whether an instruction is executed is decided, whatever it_state holds. *)
LEMMA ExecutesIsBoolean == Executes \in BOOLEAN
BY DEF Executes

(* Room and pending exceptions: an exception is pended with a slot for its frame. *)
LEMMA StaysInRoom ==
  ASSUME ItInv, NEW undefined \in BOOLEAN, Retires(undefined)
  PROVE  /\ Plain(it)' /\ it' = Advanced(it) /\ itPending' \in BOOLEAN
         /\ itFrames' \in Seq(SoundFrames) /\ Len(itFrames') <= ItDepth
         /\ itPending' => Len(itFrames') < ItDepth
<1>1. it' = Advanced(it) /\ itPending' = undefined /\ itFrames' = itFrames
      /\ (undefined => Len(itFrames) < ItDepth)
  BY DEF Retires, Room
<1>2. Plain(it')
  BY <1>1, Retired
<1> QED  BY <1>1, <1>2 DEF ItInv, Plain

(* Steps that retire an instruction, and write flags and comparison or leave both. *)
LEMMA RetiringStep ==
  ASSUME ItInv, NEW undefined \in BOOLEAN, Retires(undefined),
         NEW compared \in {NoPair} \cup ItOperands, NEW torn \in BOOLEAN,
         promise' = [block |-> Following, compared |-> compared, torn |-> torn],
         promise.torn => torn,
         ici' \in 0..15, ici' # 0 => torn \/ it' = 0,
         flags' \in ConditionFlags, Tells(flags', compared)
  PROVE  ItInv'
<1>1. /\ Plain(it)' /\ it' = Advanced(it) /\ itPending' \in BOOLEAN
      /\ itFrames' \in Seq(SoundFrames) /\ Len(itFrames') <= ItDepth
      /\ itPending' => Len(itFrames') < ItDepth
  BY StaysInRoom
<1>2. promise' \in Promised
  BY Retired DEF Promised
<1>3. promise'.block = Following /\ promise'.compared = compared /\ promise'.torn = torn
  OBVIOUS
<1>4. BlockKept'
  BY <1>1, <1>3, Retired DEF BlockKept
<1> QED  BY <1>1, <1>2, <1>3, <1>4 DEF ItInv

(* IT begins a block, or is refused in one. *)
LEMMA ItInstructionKeeps ==
  ASSUME ItInv, NEW block \in ItBlocks, ItInstruction(block)
  PROVE  ItInv'
<1>1. CASE it = 0
  <2>1. /\ it' = Encoded(block) /\ itPending' = itPending /\ itFrames' = itFrames
        /\ ici' = ici /\ flags' = flags
        /\ promise' = [promise EXCEPT !.block = block, !.torn = @ /\ ici # 0]
    BY <1>1 DEF ItInstruction
  <2>2. WellFormed(block) /\ block \in Seq(Conditions)
    BY ItAssumption DEF WellFormed
  <2>3. Plain(it')
    BY <2>1, <2>2, EncodedPlain
  <2>4. promise \in Promised /\ (ici # 0 => promise.torn)
    BY DEF ItInv, ItInstruction, Fetched
  <2>5. /\ promise' \in Promised /\ promise'.block = block
        /\ promise'.compared = promise.compared
        /\ promise'.torn = (promise.torn /\ ici # 0)
    BY <2>1, <2>2, <2>4 DEF Promised
  <2>6. BlockKept' /\ (ici' # 0 => promise'.torn)
    BY <2>1, <2>4, <2>5 DEF BlockKept
  <2> QED  BY <2>1, <2>3, <2>5, <2>6 DEF ItInv, Plain
<1>2. CASE it # 0
  <2>1. /\ Retires(Executes) /\ ici' = ici /\ flags' = flags
        /\ promise' = [promise EXCEPT !.block = Following]
    BY <1>2 DEF ItInstruction
  <2>2. promise \in Promised /\ flags \in ConditionFlags /\ ici \in 0..15
        /\ (ici # 0 => promise.torn) /\ Tells(flags, promise.compared)
    BY DEF ItInv, ItInstruction, Fetched
  <2> DEFINE compared == promise.compared  torn == promise.torn
  <2>3. /\ promise' = [block |-> Following, compared |-> compared, torn |-> torn]
        /\ compared \in {NoPair} \cup ItOperands /\ torn \in BOOLEAN
    BY <2>1, <2>2 DEF Promised
  <2>4. Executes \in BOOLEAN
    BY ExecutesIsBoolean
  <2> QED  BY <2>1, <2>2, <2>3, <2>4, RetiringStep
<1> QED  BY <1>1, <1>2

(* An arithmetic instruction writes flags and comparison together, or neither. *)
LEMMA OperateKeeps ==
  ASSUME ItInv, NEW operation \in Operations, NEW write \in {"implicit", "explicit"},
         NEW pair \in ItOperands, Operate(operation, write, pair[1], pair[2])
  PROVE  ItInv'
<1> DEFINE left == pair[1]  right == pair[2]
           compared == IF ~Meant(write) THEN promise.compared
                       ELSE IF operation = "sub" THEN <<left, right>> ELSE NoPair
           torn == promise.torn
<1>1. /\ Retires(FALSE) /\ ici' = ici
      /\ promise' = [promise EXCEPT !.block = Following, !.compared = compared]
      /\ flags' = IF FlagsKept(write) THEN flags ELSE SumFlags(Operated(operation, left, right, flags))
  BY DEF Operate
<1>2. FlagsKept(write) <=> ~Meant(write)
  BY DEF FlagsKept, Meant
<1>3. /\ promise \in Promised /\ flags \in ConditionFlags /\ ici \in 0..15
      /\ (ici # 0 => promise.torn) /\ Tells(flags, promise.compared)
  BY DEF ItInv, Operate, Fetched
<1>4. left \in ItWords /\ right \in ItWords /\ pair = <<left, right>>
  BY ItAssumption
<1>5. compared \in {NoPair} \cup ItOperands
  BY <1>3, <1>4 DEF Promised
<1>6. torn \in BOOLEAN /\ promise' = [block |-> Following, compared |-> compared, torn |-> torn]
  BY <1>1, <1>3 DEF Promised
<1>7. flags' \in ConditionFlags
  <2>1. \A sum : SumFlags(sum).z \in BOOLEAN /\ SumFlags(sum).n \in BOOLEAN
    BY DEF SumFlags, Negative
  <2>2. Operated(operation, left, right, flags).c \in BOOLEAN
        /\ Operated(operation, left, right, flags).v \in BOOLEAN
    <3>1. \A a, b, k : AddWithCarry(a, b, k).c \in BOOLEAN /\ AddWithCarry(a, b, k).v \in BOOLEAN
      BY DEF AddWithCarry, Negative
    <3>2. \E a, b, k : Operated(operation, left, right, flags) = AddWithCarry(a, b, k)
      <4> HIDE DEF left, right
      <4>1. CASE operation \in {"add", "adc"}
        BY <4>1 DEF Operated
      <4>2. CASE operation \in {"sbc", "sub"}
        BY <4>2 DEF Operated
      <4>3. CASE operation = "rsb"
        BY <4>3 DEF Operated
      <4> QED  BY <4>1, <4>2, <4>3 DEF Operations
    <3> QED  BY <3>1, <3>2
  <2>3. SumFlags(Operated(operation, left, right, flags)) \in ConditionFlags
    BY <2>2 DEF SumFlags, Negative, ConditionFlags
  <2> QED  BY <1>1, <1>3, <2>3
<1>8. Tells(flags', compared)
  <2>1. CASE ~Meant(write)
    BY <1>1, <1>2, <1>3, <2>1
  <2>2. CASE Meant(write) /\ operation = "sub"
    <3>1. flags' = SumFlags(AddWithCarry(left, Not(right), TRUE))
      BY <1>1, <1>2, <2>2 DEF Operated
    <3> QED  BY <1>4, <2>2, <3>1, ComparisonSays
  <2>3. CASE Meant(write) /\ operation # "sub"
    BY <2>3 DEF Tells
  <2> QED  BY <2>1, <2>2, <2>3
<1> HIDE DEF compared, torn
<1> QED  BY <1>1, <1>3, <1>5, <1>6, <1>7, <1>8, RetiringStep DEF torn

(* So does a bitwise one. *)
LEMMA LogicKeeps ==
  ASSUME ItInv, NEW type \in ShiftTypes, NEW write \in {"implicit", "explicit"},
         NEW x, NEW amount, Logic(type, write, x, amount)
  PROVE  ItInv'
<1> DEFINE compared == IF Meant(write) THEN NoPair ELSE promise.compared
           torn == promise.torn
           result == Shift(type, x, amount, flags.c)
<1>1. /\ Retires(FALSE) /\ ici' = ici
      /\ promise' = [promise EXCEPT !.block = Following, !.compared = compared]
      /\ flags' = IF FlagsKept(write) THEN flags
                  ELSE [flags EXCEPT !.n = Negative(result.value), !.z = result.value = 0,
                                     !.c = result.c]
  BY DEF Logic
<1>2. FlagsKept(write) <=> ~Meant(write)
  BY DEF FlagsKept, Meant
<1>3. /\ promise \in Promised /\ flags \in ConditionFlags /\ ici \in 0..15
      /\ (ici # 0 => promise.torn) /\ Tells(flags, promise.compared)
  BY DEF ItInv, Logic, Fetched
<1>4. compared \in {NoPair} \cup ItOperands
  BY <1>3 DEF Promised
<1>5. torn \in BOOLEAN /\ promise' = [block |-> Following, compared |-> compared, torn |-> torn]
  BY <1>1, <1>3 DEF Promised
<1>6. flags' \in ConditionFlags
  <2>1. result.c \in BOOLEAN
    BY <1>3, ShiftCarries DEF ConditionFlags
  <2>2. Negative(result.value) \in BOOLEAN /\ (result.value = 0) \in BOOLEAN
    BY DEF Negative
  <2> HIDE DEF result
  <2>3. [flags EXCEPT !.n = Negative(result.value), !.z = result.value = 0, !.c = result.c]
           \in ConditionFlags
    BY <1>3, <2>1, <2>2 DEF ConditionFlags
  <2> QED  BY <1>1, <1>3, <2>3
<1>7. Tells(flags', compared)
  BY <1>1, <1>2, <1>3 DEF Tells
<1> HIDE DEF compared, torn
<1> QED  BY <1>1, <1>3, <1>4, <1>5, <1>6, <1>7, RetiringStep DEF torn

(* A branch ends a block or is refused; where it is taken nothing of the block is left. *)
LEMMA BranchKeeps ==
  ASSUME ItInv, Branch
  PROVE  ItInv'
<1> DEFINE compared == promise.compared  torn == promise.torn
<1>1. /\ Retires(Executes /\ ~LastOrNone) /\ ici' = ici /\ flags' = flags
      /\ promise' = [promise EXCEPT !.block = IF BranchTaken THEN <<>> ELSE Following]
  BY DEF Branch
<1>2. /\ promise \in Promised /\ flags \in ConditionFlags /\ ici \in 0..15
      /\ (ici # 0 => promise.torn) /\ Tells(flags, promise.compared)
  BY DEF ItInv, Branch, Fetched
<1>3. (Executes /\ ~LastOrNone) \in BOOLEAN
  OBVIOUS
<1>4. CASE ~BranchTaken
  <2>1. promise' = [block |-> Following, compared |-> compared, torn |-> torn]
        /\ compared \in {NoPair} \cup ItOperands /\ torn \in BOOLEAN
    BY <1>1, <1>2, <1>4 DEF Promised
  <2> QED  BY <1>1, <1>2, <1>3, <2>1, RetiringStep
<1>5. CASE BranchTaken
  <2>1. /\ Plain(it)' /\ it' = Advanced(it) /\ itPending' \in BOOLEAN
        /\ itFrames' \in Seq(SoundFrames) /\ Len(itFrames') <= ItDepth
        /\ itPending' => Len(itFrames') < ItDepth
    BY <1>1, <1>3, StaysInRoom
  <2>2. it' = 0
    BY <1>5, <2>1 DEF BranchTaken, LastOrNone, Advanced
  <2>3. WellFormed(<<>>) /\ <<>> \in Seq(Conditions)
    BY EmptySeq DEF WellFormed
  <2>4. /\ promise' \in Promised /\ promise'.block = <<>>
        /\ promise'.compared = promise.compared /\ promise'.torn = promise.torn
    BY <1>1, <1>2, <1>5, <2>3 DEF Promised
  <2>5. BlockKept'
    BY <2>2, <2>4 DEF BlockKept, Encoded
  <2> QED  BY <1>1, <1>2, <2>1, <2>4, <2>5 DEF ItInv
<1> QED  BY <1>4, <1>5

(* A transfer that ends, or is not executed; of one that was cut only a torn block goes
   on. *)
LEMMA MultipleKeeps ==
  ASSUME ItInv, Multiple
  PROVE  ItInv'
<1> DEFINE compared == promise.compared  torn == promise.torn
<1>1. /\ Retires(FALSE) /\ ici' = (IF Executes THEN 0 ELSE ici) /\ flags' = flags
      /\ promise' = [promise EXCEPT !.block = Following]
  BY DEF Multiple
<1>2. /\ promise \in Promised /\ flags \in ConditionFlags /\ ici \in 0..15
      /\ (ici # 0 => promise.torn \/ it = 0) /\ Tells(flags, promise.compared)
  BY DEF ItInv
<1>3. promise' = [block |-> Following, compared |-> compared, torn |-> torn]
      /\ compared \in {NoPair} \cup ItOperands /\ torn \in BOOLEAN
  BY <1>1, <1>2 DEF Promised
<1>4. ici' \in 0..15 /\ (ici' # 0 => torn)
  BY <1>1, <1>2 DEF Executes
<1> QED  BY <1>1, <1>2, <1>3, <1>4, RetiringStep

(* One that fails: what it leaves of a cut tears the block that follows. *)
LEMMA MultipleFailsKeeps ==
  ASSUME ItInv, MultipleFails
  PROVE  ItInv'
<1> DEFINE compared == promise.compared  torn == promise.torn \/ ici # 0
<1>1. /\ Retires(TRUE) /\ ici' = ici /\ flags' = flags
      /\ promise' = [promise EXCEPT !.block = Following, !.torn = torn]
  BY DEF MultipleFails
<1>2. /\ promise \in Promised /\ flags \in ConditionFlags /\ ici \in 0..15
      /\ Tells(flags, promise.compared)
  BY DEF ItInv
<1>3. promise' = [block |-> Following, compared |-> compared, torn |-> torn]
      /\ compared \in {NoPair} \cup ItOperands /\ torn \in BOOLEAN /\ (promise.torn => torn)
  BY <1>1, <1>2 DEF Promised
<1>4. ici' \in 0..15 /\ (ici' # 0 => torn)
  BY <1>1, <1>2
<1> QED  BY <1>1, <1>2, <1>3, <1>4, RetiringStep

(* One that is cut outside of any block, and one that tears its block *)
LEMMA MultipleCutKeeps ==
  ASSUME ItInv, NEW register \in 1..15, MultipleCut(register)
  PROVE  ItInv'
<1>1. /\ Retires(TRUE) /\ ici' = register /\ flags' = flags
      /\ promise' = [promise EXCEPT !.torn = @ \/ it # 0]
  BY DEF MultipleCut
<1>2. /\ promise \in Promised /\ flags \in ConditionFlags /\ BlockKept
      /\ Tells(flags, promise.compared)
  BY DEF ItInv
<1>3. /\ Plain(it)' /\ it' = Advanced(it) /\ itPending' \in BOOLEAN
      /\ itFrames' \in Seq(SoundFrames) /\ Len(itFrames') <= ItDepth
      /\ itPending' => Len(itFrames') < ItDepth
  BY <1>1, StaysInRoom
<1>4. /\ promise' \in Promised /\ promise'.block = promise.block
      /\ promise'.compared = promise.compared
      /\ promise'.torn = (promise.torn \/ it # 0)
  BY <1>1, <1>2 DEF Promised
<1>5. it = 0 => it' = 0
  BY <1>3, Retired
<1>6. BlockKept' /\ (ici' # 0 => promise'.torn \/ it' = 0)
  BY <1>2, <1>4, <1>5 DEF BlockKept
<1> QED  BY <1>1, <1>2, <1>3, <1>4, <1>6 DEF ItInv

(* The frame of an entry is sound: whichever of the two it holds, the other is 0. *)
LEMMA FrameIsSound ==
  ASSUME ItInv
  PROVE  Frame \in SoundFrames
<1>1. /\ Plain(it) /\ ici \in 0..15 /\ flags \in ConditionFlags /\ promise \in Promised
      /\ BlockKept /\ (ici # 0 => promise.torn \/ it = 0) /\ Tells(flags, promise.compared)
  BY DEF ItInv
<1>2. Stacked \in 0..255
  BY <1>1 DEF Stacked, Plain
<1>3. Frame \in Frames
  BY <1>1, <1>2 DEF Frame, Frames
<1>4. Restored(Frame) = IF ici # 0 THEN 0 ELSE it
  <2>1. ici # 0 => IsIci(16 * ici)
    BY <1>1 DEF IsIci
  <2>2. ~IsIci(it)
    BY <1>1 DEF IsIci, Plain
  <2> QED  BY <2>1, <2>2 DEF Restored, Frame, Stacked
<1>5. promise.torn \/ Restored(Frame) = Encoded(promise.block)
  BY <1>1, <1>4 DEF BlockKept
<1>6. Frame.promise = promise /\ Frame.flags = flags
  BY DEF Frame
<1> QED  BY <1>1, <1>3, <1>5, <1>6 DEF SoundFrames

(* A handler begins outside of any block, and promised nothing. *)
LEMMA EntryKeeps ==
  ASSUME ItInv, ItEntry
  PROVE  ItInv'
<1>1. /\ itPending /\ itFrames' = <<Frame>> \o itFrames /\ it' = 0 /\ ici' = 0
      /\ itPending' = FALSE /\ promise' = [promise EXCEPT !.block = <<>>, !.torn = FALSE]
      /\ flags' = flags
  BY DEF ItEntry, EntryClears
<1>2. /\ promise \in Promised /\ flags \in ConditionFlags /\ Tells(flags, promise.compared)
      /\ itFrames \in Seq(SoundFrames) /\ Len(itFrames) < ItDepth
  BY <1>1 DEF ItInv
<1>3. <<Frame>> \in Seq(SoundFrames) /\ Len(<<Frame>>) = 1
  BY FrameIsSound
<1>4. itFrames' \in Seq(SoundFrames) /\ Len(itFrames') = 1 + Len(itFrames)
  BY <1>1, <1>2, <1>3, ConcatProperties
<1>5. Len(itFrames') <= ItDepth
  <2>1. Len(itFrames) \in Nat /\ ItDepth \in Nat
    BY <1>2, ItAssumption
  <2> QED  BY <1>2, <1>4, <2>1
<1>6. WellFormed(<<>>) /\ <<>> \in Seq(Conditions)
  BY EmptySeq DEF WellFormed
<1>7. /\ promise' \in Promised /\ promise'.block = <<>>
      /\ promise'.compared = promise.compared
  BY <1>1, <1>2, <1>6 DEF Promised
<1>8. Plain(it)' /\ BlockKept'
  BY <1>1, <1>7 DEF Plain, BlockKept, Encoded
<1>9. ici' = 0 /\ ici' \in 0..15 /\ flags' = flags
  BY <1>1
<1>10. itPending' \in BOOLEAN /\ ~itPending'
  BY <1>1
<1>11. itFrames' \in Seq(SoundFrames)
  BY <1>4
<1> QED  BY <1>2, <1>5, <1>7, <1>8, <1>9, <1>10, <1>11, Zenon DEF ItInv

(* Nor did the one that follows it. *)
LEMMA TailChainKeeps ==
  ASSUME ItInv, ItTailChain
  PROVE  ItInv'
<1>1. /\ it' = 0 /\ ici' = 0 /\ flags' = flags /\ itPending' = itPending
      /\ itFrames' = itFrames /\ promise' = [promise EXCEPT !.block = <<>>, !.torn = FALSE]
  BY DEF ItTailChain
<1>2. /\ promise \in Promised /\ flags \in ConditionFlags /\ Tells(flags, promise.compared)
  BY DEF ItInv
<1>3. WellFormed(<<>>) /\ <<>> \in Seq(Conditions)
  BY EmptySeq DEF WellFormed
<1>4. /\ promise' \in Promised /\ promise'.block = <<>>
      /\ promise'.compared = promise.compared
  BY <1>1, <1>2, <1>3 DEF Promised
<1>5. Plain(it)' /\ BlockKept'
  BY <1>1, <1>4 DEF Plain, BlockKept, Encoded
<1> QED  BY <1>1, <1>2, <1>4, <1>5 DEF ItInv

(* A return finds in the frame what was promised when it was written; the step that ends a
   block of the handler's own tears the one restored. *)
LEMMA ReturnKeeps ==
  ASSUME ItInv, ItReturn
  PROVE  ItInv'
<1> DEFINE frame == Head(itFrames)  restored == Restored(frame)
           torn == frame.promise.torn \/ (it # 0 /\ restored # 0)
<1>1. itFrames \in Seq(SoundFrames) /\ itFrames # <<>> /\ Len(itFrames) <= ItDepth
      /\ itPending = FALSE /\ it \in 0..255
  BY DEF ItInv, ItReturn, Returns, Fetched, Plain
<1>2. frame \in SoundFrames /\ Tail(itFrames) \in Seq(SoundFrames)
      /\ Len(Tail(itFrames)) = Len(itFrames) - 1
  BY <1>1, HeadTailProperties
<1>3. /\ it' = IF it = 0 THEN restored ELSE Advanced(restored)
      /\ ici' = IF IsIci(frame.field) THEN frame.field \div 16 ELSE 0
      /\ flags' = frame.flags
      /\ promise' = [frame.promise EXCEPT !.torn = torn]
      /\ itFrames' = Tail(itFrames) /\ itPending' = itPending
  BY DEF ItReturn, Restored
<1> HIDE DEF frame
<1>4. /\ frame \in Frames /\ frame.field \in 0..255 /\ frame.flags \in ConditionFlags
      /\ frame.promise \in Promised
      /\ frame.promise.torn \/ restored = Encoded(frame.promise.block)
      /\ Tells(frame.flags, frame.promise.compared)
  BY <1>2 DEF SoundFrames, Frames
<1>5. Plain(restored) /\ (IsIci(frame.field) => restored = 0)
  BY <1>4 DEF Restored, Plain, IsIci
<1>6. Plain(it)' /\ (restored = 0 => it' = 0)
  BY <1>3, <1>5, AdvancedPlain
<1>7. ici' \in 0..15 /\ (ici' # 0 => it' = 0)
  <2>1. CASE IsIci(frame.field)
    <3>1. it' = 0 /\ ici' = frame.field \div 16
      BY <1>3, <1>5, <1>6, <2>1
    <3>2. \A field \in 0..255 : field \div 16 \in 0..15
      OBVIOUS
    <3> QED  BY <1>4, <3>1, <3>2
  <2>2. CASE ~IsIci(frame.field)
    BY <1>3, <2>2
  <2> QED  BY <2>1, <2>2
<1> HIDE DEF restored
<1>8. /\ promise' \in Promised /\ promise'.block = frame.promise.block
      /\ promise'.compared = frame.promise.compared /\ promise'.torn = torn
  BY <1>3, <1>4 DEF Promised
<1>9. BlockKept'
  BY <1>3, <1>4, <1>6, <1>8 DEF BlockKept
<1>10. itFrames' \in Seq(SoundFrames) /\ Len(itFrames') <= ItDepth
  <2>1. Len(itFrames) \in Nat /\ ItDepth \in Nat
    BY <1>1, ItAssumption
  <2> QED  BY <1>1, <1>2, <1>3, <2>1
<1> QED  BY <1>1, <1>3, <1>4, <1>6, <1>7, <1>8, <1>9, <1>10 DEF ItInv

(* Every step keeps the invariant. *)
LEMMA ItInvStep == ItInv /\ [ItNext]_itVars => ItInv'
<1> SUFFICES ASSUME ItInv, [ItNext]_itVars PROVE ItInv'
  OBVIOUS
<1>1. ASSUME NEW block \in ItBlocks, ItInstruction(block) PROVE ItInv'
  BY <1>1, ItInstructionKeeps
<1>2. ASSUME NEW operation \in Operations, NEW write \in {"implicit", "explicit"},
             NEW pair \in ItOperands, Operate(operation, write, pair[1], pair[2])
      PROVE  ItInv'
  BY <1>2, OperateKeeps
<1>3. ASSUME NEW type \in ShiftTypes, NEW write \in {"implicit", "explicit"},
             NEW pair \in ItOperands, Logic(type, write, pair[1], pair[2] % WordBits)
      PROVE  ItInv'
  BY <1>3, LogicKeeps
<1>4. ASSUME NEW register \in 1..15, MultipleCut(register) PROVE ItInv'
  BY <1>4, MultipleCutKeeps
<1>5. CASE Arrives
  <2>1. Len(itFrames) < ItDepth /\ itPending' = ~itPending
        /\ UNCHANGED <<it, ici, flags, itFrames, promise>>
    BY <1>5 DEF Arrives, Room
  <2> QED  BY <2>1 DEF ItInv, Plain, BlockKept, Tells
<1>6. CASE UNCHANGED itVars
  BY <1>6 DEF itVars, ItInv, Plain, BlockKept, Tells
<1> QED  BY <1>1, <1>2, <1>3, <1>4, <1>5, <1>6, BranchKeeps, MultipleKeeps,
            MultipleFailsKeeps, EntryKeeps, ReturnKeeps, TailChainKeeps DEF ItNext

(* Whatever words are compared, however blocks and handlers nest and wherever exceptions
   come: conditions tell the truth about the comparison before, and decide in every block
   about the instructions they were written for, but in a torn one. *)
THEOREM ConditionsAlwaysTell == ItSpec => []ConditionsTell
<1>1. ItSpec => []ItInv
  BY ItInvInit, ItInvStep, PTL DEF ItSpec
<1> QED  BY <1>1, ItInvTells, PTL

(* And the state is typed, the frames of what is nested within their room. *)
THEOREM InstructionsTyped == ItSpec => []ItTypeOK
<1>1. ItSpec => []ItInv
  BY ItInvInit, ItInvStep, PTL DEF ItSpec
<1> QED  BY <1>1, ItInvTells, PTL
=============================================================================
