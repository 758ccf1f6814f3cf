--------------------------- MODULE DatapathProofs ---------------------------
(***************************************************************************)
(* What the operators of the datapath return, for every width of word.     *)
(* The proofs about the core cite these lemmas instead of the definitions. *)
(***************************************************************************)
EXTENDS Datapath, Program, TLAPS

(***************************************************************************)
(* Arithmetic.                                                             *)
(***************************************************************************)

\* The sizes the definitions divide by are positive, and ordered; every trap
\* cause fits a word.
LEMMA Widths ==
  /\ BYTE \in Nat /\ BYTE > 1
  /\ HALF \in Nat /\ HALF > BYTE
  /\ WORD \in Nat /\ WORD > HALF /\ WORD > 11
<1>1. BYTE \in Nat /\ BYTE >= 2
  BY ByteAssumption
<1>2. HALF \in Nat /\ HALF >= 2 * BYTE
  BY <1>1 DEF HALF
<1>3. WORD \in Nat /\ WORD >= 4 * HALF
  BY <1>1, <1>2 DEF WORD
<1> QED
  BY <1>1, <1>2, <1>3

LEMMA ModRange ==
  ASSUME NEW a \in Int, NEW m \in Nat, m > 0
  PROVE  a % m \in 0 .. m - 1
OBVIOUS

\* An addition wraps to a word, and the low bits of an operand are a word.
LEMMA WrapType == ASSUME NEW a \in Int PROVE a % WORD \in Word
BY Widths, ModRange DEF Word

LEMMA LowType == ASSUME NEW e \in Extended PROVE Low(e) \in Word
BY WrapType DEF Low, Extended

LEMMA WordIsExtended == Word \subseteq Extended /\ Word \subseteq Nat /\ 0 \in Word /\ 1 \in Word
BY Widths DEF Word, Extended

\* The address of the line around an address.
LEMMA LineOfWord == ASSUME NEW a \in Word PROVE a - (a % 4) \in Line
BY Widths DEF Word, Line

(***************************************************************************)
(* Gates.                                                                  *)
(***************************************************************************)
LEMMA GateTypes ==
  ASSUME NEW a \in Word, NEW b \in Word
  PROVE  /\ BitAnd(a, b) \in Word
         /\ BitOr(a, b) \in Word
         /\ BitXor(a, b) \in Word
         /\ BitOr(0, b) = b
         /\ BitOr(a, 0) = a
BY GateAssumption

LEMMA MaskType == ASSUME NEW c, NEW v \in Word PROVE Mask(c, v) \in Word
BY WordIsExtended DEF Mask

LEMMA Or3Type ==
  ASSUME NEW a \in Word, NEW b \in Word, NEW c \in Word
  PROVE  Or3(a, b, c) \in Word
BY GateTypes DEF Or3

(***************************************************************************)
(* Units.                                                                  *)
(***************************************************************************)
LEMMA AluType ==
  ASSUME NEW en, NEW cmd, NEW a \in Extended, NEW b \in Extended
  PROVE  alu_data_o(en, cmd, a, b) \in Word
<1>1. addition_res(a, b) \in Extended
  <2>1. a + b \in Int /\ 2 * WORD \in Nat /\ 2 * WORD > 0
    BY Widths DEF Extended
  <2> QED
    BY <2>1, ModRange DEF addition_res, Extended
<1>2. Low(a) \in Word /\ Low(b) \in Word /\ Low(addition_res(a, b)) \in Word
  BY <1>1, LowType
<1> QED
  BY <1>2, GateTypes, WordIsExtended DEF alu_data_o

\* The distances of the stages, and what they multiply or divide by.
LEMMA Distances ==
  ASSUME NEW k \in 1 .. 5
  PROVE  SHIFTS[k] \in {0, 1, 2, 4, 8, 16} /\ 2 ^ SHIFTS[k] \in Nat /\ 2 ^ SHIFTS[k] > 0
<1>1. SHIFTS[k] \in {0, 1, 2, 4, 8, 16}
  <2>1. k = 1 \/ k = 2 \/ k = 3 \/ k = 4 \/ k = 5
    OBVIOUS
  <2> QED
    BY <2>1 DEF SHIFTS
<1>2. ASSUME NEW d, d \in {0, 1, 2, 4, 8, 16} PROVE 2 ^ d \in Nat /\ 2 ^ d > 0
  <2>1. d = 0 => 2 ^ d = 1
    OBVIOUS
  <2>2. d = 1 => 2 ^ d = 2
    OBVIOUS
  <2>3. d = 2 => 2 ^ d = 4
    OBVIOUS
  <2>4. d = 4 => 2 ^ d = 16
    OBVIOUS
  <2>5. d = 8 => 2 ^ d = 256
    OBVIOUS
  <2>6. d = 16 => 2 ^ d = 65536
    OBVIOUS
  <2> QED
    BY <1>2, <2>1, <2>2, <2>3, <2>4, <2>5, <2>6
<1> QED
  BY <1>1, <1>2

\* A stage of the shifter takes a word to a word.
LEMMA StageTypes ==
  ASSUME NEW w \in Word, NEW b \in Word, NEW k \in 1 .. 5, NEW s
  PROVE  /\ l_stage(w, b, SHIFTS[k], s) \in Word
         /\ r_stage(w, b, SHIFTS[k], s) \in Word
<1> DEFINE f == 2 ^ SHIFTS[k]
<1>1. f \in Nat /\ f > 0 /\ w \in Nat
  BY Distances, WordIsExtended
<1> HIDE DEF f
<1>2. (w * f + (IF s THEN f - 1 ELSE 0)) % WORD \in Word
  BY <1>1, WrapType
<1>3. w \div f \in Int /\ WORD \div f \in Int
  BY <1>1, Widths
<1>4. ((w \div f) + (IF s THEN WORD - (WORD \div f) ELSE 0)) % WORD \in Word
  BY <1>3, Widths, WrapType
<1> QED
  BY <1>2, <1>4 DEF l_stage, r_stage, f

LEMMA ShifterType ==
  ASSUME NEW en, NEW cmd, NEW a \in Extended, NEW b \in Extended
  PROVE  shifter_data_o(en, cmd, a, b) \in Word
<1>1. Low(a) \in Word /\ Low(b) \in Word
  BY LowType
<1>2. \A s : l_shift1(Low(a), Low(b), s) \in Word
  BY <1>1, StageTypes DEF l_shift1
<1>3. \A s : r_shift1(Low(a), Low(b), s) \in Word
  BY <1>1, StageTypes DEF r_shift1
<1> QED
  BY <1>2, <1>3, WordIsExtended DEF shifter_data_o

LEMMA BuTypes ==
  ASSUME NEW en, NEW cmd, NEW a \in Extended, NEW b \in Extended, NEW unsign,
         NEW imm \in Word, NEW pc \in Word
  PROVE  /\ bu_pc_nxt(en, cmd, a, b, unsign, imm, pc) \in Word
         /\ bu_data_o(pc) \in Word
<1>1. Low(a) \in Word
  BY LowType
<1>2. Low(a) \in Int /\ imm \in Int /\ pc \in Int
  BY <1>1 DEF Word
<1> QED
  BY <1>2, WrapType, WordIsExtended DEF bu_pc_nxt, bu_data_o

LEMMA LsuAdrType ==
  ASSUME NEW en, NEW a \in Extended, NEW imm \in Word
  PROVE  lsu_adr(en, a, imm) \in Word
<1>1. Low(a) \in Word
  BY LowType
<1>2. Low(a) \in Int /\ imm \in Int
  BY <1>1 DEF Word
<1> QED
  BY <1>2, WrapType, WordIsExtended DEF lsu_adr

LEMMA ByteRange ==
  ASSUME NEW w \in Word, NEW k \in 0 .. 3
  PROVE  ByteOf(w, k) \in 0 .. BYTE - 1
<1>1. w \in Nat /\ w < (HALF * BYTE) * BYTE
  BY Widths DEF Word, WORD, HALF
<1>2. /\ w \div BYTE \in Nat
      /\ w \div HALF \in Nat
  BY <1>1, Widths
<1>3. w \div (HALF * BYTE) \in 0 .. BYTE - 1
  <2>1. HALF * BYTE \in Nat /\ HALF * BYTE > 0
    BY Widths
  <2> QED
    BY <1>1, <2>1, Widths
<1> QED
  BY <1>1, <1>2, <1>3, ModRange, Widths DEF ByteOf

LEMMA HalfRange ==
  ASSUME NEW w \in Word, NEW k
  PROVE  HalfOf(w, k) \in 0 .. HALF - 1
<1>1. w \in Nat /\ w < HALF * HALF
  BY Widths DEF Word, WORD
<1> QED
  BY <1>1, ModRange, Widths DEF HalfOf

LEMMA LsuDataType ==
  ASSUME NEW adr \in Word, NEW size, NEW unsign, NEW w \in Word
  PROVE  lsu_data_o(adr, size, unsign, w) \in Word
<1>1. adr % 4 \in 0 .. 3
  BY WordIsExtended
<1>2. ByteOf(w, adr % 4) \in 0 .. BYTE - 1
  BY <1>1, ByteRange
<1>3. HalfOf(w, adr % 4) \in 0 .. HALF - 1
  BY HalfRange
<1> QED
  BY <1>2, <1>3, Widths DEF lsu_data_o, Word

(***************************************************************************)
(* The adder on XLEN+1 bits.                                               *)
(***************************************************************************)

\* What decides a remainder.
LEMMA ModUnique ==
  ASSUME NEW q \in Int, NEW m \in Nat, m > 0, NEW r \in 0 .. m - 1
  PROVE  (q * m + r) % m = r /\ (q * m + r) \div m = q
OBVIOUS

\* A multiple of the modulus does not count.
LEMMA ModShift ==
  ASSUME NEW a \in Int, NEW k \in Int, NEW m \in Nat, m > 0
  PROVE  (a + k * m) % m = a % m
<1> DEFINE q == a \div m
           r == a % m
<1>1. q \in Int /\ r \in 0 .. m - 1 /\ a = q * m + r
  OBVIOUS
<1>2. a + k * m = (q + k) * m + r
  BY <1>1
<1>3. q + k \in Int
  BY <1>1
<1> HIDE DEF q, r
<1>4. ((q + k) * m + r) % m = r
  BY <1>1, <1>3, ModUnique
<1> QED
  BY <1>2, <1>4 DEF r

\* The low bits of a sum are those of the sum of the low bits.
LEMMA AdderSum ==
  ASSUME NEW a \in Extended, NEW b \in Extended
  PROVE  Low(addition_res(a, b)) = (Low(a) + Low(b)) % WORD
<1>1. a \in Nat /\ b \in Nat /\ a < 2 * WORD /\ b < 2 * WORD /\ WORD \in Nat /\ WORD > 0
  BY Widths DEF Extended
<1>2. a % WORD = (IF a < WORD THEN a ELSE a - WORD) /\ b % WORD = (IF b < WORD THEN b ELSE b - WORD)
  BY <1>1
<1>3. (a + b) % (2 * WORD) = IF a + b < 2 * WORD THEN a + b ELSE a + b - 2 * WORD
  BY <1>1
<1>4. \A k \in {-2, -1, 0} : (a + b + k * WORD) % WORD = (a + b) % WORD
  BY <1>1, ModShift
<1>5. (a + b - 2 * WORD) % WORD = (a + b) % WORD /\ (a + b - WORD) % WORD = (a + b) % WORD
  BY <1>1, <1>4
<1>6. ((a % WORD) + (b % WORD)) % WORD = (a + b) % WORD
  BY <1>1, <1>2, <1>5
<1> QED
  BY <1>3, <1>5, <1>6 DEF Low, addition_res

\* Adding the two's complement of an operand subtracts it; the top bit tells the
\* sign of the difference and the low bits are the difference on a word.
LEMMA ModSplit ==
  ASSUME NEW a \in Int, NEW m \in Nat, m > 0
  PROVE  \E k \in Int : a = k * m + (a % m)
<1>1. a \div m \in Int /\ a = (a \div m) * m + (a % m)
  OBVIOUS
<1> QED
  BY <1>1

LEMMA AdderDifference ==
  ASSUME NEW x \in Int, NEW y \in Int, x - y \in -WORD .. WORD - 1
  PROVE  LET d == addition_res(x % (2 * WORD), (-(y % (2 * WORD))) % (2 * WORD))
         IN  /\ Borrow(d) <=> x < y
             /\ Low(d) = (x - y) % WORD
<1> DEFINE M == 2 * WORD
           e == x % M
           f == y % M
           g == (-f) % M
<1>1. WORD \in Nat /\ WORD > 0
  BY Widths
<1>2. M \in Nat /\ M > 0 /\ e \in Int /\ f \in Int /\ g \in Int
  BY <1>1
<1>3. PICK j \in Int : x = j * M + e
  BY <1>2, ModSplit
<1>4. PICK k \in Int : y = k * M + f
  BY <1>2, ModSplit
<1>5. PICK l \in Int : -f = l * M + g
  <2>1. -f \in Int /\ g = (-f) % M
    BY <1>2
  <2> HIDE DEF M, f, g
  <2> QED
    BY <1>2, <2>1, ModSplit
<1>6. (e + g) % M = (x - y) % M
  <2> HIDE DEF M, e, f, g
  <2>1. (x - y) + (k - j - l) * M = e + g
    BY <1>2, <1>3, <1>4, <1>5
  <2>2. k - j - l \in Int /\ x - y \in Int
    OBVIOUS
  <2>3. ((x - y) + (k - j - l) * M) % M = (x - y) % M
    BY <1>2, <2>2, ModShift
  <2> QED
    BY <2>1, <2>3
<1>7. (x - y) % M = IF x < y THEN (x - y) + M ELSE x - y
  BY <1>1
<1>8. addition_res(e, g) = IF x < y THEN (x - y) + M ELSE x - y
  BY <1>6, <1>7 DEF addition_res
<1>9. ((x - y) + M) % WORD = (x - y) % WORD
  BY <1>1, ModShift
<1> QED
  BY <1>1, <1>8, <1>9 DEF Borrow, Low

(***************************************************************************)
(* The five stages of the shifter.                                         *)
(***************************************************************************)

\* Powers of two, for as many bits as a word has.  The provers know the power of
\* a literal only: the lemmas are about Power, whose definition is expanded when
\* the exponent is one.
Power(n) == 2 ^ n

LEMMA PowerDoubles ==
  ASSUME NEW n \in 0 .. 31
  PROVE  Power(n) \in Nat \ {0} /\ Power(n + 1) = 2 * Power(n)
<1>1. n = 0 => Power(n) \in Nat \ {0} /\ Power(n + 1) = 2 * Power(n)
  BY DEF Power
<1>2. n = 1 => Power(n) \in Nat \ {0} /\ Power(n + 1) = 2 * Power(n)
  BY DEF Power
<1>3. n = 2 => Power(n) \in Nat \ {0} /\ Power(n + 1) = 2 * Power(n)
  BY DEF Power
<1>4. n = 3 => Power(n) \in Nat \ {0} /\ Power(n + 1) = 2 * Power(n)
  BY DEF Power
<1>5. n = 4 => Power(n) \in Nat \ {0} /\ Power(n + 1) = 2 * Power(n)
  BY DEF Power
<1>6. n = 5 => Power(n) \in Nat \ {0} /\ Power(n + 1) = 2 * Power(n)
  BY DEF Power
<1>7. n = 6 => Power(n) \in Nat \ {0} /\ Power(n + 1) = 2 * Power(n)
  BY DEF Power
<1>8. n = 7 => Power(n) \in Nat \ {0} /\ Power(n + 1) = 2 * Power(n)
  BY DEF Power
<1>9. n = 8 => Power(n) \in Nat \ {0} /\ Power(n + 1) = 2 * Power(n)
  BY DEF Power
<1>10. n = 9 => Power(n) \in Nat \ {0} /\ Power(n + 1) = 2 * Power(n)
  BY DEF Power
<1>11. n = 10 => Power(n) \in Nat \ {0} /\ Power(n + 1) = 2 * Power(n)
  BY DEF Power
<1>12. n = 11 => Power(n) \in Nat \ {0} /\ Power(n + 1) = 2 * Power(n)
  BY DEF Power
<1>13. n = 12 => Power(n) \in Nat \ {0} /\ Power(n + 1) = 2 * Power(n)
  BY DEF Power
<1>14. n = 13 => Power(n) \in Nat \ {0} /\ Power(n + 1) = 2 * Power(n)
  BY DEF Power
<1>15. n = 14 => Power(n) \in Nat \ {0} /\ Power(n + 1) = 2 * Power(n)
  BY DEF Power
<1>16. n = 15 => Power(n) \in Nat \ {0} /\ Power(n + 1) = 2 * Power(n)
  BY DEF Power
<1>17. n = 16 => Power(n) \in Nat \ {0} /\ Power(n + 1) = 2 * Power(n)
  BY DEF Power
<1>18. n = 17 => Power(n) \in Nat \ {0} /\ Power(n + 1) = 2 * Power(n)
  BY DEF Power
<1>19. n = 18 => Power(n) \in Nat \ {0} /\ Power(n + 1) = 2 * Power(n)
  BY DEF Power
<1>20. n = 19 => Power(n) \in Nat \ {0} /\ Power(n + 1) = 2 * Power(n)
  BY DEF Power
<1>21. n = 20 => Power(n) \in Nat \ {0} /\ Power(n + 1) = 2 * Power(n)
  BY DEF Power
<1>22. n = 21 => Power(n) \in Nat \ {0} /\ Power(n + 1) = 2 * Power(n)
  BY DEF Power
<1>23. n = 22 => Power(n) \in Nat \ {0} /\ Power(n + 1) = 2 * Power(n)
  BY DEF Power
<1>24. n = 23 => Power(n) \in Nat \ {0} /\ Power(n + 1) = 2 * Power(n)
  BY DEF Power
<1>25. n = 24 => Power(n) \in Nat \ {0} /\ Power(n + 1) = 2 * Power(n)
  BY DEF Power
<1>26. n = 25 => Power(n) \in Nat \ {0} /\ Power(n + 1) = 2 * Power(n)
  BY DEF Power
<1>27. n = 26 => Power(n) \in Nat \ {0} /\ Power(n + 1) = 2 * Power(n)
  BY DEF Power
<1>28. n = 27 => Power(n) \in Nat \ {0} /\ Power(n + 1) = 2 * Power(n)
  BY DEF Power
<1>29. n = 28 => Power(n) \in Nat \ {0} /\ Power(n + 1) = 2 * Power(n)
  BY DEF Power
<1>30. n = 29 => Power(n) \in Nat \ {0} /\ Power(n + 1) = 2 * Power(n)
  BY DEF Power
<1>31. n = 30 => Power(n) \in Nat \ {0} /\ Power(n + 1) = 2 * Power(n)
  BY DEF Power
<1>32. n = 31 => Power(n) \in Nat \ {0} /\ Power(n + 1) = 2 * Power(n)
  BY DEF Power
<1> QED
  BY <1>1, <1>2, <1>3, <1>4, <1>5, <1>6, <1>7, <1>8, <1>9, <1>10, <1>11, <1>12,
     <1>13, <1>14, <1>15, <1>16, <1>17, <1>18, <1>19, <1>20, <1>21, <1>22, <1>23, <1>24,
     <1>25, <1>26, <1>27, <1>28, <1>29, <1>30, <1>31, <1>32

LEMMA PowerType == \A k \in 0 .. 32 : Power(k) \in Nat \ {0}
<1>1. \A k \in 0 .. 31 : Power(k) \in Nat \ {0}
  BY PowerDoubles
<1>2. Power(32) \in Nat \ {0}
  BY DEF Power
<1> QED
  BY <1>1, <1>2

\* A stage multiplies by the power of its distance.
LEMMA PowerPlus ==
  ASSUME NEW n \in 0 .. 32, NEW d \in {0, 1, 2, 4, 8, 16}, n + d <= 32
  PROVE  Power(n + d) = Power(n) * Power(d)
<1>1. \A k \in 0 .. 31 : Power(k + 1) = 2 * Power(k)
  BY PowerDoubles
<1>2. \A k \in 0 .. 30 : Power(k + 2) = 4 * Power(k)
  <2> SUFFICES ASSUME NEW k \in 0 .. 30 PROVE Power(k + 2) = 4 * Power(k)
    OBVIOUS
  <2>1. k + 1 \in 0 .. 31 /\ k \in 0 .. 31 /\ (k + 1) + 1 = k + 2
    OBVIOUS
  <2>2. Power(k + 2) = 2 * Power(k + 1) /\ Power(k + 1) = 2 * Power(k)
    BY <1>1, <2>1
  <2> QED
    BY <2>1, <2>2, PowerType
<1>3. \A k \in 0 .. 28 : Power(k + 4) = 16 * Power(k)
  <2> SUFFICES ASSUME NEW k \in 0 .. 28 PROVE Power(k + 4) = 16 * Power(k)
    OBVIOUS
  <2>1. k + 2 \in 0 .. 30 /\ k \in 0 .. 30 /\ (k + 2) + 2 = k + 4
    OBVIOUS
  <2>2. Power(k + 4) = 4 * Power(k + 2) /\ Power(k + 2) = 4 * Power(k)
    BY <1>2, <2>1
  <2> QED
    BY <2>1, <2>2, PowerType
<1>4. \A k \in 0 .. 24 : Power(k + 8) = 256 * Power(k)
  <2> SUFFICES ASSUME NEW k \in 0 .. 24 PROVE Power(k + 8) = 256 * Power(k)
    OBVIOUS
  <2>1. k + 4 \in 0 .. 28 /\ k \in 0 .. 28 /\ (k + 4) + 4 = k + 8
    OBVIOUS
  <2>2. Power(k + 8) = 16 * Power(k + 4) /\ Power(k + 4) = 16 * Power(k)
    BY <1>3, <2>1
  <2> QED
    BY <2>1, <2>2, PowerType
<1>5. \A k \in 0 .. 16 : Power(k + 16) = 65536 * Power(k)
  <2> SUFFICES ASSUME NEW k \in 0 .. 16 PROVE Power(k + 16) = 65536 * Power(k)
    OBVIOUS
  <2>1. k + 8 \in 0 .. 24 /\ k \in 0 .. 24 /\ (k + 8) + 8 = k + 16
    OBVIOUS
  <2>2. Power(k + 16) = 256 * Power(k + 8) /\ Power(k + 8) = 256 * Power(k)
    BY <1>4, <2>1
  <2> QED
    BY <2>1, <2>2, PowerType
<1>6. Power(0) = 1 /\ Power(1) = 2 /\ Power(2) = 4 /\ Power(4) = 16 /\ Power(8) = 256
        /\ Power(16) = 65536
  BY DEF Power
<1>7. n + 0 = n /\ Power(n) \in Nat
  BY PowerType
<1> QED
  BY <1>1, <1>2, <1>3, <1>4, <1>5, <1>6, <1>7

\* What a stage multiplies or divides by.
Distance(b, d) == IF stage_v(b, d) THEN d ELSE 0
Factor(b, d)   == Power(Distance(b, d))

\* The distances of the stages an amount turns on add up to the amount, modulo
\* the number of bits of a word.
LEMMA DistancesAddUp ==
  ASSUME NEW b \in Word
  PROVE  Distance(b, SHIFTS[1]) + (Distance(b, SHIFTS[2]) + (Distance(b, SHIFTS[3])
           + (Distance(b, SHIFTS[4]) + Distance(b, SHIFTS[5])))) = b % XLEN
<1> DEFINE bit(d) == (b \div d) % 2
<1>1. b \in Nat
  BY WordIsExtended
<1>2. \A d \in {1, 2, 4, 8, 16} : bit(d) \in {0, 1} /\ Distance(b, d) = d * bit(d)
  <2> SUFFICES ASSUME NEW d \in {1, 2, 4, 8, 16}
               PROVE  bit(d) \in {0, 1} /\ Distance(b, d) = d * bit(d)
    OBVIOUS
  <2>1. bit(d) \in {0, 1}
    BY <1>1
  <2>2. d > 0 /\ d * 1 = d /\ d * 0 = 0
    OBVIOUS
  <2> QED
    BY <2>1, <2>2 DEF Distance, stage_v
<1>3. Distance(b, 0) = 0
  BY DEF Distance, stage_v
<1>4. bit(1) = b % 2
  BY <1>1
<1>5. CASE XLEN = 32
  <2>1. SHIFTS = <<16, 8, 4, 2, 1>>
    BY <1>5 DEF SHIFTS
  <2>2. b % 32 = 16 * ((b \div 16) % 2) + (8 * ((b \div 8) % 2) + (4 * ((b \div 4) % 2)
                   + (2 * ((b \div 2) % 2) + (b % 2))))
    BY <1>1
  <2> QED
    BY <1>2, <1>4, <1>5, <2>1, <2>2
<1>6. CASE XLEN = 16
  <2>1. SHIFTS = <<0, 8, 4, 2, 1>>
    BY <1>6 DEF SHIFTS
  <2>2. b % 16 = 8 * ((b \div 8) % 2) + (4 * ((b \div 4) % 2)
                   + (2 * ((b \div 2) % 2) + (b % 2)))
    BY <1>1
  <2> QED
    BY <1>2, <1>3, <1>4, <1>6, <2>1, <2>2
<1>7. CASE XLEN = 8
  <2>1. SHIFTS = <<0, 0, 4, 2, 1>>
    BY <1>7 DEF SHIFTS
  <2>2. b % 8 = 4 * ((b \div 4) % 2) + (2 * ((b \div 2) % 2) + (b % 2))
    BY <1>1
  <2> QED
    BY <1>2, <1>3, <1>4, <1>7, <2>1, <2>2
<1>8. CASE XLEN = 4
  <2>1. SHIFTS = <<0, 0, 0, 2, 1>>
    BY <1>8 DEF SHIFTS
  <2>2. b % 4 = 2 * ((b \div 2) % 2) + (b % 2)
    BY <1>1
  <2> QED
    BY <1>2, <1>3, <1>4, <1>8, <2>1, <2>2
<1> QED
  BY <1>5, <1>6, <1>7, <1>8, XlenAssumption

LEMMA AmountType ==
  ASSUME NEW b \in Word
  PROVE  b % XLEN \in 0 .. 31 /\ Power(b % XLEN) \in Nat \ {0}
<1>1. b \in Nat /\ XLEN \in Nat /\ XLEN > 0 /\ XLEN <= 32
  BY WordIsExtended, XlenAssumption
<1>2. b % XLEN \in 0 .. 31
  BY <1>1, ModRange
<1> QED
  BY <1>2, PowerType

\* So the stages together multiply or divide by the power of the amount.
LEMMA FactorsMultiply ==
  ASSUME NEW b \in Word
  PROVE  Factor(b, SHIFTS[1]) * (Factor(b, SHIFTS[2]) * (Factor(b, SHIFTS[3])
           * (Factor(b, SHIFTS[4]) * Factor(b, SHIFTS[5])))) = Power(b % XLEN)
<1> DEFINE D(k) == Distance(b, SHIFTS[k])
<1>1. \A k \in 1 .. 5 : D(k) \in {0, 1, 2, 4, 8, 16}
  BY Distances DEF Distance
<1>2. b % XLEN \in 0 .. 31
  BY AmountType
<1>3. D(1) + (D(2) + (D(3) + (D(4) + D(5)))) = b % XLEN
  BY DistancesAddUp
<1>4. /\ Factor(b, SHIFTS[1]) = Power(D(1)) /\ Factor(b, SHIFTS[2]) = Power(D(2))
      /\ Factor(b, SHIFTS[3]) = Power(D(3)) /\ Factor(b, SHIFTS[4]) = Power(D(4))
      /\ Factor(b, SHIFTS[5]) = Power(D(5))
  BY DEF Factor
<1> HIDE DEF D
<1>5. \A k \in 1 .. 5 : D(k) \in 0 .. 32 /\ Power(D(k)) \in Nat
  BY <1>1, PowerType
<1>6. ASSUME NEW n \in Nat, NEW k \in 1 .. 5, n + D(k) <= 32
      PROVE  Power(D(k) + n) = Power(D(k)) * Power(n)
  <2>1. n \in 0 .. 32 /\ D(k) + n = n + D(k)
    BY <1>5, <1>6
  <2>2. D(k) \in {0, 1, 2, 4, 8, 16}
    BY <1>1
  <2>3. Power(n + D(k)) = Power(n) * Power(D(k))
    BY <1>6, <2>1, <2>2, PowerPlus
  <2>4. Power(n) \in Nat /\ Power(D(k)) \in Nat
    BY <1>5, <2>1, PowerType
  <2> QED
    BY <2>1, <2>3, <2>4
<1> DEFINE low   == D(4) + D(5)
           mid   == D(3) + low
           upper == D(2) + mid
<1>7. /\ D(5) \in Nat /\ D(5) + D(4) <= 32
      /\ low \in Nat /\ low + D(3) <= 32
      /\ mid \in Nat /\ mid + D(2) <= 32
      /\ upper \in Nat /\ upper + D(1) <= 32
      /\ b % XLEN = D(1) + upper
  <2>1. /\ D(1) \in 0 .. 32 /\ D(2) \in 0 .. 32 /\ D(3) \in 0 .. 32
        /\ D(4) \in 0 .. 32 /\ D(5) \in 0 .. 32
    BY <1>5
  <2>2. D(1) + (D(2) + (D(3) + (D(4) + D(5)))) <= 32
    BY <1>2, <1>3
  <2>3. low \in Nat /\ mid \in Nat /\ upper \in Nat
    BY <2>1
  <2> HIDE DEF upper
  <2>4. upper + D(1) <= 32
    BY <2>1, <2>2, <2>3 DEF upper
  <2> HIDE DEF mid
  <2>5. mid + D(2) <= 32
    BY <2>1, <2>3, <2>4 DEF upper
  <2> HIDE DEF low
  <2>6. low + D(3) <= 32
    BY <2>1, <2>3, <2>5 DEF mid
  <2>7. D(5) \in Nat /\ D(5) + D(4) <= 32
    BY <2>1, <2>3, <2>6 DEF low
  <2> QED
    BY <1>3, <2>3, <2>4, <2>5, <2>6, <2>7 DEF low, mid, upper
<1>8. Power(low) = Power(D(4)) * Power(D(5))
  BY <1>6, <1>7
<1> HIDE DEF low
<1>9. Power(mid) = Power(D(3)) * Power(low)
  BY <1>6, <1>7
<1> HIDE DEF mid
<1>10. Power(upper) = Power(D(2)) * Power(mid)
  BY <1>6, <1>7
<1> HIDE DEF upper
<1>11. Power(b % XLEN) = Power(D(1)) * Power(upper)
  BY <1>6, <1>7
<1> QED
  BY <1>4, <1>8, <1>9, <1>10, <1>11

\* The powers of the distances divide the number of words.
LEMMA FactorDivides ==
  ASSUME NEW b, NEW k \in 1 .. 5
  PROVE  /\ Factor(b, SHIFTS[k]) \in Nat \ {0}
         /\ \E m \in Nat \ {0} : WORD = m * Factor(b, SHIFTS[k])
<1> DEFINE d == Distance(b, SHIFTS[k])
<1>1. d \in {0, 1, 2, 4, 8, 16} /\ d <= XLEN
  <2>1. SHIFTS[k] \in {0, 1, 2, 4, 8, 16} /\ SHIFTS[k] <= XLEN
    <3>1. k = 1 \/ k = 2 \/ k = 3 \/ k = 4 \/ k = 5
      OBVIOUS
    <3> QED
      BY <3>1, XlenAssumption DEF SHIFTS
  <2> QED
    BY <2>1, XlenAssumption DEF Distance
<1> HIDE DEF d
<1>2. XLEN - d \in 0 .. 32 /\ (XLEN - d) + d = XLEN /\ XLEN <= 32 /\ d \in 0 .. 32
  BY <1>1, XlenAssumption
<1>3. Power(XLEN) = Power(XLEN - d) * Power(d)
  BY <1>1, <1>2, PowerPlus
<1>4. Power(XLEN - d) \in Nat \ {0} /\ Power(d) \in Nat \ {0}
  BY <1>2, PowerType
<1>5. WORD = Power(XLEN)
  BY XlenAssumption DEF Power
<1> QED
  BY <1>3, <1>4, <1>5 DEF Factor, d

(***************************************************************************)
(* Left shift.                                                             *)
(***************************************************************************)
LEMMA ModTimes ==
  ASSUME NEW a \in Int, NEW f \in Int, NEW m \in Nat, m > 0
  PROVE  ((a % m) * f) % m = (a * f) % m
<1>1. PICK k \in Int : a = k * m + (a % m)
  BY ModSplit
<1> DEFINE r == a % m
<1>2. r \in Int
  OBVIOUS
<1>3. a = k * m + r
  BY <1>1
<1> HIDE DEF r
<1>4. a * f = r * f + (k * f) * m /\ r * f \in Int /\ k * f \in Int
  BY <1>2, <1>3
<1>5. (r * f + (k * f) * m) % m = (r * f) % m
  BY <1>4, ModShift
<1> QED
  BY <1>4, <1>5 DEF r

LEMMA LeftStage ==
  ASSUME NEW a \in Nat, NEW b, NEW k \in 1 .. 5
  PROVE  l_stage(a % WORD, b, SHIFTS[k], FALSE) = (a * Factor(b, SHIFTS[k])) % WORD
<1> DEFINE f == Factor(b, SHIFTS[k])
<1>1. f \in Nat /\ WORD \in Nat /\ WORD > 0
  BY FactorDivides, Widths
<1>2. (a % WORD) * f + 0 = (a % WORD) * f
  BY <1>1
<1> HIDE DEF f
<1>3. ((a % WORD) * f) % WORD = (a * f) % WORD
  <2>1. a \in Int /\ f \in Int
    BY <1>1
  <2> QED
    BY <1>1, <2>1, ModTimes
<1>4. CASE stage_v(b, SHIFTS[k])
  <2>1. f = 2 ^ SHIFTS[k]
    BY <1>4 DEF f, Factor, Distance, Power
  <2>2. l_stage(a % WORD, b, SHIFTS[k], FALSE) = ((a % WORD) * 2 ^ SHIFTS[k] + 0) % WORD
    BY <1>4 DEF l_stage
  <2>3. l_stage(a % WORD, b, SHIFTS[k], FALSE) = ((a % WORD) * f + 0) % WORD
    BY <2>1, <2>2
  <2>4. l_stage(a % WORD, b, SHIFTS[k], FALSE) = (a * f) % WORD
    BY <1>2, <1>3, <2>3
  <2> QED
    BY <2>4 DEF f
<1>5. CASE ~stage_v(b, SHIFTS[k])
  <2>1. f = 1
    BY <1>5 DEF f, Factor, Distance, Power
  <2>2. a * 1 = a
    OBVIOUS
  <2> QED
    BY <1>5, <2>1, <2>2 DEF l_stage, f
<1> QED
  BY <1>4, <1>5 DEF f

\* The stages of a left shift multiply, on a word, by the power of the amount
\* modulo XLEN (shifter.sv).
LEMMA LeftShift ==
  ASSUME NEW a \in Word, NEW b \in Word
  PROVE  l_shift1(a, b, FALSE) = (a * Power(b % XLEN)) % WORD
<1> DEFINE f(k) == Factor(b, SHIFTS[k])
<1>1. \A k \in 1 .. 5 : f(k) \in Nat
  BY FactorDivides
<1>2. ASSUME NEW n \in Nat, NEW k \in 1 .. 5
      PROVE  n * f(k) \in Nat /\ l_stage(n % WORD, b, SHIFTS[k], FALSE) = (n * f(k)) % WORD
  <2>1. f(k) \in Nat /\ l_stage(n % WORD, b, SHIFTS[k], FALSE) = (n * f(k)) % WORD
    BY <1>1, LeftStage
  <2> HIDE DEF f
  <2>2. n * f(k) \in Nat
    BY <2>1
  <2> QED
    BY <2>1, <2>2
<1>3. f(1) * (f(2) * (f(3) * (f(4) * f(5)))) = Power(b % XLEN)
  BY FactorsMultiply
<1>4. a \in Nat /\ a % WORD = a
  BY Widths DEF Word
<1> HIDE DEF f
<1> DEFINE n1 == a * f(1)
           n2 == n1 * f(2)
           n3 == n2 * f(3)
           n4 == n3 * f(4)
           n5 == n4 * f(5)
<1>5. n5 = a * (f(1) * (f(2) * (f(3) * (f(4) * f(5)))))
  BY <1>1, <1>4
<1>6. 1 \in 1 .. 5 /\ 2 \in 1 .. 5 /\ 3 \in 1 .. 5 /\ 4 \in 1 .. 5 /\ 5 \in 1 .. 5
  OBVIOUS
<1>7. n1 \in Nat /\ l_stage(a % WORD, b, SHIFTS[1], FALSE) = n1 % WORD
  BY <1>2, <1>4, <1>6
<1> HIDE DEF n1
<1>8. n2 \in Nat /\ l_stage(n1 % WORD, b, SHIFTS[2], FALSE) = n2 % WORD
  BY <1>2, <1>6, <1>7
<1> HIDE DEF n2
<1>9. n3 \in Nat /\ l_stage(n2 % WORD, b, SHIFTS[3], FALSE) = n3 % WORD
  BY <1>2, <1>6, <1>8
<1> HIDE DEF n3
<1>10. n4 \in Nat /\ l_stage(n3 % WORD, b, SHIFTS[4], FALSE) = n4 % WORD
  BY <1>2, <1>6, <1>9
<1> HIDE DEF n4
<1>11. l_stage(n4 % WORD, b, SHIFTS[5], FALSE) = n5 % WORD
  BY <1>2, <1>6, <1>10
<1> HIDE DEF n5
<1> QED
  BY <1>3, <1>4, <1>5, <1>7, <1>8, <1>9, <1>10, <1>11 DEF l_shift1

(***************************************************************************)
(* Right shift, of a number that has the sign the stages fill in.          *)
(***************************************************************************)
LEMMA DivDiv ==
  ASSUME NEW v \in Int, NEW p \in Nat \ {0}, NEW q \in Nat \ {0}
  PROVE  (v \div p) \div q = v \div (p * q)
OBVIOUS

LEMMA DivKeepsSign ==
  ASSUME NEW v \in Int, NEW f \in Nat \ {0}, NEW m \in Nat, -m <= v, v < m
  PROVE  v \div f \in Int /\ -m <= v \div f /\ v \div f < m /\ (v \div f < 0 <=> v < 0)
OBVIOUS

LEMMA DivShift ==
  ASSUME NEW v \in Int, NEW f \in Nat \ {0}, NEW m \in Int
  PROVE  (v + m * f) \div f = (v \div f) + m
OBVIOUS

LEMMA RightStage ==
  ASSUME NEW v \in Int, -WORD <= v, v < WORD, NEW b, NEW k \in 1 .. 5
  PROVE  r_stage(v % WORD, b, SHIFTS[k], v < 0) = (v \div Factor(b, SHIFTS[k])) % WORD
<1> DEFINE f == Factor(b, SHIFTS[k])
<1>1. f \in Nat \ {0} /\ WORD \in Nat /\ WORD > 0
  BY FactorDivides, Widths
<1>2. PICK m \in Nat \ {0} : WORD = m * f
  BY FactorDivides
<1>3. v \div f \in Int /\ -WORD <= v \div f /\ v \div f < WORD /\ (v \div f < 0 <=> v < 0)
  BY <1>1, DivKeepsSign
<1>4. CASE stage_v(b, SHIFTS[k])
  <2>1. f = 2 ^ SHIFTS[k]
    BY <1>4 DEF Factor, Distance, Power
  <2>2. r_stage(v % WORD, b, SHIFTS[k], v < 0)
          = (((v % WORD) \div f) + (IF v < 0 THEN WORD - (WORD \div f) ELSE 0)) % WORD
    BY <1>4, <2>1 DEF r_stage
  <2> HIDE DEF f
  <2>3. WORD \div f = m
    BY <1>1, <1>2
  <2>4. CASE v < 0
    <3>1. v % WORD = v + m * f
      BY <1>1, <1>2, <2>4
    <3>2. (v + m * f) \div f = (v \div f) + m
      <4>1. m \in Int
        BY <1>1
      <4> QED
        BY <1>1, <4>1, DivShift
    <3> DEFINE q == v \div f
    <3>3. q \in Int
      BY <1>3 DEF f
    <3> HIDE DEF q
    <3>4. (q + m) + (WORD - m) = q + 1 * WORD
      BY <1>1, <3>3
    <3>5. (q + 1 * WORD) % WORD = q % WORD
      <4>1. 1 \in Int
        OBVIOUS
      <4> QED
        BY <1>1, <3>3, <4>1, ModShift
    <3> QED
      BY <2>2, <2>3, <2>4, <3>1, <3>2, <3>4, <3>5 DEF f, q
  <2>5. CASE ~(v < 0)
    <3>1. v % WORD = v /\ (v \div f) + 0 = v \div f
      BY <1>1, <1>3, <2>5
    <3> QED
      BY <2>2, <2>5, <3>1 DEF f
  <2> QED
    BY <2>4, <2>5
<1>5. CASE ~stage_v(b, SHIFTS[k])
  <2>1. f = 1
    BY <1>5 DEF Factor, Distance, Power
  <2>2. v \div 1 = v
    OBVIOUS
  <2> QED
    BY <1>5, <2>1, <2>2 DEF r_stage
<1> QED
  BY <1>4, <1>5

\* The stages of a right shift divide by the power of the amount modulo XLEN,
\* rounding down, when the bits they fill in are the sign (shifter.sv).
LEMMA RightShift ==
  ASSUME NEW v \in Int, -WORD <= v, v < WORD, NEW b \in Word
  PROVE  r_shift1(v % WORD, b, v < 0) = (v \div Power(b % XLEN)) % WORD
<1> DEFINE f(k) == Factor(b, SHIFTS[k])
           v1 == v \div f(1)
           v2 == v1 \div f(2)
           v3 == v2 \div f(3)
           v4 == v3 \div f(4)
           v5 == v4 \div f(5)
<1>1. \A k \in 1 .. 5 : f(k) \in Nat \ {0}
  BY FactorDivides
<1>2. \A k \in 1 .. 5 : \A u \in Int :
        -WORD <= u /\ u < WORD
          => r_stage(u % WORD, b, SHIFTS[k], u < 0) = (u \div f(k)) % WORD
  BY RightStage
<1>3. f(1) * (f(2) * (f(3) * (f(4) * f(5)))) = Power(b % XLEN)
  BY FactorsMultiply
<1>4. WORD \in Nat
  BY Widths
<1> HIDE DEF f
<1>5. \A k \in 1 .. 5 : \A u \in Int :
        -WORD <= u /\ u < WORD
          => u \div f(k) \in Int /\ -WORD <= u \div f(k) /\ u \div f(k) < WORD
             /\ (u \div f(k) < 0 <=> u < 0)
  BY <1>1, <1>4, DivKeepsSign
<1>6. v1 \in Int /\ -WORD <= v1 /\ v1 < WORD /\ (v1 < 0 <=> v < 0)
  BY <1>5
<1> HIDE DEF v1
<1>7. v2 \in Int /\ -WORD <= v2 /\ v2 < WORD /\ (v2 < 0 <=> v < 0)
  BY <1>5, <1>6
<1> HIDE DEF v2
<1>8. v3 \in Int /\ -WORD <= v3 /\ v3 < WORD /\ (v3 < 0 <=> v < 0)
  BY <1>5, <1>7
<1> HIDE DEF v3
<1>9. v4 \in Int /\ -WORD <= v4 /\ v4 < WORD /\ (v4 < 0 <=> v < 0)
  BY <1>5, <1>8
<1> HIDE DEF v4
<1>10. r_shift1(v % WORD, b, v < 0) = v5 % WORD
  <2> DEFINE s == v < 0
  <2>1. r_stage(v % WORD, b, SHIFTS[1], s) = v1 % WORD
    BY <1>2 DEF v1
  <2>2. r_stage(v1 % WORD, b, SHIFTS[2], s) = v2 % WORD
    BY <1>2, <1>6 DEF v2
  <2>3. r_stage(v2 % WORD, b, SHIFTS[3], s) = v3 % WORD
    BY <1>2, <1>7 DEF v3
  <2>4. r_stage(v3 % WORD, b, SHIFTS[4], s) = v4 % WORD
    BY <1>2, <1>8 DEF v4
  <2>5. r_stage(v4 % WORD, b, SHIFTS[5], s) = v5 % WORD
    BY <1>2, <1>9
  <2> QED
    BY <2>1, <2>2, <2>3, <2>4, <2>5 DEF r_shift1
<1>11. v5 = v \div (f(1) * (f(2) * (f(3) * (f(4) * f(5)))))
  <2>1. v5 = v3 \div (f(4) * f(5)) /\ f(4) * f(5) \in Nat \ {0}
    BY <1>1, <1>8, DivDiv DEF v4
  <2>2. v5 = v2 \div (f(3) * (f(4) * f(5))) /\ f(3) * (f(4) * f(5)) \in Nat \ {0}
    BY <1>1, <1>7, <2>1, DivDiv DEF v3
  <2>3. /\ v5 = v1 \div (f(2) * (f(3) * (f(4) * f(5))))
        /\ f(2) * (f(3) * (f(4) * f(5))) \in Nat \ {0}
    BY <1>1, <1>6, <2>2, DivDiv DEF v2
  <2> QED
    BY <1>1, <2>3, DivDiv DEF v1
<1> QED
  BY <1>3, <1>10, <1>11

(***************************************************************************)
(* Memory.                                                                 *)
(***************************************************************************)

\* Replacing one of the n-valued fields of a number below s * (n * m), the
\* one that counts s values, keeps it below s * (n * m).
LEMMA PutRange ==
  ASSUME NEW w \in Nat, NEW s \in Nat, NEW n \in Nat, NEW m \in Nat, s > 0, n > 0,
         w < s * (n * m), NEW d \in 0 .. n - 1
  PROVE  w + (d - ((w \div s) % n)) * s \in 0 .. s * (n * m) - 1
<1> DEFINE q == w \div s
           r == w % s
           h == q \div n
           b == q % n
<1>1. q \in Nat /\ r \in 0 .. s - 1 /\ w = q * s + r
  OBVIOUS
<1>2. q < n * m
  <2>1. CASE q >= n * m
    <3>1. q * s >= s * (n * m)
      BY <1>1, <2>1
    <3> QED
      BY <1>1, <3>1
  <2> QED
    BY <1>1, <2>1
<1>3. h \in Nat /\ b \in 0 .. n - 1 /\ q = h * n + b
  BY <1>1
<1>4. h < m
  <2>1. CASE h >= m
    <3>1. h * n >= n * m
      BY <1>3, <2>1
    <3> QED
      BY <1>2, <1>3, <3>1
  <2> QED
    BY <1>3, <2>1
<1> DEFINE p == h * n + d
<1>5. p \in Nat /\ p <= n * m - 1
  <2>1. h * n + n <= n * m
    BY <1>3, <1>4
  <2>2. h * n \in Nat /\ n * m \in Nat
    BY <1>3
  <2> QED
    BY <2>1, <2>2
<1>6. w + (d - b) * s = p * s + r
  <2>1. q * s + (d - b) * s = (q + (d - b)) * s
    BY <1>1, <1>3
  <2>2. q + (d - b) = p
    BY <1>3
  <2>3. (d - b) * s \in Int /\ q * s \in Int
    BY <1>1, <1>3
  <2> QED
    BY <1>1, <2>1, <2>2, <2>3
<1>7. p * s + s <= s * (n * m)
  BY <1>5
<1>8. p * s \in Nat
  BY <1>5
<1> QED
  BY <1>1, <1>6, <1>7, <1>8

LEMMA PutByteType ==
  ASSUME NEW w \in Word, NEW data \in Word
  PROVE  /\ PutByte(w, 0, 1, data) \in Word
         /\ PutByte(w, 1, BYTE, data) \in Word
         /\ PutByte(w, 2, HALF, data) \in Word
         /\ PutByte(w, 3, HALF * BYTE, data) \in Word
<1> DEFINE d == ByteOf(data, 0)
<1>1. d \in 0 .. BYTE - 1
  BY ByteRange
<1>2. w \in Nat /\ w < WORD /\ BYTE \in Nat /\ BYTE > 0 /\ HALF \in Nat /\ HALF > 0
  BY Widths DEF Word
<1> HIDE DEF d
<1>3. ASSUME NEW s \in Nat, NEW m \in Nat, s > 0, WORD = s * (BYTE * m)
      PROVE  w + (d - ((w \div s) % BYTE)) * s \in Word
  BY <1>1, <1>2, <1>3, PutRange DEF Word
<1>4. w + (d - ((w \div 1) % BYTE)) * 1 \in Word
  <2>1. BYTE * HALF \in Nat /\ WORD = 1 * (BYTE * (BYTE * HALF))
    BY <1>2 DEF WORD, HALF
  <2> QED
    BY <1>3, <2>1
<1>5. w + (d - ((w \div BYTE) % BYTE)) * BYTE \in Word
  <2>1. WORD = BYTE * (BYTE * HALF)
    BY <1>2 DEF WORD, HALF
  <2> QED
    BY <1>2, <1>3, <2>1
<1>6. w + (d - ((w \div HALF) % BYTE)) * HALF \in Word
  <2>1. WORD = HALF * (BYTE * BYTE)
    BY <1>2 DEF WORD, HALF
  <2> QED
    BY <1>2, <1>3, <2>1
<1>7. w + (d - ((w \div (HALF * BYTE)) % BYTE)) * (HALF * BYTE) \in Word
  <2>1. HALF * BYTE \in Nat /\ HALF * BYTE > 0 /\ WORD = (HALF * BYTE) * (BYTE * 1)
    BY <1>2 DEF WORD, HALF
  <2> QED
    BY <1>2, <1>3, <2>1
<1>8. /\ ByteOf(w, 0) = (w \div 1) % BYTE
      /\ ByteOf(w, 1) = (w \div BYTE) % BYTE
      /\ ByteOf(w, 2) = (w \div HALF) % BYTE
      /\ ByteOf(w, 3) = (w \div (HALF * BYTE)) % BYTE
  <2>1. w \div 1 = w
    BY <1>2
  <2>2. ByteOf(w, 3) = w \div (HALF * BYTE)
    BY DEF ByteOf
  <2>3. ByteOf(w, 3) \in 0 .. BYTE - 1
    BY ByteRange
  <2>4. (w \div (HALF * BYTE)) % BYTE = w \div (HALF * BYTE)
    BY <1>2, <2>2, <2>3
  <2> QED
    BY <2>1, <2>2, <2>4 DEF ByteOf
<1> QED
  BY <1>4, <1>5, <1>6, <1>7, <1>8 DEF PutByte, d

\* A store leaves a word in the line it writes.
LEMMA StoreMergeType ==
  ASSUME NEW w \in Word, NEW adr, NEW size, NEW data \in Word
  PROVE  StoreMerge(w, adr, size, data) \in Word
<1>1. ASSUME NEW u \in Word, NEW v \in Word, NEW j, NEW k
      PROVE  HalfOf(u, j) * HALF + HalfOf(v, k) \in Word
  <2>1. HalfOf(u, j) \in 0 .. HALF - 1 /\ HalfOf(v, k) \in 0 .. HALF - 1
    BY HalfRange
  <2>2. HalfOf(u, j) * HALF \in Nat /\ HalfOf(u, j) * HALF + HALF <= HALF * HALF
    BY <2>1, Widths
  <2> QED
    BY <2>1, <2>2, Widths DEF Word, WORD
<1> QED
  BY <1>1, PutByteType DEF StoreMerge
=============================================================================
