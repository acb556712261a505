--------------------------- MODULE DebuggerProofs ---------------------------
(***************************************************************************)
(* The virtual machine and the debugger over it, for every width of a      *)
(* byte, memory map, set of programs and set of addresses: the machine's   *)
(* types and where read_string writes; the debugger's types, its until     *)
(* set, and that breakpoints stop a program and disturb it in nothing      *)
(* else.                                                                   *)
(***************************************************************************)
EXTENDS Debugger, RecursiveFunctions

-----------------------------------------------------------------------------
(***************************************************************************)
(* Powers of two, and the numbers that bits make.                          *)
(***************************************************************************)

LEMMA PowerOfTwoDefined ==
  PowerOfTwo = [n \in Nat |-> IF n = 0 THEN 1 ELSE 2 * PowerOfTwo[n - 1]]
<1> DEFINE step == [x \in Nat \X Nat |-> 2 * x[2]]
           Is(f) == f = [n \in Nat |-> IF n = 0 THEN 1 ELSE 2 * f[n - 1]]
<1>1. step \in [Nat \X Nat -> Nat] /\ 0 \in Nat /\ 1 \in Nat
  OBVIOUS
<1> HIDE DEF step
<1>2. PICK f \in [Nat -> Nat] : Computes(f, 1, step)
  BY <1>1, PrimitiveRecursion
<1>3. Is(f)
  <2>1. ASSUME NEW n \in Nat, n # 0 PROVE step[<<n, f[n - 1]>>] = 2 * f[n - 1]
    BY <1>2, <2>1 DEF step
  <2> QED BY <1>2, <2>1 DEF Computes
<1>4. Is(PowerOfTwo)
  BY <1>3 DEF PowerOfTwo
<1> QED BY <1>4

LEMMA PowersOfTwo ==
  /\ PowerOfTwo[0] = 1
  /\ \A n \in Nat : PowerOfTwo[n] \in Nat \ {0} /\ PowerOfTwo[n + 1] = 2 * PowerOfTwo[n]
<1>1. PowerOfTwo[0] = 1
  BY PowerOfTwoDefined
<1>2. ASSUME NEW n \in Nat PROVE PowerOfTwo[n + 1] = 2 * PowerOfTwo[n]
  <2>1. n + 1 \in Nat /\ n + 1 # 0 /\ (n + 1) - 1 = n
    OBVIOUS
  <2> QED BY <2>1, PowerOfTwoDefined
<1> DEFINE Positive == {n \in Nat : PowerOfTwo[n] \in Nat \ {0}}
<1>3. 0 \in Positive /\ \A n \in Nat : n \in Positive => n + 1 \in Positive
  BY <1>1, <1>2
<1> HIDE DEF Positive
<1>4. Nat \subseteq Positive
  BY <1>3, Induction
<1> QED BY <1>1, <1>2, <1>4 DEF Positive

LEMMA PowerOfTwoOfSum ==
  ASSUME NEW m \in Nat, NEW n \in Nat
  PROVE  PowerOfTwo[m + n] = PowerOfTwo[m] * PowerOfTwo[n]
<1> DEFINE Adds == {k \in Nat : PowerOfTwo[m + k] = PowerOfTwo[m] * PowerOfTwo[k]}
<1>1. 0 \in Adds
  BY PowersOfTwo
<1>2. ASSUME NEW k \in Nat, k \in Adds PROVE k + 1 \in Adds
  <2> DEFINE p == PowerOfTwo[m]
             q == PowerOfTwo[k]
  <2>1. p \in Nat /\ q \in Nat /\ m + k \in Nat
    BY PowersOfTwo
  <2>2. PowerOfTwo[(m + k) + 1] = 2 * (p * q)
    BY <1>2, <2>1, PowersOfTwo
  <2>3. PowerOfTwo[k + 1] = 2 * q
    BY PowersOfTwo
  <2>4. (m + k) + 1 = m + (k + 1)
    OBVIOUS
  <2> HIDE DEF p, q
  <2>5. 2 * (p * q) = p * (2 * q)
    BY <2>1
  <2> QED BY <2>2, <2>3, <2>4, <2>5 DEF p
<1> HIDE DEF Adds
<1>3. Nat \subseteq Adds
  BY <1>1, <1>2, Induction
<1> QED BY <1>3 DEF Adds

\* The sizes of bytes, half words and words.
LEMMA Widths ==
  /\ BYTE_BIT \in Nat /\ WORD_BIT \in Nat
  /\ BYTE_RANGE \in Nat \ {0} /\ HALF_RANGE \in Nat \ {0} /\ WORD_RANGE \in Nat \ {0}
  /\ 1 < BYTE_RANGE /\ BYTE_RANGE <= WORD_RANGE
  /\ PowerOfTwo[BYTE_BIT * 0] = 1
  /\ PowerOfTwo[BYTE_BIT * 1] = BYTE_RANGE
  /\ PowerOfTwo[BYTE_BIT * 2] = BYTE_RANGE * BYTE_RANGE
  /\ PowerOfTwo[BYTE_BIT * 3] = BYTE_RANGE * (BYTE_RANGE * BYTE_RANGE)
  /\ PowerOfTwo[WORD_BIT] = WORD_RANGE
<1> DEFINE b == BYTE_BIT
           r == BYTE_RANGE
<1>1. b \in Nat /\ b * 0 = 0 /\ b * 1 = b /\ b * 2 = b + b /\ b * 3 = b + (b + b)
  BY LayoutAssumption
<1>2. WORD_BIT = b + (b + (b + b)) /\ WORD_BIT \in Nat
  BY <1>1 DEF WORD_BIT, INSTRUCTION_SIZE
<1>3. r \in Nat \ {0} /\ 1 < r /\ PowerOfTwo[b] = r
  <2>1. b - 1 \in Nat /\ (b - 1) + 1 = b
    BY LayoutAssumption
  <2>2. PowerOfTwo[b] = 2 * PowerOfTwo[b - 1] /\ PowerOfTwo[b - 1] \in Nat \ {0}
    BY <2>1, PowersOfTwo
  <2> QED BY <2>2 DEF BYTE_RANGE
<1> HIDE DEF b, r
<1>4. b + b \in Nat /\ b + (b + b) \in Nat
  BY <1>1
<1>5. PowerOfTwo[b + b] = r * r
  BY <1>1, <1>3, PowerOfTwoOfSum
<1>6. PowerOfTwo[b + (b + b)] = r * (r * r)
  BY <1>1, <1>3, <1>5, <1>4, PowerOfTwoOfSum
<1>7. PowerOfTwo[b + (b + (b + b))] = r * (r * (r * r))
  BY <1>1, <1>3, <1>6, <1>4, PowerOfTwoOfSum
<1>8. r * r \in Nat \ {0} /\ r <= r * r
  BY <1>3
<1>9. r * (r * r) \in Nat \ {0} /\ r <= r * (r * r)
  BY <1>3, <1>8
<1>10. r * (r * (r * r)) \in Nat \ {0} /\ r <= r * (r * (r * r))
  BY <1>3, <1>9
<1>11. r * (r * (r * r)) = r * r * r * r
  BY <1>3
<1> QED
  BY <1>1, <1>2, <1>3, <1>5, <1>6, <1>7, <1>8, <1>10, <1>11, PowersOfTwo
  DEF b, r, HALF_RANGE, WORD_RANGE

-----------------------------------------------------------------------------
(***************************************************************************)
(* Bytes and words.                                                        *)
(***************************************************************************)

\* Quotient and remainder are what makes up a number.
LEMMA Division ==
  ASSUME NEW r \in Nat \ {0}, NEW q \in Nat, NEW d \in 0 .. r - 1
  PROVE  (d + r * q) % r = d /\ (d + r * q) \div r = q
OBVIOUS

LEMMA Divided ==
  ASSUME NEW r \in Nat \ {0}, NEW n \in Nat
  PROVE  /\ n % r \in 0 .. r - 1
         /\ n \div r \in Nat /\ n \div r <= n
         /\ n = (n % r) + r * (n \div r)
OBVIOUS

\* A number is divided by a product one factor at a time.
LEMMA DividedTwice ==
  ASSUME NEW p \in Nat \ {0}, NEW q \in Nat \ {0}, NEW n \in Nat
  PROVE  n \div (p * q) = (n \div p) \div q
<1> DEFINE a == n \div p
           s == n % p
           c == a \div q
           t == a % q
<1>1. a \in Nat /\ s \in 0 .. p - 1 /\ n = s + p * a
  BY Divided
<1>2. c \in Nat /\ t \in 0 .. q - 1 /\ a = t + q * c
  BY <1>1, Divided
<1> HIDE DEF a, s, c, t
<1>3. p * q \in Nat \ {0} /\ p * t \in Nat
  BY <1>2
<1>4. p * t <= p * (q - 1) /\ p * (q - 1) = p * q - p
  BY <1>2
<1>5. s + p * t \in 0 .. p * q - 1
  BY <1>1, <1>3, <1>4
<1>6. n = (s + p * t) + (p * q) * c
  BY <1>1, <1>2
<1>7. n \div (p * q) = c
  BY <1>2, <1>3, <1>5, <1>6, Division
<1> QED BY <1>7 DEF a, c

\* A smaller number has no larger quotient.
LEMMA QuotientsGrow ==
  ASSUME NEW p \in Nat \ {0}, NEW m \in Nat, NEW n \in Nat, m <= n
  PROVE  m \div p <= n \div p
<1> DEFINE a == m \div p
           c == n \div p
<1>1. a \in Nat /\ m = (m % p) + p * a /\ m % p \in 0 .. p - 1
  BY Divided
<1>2. c \in Nat /\ n = (n % p) + p * c /\ n % p \in 0 .. p - 1
  BY Divided
<1>3. p * a < p * (c + 1)
  BY <1>1, <1>2
<1> HIDE DEF a, c
<1>4. a < c + 1
  BY <1>1, <1>2, <1>3
<1> QED BY <1>1, <1>2, <1>4 DEF a, c

LEMMA WrapIsWord == \A n \in Int : Wrap(n) \in WordValue
BY Widths DEF Wrap, WordValue

LEMMA SmallIsWord ==
  ASSUME NEW n \in Nat, n < BYTE_RANGE
  PROVE  n \in WordValue /\ n \in ByteValue
BY Widths DEF WordValue, ByteValue

LEMMA ByteIsByte ==
  ASSUME NEW word \in Nat, NEW i \in 0 .. 3
  PROVE  ByteOfWord(word, i) \in ByteValue
<1> DEFINE p == PowerOfTwo[BYTE_BIT * i]
<1>1. BYTE_BIT * i \in Nat
  BY Widths
<1>2. p \in Nat \ {0}
  BY <1>1, PowersOfTwo
<1> HIDE DEF p
<1>3. word \div p \in Nat
  BY <1>2, Divided
<1>4. (word \div p) % BYTE_RANGE \in 0 .. BYTE_RANGE - 1
  BY <1>3, Widths, Divided
<1> QED BY <1>4 DEF ByteOfWord, ByteValue, p

\* The bytes of a word are its remainders by the size of a byte, the low one first.
LEMMA BytesByDivision ==
  ASSUME NEW word \in Nat
  PROVE  /\ ByteOfWord(word, 0) = word % BYTE_RANGE
         /\ ByteOfWord(word, 1) = (word \div BYTE_RANGE) % BYTE_RANGE
         /\ ByteOfWord(word, 2) = ((word \div BYTE_RANGE) \div BYTE_RANGE) % BYTE_RANGE
         /\ ByteOfWord(word, 3)
              = (((word \div BYTE_RANGE) \div BYTE_RANGE) \div BYTE_RANGE) % BYTE_RANGE
<1> DEFINE r == BYTE_RANGE
<1>1. r \in Nat \ {0} /\ r * r \in Nat \ {0}
  BY Widths DEF HALF_RANGE
<1> HIDE DEF r
<1>2. word \div 1 = word
  OBVIOUS
<1>3. word \div (r * r) = (word \div r) \div r
  BY <1>1, DividedTwice
<1>4. word \div (r * (r * r)) = ((word \div r) \div r) \div r
  <2>1. word \div r \in Nat
    BY <1>1, Divided
  <2> QED BY <1>1, <2>1, DividedTwice
<1> QED BY <1>2, <1>3, <1>4, Widths DEF ByteOfWord, r

WordOf(b0, b1, b2, b3) == b0 + BYTE_RANGE * (b1 + BYTE_RANGE * (b2 + BYTE_RANGE * b3))

\* Four bytes make a word, which has these bytes.
LEMMA WordOfBytes ==
  ASSUME NEW b0 \in ByteValue, NEW b1 \in ByteValue, NEW b2 \in ByteValue, NEW b3 \in ByteValue
  PROVE  LET word == WordOf(b0, b1, b2, b3)
         IN  /\ word \in WordValue
             /\ ByteOfWord(word, 0) = b0 /\ ByteOfWord(word, 1) = b1
             /\ ByteOfWord(word, 2) = b2 /\ ByteOfWord(word, 3) = b3
<1> DEFINE r == BYTE_RANGE
           w2 == b2 + r * b3
           w1 == b1 + r * w2
           w0 == b0 + r * w1
<1>1. r \in Nat \ {0} /\ b3 < r /\ {b0, b1, b2, b3} \subseteq 0 .. r - 1
  BY Widths DEF ByteValue
<1> HIDE DEF r
<1>2. w2 \in Nat /\ w2 <= r * r - 1
  <2>1. r * b3 <= r * (r - 1) /\ r * b3 \in Nat
    BY <1>1
  <2>2. r * (r - 1) = r * r - r
    BY <1>1
  <2> QED BY <1>1, <2>1, <2>2
<1>3. w2 \div r = b3 /\ w2 % r = b2
  <2>1. b3 \in Nat /\ b2 \in 0 .. r - 1
    BY <1>1
  <2> QED BY <1>1, <2>1, Division
<1> HIDE DEF w2
<1>4. w1 \in Nat /\ w1 <= r * (r * r) - 1
  <2>1. r * w2 <= r * (r * r - 1) /\ r * w2 \in Nat
    BY <1>1, <1>2
  <2>2. r * (r * r - 1) = r * (r * r) - r
    BY <1>1
  <2> QED BY <1>1, <2>1, <2>2
<1>5. w1 \div r = w2 /\ w1 % r = b1
  BY <1>1, <1>2, Division
<1> HIDE DEF w1
<1>6. w0 \in Nat /\ w0 <= r * (r * (r * r)) - 1
  <2>1. r * w1 <= r * (r * (r * r) - 1) /\ r * w1 \in Nat
    BY <1>1, <1>4
  <2>2. r * (r * (r * r) - 1) = r * (r * (r * r)) - r
    BY <1>1
  <2> QED BY <1>1, <2>1, <2>2
<1>7. w0 \div r = w1 /\ w0 % r = b0
  BY <1>1, <1>4, Division
<1>8. WordOf(b0, b1, b2, b3) = w0
  BY DEF WordOf, w0, w1, w2, r
<1> HIDE DEF w0
<1>9. w0 \in WordValue
  <2>1. r * (r * (r * r)) = r * r * r * r
    BY <1>1
  <2> QED BY <1>6, <2>1, Widths DEF WordValue, WORD_RANGE, r
<1>10. b3 % r = b3
  BY <1>1
<1> QED BY <1>3, <1>5, <1>6, <1>7, <1>8, <1>9, <1>10, BytesByDivision DEF r

\* A word is what its bytes make.
LEMMA BytesMakeWord ==
  ASSUME NEW word \in WordValue
  PROVE  WordOf(ByteOfWord(word, 0), ByteOfWord(word, 1), ByteOfWord(word, 2),
                ByteOfWord(word, 3)) = word
<1> DEFINE r == BYTE_RANGE
           w1 == word \div r
           w2 == w1 \div r
           w3 == w2 \div r
<1>1. r \in Nat \ {0} /\ word \in Nat /\ word < r * (r * (r * r))
  <2>1. r \in Nat \ {0} /\ r * (r * (r * r)) = r * r * r * r
    BY Widths
  <2> QED BY <2>1, Widths DEF WordValue, WORD_RANGE
<1> HIDE DEF r
<1>2. w1 \in Nat /\ word = (word % r) + r * w1
  BY <1>1, Divided
<1>3. w2 \in Nat /\ w1 = (w1 % r) + r * w2
  BY <1>1, <1>2, Divided
<1>4. w3 \in Nat /\ w2 = (w2 % r) + r * w3
  BY <1>1, <1>3, Divided
<1>5. w3 % r = w3
  <2>1. w3 = word \div (r * (r * r))
    <3>1. r * r \in Nat \ {0}
      BY <1>1
    <3> QED BY <1>1, <1>2, <3>1, DividedTwice
  <2>2. r * (r * r) \in Nat \ {0}
    BY <1>1
  <2> DEFINE c == r * (r * r)
  <2>3. word = (word % c) + c * w3 /\ word % c \in 0 .. c - 1
    BY <1>1, <2>1, <2>2, Divided
  <2>4. r * c = c * r
    BY <1>1, <2>2
  <2> HIDE DEF c, w3
  <2>5. c * w3 < c * r
    BY <1>1, <1>4, <2>2, <2>3, <2>4 DEF c
  <2>6. w3 < r
    BY <1>1, <1>4, <2>2, <2>5 DEF c
  <2> QED BY <1>1, <1>4, <2>6
<1>6. /\ ByteOfWord(word, 0) = word % r /\ ByteOfWord(word, 1) = w1 % r
      /\ ByteOfWord(word, 2) = w2 % r /\ ByteOfWord(word, 3) = w3 % r
  BY <1>1, BytesByDivision DEF r
<1> HIDE DEF w1, w2, w3
<1> QED BY <1>2, <1>3, <1>4, <1>5, <1>6 DEF WordOf, r

-----------------------------------------------------------------------------
(***************************************************************************)
(* What instructions compute are words.                                    *)
(***************************************************************************)

LEMMA FromBitsIsWord ==
  ASSUME NEW bits
  PROVE  FromBits(bits) \in WordValue
<1> DEFINE Bit(n) == IF WORD_BIT - n \in bits THEN 1 ELSE 0
           step == [x \in Nat \X Nat |-> 2 * x[2] + Bit(x[1])]
           Is(f) == f = [n \in Nat |->
                           IF n = 0 THEN 0
                           ELSE 2 * f[n - 1] + (IF WORD_BIT - n \in bits THEN 1 ELSE 0)]
           Highest == CHOOSE f : Is(f)
<1>1. step \in [Nat \X Nat -> Nat] /\ 0 \in Nat
  OBVIOUS
<1> HIDE DEF step
<1>2. PICK f \in [Nat -> Nat] : Computes(f, 0, step)
  BY <1>1, PrimitiveRecursion
<1>3. Is(f)
  <2>1. ASSUME NEW n \in Nat, n # 0 PROVE step[<<n, f[n - 1]>>] = 2 * f[n - 1] + Bit(n)
    BY <1>2, <2>1 DEF step
  <2> QED BY <1>2, <2>1 DEF Computes
<1>4. Is(Highest)
  BY <1>3
<1>5. FromBits(bits) = Highest[WORD_BIT]
  BY DEF FromBits
<1> HIDE DEF Highest
<1>6. Highest[0] = 0
  BY <1>4
<1>7. ASSUME NEW n \in Nat PROVE Highest[n + 1] = 2 * Highest[n] + Bit(n + 1)
  <2>1. n + 1 \in Nat /\ n + 1 # 0 /\ (n + 1) - 1 = n
    OBVIOUS
  <2> QED BY <1>4, <2>1
<1> DEFINE Below == {n \in Nat : Highest[n] \in 0 .. PowerOfTwo[n] - 1}
<1>8. 0 \in Below
  BY <1>6, PowersOfTwo
<1>9. ASSUME NEW n \in Nat, n \in Below PROVE n + 1 \in Below
  <2>1. PowerOfTwo[n] \in Nat \ {0} /\ PowerOfTwo[n + 1] = 2 * PowerOfTwo[n]
    BY PowersOfTwo
  <2>2. Highest[n] \in 0 .. PowerOfTwo[n] - 1 /\ Bit(n + 1) \in 0 .. 1
    BY <1>9
  <2> HIDE DEF Bit
  <2>3. 2 * Highest[n] + Bit(n + 1) \in 0 .. 2 * PowerOfTwo[n] - 1
    BY <2>1, <2>2
  <2> QED BY <1>7, <2>1, <2>3
<1> HIDE DEF Below
<1>10. Nat \subseteq Below
  BY <1>8, <1>9, Induction
<1> QED BY <1>5, <1>10, Widths DEF Below, WordValue

LEMMA BitwiseIsWord ==
  /\ \A a, b : BitAnd(a, b) \in WordValue /\ BitOr(a, b) \in WordValue /\ BitXor(a, b) \in WordValue
  /\ \A a \in WordValue : BitNot(a) \in WordValue
BY FromBitsIsWord, Widths DEF BitAnd, BitOr, BitXor, BitNot, WordValue

LEMMA DistancesInWord ==
  ASSUME NEW count \in Nat
  PROVE  Distances(count) \subseteq 0 .. WORD_BIT
<1>1. WORD_BIT \in Nat \ {0}
  BY LayoutAssumption DEF WORD_BIT, INSTRUCTION_SIZE
<1>2. count % WORD_BIT \in 0 .. WORD_BIT - 1
  BY <1>1
<1> QED BY <1>1, <1>2 DEF Distances

LEMMA ShiftIsWord ==
  ASSUME NEW word \in WordValue, NEW n \in 0 .. WORD_BIT
  PROVE  /\ ShiftLeft(word, n) \in WordValue
         /\ ShiftRight(word, n) \in WordValue
         /\ ShiftRightOnes(word, n) \in WordValue
<1> DEFINE p == PowerOfTwo[n]
           q == PowerOfTwo[WORD_BIT - n]
<1>1. n \in Nat /\ WORD_BIT - n \in Nat /\ word \in Nat /\ word <= WORD_RANGE - 1
  BY Widths DEF WordValue
<1>2. p \in Nat \ {0} /\ q \in Nat \ {0} /\ q * p = WORD_RANGE
  <2>1. PowerOfTwo[(WORD_BIT - n) + n] = q * p
    BY <1>1, PowerOfTwoOfSum
  <2>2. (WORD_BIT - n) + n = WORD_BIT
    BY Widths
  <2> QED BY <1>1, <2>1, <2>2, PowersOfTwo, Widths
<1> HIDE DEF p, q
<1>3. (word % q) * p \in WordValue
  <2>1. word % q \in 0 .. q - 1
    BY <1>1, <1>2, Divided
  <2>2. (word % q) * p <= (q - 1) * p /\ (word % q) * p \in Nat
    BY <1>2, <2>1
  <2>3. (q - 1) * p = q * p - p
    BY <1>2
  <2> QED BY <1>2, <2>2, <2>3, Widths DEF WordValue
<1>4. word \div p \in Nat /\ word \div p <= word
  BY <1>1, <1>2, Divided
<1>5. WORD_RANGE - 1 \in Nat
  BY Widths
<1>6. word \div p <= (WORD_RANGE - 1) \div p /\ (WORD_RANGE - 1) \div p \in 0 .. WORD_RANGE - 1
  <2>1. word \div p <= (WORD_RANGE - 1) \div p
    BY <1>1, <1>2, <1>5, QuotientsGrow
  <2>2. (WORD_RANGE - 1) \div p \in Nat /\ (WORD_RANGE - 1) \div p <= WORD_RANGE - 1
    BY <1>2, <1>5, Divided
  <2> QED BY <1>5, <2>1, <2>2
<1> QED
  BY <1>1, <1>3, <1>4, <1>5, <1>6
  DEF ShiftLeft, ShiftRight, ShiftRightOnes, BitNot, WordValue, p, q

LEMMA SignExtendedIsInt == \A half \in 0 .. HALF_RANGE - 1 : SignExtended(half) \in Int
BY Widths DEF SignExtended

LEMMA HalfIsWord == 0 .. HALF_RANGE - 1 \subseteq WordValue
<1>1. BYTE_RANGE \in Nat \ {0} /\ HALF_RANGE \in Nat \ {0}
  BY Widths
<1>2. WORD_RANGE = HALF_RANGE * HALF_RANGE
  BY <1>1 DEF WORD_RANGE, HALF_RANGE
<1>3. HALF_RANGE <= HALF_RANGE * HALF_RANGE
  BY <1>1
<1> QED BY <1>1, <1>2, <1>3 DEF WordValue

LEMMA ResultsAreWords ==
  ASSUME TypeOK, NEW d \in InstructionType, d.opcode \in ArithmeticOpcode
  PROVE  Results(d) \subseteq WordValue
<1> DEFINE s == registers[d.register1]
           t == registers[d.register2]
           i == d.immediate
<1>1. /\ s \in WordValue /\ t \in WordValue /\ i \in WordValue
      /\ i \in 0 .. HALF_RANGE - 1 /\ hi \in WordValue /\ lo \in WordValue
  BY HalfIsWord DEF TypeOK, InstructionType
<1>2. s \in Nat /\ t \in Nat /\ i \in Nat /\ SignExtended(i) \in Int
  BY <1>1, SignExtendedIsInt, Widths DEF WordValue
<1>3. Bool(s < t) \in WordValue /\ Bool(s < i) \in WordValue /\ Bool(s = t) \in WordValue
      /\ Bool(s # t) \in WordValue
  <2>1. 0 \in WordValue /\ 1 \in WordValue
    BY Widths DEF WordValue
  <2> QED BY <2>1 DEF Bool
<1>4. WORD_BIT \div 2 \in 0 .. WORD_BIT
  <2>1. WORD_BIT \in Nat
    BY Widths
  <2> QED BY <2>1
<1>5. CASE d.opcode \in {"ADD", "ADDU", "ADDI", "ADDIU", "SUB", "SUBU"}
  <2>1. {Wrap(s + t), Wrap(s + SignExtended(i)), Wrap(s + i), Wrap(s - t)} \subseteq WordValue
    BY <1>2, WrapIsWord
  <2> QED BY <1>5, <2>1 DEF Results
<1>6. CASE d.opcode \in {"AND", "ANDI", "OR", "ORI", "XOR", "XORI", "NOR"}
  BY <1>6, BitwiseIsWord DEF Results
<1>7. CASE d.opcode = "LUI"
  BY <1>1, <1>4, <1>7, ShiftIsWord DEF Results
<1>8. CASE d.opcode \in {"SLL", "SLLV", "SRL", "SRLV", "SRA"}
  <2>1. Distances(i) \subseteq 0 .. WORD_BIT /\ Distances(t) \subseteq 0 .. WORD_BIT
    BY <1>2, DistancesInWord
  <2>2. \A n \in 0 .. WORD_BIT :
          {ShiftLeft(s, n), ShiftRight(s, n), ShiftRightOnes(s, n)} \subseteq WordValue
    BY <1>1, ShiftIsWord
  <2> QED BY <1>8, <2>1, <2>2 DEF Results
<1>9. CASE d.opcode \in {"SLT", "SLTU", "SLTI", "SLTIU", "SEQ", "SNE", "MFHI", "MFLO"}
  BY <1>1, <1>3, <1>9 DEF Results
<1> QED BY <1>5, <1>6, <1>7, <1>8, <1>9 DEF ArithmeticOpcode

-----------------------------------------------------------------------------
(***************************************************************************)
(* Memory.                                                                 *)
(***************************************************************************)

LEMMA LocateIsPair ==
  ASSUME textSegmentLength \in Nat, NEW address \in Int
  PROVE  /\ Locate(address)[2] \in Int
         /\ Locate(address) = <<Locate(address)[1], Locate(address)[2]>>
BY LayoutAssumption, Widths DEF Locate, WordValue

\* The four locations of a word are distinct, and known by their distance.
LEMMA BytesOfLocation ==
  ASSUME textSegmentLength \in Nat, NEW address \in Int, NEW l
  PROVE  l \in WordLocations(address) <=>
           \E i \in 0 .. 3 : l = Beyond(address, i) /\ l[2] - Locate(address)[2] = i
<1>1. \A i \in 0 .. 3 : Beyond(address, i)[2] - Locate(address)[2] = i
  BY LocateIsPair DEF Beyond
<1> QED BY <1>1 DEF WordLocations, INSTRUCTION_SIZE

LEMMA LoadIsWordOf ==
  ASSUME NEW m, NEW address
  PROVE  LoadWord(m, address) = WordOf(m[Beyond(address, 0)], m[Beyond(address, 1)],
                                       m[Beyond(address, 2)], m[Beyond(address, 3)])
BY DEF LoadWord, WordOf

LEMMA LoadedWord ==
  ASSUME NEW m, NEW address, WordLocations(address) \subseteq DOMAIN m,
         \A l \in DOMAIN m : m[l] \in ByteValue
  PROVE  LoadWord(m, address) \in WordValue
<1>1. \A i \in 0 .. 3 : m[Beyond(address, i)] \in ByteValue
  BY DEF WordLocations, INSTRUCTION_SIZE
<1> QED BY <1>1, WordOfBytes, LoadIsWordOf

LEMMA StoredWord ==
  ASSUME textSegmentLength \in Nat, NEW address \in Int, NEW word \in Nat,
         NEW D, NEW m \in [D -> ByteValue]
  PROVE  StoreWord(m, address, word) \in [D -> ByteValue]
<1>1. ASSUME NEW l \in WordLocations(address)
      PROVE  ByteOfWord(word, l[2] - Locate(address)[2]) \in ByteValue
  BY BytesOfLocation, ByteIsByte
<1> QED BY <1>1 DEF StoreWord

\* A non-empty set of numbers up to a bound has a greatest.
LEMMA Greatest ==
  ASSUME NEW n \in Nat, NEW S \in SUBSET (0 .. n), S # {}
  PROVE  Max(S) \in S /\ \A x \in S : x <= Max(S)
<1> DEFINE Bounded == {k \in Nat : S \subseteq 0 .. k => \E x \in S : \A y \in S : y <= x}
<1>1. 0 \in Bounded
  <2> SUFFICES ASSUME S \subseteq 0 .. 0 PROVE \E x \in S : \A y \in S : y <= x
    OBVIOUS
  <2>1. PICK x \in S : TRUE
    OBVIOUS
  <2>2. \A y \in S : y = 0
    OBVIOUS
  <2> QED BY <2>1, <2>2
<1>2. ASSUME NEW k \in Nat, k \in Bounded PROVE k + 1 \in Bounded
  <2> SUFFICES ASSUME S \subseteq 0 .. k + 1 PROVE \E x \in S : \A y \in S : y <= x
    OBVIOUS
  <2>1. CASE k + 1 \in S
    BY <2>1
  <2>2. CASE k + 1 \notin S
    <3>1. S \subseteq 0 .. k
      BY <2>2
    <3> QED BY <1>2, <3>1
  <2> QED BY <2>1, <2>2
<1> HIDE DEF Bounded
<1>3. Nat \subseteq Bounded
  BY <1>1, <1>2, Induction
<1>4. \E x \in S : \A y \in S : y <= x
  BY <1>3 DEF Bounded
<1>5. \E x \in S : \A y \in S : x >= y
  BY <1>4
<1> QED BY <1>5 DEF Max

\* A line cut to a buffer, and its null byte, fit in the buffer.
LEMMA CutFits ==
  ASSUME NEW line \in Lines, NEW size \in Nat \ {0}
  PROVE  LET bytes == Append(Cut(line, size), 0)
         IN  /\ bytes \in Seq(ByteValue)
             /\ Len(bytes) \in 1 .. size
             /\ bytes[Len(bytes)] = 0
<1> DEFINE n == Min({Len(line), size - 1})
<1>1. line \in Seq(ByteValue) /\ Len(line) \in Nat
  BY EnvironmentAssumption
<1>2. n \in 0 .. Len(line) /\ n <= size - 1
  <2>1. Len(line) <= size - 1 \/ size - 1 <= Len(line)
    BY <1>1
  <2>2. \E x \in {Len(line), size - 1} : \A y \in {Len(line), size - 1} : x <= y
    BY <1>1, <2>1
  <2>3. n \in {Len(line), size - 1} /\ \A y \in {Len(line), size - 1} : n <= y
    BY <2>2 DEF Min
  <2> QED BY <1>1, <2>3
<1> HIDE DEF n
<1>3. SubSeq(line, 1, n) \in Seq(ByteValue) /\ Len(SubSeq(line, 1, n)) = n
  BY <1>1, <1>2
<1>4. Cut(line, size) \in Seq(ByteValue) /\ Len(Cut(line, size)) = n
  BY <1>3 DEF Cut, n
<1>5. 0 \in ByteValue
  BY Widths DEF ByteValue
<1> QED BY <1>2, <1>4, <1>5

LEMMA StoredString ==
  ASSUME NEW bytes \in Seq(ByteValue), NEW address \in Int, NEW D, NEW m \in [D -> ByteValue]
  PROVE  StoreString(m, address, bytes) \in [D -> ByteValue]
<1> DEFINE hits(l) == {i \in 1 .. Len(bytes) : Locate(Wrap(address + i - 1)) = l}
<1>1. ASSUME NEW l, hits(l) # {} PROVE bytes[Max(hits(l))] \in ByteValue
  <2>1. hits(l) \in SUBSET (0 .. Len(bytes)) /\ Len(bytes) \in Nat
    OBVIOUS
  <2>2. Max(hits(l)) \in hits(l)
    BY <1>1, <2>1, Greatest
  <2>3. Max(hits(l)) \in 1 .. Len(bytes)
    BY <2>2
  <2> QED BY <2>3
<1> QED BY <1>1 DEF StoreString

-----------------------------------------------------------------------------
(***************************************************************************)
(* Type correctness.                                                       *)
(***************************************************************************)

\* What no step changes, and what every step must show of what it writes.
LEMMA Typed ==
  ASSUME TypeOK, memory' \in [DOMAIN memory -> ByteValue], textSegmentLength' = textSegmentLength,
         {pc', hi', lo', exitCode'} \subseteq WordValue, registers' \in [Registers -> WordValue],
         shouldExit' \in BOOLEAN, fileID' \in 1 .. MaxFiles + 1, files' \subseteq 1 .. fileID' - 1,
         trap' \in TrapType, frames' \in Seq(FrameType)
  PROVE  TypeOK'
<1>1. DOMAIN memory' = DOMAIN memory
  OBVIOUS
<1>2. FrameType' = FrameType
  BY <1>1 DEF FrameType, WordValue
<1> QED BY <1>1, <1>2 DEF TypeOK, TrapType, ByteValue, WordValue

LEMMA InitTyped == Init => TypeOK
<1> SUFFICES ASSUME NEW file \in Programs, NEW byte \in Uninitialised, LoadProgram(file, byte)
             PROVE  TypeOK
  BY DEF Init
<1> DEFINE text == INSTRUCTION_SIZE * Len(file.text)
<1>1. /\ file.text \in Seq(WordValue) /\ file.data \in Seq(ByteValue)
      /\ Len(file.text) \in Nat /\ Len(file.data) \in Nat /\ text \in Nat
      /\ text = 4 * Len(file.text)
  BY ProgramAssumption DEF INSTRUCTION_SIZE
<1>2. byte \in ByteValue /\ byte \in WordValue
  BY EnvironmentAssumption, Widths DEF ByteValue, WordValue
<1> HIDE DEF text
<1>3. \A i \in DOMAIN Image(file) : i \in Nat /\ Image(file)[i] \in ByteValue
  <2>1. DOMAIN Image(file) = 0 .. text + Len(file.data) - 1
    BY DEF Image, text
  <2>2. ASSUME NEW i \in 0 .. text + Len(file.data) - 1, i < text
        PROVE  Image(file)[i] \in ByteValue
    <3>1. i \in Nat /\ i \div 4 + 1 \in 1 .. Len(file.text) /\ i % 4 \in 0 .. 3
      BY <1>1, <2>2
    <3>2. file.text[i \div 4 + 1] \in Nat
      BY SMTT(30), <1>1, <3>1, Widths DEF WordValue
    <3>3. ByteOfWord(file.text[i \div 4 + 1], i % 4) \in ByteValue
      BY <3>1, <3>2, ByteIsByte
    <3> QED BY <2>2, <3>3 DEF Image, text, INSTRUCTION_SIZE
  <2>3. ASSUME NEW i \in 0 .. text + Len(file.data) - 1, ~(i < text)
        PROVE  Image(file)[i] \in ByteValue
    <3>1. i - text + 1 \in 1 .. Len(file.data)
      <4> DEFINE n == Len(file.data)
      <4>1. text \in Nat /\ n \in Nat
        BY <1>1
      <4> HIDE DEF n
      <4>2. i \in 0 .. text + n - 1
        BY DEF n
      <4>3. i - text + 1 \in 1 .. n
        BY <2>3, <4>1, <4>2
      <4> QED BY <4>3 DEF n
    <3> QED BY SMTT(30), <1>1, <2>3, <3>1 DEF Image, text
  <2>4. \A i \in 0 .. text + Len(file.data) - 1 : i \in Nat
    OBVIOUS
  <2> QED BY <2>1, <2>2, <2>3, <2>4
<1>4. /\ DOMAIN memory \subseteq {"image", "stack", "global"} \X Nat
      /\ memory \in [DOMAIN memory -> ByteValue]
  <2>1. DOMAIN memory = {"image"} \X DOMAIN Image(file)
                          \cup {"stack"} \X (0 .. STACK_SIZE - 1)
                          \cup {"global"} \X (0 .. GLOBAL_SIZE - 1)
    BY DEF LoadProgram
  <2>2. 0 .. STACK_SIZE - 1 \subseteq Nat /\ 0 .. GLOBAL_SIZE - 1 \subseteq Nat
    BY LayoutAssumption
  <2>3. ASSUME NEW l \in DOMAIN memory PROVE memory[l] \in ByteValue
    <3>1. CASE l[1] = "image"
      <4>1. l[2] \in DOMAIN Image(file)
        BY <2>1, <3>1
      <4> QED BY <1>3, <3>1, <4>1, <2>1 DEF LoadProgram
    <3>2. CASE l[1] # "image"
      BY <1>2, <3>2, <2>1 DEF LoadProgram
    <3> QED BY <3>1, <3>2
  <2>4. memory = [l \in DOMAIN memory |-> memory[l]]
    BY DEF LoadProgram
  <2> QED BY <1>3, <2>1, <2>2, <2>3, <2>4
<1>5. registers \in [Registers -> WordValue]
  <2>1. {STACK_OFFSET + STACK_SIZE, GLOBAL_OFFSET, 0} \subseteq WordValue
    BY LayoutAssumption, Widths DEF WordValue
  <2> QED BY <2>1 DEF LoadProgram, InitialRegisters
<1>6. 0 \in WordValue /\ 1 \in 1 .. MaxFiles + 1
  BY EnvironmentAssumption, Widths DEF WordValue
<1>7. textSegmentLength \in Nat /\ {pc, hi, lo, exitCode} \subseteq WordValue
  BY <1>1, <1>2, <1>6 DEF LoadProgram, text
<1>8. /\ shouldExit \in BOOLEAN /\ fileID \in 1 .. MaxFiles + 1 /\ files \subseteq 1 .. fileID - 1
      /\ trap \in TrapType
  BY <1>6 DEF LoadProgram, TrapType
<1>9. frames \in Seq(FrameType)
  BY DEF LoadProgram
<1> QED BY <1>4, <1>5, <1>7, <1>8, <1>9 DEF TypeOK

LEMMA ResetTyped == TypeOK /\ Reset /\ frames' = <<>> => TypeOK'
<1> SUFFICES ASSUME TypeOK, Reset, frames' = <<>> PROVE TypeOK'
  OBVIOUS
<1>1. {STACK_OFFSET + STACK_SIZE, GLOBAL_OFFSET, 0} \subseteq WordValue
  BY SMTT(30), LayoutAssumption, Widths DEF WordValue
<1>2. InitialRegisters \in [Registers -> WordValue]
  BY <1>1 DEF InitialRegisters
<1>3. {pc', hi', lo', exitCode'} \subseteq WordValue /\ trap' \in TrapType
  BY <1>1 DEF Reset, TypeOK, TrapType
<1>4. frames' \in Seq(FrameType)
  OBVIOUS
<1> QED BY <1>2, <1>3, <1>4, Typed DEF Reset, TypeOK

\* Where the next instruction is, and where an instruction goes.
LEMMA AddressesAreWords ==
  ASSUME TypeOK, NEW d \in InstructionType
  PROVE  /\ Following \in WordValue /\ Wrap(pc + 2 * INSTRUCTION_SIZE) \in WordValue
         /\ OffsetAddress(d) \in WordValue /\ IndirectAddress(d) \in WordValue
         /\ {Following, OffsetAddress(d), IndirectAddress(d)} \subseteq Int
<1>1. /\ pc \in Int /\ registers[d.register1] \in Int /\ SignExtended(d.immediate) \in Int
      /\ INSTRUCTION_SIZE \in Int
  BY SignExtendedIsInt, Widths DEF TypeOK, InstructionType, WordValue, INSTRUCTION_SIZE
<1>2. \A w \in WordValue : w \in Int
  BY Widths DEF WordValue
<1> QED BY <1>1, <1>2, WrapIsWord DEF Following, OffsetAddress, IndirectAddress

LEMMA SetRegisterTyped ==
  ASSUME TypeOK, NEW r, NEW word \in WordValue, SetRegister(r, word)
  PROVE  registers' \in [Registers -> WordValue]
BY DEF SetRegister, TypeOK

LEMMA TrapTyped ==
  ASSUME TypeOK, NEW kind \in TrapType, Trap(kind), textSegmentLength' = textSegmentLength,
         frames' \in Seq(FrameType)
  PROVE  TypeOK'
BY Typed DEF Trap, machine, TypeOK

\* The history holds frames, whatever is executed.
LEMMA RecordTyped ==
  ASSUME TypeOK, Record
  PROVE  frames' \in Seq(FrameType)
<1>1. Following \in WordValue
  <2>1. pc + INSTRUCTION_SIZE \in Int
    BY Widths DEF TypeOK, WordValue, INSTRUCTION_SIZE
  <2> QED BY <2>1, WrapIsWord DEF Following
<1>2. {registers["sp"], registers["fp"], registers["gp"]} \subseteq WordValue
  BY DecodeAssumption DEF TypeOK
<1>3. Frame \in FrameType
  BY <1>1, <1>2 DEF Frame, FrameType, TypeOK
<1>4. frames \in Seq(FrameType)
  BY DEF TypeOK
<1>5. frames # <<>> => SubSeq(frames, 1, Len(frames) - 1) \in Seq(FrameType)
  BY <1>4
<1>6. Append(frames, Frame) \in Seq(FrameType)
  BY <1>3, <1>4
<1> QED BY <1>4, <1>5, <1>6 DEF Record, Recorded

\* An instruction that only writes registers and goes on.
LEMMA ControlTyped ==
  ASSUME TypeOK, textSegmentLength' = textSegmentLength,
         pc' \in WordValue, registers' \in [Registers -> WordValue], frames' \in Seq(FrameType),
         UNCHANGED <<memory, hi, lo, shouldExit, exitCode, files, fileID, trap>>
  PROVE  TypeOK'
BY Typed DEF TypeOK

LEMMA JumpTyped ==
  ASSUME TypeOK, NEW d \in InstructionType, textSegmentLength' = textSegmentLength,
         frames' \in Seq(FrameType),
         Branch(d) \/ SkipTwo(d) \/ Jump(d) \/ JumpRegister(d)
  PROVE  TypeOK'
<1>1. /\ d.absolute \in WordValue
      /\ {d.register0, d.register1} \subseteq Registers /\ "ra" \in Registers
  BY DecodeAssumption DEF InstructionType
<1>2. CASE Branch(d) \/ SkipTwo(d)
  BY <1>2, AddressesAreWords, ControlTyped DEF Branch, SkipTwo, TypeOK
<1>3. CASE Jump(d)
  <2>1. pc' \in WordValue
    BY <1>1, <1>3, AddressesAreWords DEF Jump
  <2>2. registers' \in [Registers -> WordValue]
    BY <1>3, AddressesAreWords, SetRegisterTyped DEF Jump, TypeOK
  <2> QED BY <1>3, <2>1, <2>2, ControlTyped DEF Jump
<1>4. CASE JumpRegister(d)
  <2>1. registers' \in [Registers -> WordValue]
    BY <1>4, AddressesAreWords, SetRegisterTyped DEF JumpRegister, TypeOK
  <2>2. pc' \in WordValue
    BY <1>1, <1>4, <2>1 DEF JumpRegister
  <2> QED BY <1>4, <2>1, <2>2, ControlTyped DEF JumpRegister
<1> QED BY <1>2, <1>3, <1>4

LEMMA ComputeTyped ==
  ASSUME TypeOK, NEW d \in InstructionType, textSegmentLength' = textSegmentLength,
         frames' \in Seq(FrameType),
         Arithmetic(d) \/ Divide(d) \/ Multiply(d)
  PROVE  TypeOK'
<1>1. CASE Arithmetic(d)
  <2>1. PICK word \in Results(d) : SetRegister(d.register0, word)
    BY <1>1 DEF Arithmetic
  <2>2. word \in WordValue
    BY <1>1, ResultsAreWords DEF Arithmetic
  <2> QED
    BY <1>1, <2>1, <2>2, AddressesAreWords, SetRegisterTyped, ControlTyped
    DEF Arithmetic, advancePc, TypeOK
<1>2. CASE Divide(d)
  <2> DEFINE f == registers[d.register0]
             s == registers[d.register1]
  <2>1. f \in WordValue /\ s \in WordValue
    BY DEF TypeOK, InstructionType
  <2>2. CASE s = 0
    BY <1>2, <2>2, TrapTyped DEF Divide, TrapType
  <2>3. CASE s # 0
    <3>1. f \in Nat /\ s \in Nat \ {0} /\ f < WORD_RANGE /\ s <= WORD_RANGE
      BY SMTT(30), <2>1, <2>3, Widths DEF WordValue
    <3>2. f \div s \in Nat /\ f \div s <= f /\ f % s \in 0 .. s - 1
      BY <3>1, Divided
    <3> DEFINE q == f \div s
               r == f % s
               w == WORD_RANGE
    <3>3. q \in 0 .. w - 1 /\ r \in 0 .. w - 1
      <4>1. w \in Nat /\ q \in Nat /\ q <= f /\ r \in 0 .. s - 1
        BY <3>2, Widths
      <4> HIDE DEF f, s, q, r, w
      <4>2. f \in Nat /\ s \in Nat /\ f < w /\ s <= w
        BY <3>1 DEF w
      <4> QED BY <4>1, <4>2
    <3>4. {pc', hi', lo', exitCode'} \subseteq WordValue
      BY <1>2, <2>3, <3>3, AddressesAreWords DEF Divide, advancePc, TypeOK, WordValue
    <3> QED BY <1>2, <2>3, <3>4, Typed DEF Divide, TypeOK
  <2> QED BY <2>2, <2>3
<1>3. CASE Multiply(d)
  <2> DEFINE a == registers[d.register0]
             b == registers[d.register1]
             w == WORD_RANGE
  <2>1. a \in 0 .. w - 1 /\ b \in 0 .. w - 1 /\ w \in Nat \ {0}
    BY Widths DEF TypeOK, InstructionType, WordValue
  <2>2. lo' = (a * b) % w /\ hi' = (a * b) \div w
    BY <1>3 DEF Multiply
  <2> HIDE DEF a, b, w
  <2>3. a * b \in Nat /\ a * b <= (w - 1) * (w - 1)
    <3>1. a * b <= a * (w - 1) /\ a * (w - 1) <= (w - 1) * (w - 1)
      BY <2>1
    <3> QED BY <2>1, <3>1
  <2>4. (w - 1) * (w - 1) < w * w
    BY <2>1
  <2> DEFINE q == (a * b) \div w
  <2>5. q \in Nat /\ a * b = ((a * b) % w) + w * q /\ (a * b) % w \in 0 .. w - 1
    BY <2>1, <2>3, Divided
  <2> HIDE DEF q
  <2>6. w * q < w * w
    BY <2>1, <2>3, <2>4, <2>5
  <2>7. q < w
    BY <2>1, <2>5, <2>6
  <2>8. {lo', hi'} \subseteq WordValue
    BY <2>1, <2>2, <2>5, <2>7 DEF WordValue, w, q
  <2>9. {pc', hi', lo', exitCode'} \subseteq WordValue
    BY <1>3, <2>8, AddressesAreWords DEF Multiply, advancePc, TypeOK
  <2> QED BY <1>3, <2>9, Typed DEF Multiply, TypeOK
<1> QED BY <1>1, <1>2, <1>3

LEMMA LoadTyped ==
  ASSUME TypeOK, NEW d \in InstructionType, textSegmentLength' = textSegmentLength,
         frames' \in Seq(FrameType), Load(d)
  PROVE  TypeOK'
<1> DEFINE address == IndirectAddress(d)
<1>1. CASE ~(Operand(d) \subseteq DOMAIN memory)
  BY <1>1, TrapTyped DEF Load, TrapType
<1>2. CASE Operand(d) \subseteq DOMAIN memory
  <2>1. \A l \in DOMAIN memory : memory[l] \in ByteValue /\ memory[l] \in WordValue
    BY SMTT(30), SmallIsWord, Widths DEF TypeOK, ByteValue
  <2>2. d.opcode = "LB" => memory[Locate(address)] \in WordValue
    BY <1>2, <2>1 DEF Operand
  <2>3. d.opcode # "LB" => LoadWord(memory, address) \in WordValue
    BY <1>2, <2>1, LoadedWord DEF Operand, Load
  <2>4. registers' \in [Registers -> WordValue]
    BY <1>2, <2>2, <2>3, SetRegisterTyped DEF Load
  <2>5. pc' \in WordValue
    BY <1>2, AddressesAreWords DEF Load, advancePc
  <2> QED BY <1>2, <2>4, <2>5, ControlTyped DEF Load, TypeOK
<1> QED BY <1>1, <1>2

LEMMA RegistersHoldWords ==
  ASSUME TypeOK
  PROVE  /\ {"v0", "a0", "a1", "a2"} \subseteq Registers
         /\ \A r \in Registers : registers[r] \in WordValue /\ registers[r] \in Nat
BY DecodeAssumption, Widths DEF TypeOK, WordValue

LEMMA StoreTyped ==
  ASSUME TypeOK, NEW d \in InstructionType, textSegmentLength' = textSegmentLength,
         frames' \in Seq(FrameType), Store(d)
  PROVE  TypeOK'
<1> DEFINE address == IndirectAddress(d)
           word == registers[d.register0]
<1>1. CASE ~(Operand(d) \subseteq DOMAIN memory)
  BY <1>1, TrapTyped DEF Store, TrapType
<1>2. CASE Operand(d) \subseteq DOMAIN memory
  <2>1. word \in Nat /\ word % BYTE_RANGE \in ByteValue /\ address \in Int
    <3>1. word \in Nat /\ address \in Int
      BY AddressesAreWords, RegistersHoldWords DEF InstructionType
    <3> QED BY SMTT(30), <3>1, Widths DEF ByteValue
  <2>2. memory' \in [DOMAIN memory -> ByteValue]
    <3>1. StoreWord(memory, address, word) \in [DOMAIN memory -> ByteValue]
      BY <2>1, StoredWord DEF TypeOK
    <3>2. CASE d.opcode = "SB"
      BY <1>2, <2>1, <3>2 DEF Store, TypeOK
    <3>3. CASE d.opcode # "SB"
      BY <1>2, <3>1, <3>3 DEF Store
    <3> QED BY <3>2, <3>3
  <2>3. {pc', hi', lo', exitCode'} \subseteq WordValue
    BY <1>2, AddressesAreWords DEF Store, advancePc, TypeOK
  <2> QED BY <1>2, <2>2, <2>3, Typed DEF Store, TypeOK
<1> QED BY <1>1, <1>2

LEMMA SystemCallTyped ==
  ASSUME TypeOK, NEW d \in InstructionType, textSegmentLength' = textSegmentLength,
         frames' \in Seq(FrameType), SystemCall(d)
  PROVE  TypeOK'
<1>1. Following \in WordValue
  BY AddressesAreWords
<1>2. CASE ServiceExit
  <2>1. {pc', hi', lo', exitCode'} \subseteq WordValue
    BY <1>1, <1>2, RegistersHoldWords DEF ServiceExit, advancePc, TypeOK
  <2> QED BY <1>2, <2>1, Typed DEF ServiceExit, TypeOK
<1>3. CASE ServiceRead
  <2>1. registers' \in [Registers -> WordValue]
    BY <1>3, EnvironmentAssumption, SetRegisterTyped DEF ServiceRead, TypeOK
  <2> QED BY <1>1, <1>3, <2>1, ControlTyped DEF ServiceRead, advancePc, TypeOK
<1>4. CASE ServiceWrite
  BY <1>1, <1>4, ControlTyped, TrapTyped DEF ServiceWrite, advancePc, TypeOK, TrapType
<1>5. CASE ServiceReadString
  <2>1. pc' \in WordValue /\ trap' \in TrapType /\ memory' \in [DOMAIN memory -> ByteValue]
    <3>1. CASE registers["a1"] = 0
      BY <1>1, <1>5, <3>1 DEF ServiceReadString, advancePc, TypeOK
    <3>2. CASE registers["a1"] # 0
      <4> DEFINE bytes(line) == Append(Cut(line, registers["a1"]), 0)
      <4>1. PICK line \in Lines :
              IF StringLocations(registers["a0"], Len(bytes(line))) \subseteq DOMAIN memory
              THEN /\ memory' = StoreString(memory, registers["a0"], bytes(line))
                   /\ advancePc
                   /\ UNCHANGED trap
              ELSE trap' = "undefined" /\ UNCHANGED <<memory, pc>>
        BY <1>5, <3>2 DEF ServiceReadString
      <4>2. registers["a0"] \in Int /\ registers["a1"] \in Nat \ {0}
        BY <3>2, RegistersHoldWords
      <4>3. bytes(line) \in Seq(ByteValue)
        BY <4>2, CutFits
      <4> HIDE DEF bytes
      <4>4. StoreString(memory, registers["a0"], bytes(line)) \in [DOMAIN memory -> ByteValue]
        BY <4>2, <4>3, StoredString DEF TypeOK
      <4> QED BY <1>1, <4>1, <4>4 DEF advancePc, TypeOK, TrapType
    <3> QED BY <3>1, <3>2
  <2>2. {pc', hi', lo', exitCode'} \subseteq WordValue
    BY <1>5, <2>1 DEF ServiceReadString, TypeOK
  <2> QED BY <1>5, <2>1, <2>2, Typed DEF ServiceReadString, TypeOK
<1>6. CASE ServiceAllocate
  <2>1. registers' \in [Registers -> WordValue]
    BY <1>6, EnvironmentAssumption, SetRegisterTyped DEF ServiceAllocate
  <2> QED BY <1>1, <1>6, <2>1, ControlTyped DEF ServiceAllocate, advancePc, TypeOK
<1>7. CASE ServiceDeallocate
  BY <1>1, <1>7, ControlTyped, TrapTyped DEF ServiceDeallocate, advancePc, TypeOK, TrapType
<1>8. CASE ServiceOpenFile
  <2>1. fileID \in 1 .. MaxFiles /\ MaxFiles \in WordValue /\ files \subseteq 1 .. fileID - 1
    BY <1>8, EnvironmentAssumption, Widths DEF ServiceOpenFile, TypeOK, WordValue
  <2>2. CASE Trap("exception") \/ Trap("undefined")
    BY <2>2, TrapTyped DEF TrapType
  <2>3. CASE /\ files' = files \cup {fileID} /\ fileID' = fileID + 1
             /\ SetRegister("v0", fileID) /\ advancePc
             /\ UNCHANGED <<memory, hi, lo, shouldExit, exitCode, trap>>
    <3>1. fileID \in WordValue
      BY <2>1, Widths DEF WordValue
    <3>2. fileID' \in 1 .. MaxFiles + 1 /\ files' \subseteq 1 .. fileID' - 1
      BY <2>1, <2>3, Widths DEF WordValue
    <3>3. registers' \in [Registers -> WordValue]
      BY <2>3, <3>1, SetRegisterTyped
    <3>4. {pc', hi', lo', exitCode'} \subseteq WordValue
      BY <1>1, <2>3 DEF advancePc, TypeOK
    <3> QED BY <2>3, <3>2, <3>3, <3>4, Typed DEF TypeOK
  <2> QED BY <1>8, <2>2, <2>3 DEF ServiceOpenFile
<1>9. CASE ServiceCloseFile
  <2>1. CASE Trap("exception")
    BY <2>1, TrapTyped DEF TrapType
  <2>2. CASE ~Trap("exception")
    <3>1. {pc', hi', lo', exitCode'} \subseteq WordValue /\ files' \subseteq 1 .. fileID' - 1
      BY <1>1, <1>9, <2>2 DEF ServiceCloseFile, advancePc, TypeOK
    <3> QED BY <1>9, <2>2, <3>1, Typed DEF ServiceCloseFile, TypeOK
  <2> QED BY <2>1, <2>2
<1>10. CASE ServiceSeek
  BY <1>1, <1>10, ControlTyped, TrapTyped DEF ServiceSeek, advancePc, TypeOK, TrapType
<1>11. CASE ServiceUnknown
  BY <1>11, TrapTyped DEF ServiceUnknown, TrapType
<1> QED
  BY <1>2, <1>3, <1>4, <1>5, <1>6, <1>7, <1>8, <1>9, <1>10, <1>11 DEF SystemCall

\* Every step keeps the types, of whichever loop it is a step.
LEMMA StepTyped == TypeOK /\ Step /\ Record => TypeOK'
<1> SUFFICES ASSUME TypeOK, Step, Record PROVE TypeOK'
  OBVIOUS
<1>1. textSegmentLength' = textSegmentLength /\ frames' \in Seq(FrameType)
  BY RecordTyped DEF Step
<1>2. CASE \E kind \in TrapType : Trap(kind)
  BY <1>1, <1>2, TrapTyped
<1>3. CASE \E d \in InstructionType : ExecuteInstruction(d)
  BY <1>1, <1>3, ComputeTyped, JumpTyped, LoadTyped, StoreTyped, SystemCallTyped
  DEF ExecuteInstruction
<1> QED BY <1>2, <1>3, DecodeAssumption DEF Step, TrapType

\* Registers, memory and program counter hold numbers of their widths whatever
\* a program computes, loads, reads or jumps to; handles are the ones given out.
THEOREM TypeCorrect == Spec => []TypeOK
<1>1. Init => TypeOK
  BY InitTyped
<1>2. TypeOK /\ [Next]_machineVars => TypeOK'
  <2> SUFFICES ASSUME TypeOK, [Next]_machineVars PROVE TypeOK'
    OBVIOUS
  <2>1. CASE UNCHANGED machineVars
    <3>1. FrameType' = FrameType
      BY <2>1 DEF machineVars, FrameType, WordValue, ByteValue
    <3> QED BY <2>1, <3>1 DEF machineVars, TypeOK, TrapType, ByteValue, WordValue
  <2> QED BY <2>1, StepTyped DEF Next, Iterate, Finished
<1> QED BY <1>1, <1>2, PTL DEF Spec

-----------------------------------------------------------------------------
(***************************************************************************)
(* read_string.                                                            *)
(***************************************************************************)

\* A string is written where its bytes are, its last byte last.
LEMMA StringStored ==
  ASSUME NEW bytes \in Seq(ByteValue), Len(bytes) # 0, NEW address \in Int,
         NEW m, StringLocations(address, Len(bytes)) \subseteq DOMAIN m
  PROVE  LET stored == StoreString(m, address, bytes)
             last == Locate(Wrap(address + Len(bytes) - 1))
         IN  /\ \A l \in DOMAIN m \ StringLocations(address, Len(bytes)) : stored[l] = m[l]
             /\ last \in StringLocations(address, Len(bytes))
             /\ stored[last] = bytes[Len(bytes)]
<1> DEFINE hits(l) == {i \in 1 .. Len(bytes) : Locate(Wrap(address + i - 1)) = l}
           last == Locate(Wrap(address + Len(bytes) - 1))
           n == Len(bytes)
<1>1. n \in Nat \ {0}
  OBVIOUS
<1>2. ASSUME NEW l, NEW i \in 1 .. n, Locate(Wrap(address + i - 1)) = l
      PROVE  l \in StringLocations(address, n)
  <2>1. i - 1 \in 0 .. n - 1 /\ address + (i - 1) = address + i - 1
    BY <1>1
  <2> QED BY <1>2, <2>1 DEF StringLocations
<1>3. ASSUME NEW l \in DOMAIN m, l \notin StringLocations(address, n)
      PROVE  StoreString(m, address, bytes)[l] = m[l]
  <2>1. hits(l) = {}
    BY <1>2, <1>3
  <2> QED BY <2>1 DEF StoreString
<1>4. last \in StringLocations(address, n)
  BY <1>1, <1>2
<1>5. StoreString(m, address, bytes)[last] = bytes[n]
  <2>1. n \in hits(last) /\ hits(last) \in SUBSET (0 .. n)
    BY <1>1
  <2>2. Max(hits(last)) \in hits(last) /\ n <= Max(hits(last))
    BY <1>1, <2>1, Greatest
  <2>3. Max(hits(last)) = n
    BY <1>1, <2>1, <2>2
  <2> QED BY <1>4, <2>1, <2>3 DEF StoreString
<1> QED BY <1>3, <1>4, <1>5

LEMMA ReadStringStays ==
  ASSUME TypeOK, ServiceReadString
  PROVE  /\ DOMAIN memory' = DOMAIN memory
         /\ \A l \in DOMAIN memory : memory'[l] # memory[l] => l \in Buffer
         /\ registers["a1"] > 0 /\ trap' # "undefined" =>
              \E l \in Buffer \cap DOMAIN memory : memory'[l] = 0
<1> DEFINE size == registers["a1"]
           address == registers["a0"]
<1>1. address \in Int /\ size \in Nat
  BY RegistersHoldWords
<1>2. CASE memory' = memory /\ ~(size > 0 /\ trap' # "undefined")
  BY <1>2
<1>3. CASE ~(memory' = memory /\ ~(size > 0 /\ trap' # "undefined"))
  <2>1. size \in Nat \ {0}
    BY <1>1, <1>3 DEF ServiceReadString
  <2>2. PICK line \in Lines :
          LET bytes == Append(Cut(line, size), 0)
          IN  /\ StringLocations(address, Len(bytes)) \subseteq DOMAIN memory
              /\ memory' = StoreString(memory, address, bytes)
    BY <1>3, <2>1 DEF ServiceReadString
  <2> DEFINE bytes == Append(Cut(line, size), 0)
             last == Locate(Wrap(address + Len(bytes) - 1))
  <2>3. bytes \in Seq(ByteValue) /\ Len(bytes) \in 1 .. size /\ bytes[Len(bytes)] = 0
    BY <2>1, CutFits
  <2>4. /\ StringLocations(address, Len(bytes)) \subseteq DOMAIN memory
        /\ memory' = StoreString(memory, address, bytes)
    BY <2>2
  <2>5. StringLocations(address, Len(bytes)) \subseteq StringLocations(address, size)
    <3>1. 0 .. Len(bytes) - 1 \subseteq 0 .. size - 1
      BY <2>1, <2>3
    <3> QED BY <3>1 DEF StringLocations
  <2>6. Buffer = StringLocations(address, size)
    <3>1. Service(5) /\ ~Service(6) /\ ~Service(9)
      BY DEF ServiceReadString, Service
    <3> QED BY <3>1 DEF Buffer
  <2> HIDE DEF bytes
  <2>7. /\ \A l \in DOMAIN memory \ StringLocations(address, Len(bytes)) : memory'[l] = memory[l]
        /\ last \in StringLocations(address, Len(bytes))
        /\ memory'[last] = 0
    BY <1>1, <2>3, <2>4, StringStored
  <2>8. DOMAIN memory' = DOMAIN memory
    BY <2>4 DEF StoreString
  <2> QED BY <2>4, <2>5, <2>6, <2>7, <2>8
<1> QED BY <1>2, <1>3

\* read_string changes no byte outside the buffer the program names, and leaves
\* a null in it, for every line, every buffer, in text, data, stack or at the
\* end of the address space.
THEOREM ReadStringKeepsToBuffer == Spec => StringInBuffer
<1>1. TypeOK /\ [Next]_machineVars =>
        [ Executes("SYS") /\ Service(5) /\ trap' = "none" /\ registers["a1"] > 0 =>
            /\ \A l \in DOMAIN memory : memory'[l] # memory[l] => l \in Buffer
            /\ \E l \in Buffer \cap DOMAIN memory : memory'[l] = 0 ]_machineVars
  <2> SUFFICES ASSUME TypeOK, Next, Executes("SYS"), Service(5), trap' = "none",
                      registers["a1"] > 0
               PROVE  /\ \A l \in DOMAIN memory : memory'[l] # memory[l] => l \in Buffer
                      /\ \E l \in Buffer \cap DOMAIN memory : memory'[l] = 0
    OBVIOUS
  <2>1. Step
    BY DEF Next, Iterate, Finished, Ended, Executes
  <2>2. PICK d \in InstructionType : ExecuteInstruction(d) /\ d.opcode = "SYS"
    BY <2>1, DecodeAssumption DEF Step, Executes
  <2>3. SystemCall(d)
    BY <2>2
    DEF ExecuteInstruction, Arithmetic, ArithmeticOpcode, Branch, BranchOpcode, SkipTwo, Divide,
        Multiply, Jump, JumpRegister, Load, Store
  <2>4. ServiceReadString
    BY <2>3 DEF SystemCall, Service, ServiceExit, ServiceRead, ServiceWrite, ServiceAllocate,
        ServiceDeallocate, ServiceOpenFile, ServiceCloseFile, ServiceSeek, ServiceUnknown
  <2> QED BY <2>4, ReadStringStays
<1> QED BY <1>1, TypeCorrect, PTL DEF Spec, StringInBuffer

-----------------------------------------------------------------------------
(***************************************************************************)
(* The until set.                                                          *)
(***************************************************************************)

\* Setting a breakpoint adds an address, and only that, to the breakpoints.
LEMMA SetBreakpointDomain ==
  ASSUME NEW a, SetBreakpoint(a)
  PROVE  DOMAIN breakpoints' = DOMAIN breakpoints \cup {a}
BY DEF SetBreakpoint, WithEntry

\* Removing one takes away that address, and only that.
LEMMA RemoveBreakpointDomain ==
  ASSUME NEW a, RemoveBreakpoint(a)
  PROVE  DOMAIN breakpoints' = DOMAIN breakpoints \ {a}
BY DEF RemoveBreakpoint

\* cli() is left for good.
LEMMA OverIsFinal == DebuggerNext /\ mode = "over" => mode' = "over"
BY DEF DebuggerNext, Command, Executing, Execute, Continue, StepInstruction, PeakRegister,
       Quit, Break, RunUntil, PeakMemory, Run, Return, Catch, Abort, Over, debuggerVars

LEMMA InitUntil == DebuggerInit => UntilHasBreakpoint
BY DEF DebuggerInit, UntilHasBreakpoint

LEMMA StepUntil ==
  UntilHasBreakpoint /\ [DebuggerNext]_debuggerVars => UntilHasBreakpoint'
<1> SUFFICES ASSUME UntilHasBreakpoint, [DebuggerNext]_debuggerVars, mode' # "over"
             PROVE  until' \subseteq DOMAIN breakpoints'
  BY DEF UntilHasBreakpoint
<1>1. CASE UNCHANGED debuggerVars
  BY <1>1 DEF debuggerVars, UntilHasBreakpoint
<1>2. CASE DebuggerNext
  <2>1. until \subseteq DOMAIN breakpoints
    BY <1>2, OverIsFinal DEF UntilHasBreakpoint
  <2>2. CASE Execute \/ Continue \/ StepInstruction \/ Run \/ Return
    BY <2>1, <2>2 DEF Execute, Continue, StepInstruction, Run, Return
  <2>3. CASE PeakRegister \/ Quit \/ Abort \/ Over \/ \E a \in Addresses : PeakMemory(a)
    BY <2>3 DEF PeakRegister, Quit, Abort, Over, PeakMemory, Wreck, debuggerVars
  <2>4. CASE \E a \in Addresses : Break(a)
    <3>1. PICK a \in Addresses : Break(a)  BY <2>4
    <3>2. SetBreakpoint(a) /\ until' = until  BY <3>1 DEF Break, Wreck
    <3>3. QED  BY <2>1, <3>2, SetBreakpointDomain
  <2>5. CASE \E a \in Addresses : RunUntil(a)
    <3>1. PICK a \in Addresses : RunUntil(a)  BY <2>5
    <3>2. SetBreakpoint(a) /\ until' = until \cup {a}  BY <3>1 DEF RunUntil, Wreck
    <3>3. QED  BY <2>1, <3>2, SetBreakpointDomain
  <2>6. CASE Catch
    <3>1. CASE pc \in until
      <4>1. RemoveBreakpoint(pc) /\ until' = until \ {pc}  BY <2>6, <3>1 DEF Catch
      <4>2. QED  BY <2>1, <4>1, RemoveBreakpointDomain
    <3>2. CASE pc \notin until
      BY <2>1, <2>6, <3>2 DEF Catch
    <3>3. QED  BY <3>1, <3>2
  <2>7. QED  BY <1>2, <2>2, <2>3, <2>4, <2>5, <2>6 DEF DebuggerNext, Command, Executing
<1>3. QED  BY <1>1, <1>2

\* While the prompt lives, every address that a run is to stop at has its
\* breakpoint: setBreakpoint, removeBreakpoint and the handler of the signal
\* keep the two sets together, whatever the program does to its memory.
THEOREM UntilIsPatched == DebuggerSpec => []UntilHasBreakpoint
<1>1. DebuggerInit => UntilHasBreakpoint  BY InitUntil
<1>2. UntilHasBreakpoint /\ [DebuggerNext]_debuggerVars => UntilHasBreakpoint'
  BY StepUntil
<1>3. QED  BY <1>1, <1>2, PTL DEF DebuggerSpec

-----------------------------------------------------------------------------
(***************************************************************************)
(* Alone is the same machine: what does not read memory is the same.       *)
(***************************************************************************)

LEMMA SameSizes ==
  /\ Alone!PowerOfTwo = PowerOfTwo
  /\ Alone!INSTRUCTION_SIZE = INSTRUCTION_SIZE
  /\ Alone!BYTE_RANGE = BYTE_RANGE /\ Alone!HALF_RANGE = HALF_RANGE
  /\ Alone!WORD_RANGE = WORD_RANGE /\ Alone!WORD_BIT = WORD_BIT
<1>1. Alone!PowerOfTwo = PowerOfTwo
  BY DEF PowerOfTwo, Alone!PowerOfTwo
<1>2. Alone!BYTE_RANGE = BYTE_RANGE /\ Alone!INSTRUCTION_SIZE = INSTRUCTION_SIZE
  BY <1>1 DEF BYTE_RANGE, Alone!BYTE_RANGE, INSTRUCTION_SIZE, Alone!INSTRUCTION_SIZE
<1> QED
  BY <1>1, <1>2
  DEF HALF_RANGE, Alone!HALF_RANGE, WORD_RANGE, Alone!WORD_RANGE, WORD_BIT, Alone!WORD_BIT

LEMMA SameArithmetic ==
  /\ \A n : Alone!Wrap(n) = Wrap(n)
  /\ \A n : Alone!SignExtended(n) = SignExtended(n)
  /\ \A n : Alone!Bool(n) = Bool(n)
  /\ \A n : Alone!Distances(n) = Distances(n)
  /\ \A n : Alone!BitNot(n) = BitNot(n)
  /\ \A a, b : Alone!BitAnd(a, b) = BitAnd(a, b)
  /\ \A a, b : Alone!BitOr(a, b) = BitOr(a, b)
  /\ \A a, b : Alone!BitXor(a, b) = BitXor(a, b)
  /\ \A a, b : Alone!ShiftLeft(a, b) = ShiftLeft(a, b)
  /\ \A a, b : Alone!ShiftRight(a, b) = ShiftRight(a, b)
  /\ \A a, b : Alone!ShiftRightOnes(a, b) = ShiftRightOnes(a, b)
<1>1. \A n : Alone!Bits(n) = Bits(n)
  BY SameSizes DEF Bits, Alone!Bits
<1>2. \A bits : Alone!FromBits(bits) = FromBits(bits)
  BY SameSizes DEF FromBits, Alone!FromBits
<1>3. /\ \A n : Alone!Wrap(n) = Wrap(n)
      /\ \A n : Alone!SignExtended(n) = SignExtended(n)
      /\ \A n : Alone!Bool(n) = Bool(n)
      /\ \A n : Alone!Distances(n) = Distances(n)
      /\ \A n : Alone!BitNot(n) = BitNot(n)
  BY SameSizes
  DEF Wrap, Alone!Wrap, SignExtended, Alone!SignExtended, Bool, Alone!Bool,
      Distances, Alone!Distances, BitNot, Alone!BitNot
<1>4. /\ \A a, b : Alone!ShiftLeft(a, b) = ShiftLeft(a, b)
      /\ \A a, b : Alone!ShiftRight(a, b) = ShiftRight(a, b)
      /\ \A a, b : Alone!BitAnd(a, b) = BitAnd(a, b)
      /\ \A a, b : Alone!BitOr(a, b) = BitOr(a, b)
      /\ \A a, b : Alone!BitXor(a, b) = BitXor(a, b)
  BY <1>1, <1>2, SameSizes
  DEF ShiftLeft, Alone!ShiftLeft, ShiftRight, Alone!ShiftRight, BitAnd, Alone!BitAnd,
      BitOr, Alone!BitOr, BitXor, Alone!BitXor
<1>5. \A a, b : Alone!ShiftRightOnes(a, b) = ShiftRightOnes(a, b)
  BY <1>3, <1>4, SameSizes DEF ShiftRightOnes, Alone!ShiftRightOnes
<1> QED BY <1>3, <1>4, <1>5

LEMMA SameStrings ==
  /\ \A line, size : Alone!Cut(line, size) = Cut(line, size)
  /\ \A m, address, bytes :
       Alone!StoreString(m, address, bytes) = StoreString(m, address, bytes)
<1>1. (\A S : Alone!Max(S) = Max(S)) /\ (\A S : Alone!Min(S) = Min(S))
  BY DEF Max, Alone!Max, Min, Alone!Min
<1>2. \A a : Alone!Locate(a) = Locate(a)
  BY DEF Locate, Alone!Locate
<1> QED BY ZenonT(60), <1>1, <1>2, SameArithmetic DEF Cut, Alone!Cut, StoreString, Alone!StoreString

LEMMA SameResults ==
  ASSUME NEW d
  PROVE  Alone!Results(d) = Results(d)
BY SameArithmetic, SameSizes DEF Results, Alone!Results

LEMMA SameAddresses ==
  /\ \A a : Alone!Locate(a) = Locate(a)
  /\ \A a, i : Alone!Beyond(a, i) = Beyond(a, i)
  /\ \A a : Alone!WordLocations(a) = WordLocations(a)
  /\ \A a, n : Alone!StringLocations(a, n) = StringLocations(a, n)
  /\ Alone!Following = Following
  /\ \A d : Alone!OffsetAddress(d) = OffsetAddress(d)
  /\ \A d : Alone!IndirectAddress(d) = IndirectAddress(d)
  /\ \A d : Alone!Operand(d) = Operand(d)
<1>1. \A a : Alone!Locate(a) = Locate(a)
  BY DEF Locate, Alone!Locate
<1>2. \A a, i : Alone!Beyond(a, i) = Beyond(a, i)
  BY <1>1 DEF Beyond, Alone!Beyond
<1>3. \A a : Alone!WordLocations(a) = WordLocations(a)
  BY <1>2, SameSizes DEF WordLocations, Alone!WordLocations
<1>4. \A a, n : Alone!StringLocations(a, n) = StringLocations(a, n)
  BY <1>1, SameArithmetic DEF StringLocations, Alone!StringLocations
<1>5. /\ Alone!Following = Following
      /\ \A d : Alone!OffsetAddress(d) = OffsetAddress(d)
      /\ \A d : Alone!IndirectAddress(d) = IndirectAddress(d)
  BY SameArithmetic, SameSizes
  DEF Following, Alone!Following, OffsetAddress, Alone!OffsetAddress, IndirectAddress,
      Alone!IndirectAddress
<1>6. \A d : Alone!Operand(d) = Operand(d)
  BY <1>1, <1>3, <1>5 DEF Operand, Alone!Operand
<1> QED BY <1>1, <1>2, <1>3, <1>4, <1>5, <1>6

-----------------------------------------------------------------------------
(***************************************************************************)
(* Instructions that touch no breakpoint do the same alone.                *)
(***************************************************************************)

LEMMA AloneTraps ==
  ASSUME Unpatched' = Unpatched, NEW kind, Trap(kind)
  PROVE  Alone!Trap(kind)
BY DEF Trap, Alone!Trap, machine, Alone!machine

\* What reads and writes no memory.
LEMMA AloneComputes ==
  ASSUME Unpatched' = Unpatched, NEW d,
         \/ Arithmetic(d) \/ Branch(d) \/ SkipTwo(d) \/ Divide(d) \/ Multiply(d)
         \/ Jump(d) \/ JumpRegister(d)
  PROVE  \/ Alone!Arithmetic(d) \/ Alone!Branch(d) \/ Alone!SkipTwo(d) \/ Alone!Divide(d)
         \/ Alone!Multiply(d) \/ Alone!Jump(d) \/ Alone!JumpRegister(d)
<1>1. /\ \A r, word : SetRegister(r, word) => Alone!SetRegister(r, word)
      /\ advancePc => Alone!advancePc
  BY SameAddresses
  DEF SetRegister, Alone!SetRegister, advancePc, Alone!advancePc
<1>2. Alone!ArithmeticOpcode = ArithmeticOpcode /\ Alone!BranchOpcode = BranchOpcode
  BY DEF ArithmeticOpcode, Alone!ArithmeticOpcode, BranchOpcode, Alone!BranchOpcode
<1>3. Arithmetic(d) => Alone!Arithmetic(d)
  BY <1>1, <1>2, SameResults DEF Arithmetic, Alone!Arithmetic
<1>4. Branch(d) => Alone!Branch(d)
  <2>1. Alone!Taken(d) = Taken(d)
    BY DEF Taken, Alone!Taken
  <2> QED BY <1>2, <2>1, SameAddresses DEF Branch, Alone!Branch
<1>5. SkipTwo(d) => Alone!SkipTwo(d)
  BY SameArithmetic, SameSizes DEF SkipTwo, Alone!SkipTwo
<1>6. Divide(d) => Alone!Divide(d)
  BY <1>1, AloneTraps DEF Divide, Alone!Divide
<1>7. Multiply(d) => Alone!Multiply(d)
  BY <1>1, SameSizes DEF Multiply, Alone!Multiply
<1>8. Jump(d) => Alone!Jump(d)
  BY <1>1, SameAddresses DEF Jump, Alone!Jump
<1>9. JumpRegister(d) => Alone!JumpRegister(d)
  BY <1>1, SameAddresses DEF JumpRegister, Alone!JumpRegister
<1> QED BY <1>3, <1>4, <1>5, <1>6, <1>7, <1>8, <1>9

\* The services that read and write no memory.
LEMMA AloneServes ==
  ASSUME Unpatched' = Unpatched, ~Service(5), ~Service(6), ~Service(9), NEW d, SystemCall(d)
  PROVE  Alone!SystemCall(d)
<1>1. /\ \A r, word : SetRegister(r, word) => Alone!SetRegister(r, word)
      /\ advancePc => Alone!advancePc
      /\ \A n : Alone!Service(n) = Service(n)
  BY SameAddresses
  DEF SetRegister, Alone!SetRegister, advancePc, Alone!advancePc, Service, Alone!Service
<1>2. ServiceExit => Alone!ServiceExit
  BY <1>1 DEF ServiceExit, Alone!ServiceExit
<1>3. ServiceRead => Alone!ServiceRead
  BY <1>1 DEF ServiceRead, Alone!ServiceRead
<1>4. ServiceWrite => Alone!ServiceWrite
  BY <1>1 DEF ServiceWrite, Alone!ServiceWrite
<1>5. ServiceAllocate => Alone!ServiceAllocate
  BY <1>1 DEF ServiceAllocate, Alone!ServiceAllocate
<1>6. ServiceDeallocate => Alone!ServiceDeallocate
  BY <1>1, AloneTraps DEF ServiceDeallocate, Alone!ServiceDeallocate
<1>7. ServiceCloseFile => Alone!ServiceCloseFile
  BY <1>1, AloneTraps DEF ServiceCloseFile, Alone!ServiceCloseFile
<1>8. ServiceSeek => Alone!ServiceSeek
  BY <1>1, AloneTraps DEF ServiceSeek, Alone!ServiceSeek
<1>9. ServiceUnknown => Alone!ServiceUnknown
  BY <1>1, AloneTraps DEF ServiceUnknown, Alone!ServiceUnknown
<1> QED
  BY <1>2, <1>3, <1>4, <1>5, <1>6, <1>7, <1>8, <1>9
  DEF SystemCall, Alone!SystemCall, ServiceReadString, ServiceOpenFile

\* Where no breakpoint is, memory and the program's memory agree, and a step
\* that leaves the breakpoints where they are changes both in the same way.
Agree ==
  /\ DOMAIN Unpatched = DOMAIN memory
  /\ \A l \in DOMAIN memory \ Patched : Unpatched[l] = memory[l]
  /\ Unpatched' = [l \in DOMAIN memory |-> IF l \in Patched THEN Unpatched[l] ELSE memory'[l]]
  /\ memory' = memory => Unpatched' = Unpatched

\* A word beside the breakpoints is loaded as it is alone.
LEMMA SameWord ==
  ASSUME Agree, NEW address, WordLocations(address) \subseteq DOMAIN memory,
         WordLocations(address) \cap Patched = {}
  PROVE  Alone!LoadWord(Unpatched, address) = LoadWord(memory, address)
<1>1. \A i \in 0 .. 3 : Beyond(address, i) \in DOMAIN memory \ Patched
  BY DEF WordLocations, INSTRUCTION_SIZE
<1>2. \A i \in 0 .. 3 : Unpatched[Beyond(address, i)] = memory[Beyond(address, i)]
  BY <1>1 DEF Agree
<1> QED BY <1>2, SameAddresses, SameSizes DEF LoadWord, Alone!LoadWord

LEMMA AloneLoads ==
  ASSUME Agree, NEW d, Load(d), Operand(d) \cap Patched = {}
  PROVE  Alone!Load(d)
<1> DEFINE address == IndirectAddress(d)
<1>1. Unpatched' = Unpatched
  BY DEF Agree, Load, Trap, machine
<1>2. CASE ~(Operand(d) \subseteq DOMAIN memory)
  BY <1>1, <1>2, AloneTraps, SameAddresses DEF Agree, Load, Alone!Load
<1>3. CASE Operand(d) \subseteq DOMAIN memory
  <2>1. d.opcode = "LB" => Unpatched[Locate(address)] = memory[Locate(address)]
    BY <1>3 DEF Operand, Agree
  <2>2. d.opcode = "LW" => Alone!LoadWord(Unpatched, address) = LoadWord(memory, address)
    BY <1>3, SameWord DEF Operand
  <2> QED
    BY <1>1, <1>3, <2>1, <2>2, SameAddresses
    DEF Agree, Load, Alone!Load, SetRegister, Alone!SetRegister, advancePc, Alone!advancePc
<1> QED BY <1>2, <1>3

\* What is stored beside the breakpoints is stored alone.
LEMMA AloneStores ==
  ASSUME Agree, NEW d, Store(d), Operand(d) \cap Patched = {}
  PROVE  Alone!Store(d)
<1> DEFINE address == IndirectAddress(d)
           word == registers[d.register0]
<1>1. CASE ~(Operand(d) \subseteq DOMAIN memory)
  <2>1. Unpatched' = Unpatched
    BY <1>1 DEF Agree, Store, Trap, machine
  <2> QED BY <1>1, <2>1, AloneTraps, SameAddresses DEF Agree, Store, Alone!Store
<1>2. CASE Operand(d) \subseteq DOMAIN memory
  <2>1. d.opcode = "SB" => Unpatched' = [Unpatched EXCEPT ![Locate(address)] = word % BYTE_RANGE]
    <3> SUFFICES ASSUME d.opcode = "SB"
                 PROVE  Unpatched' = [Unpatched EXCEPT ![Locate(address)] = word % BYTE_RANGE]
      OBVIOUS
    <3>1. memory' = [memory EXCEPT ![Locate(address)] = word % BYTE_RANGE]
      BY <1>2 DEF Store
    <3>2. Locate(address) \notin Patched
      BY DEF Operand
    <3>3. [Unpatched EXCEPT ![Locate(address)] = word % BYTE_RANGE]
            = [l \in DOMAIN memory |->
                 IF l = Locate(address) THEN word % BYTE_RANGE ELSE Unpatched[l]]
      BY DEF Agree
    <3>4. ASSUME NEW l \in DOMAIN memory
          PROVE  (IF l \in Patched THEN Unpatched[l] ELSE memory'[l])
                   = (IF l = Locate(address) THEN word % BYTE_RANGE ELSE Unpatched[l])
      BY <3>1, <3>2 DEF Agree
    <3> QED BY <3>3, <3>4 DEF Agree
  <2>2. d.opcode = "SW" => Unpatched' = Alone!StoreWord(Unpatched, address, word)
    <3> SUFFICES ASSUME d.opcode = "SW"
                 PROVE  Unpatched' = Alone!StoreWord(Unpatched, address, word)
      OBVIOUS
    <3>1. memory' = StoreWord(memory, address, word)
      BY <1>2 DEF Store
    <3>2. WordLocations(address) \cap Patched = {}
      BY DEF Operand
    <3>3. Alone!StoreWord(Unpatched, address, word)
            = [l \in DOMAIN memory |-> IF l \in WordLocations(address)
                                       THEN ByteOfWord(word, l[2] - Locate(address)[2])
                                       ELSE Unpatched[l]]
      BY SameAddresses, SameSizes DEF Agree, Alone!StoreWord, Alone!ByteOfWord, ByteOfWord
    <3>4. ASSUME NEW l \in DOMAIN memory
          PROVE  (IF l \in Patched THEN Unpatched[l] ELSE memory'[l])
                   = (IF l \in WordLocations(address)
                      THEN ByteOfWord(word, l[2] - Locate(address)[2]) ELSE Unpatched[l])
      BY <3>1, <3>2 DEF Agree, StoreWord
    <3> QED BY <3>3, <3>4 DEF Agree
  <2> QED
    BY <1>2, <2>1, <2>2, SameAddresses, SameSizes
    DEF Agree, Store, Alone!Store, advancePc, Alone!advancePc
<1> QED BY <1>1, <1>2

\* A line read beside the breakpoints is read alone.
LEMMA AloneReadsString ==
  ASSUME TypeOK, Agree, ServiceReadString, Buffer \cap Patched = {}
  PROVE  Alone!ServiceReadString
<1> DEFINE size == registers["a1"]
           address == registers["a0"]
           bytes(line) == Append(Cut(line, size), 0)
           Reads(line) ==
             IF StringLocations(address, Len(bytes(line))) \subseteq DOMAIN memory
             THEN /\ memory' = StoreString(memory, address, bytes(line))
                  /\ advancePc
                  /\ UNCHANGED trap
             ELSE trap' = "undefined" /\ UNCHANGED <<memory, pc>>
           ReadsAlone(line) ==
             IF StringLocations(address, Len(bytes(line))) \subseteq DOMAIN Unpatched
             THEN /\ Unpatched' = Alone!StoreString(Unpatched, address, bytes(line))
                  /\ advancePc
                  /\ UNCHANGED trap
             ELSE trap' = "undefined" /\ UNCHANGED <<Unpatched, pc>>
<1>1. address \in Int /\ size \in Nat
  BY RegistersHoldWords
<1>2. Buffer = StringLocations(address, size)
  <2>1. Service(5) /\ ~Service(6) /\ ~Service(9)
    BY DEF ServiceReadString, Service
  <2> QED BY <2>1 DEF Buffer
<1>3. ASSUME size # 0, NEW line \in Lines, Reads(line)
      PROVE  ReadsAlone(line)
  <2>1. bytes(line) \in Seq(ByteValue) /\ Len(bytes(line)) \in 1 .. size
    BY <1>1, <1>3, CutFits
  <2>2. CASE ~(StringLocations(address, Len(bytes(line))) \subseteq DOMAIN memory)
    BY <1>3, <2>2 DEF Agree
  <2>3. CASE StringLocations(address, Len(bytes(line))) \subseteq DOMAIN memory
    <3> DEFINE string == bytes(line)
               hits(l) == {i \in 1 .. Len(string) : Locate(Wrap(address + i - 1)) = l}
    <3>1. memory' = StoreString(memory, address, string) /\ advancePc /\ UNCHANGED trap
      BY <1>3, <2>3
    <3>2. Len(string) \in Nat /\ Len(string) <= size
      BY <1>1, <2>1
    <3> HIDE DEF string
    <3>3. ASSUME NEW l \in Patched PROVE hits(l) = {}
      <4> SUFFICES ASSUME NEW i \in 1 .. Len(string), Locate(Wrap(address + i - 1)) = l
                   PROVE  FALSE
        OBVIOUS
      <4>1. i - 1 \in 0 .. size - 1 /\ address + (i - 1) = address + i - 1
        BY <1>1, <3>2
      <4>2. l \in StringLocations(address, size)
        BY <4>1 DEF StringLocations
      <4> QED BY <1>2, <4>2
    <3>4. Alone!StoreString(Unpatched, address, string)
            = [l \in DOMAIN memory |-> IF hits(l) = {} THEN Unpatched[l] ELSE string[Max(hits(l))]]
      BY SameStrings DEF Agree, StoreString
    <3>5. ASSUME NEW l \in DOMAIN memory
          PROVE  (IF l \in Patched THEN Unpatched[l] ELSE memory'[l])
                   = (IF hits(l) = {} THEN Unpatched[l] ELSE string[Max(hits(l))])
      BY <3>1, <3>3 DEF Agree, StoreString
    <3>6. Unpatched' = Alone!StoreString(Unpatched, address, string)
      BY <3>4, <3>5 DEF Agree
    <3> QED BY <2>3, <3>1, <3>6 DEF Agree, string
  <2> QED BY <2>2, <2>3
<1>4. CASE size = 0
  BY <1>4, SameAddresses
  DEF Agree, ServiceReadString, Alone!ServiceReadString, Service, Alone!Service,
      advancePc, Alone!advancePc
<1>5. CASE size # 0
  <2>1. PICK line \in Lines : Reads(line)
    BY <1>5 DEF ServiceReadString
  <2>2. ReadsAlone(line)
    BY <1>3, <1>5, <2>1
  <2> QED
    BY <1>5, <2>2, SameAddresses, SameStrings
    DEF ServiceReadString, Alone!ServiceReadString, Service, Alone!Service,
        advancePc, Alone!advancePc
<1> QED BY <1>4, <1>5

\* A string that runs over no breakpoint ends where it ends alone.
LEMMA AloneTerminated ==
  ASSUME Agree, Service(6) \/ Service(9), Buffer \cap Patched = {}
  PROVE  Alone!Terminated(registers["a0"]) <=> Terminated(registers["a0"])
<1> DEFINE base == Locate(registers["a0"])
<1>1. Buffer = {l \in DOMAIN memory : l[1] = base[1] /\ l[2] >= base[2]}
  <2>1. ~Service(5)
    BY DEF Service
  <2> QED BY <2>1 DEF Buffer
<1>2. \A l \in Buffer : l \in DOMAIN memory /\ Unpatched[l] = memory[l]
  BY <1>1 DEF Agree
<1>3. Terminated(registers["a0"]) <=> \E l \in Buffer : memory[l] = 0
  BY <1>1 DEF Terminated
<1>4. Alone!Terminated(registers["a0"]) <=> \E l \in Buffer : Unpatched[l] = 0
  BY <1>1, SameAddresses DEF Agree, Alone!Terminated
<1> QED BY <1>2, <1>3, <1>4

\* The services that read or write memory.
LEMMA AloneServesStrings ==
  ASSUME TypeOK, Agree, Service(5) \/ Service(6) \/ Service(9), Buffer \cap Patched = {},
         NEW d, SystemCall(d)
  PROVE  Alone!SystemCall(d)
<1>1. /\ \A r, word : SetRegister(r, word) => Alone!SetRegister(r, word)
      /\ advancePc => Alone!advancePc
      /\ \A n : Alone!Service(n) = Service(n)
  BY SameAddresses
  DEF SetRegister, Alone!SetRegister, advancePc, Alone!advancePc, Service, Alone!Service
<1>2. CASE Service(5)
  <2>1. ServiceReadString
    BY <1>2
    DEF SystemCall, Service, ServiceExit, ServiceRead, ServiceWrite, ServiceAllocate,
        ServiceDeallocate, ServiceOpenFile, ServiceCloseFile, ServiceSeek, ServiceUnknown
  <2> QED BY <2>1, AloneReadsString DEF SystemCall, Alone!SystemCall
<1>3. CASE Service(6)
  <2>1. ServiceWrite
    BY <1>3
    DEF SystemCall, Service, ServiceExit, ServiceRead, ServiceReadString, ServiceAllocate,
        ServiceDeallocate, ServiceOpenFile, ServiceCloseFile, ServiceSeek, ServiceUnknown
  <2>2. Unpatched' = Unpatched
    BY <2>1 DEF ServiceWrite, Agree, Trap, machine
  <2>3. Alone!ServiceWrite
    BY <1>1, <1>3, <2>1, <2>2, AloneTraps, AloneTerminated DEF ServiceWrite, Alone!ServiceWrite
  <2> QED BY <2>1, <2>3 DEF SystemCall, Alone!SystemCall
<1>4. CASE Service(9)
  <2>1. ServiceOpenFile
    BY <1>4
    DEF SystemCall, Service, ServiceExit, ServiceRead, ServiceWrite, ServiceReadString,
        ServiceAllocate, ServiceDeallocate, ServiceCloseFile, ServiceSeek, ServiceUnknown
  <2>2. Unpatched' = Unpatched
    BY <2>1 DEF ServiceOpenFile, Agree, Trap, machine
  <2>3. Alone!ServiceOpenFile
    BY <1>1, <1>4, <2>1, <2>2, AloneTraps, AloneTerminated
    DEF ServiceOpenFile, Alone!ServiceOpenFile
  <2> QED BY <2>1, <2>3 DEF SystemCall, Alone!SystemCall
<1> QED BY <1>2, <1>3, <1>4

\* Every step that meddles with no breakpoint is the same step alone.
LEMMA AloneSteps ==
  ASSUME TypeOK, Agree, Step, pc \notin DOMAIN breakpoints, ~Meddles
  PROVE  Alone!Step
<1>1. WordLocations(pc) \cap Patched = {}
  BY DEF Meddles
<1>2. Alone!Fetchable <=> Fetchable
  BY SameAddresses DEF Agree, Fetchable, Alone!Fetchable
<1>3. Fetchable => Alone!LoadWord(Unpatched, pc) = LoadWord(memory, pc)
  BY <1>1, SameWord DEF Fetchable
<1>4. CASE ~(Fetchable /\ LoadWord(memory, pc) \in DOMAIN Decode)
  <2>1. Unpatched' = Unpatched
    BY <1>4 DEF Agree, Step, Trap, machine
  <2> QED BY <1>2, <1>3, <1>4, <2>1, AloneTraps DEF Step, Alone!Step
<1>5. CASE Fetchable /\ LoadWord(memory, pc) \in DOMAIN Decode
  <2> DEFINE d == Decode[LoadWord(memory, pc)]
  <2>1. ExecuteInstruction(d)
    BY <1>5 DEF Step
  <2>2. /\ d.opcode \in {"LB", "LW", "SB", "SW"} => Operand(d) \cap Patched = {}
        /\ d.opcode = "SYS" => Buffer \cap Patched = {}
    BY <1>5 DEF Meddles
  <2> SUFFICES Alone!ExecuteInstruction(d)
    BY <1>2, <1>3, <1>5 DEF Step, Alone!Step
  <2> HIDE DEF d
  <2>3. CASE \/ Arithmetic(d) \/ Branch(d) \/ SkipTwo(d) \/ Divide(d) \/ Multiply(d)
             \/ Jump(d) \/ JumpRegister(d)
    <3>1. memory' = memory
      BY <2>3 DEF Arithmetic, Branch, SkipTwo, Divide, Multiply, Jump, JumpRegister, Trap, machine
    <3>2. Unpatched' = Unpatched
      BY <3>1 DEF Agree
    <3> QED BY <2>3, <3>2, AloneComputes DEF Alone!ExecuteInstruction
  <2>4. CASE Load(d)
    BY <2>2, <2>4, AloneLoads DEF Load, Alone!ExecuteInstruction
  <2>5. CASE Store(d)
    BY <2>2, <2>5, AloneStores DEF Store, Alone!ExecuteInstruction
  <2>6. CASE SystemCall(d)
    <3>1. CASE Service(5) \/ Service(6) \/ Service(9)
      BY <2>2, <2>6, <3>1, AloneServesStrings DEF SystemCall, Alone!ExecuteInstruction
    <3>2. CASE ~(Service(5) \/ Service(6) \/ Service(9))
      <4>1. memory' = memory
        BY <2>6, <3>2
        DEF SystemCall, ServiceExit, ServiceRead, ServiceWrite, ServiceReadString,
            ServiceAllocate, ServiceDeallocate, ServiceOpenFile, ServiceCloseFile, ServiceSeek,
            ServiceUnknown, Trap, machine
      <4>2. Unpatched' = Unpatched
        BY <4>1 DEF Agree
      <4> QED BY <2>6, <3>2, <4>2, AloneServes DEF Alone!ExecuteInstruction
    <3> QED BY <3>1, <3>2
  <2> QED BY <2>1, <2>3, <2>4, <2>5, <2>6 DEF ExecuteInstruction
<1> QED BY <1>4, <1>5

\* What a step may write: its operand, or the buffer of read_string.
LEMMA StepWrites ==
  ASSUME TypeOK, Step
  PROVE  /\ DOMAIN memory' = DOMAIN memory
         /\ \A l \in DOMAIN memory : memory'[l] # memory[l] =>
              /\ Fetchable
              /\ LoadWord(memory, pc) \in DOMAIN Decode
              /\ LET d == Decode[LoadWord(memory, pc)]
                 IN  \/ d.opcode \in {"SB", "SW"} /\ l \in Operand(d)
                     \/ d.opcode = "SYS" /\ l \in Buffer
<1>1. CASE ~(Fetchable /\ LoadWord(memory, pc) \in DOMAIN Decode)
  BY <1>1 DEF Step, Trap, machine
<1>2. CASE Fetchable /\ LoadWord(memory, pc) \in DOMAIN Decode
  <2> DEFINE d == Decode[LoadWord(memory, pc)]
  <2>1. ExecuteInstruction(d)
    BY <1>2 DEF Step
  <2> SUFFICES /\ DOMAIN memory' = DOMAIN memory
               /\ \A l \in DOMAIN memory : memory'[l] # memory[l] =>
                    \/ d.opcode \in {"SB", "SW"} /\ l \in Operand(d)
                    \/ d.opcode = "SYS" /\ l \in Buffer
    BY <1>2
  <2> HIDE DEF d
  <2>2. CASE Store(d)
    BY <2>2 DEF Store, StoreWord, Operand, Trap, machine
  <2>3. CASE d.opcode = "SYS" /\ ServiceReadString
    BY <2>3, ReadStringStays
  <2>4. CASE SystemCall(d) /\ ~ServiceReadString
    <3>1. memory' = memory
      BY <2>4
      DEF SystemCall, ServiceExit, ServiceRead, ServiceWrite, ServiceAllocate,
          ServiceDeallocate, ServiceOpenFile, ServiceCloseFile, ServiceSeek, ServiceUnknown,
          Trap, machine
    <3> QED BY <3>1
  <2>5. CASE \/ Arithmetic(d) \/ Branch(d) \/ SkipTwo(d) \/ Divide(d) \/ Multiply(d)
             \/ Jump(d) \/ JumpRegister(d) \/ Load(d)
    <3>1. memory' = memory
      BY <2>5
      DEF Arithmetic, Branch, SkipTwo, Divide, Multiply, Jump, JumpRegister, Load, Trap, machine
    <3> QED BY <3>1
  <2> QED BY <2>1, <2>2, <2>3, <2>4, <2>5 DEF ExecuteInstruction, SystemCall
<1> QED BY <1>1, <1>2

-----------------------------------------------------------------------------
(***************************************************************************)
(* Type correctness.                                                       *)
(***************************************************************************)

LEMMA BreakIsWord == BREAK \in WordValue /\ BREAK \in Nat
BY Widths DEF BREAK, WordValue

\* Storing a word keeps the machine's types, if nothing but a signal changes with it.
LEMMA PatchTyped ==
  ASSUME TypeOK, NEW a \in WordValue, NEW word \in WordValue,
         memory' = StoreWord(memory, a, word), trap' \in TrapType,
         UNCHANGED <<machineButMemory, frames>>
  PROVE  TypeOK'
<1>1. a \in Int /\ word \in Nat
  BY Widths DEF WordValue
<1>2. memory' \in [DOMAIN memory -> ByteValue]
  BY <1>1, StoredWord DEF TypeOK
<1>3. {pc', hi', lo', exitCode'} \subseteq WordValue
  BY DEF machineButMemory, TypeOK
<1> QED BY <1>2, <1>3, Typed DEF machineButMemory, TypeOK

LEMMA UnchangedTyped ==
  ASSUME TypeOK, trap' \in TrapType, UNCHANGED <<machineButMemory, frames, memory>>
  PROVE  TypeOK'
<1>1. {pc', hi', lo', exitCode'} \subseteq WordValue
  BY DEF machineButMemory, TypeOK
<1> QED BY <1>1, Typed DEF machineButMemory, TypeOK

LEMMA InitDebuggerTyped == DebuggerInit => DebuggerTypeOK
<1> SUFFICES ASSUME DebuggerInit PROVE DebuggerTypeOK
  OBVIOUS
<1>1. TypeOK /\ trap = "none"
  BY InitTyped DEF DebuggerInit, Init, LoadProgram
<1>2. DOMAIN breakpoints = {}
  BY DEF DebuggerInit
<1> QED BY <1>1, <1>2 DEF DebuggerInit, DebuggerTypeOK, Mode

\* Setting a breakpoint where memory is keeps the types.
LEMMA SetTyped ==
  ASSUME DebuggerTypeOK, NEW a \in Addresses, a \in DOMAIN breakpoints \/ InMemory(a),
         SetBreakpoint(a), UNCHANGED <<machineButMemory, frames, trap>>
  PROVE  /\ TypeOK'
         /\ DOMAIN breakpoints' \subseteq Addresses
         /\ \A b \in DOMAIN breakpoints' : breakpoints'[b] \in WordValue
         /\ meddled' \in BOOLEAN
<1>1. a \in WordValue
  BY AddressesAssumption
<1>2. CASE a \in DOMAIN breakpoints
  BY <1>2, UnchangedTyped DEF SetBreakpoint, DebuggerTypeOK, TypeOK
<1>3. CASE a \notin DOMAIN breakpoints
  <2>1. TypeOK'
    BY <1>1, <1>3, BreakIsWord, PatchTyped DEF SetBreakpoint, DebuggerTypeOK, TypeOK
  <2>2. LoadWord(memory, a) \in WordValue
    BY <1>3, LoadedWord DEF InMemory, DebuggerTypeOK, TypeOK
  <2>3. breakpoints' = WithEntry(a) /\ DOMAIN breakpoints' = DOMAIN breakpoints \cup {a}
    BY <1>3 DEF SetBreakpoint, WithEntry
  <2>4. meddled' \in BOOLEAN
    BY <1>3 DEF SetBreakpoint, DebuggerTypeOK
  <2> QED BY <2>1, <2>2, <2>3, <2>4 DEF WithEntry, DebuggerTypeOK
<1> QED BY <1>2, <1>3

LEMMA StepDebuggerTyped ==
  DebuggerTypeOK /\ [DebuggerNext]_debuggerVars => DebuggerTypeOK'
<1> SUFFICES ASSUME DebuggerTypeOK, [DebuggerNext]_debuggerVars PROVE DebuggerTypeOK'
  OBVIOUS
<1>1. CASE UNCHANGED <<machineVars, breakpoints>> /\ UNCHANGED until /\ UNCHANGED meddled
           /\ mode' \in Mode /\ (mode' = "prompt" => trap' = "none")
  <2>1. TypeOK'
    BY <1>1, UnchangedTyped DEF machineVars, machineButMemory, DebuggerTypeOK, TypeOK
  <2> QED BY <1>1, <2>1 DEF DebuggerTypeOK
<1>2. CASE UNCHANGED debuggerVars \/ Continue \/ Return \/ Quit \/ Abort \/ Over
  BY <1>1, <1>2
  DEF debuggerVars, machineVars, Continue, Return, Quit, Abort, Over, Mode, DebuggerTypeOK
<1>3. CASE Execute
  <2>1. TypeOK'
    BY <1>3, ResetTyped DEF Execute, DebuggerTypeOK
  <2> QED BY <1>3, <2>1 DEF Execute, Mode, DebuggerTypeOK
<1>4. CASE StepInstruction \/ Run
  <2>1. TypeOK'
    BY <1>4, StepTyped DEF StepInstruction, Run, Iterate, DebuggerTypeOK
  <2> QED BY <1>4, <2>1 DEF StepInstruction, Run, Mode, DebuggerTypeOK
<1>5. CASE Wreck /\ (until' = until \/ \E a \in Addresses : until' = until \cup {a})
  <2>1. TypeOK'
    BY <1>5, UnchangedTyped DEF Wreck, DebuggerTypeOK, TypeOK, TrapType
  <2> QED BY <1>5, <2>1 DEF Wreck, Mode, DebuggerTypeOK
<1>6. ASSUME NEW a \in Addresses, Break(a) \/ RunUntil(a)
      PROVE  DebuggerTypeOK'
  <2>1. CASE Wreck
    BY <1>5, <1>6, <2>1 DEF Break, RunUntil
  <2>2. CASE ~Wreck
    <3>1. /\ a \in DOMAIN breakpoints \/ InMemory(a)
          /\ SetBreakpoint(a) /\ UNCHANGED <<machineButMemory, frames, trap>>
      BY <1>6, <2>2 DEF Break, RunUntil
    <3>2. /\ until' \subseteq Addresses /\ mode' \in Mode
          /\ mode' = "prompt" => trap' = "none"
      BY <1>6, <2>2 DEF Break, RunUntil, Mode, DebuggerTypeOK
    <3> QED BY <3>1, <3>2, SetTyped DEF DebuggerTypeOK
  <2> QED BY <2>1, <2>2
<1>7. CASE PeakRegister \/ \E a \in Addresses : PeakMemory(a)
  BY <1>5, <1>7 DEF PeakRegister, PeakMemory
<1>8. CASE Catch
  <2>1. until' \subseteq Addresses /\ mode' = "prompt" /\ trap' = "none" /\ meddled' = meddled
    BY <1>8 DEF Catch, DebuggerTypeOK
  <2>2. CASE pc \in until /\ pc \in DOMAIN breakpoints
    <3>1. pc \in WordValue /\ breakpoints[pc] \in WordValue
      BY <2>2 DEF DebuggerTypeOK, TypeOK
    <3>2. /\ memory' = StoreWord(memory, pc, breakpoints[pc])
          /\ breakpoints' = [b \in DOMAIN breakpoints \ {pc} |-> breakpoints[b]]
          /\ UNCHANGED <<machineButMemory, frames>>
      BY <1>8, <2>2 DEF Catch, RemoveBreakpoint
    <3>3. TypeOK'
      BY <2>1, <3>1, <3>2, PatchTyped DEF DebuggerTypeOK, TrapType
    <3> QED BY <2>1, <3>2, <3>3 DEF DebuggerTypeOK, Mode
  <2>3. CASE ~(pc \in until /\ pc \in DOMAIN breakpoints)
    <3>1. UNCHANGED <<machineButMemory, frames, memory>> /\ breakpoints' = breakpoints
      BY <1>8, <2>3 DEF Catch, RemoveBreakpoint
    <3>2. TypeOK'
      BY <2>1, <3>1, UnchangedTyped DEF DebuggerTypeOK, TrapType
    <3> QED BY <2>1, <3>1, <3>2 DEF DebuggerTypeOK, Mode
  <2> QED BY <2>2, <2>3
<1> QED BY <1>2, <1>3, <1>4, <1>6, <1>7, <1>8 DEF DebuggerNext, Command, Executing

\* A signal is pending only while a command executes, and what the debugger
\* saves and stores are words, whatever is typed and whatever the program does.
THEOREM DebuggerTyped == DebuggerSpec => []DebuggerTypeOK
<1>1. DebuggerInit => DebuggerTypeOK
  BY InitDebuggerTyped
<1>2. DebuggerTypeOK /\ [DebuggerNext]_debuggerVars => DebuggerTypeOK'
  BY StepDebuggerTyped
<1> QED BY <1>1, <1>2, PTL DEF DebuggerSpec

-----------------------------------------------------------------------------
(***************************************************************************)
(* Breakpoints in memory.                                                  *)
(***************************************************************************)

\* No two breakpoints share a byte.
Apart ==
  \A a, b \in DOMAIN breakpoints : a # b => WordLocations(a) \cap WordLocations(b) = {}

\* Every breakpoint is in memory.
Covered ==
  \A a \in DOMAIN breakpoints : \A i \in 0 .. 3 :
    Beyond(a, i) \in DOMAIN memory /\ memory[Beyond(a, i)] = ByteOfWord(BREAK, i)

Patchwork == ~meddled => Apart /\ Covered

\* What Unpatched is where breakpoints are apart, without a choice.
Restores ==
  /\ Unpatched = [l \in DOMAIN memory |-> Unpatched[l]]
  /\ \A l \in DOMAIN memory \ Patched : Unpatched[l] = memory[l]
  /\ \A a \in DOMAIN breakpoints : \A i \in 0 .. 3 :
       Unpatched[Beyond(a, i)] = ByteOfWord(breakpoints[a], i)

LEMMA UnpatchedRestores ==
  DebuggerTypeOK /\ Apart /\ Covered => Restores
<1> SUFFICES ASSUME DebuggerTypeOK, Apart, Covered PROVE Restores
  OBVIOUS
<1>1. textSegmentLength \in Nat /\ \A a \in DOMAIN breakpoints : a \in Int
  BY AddressesAssumption, Widths DEF DebuggerTypeOK, TypeOK, WordValue
<1>2. ASSUME NEW a \in DOMAIN breakpoints, NEW i \in 0 .. 3
      PROVE  Unpatched[Beyond(a, i)] = ByteOfWord(breakpoints[a], i)
  <2> DEFINE l == Beyond(a, i)
             owner == CHOOSE b \in DOMAIN breakpoints : l \in WordLocations(b)
  <2>1. l \in DOMAIN memory /\ l \in WordLocations(a)
    BY <1>2 DEF Covered, WordLocations, INSTRUCTION_SIZE
  <2>2. owner \in DOMAIN breakpoints /\ l \in WordLocations(owner)
    BY <2>1
  <2>3. owner = a
    BY <2>1, <2>2 DEF Apart
  <2>4. l \in Patched
    BY <2>1 DEF Patched
  <2>5. l[2] - Locate(a)[2] = i
    BY <1>1, LocateIsPair DEF Beyond
  <2>6. Unpatched[l] = ByteOfWord(breakpoints[owner], l[2] - Locate(owner)[2])
    BY <2>1, <2>4 DEF Unpatched
  <2> QED BY <2>3, <2>5, <2>6
<1>3. /\ Unpatched = [l \in DOMAIN memory |-> Unpatched[l]]
      /\ \A l \in DOMAIN memory \ Patched : Unpatched[l] = memory[l]
  BY DEF Unpatched
<1> QED BY <1>2, <1>3 DEF Restores

LEMMA SameLocations ==
  ASSUME textSegmentLength' = textSegmentLength
  PROVE  /\ \A a, i : Beyond(a, i)' = Beyond(a, i)
         /\ \A a : WordLocations(a)' = WordLocations(a)
BY DEF WordLocations, Beyond, Locate

\* The bytes of a word that was stored, and of one that was loaded.
LEMMA StoredBytes ==
  ASSUME textSegmentLength \in Nat, NEW a \in Int, NEW word, NEW m
  PROVE  LET stored == StoreWord(m, a, word)
         IN  /\ DOMAIN stored = DOMAIN m
             /\ \A i \in 0 .. 3 :
                  Beyond(a, i) \in DOMAIN m => stored[Beyond(a, i)] = ByteOfWord(word, i)
             /\ \A l \in DOMAIN m \ WordLocations(a) : stored[l] = m[l]
<1>1. \A i \in 0 .. 3 : /\ Beyond(a, i) \in WordLocations(a)
                        /\ Beyond(a, i)[2] - Locate(a)[2] = i
  BY LocateIsPair DEF Beyond, WordLocations, INSTRUCTION_SIZE
<1> QED BY <1>1 DEF StoreWord

LEMMA LoadedBytes ==
  ASSUME NEW a, NEW m, \A i \in 0 .. 3 : m[Beyond(a, i)] \in ByteValue
  PROVE  \A i \in 0 .. 3 : ByteOfWord(LoadWord(m, a), i) = m[Beyond(a, i)]
<1>1. \A i \in 0 .. 3 : i = 0 \/ i = 1 \/ i = 2 \/ i = 3
  OBVIOUS
<1>2. /\ ByteOfWord(LoadWord(m, a), 0) = m[Beyond(a, 0)]
      /\ ByteOfWord(LoadWord(m, a), 1) = m[Beyond(a, 1)]
      /\ ByteOfWord(LoadWord(m, a), 2) = m[Beyond(a, 2)]
      /\ ByteOfWord(LoadWord(m, a), 3) = m[Beyond(a, 3)]
  BY WordOfBytes, LoadIsWordOf
<1> QED BY <1>1, <1>2

\* The word under a breakpoint is no instruction.
LEMMA StepTraps ==
  ASSUME Covered, pc \in DOMAIN breakpoints, Step
  PROVE  trap' = "ILLEGAL_OPCODE" /\ UNCHANGED machine
<1>1. Fetchable
  BY DEF Covered, Fetchable, WordLocations, INSTRUCTION_SIZE
<1>2. \A i \in 0 .. 3 : memory[Beyond(pc, i)] = ByteOfWord(BREAK, i)
  BY DEF Covered
<1>3. LoadWord(memory, pc) = BREAK
  BY <1>2, LoadIsWordOf, BytesMakeWord, BreakIsWord
<1> QED BY <1>1, <1>3, BreakAssumption DEF Step, Trap

\* A step that meddles with no breakpoint leaves all of them.
LEMMA StepCovered ==
  ASSUME DebuggerTypeOK, Apart, Covered, Step, ~Meddles, UNCHANGED breakpoints
  PROVE  /\ Apart' /\ Covered'
         /\ DOMAIN memory' = DOMAIN memory
<1>1. TypeOK /\ textSegmentLength' = textSegmentLength
  BY DEF DebuggerTypeOK, Step
<1>2. Apart'
  BY <1>1, SameLocations DEF Apart
<1>3. DOMAIN memory' = DOMAIN memory
  BY <1>1, StepWrites
<1>4. ASSUME NEW l \in DOMAIN memory, l \in Patched PROVE memory'[l] = memory[l]
  <2>1. CASE pc \in DOMAIN breakpoints
    BY <2>1, StepTraps DEF machine
  <2>2. CASE pc \notin DOMAIN breakpoints
    BY <1>1, <1>4, <2>2, StepWrites DEF Meddles
  <2> QED BY <2>1, <2>2
<1>5. \A a \in DOMAIN breakpoints : \A i \in 0 .. 3 : Beyond(a, i) \in Patched
  BY DEF Patched, WordLocations, INSTRUCTION_SIZE
<1>6. ASSUME NEW a \in DOMAIN breakpoints, NEW i \in 0 .. 3
      PROVE  Beyond(a, i) \in DOMAIN memory' /\ memory'[Beyond(a, i)] = ByteOfWord(BREAK, i)
  BY <1>3, <1>4, <1>5, <1>6 DEF Covered
<1> QED BY <1>1, <1>2, <1>3, <1>6, SameLocations DEF Covered

\* Such a step changes memory as it changes the program's.
LEMMA StepAgrees ==
  ASSUME DebuggerTypeOK, DebuggerTypeOK', Apart, Covered, Step, ~Meddles, UNCHANGED breakpoints
  PROVE  Agree
<1>1. textSegmentLength' = textSegmentLength
  BY DEF Step
<1>2. Apart' /\ Covered' /\ DOMAIN memory' = DOMAIN memory
  BY StepCovered
<1>3. DebuggerTypeOK' /\ Apart' /\ Covered' => Restores'
  BY UnpatchedRestores, PTL
<1>4. Restores /\ Restores'
  BY <1>2, <1>3, UnpatchedRestores
<1>5. Patched' = Patched
  BY <1>1, SameLocations DEF Patched
<1>6. ASSUME NEW l \in Patched PROVE Unpatched'[l] = Unpatched[l]
  <2>1. PICK a \in DOMAIN breakpoints, i \in 0 .. 3 : l = Beyond(a, i)
    BY DEF Patched, WordLocations, INSTRUCTION_SIZE
  <2> QED BY <1>1, <1>4, <2>1, SameLocations DEF Restores
<1>7. Unpatched' = [l \in DOMAIN memory |-> IF l \in Patched THEN Unpatched[l] ELSE memory'[l]]
  <2>1. Unpatched' = [l \in DOMAIN memory |-> Unpatched'[l]]
    BY <1>2, <1>4 DEF Restores
  <2>2. \A l \in DOMAIN memory \ Patched : Unpatched'[l] = memory'[l]
    BY <1>2, <1>4, <1>5 DEF Restores
  <2> QED BY <1>6, <2>1, <2>2
<1>8. memory' = memory => Unpatched' = Unpatched
  <2>1. \A l \in DOMAIN memory \ Patched : Unpatched[l] = memory[l]
    BY <1>4 DEF Restores
  <2>2. Unpatched = [l \in DOMAIN memory |-> Unpatched[l]]
    BY <1>4 DEF Restores
  <2> QED BY <1>7, <2>1, <2>2
<1> QED BY <1>4, <1>7, <1>8 DEF Agree, Restores

\* setBreakpoint, on bytes that no breakpoint holds.
LEMMA SetPatches ==
  ASSUME DebuggerTypeOK, DebuggerTypeOK', Apart, Covered, NEW a \in Addresses,
         a \notin DOMAIN breakpoints, InMemory(a), SetBreakpoint(a), ~meddled',
         textSegmentLength' = textSegmentLength
  PROVE  Apart' /\ Covered' /\ Unpatched' = Unpatched
<1>1. a \in Int /\ textSegmentLength \in Nat
  BY AddressesAssumption, Widths DEF WordValue, DebuggerTypeOK, TypeOK
<1>2. /\ memory' = StoreWord(memory, a, BREAK)
      /\ DOMAIN breakpoints' = DOMAIN breakpoints \cup {a}
      /\ breakpoints'[a] = LoadWord(memory, a)
      /\ \A b \in DOMAIN breakpoints : breakpoints'[b] = breakpoints[b]
      /\ WordLocations(a) \cap Patched = {}
  BY DEF SetBreakpoint, WithEntry
<1>3. /\ DOMAIN memory' = DOMAIN memory
      /\ \A i \in 0 .. 3 :
           Beyond(a, i) \in DOMAIN memory => memory'[Beyond(a, i)] = ByteOfWord(BREAK, i)
      /\ \A l \in DOMAIN memory \ WordLocations(a) : memory'[l] = memory[l]
  BY <1>1, <1>2, StoredBytes
<1>4. \A b : \A i \in 0 .. 3 : Beyond(b, i) \in WordLocations(b)
  BY DEF WordLocations, INSTRUCTION_SIZE
<1>5. \A i \in 0 .. 3 : Beyond(a, i) \in DOMAIN memory
  BY <1>4 DEF InMemory
<1>6. \A b \in DOMAIN breakpoints : WordLocations(b) \cap WordLocations(a) = {}
  BY <1>2 DEF Patched
<1>7. Apart'
  BY <1>2, <1>6, SameLocations DEF Apart
<1>8. Covered'
  <2>1. ASSUME NEW b \in DOMAIN breakpoints, NEW i \in 0 .. 3
        PROVE  Beyond(b, i) \in DOMAIN memory /\ memory'[Beyond(b, i)] = ByteOfWord(BREAK, i)
    BY <1>3, <1>4, <1>6, <2>1 DEF Covered
  <2> QED BY <1>2, <1>3, <1>5, <2>1, SameLocations DEF Covered
<1>9. DebuggerTypeOK' /\ Apart' /\ Covered' => Restores'
  BY UnpatchedRestores, PTL
<1>10. Restores /\ Restores'
  BY <1>7, <1>8, <1>9, UnpatchedRestores
<1>11. ASSUME NEW l \in DOMAIN memory PROVE Unpatched'[l] = Unpatched[l]
  <2>1. CASE l \in WordLocations(a)
    <3>1. PICK i \in 0 .. 3 : l = Beyond(a, i)
      BY <2>1 DEF WordLocations, INSTRUCTION_SIZE
    <3>2. Unpatched'[l] = ByteOfWord(LoadWord(memory, a), i)
      BY <1>2, <1>10, <3>1, SameLocations DEF Restores
    <3>3. ByteOfWord(LoadWord(memory, a), i) = memory[l]
      <4>1. \A j \in 0 .. 3 : memory[Beyond(a, j)] \in ByteValue
        BY <1>5 DEF DebuggerTypeOK, TypeOK
      <4> QED BY <3>1, <4>1, LoadedBytes
    <3>4. Unpatched[l] = memory[l]
      BY <1>2, <1>10, <2>1 DEF Restores
    <3> QED BY <3>2, <3>3, <3>4
  <2>2. CASE l \in Patched
    <3>1. PICK b \in DOMAIN breakpoints, i \in 0 .. 3 : l = Beyond(b, i)
      BY <2>2 DEF Patched, WordLocations, INSTRUCTION_SIZE
    <3> QED BY <1>2, <1>10, <3>1, SameLocations DEF Restores
  <2>3. CASE l \notin WordLocations(a) /\ l \notin Patched
    <3>1. l \notin Patched'
      BY <1>2, <2>3, SameLocations DEF Patched
    <3> QED BY <1>3, <1>10, <2>3, <3>1 DEF Restores
  <2> QED BY <2>1, <2>2, <2>3
<1> QED BY <1>3, <1>7, <1>8, <1>10, <1>11 DEF Restores

\* removeBreakpoint.
LEMMA RemoveRestores ==
  ASSUME DebuggerTypeOK, DebuggerTypeOK', Apart, Covered, NEW a \in DOMAIN breakpoints,
         RemoveBreakpoint(a), textSegmentLength' = textSegmentLength
  PROVE  Apart' /\ Covered' /\ Unpatched' = Unpatched
<1>1. a \in Int /\ textSegmentLength \in Nat
  BY AddressesAssumption, Widths DEF WordValue, DebuggerTypeOK, TypeOK
<1>2. /\ memory' = StoreWord(memory, a, breakpoints[a])
      /\ DOMAIN breakpoints' = DOMAIN breakpoints \ {a}
      /\ \A b \in DOMAIN breakpoints \ {a} : breakpoints'[b] = breakpoints[b]
  BY DEF RemoveBreakpoint
<1>3. /\ DOMAIN memory' = DOMAIN memory
      /\ \A i \in 0 .. 3 :
           Beyond(a, i) \in DOMAIN memory => memory'[Beyond(a, i)] = ByteOfWord(breakpoints[a], i)
      /\ \A l \in DOMAIN memory \ WordLocations(a) : memory'[l] = memory[l]
  BY <1>1, <1>2, StoredBytes
<1>4. \A b : \A i \in 0 .. 3 : Beyond(b, i) \in WordLocations(b)
  BY DEF WordLocations, INSTRUCTION_SIZE
<1>5. \A b \in DOMAIN breakpoints \ {a} : WordLocations(b) \cap WordLocations(a) = {}
  BY DEF Apart
<1>6. Apart'
  BY <1>2, SameLocations DEF Apart
<1>7. Covered'
  <2>1. ASSUME NEW b \in DOMAIN breakpoints \ {a}, NEW i \in 0 .. 3
        PROVE  Beyond(b, i) \in DOMAIN memory /\ memory'[Beyond(b, i)] = ByteOfWord(BREAK, i)
    BY <1>3, <1>4, <1>5, <2>1 DEF Covered
  <2> QED BY <1>2, <1>3, <2>1, SameLocations DEF Covered
<1>8. DebuggerTypeOK' /\ Apart' /\ Covered' => Restores'
  BY UnpatchedRestores, PTL
<1>9. Restores /\ Restores'
  BY <1>6, <1>7, <1>8, UnpatchedRestores
<1>10. ASSUME NEW l \in DOMAIN memory PROVE Unpatched'[l] = Unpatched[l]
  <2>1. CASE l \in WordLocations(a)
    <3>1. PICK i \in 0 .. 3 : l = Beyond(a, i)
      BY <2>1 DEF WordLocations, INSTRUCTION_SIZE
    <3>2. l \notin Patched'
      BY <1>2, <1>5, <2>1, SameLocations DEF Patched
    <3>3. Unpatched'[l] = memory'[l]
      BY <1>3, <1>9, <3>2 DEF Restores
    <3> QED BY <1>3, <1>9, <3>1, <3>3 DEF Restores
  <2>2. CASE l \in Patched /\ l \notin WordLocations(a)
    <3>1. PICK b \in DOMAIN breakpoints, i \in 0 .. 3 : l = Beyond(b, i)
      BY <2>2 DEF Patched, WordLocations, INSTRUCTION_SIZE
    <3>2. b # a
      BY <1>4, <2>2, <3>1
    <3> QED BY <1>2, <1>9, <3>1, <3>2, SameLocations DEF Restores
  <2>3. CASE l \notin Patched
    <3>1. l \notin Patched' /\ l \notin WordLocations(a)
      BY <1>2, <2>3, SameLocations DEF Patched
    <3> QED BY <1>3, <1>9, <2>3, <3>1 DEF Restores
  <2> QED BY <2>1, <2>2, <2>3
<1> QED BY <1>3, <1>6, <1>7, <1>9, <1>10 DEF Restores

LEMMA InitPatchwork == DebuggerInit => Patchwork
<1> SUFFICES ASSUME DebuggerInit PROVE Apart /\ Covered
  BY DEF Patchwork
<1>1. DOMAIN breakpoints = {}
  BY DEF DebuggerInit
<1> QED BY <1>1 DEF Apart, Covered

\* What a step of the debugger is to the machine.
LEMMA StepKinds ==
  ASSUME [DebuggerNext]_debuggerVars
  PROVE  \/ (Run \/ StepInstruction) /\ Step /\ UNCHANGED breakpoints
            /\ meddled' = (meddled \/ Meddles)
         \/ Reset /\ UNCHANGED <<breakpoints, meddled>>
         \/ \E a \in Addresses \ DOMAIN breakpoints :
              InMemory(a) /\ SetBreakpoint(a) /\ UNCHANGED machineButMemory
         \/ \E a \in DOMAIN breakpoints :
              RemoveBreakpoint(a) /\ UNCHANGED <<machineButMemory, meddled>>
         \/ UNCHANGED <<memory, breakpoints, machineButMemory, meddled>>
<1>1. CASE UNCHANGED debuggerVars \/ Continue \/ Return \/ Quit \/ Abort \/ Over
  BY <1>1 DEF debuggerVars, machineVars, machineButMemory, Continue, Return, Quit, Abort, Over
<1>2. CASE Execute
  BY <1>2 DEF Execute
<1>3. CASE StepInstruction \/ Run
  BY <1>3 DEF StepInstruction, Run, Iterate
<1>4. CASE PeakRegister \/ \E a \in Addresses : PeakMemory(a)
  BY <1>4 DEF PeakRegister, PeakMemory, Wreck
<1>5. ASSUME NEW a \in Addresses, Break(a) \/ RunUntil(a)
      PROVE  \/ /\ a \notin DOMAIN breakpoints
                /\ InMemory(a) /\ SetBreakpoint(a) /\ UNCHANGED machineButMemory
             \/ UNCHANGED <<memory, breakpoints, machineButMemory, meddled>>
  BY <1>5 DEF Break, RunUntil, SetBreakpoint, Wreck
<1>6. CASE Catch
  BY <1>6 DEF Catch, RemoveBreakpoint
<1> QED BY <1>1, <1>2, <1>3, <1>4, <1>5, <1>6 DEF DebuggerNext, Command, Executing

\* What a step does to breakpoints the program has not met.
LEMMA StepUndisturbed ==
  ASSUME DebuggerTypeOK, DebuggerTypeOK', Patchwork, [DebuggerNext]_debuggerVars, ~meddled'
  PROVE  /\ Apart' /\ Covered'
         /\ \/ Alone!Step
            \/ Alone!Reset
            \/ UNCHANGED <<Unpatched, machineButMemory>>
<1>1. CASE (Run \/ StepInstruction) /\ Step /\ UNCHANGED breakpoints
           /\ meddled' = (meddled \/ Meddles)
  <2>1. Apart /\ Covered /\ ~Meddles
    BY <1>1 DEF Patchwork, DebuggerTypeOK
  <2>2. Agree
    BY <1>1, <2>1, StepAgrees
  <2>3. CASE pc \notin DOMAIN breakpoints
    BY <1>1, <2>1, <2>2, <2>3, AloneSteps, StepCovered DEF DebuggerTypeOK
  <2>4. CASE pc \in DOMAIN breakpoints
    <3>1. UNCHANGED machine /\ textSegmentLength' = textSegmentLength
      BY <1>1, <2>1, <2>4, StepTraps DEF Step
    <3>2. UNCHANGED <<Unpatched, machineButMemory>>
      BY <2>2, <3>1 DEF Agree, machine, machineButMemory
    <3> QED BY <1>1, <2>1, <3>2, StepCovered
  <2> QED BY <2>3, <2>4
<1>2. ASSUME UNCHANGED <<memory, breakpoints, textSegmentLength, meddled>>
      PROVE  Apart' /\ Covered' /\ Unpatched' = Unpatched
  <2>1. Apart /\ Covered
    BY <1>2 DEF Patchwork
  <2>2. Apart' /\ Covered'
    BY <1>2, <2>1, SameLocations DEF Apart, Covered
  <2>3. DebuggerTypeOK' /\ Apart' /\ Covered' => Restores'
    BY UnpatchedRestores, PTL
  <2>4. Restores /\ Restores'
    BY <2>1, <2>2, <2>3, UnpatchedRestores
  <2>5. Patched' = Patched
    BY <1>2, SameLocations DEF Patched
  <2>6. ASSUME NEW l \in Patched PROVE Unpatched'[l] = Unpatched[l]
    <3>1. PICK a \in DOMAIN breakpoints, i \in 0 .. 3 : l = Beyond(a, i)
      BY DEF Patched, WordLocations, INSTRUCTION_SIZE
    <3> QED BY <1>2, <2>4, <3>1, SameLocations DEF Restores
  <2> QED BY <1>2, <2>2, <2>4, <2>5, <2>6 DEF Restores
<1>3. CASE Reset /\ UNCHANGED <<breakpoints, meddled>>
  <2>1. Apart' /\ Covered' /\ Unpatched' = Unpatched
    BY <1>2, <1>3 DEF Reset
  <2>2. Alone!Reset
    BY <1>3, <2>1 DEF Reset, Alone!Reset, InitialRegisters, Alone!InitialRegisters
  <2> QED BY <2>1, <2>2
<1>4. CASE \E a \in Addresses \ DOMAIN breakpoints :
             InMemory(a) /\ SetBreakpoint(a) /\ UNCHANGED machineButMemory
  <2>1. PICK a \in Addresses \ DOMAIN breakpoints :
          InMemory(a) /\ SetBreakpoint(a) /\ UNCHANGED machineButMemory
    BY <1>4
  <2>2. Apart /\ Covered
    BY <2>1 DEF SetBreakpoint, Patchwork, DebuggerTypeOK
  <2> QED BY <2>1, <2>2, SetPatches DEF machineButMemory
<1>5. CASE \E a \in DOMAIN breakpoints :
             RemoveBreakpoint(a) /\ UNCHANGED <<machineButMemory, meddled>>
  <2>1. PICK a \in DOMAIN breakpoints :
          RemoveBreakpoint(a) /\ UNCHANGED <<machineButMemory, meddled>>
    BY <1>5
  <2>2. Apart /\ Covered
    BY <2>1 DEF Patchwork
  <2> QED BY <2>1, <2>2, RemoveRestores DEF machineButMemory
<1>6. CASE UNCHANGED <<memory, breakpoints, machineButMemory, meddled>>
  <2>1. Apart' /\ Covered' /\ Unpatched' = Unpatched
    BY <1>2, <1>6 DEF machineButMemory
  <2> QED BY <1>6, <2>1
<1> QED BY <1>1, <1>3, <1>4, <1>5, <1>6, StepKinds

\* As long as the program has not met its breakpoints, they are in memory, and
\* none lies over another.
THEOREM PatchworkHolds == DebuggerSpec => []Patchwork
<1>1. DebuggerInit => Patchwork
  BY InitPatchwork
<1>2. DebuggerTypeOK /\ DebuggerTypeOK' /\ Patchwork /\ [DebuggerNext]_debuggerVars => Patchwork'
  BY StepUndisturbed DEF Patchwork
<1> QED BY <1>1, <1>2, DebuggerTyped, PTL DEF DebuggerSpec

\* A program that leaves its breakpoints alone does under the debugger what it
\* does alone, for every program, order of commands and set of breakpoints, in
\* text, data or stack: a step of the debugger is a step of the machine on the
\* memory without breakpoints, a restart, or leaves the program as it is.
THEOREM Undisturbed == DebuggerSpec => ProgramUndisturbed
<1>1. DebuggerTypeOK /\ DebuggerTypeOK' /\ Patchwork /\ [DebuggerNext]_debuggerVars =>
        [ ~meddled' => \/ Alone!Step
                       \/ Alone!Reset
                       \/ UNCHANGED <<Unpatched, machineButMemory>> ]_debuggerVars
  BY StepUndisturbed
<1> QED BY <1>1, DebuggerTyped, PatchworkHolds, PTL DEF DebuggerSpec, ProgramUndisturbed

\* No instruction under a breakpoint is executed, by c, e, u or i, however
\* often the breakpoint has been hit, removed and set again, by a program that
\* leaves its breakpoints alone.
THEOREM Stops == DebuggerSpec => StopsAtBreakpoints
<1>1. Patchwork /\ [DebuggerNext]_debuggerVars =>
        [ (Run \/ StepInstruction) /\ ~meddled /\ pc \in DOMAIN breakpoints =>
            trap' = "ILLEGAL_OPCODE" /\ UNCHANGED machine ]_debuggerVars
  BY StepTraps DEF Patchwork, Run, StepInstruction, Iterate
<1> QED BY <1>1, PatchworkHolds, PTL DEF DebuggerSpec, StopsAtBreakpoints

=============================================================================
