-------------------------- MODULE Arithmetic_proofs --------------------------
(***************************************************************************)
(* The two CPUs compute alike, for bytes of any size.                      *)
(*                                                                         *)
(* Three steps.  The operations of the ALU on the two bytes of a register  *)
(* make an operation on words: a sum, when the carry between them is the   *)
(* true one, and shifts to the left and to the right.  BytesInv says what  *)
(* each line of the microprogram leaves, from the instruction alone, and   *)
(* is inductive.  At the end of the microprogram the first makes the words *)
(* and flags of Executed out of the second.                                *)
(***************************************************************************)
EXTENDS Arithmetic, TLAPS

-----------------------------------------------------------------------------
(* A sum and its flags.                                                    *)

SignedIn(n, m) == IF High(n, m) THEN n - m ELSE n

\* A number below 2m wraps around at most once.
LEMMA ModuloOfSum ==
    ASSUME NEW m \in Nat \ {0}, NEW n \in 0..2 * m - 1
    PROVE  n % m = IF n >= m THEN n - m ELSE n
<1>1. CASE n < m
  BY <1>1
<1>2. CASE n >= m
  <2>1. n - m \in 0..m - 1
    BY <1>2
  <2>2. n = 1 * m + (n - m)
    OBVIOUS
  <2>3. QED
    BY <1>2, <2>1, <2>2, Z3T(30)
<1>3. QED
  BY <1>1, <1>2

\* The same of the sum of two numbers below m and a carry.
LEMMA WrapsOnce ==
    ASSUME NEW m \in Nat \ {0}, NEW a \in 0..m - 1, NEW b \in 0..m - 1, NEW cin \in {0, 1}
    PROVE  (a + b + cin) % m = IF a + b + cin >= m THEN a + b + cin - m ELSE a + b + cin
<1> DEFINE n == a + b + cin
<1>1. n \in 0..2 * m - 1
  OBVIOUS
<1> HIDE DEF n
<1>2. n % m = IF n >= m THEN n - m ELSE n
  BY <1>1, ModuloOfSum
<1>3. QED
  BY <1>2 DEF n

\* CarryOut compares the result with the operands.  It says that the sum
\* wrapped around, in every case but one: both operands all ones and a carry
\* in (calculateALUOutput for A plus B plus Cin; IsaCpu has no carry in).
THEOREM CarryOutIsExact ==
    ASSUME NEW m \in Nat \ {0}, NEW a \in 0..m - 1, NEW b \in 0..m - 1, NEW cin \in {0, 1}
    PROVE  Sum(a, b, cin, m).c <=>
               /\ a + b + cin >= m
               /\ ~(a = m - 1 /\ b = m - 1 /\ cin = 1)
<1>1. (a + b + cin) % m = IF a + b + cin >= m THEN a + b + cin - m ELSE a + b + cin
  BY WrapsOnce
<1>2. Sum(a, b, cin, m).c <=> (a + b + cin) % m < a \/ (a + b + cin) % m < b
  BY DEF Sum, CarryOut
<1>3. QED
  BY <1>1, <1>2

\* Overflow says exactly that the signed sum does not fit, carry included.
THEOREM OverflowIsExact ==
    ASSUME NEW m \in Nat \ {0}, m % 2 = 0,
           NEW a \in 0..m - 1, NEW b \in 0..m - 1, NEW cin \in {0, 1}
    PROVE  LET exact == SignedIn(a, m) + SignedIn(b, m) + cin
           IN  Sum(a, b, cin, m).v <=> (2 * exact < -m \/ 2 * exact >= m)
<1>1. (a + b + cin) % m = IF a + b + cin >= m THEN a + b + cin - m ELSE a + b + cin
  BY WrapsOnce
<1>2. PICK h \in Nat : m = 2 * h
  OBVIOUS
<1>3. Sum(a, b, cin, m).v <=> Overflow((a + b + cin) % m, a, b, m)
  BY DEF Sum
<1>4. QED
  BY <1>1, <1>2, <1>3 DEF Overflow, High, SignedIn

-----------------------------------------------------------------------------
(* Words and their bytes.                                                  *)

LEMMA EvenNumber == ASSUME NEW m \in Nat, m % 2 = 0 PROVE \E k \in Nat : m = 2 * k
  OBVIOUS

LEMMA FourFold == ASSUME NEW m \in Nat, m % 4 = 0 PROVE \E k \in Nat : m = 4 * k
<1> DEFINE k == m \div 4
<1>1. k \in Nat
  OBVIOUS
<1>2. m = 4 * k
  OBVIOUS
<1> HIDE DEF k
<1>3. QED
  BY <1>1, <1>2

LEMMA Halves ==
  ASSUME NEW n \in Nat
  PROVE  n \div 2 \in Nat /\ n % 2 \in {0, 1} /\ n = 2 * (n \div 2) + (n % 2)
<1>1. n \div 2 \in Nat
  OBVIOUS
<1>2. n % 2 \in {0, 1}
  OBVIOUS
<1>3. n = 2 * (n \div 2) + (n % 2)
  OBVIOUS
<1>4. QED
  BY <1>1, <1>2, <1>3

\* A byte has an even number of values, and a word as many as two bytes.
LEMMA Sizes == /\ ByteValues \in Nat /\ ByteValues >= 2
               /\ WordValues \in Nat \ {0}
               /\ \E k \in Nat \ {0} : ByteValues = 2 * k /\ WordValues = 2 * (k * ByteValues)
                                       /\ ByteValues \div 2 = k
                                       /\ WordValues \div 2 = k * ByteValues
<1>1. ByteValues \in Nat /\ ByteValues >= 2
  BY ByteAssumption
<1>2. PICK k \in Nat : ByteValues = 2 * k
  BY ByteAssumption, EvenNumber
<1>3. k # 0 /\ ByteValues \div 2 = k
  BY <1>1, <1>2
<1>4. WordValues = 2 * (k * ByteValues)
  BY <1>1, <1>2 DEF WordValues
<1>5. k * ByteValues \in Nat /\ k * ByteValues >= 1
  BY <1>1, <1>2, <1>3
<1> DEFINE q == k * ByteValues
<1> HIDE DEF q
<1>6. WordValues = 2 * q /\ q \in Nat /\ q >= 1
  BY <1>4, <1>5 DEF q
<1>7. WordValues \in Nat \ {0} /\ WordValues \div 2 = q
  BY <1>6
<1>8. QED
  BY <1>1, <1>2, <1>3, <1>4, <1>7 DEF q

LEMMA Parts ==
  ASSUME NEW w \in Word
  PROVE  /\ Upper(w) \in Byte /\ Low(w) \in Byte
         /\ w = Upper(w) * ByteValues + Low(w)
<1>1. w \in Nat /\ ByteValues \in Nat /\ ByteValues >= 2 /\ w < ByteValues * ByteValues
  BY Sizes DEF Word, WordValues
<1>2. w = (w \div ByteValues) * ByteValues + (w % ByteValues)
  BY <1>1, Z3T(30)
<1>3. w \div ByteValues \in Nat /\ w % ByteValues \in 0..ByteValues - 1
  BY <1>1
<1>4. w \div ByteValues < ByteValues
  <2>1. SUFFICES ASSUME w \div ByteValues >= ByteValues PROVE FALSE
    BY <1>1, <1>3
  <2>2. (w \div ByteValues) * ByteValues >= ByteValues * ByteValues
    BY <1>1, <1>3, <2>1, Z3T(30)
  <2>3. QED
    BY <1>1, <1>2, <1>3, <2>2
<1>5. QED
  BY <1>1, <1>2, <1>3, <1>4 DEF Upper, Low, Byte

LEMMA Joined ==
  ASSUME NEW h \in Byte, NEW l \in Byte
  PROVE  /\ h * ByteValues + l \in Word
         /\ Upper(h * ByteValues + l) = h /\ Low(h * ByteValues + l) = l
<1>1. h \in Nat /\ l \in Nat /\ l < ByteValues /\ h < ByteValues /\ ByteValues \in Nat \ {0}
  BY Sizes DEF Byte
<1>2. (h * ByteValues + l) \div ByteValues = h
  BY <1>1, Z3T(30)
<1>3. (h * ByteValues + l) % ByteValues = l
  BY <1>1, Z3T(30)
<1>4. h * ByteValues + l \in Nat
  BY <1>1
<1>5. (h + 1) * ByteValues =< ByteValues * ByteValues
  BY <1>1, Z3T(30)
<1>6. (h + 1) * ByteValues = h * ByteValues + ByteValues
  BY <1>1
<1>7. h * ByteValues + l < ByteValues * ByteValues
  BY <1>1, <1>5, <1>6
<1>8. WordValues = ByteValues * ByteValues /\ WordValues \in Nat
  BY <1>1 DEF WordValues
<1>9. h * ByteValues + l \in 0..WordValues - 1
  BY <1>4, <1>7, <1>8
<1>10. QED
  BY <1>2, <1>3, <1>9 DEF Upper, Low, Word

\* The high order bit of a word and whether it is zero, from its bytes.
LEMMA WordFlags ==
  ASSUME NEW w \in Word
  PROVE  /\ High(w, WordValues) <=> High(Upper(w), ByteValues)
         /\ w = 0 <=> Low(w) = 0 /\ Upper(w) = 0
<1> DEFINE h == Upper(w)
           l == Low(w)
<1>1. PICK k \in Nat \ {0} : ByteValues = 2 * k /\ WordValues = 2 * (k * ByteValues)
  BY Sizes
<1>2. /\ h \in Nat /\ l \in Nat /\ l < ByteValues /\ w = h * ByteValues + l
      /\ ByteValues \in Nat /\ ByteValues >= 2
  BY Parts, Sizes DEF Byte
<1> HIDE DEF h, l
<1>3. w = 0 <=> l = 0 /\ h = 0
  BY <1>2
<1>4. High(w, WordValues) <=> h >= k
  <2>1. k * ByteValues \in Nat /\ h * ByteValues \in Nat
    BY <1>1, <1>2
  <2>2. High(w, WordValues) <=> h * ByteValues + l >= k * ByteValues
    BY <1>1, <1>2, <2>1 DEF High
  <2>3. ASSUME h >= k PROVE h * ByteValues >= k * ByteValues
    BY <1>1, <1>2, <2>3
  <2>4. ASSUME h < k PROVE h * ByteValues + ByteValues =< k * ByteValues
    <3>1. (h + 1) * ByteValues =< k * ByteValues
      BY <1>1, <1>2, <2>4
    <3>2. (h + 1) * ByteValues = h * ByteValues + ByteValues
      BY <1>2
    <3>3. QED
      BY <3>1, <3>2
  <2>5. QED
    BY <1>1, <1>2, <2>1, <2>2, <2>3, <2>4
<1>5. High(h, ByteValues) <=> h >= k
  BY <1>1, <1>2 DEF High
<1>6. QED
  BY <1>3, <1>4, <1>5 DEF h, l

\* Complementing a word complements its bytes.
LEMMA Complements ==
  ASSUME NEW w \in Word
  PROVE  /\ Not(w, WordValues) \in Word
         /\ Upper(Not(w, WordValues)) = Not(Upper(w), ByteValues)
         /\ Low(Not(w, WordValues)) = Not(Low(w), ByteValues)
<1>1. /\ Upper(w) \in Byte /\ Low(w) \in Byte /\ w = Upper(w) * ByteValues + Low(w)
      /\ ByteValues \in Nat
  BY Parts, Sizes
<1> DEFINE h == Not(Upper(w), ByteValues)
           l == Not(Low(w), ByteValues)
<1>2. h \in Byte /\ l \in Byte
  BY <1>1 DEF Not, Byte
<1>3. h * ByteValues + l = Not(w, WordValues)
  <2>1. h * ByteValues = ByteValues * ByteValues - ByteValues - Upper(w) * ByteValues
    BY <1>1 DEF Not, Byte
  <2> DEFINE p == Upper(w) * ByteValues
             q == ByteValues * ByteValues
             r == h * ByteValues
  <2>2. p \in Int /\ q \in Int
    BY <1>1 DEF Byte
  <2>3. w = p + Low(w) /\ r = q - ByteValues - p /\ WordValues = q
        /\ l = ByteValues - 1 - Low(w) /\ Low(w) \in Int
    BY <1>1, <2>1 DEF Not, WordValues, Byte
  <2>4. Not(w, WordValues) = WordValues - 1 - w
    BY DEF Not
  <2> HIDE DEF p, q, r, l
  <2>5. r + l = Not(w, WordValues)
    BY <1>1, <2>2, <2>3, <2>4
  <2>6. QED
    BY <2>5 DEF r, l
<1>4. QED
  BY <1>2, <1>3, Joined

-----------------------------------------------------------------------------
(* Operations on words, byte by byte.                                      *)

\* The sum of two words from the sums of their bytes, when the carry of the
\* low bytes is the one that the sum needs.
LEMMA AddBytes ==
  ASSUME NEW a \in Word, NEW b \in Word, NEW cin \in {0, 1}, NEW carry \in {0, 1},
         carry = 1 <=> Low(a) + Low(b) + cin >= ByteValues
  PROVE  LET l == (Low(a) + Low(b) + cin) % ByteValues
             h == (Upper(a) + Upper(b) + carry) % ByteValues
         IN  /\ l \in Byte /\ h \in Byte
             /\ h * ByteValues + l = (a + b + cin) % WordValues
             /\ Upper(a) + Upper(b) + carry >= ByteValues <=> a + b + cin >= WordValues
<1> DEFINE B == ByteValues
           ah == Upper(a)
           al == Low(a)
           bh == Upper(b)
           bl == Low(b)
           l == (al + bl + cin) % B
           h == (ah + bh + carry) % B
<1>1. /\ ah \in 0..B - 1 /\ al \in 0..B - 1 /\ a = ah * B + al
      /\ bh \in 0..B - 1 /\ bl \in 0..B - 1 /\ b = bh * B + bl
      /\ B \in Nat /\ B >= 2
  BY Parts, Sizes DEF Byte
<1>0. \A x, y \in 0..B - 1 : \A c \in {0, 1} :
         (x + y + c) % B = IF x + y + c >= B THEN x + y + c - B ELSE x + y + c
  <2>1. B \in Nat \ {0}
    BY <1>1
  <2> HIDE DEF B
  <2>2. QED
    BY <2>1, WrapsOnce
<1>2. l = IF al + bl + cin >= B THEN al + bl + cin - B ELSE al + bl + cin
  BY <1>0, <1>1
<1>3. h = IF ah + bh + carry >= B THEN ah + bh + carry - B ELSE ah + bh + carry
  BY <1>0, <1>1
<1>4. l \in Byte /\ h \in Byte
  BY <1>1, <1>2, <1>3 DEF Byte
<1>5. (a + b + cin) % WordValues
        = IF a + b + cin >= WordValues THEN a + b + cin - WordValues ELSE a + b + cin
  BY Sizes, WrapsOnce DEF Word
<1>6. carry = 1 <=> al + bl + cin >= B
  OBVIOUS
<1> HIDE DEF l, h, al, ah, bl, bh, B
<1>7. l = al + bl + cin - carry * B
  BY <1>1, <1>2, <1>6
<1>8. PICK up \in {0, 1} : /\ h = ah + bh + carry - up * B
                           /\ up = 1 <=> ah + bh + carry >= B
  BY <1>1, <1>3
<1>9. h * B + l = a + b + cin - up * (B * B)
  <2>1. h * B = ah * B + bh * B + carry * B - up * (B * B)
    BY <1>1, <1>8, Z3T(30)
  <2>2. ah * B \in Int /\ bh * B \in Int /\ carry * B \in Int /\ up * (B * B) \in Int
    BY <1>1
  <2>3. QED
    BY <1>1, <1>7, <2>1, <2>2
<1>10. h * B + l \in Word
  BY <1>4, Joined DEF B
<1>11. WordValues = B * B /\ WordValues \in Nat
  BY Sizes DEF WordValues, B
<1>12. a + b + cin \in Nat
  BY DEF Word
<1>13. up = 1 <=> a + b + cin >= WordValues
  BY <1>8, <1>9, <1>10, <1>11, <1>12 DEF Word
<1>14. h * B + l = (a + b + cin) % WordValues
  BY <1>5, <1>8, <1>9, <1>11, <1>12, <1>13
<1>15. QED
  BY <1>4, <1>8, <1>13, <1>14 DEF l, h, al, ah, bl, bh, B

\* The sum of two words from the two sums of the ALU, unless the low bytes are
\* the one pair whose carry the comparison misses.
LEMMA SumOfWords ==
  ASSUME NEW a \in Word, NEW b \in Word, NEW cin \in {0, 1},
         ~(Low(a) = ByteValues - 1 /\ Low(b) = ByteValues - 1 /\ cin = 1)
  PROVE  LET x == Sum(Low(a), Low(b), cin, ByteValues)
             y == Sum(Upper(a), Upper(b), Bit(x.c), ByteValues)
             w == (a + b + cin) % WordValues
         IN  /\ x.res \in Byte /\ y.res \in Byte /\ w \in Word
             /\ y.res = Upper(w) /\ x.res = Low(w)
             /\ y.res * ByteValues + x.res = w
             /\ y.n <=> High(w, WordValues)
             /\ y.z /\ x.z <=> w = 0
             /\ y.v <=> Overflow(w, a, b, WordValues)
             /\ y.c <=> /\ a + b + cin >= WordValues
                        /\ ~(Upper(a) = ByteValues - 1 /\ Upper(b) = ByteValues - 1 /\ x.c)
<1> DEFINE x == Sum(Low(a), Low(b), cin, ByteValues)
           carry == Bit(x.c)
           y == Sum(Upper(a), Upper(b), carry, ByteValues)
           l == (Low(a) + Low(b) + cin) % ByteValues
           h == (Upper(a) + Upper(b) + carry) % ByteValues
           w == (a + b + cin) % WordValues
<1>1. /\ Upper(a) \in 0..ByteValues - 1 /\ Low(a) \in 0..ByteValues - 1
      /\ Upper(b) \in 0..ByteValues - 1 /\ Low(b) \in 0..ByteValues - 1
      /\ ByteValues \in Nat \ {0}
  BY Parts, Sizes DEF Byte
<1>2. /\ x.res = l /\ x.z = (l = 0)
      /\ y.res = h /\ y.z = (h = 0) /\ y.n = High(h, ByteValues)
      /\ y.v = Overflow(h, Upper(a), Upper(b), ByteValues)
  BY DEF Sum
<1>3. x.c <=> Low(a) + Low(b) + cin >= ByteValues
  BY <1>1, CarryOutIsExact
<1>4. carry \in {0, 1} /\ (carry = 1 <=> x.c)
  BY DEF Bit
<1>5. /\ l \in Byte /\ h \in Byte
      /\ h * ByteValues + l = w
      /\ Upper(a) + Upper(b) + carry >= ByteValues <=> a + b + cin >= WordValues
  <2> HIDE DEF carry, x
  <2>1. QED
    BY <1>3, <1>4, AddBytes
<1>6. w \in Word /\ Upper(w) = h /\ Low(w) = l
  BY <1>5, Joined
<1>7. /\ High(w, WordValues) <=> High(h, ByteValues)
      /\ High(a, WordValues) <=> High(Upper(a), ByteValues)
      /\ High(b, WordValues) <=> High(Upper(b), ByteValues)
      /\ w = 0 <=> l = 0 /\ h = 0
  <2> HIDE DEF w, l, h
  <2>1. QED
    BY <1>6, WordFlags
<1>8. y.c <=> /\ Upper(a) + Upper(b) + carry >= ByteValues
              /\ ~(Upper(a) = ByteValues - 1 /\ Upper(b) = ByteValues - 1 /\ carry = 1)
  <2> HIDE DEF x, carry
  <2>1. QED
    BY <1>1, <1>4, CarryOutIsExact
<1>9. Overflow(h, Upper(a), Upper(b), ByteValues) <=> Overflow(w, a, b, WordValues)
  <2> HIDE DEF w, l, h
  <2>1. QED
    BY <1>7 DEF Overflow, High
<1> HIDE DEF x, y, w, l, h, carry
<1>10. QED
  BY <1>2, <1>4, <1>5, <1>6, <1>7, <1>8, <1>9 DEF x, y, w, carry

\* A word shifted left is the word added to itself, byte by byte with the high
\* order bit of the low byte as carry.
LEMMA LeftShiftOfWords ==
  ASSUME NEW a \in Word, NEW bit \in {0, 1}
  PROVE  LET x == ShiftLeft(Low(a), bit)
             y == ShiftLeft(Upper(a), Bit(High(Low(a), ByteValues)))
             w == (2 * a + bit) % WordValues
         IN  /\ x.res \in Byte /\ y.res \in Byte /\ w \in Word
             /\ y.res = Upper(w) /\ x.res = Low(w)
             /\ y.res * ByteValues + x.res = w
             /\ y.n <=> High(w, WordValues)
             /\ y.c <=> High(a, WordValues)
<1> DEFINE carry == Bit(High(Low(a), ByteValues))
           l == (2 * Low(a) + bit) % ByteValues
           h == (2 * Upper(a) + carry) % ByteValues
           w == (2 * a + bit) % WordValues
<1>1. /\ Upper(a) \in 0..ByteValues - 1 /\ Low(a) \in 0..ByteValues - 1
      /\ ByteValues \in Nat \ {0} /\ a \in Nat
  BY Parts, Sizes DEF Byte, Word
<1>2. PICK k \in Nat \ {0} : ByteValues = 2 * k
  BY Sizes
<1>3. /\ 2 * Low(a) + bit = Low(a) + Low(a) + bit
      /\ 2 * Upper(a) + carry = Upper(a) + Upper(a) + carry
      /\ 2 * a + bit = a + a + bit
  BY <1>1 DEF Bit
<1>4. carry \in {0, 1} /\ (carry = 1 <=> Low(a) + Low(a) + bit >= ByteValues)
  BY <1>1, <1>2 DEF Bit, High
<1>5. /\ l \in Byte /\ h \in Byte /\ h * ByteValues + l = w
  <2> HIDE DEF carry
  <2> DEFINE l0 == (Low(a) + Low(a) + bit) % ByteValues
             h0 == (Upper(a) + Upper(a) + carry) % ByteValues
  <2>1. l0 \in Byte /\ h0 \in Byte /\ h0 * ByteValues + l0 = (a + a + bit) % WordValues
    BY <1>4, AddBytes
  <2>2. QED
    BY <1>3, <2>1
<1>6. w \in Word /\ Upper(w) = h /\ Low(w) = l
  BY <1>5, Joined
<1>7. /\ High(w, WordValues) <=> High(h, ByteValues)
      /\ High(a, WordValues) <=> High(Upper(a), ByteValues)
  <2> HIDE DEF w, l, h
  <2>1. QED
    BY <1>6, WordFlags
<1>8. /\ ShiftLeft(Low(a), bit).res = l
      /\ ShiftLeft(Upper(a), carry).res = h
      /\ ShiftLeft(Upper(a), carry).n = High(h, ByteValues)
      /\ ShiftLeft(Upper(a), carry).c = High(Upper(a), ByteValues)
  BY DEF ShiftLeft, Logical
<1> HIDE DEF w, l, h
<1>9. QED
  BY <1>5, <1>6, <1>7, <1>8 DEF w

\* V of a left shift: the second bit from the top moves to the top.
LEMMA LeftShiftOverflow ==
  ASSUME NEW a \in Word, ByteValues % 4 = 0
  PROVE  LET y == ShiftLeft(Upper(a), Bit(High(Low(a), ByteValues)))
         IN  y.v <=> High(a, WordValues) # High((2 * a) % WordValues, WordValues)
<1> DEFINE carry == Bit(High(Low(a), ByteValues))
           u == Upper(a)
           w == (2 * a) % WordValues
<1>1. u \in 0..ByteValues - 1 /\ ByteValues \in Nat \ {0} /\ a \in Nat
  BY Parts, Sizes DEF Byte, Word
<1>2. PICK k \in Nat : ByteValues = 4 * k
  BY <1>1, FourFold
<1>3. carry \in {0, 1}
  BY DEF Bit
<1>4. /\ w \in Word
      /\ Upper(w) = (2 * u + carry) % ByteValues
  <2>1. 2 * a + 0 = 2 * a
    BY <1>1
  <2>2. ShiftLeft(u, carry).res = (2 * u + carry) % ByteValues
    BY DEF ShiftLeft, Logical
  <2> HIDE DEF u, carry
  <2>3. QED
    BY <2>1, <2>2, LeftShiftOfWords DEF u, carry
<1>5. /\ High(w, WordValues) <=> High(Upper(w), ByteValues)
      /\ High(a, WordValues) <=> High(u, ByteValues)
  <2> HIDE DEF w
  <2>1. QED
    BY <1>4, WordFlags
<1>6. High((2 * u + carry) % ByteValues, ByteValues) <=> High((2 * u) % ByteValues, ByteValues)
  <2> HIDE DEF u, carry
  <2>2. \A n \in 0..2 * ByteValues - 1 :
          n % ByteValues = IF n >= ByteValues THEN n - ByteValues ELSE n
    BY <1>1, ModuloOfSum
  <2>3. 2 * u \in 0..2 * ByteValues - 1 /\ 2 * u + carry \in 0..2 * ByteValues - 1
    BY <1>1, <1>3
  <2> DEFINE j == 2 * u
             i == 2 * u + carry
             x == i % ByteValues
             y == j % ByteValues
  <2>4. /\ x = IF i >= ByteValues THEN i - ByteValues ELSE i
        /\ y = IF j >= ByteValues THEN j - ByteValues ELSE j
    <3> HIDE DEF i, j
    <3>1. i \in 0..2 * ByteValues - 1 /\ j \in 0..2 * ByteValues - 1
      BY <2>3 DEF i, j
    <3>2. QED
      BY <2>2, <3>1
  <2> HIDE DEF x, y
  <2>5. High(x, ByteValues) <=> High(y, ByteValues)
    BY <1>1, <1>2, <1>3, <2>4 DEF High
  <2>6. QED
    BY <2>5 DEF x, y
<1> DEFINE x == (2 * u + carry) % ByteValues
           y == (2 * u) % ByteValues
<1>7. ShiftLeft(u, carry).v = (High(u, ByteValues) # High(y, ByteValues))
  BY DEF ShiftLeft, Logical
<1>8. Upper(w) = x /\ (High(x, ByteValues) <=> High(y, ByteValues))
  BY <1>4, <1>6
<1> HIDE DEF w, x, y
<1>9. High(a, WordValues) # High(w, WordValues) <=> High(u, ByteValues) # High(y, ByteValues)
  BY <1>5, <1>8 DEF High
<1>10. QED
  BY <1>7, <1>9 DEF w

\* A word shifted right, byte by byte with the low order bit of the high byte
\* as carry.
LEMMA RightShiftOfWords ==
  ASSUME NEW a \in Word, NEW bit \in {0, 1}
  PROVE  LET y == ShiftRight(Upper(a), bit)
             x == ShiftRight(Low(a), Bit(Upper(a) % 2 = 1))
             w == a \div 2 + bit * (WordValues \div 2)
         IN  /\ x.res \in Byte /\ y.res \in Byte /\ w \in Word
             /\ y.res = Upper(w) /\ x.res = Low(w)
             /\ y.res * ByteValues + x.res = w
             /\ y.n <=> High(w, WordValues)
             /\ y.z /\ x.z <=> w = 0
             /\ x.c <=> a % 2 = 1
<1> DEFINE B == ByteValues
           u == Upper(a)
           v == Low(a)
           odd == Bit(Upper(a) % 2 = 1)
           l == v \div 2 + odd * (B \div 2)
           h == u \div 2 + bit * (B \div 2)
           w == a \div 2 + bit * (WordValues \div 2)
<1>1. /\ u \in 0..B - 1 /\ v \in 0..B - 1 /\ B \in Nat \ {0} /\ a \in Nat /\ a = u * B + v
  BY Parts, Sizes DEF Byte, Word
<1>2. PICK k \in Nat \ {0} : /\ B = 2 * k /\ WordValues = 2 * (k * B)
                             /\ B \div 2 = k /\ WordValues \div 2 = k * B
  BY Sizes
<1>3. odd \in {0, 1} /\ u = 2 * (u \div 2) + odd /\ u \div 2 \in Nat
  BY <1>1 DEF Bit
<1>4. PICK t \in {0, 1} : v = 2 * (v \div 2) + t /\ v \div 2 \in Nat /\ (t = 1 <=> v % 2 = 1)
  <2>1. v \in Nat
    BY <1>1
  <2> HIDE DEF v
  <2>2. QED
    BY <2>1, Halves
<1>5. l \in Byte /\ h \in Byte
  <2> HIDE DEF u, v, odd, B
  <2>1. l \in 0..B - 1
    BY <1>1, <1>2, <1>3, <1>4
  <2>2. h \in 0..B - 1
    BY <1>1, <1>2, <1>3
  <2>3. QED
    BY <2>1, <2>2 DEF Byte, B
<1>6. h * B + l = w /\ (a % 2 = 1 <=> v % 2 = 1)
  <2> DEFINE p == u \div 2
             q == v \div 2
             r == p * B
  <2>1. p \in Nat /\ q \in Nat /\ r \in Nat
    <3>1. p \in Nat /\ q \in Nat
      BY <1>3, <1>4
    <3> HIDE DEF p
    <3>2. QED
      BY <1>1, <3>1
  <2>2. u * B = 2 * r + odd * B
    <3>1. u = 2 * p + odd
      BY <1>3
    <3>2. \A x, y, z \in Nat : (2 * x + y) * z = 2 * (x * z) + y * z
      BY Z3T(30)
    <3> HIDE DEF u, v, odd, B, p
    <3>3. (2 * p + odd) * B = 2 * (p * B) + odd * B
      BY <1>1, <1>3, <2>1, <3>2
    <3>4. QED
      BY <3>1, <3>3
  <2>3. odd * B = 2 * (odd * k) /\ odd * k \in Nat
    BY <1>2, <1>3
  <2>4. bit * (B \div 2) = bit * k /\ odd * (B \div 2) = odd * k
        /\ bit * (WordValues \div 2) = bit * (k * B)
    BY <1>2
  <2>5. h * B = r + bit * (k * B)
    <3> HIDE DEF u, v, odd, B, p
    <3>1. (p + bit * k) * B = p * B + bit * (k * B)
      BY <1>1, <1>2, <2>1
    <3>2. QED
      BY <2>4, <3>1 DEF p
  <2> DEFINE ok == odd * k
             bk == bit * (k * B)
  <2>6. bk \in Nat
    BY <1>1, <1>2
  <2>7. /\ a = 2 * (r + ok + q) + t
        /\ h * B = r + bk /\ l = q + ok /\ w = a \div 2 + bk
    <3>1. a = u * B + v /\ v = 2 * q + t
      BY <1>1, <1>4
    <3>2. h * B = r + bk /\ l = q + ok /\ w = a \div 2 + bk
      BY <2>4, <2>5
    <3>3. u * B = 2 * r + 2 * ok
      BY <2>2, <2>3
    <3>4. u * B \in Nat /\ t \in Nat /\ ok \in Nat
      BY <1>1, <2>3
    <3>5. a = 2 * (r + ok + q) + t
      <4> DEFINE ub == u * B
      <4>1. a = ub + v /\ v = 2 * q + t /\ ub = 2 * r + 2 * ok /\ ub \in Nat
        BY <3>1, <3>3, <3>4
      <4> HIDE DEF ub, v, q, r, ok
      <4>2. QED
        BY <2>1, <3>4, <4>1
    <3>6. QED
      BY <3>2, <3>5
  <2>8. ok \in Nat
    BY <2>3
  <2>9. t \in {0, 1} /\ a \in Nat
    BY <1>1
  <2>10. w = h * B + l /\ (a % 2 = 1 <=> t = 1)
    <3> DEFINE d == r + ok + q
               e == h * B
    <3>1. d \in Nat
      BY <2>1, <2>8
    <3>2. a = 2 * d + t
      BY <2>7
    <3>3. a \div 2 = d /\ (a % 2 = 1 <=> t = 1)
      <4> HIDE DEF d
      <4>1. QED
        BY <2>9, <3>1, <3>2
    <3>4. e = r + bk /\ l = q + ok /\ w = d + bk
      <4>1. e = r + bk /\ l = q + ok /\ w = (a \div 2) + bk
        BY <2>7
      <4>2. QED
        BY <3>3, <4>1
    <3> HIDE DEF e, l, w, r, ok, q, bk
    <3>5. e + l = w
      BY <2>1, <2>6, <2>8, <3>4 DEF d
    <3>6. QED
      BY <3>3, <3>5 DEF e
  <2>11. QED
    BY <1>4, <2>10
<1>7. w \in Word /\ Upper(w) = h /\ Low(w) = l
  <2> HIDE DEF h, l, w
  <2>1. h * ByteValues + l = w
    BY <1>6 DEF B
  <2>2. QED
    BY <1>5, <2>1, Joined
<1>8. /\ High(w, WordValues) <=> High(h, ByteValues)
      /\ w = 0 <=> l = 0 /\ h = 0
  <2> HIDE DEF w, l, h
  <2>1. QED
    BY <1>7, WordFlags
<1>9. /\ ShiftRight(u, bit).res = h
      /\ ShiftRight(u, bit).z = (h = 0)
      /\ ShiftRight(u, bit).n = High(h, ByteValues)
      /\ ShiftRight(v, odd).res = l
      /\ ShiftRight(v, odd).z = (l = 0)
      /\ ShiftRight(v, odd).c = (v % 2 = 1)
  BY DEF ShiftRight, Logical
<1>10. h * ByteValues + l = w
  BY <1>6
<1> HIDE DEF w, l, h
<1>11. QED
  BY <1>5, <1>6, <1>7, <1>8, <1>9, <1>10 DEF w, u, v, odd

-----------------------------------------------------------------------------
(* What each line of the microprogram leaves, from the instruction alone.   *)

Adding == {"ADD", "SUB", "CPW", "NEG"}

\* The sum that instruction i computes: a subtraction adds the complement and
\* a carry.
Augend(i) == IF i.op = "NEG" THEN 0 ELSE i.value
Addend(i) == IF i.op = "ADD" THEN i.operand
             ELSE Not(IF i.op = "NEG" THEN i.value ELSE i.operand, WordValues)
CarryIn(i) == IF i.op = "ADD" THEN 0 ELSE 1

LowSum(i) == Sum(Low(Augend(i)), Low(Addend(i)), CarryIn(i), ByteValues)
HighSum(i) == Sum(Upper(Augend(i)), Upper(Addend(i)), Bit(LowSum(i).c), ByteValues)

\* The bit that a shift moves in, and its two halves.
ShiftIn(i) == CASE i.op = "ASL" -> 0
                [] i.op = "ASR" -> Bit(High(Upper(i.value), ByteValues))
                [] OTHER -> Bit(i.flags.c)
LeftLow(i) == ShiftLeft(Low(i.value), ShiftIn(i))
LeftHigh(i) == ShiftLeft(Upper(i.value), Bit(High(Low(i.value), ByteValues)))
RightHigh(i) == ShiftRight(Upper(i.value), ShiftIn(i))
RightLow(i) == ShiftRight(Low(i.value), Bit(Upper(i.value) % 2 = 1))

Are(f, n, z, v, c) == (f.n <=> n) /\ (f.z <=> z) /\ (f.v <=> v) /\ (f.c <=> c)

AtFirst(i, h, l, f, st) ==
    /\ h = Upper(i.value) /\ l = Low(i.value)
    /\ Are(f, i.flags.n, i.flags.z, i.flags.v, i.flags.c)
    /\ st = FALSE

AtSecond(i, h, l, f, st) ==
    LET b == i.flags
    IN  /\ i.op \in Adding =>
               /\ h = Upper(i.value)
               /\ l = IF i.op = "CPW" THEN Low(i.value) ELSE LowSum(i).res
               /\ Are(f, b.n, LowSum(i).z, b.v, b.c)
               /\ st <=> LowSum(i).c
        /\ i.op = "NOT" =>
               /\ h = Upper(i.value) /\ l = Not(Low(i.value), ByteValues)
               /\ Are(f, b.n, l = 0, b.v, b.c)
        /\ i.op \in {"ASL", "ROL"} =>
               /\ h = Upper(i.value) /\ l = LeftLow(i).res
               /\ Are(f, b.n, IF i.op = "ASL" THEN LeftLow(i).z ELSE b.z, b.v, b.c)
               /\ st <=> High(Low(i.value), ByteValues)
        /\ i.op = "ASR" =>
               /\ h = RightHigh(i).res /\ l = Low(i.value)
               /\ Are(f, RightHigh(i).n, RightHigh(i).z, b.v, b.c)
               /\ st <=> Upper(i.value) % 2 = 1
        /\ i.op = "ROR" =>
               /\ h = RightHigh(i).res /\ l = Low(i.value)
               /\ Are(f, b.n, b.z, b.v, b.c)
               /\ st <=> Upper(i.value) % 2 = 1

\* `fixed`: the lines at cpw_n_fix are behind.
AtEnd(i, h, l, f, fixed) ==
    LET b == i.flags
        sum == HighSum(i)
    IN  /\ i.op \in Adding =>
               /\ h = IF i.op = "CPW" THEN Upper(i.value) ELSE sum.res
               /\ l = IF i.op = "CPW" THEN Low(i.value) ELSE LowSum(i).res
               /\ Are(f, IF i.op = "CPW" /\ fixed THEN sum.n # sum.v ELSE sum.n,
                      sum.z /\ LowSum(i).z, sum.v, IF i.op = "NEG" THEN b.c ELSE sum.c)
        /\ i.op = "NOT" =>
               /\ h = Not(Upper(i.value), ByteValues) /\ l = Not(Low(i.value), ByteValues)
               /\ Are(f, High(h, ByteValues), h = 0 /\ l = 0, b.v, b.c)
        /\ i.op \in {"ASL", "ROL"} => h = LeftHigh(i).res /\ l = LeftLow(i).res
        /\ i.op = "ASL" => Are(f, LeftHigh(i).n, LeftHigh(i).z /\ LeftLow(i).z,
                               LeftHigh(i).v, LeftHigh(i).c)
        /\ i.op = "ROL" => Are(f, b.n, b.z, b.v, LeftHigh(i).c)
        /\ i.op \in {"ASR", "ROR"} => h = RightHigh(i).res /\ l = RightLow(i).res
        /\ i.op = "ASR" => Are(f, RightHigh(i).n, RightHigh(i).z /\ RightLow(i).z,
                               b.v, RightLow(i).c)
        /\ i.op = "ROR" => Are(f, b.n, b.z, b.v, RightLow(i).c)

\* After each line the register and the flags are those that the instruction
\* alone determines.
BytesInv ==
    /\ TypeOk
    /\ line = "first" => AtFirst(start, hi, lo, flags, s)
    /\ line = "second" => AtSecond(start, hi, lo, flags, s)
    /\ line \in {"cpw_n_fix", "done"} => AtEnd(start, hi, lo, flags, line = "done")
    /\ line = "cpw_n_fix" => start.op = "CPW" /\ HighSum(start).v

LEMMA SumTyped ==
  ASSUME NEW m \in Nat \ {0}, NEW a \in 0..m - 1, NEW b \in 0..m - 1, NEW cin \in {0, 1}
  PROVE  /\ Sum(a, b, cin, m).res \in 0..m - 1
         /\ Sum(a, b, cin, m).n \in BOOLEAN /\ Sum(a, b, cin, m).z \in BOOLEAN
         /\ Sum(a, b, cin, m).v \in BOOLEAN /\ Sum(a, b, cin, m).c \in BOOLEAN
<1>1. (a + b + cin) % m \in 0..m - 1
  OBVIOUS
<1>2. QED
  BY <1>1 DEF Sum, High, Overflow, CarryOut

LEMMA NotTyped == ASSUME NEW a \in Byte PROVE Not(a, ByteValues) \in Byte
  BY Sizes DEF Not, Byte

Output == [res : Byte, n : BOOLEAN, z : BOOLEAN, v : BOOLEAN, c : BOOLEAN]

\* The ALU makes a byte and four flags out of any two bytes.
LEMMA AluTyped ==
  ASSUME NEW f \in AluFunction, NEW a \in Byte, NEW b \in Byte, NEW cin \in {0, 1}
  PROVE  ALU(f, a, b, cin) \in Output
<1> DEFINE B == ByteValues
<1>1. B \in Nat \ {0} /\ Byte = 0..B - 1
  BY Sizes DEF Byte
<1>2. ASSUME NEW x \in Byte, NEW y \in Byte, NEW d \in {0, 1}
      PROVE  Sum(x, y, d, ByteValues) \in Output
  BY <1>1, <1>2, SumTyped DEF Sum, Output
<1>3. ASSUME NEW res \in Byte PROVE Logical(res) \in Output
  BY <1>3 DEF Logical, Output, High
<1>4. ASSUME NEW x \in Byte, NEW d \in {0, 1} PROVE ShiftLeft(x, d) \in Output
  <2>1. (2 * x + d) % B \in Byte
    BY <1>1
  <2>2. Logical((2 * x + d) % B) \in Output
    BY <1>3, <2>1
  <2> DEFINE out == Logical((2 * x + d) % B)
             top == High(x, B)
             next == top # High((2 * x) % B, B)
  <2>3. top \in BOOLEAN /\ next \in BOOLEAN
    BY DEF High
  <2>4. ShiftLeft(x, d) = [out EXCEPT !.c = top, !.z = @ \/ top, !.v = next]
    BY DEF ShiftLeft
  <2> HIDE DEF out, top, next
  <2>5. out \in Output
    BY <2>2 DEF out
  <2>6. QED
    BY <2>3, <2>4, <2>5 DEF Output
<1>5. ASSUME NEW x \in Byte, NEW d \in {0, 1} PROVE ShiftRight(x, d) \in Output
  <2>1. PICK k \in Nat : B = 2 * k /\ B \div 2 = k
    BY Sizes
  <2>2. x \div 2 + d * (B \div 2) \in Byte
    BY <1>1, <2>1
  <2>3. Logical(x \div 2 + d * (B \div 2)) \in Output
    BY <1>3, <2>2
  <2>4. QED
    BY <2>3 DEF ShiftRight, Output
<1>6. Not(b, B) \in Byte /\ Not(a, B) \in Byte
  BY NotTyped
<1>7. Bit(High(a, B)) \in {0, 1}
  BY DEF Bit
<1>8. 0 \in {0, 1} /\ 1 \in {0, 1}
  OBVIOUS
<1>9. CASE f = "ApB" \/ f = "ApBpCin"
  BY <1>2, <1>8, <1>9 DEF ALU
<1>10. CASE f = "ApnBp1" \/ f = "ApnBpCin"
  BY <1>2, <1>6, <1>8, <1>10 DEF ALU
<1>11. CASE f = "nA"
  BY <1>3, <1>6, <1>11 DEF ALU
<1>12. CASE f = "ASLA" \/ f = "ROLA"
  BY <1>4, <1>8, <1>12 DEF ALU
<1>13. CASE f = "ASRA" \/ f = "RORA"
  BY <1>5, <1>7, <1>13 DEF ALU
<1>14. QED
  BY <1>9, <1>10, <1>11, <1>12, <1>13 DEF AluFunction

LEMMA Typed ==
  ASSUME TypeOk
  PROVE  /\ start.op \in Unary \cup Nonunary
         /\ start.value \in Word /\ start.operand \in Word
         /\ start.flags \in Flags
         /\ Upper(start.value) \in Byte /\ Low(start.value) \in Byte
         /\ Upper(start.operand) \in Byte /\ Low(start.operand) \in Byte
<1>1. /\ start.op \in Unary \cup Nonunary
      /\ start.value \in Word /\ start.operand \in Word /\ start.flags \in Flags
  BY ArithmeticAssumption DEF TypeOk
<1>2. QED
  BY <1>1, Parts

Lines == [half : {"hi", "lo"}, f : AluFunction, carry : {"S", "C"}, andZ : BOOLEAN,
          clocks : SUBSET {"N", "Z", "V", "C", "S"}]

LEMMA ProgramTyped ==
  ASSUME NEW op \in Unary \cup Nonunary
  PROVE  Microprogram(op)[1] \in Lines /\ Microprogram(op)[2] \in Lines
<1>1. CASE op = "NOT"
  BY <1>1 DEF Microprogram, MicroLine, HighByte, Lines, AluFunction
<1>2. CASE op = "NEG"
  BY <1>2 DEF Microprogram, MicroLine, HighByte, Lines, AluFunction
<1>3. CASE op = "ASL"
  BY <1>3 DEF Microprogram, MicroLine, HighByte, Lines, AluFunction
<1>4. CASE op = "ASR"
  BY <1>4 DEF Microprogram, MicroLine, HighByte, Lines, AluFunction
<1>5. CASE op = "ROL"
  BY <1>5 DEF Microprogram, MicroLine, HighByte, Lines, AluFunction
<1>6. CASE op = "ROR"
  BY <1>6 DEF Microprogram, MicroLine, HighByte, Lines, AluFunction
<1>7. CASE op = "ADD"
  BY <1>7 DEF Microprogram, MicroLine, HighByte, Lines, AluFunction
<1>8. CASE op = "SUB" \/ op = "CPW"
  BY <1>8 DEF Microprogram, MicroLine, HighByte, Lines, AluFunction
<1>9. QED
  BY <1>1, <1>2, <1>3, <1>4, <1>5, <1>6, <1>7, <1>8 DEF Unary, Nonunary

\* A clock leaves bytes in the register and booleans in the status bits.
LEMMA ClockTyped ==
  ASSUME TypeOk, NEW l \in Lines, Clock(l)
  PROVE  start' = start /\ hi' \in Byte /\ lo' \in Byte /\ flags' \in Flags /\ s' \in BOOLEAN
<1>1. hi \in Byte /\ lo \in Byte /\ flags \in Flags /\ s \in BOOLEAN
  BY DEF TypeOk
<1>2. Upper(start.operand) \in Byte /\ Low(start.operand) \in Byte /\ 0 \in Byte
  BY Typed, Sizes DEF Byte
<1>3. AluOutput(l) \in Output
  <2>1. RegisterByte(l.half) \in Byte
    BY <1>1 DEF RegisterByte
  <2>2. Half(start.operand, l.half) \in Byte
    BY <1>2 DEF Half, Upper, Low
  <2>3. Bit(IF l.carry = "S" THEN s ELSE flags.c) \in {0, 1}
    BY DEF Bit
  <2>4. l.f \in AluFunction
    BY DEF Lines
  <2>5. QED
    BY <1>2, <2>1, <2>2, <2>3, <2>4, AluTyped DEF AluOutput
<1> DEFINE out == AluOutput(l)
<1> HIDE DEF out
<1>4. /\ out \in Output
      /\ lo' = IF start.op # "CPW" /\ l.half = "lo" THEN out.res ELSE lo
      /\ hi' = IF start.op # "CPW" /\ l.half = "hi" THEN out.res ELSE hi
      /\ flags' = Clocked(l, out)
      /\ s' = IF "S" \in l.clocks THEN out.c ELSE s
      /\ start' = start
  BY <1>3 DEF Clock, out
<1>5. Clocked(l, out) \in Flags
  BY <1>1, <1>4 DEF Clocked, Flags, Output
<1>6. QED
  BY <1>1, <1>4, <1>5 DEF Output

LEMMA Zero == 0 \in Word /\ Low(0) = 0 /\ Upper(0) = 0
<1>1. 0 \in Byte /\ 0 * ByteValues + 0 = 0
  BY Sizes DEF Byte
<1>2. QED
  BY <1>1, Joined

\* A shift moves the bit at its end to the carry.
LEMMA ShiftedOut ==
  ASSUME NEW i
  PROVE  /\ LeftLow(i).c <=> High(Low(i.value), ByteValues)
         /\ RightHigh(i).c <=> Upper(i.value) % 2 = 1
  BY DEF LeftLow, RightHigh, ShiftLeft, ShiftRight, Logical, High

-----------------------------------------------------------------------------
(* The two lines of each instruction.                                      *)

LEMMA FirstLineLeaves ==
  ASSUME TypeOk, AtFirst(start, hi, lo, flags, s), FirstLine
  PROVE  AtSecond(start, hi', lo', flags', s')
<1>0. /\ hi = Upper(start.value) /\ lo = Low(start.value)
      /\ Are(flags, start.flags.n, start.flags.z, start.flags.v, start.flags.c)
      /\ Low(0) = 0 /\ Upper(0) = 0
      /\ Low(Not(start.operand, WordValues)) = Not(Low(start.operand), ByteValues)
      /\ Low(Not(start.value, WordValues)) = Not(Low(start.value), ByteValues)
      /\ start.flags.c \in BOOLEAN /\ flags.c \in BOOLEAN
      /\ LeftLow(start).c <=> High(Low(start.value), ByteValues)
      /\ RightHigh(start).c <=> Upper(start.value) % 2 = 1
  BY Typed, Complements, Zero, ShiftedOut DEF AtFirst, TypeOk, Flags
<1>1. CASE start.op = "ADD"
  <2> DEFINE l == MicroLine("lo", "ApB", "S", FALSE, {"Z", "S"})
             out == LowSum(start)
  <2>1. Clock(l)
    BY <1>1 DEF FirstLine, Microprogram
  <2>2. AluOutput(l) = out
    BY <1>0, <1>1 DEF AluOutput, MicroLine, RegisterByte, Half, Low, Upper, ALU, Bit, Are, LowSum, Augend, Addend, CarryIn
  <2> HIDE DEF out
  <2>3. /\ lo' = out.res /\ hi' = hi
        /\ Are(flags', flags.n, out.z, flags.v, flags.c)
        /\ s' = out.c
    BY <1>1, <2>1, <2>2 DEF Clock, Clocked, MicroLine, Are
  <2>4. QED
    BY <1>0, <1>1, <2>3 DEF out, Are, Adding, AtFirst, AtSecond
<1>2. CASE start.op = "SUB"
  <2> DEFINE l == MicroLine("lo", "ApnBp1", "S", FALSE, {"Z", "S"})
             out == LowSum(start)
  <2>1. Clock(l)
    BY <1>2 DEF FirstLine, Microprogram
  <2>2. AluOutput(l) = out
    BY <1>0, <1>2 DEF AluOutput, MicroLine, RegisterByte, Half, Low, Upper, ALU, Bit, Are, LowSum, Augend, Addend, CarryIn
  <2> HIDE DEF out
  <2>3. /\ lo' = out.res /\ hi' = hi
        /\ Are(flags', flags.n, out.z, flags.v, flags.c)
        /\ s' = out.c
    BY <1>2, <2>1, <2>2 DEF Clock, Clocked, MicroLine, Are
  <2>4. QED
    BY <1>0, <1>2, <2>3 DEF out, Are, Adding, AtFirst, AtSecond
<1>3. CASE start.op = "CPW"
  <2> DEFINE l == MicroLine("lo", "ApnBp1", "S", FALSE, {"Z", "S"})
             out == LowSum(start)
  <2>1. Clock(l)
    BY <1>3 DEF FirstLine, Microprogram
  <2>2. AluOutput(l) = out
    BY <1>0, <1>3 DEF AluOutput, MicroLine, RegisterByte, Half, Low, Upper, ALU, Bit, Are, LowSum, Augend, Addend, CarryIn
  <2> HIDE DEF out
  <2>3. /\ lo' = lo /\ hi' = hi
        /\ Are(flags', flags.n, out.z, flags.v, flags.c)
        /\ s' = out.c
    BY <1>3, <2>1, <2>2 DEF Clock, Clocked, MicroLine, Are
  <2>4. QED
    BY <1>0, <1>3, <2>3 DEF out, Are, Adding, AtFirst, AtSecond
<1>4. CASE start.op = "NEG"
  <2> DEFINE l == MicroLine("lo", "ApnBp1", "S", FALSE, {"Z", "S"})
             out == LowSum(start)
  <2>1. Clock(l)
    BY <1>4 DEF FirstLine, Microprogram
  <2>2. AluOutput(l) = out
    BY <1>0, <1>4 DEF AluOutput, MicroLine, RegisterByte, Half, Low, Upper, ALU, Bit, Are, LowSum, Augend, Addend, CarryIn
  <2> HIDE DEF out
  <2>3. /\ lo' = out.res /\ hi' = hi
        /\ Are(flags', flags.n, out.z, flags.v, flags.c)
        /\ s' = out.c
    BY <1>4, <2>1, <2>2 DEF Clock, Clocked, MicroLine, Are
  <2>4. QED
    BY <1>0, <1>4, <2>3 DEF out, Are, Adding, AtFirst, AtSecond
<1>5. CASE start.op = "NOT"
  <2> DEFINE l == MicroLine("lo", "nA", "S", FALSE, {"Z"})
             out == Logical(Not(Low(start.value), ByteValues))
  <2>1. Clock(l)
    BY <1>5 DEF FirstLine, Microprogram
  <2>2. AluOutput(l) = out
    BY <1>0, <1>5 DEF AluOutput, MicroLine, RegisterByte, Half, Low, Upper, ALU, Bit, Are
  <2> HIDE DEF out
  <2>3. /\ lo' = out.res /\ hi' = hi
        /\ Are(flags', flags.n, out.z, flags.v, flags.c)
        /\ s' = s
    BY <1>5, <2>1, <2>2 DEF Clock, Clocked, MicroLine, Are
  <2>4. QED
    BY <1>0, <1>5, <2>3 DEF out, Are, Adding, AtFirst, AtSecond, Logical
<1>6. CASE start.op = "ASL"
  <2> DEFINE l == MicroLine("lo", "ASLA", "S", FALSE, {"Z", "S"})
             out == LeftLow(start)
  <2>1. Clock(l)
    BY <1>6 DEF FirstLine, Microprogram
  <2>2. AluOutput(l) = out
    BY <1>0, <1>6 DEF AluOutput, MicroLine, RegisterByte, Half, Low, Upper, ALU, Bit, Are, LeftLow, ShiftIn
  <2> HIDE DEF out
  <2>3. /\ lo' = out.res /\ hi' = hi
        /\ Are(flags', flags.n, out.z, flags.v, flags.c)
        /\ s' = out.c
    BY <1>6, <2>1, <2>2 DEF Clock, Clocked, MicroLine, Are
  <2>4. QED
    BY <1>0, <1>6, <2>3 DEF out, Are, Adding, AtFirst, AtSecond
<1>7. CASE start.op = "ROL"
  <2> DEFINE l == MicroLine("lo", "ROLA", "C", FALSE, {"S"})
             out == LeftLow(start)
  <2>1. Clock(l)
    BY <1>7 DEF FirstLine, Microprogram
  <2>2. AluOutput(l) = out
    BY <1>0, <1>7 DEF AluOutput, MicroLine, RegisterByte, Half, Low, Upper, ALU, Bit, Are, LeftLow, ShiftIn
  <2> HIDE DEF out
  <2>3. /\ lo' = out.res /\ hi' = hi
        /\ Are(flags', flags.n, flags.z, flags.v, flags.c)
        /\ s' = out.c
    BY <1>7, <2>1, <2>2 DEF Clock, Clocked, MicroLine, Are
  <2>4. QED
    BY <1>0, <1>7, <2>3 DEF out, Are, Adding, AtFirst, AtSecond
<1>8. CASE start.op = "ASR"
  <2> DEFINE l == MicroLine("hi", "ASRA", "S", FALSE, {"N", "Z", "S"})
             out == RightHigh(start)
  <2>1. Clock(l)
    BY <1>8 DEF FirstLine, Microprogram
  <2>2. AluOutput(l) = out
    BY <1>0, <1>8 DEF AluOutput, MicroLine, RegisterByte, Half, Low, Upper, ALU, Bit, Are, RightHigh, ShiftIn
  <2> HIDE DEF out
  <2>3. /\ hi' = out.res /\ lo' = lo
        /\ Are(flags', out.n, out.z, flags.v, flags.c)
        /\ s' = out.c
    BY <1>8, <2>1, <2>2 DEF Clock, Clocked, MicroLine, Are
  <2>4. QED
    BY <1>0, <1>8, <2>3 DEF out, Are, Adding, AtFirst, AtSecond
<1>9. CASE start.op = "ROR"
  <2> DEFINE l == MicroLine("hi", "RORA", "C", FALSE, {"S"})
             out == RightHigh(start)
  <2>1. Clock(l)
    BY <1>9 DEF FirstLine, Microprogram
  <2>2. AluOutput(l) = out
    BY <1>0, <1>9 DEF AluOutput, MicroLine, RegisterByte, Half, Low, Upper, ALU, Bit, Are, RightHigh, ShiftIn
  <2> HIDE DEF out
  <2>3. /\ hi' = out.res /\ lo' = lo
        /\ Are(flags', flags.n, flags.z, flags.v, flags.c)
        /\ s' = out.c
    BY <1>9, <2>1, <2>2 DEF Clock, Clocked, MicroLine, Are
  <2>4. QED
    BY <1>0, <1>9, <2>3 DEF out, Are, Adding, AtFirst, AtSecond
<1>10. QED
  BY <1>1, <1>2, <1>3, <1>4, <1>5, <1>6, <1>7, <1>8, <1>9, Typed DEF Unary, Nonunary

LEMMA SecondLineLeaves ==
  ASSUME TypeOk, AtSecond(start, hi, lo, flags, s), SecondLine
  PROVE  AtEnd(start, hi', lo', flags', FALSE)
<1>0. /\ Low(0) = 0 /\ Upper(0) = 0
      /\ Upper(Not(start.operand, WordValues)) = Not(Upper(start.operand), ByteValues)
      /\ Upper(Not(start.value, WordValues)) = Not(Upper(start.value), ByteValues)
      /\ start.flags \in Flags /\ flags \in Flags /\ s \in BOOLEAN
      /\ AtSecond(start, hi, lo, flags, s)
  BY Typed, Complements, Zero DEF TypeOk
<1>1. CASE start.op = "ADD"
  <2> DEFINE l == MicroLine("hi", "ApBpCin", "S", TRUE, {"N", "Z", "V", "C"})
             out == HighSum(start)
  <2>0. /\ hi = Upper(start.value) /\ lo = LowSum(start).res
        /\ Are(flags, start.flags.n, LowSum(start).z, start.flags.v, start.flags.c)
        /\ s <=> LowSum(start).c
    BY <1>0, <1>1 DEF AtSecond, Adding
  <2>1. Clock(l)
    BY <1>1 DEF SecondLine, Microprogram, HighByte
  <2>2. AluOutput(l) = out
    BY <1>0, <1>1, <2>0 DEF AluOutput, MicroLine, RegisterByte, Half, Low, Upper, ALU, Bit, Are, HighSum, Augend, Addend
  <2> HIDE DEF out
  <2>3. /\ hi' = out.res /\ lo' = lo
        /\ Are(flags', out.n, out.z /\ flags.z, out.v, out.c)
        /\ s' = s
    BY <1>1, <2>1, <2>2 DEF Clock, Clocked, MicroLine, Are
  <2>4. QED
    BY <1>0, <2>0, <1>1, <2>3 DEF out, Are, Adding, AtEnd
<1>2. CASE start.op = "SUB"
  <2> DEFINE l == MicroLine("hi", "ApnBpCin", "S", TRUE, {"N", "Z", "V", "C"})
             out == HighSum(start)
  <2>0. /\ hi = Upper(start.value) /\ lo = LowSum(start).res
        /\ Are(flags, start.flags.n, LowSum(start).z, start.flags.v, start.flags.c)
        /\ s <=> LowSum(start).c
    BY <1>0, <1>2 DEF AtSecond, Adding
  <2>1. Clock(l)
    BY <1>2 DEF SecondLine, Microprogram, HighByte
  <2>2. AluOutput(l) = out
    BY <1>0, <1>2, <2>0 DEF AluOutput, MicroLine, RegisterByte, Half, Low, Upper, ALU, Bit, Are, HighSum, Augend, Addend
  <2> HIDE DEF out
  <2>3. /\ hi' = out.res /\ lo' = lo
        /\ Are(flags', out.n, out.z /\ flags.z, out.v, out.c)
        /\ s' = s
    BY <1>2, <2>1, <2>2 DEF Clock, Clocked, MicroLine, Are
  <2>4. QED
    BY <1>0, <2>0, <1>2, <2>3 DEF out, Are, Adding, AtEnd
<1>3. CASE start.op = "CPW"
  <2> DEFINE l == MicroLine("hi", "ApnBpCin", "S", TRUE, {"N", "Z", "V", "C"})
             out == HighSum(start)
  <2>0. /\ hi = Upper(start.value) /\ lo = Low(start.value)
        /\ Are(flags, start.flags.n, LowSum(start).z, start.flags.v, start.flags.c)
        /\ s <=> LowSum(start).c
    BY <1>0, <1>3 DEF AtSecond, Adding
  <2>1. Clock(l)
    BY <1>3 DEF SecondLine, Microprogram, HighByte
  <2>2. AluOutput(l) = out
    BY <1>0, <1>3, <2>0 DEF AluOutput, MicroLine, RegisterByte, Half, Low, Upper, ALU, Bit, Are, HighSum, Augend, Addend
  <2> HIDE DEF out
  <2>3. /\ hi' = hi /\ lo' = lo
        /\ Are(flags', out.n, out.z /\ flags.z, out.v, out.c)
        /\ s' = s
    BY <1>3, <2>1, <2>2 DEF Clock, Clocked, MicroLine, Are
  <2>4. QED
    BY <1>0, <2>0, <1>3, <2>3 DEF out, Are, Adding, AtEnd
<1>4. CASE start.op = "NEG"
  <2> DEFINE l == MicroLine("hi", "ApnBpCin", "S", TRUE, {"N", "Z", "V"})
             out == HighSum(start)
  <2>0. /\ hi = Upper(start.value) /\ lo = LowSum(start).res
        /\ Are(flags, start.flags.n, LowSum(start).z, start.flags.v, start.flags.c)
        /\ s <=> LowSum(start).c
    BY <1>0, <1>4 DEF AtSecond, Adding
  <2>1. Clock(l)
    BY <1>4 DEF SecondLine, Microprogram, HighByte
  <2>2. AluOutput(l) = out
    BY <1>0, <1>4, <2>0 DEF AluOutput, MicroLine, RegisterByte, Half, Low, Upper, ALU, Bit, Are, HighSum, Augend, Addend
  <2> HIDE DEF out
  <2>3. /\ hi' = out.res /\ lo' = lo
        /\ Are(flags', out.n, out.z /\ flags.z, out.v, flags.c)
        /\ s' = s
    BY <1>4, <2>1, <2>2 DEF Clock, Clocked, MicroLine, Are
  <2>4. QED
    BY <1>0, <2>0, <1>4, <2>3 DEF out, Are, Adding, AtEnd
<1>5. CASE start.op = "NOT"
  <2> DEFINE l == MicroLine("hi", "nA", "S", TRUE, {"N", "Z"})
             out == Logical(Not(Upper(start.value), ByteValues))
  <2>0. /\ hi = Upper(start.value) /\ lo = Not(Low(start.value), ByteValues)
        /\ Are(flags, start.flags.n, lo = 0, start.flags.v, start.flags.c)
    BY <1>0, <1>5 DEF AtSecond, Adding
  <2>1. Clock(l)
    BY <1>5 DEF SecondLine, Microprogram, HighByte
  <2>2. AluOutput(l) = out
    BY <1>0, <1>5, <2>0 DEF AluOutput, MicroLine, RegisterByte, Half, Low, Upper, ALU, Bit, Are
  <2> HIDE DEF out
  <2>3. /\ hi' = out.res /\ lo' = lo
        /\ Are(flags', out.n, out.z /\ flags.z, flags.v, flags.c)
        /\ s' = s
    BY <1>5, <2>1, <2>2 DEF Clock, Clocked, MicroLine, Are
  <2>4. QED
    BY <1>0, <2>0, <1>5, <2>3 DEF out, Are, Adding, AtEnd, Logical
<1>6. CASE start.op = "ASL"
  <2> DEFINE l == MicroLine("hi", "ROLA", "S", TRUE, {"N", "Z", "V", "C"})
             out == LeftHigh(start)
  <2>0. /\ hi = Upper(start.value) /\ lo = LeftLow(start).res
        /\ Are(flags, start.flags.n, LeftLow(start).z, start.flags.v, start.flags.c)
        /\ s <=> High(Low(start.value), ByteValues)
    BY <1>0, <1>6 DEF AtSecond, Adding
  <2>1. Clock(l)
    BY <1>6 DEF SecondLine, Microprogram, HighByte
  <2>2. AluOutput(l) = out
    BY <1>0, <1>6, <2>0 DEF AluOutput, MicroLine, RegisterByte, Half, Low, Upper, ALU, Bit, Are, LeftHigh
  <2> HIDE DEF out
  <2>3. /\ hi' = out.res /\ lo' = lo
        /\ Are(flags', out.n, out.z /\ flags.z, out.v, out.c)
        /\ s' = s
    BY <1>6, <2>1, <2>2 DEF Clock, Clocked, MicroLine, Are
  <2>4. QED
    BY <1>0, <2>0, <1>6, <2>3 DEF out, Are, Adding, AtEnd
<1>7. CASE start.op = "ROL"
  <2> DEFINE l == MicroLine("hi", "ROLA", "S", TRUE, {"C"})
             out == LeftHigh(start)
  <2>0. /\ hi = Upper(start.value) /\ lo = LeftLow(start).res
        /\ Are(flags, start.flags.n, start.flags.z, start.flags.v, start.flags.c)
        /\ s <=> High(Low(start.value), ByteValues)
    BY <1>0, <1>7 DEF AtSecond, Adding
  <2>1. Clock(l)
    BY <1>7 DEF SecondLine, Microprogram, HighByte
  <2>2. AluOutput(l) = out
    BY <1>0, <1>7, <2>0 DEF AluOutput, MicroLine, RegisterByte, Half, Low, Upper, ALU, Bit, Are, LeftHigh
  <2> HIDE DEF out
  <2>3. /\ hi' = out.res /\ lo' = lo
        /\ Are(flags', flags.n, flags.z, flags.v, out.c)
        /\ s' = s
    BY <1>7, <2>1, <2>2 DEF Clock, Clocked, MicroLine, Are
  <2>4. QED
    BY <1>0, <2>0, <1>7, <2>3 DEF out, Are, Adding, AtEnd
<1>8. CASE start.op = "ASR"
  <2> DEFINE l == MicroLine("lo", "RORA", "S", TRUE, {"Z", "C"})
             out == RightLow(start)
  <2>0. /\ hi = RightHigh(start).res /\ lo = Low(start.value)
        /\ Are(flags, RightHigh(start).n, RightHigh(start).z, start.flags.v, start.flags.c)
        /\ s <=> Upper(start.value) % 2 = 1
    BY <1>0, <1>8 DEF AtSecond, Adding
  <2>1. Clock(l)
    BY <1>8 DEF SecondLine, Microprogram, HighByte
  <2>2. AluOutput(l) = out
    BY <1>0, <1>8, <2>0 DEF AluOutput, MicroLine, RegisterByte, Half, Low, Upper, ALU, Bit, Are, RightLow
  <2> HIDE DEF out
  <2>3. /\ lo' = out.res /\ hi' = hi
        /\ Are(flags', flags.n, out.z /\ flags.z, flags.v, out.c)
        /\ s' = s
    BY <1>8, <2>1, <2>2 DEF Clock, Clocked, MicroLine, Are
  <2>4. QED
    BY <1>0, <2>0, <1>8, <2>3 DEF out, Are, Adding, AtEnd
<1>9. CASE start.op = "ROR"
  <2> DEFINE l == MicroLine("lo", "RORA", "S", FALSE, {"C"})
             out == RightLow(start)
  <2>0. /\ hi = RightHigh(start).res /\ lo = Low(start.value)
        /\ Are(flags, start.flags.n, start.flags.z, start.flags.v, start.flags.c)
        /\ s <=> Upper(start.value) % 2 = 1
    BY <1>0, <1>9 DEF AtSecond, Adding
  <2>1. Clock(l)
    BY <1>9 DEF SecondLine, Microprogram, HighByte
  <2>2. AluOutput(l) = out
    BY <1>0, <1>9, <2>0 DEF AluOutput, MicroLine, RegisterByte, Half, Low, Upper, ALU, Bit, Are, RightLow
  <2> HIDE DEF out
  <2>3. /\ lo' = out.res /\ hi' = hi
        /\ Are(flags', flags.n, flags.z, flags.v, out.c)
        /\ s' = s
    BY <1>9, <2>1, <2>2 DEF Clock, Clocked, MicroLine, Are
  <2>4. QED
    BY <1>0, <2>0, <1>9, <2>3 DEF out, Are, Adding, AtEnd
<1>10. QED
  BY <1>1, <1>2, <1>3, <1>4, <1>5, <1>6, <1>7, <1>8, <1>9, Typed DEF Unary, Nonunary

\* The lines that invert N leave what the comparison needs; without an
\* overflow there is nothing to invert.
LEMMA NothingToFix ==
  ASSUME NEW i, NEW h, NEW l, NEW f, AtEnd(i, h, l, f, FALSE),
         ~(i.op = "CPW" /\ f.v), HighSum(i).n \in BOOLEAN, HighSum(i).v \in BOOLEAN
  PROVE  AtEnd(i, h, l, f, TRUE)
<1>1. i.op # "CPW" \/ ~HighSum(i).v
  BY DEF AtEnd, Adding, Are
<1>2. CASE i.op # "CPW"
  BY <1>2 DEF AtEnd, Are
<1>3. CASE i.op = "CPW"
  BY <1>1, <1>3 DEF AtEnd, Are, Adding
<1>4. QED
  BY <1>2, <1>3

LEMMA HighSumBoolean ==
  ASSUME NEW i
  PROVE  HighSum(i).n \in BOOLEAN /\ HighSum(i).v \in BOOLEAN
  BY DEF HighSum, Sum, High, Overflow

LEMMA BytesInit == Init => BytesInv
<1> SUFFICES ASSUME Init PROVE BytesInv
  OBVIOUS
<1>1. /\ start \in [op : Op, reg : {"A", "X"}, value : Word, other : Others,
                    operand : Word, flags : Flags]
      /\ hi = Upper(start.value) /\ lo = Low(start.value)
      /\ flags = start.flags /\ s = FALSE /\ line = "first"
  BY DEF Init, Upper, Low
<1>2. start \in [op : Op, reg : {"A", "X"}, value : Word, other : Word,
                 operand : Word, flags : Flags]
  BY <1>1, ArithmeticAssumption
<1>3. hi \in Byte /\ lo \in Byte /\ flags \in Flags
  BY <1>1, Parts
<1>4. TypeOk
  BY <1>1, <1>2, <1>3 DEF TypeOk, Line
<1>5. AtFirst(start, hi, lo, flags, s)
  BY <1>1 DEF AtFirst, Are
<1>6. QED
  BY <1>1, <1>4, <1>5 DEF BytesInv

LEMMA BytesStep == BytesInv /\ [Next]_vars => BytesInv'
<1> SUFFICES ASSUME BytesInv, [Next]_vars PROVE BytesInv'
  OBVIOUS
<1>1. TypeOk /\ start.op \in Unary \cup Nonunary
  BY Typed DEF BytesInv
<1>2. CASE FirstLine
  <2>1. AtSecond(start, hi', lo', flags', s')
    BY <1>1, <1>2, FirstLineLeaves DEF BytesInv, FirstLine
  <2>2. Microprogram(start.op)[1] \in Lines /\ Clock(Microprogram(start.op)[1])
    BY <1>1, <1>2, ProgramTyped DEF FirstLine
  <2>3. start' = start /\ hi' \in Byte /\ lo' \in Byte /\ flags' \in Flags /\ s' \in BOOLEAN
    BY <1>1, <2>2, ClockTyped
  <2>4. line' = "second"
    BY <1>2 DEF FirstLine
  <2>5. TypeOk'
    BY <1>1, <2>3, <2>4 DEF TypeOk, Line
  <2>6. QED
    BY <2>1, <2>3, <2>4, <2>5 DEF BytesInv
<1>3. CASE SecondLine
  <2>1. AtEnd(start, hi', lo', flags', FALSE)
    BY <1>1, <1>3, SecondLineLeaves DEF BytesInv, SecondLine
  <2>2. Microprogram(start.op)[2] \in Lines /\ Clock(Microprogram(start.op)[2])
    BY <1>1, <1>3, ProgramTyped DEF SecondLine
  <2>3. start' = start /\ hi' \in Byte /\ lo' \in Byte /\ flags' \in Flags /\ s' \in BOOLEAN
    BY <1>1, <2>2, ClockTyped
  <2>4. line' = IF start.op = "CPW" /\ flags'.v THEN "cpw_n_fix" ELSE "done"
    BY <1>3 DEF SecondLine
  <2>5. TypeOk'
    BY <1>1, <2>3, <2>4 DEF TypeOk, Line
  <2>6. CASE start.op = "CPW" /\ flags'.v
    <3>1. HighSum(start).v
      BY <2>1, <2>6 DEF AtEnd, Adding, Are
    <3>2. line' = "cpw_n_fix" /\ (line' = "done") = FALSE
      BY <2>4, <2>6
    <3>3. QED
      BY <2>1, <2>3, <2>5, <2>6, <3>1, <3>2 DEF BytesInv
  <2>7. CASE ~(start.op = "CPW" /\ flags'.v)
    <3>1. line' = "done" /\ (line' = "done") = TRUE
      BY <2>4, <2>7
    <3>2. AtEnd(start, hi', lo', flags', TRUE)
      BY <2>1, <2>7, NothingToFix, HighSumBoolean
    <3>3. QED
      BY <2>3, <2>5, <3>1, <3>2 DEF BytesInv
  <2>8. QED
    BY <2>6, <2>7
<1>4. CASE CpwNFix
  <2>1. /\ line = "cpw_n_fix" /\ line' = "done"
        /\ flags' = [flags EXCEPT !.n = ~flags.n]
        /\ start' = start /\ hi' = hi /\ lo' = lo /\ s' = s
    BY <1>4 DEF CpwNFix
  <2>2. AtEnd(start, hi, lo, flags, FALSE) /\ start.op = "CPW" /\ HighSum(start).v
    <3>1. (line = "done") = FALSE
      BY <2>1
    <3>2. QED
      BY <2>1, <3>1 DEF BytesInv
  <2>3. flags' \in Flags /\ TypeOk'
    BY <1>1, <2>1 DEF TypeOk, Line, Flags
  <2>4. Are(flags', ~flags.n, flags.z, flags.v, flags.c)
    BY <1>1, <2>1 DEF TypeOk, Flags, Are
  <2>5. AtEnd(start, hi', lo', flags', TRUE)
    BY <2>1, <2>2, <2>4, HighSumBoolean DEF AtEnd, Are, Adding
  <2>6. (line' = "done") = TRUE
    BY <2>1
  <2>7. QED
    BY <2>1, <2>3, <2>5, <2>6 DEF BytesInv
<1>5. CASE UNCHANGED vars
  BY <1>5 DEF BytesInv, TypeOk, vars
<1>6. QED
  BY <1>2, <1>3, <1>4, <1>5 DEF Next

\* BytesInv: the register and the flags are at each line what the instruction
\* alone determines, the status bit S the carry between the bytes.
THEOREM BytesAreDetermined == Spec => []BytesInv
  BY BytesInit, BytesStep, PTL DEF Spec

\* TypeOk: the register stays two bytes and the status bits stay booleans,
\* whatever ALU function a line selects.
THEOREM TypeCorrect == Spec => []TypeOk
<1>1. BytesInv => TypeOk
  BY DEF BytesInv
<1>2. QED
  BY <1>1, BytesAreDetermined, PTL

-----------------------------------------------------------------------------
(* The two CPUs compared.                                                  *)

\* Negating the operand and adding is adding the complement and one.
LEMMA Negation ==
  ASSUME NEW a \in Word, NEW b \in Word
  PROVE  /\ Not(b, WordValues) \in Word /\ Negated(b) \in Word
         /\ Negated(b) = IF b = 0 THEN 0 ELSE WordValues - b
         /\ Negated(b) = (0 + Not(b, WordValues) + 1) % WordValues
         /\ (a + Not(b, WordValues) + 1) % WordValues = (a + Negated(b) + 0) % WordValues
         /\ (a + Not(b, WordValues) + 1) % WordValues = IF a >= b THEN a - b ELSE a - b + WordValues
<1> DEFINE W == WordValues
           n == Not(b, W)
<1>1. W \in Nat \ {0} /\ a \in 0..W - 1 /\ b \in 0..W - 1
  BY Sizes DEF Word
<1>2. n = W - 1 - b /\ n \in 0..W - 1
  BY <1>1 DEF Not
<1>3. Negated(b) = (n + 1) % W /\ n + 1 = 0 + n + 1
  BY <1>2 DEF Negated
<1> HIDE DEF n
<1>4. \A x, y \in 0..W - 1 : \A c \in {0, 1} :
         (x + y + c) % W = IF x + y + c >= W THEN x + y + c - W ELSE x + y + c
  <2> HIDE DEF W
  <2>1. QED
    BY <1>1, WrapsOnce
<1> DEFINE neg == Negated(b)
<1> HIDE DEF W, neg
<1>5. (0 + n + 1) % W = IF 0 + n + 1 >= W THEN 0 + n + 1 - W ELSE 0 + n + 1
  <2>1. 0 \in 0..W - 1 /\ 1 \in {0, 1}
    BY <1>1
  <2>2. QED
    BY <1>2, <1>4, <2>1
<1>6. neg = IF b = 0 THEN 0 ELSE W - b
  BY <1>1, <1>2, <1>3, <1>5 DEF neg
<1>7. neg \in 0..W - 1
  BY <1>1, <1>6
<1>8. (a + n + 1) % W = IF a >= b THEN a - b ELSE a - b + W
  <2>1. (a + n + 1) % W = IF a + n + 1 >= W THEN a + n + 1 - W ELSE a + n + 1
    BY <1>1, <1>2, <1>4
  <2>2. QED
    BY <1>1, <1>2, <2>1
<1>9. (a + neg + 0) % W = IF a >= b THEN a - b ELSE a - b + W
  <2>1. (a + neg + 0) % W = IF a + neg + 0 >= W THEN a + neg + 0 - W ELSE a + neg + 0
    BY <1>1, <1>4, <1>7
  <2>2. QED
    BY <1>1, <1>6, <2>1
<1>10. QED
  BY <1>1, <1>2, <1>3, <1>6, <1>7, <1>8, <1>9 DEF Word, n, W, neg

\* The microprogram's two sums are the sum of words, unless it loses the carry
\* between the bytes.
LEMMA SumOfInstruction ==
  ASSUME TypeOk, start.op \in Adding, ~LowCarryLost
  PROVE  LET i == start
             w == (Augend(i) + Addend(i) + CarryIn(i)) % WordValues
         IN  /\ Augend(i) \in Word /\ Addend(i) \in Word /\ CarryIn(i) \in {0, 1}
             /\ w \in Word
             /\ HighSum(i).res * ByteValues + LowSum(i).res = w
             /\ HighSum(i).n <=> High(w, WordValues)
             /\ HighSum(i).z /\ LowSum(i).z <=> w = 0
             /\ HighSum(i).v <=> Overflow(w, Augend(i), Addend(i), WordValues)
             /\ HighSum(i).c <=>
                    /\ Augend(i) + Addend(i) + CarryIn(i) >= WordValues
                    /\ ~(/\ Upper(Augend(i)) = ByteValues - 1
                         /\ Upper(Addend(i)) = ByteValues - 1 /\ LowSum(i).c)
<1> DEFINE i == start
           a == Augend(i)
           b == Addend(i)
           cin == CarryIn(i)
<1>1. a \in Word /\ b \in Word /\ cin \in {0, 1}
  BY Typed, Zero, Complements DEF Augend, Addend, CarryIn
<1>2. ~(Low(a) = ByteValues - 1 /\ Low(b) = ByteValues - 1 /\ cin = 1)
  <2>1. CASE i.op = "ADD"
    BY <2>1 DEF CarryIn
  <2>2. CASE i.op = "NEG"
    <3>1. Low(a) = 0
      BY <2>2, Zero DEF Augend
    <3>2. QED
      BY <3>1, Sizes
  <2>3. CASE i.op = "SUB" \/ i.op = "CPW"
    <3>1. a = i.value /\ b = Not(i.operand, WordValues)
      BY <2>3 DEF Augend, Addend
    <3>2. Low(b) = ByteValues - 1 - Low(i.operand) /\ Low(i.operand) \in 0..ByteValues - 1
      BY <3>1, Typed, Complements DEF Not, Byte
    <3>3. Low(b) = ByteValues - 1 => Low(i.operand) = 0
      BY <3>2, Sizes
    <3>4. QED
      BY <2>3, <3>1, <3>3 DEF LowCarryLost, Subtracts
  <2>4. QED
    BY <2>1, <2>2, <2>3 DEF Adding
<1>3. LowSum(i) = Sum(Low(a), Low(b), cin, ByteValues)
  BY DEF LowSum
<1>4. HighSum(i) = Sum(Upper(a), Upper(b), Bit(LowSum(i).c), ByteValues)
  BY DEF HighSum
<1> HIDE DEF a, b, cin
<1>5. QED
  BY <1>1, <1>2, <1>3, <1>4, SumOfWords DEF a, b, cin

\* At the end of the microprogram.
LEMMA AtTheEnd ==
  ASSUME BytesInv, Done
  PROVE  /\ TypeOk /\ start.op \in Unary \cup Nonunary
         /\ AtEnd(start, hi, lo, flags, TRUE)
<1>1. (line = "done") = TRUE
  BY DEF Done
<1>2. QED
  BY <1>1, Typed DEF BytesInv

LEMMA SameRegister == BytesInv => RegistersAgree
<1> SUFFICES ASSUME BytesInv, Done, ~LowCarryLost, ~(start.op = "ROL" /\ start.reg = "X")
             PROVE  Register = Executed(start).value
  BY DEF RegistersAgree
<1> DEFINE i == start
           a == start.value
<1>1. TypeOk /\ i.op \in Unary \cup Nonunary /\ AtEnd(i, hi, lo, flags, TRUE)
  BY AtTheEnd
<1>2. /\ a \in Word /\ i.operand \in Word /\ a \in Nat
      /\ a = Upper(a) * ByteValues + Low(a)
  BY <1>1, Typed, Parts DEF Word
<1>3. CASE i.op = "ADD"
  <2>1. Register = (a + i.operand + 0) % WordValues
    BY <1>1, <1>3, SumOfInstruction DEF AtEnd, Adding, Register, Augend, Addend, CarryIn
  <2>2. Executed(i).value = (a + i.operand + 0) % WordValues
    BY <1>3 DEF Executed, Sum
  <2>3. QED
    BY <2>1, <2>2
<1>4. CASE i.op = "SUB"
  <2>1. Register = (a + Not(i.operand, WordValues) + 1) % WordValues
    BY <1>1, <1>4, SumOfInstruction DEF AtEnd, Adding, Register, Augend, Addend, CarryIn
  <2>2. Executed(i).value = (a + Negated(i.operand) + 0) % WordValues
    BY <1>4 DEF Executed, Sum
  <2>3. QED
    BY <1>2, <2>1, <2>2, Negation
<1>5. CASE i.op = "CPW"
  <2>1. Register = a
    BY <1>1, <1>2, <1>5 DEF AtEnd, Adding, Register
  <2>2. QED
    BY <1>5, <2>1 DEF Executed
<1>6. CASE i.op = "NEG"
  <2>1. Register = (0 + Not(a, WordValues) + 1) % WordValues
    BY <1>1, <1>6, SumOfInstruction DEF AtEnd, Adding, Register, Augend, Addend, CarryIn
  <2>2. Executed(i).value = Negated(a)
    BY <1>6 DEF Executed
  <2>3. QED
    BY <1>2, <2>1, <2>2, Negation
<1>7. CASE i.op = "NOT"
  <2>1. hi = Upper(Not(a, WordValues)) /\ lo = Low(Not(a, WordValues)) /\ Not(a, WordValues) \in Word
    BY <1>1, <1>2, <1>7, Complements DEF AtEnd
  <2>2. Register = Not(a, WordValues)
    BY <2>1, Parts DEF Register
  <2>3. QED
    BY <1>7, <2>2 DEF Executed
<1>8. CASE i.op \in {"ASL", "ROL"}
  <2> DEFINE bit == ShiftIn(i)
  <2>1. bit \in {0, 1}
    BY <1>8 DEF ShiftIn, Bit
  <2>2. hi = ShiftLeft(Upper(a), Bit(High(Low(a), ByteValues))).res /\ lo = ShiftLeft(Low(a), bit).res
    BY <1>1, <1>8 DEF AtEnd, LeftHigh, LeftLow
  <2> HIDE DEF bit
  <2>3. hi * ByteValues + lo = (2 * a + bit) % WordValues
    BY <1>2, <2>1, <2>2, LeftShiftOfWords
  <2>4. Executed(i).value = (2 * a + bit) % WordValues
    <3>1. CASE i.op = "ASL"
      <4>1. Executed(i).value = (2 * a) % WordValues /\ bit = 0 /\ 2 * a + 0 = 2 * a
        BY <1>2, <3>1 DEF Executed, bit, ShiftIn
      <4>2. QED
        BY <4>1
    <3>2. CASE i.op = "ROL"
      BY <3>2 DEF Executed, RolSource, bit, ShiftIn
    <3>3. QED
      BY <1>8, <3>1, <3>2
  <2>5. QED
    BY <2>3, <2>4 DEF Register
<1>9. CASE i.op \in {"ASR", "ROR"}
  <2> DEFINE bit == ShiftIn(i)
  <2>1. bit \in {0, 1}
    BY <1>9 DEF ShiftIn, Bit
  <2>2. hi = ShiftRight(Upper(a), bit).res /\ lo = ShiftRight(Low(a), Bit(Upper(a) % 2 = 1)).res
    BY <1>1, <1>9 DEF AtEnd, RightHigh, RightLow
  <2> HIDE DEF bit
  <2>3. hi * ByteValues + lo = a \div 2 + bit * (WordValues \div 2)
    BY <1>2, <2>1, <2>2, RightShiftOfWords
  <2>4. Executed(i).value = a \div 2 + bit * (WordValues \div 2)
    <3>1. CASE i.op = "ASR"
      <4>1. bit = Bit(High(a, WordValues))
        BY <1>2, <3>1, WordFlags DEF bit, ShiftIn, Bit
      <4>2. QED
        BY <3>1, <4>1 DEF Executed
    <3>2. CASE i.op = "ROR"
      BY <3>2 DEF Executed, bit, ShiftIn
    <3>3. QED
      BY <1>9, <3>1, <3>2
  <2>5. QED
    BY <2>3, <2>4 DEF Register
<1>10. QED
  BY <1>1, <1>3, <1>4, <1>5, <1>6, <1>7, <1>8, <1>9 DEF Unary, Nonunary

\* The flags that two sums to the same word have in common.
LEMMA IsaSum ==
  ASSUME NEW a \in Word, NEW b \in Word
  PROVE  LET sum == Sum(a, b, 0, WordValues)
             w == (a + b + 0) % WordValues
         IN  /\ sum.res = w
             /\ sum.n <=> High(w, WordValues)
             /\ sum.z <=> w = 0
             /\ sum.v <=> Overflow(w, a, b, WordValues)
             /\ sum.c <=> a + b + 0 >= WordValues
             /\ sum.n \in BOOLEAN /\ sum.z \in BOOLEAN /\ sum.v \in BOOLEAN /\ sum.c \in BOOLEAN
<1>1. WordValues \in Nat \ {0} /\ a \in 0..WordValues - 1 /\ b \in 0..WordValues - 1
  BY Sizes DEF Word
<1>2. Sum(a, b, 0, WordValues).c <=> a + b + 0 >= WordValues
  BY <1>1, CarryOutIsExact
<1>3. QED
  BY <1>1, <1>2, SumTyped DEF Sum, Overflow, High

\* Negating the operand of a subtraction turns the overflow around for one
\* operand only, and loses the carry for one.
LEMMA OverflowOfNegation ==
  ASSUME NEW a \in Word, NEW b \in Word, NEW w, w = (a + Not(b, WordValues) + 1) % WordValues
  PROVE  /\ 2 * b # WordValues =>
               (Overflow(w, a, Not(b, WordValues), WordValues)
                  <=> Overflow(w, a, Negated(b), WordValues))
         /\ b # 0 => (a + Not(b, WordValues) + 1 >= WordValues
                        <=> a + Negated(b) + 0 >= WordValues)
<1>1. PICK h \in Nat \ {0} : WordValues = 2 * h
  <2>1. PICK k \in Nat \ {0} : ByteValues = 2 * k /\ WordValues = 2 * (k * ByteValues)
    BY Sizes
  <2>2. k * ByteValues \in Nat \ {0}
    BY <2>1, Sizes
  <2>3. QED
    BY <2>1, <2>2
<1> DEFINE n == Not(b, WordValues)
           neg == Negated(b)
<1>2. /\ a \in 0..2 * h - 1 /\ b \in 0..2 * h - 1
      /\ n = 2 * h - 1 - b /\ neg = IF b = 0 THEN 0 ELSE 2 * h - b
      /\ w = IF a >= b THEN a - b ELSE a - b + 2 * h
  BY <1>1, Negation DEF Not, Word
<1> HIDE DEF n, neg
<1>3. 2 * b # WordValues => (Overflow(w, a, n, WordValues) <=> Overflow(w, a, neg, WordValues))
  BY <1>1, <1>2 DEF Overflow, High
<1>4. b # 0 => (a + n + 1 >= WordValues <=> a + neg + 0 >= WordValues)
  BY <1>1, <1>2
<1>5. QED
  BY <1>3, <1>4 DEF n, neg

\* V of NEG: only the least number has no negative.
LEMMA OverflowOfNeg ==
  ASSUME NEW b \in Word
  PROVE  Overflow(Negated(b), 0, Not(b, WordValues), WordValues)
            <=> Negated(b) = WordValues \div 2
<1>1. PICK h \in Nat \ {0} : WordValues = 2 * h /\ WordValues \div 2 = h
  <2>1. PICK k \in Nat \ {0} : /\ ByteValues = 2 * k /\ WordValues = 2 * (k * ByteValues)
                               /\ WordValues \div 2 = k * ByteValues
    BY Sizes
  <2>2. k * ByteValues \in Nat \ {0}
    BY <2>1, Sizes
  <2>3. QED
    BY <2>1, <2>2
<1> DEFINE n == Not(b, WordValues)
           neg == Negated(b)
<1>2. /\ b \in 0..2 * h - 1
      /\ n = 2 * h - 1 - b /\ neg = IF b = 0 THEN 0 ELSE 2 * h - b
  BY <1>1, Negation DEF Not, Word
<1> HIDE DEF n, neg
<1>3. Overflow(neg, 0, n, WordValues) <=> neg = h
  BY <1>1, <1>2 DEF Overflow, High
<1>4. QED
  BY <1>1, <1>3 DEF n, neg

\* The carry between the bytes of a sum.
LEMMA LowCarry ==
  ASSUME TypeOk, start.op \in {"ADD", "SUB", "CPW"}, ~LowCarryLost
  PROVE  LowSum(start).c <=>
           IF start.op = "ADD" THEN Low(start.value) + Low(start.operand) >= ByteValues
           ELSE Low(start.value) >= Low(start.operand)
<1> DEFINE a == Low(start.value)
           b == Low(start.operand)
<1>1. ByteValues \in Nat \ {0} /\ a \in 0..ByteValues - 1 /\ b \in 0..ByteValues - 1
  BY Typed, Sizes DEF Byte
<1>2. CASE start.op = "ADD"
  <2>1. LowSum(start) = Sum(a, b, 0, ByteValues)
    BY <1>2 DEF LowSum, Augend, Addend, CarryIn
  <2> HIDE DEF a, b
  <2>2. Sum(a, b, 0, ByteValues).c <=> a + b + 0 >= ByteValues
    BY <1>1, CarryOutIsExact
  <2>3. QED
    BY <1>1, <1>2, <2>1, <2>2 DEF a, b
<1>3. CASE start.op \in {"SUB", "CPW"}
  <2> DEFINE n == ByteValues - 1 - b
  <2>1. LowSum(start) = Sum(a, n, 1, ByteValues)
    <3>1. Low(Not(start.operand, WordValues)) = n
      BY Typed, Complements DEF Not
    <3>2. QED
      BY <1>3, <3>1 DEF LowSum, Augend, Addend, CarryIn
  <2>2. n \in 0..ByteValues - 1 /\ ~(a = ByteValues - 1 /\ n = ByteValues - 1)
    BY <1>1, <1>3 DEF LowCarryLost, Subtracts
  <2> HIDE DEF a, b, n
  <2>3. Sum(a, n, 1, ByteValues).c <=> a + n + 1 >= ByteValues
    BY <1>1, <2>2, CarryOutIsExact
  <2>4. a + n + 1 >= ByteValues <=> a >= b
    BY <1>1 DEF n
  <2>5. QED
    BY <1>3, <2>1, <2>3, <2>4 DEF a, b
<1>4. QED
  BY <1>2, <1>3

\* C of the microprogram is the carry out of the sum of words, unless the
\* comparison misses it in the high bytes.
LEMMA HighCarry ==
  ASSUME TypeOk, start.op \in {"ADD", "SUB", "CPW"}, ~LowCarryLost, ~HighCarryLost
  PROVE  HighSum(start).c <=> Augend(start) + Addend(start) + CarryIn(start) >= WordValues
<1> DEFINE a == start.value
           b == start.operand
<1>1. /\ Augend(start) = a
      /\ Addend(start) = IF start.op = "ADD" THEN b ELSE Not(b, WordValues)
  BY DEF Augend, Addend
<1>2. LowSum(start).c <=> IF start.op = "ADD" THEN Low(a) + Low(b) >= ByteValues ELSE Low(a) >= Low(b)
  BY LowCarry
<1>3. /\ Upper(Not(b, WordValues)) = ByteValues - 1 - Upper(b)
      /\ Upper(b) \in 0..ByteValues - 1 /\ ByteValues \in Nat
  BY Typed, Complements, Sizes DEF Not, Byte
<1>4. ~(/\ Upper(Augend(start)) = ByteValues - 1
        /\ Upper(Addend(start)) = ByteValues - 1 /\ LowSum(start).c)
  <2>1. CASE start.op = "ADD"
    BY <1>1, <1>2, <2>1 DEF HighCarryLost
  <2>2. CASE start.op \in {"SUB", "CPW"}
    <3>1. Upper(Not(b, WordValues)) = ByteValues - 1 => Upper(b) = 0
      BY <1>3
    <3>2. QED
      BY <1>1, <1>2, <2>2, <3>1 DEF HighCarryLost, Subtracts
  <2>3. QED
    BY <2>1, <2>2
<1>5. QED
  BY <1>4, SumOfInstruction DEF Adding

\* The flags after each instruction on one CPU and on the other.
LEMMA FlagsOfAddition ==
  ASSUME TypeOk, AtEnd(start, hi, lo, flags, TRUE), start.op = "ADD", ~LowCarryLost
  PROVE  LET isa == Executed(start).flags
         IN  /\ (flags.n <=> isa.n) /\ (flags.z <=> isa.z) /\ (flags.v <=> isa.v)
             /\ HighCarryLost \/ (flags.c <=> isa.c)
<1> DEFINE sum == Sum(start.value, start.operand, 0, WordValues)
<1>1. /\ Augend(start) = start.value /\ Addend(start) = start.operand /\ CarryIn(start) = 0
      /\ start.value \in Word /\ start.operand \in Word
  BY Typed DEF Augend, Addend, CarryIn
<1>2. LET isa == Executed(start).flags
      IN  isa.n = sum.n /\ isa.z = sum.z /\ isa.v = sum.v /\ isa.c = sum.c
  BY DEF Executed, AllFlags
<1>3. Are(flags, HighSum(start).n, HighSum(start).z /\ LowSum(start).z, HighSum(start).v, HighSum(start).c)
  BY DEF AtEnd, Adding
<1>4. /\ HighSum(start).n <=> sum.n
      /\ HighSum(start).z /\ LowSum(start).z <=> sum.z
      /\ HighSum(start).v <=> sum.v
      /\ HighCarryLost \/ (HighSum(start).c <=> sum.c)
  BY <1>1, SumOfInstruction, HighCarry, IsaSum DEF Adding
<1> HIDE DEF sum
<1>5. QED
  BY <1>2, <1>3, <1>4 DEF Are

LEMMA FlagsOfSubtraction ==
  ASSUME TypeOk, AtEnd(start, hi, lo, flags, TRUE), start.op \in {"SUB", "CPW"}, ~LowCarryLost
  PROVE  LET isa == Executed(start).flags
         IN  /\ flags.z <=> isa.z
             /\ NegationTurnsSign \/ ((flags.n <=> isa.n) /\ (flags.v <=> isa.v))
             /\ \/ HighCarryLost \/ NegationLosesCarry
                \/ start.op = "CPW" /\ start.reg = "X"
                \/ (flags.c <=> isa.c)
<1> DEFINE a == start.value
           b == start.operand
           sum == Sum(a, Negated(b), 0, WordValues)
           w == (a + Not(b, WordValues) + 1) % WordValues
<1>1. /\ Augend(start) = a /\ Addend(start) = Not(b, WordValues) /\ CarryIn(start) = 1
      /\ a \in Word /\ b \in Word
  BY Typed DEF Augend, Addend, CarryIn
<1>2. /\ Negated(b) \in Word /\ w = (a + Negated(b) + 0) % WordValues
  BY <1>1, Negation
<1>3. /\ HighSum(start).n <=> High(w, WordValues)
      /\ HighSum(start).z /\ LowSum(start).z <=> w = 0
      /\ HighSum(start).v <=> Overflow(w, a, Not(b, WordValues), WordValues)
      /\ HighCarryLost \/ (HighSum(start).c <=> a + Not(b, WordValues) + 1 >= WordValues)
  BY <1>1, SumOfInstruction, HighCarry DEF Adding
<1>4. /\ sum.n <=> High(w, WordValues)
      /\ sum.z <=> w = 0
      /\ sum.v <=> Overflow(w, a, Negated(b), WordValues)
      /\ sum.c <=> a + Negated(b) + 0 >= WordValues
      /\ sum.n \in BOOLEAN /\ sum.v \in BOOLEAN
  BY <1>1, <1>2, IsaSum
<1>5. /\ NegationTurnsSign \/ (HighSum(start).v <=> sum.v)
      /\ HighCarryLost \/ NegationLosesCarry \/ (HighSum(start).c <=> sum.c)
  BY <1>1, <1>3, <1>4, OverflowOfNegation DEF NegationTurnsSign, NegationLosesCarry, Subtracts
<1>6. /\ HighSum(start).n <=> sum.n
      /\ HighSum(start).z /\ LowSum(start).z <=> sum.z
  BY <1>3, <1>4
<1>7. HighSum(start).n \in BOOLEAN /\ HighSum(start).v \in BOOLEAN
  BY HighSumBoolean
<1>8. CASE start.op = "SUB"
  <2>1. LET isa == Executed(start).flags
        IN  isa.n = sum.n /\ isa.z = sum.z /\ isa.v = sum.v /\ isa.c = sum.c
    BY <1>8 DEF Executed, AllFlags
  <2>2. Are(flags, HighSum(start).n, HighSum(start).z /\ LowSum(start).z, HighSum(start).v,
            HighSum(start).c)
    BY <1>8 DEF AtEnd, Adding
  <2> HIDE DEF sum
  <2>3. QED
    BY <1>5, <1>6, <2>1, <2>2 DEF Are
<1>9. CASE start.op = "CPW"
  <2>1. LET isa == Executed(start).flags
        IN  /\ isa.n <=> sum.n # sum.v
            /\ isa.z = sum.z /\ isa.v = sum.v
            /\ start.reg = "X" \/ isa.c = sum.c
    <3>1. Executed(start).flags = [AllFlags(sum) EXCEPT !.n = sum.n # sum.v,
                                                        !.c = CpwCarry(start, sum.res)]
      BY <1>9 DEF Executed
    <3>2. sum.c = CarryOut(sum.res, a, Negated(b))
      BY DEF Sum
    <3> HIDE DEF sum
    <3>3. start.reg = "X" \/ CpwCarry(start, sum.res) = sum.c
      BY <3>2 DEF CpwCarry
    <3>4. QED
      BY <3>1, <3>3 DEF AllFlags
  <2>2. Are(flags, HighSum(start).n # HighSum(start).v, HighSum(start).z /\ LowSum(start).z,
            HighSum(start).v, HighSum(start).c)
    BY <1>9 DEF AtEnd, Adding
  <2> HIDE DEF sum
  <2>3. NegationTurnsSign \/ (HighSum(start).n # HighSum(start).v <=> sum.n # sum.v)
    BY <1>4, <1>5, <1>6, <1>7
  <2>4. QED
    BY <1>5, <1>6, <1>9, <2>1, <2>2, <2>3 DEF Are
<1>10. QED
  BY <1>8, <1>9

LEMMA FlagsOfNeg ==
  ASSUME TypeOk, AtEnd(start, hi, lo, flags, TRUE), start.op = "NEG", ~LowCarryLost
  PROVE  LET isa == Executed(start).flags
         IN  (flags.n <=> isa.n) /\ (flags.z <=> isa.z) /\ (flags.v <=> isa.v) /\ (flags.c <=> isa.c)
<1> DEFINE b == start.value
           w == Negated(b)
<1>1. /\ Augend(start) = 0 /\ Addend(start) = Not(b, WordValues) /\ CarryIn(start) = 1
      /\ b \in Word /\ start.flags \in Flags
  BY Typed DEF Augend, Addend, CarryIn
<1>2. w = (0 + Not(b, WordValues) + 1) % WordValues
  BY <1>1, Negation
<1>3. /\ HighSum(start).n <=> High(w, WordValues)
      /\ HighSum(start).z /\ LowSum(start).z <=> w = 0
      /\ HighSum(start).v <=> Overflow(w, 0, Not(b, WordValues), WordValues)
  BY <1>1, <1>2, SumOfInstruction DEF Adding
<1>4. HighSum(start).v <=> w = WordValues \div 2
  BY <1>1, <1>3, OverflowOfNeg
<1>5. Executed(start).flags = [NZ(start.flags, w) EXCEPT !.v = w = WordValues \div 2]
  BY DEF Executed
<1>6. LET isa == Executed(start).flags
      IN  /\ isa.n = High(w, WordValues) /\ isa.z = (w = 0)
          /\ isa.v = (w = WordValues \div 2) /\ isa.c = start.flags.c
  BY <1>1, <1>5 DEF NZ, Flags
<1>7. Are(flags, HighSum(start).n, HighSum(start).z /\ LowSum(start).z, HighSum(start).v,
          start.flags.c)
  BY DEF AtEnd, Adding
<1> HIDE DEF w
<1>8. QED
  BY <1>3, <1>4, <1>6, <1>7 DEF Are

LEMMA FlagsOfNot ==
  ASSUME TypeOk, AtEnd(start, hi, lo, flags, TRUE), start.op = "NOT"
  PROVE  LET isa == Executed(start).flags
         IN  (flags.n <=> isa.n) /\ (flags.z <=> isa.z) /\ (flags.v <=> isa.v) /\ (flags.c <=> isa.c)
<1> DEFINE w == Not(start.value, WordValues)
<1>1. start.value \in Word /\ start.flags \in Flags
  BY Typed
<1>2. /\ w \in Word /\ hi = Upper(w) /\ lo = Low(w)
      /\ Are(flags, High(hi, ByteValues), hi = 0 /\ lo = 0, start.flags.v, start.flags.c)
  BY <1>1, Complements DEF AtEnd
<1>3. Executed(start).flags = NZ(start.flags, w)
  BY DEF Executed
<1> HIDE DEF w
<1>4. LET isa == Executed(start).flags
      IN  /\ isa.n = High(w, WordValues) /\ isa.z = (w = 0)
          /\ isa.v = start.flags.v /\ isa.c = start.flags.c
  BY <1>1, <1>3 DEF NZ, Flags
<1>5. QED
  BY <1>2, <1>4, WordFlags DEF Are

LEMMA FlagsOfLeftShift ==
  ASSUME TypeOk, AtEnd(start, hi, lo, flags, TRUE), start.op \in {"ASL", "ROL"}
  PROVE  LET isa == Executed(start).flags
         IN  /\ (flags.n <=> isa.n) /\ (flags.v <=> isa.v) /\ (flags.c <=> isa.c)
             /\ start.op = "ASL" \/ (flags.z <=> isa.z)
<1> DEFINE a == start.value
           w == (2 * a) % WordValues
           y == LeftHigh(start)
<1>1. a \in Word /\ a \in Nat /\ start.flags \in Flags
  BY Typed DEF Word
<1>2. y = ShiftLeft(Upper(a), Bit(High(Low(a), ByteValues)))
  BY DEF LeftHigh
<1>3. (y.n <=> High(w, WordValues)) /\ (y.c <=> High(a, WordValues))
  <2>1. 2 * a + 0 = 2 * a
    BY <1>1
  <2> HIDE DEF y
  <2>2. QED
    BY <1>1, <1>2, <2>1, LeftShiftOfWords
<1>4. y.v <=> High(a, WordValues) # High(w, WordValues)
  <2> HIDE DEF y
  <2>1. QED
    BY <1>1, <1>2, LeftShiftOverflow, ArithmeticAssumption
<1> HIDE DEF y, w
<1>5. CASE start.op = "ASL"
  <2>1. Executed(start).flags = [NZ(start.flags, w) EXCEPT
                                    !.v = High(a, WordValues) # High(w, WordValues),
                                    !.c = High(a, WordValues)]
    BY <1>5 DEF Executed, w
  <2>2. LET isa == Executed(start).flags
        IN  /\ isa.n = High(w, WordValues)
            /\ isa.v = (High(a, WordValues) # High(w, WordValues))
            /\ isa.c = High(a, WordValues)
    BY <1>1, <2>1 DEF NZ, Flags
  <2>3. (flags.n <=> y.n) /\ (flags.v <=> y.v) /\ (flags.c <=> y.c)
    BY <1>5 DEF AtEnd, Are, y
  <2>4. QED
    BY <1>3, <1>4, <1>5, <2>2, <2>3
<1>6. CASE start.op = "ROL"
  <2>1. Executed(start).flags = [start.flags EXCEPT !.c = High(a, WordValues)]
    BY <1>6 DEF Executed
  <2>2. LET isa == Executed(start).flags
        IN  /\ isa.n = start.flags.n /\ isa.z = start.flags.z /\ isa.v = start.flags.v
            /\ isa.c = High(a, WordValues)
    BY <1>1, <2>1 DEF Flags
  <2>3. Are(flags, start.flags.n, start.flags.z, start.flags.v, y.c)
    BY <1>6 DEF AtEnd, y
  <2>4. QED
    BY <1>3, <2>2, <2>3 DEF Are
<1>7. QED
  BY <1>5, <1>6

LEMMA FlagsOfRightShift ==
  ASSUME TypeOk, AtEnd(start, hi, lo, flags, TRUE), start.op \in {"ASR", "ROR"}
  PROVE  LET isa == Executed(start).flags
         IN  (flags.n <=> isa.n) /\ (flags.z <=> isa.z) /\ (flags.v <=> isa.v) /\ (flags.c <=> isa.c)
<1> DEFINE a == start.value
           bit == ShiftIn(start)
           w == a \div 2 + bit * (WordValues \div 2)
           y == RightHigh(start)
           x == RightLow(start)
<1>1. a \in Word /\ start.flags \in Flags
  BY Typed
<1>2. bit \in {0, 1}
  BY DEF ShiftIn, Bit
<1>3. y = ShiftRight(Upper(a), bit) /\ x = ShiftRight(Low(a), Bit(Upper(a) % 2 = 1))
  BY DEF RightHigh, RightLow
<1>4. (y.n <=> High(w, WordValues)) /\ (y.z /\ x.z <=> w = 0) /\ (x.c <=> a % 2 = 1)
  <2> HIDE DEF y, x, bit
  <2>1. QED
    BY <1>1, <1>2, <1>3, RightShiftOfWords
<1> HIDE DEF y, x
<1>5. CASE start.op = "ASR"
  <2>1. w = a \div 2 + Bit(High(a, WordValues)) * (WordValues \div 2)
    <3>1. bit = Bit(High(a, WordValues))
      BY <1>1, <1>5, WordFlags DEF ShiftIn, Bit
    <3>2. QED
      BY <3>1
  <2> HIDE DEF w
  <2>2. Executed(start).flags = [NZ(start.flags, w) EXCEPT !.c = a % 2 = 1]
    BY <1>5, <2>1 DEF Executed
  <2>3. LET isa == Executed(start).flags
        IN  /\ isa.n = High(w, WordValues) /\ isa.z = (w = 0)
            /\ isa.v = start.flags.v /\ isa.c = (a % 2 = 1)
    BY <1>1, <2>2 DEF NZ, Flags
  <2>4. Are(flags, y.n, y.z /\ x.z, start.flags.v, x.c)
    BY <1>5 DEF AtEnd, x, y
  <2>5. QED
    BY <1>4, <2>3, <2>4 DEF Are
<1>6. CASE start.op = "ROR"
  <2>1. Executed(start).flags = [start.flags EXCEPT !.c = a % 2 = 1]
    BY <1>6 DEF Executed
  <2>2. LET isa == Executed(start).flags
        IN  /\ isa.n = start.flags.n /\ isa.z = start.flags.z /\ isa.v = start.flags.v
            /\ isa.c = (a % 2 = 1)
    BY <1>1, <2>1 DEF Flags
  <2>3. Are(flags, start.flags.n, start.flags.z, start.flags.v, x.c)
    BY <1>6 DEF AtEnd, x
  <2>4. QED
    BY <1>4, <2>2, <2>3 DEF Are
<1>7. QED
  BY <1>5, <1>6

LEMMA FlagsTyped ==
  ASSUME TypeOk
  PROVE  Executed(start).flags \in Flags
<1> DEFINE f == start.flags
<1>1. /\ start.op \in Unary \cup Nonunary /\ f \in Flags
      /\ start.value \in Word /\ start.operand \in Word
  BY Typed
<1>2. ASSUME NEW g \in Flags, NEW res PROVE NZ(g, res) \in Flags
  <2> DEFINE p == High(res, WordValues)
             q == res = 0
  <2>1. p \in BOOLEAN /\ q \in BOOLEAN /\ NZ(g, res) = [g EXCEPT !.n = p, !.z = q]
    BY DEF NZ, High
  <2> HIDE DEF p, q
  <2>2. QED
    BY <1>2, <2>1 DEF Flags
<1>3. ASSUME NEW g \in Flags, NEW p \in BOOLEAN
      PROVE  /\ [g EXCEPT !.v = p] \in Flags /\ [g EXCEPT !.c = p] \in Flags
             /\ [g EXCEPT !.n = p] \in Flags
  BY <1>3 DEF Flags
<1>4. ASSUME NEW b \in Word PROVE AllFlags(Sum(start.value, b, 0, WordValues)) \in Flags
  BY <1>1, <1>4, IsaSum DEF AllFlags, Flags
<1>5. Negated(start.operand) \in Word
  BY <1>1, Negation
<1> DEFINE top == WordValues \div 2
           left == (2 * start.value) % WordValues
<1>6. CASE start.op = "NOT"
  BY <1>1, <1>2, <1>6 DEF Executed
<1>7. CASE start.op = "NEG"
  <2>1. Executed(start).flags = [NZ(f, Negated(start.value)) EXCEPT !.v = Negated(start.value) = top]
    BY <1>7 DEF Executed
  <2>2. QED
    BY <1>1, <1>2, <1>3, <2>1
<1>8. CASE start.op = "ASL"
  <2> DEFINE p == High(start.value, WordValues) # High(left, WordValues)
             q == High(start.value, WordValues)
             g == [NZ(f, left) EXCEPT !.v = p]
  <2>1. Executed(start).flags = [NZ(f, left) EXCEPT !.v = p, !.c = q]
    BY <1>8 DEF Executed
  <2>2. p \in BOOLEAN /\ q \in BOOLEAN /\ NZ(f, left) \in Flags
    BY <1>1, <1>2 DEF High
  <2> HIDE DEF p, q
  <2>3. [NZ(f, left) EXCEPT !.v = p, !.c = q] \in Flags
    BY <2>2 DEF Flags
  <2>4. QED
    BY <2>1, <2>3
<1>9. CASE start.op = "ASR"
  <2> DEFINE res == start.value \div 2 + Bit(High(start.value, WordValues)) * top
  <2>1. Executed(start).flags = [NZ(f, res) EXCEPT !.c = start.value % 2 = 1]
    BY <1>9 DEF Executed
  <2> HIDE DEF res
  <2>2. QED
    BY <1>1, <1>2, <1>3, <2>1
<1>10. CASE start.op = "ROR"
  <2>1. Executed(start).flags = [f EXCEPT !.c = start.value % 2 = 1]
    BY <1>10 DEF Executed
  <2>2. QED
    BY <1>1, <1>3, <2>1
<1>11. CASE start.op = "ROL"
  <2>1. Executed(start).flags = [f EXCEPT !.c = High(start.value, WordValues)]
    BY <1>11 DEF Executed
  <2>2. High(start.value, WordValues) \in BOOLEAN
    BY DEF High
  <2>3. QED
    BY <1>1, <1>3, <2>1, <2>2
<1>12. CASE start.op = "ADD"
  BY <1>1, <1>4, <1>12 DEF Executed
<1>13. CASE start.op = "SUB"
  BY <1>4, <1>5, <1>13 DEF Executed
<1>14. CASE start.op = "CPW"
  <2> DEFINE sum == Sum(start.value, Negated(start.operand), 0, WordValues)
             p == sum.n # sum.v
             q == CpwCarry(start, sum.res)
  <2>1. Executed(start).flags = [AllFlags(sum) EXCEPT !.n = p, !.c = q]
    BY <1>14 DEF Executed
  <2>2. p \in BOOLEAN /\ q \in BOOLEAN /\ AllFlags(sum) \in Flags
    BY <1>4, <1>5 DEF CpwCarry, CarryOut
  <2> HIDE DEF p, q, sum
  <2>3. [AllFlags(sum) EXCEPT !.n = p, !.c = q] \in Flags
    BY <2>2 DEF Flags
  <2>4. QED
    BY <2>1, <2>3
<1>15. QED
  BY <1>1, <1>6, <1>7, <1>8, <1>9, <1>10, <1>11, <1>12, <1>13, <1>14 DEF Unary, Nonunary

LEMMA SameFlags == BytesInv => FlagsAgree
<1> DEFINE isa == Executed(start).flags
           Agree == /\ NegationTurnsSign \/ ((flags.n <=> isa.n) /\ (flags.v <=> isa.v))
                    /\ start.op = "ASL" \/ (flags.z <=> isa.z)
                    /\ \/ HighCarryLost \/ NegationLosesCarry
                       \/ start.op = "CPW" /\ start.reg = "X"
                       \/ (flags.c <=> isa.c)
<1> SUFFICES ASSUME BytesInv, Done, ~LowCarryLost PROVE FlagsAgree
  BY DEF FlagsAgree
<1>1. TypeOk /\ start.op \in Unary \cup Nonunary /\ AtEnd(start, hi, lo, flags, TRUE)
  BY AtTheEnd
<1>2. Agree
  <2> HIDE DEF isa
  <2>1. CASE start.op = "ADD"
    BY <1>1, <2>1, FlagsOfAddition DEF isa
  <2>2. CASE start.op \in {"SUB", "CPW"}
    BY <1>1, <2>2, FlagsOfSubtraction DEF isa
  <2>3. CASE start.op = "NEG"
    BY <1>1, <2>3, FlagsOfNeg DEF isa
  <2>4. CASE start.op = "NOT"
    BY <1>1, <2>4, FlagsOfNot DEF isa
  <2>5. CASE start.op \in {"ASL", "ROL"}
    BY <1>1, <2>5, FlagsOfLeftShift DEF isa
  <2>6. CASE start.op \in {"ASR", "ROR"}
    BY <1>1, <2>6, FlagsOfRightShift DEF isa
  <2>7. QED
    BY <1>1, <2>1, <2>2, <2>3, <2>4, <2>5, <2>6 DEF Unary, Nonunary
<1>3. isa \in Flags
  BY <1>1, FlagsTyped
<1>4. flags \in Flags
  BY <1>1 DEF TypeOk
<1>5. \A f, g \in Flags : /\ (f.n <=> g.n) => f.n = g.n
                          /\ (f.z <=> g.z) => f.z = g.z
                          /\ (f.v <=> g.v) => f.v = g.v
                          /\ (f.c <=> g.c) => f.c = g.c
  BY DEF Flags
<1> HIDE DEF isa
<1>6. QED
  BY <1>2, <1>3, <1>4, <1>5 DEF FlagsAgree, isa

\* The sign of a difference, corrected by the overflow, orders its operands
\* as signed numbers.
LEMMA SignedComparison ==
  ASSUME NEW a \in Word, NEW b \in Word, NEW w, w = (a + Not(b, WordValues) + 1) % WordValues
  PROVE  /\ High(w, WordValues) # Overflow(w, a, Not(b, WordValues), WordValues)
               <=> Signed(a) < Signed(b)
         /\ w = 0 <=> a = b
<1>1. PICK h \in Nat \ {0} : WordValues = 2 * h
  <2>1. PICK k \in Nat \ {0} : ByteValues = 2 * k /\ WordValues = 2 * (k * ByteValues)
    BY Sizes
  <2>2. k * ByteValues \in Nat \ {0}
    BY <2>1, Sizes
  <2>3. QED
    BY <2>1, <2>2
<1> DEFINE n == Not(b, WordValues)
<1>2. /\ a \in 0..2 * h - 1 /\ b \in 0..2 * h - 1
      /\ n = 2 * h - 1 - b
      /\ w = IF a >= b THEN a - b ELSE a - b + 2 * h
  BY <1>1, Negation DEF Not, Word
<1> HIDE DEF n
<1>3. High(w, WordValues) # Overflow(w, a, n, WordValues) <=> Signed(a) < Signed(b)
  BY <1>1, <1>2 DEF Overflow, High, Signed
<1>4. QED
  BY <1>2, <1>3 DEF n

LEMMA SignedOrder == BytesInv => ComparisonIsSigned
<1> SUFFICES ASSUME BytesInv, Done, start.op = "CPW", ~LowCarryLost PROVE ComparisonIsSigned
  BY DEF ComparisonIsSigned
<1> DEFINE a == start.value
           b == start.operand
           w == (a + Not(b, WordValues) + 1) % WordValues
<1>1. TypeOk /\ AtEnd(start, hi, lo, flags, TRUE)
  BY AtTheEnd
<1>2. /\ Augend(start) = a /\ Addend(start) = Not(b, WordValues) /\ CarryIn(start) = 1
      /\ a \in Word /\ b \in Word
  BY <1>1, Typed DEF Augend, Addend, CarryIn
<1>3. /\ HighSum(start).n <=> High(w, WordValues)
      /\ HighSum(start).z /\ LowSum(start).z <=> w = 0
      /\ HighSum(start).v <=> Overflow(w, a, Not(b, WordValues), WordValues)
  BY <1>1, <1>2, SumOfInstruction DEF Adding
<1>4. HighSum(start).n \in BOOLEAN /\ HighSum(start).v \in BOOLEAN
  BY HighSumBoolean
<1>5. /\ High(w, WordValues) \in BOOLEAN
      /\ Overflow(w, a, Not(b, WordValues), WordValues) \in BOOLEAN
  BY DEF High, Overflow
<1>6. Are(flags, HighSum(start).n # HighSum(start).v, HighSum(start).z /\ LowSum(start).z,
          HighSum(start).v, HighSum(start).c)
  BY <1>1 DEF AtEnd, Adding
<1>7. /\ High(w, WordValues) # Overflow(w, a, Not(b, WordValues), WordValues)
            <=> Signed(a) < Signed(b)
      /\ w = 0 <=> a = b
  BY <1>2, SignedComparison
<1> HIDE DEF w
<1>8. (flags.n <=> Signed(a) < Signed(b)) /\ (flags.z <=> a = b)
  BY <1>3, <1>4, <1>5, <1>6, <1>7 DEF Are
<1>9. QED
  BY <1>8 DEF ComparisonIsSigned

-----------------------------------------------------------------------------
(* The theorems.                                                           *)

\* RegistersAgree: IsaCpu and the microprogram leave the same word in the
\* register, for every width of the byte, every operand and every instruction,
\* but for ROLX and a subtraction whose borrow between the bytes is lost.
THEOREM TheRegistersAgree == Spec => []RegistersAgree
  BY SameRegister, BytesAreDetermined, PTL

\* FlagsAgree: and the same N, Z, V and C, but for the cases listed in it.
THEOREM TheFlagsAgree == Spec => []FlagsAgree
  BY SameFlags, BytesAreDetermined, PTL

\* ComparisonIsSigned: CPWr leaves N for the signed order and Z for equality,
\* whatever the sign of the operands and however the difference overflows.
THEOREM ComparesSigned == Spec => []ComparisonIsSigned
  BY SignedOrder, BytesAreDetermined, PTL

=============================================================================
