--------------------------- MODULE RelocationProofs ---------------------------
(***************************************************************************)
(* What the relocations of arch/rel_x86.c compute, for words and fields of *)
(* any width.                                                              *)
(***************************************************************************)
EXTENDS Relocation, TLAPS

-----------------------------------------------------------------------------
(* Remainders *)

\* A remainder is what is left of a whole multiple.
LEMMA DivMod ==
  ASSUME NEW a \in Int, NEW n \in Nat, n > 0
  PROVE  /\ a \div n \in Int
         /\ a % n \in 0 .. n - 1
         /\ a = n * (a \div n) + (a % n)
  OBVIOUS

LEMMA Multiple ==
  ASSUME NEW a \in Int, NEW n \in Nat, n > 0, a % n = 0
  PROVE  \E k \in Int : a = n * k
  OBVIOUS

\* Nothing else is.
LEMMA ModUnique ==
  ASSUME NEW n \in Nat, NEW a \in Int, NEW k \in Int, NEW r \in 0 .. n - 1,
         a = n * k + r
  PROVE  a % n = r
  OBVIOUS

\* Whole multiples do not count.
LEMMA ModShift ==
  ASSUME NEW n \in Nat, n > 0, NEW a \in Int, NEW b \in Int, NEW k \in Int,
         b = a + n * k
  PROVE  b % n = a % n
<1>1. PICK q \in Int, r \in 0 .. n - 1 : a = n * q + r /\ r = a % n
  BY DivMod
<1>2. PICK j \in Int : n * q + n * k = n * j
  <2>1. n * q + n * k = n * (q + k) /\ q + k \in Int
    BY <1>1
  <2> QED
    BY <2>1
<1>3. b = n * j + r
  BY <1>1, <1>2
<1>4. b % n = r
  BY <1>3, ModUnique
<1> QED
  BY <1>1, <1>4

\* The remainder of a word is that of the number it was cut from, if the
\* width is a multiple.
LEMMA ModMod ==
  ASSUME NEW n \in Nat, n > 0, NEW w \in Nat, w > 0, w % n = 0,
         NEW a \in Int, NEW b \in Int
  PROVE  ((a % w) + b) % n = (a + b) % n
<1>1. PICK q \in Int : a = w * q + (a % w)
  BY DivMod
<1>2. PICK m \in Int : w = n * m
  BY Multiple
<1>3. PICK k \in Int : w * q = n * k
  <2>1. (n * m) * q = n * (m * q) /\ m * q \in Int
    OBVIOUS
  <2> QED
    BY <1>2, <2>1
<1>4. a % w \in Int
  BY DivMod
<1>5. PICK c \in Int, d \in Int : c = a + b /\ d = (a % w) + b
  BY <1>4
<1>6. c = d + n * k
  BY <1>1, <1>3, <1>4, <1>5
<1>7. c % n = d % n
  BY <1>6, ModShift
<1> QED
  BY <1>5, <1>7

\* The same for a number that is subtracted.
LEMMA ModModMinus ==
  ASSUME NEW n \in Nat, n > 0, NEW w \in Nat, w > 0, w % n = 0,
         NEW a \in Int, NEW b \in Int
  PROVE  (b - (a % w)) % n = (b - a) % n
<1>1. PICK q \in Int : a = w * q + (a % w)
  BY DivMod
<1>2. PICK m \in Int : w = n * m
  BY Multiple
<1>3. PICK k \in Int : w * q = n * k
  <2>1. (n * m) * q = n * (m * q) /\ m * q \in Int
    OBVIOUS
  <2> QED
    BY <1>2, <2>1
<1>4. a % w \in Int
  BY DivMod
<1>5. PICK c \in Int, d \in Int : c = b - a /\ d = b - (a % w)
  BY <1>4
<1>6. d = c + n * k
  BY <1>1, <1>3, <1>4, <1>5
<1>7. d % n = c % n
  BY <1>6, ModShift
<1> QED
  BY <1>5, <1>7

\* Cutting a summand to the width does not change the cut sum.
LEMMA ModSum ==
  ASSUME NEW n \in Nat, n > 0, NEW a \in Int, NEW b \in Int
  PROVE  /\ ((a % n) + b) % n = (a + b) % n
         /\ (b - (a % n)) % n = (b - a) % n
<1>2. n % n = 0
  BY ModUnique
<1> QED
  BY <1>2, ModMod, ModModMinus

-----------------------------------------------------------------------------
(* Relocations *)

LEMMA Widths == Word \in Nat /\ Field \in Nat /\ Word > 0 /\ Field > 0
  BY WidthsOK

USE Widths

\* A word is a whole multiple of a field, so it is no smaller.
LEMMA FieldsFitWords == Field <= Word
<1>1. CASE Word < Field
  <2>1. Word % Field = Word
    BY <1>1
  <2> QED
    BY <2>1, WidthsOK
<1> QED
  BY <1>1

\* Both have halves.
LEMMA Halves ==
  /\ \E h \in Int : Field = 2 * h /\ h = Field \div 2 /\ h > 0
  /\ \E w \in Int : Word = 2 * w /\ w = Word \div 2 /\ w > 0
<1>1. ASSUME NEW n \in Nat, n > 0, n % 2 = 0
      PROVE  n = 2 * (n \div 2) /\ n \div 2 \in Int /\ n \div 2 > 0
  BY <1>1
<1> QED
  BY <1>1, WidthsOK

\* The distance is computed from addresses that were cut to words on the way,
\* and is the one between the addresses themselves.
LEMMA RelValueExact ==
  ASSUME NEW section \in Int, NEW offset \in Int, NEW sym \in Int,
         NEW addend \in Int
  PROVE  RelValue(((section % Word) + offset) % Word, sym, addend)
           = ((sym + addend) - (section + offset)) % Word
<1>1. PICK a \in Int, b \in Int : a = section + offset /\ b = sym + addend
  OBVIOUS
<1>2. ((section % Word) + offset) % Word = a % Word
  BY <1>1, ModSum
<1>3. (b - (a % Word)) % Word = (b - a) % Word
  BY ModSum
<1> QED
  BY <1>1, <1>2, <1>3 DEF RelValue

\* A field is given the distance, in the bits it has.
LEMMA StoredDistance ==
  ASSUME NEW field \in Int, NEW target \in Int
  PROVE  /\ Stored(Field, (target - field) % Word) \in 0 .. Field - 1
         /\ (Stored(Field, (target - field) % Word) + field - target)
              % Field = 0
<1>1. PICK d \in Int : d = target - field
  OBVIOUS
<1>2. d % Word \in Int
  BY DivMod
<1>3. PICK v \in 0 .. Field - 1 : v = (d % Word) % Field
  BY <1>2, DivMod
<1>4. v = d % Field
  <2>1. PICK z \in Int : z = 0
    OBVIOUS
  <2>2. Word % Field = 0
    BY WidthsOK
  <2>3. ((d % Word) + z) % Field = (d + z) % Field
    BY <2>2, ModMod
  <2> QED
    BY <1>2, <1>3, <2>1, <2>3
<1>5. PICK q \in Int : d = Field * q + v
  BY <1>4, DivMod
<1>6. PICK c \in Int : c = v + field - target
  OBVIOUS
<1>7. Field * q + Field * (-q) = 0
  OBVIOUS
<1>8. c = Field * (-q) + 0
  BY <1>1, <1>5, <1>6, <1>7
<1>9. c % Field = 0
  BY <1>8, ModUnique
<1> QED
  BY <1>1, <1>3, <1>6, <1>9 DEF Stored

\* The low bits of the words closest to the largest one.
LEMMA LastField ==
  ASSUME NEW n \in Nat, n > 0, NEW w \in Nat, w > 0, w % n = 0,
         NEW a \in Int, NEW r \in 0 .. n - 1, r = a - w + n
  PROVE  a % n = r
<1>1. PICK m \in Int : w = n * m
  BY Multiple
<1>2. PICK k \in Int : n * k = n * m - n
  <2>1. n * (m - 1) = n * m - n /\ m - 1 \in Int
    OBVIOUS
  <2> QED
    BY <2>1
<1>3. a = n * k + r
  BY <1>1, <1>2
<1> QED
  BY <1>3, ModUnique

LEMMA LastFieldOfWord ==
  ASSUME NEW val \in Int, NEW r \in 0 .. Field - 1, r = val - Word + Field
  PROVE  val % Field = r
<1>1. Word % Field = 0
  BY WidthsOK
<1> QED
  BY <1>1, LastField

\* A distance that a signed field can express is not refused.
LEMMA NearAccepted ==
  ASSUME NEW val \in 0 .. Word - 1,
         Signed(val, Word) \in - (Field \div 2) .. (Field \div 2) - 1
  PROVE  ~Overflows(Field, val, TRUE)
<1>1. PICK h \in Int : Field = 2 * h /\ h = Field \div 2 /\ h > 0
  BY Halves
<1>2. PICK s \in Int : s = Signed(val, Word)
  BY DEF Signed
<1>3. Magnitude(val) = IF s < 0 THEN -s ELSE s
  BY <1>2 DEF Magnitude
<1>4. Magnitude(val) <= Field - 1
  BY <1>1, <1>2, <1>3
<1> QED
  BY <1>3, <1>4 DEF Overflows

\* The field it is stored in, read with its sign, is this distance again.
LEMMA NearRestored ==
  ASSUME NEW val \in 0 .. Word - 1,
         Signed(val, Word) \in - (Field \div 2) .. (Field \div 2) - 1
  PROVE  Signed(Stored(Field, val), Field) = Signed(val, Word)
<1>1. PICK h \in Int : Field = 2 * h /\ h = Field \div 2 /\ h > 0
  BY Halves
<1>2. PICK w \in Int : Word = 2 * w /\ w = Word \div 2 /\ w >= h
  BY <1>1, Halves, FieldsFitWords
<1>3. CASE val >= w
  <2>1. Signed(val, Word) = val - Word /\ val - Word >= -h
    BY <1>1, <1>2, <1>3 DEF Signed
  <2>2. PICK r \in 0 .. Field - 1 : r = val - Word + Field
    BY <1>1, <2>1
  <2>3. val % Field = r
    BY <2>2, LastFieldOfWord
  <2> QED
    BY <1>1, <2>1, <2>2, <2>3 DEF Signed, Stored
<1>4. CASE val < w
  <2>1. Signed(val, Word) = val /\ val < h
    BY <1>1, <1>2, <1>4 DEF Signed
  <2>2. val % Field = val
    BY <1>1, <2>1
  <2> QED
    BY <1>1, <2>1, <2>2 DEF Signed, Stored
<1> QED
  BY <1>2, <1>3, <1>4

\* A signed reading of a word is congruent to it.
LEMMA SignedCongruent ==
  ASSUME NEW val \in Int, NEW c \in Int
  PROVE  (Signed(val % Word, Word) + c) % Word = (val + c) % Word
<1>1. PICK v \in 0 .. Word - 1 : v = val % Word
  BY DivMod
<1>2. (v + c) % Word = (val + c) % Word
  BY <1>1, ModSum
<1>3. PICK a \in Int, b \in Int : a = v + c /\ b = v - Word + c
  BY <1>1
<1>4. PICK k \in Int : k = -1
  OBVIOUS
<1>5. b = a + Word * k
  BY <1>1, <1>3, <1>4
<1>6. b % Word = a % Word
  BY <1>5, ModShift
<1> QED
  BY <1>1, <1>2, <1>3, <1>6 DEF Signed

\* rel32 is right for every distance it is meant for: if a signed field can
\* express it, it is accepted, and the processor, which extends the field's
\* sign, computes the address of the target from it.
THEOREM NearIsExact ==
  ASSUME NEW field \in Int, NEW target \in Int,
         Signed((target - field) % Word, Word)
           \in - (Field \div 2) .. (Field \div 2) - 1
  PROVE  /\ ~Overflows(Field, (target - field) % Word, TRUE)
         /\ (Signed(Stored(Field, (target - field) % Word), Field) + field)
              % Word = target % Word
<1>1. (target - field) % Word \in 0 .. Word - 1
  BY DivMod
<1>2. Signed(Stored(Field, (target - field) % Word), Field)
        = Signed((target - field) % Word, Word)
  BY <1>1, NearRestored
<1>3. PICK d \in Int : d = target - field
  OBVIOUS
<1>4. (Signed(d % Word, Word) + field) % Word = (d + field) % Word
  BY SignedCongruent
<1>5. d + field = target
  BY <1>3
<1> QED
  BY <1>1, <1>2, <1>3, <1>4, <1>5, NearAccepted

\* Two sums with the same remainder differ by a whole multiple.
LEMMA SameRemainder ==
  ASSUME NEW n \in Nat, n > 0, NEW a \in Int, NEW b \in Int, a % n = b % n
  PROVE  \E k \in Int : a = b + n * k
<1>1. PICK p \in Int, r \in Int : a = n * p + r /\ r = a % n
  BY DivMod
<1>2. PICK q \in Int : b = n * q + (b % n)
  BY DivMod
<1>3. b = n * q + r
  BY <1>1, <1>2
<1>4. n * (p - q) = n * p - n * q /\ p - q \in Int
  OBVIOUS
<1>5. a = b + n * (p - q)
  BY <1>1, <1>3, <1>4
<1> QED
  BY <1>4, <1>5

\* The signed reading of a field is the signed reading of a word congruent
\* to it.
LEMMA SignedUnique ==
  ASSUME NEW s \in Int, s \in - (Field \div 2) .. (Field \div 2) - 1,
         NEW d \in Int, NEW k \in Int, d = s + Word * k
  PROVE  Signed(d % Word, Word) = s
<1>1. PICK h \in Int : Field = 2 * h /\ h = Field \div 2 /\ h > 0
  BY Halves
<1>2. PICK w \in Int : Word = 2 * w /\ w = Word \div 2 /\ w >= h
  BY <1>1, Halves, FieldsFitWords
<1>3. s >= -h /\ s < h
  BY <1>1
<1>4. Word \in Nat
  BY WidthsOK
<1>5. CASE s >= 0
  <2>1. s \in 0 .. Word - 1 /\ d = Word * k + s
    BY <1>1, <1>2, <1>3, <1>5
  <2>2. d % Word = s
    BY <1>4, <2>1, ModUnique
  <2> QED
    BY <1>2, <1>3, <2>2 DEF Signed
<1>6. CASE s < 0
  <2>1. PICK r \in Int, j \in Int : r = s + Word /\ j = k - 1
    BY <1>4
  <2>2. Word * j = Word * k - Word
    BY <1>4, <2>1
  <2>3. r \in 0 .. Word - 1 /\ r >= w /\ d = Word * j + r
    BY <1>1, <1>2, <1>3, <1>4, <1>6, <2>1, <2>2
  <2>4. d % Word = r
    BY <1>4, <2>3, ModUnique
  <2> QED
    BY <1>2, <2>1, <2>3, <2>4 DEF Signed
<1> QED
  BY <1>5, <1>6

\* No field leads to any other target: what loader_apply_relocation accepts
\* beyond, it stores in vain.
LEMMA OnlyNearIsExact ==
  ASSUME NEW field \in Int, NEW target \in Int, NEW v \in 0 .. Field - 1,
         (Signed(v, Field) + field) % Word = target % Word
  PROVE  Signed((target - field) % Word, Word)
           \in - (Field \div 2) .. (Field \div 2) - 1
<1>1. PICK h \in Int : Field = 2 * h /\ h = Field \div 2 /\ h > 0
  BY Halves
<1>2. PICK s \in Int : s = Signed(v, Field)
  <2>1. v \in Int /\ v - Field \in Int
    BY <1>1
  <2> QED
    BY <2>1 DEF Signed
<1>3. s \in - (Field \div 2) .. (Field \div 2) - 1
  BY <1>1, <1>2 DEF Signed
<1>4. PICK a \in Int : a = s + field
  OBVIOUS
<1>5. PICK k \in Int : target = a + Word * k
  <2>1. target % Word = a % Word
    BY <1>2, <1>4
  <2> QED
    BY <2>1, SameRemainder, WidthsOK
<1>6. PICK d \in Int : d = target - field
  OBVIOUS
<1>7. d = s + Word * k
  BY <1>4, <1>5, <1>6, WidthsOK
<1>8. Signed(d % Word, Word) = s
  BY <1>3, <1>7, SignedUnique
<1> QED
  BY <1>3, <1>6, <1>8
=============================================================================
