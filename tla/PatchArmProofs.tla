--------------------------- MODULE PatchArmProofs ---------------------------
(***************************************************************************)
(* The ARM patches put every stub they accept, and every callee they give  *)
(* back, into the bits that the processor puts together again: for every   *)
(* width of the fields, every address of the call and every pointer.       *)
(***************************************************************************)
EXTENDS PatchArm, TLAPS

-----------------------------------------------------------------------------
(* Division with remainder.                                                *)

\* A product of natural numbers is one.
LEMMA ProductNat ==
  ASSUME NEW m \in Nat, NEW n \in Nat
  PROVE  m * n \in Nat
  OBVIOUS

\* Quotient and remainder of an integer.
LEMMA DivMod ==
  ASSUME NEW x \in Int, NEW n \in Nat, n > 0
  PROVE  /\ x \div n \in Int /\ x % n \in Int
         /\ 0 <= x % n /\ x % n < n
         /\ x = n * (x \div n) + (x % n)
  <1>1. x \div n \in Int /\ x % n \in Int
    OBVIOUS
  <1>2. 0 <= x % n
    OBVIOUS
  <1>3. x % n < n
    OBVIOUS
  <1>4. x = n * (x \div n) + (x % n)
    OBVIOUS
  <1> QED BY <1>1, <1>2, <1>3, <1>4

\* They are the only ones.
LEMMA DivModUnique ==
  ASSUME NEW n \in Nat, n > 0, NEW q \in Int, NEW r \in Int, 0 <= r, r < n
  PROVE  (n * q + r) \div n = q /\ (n * q + r) % n = r
  <1> DEFINE x == n * q + r
             k == x \div n
             s == x % n
  <1>1. x \in Int
    OBVIOUS
  <1>2. /\ k \in Int /\ s \in Int /\ 0 <= s /\ s < n
        /\ x = n * k + s
    <2> HIDE DEF x
    <2> QED BY <1>1, DivMod
  <1>3. n * (k - q) = r - s
    <2>1. n * (k - q) = n * k - n * q
      BY <1>2
    <2> HIDE DEF k, s
    <2> QED BY <1>2, <2>1
  <1> HIDE DEF k, s
  <1>4. ~(k > q)
    <2> SUFFICES ASSUME k > q PROVE FALSE
      OBVIOUS
    <2>1. n * (k - q - 1) \in Nat
      BY <1>2, ProductNat
    <2>2. n * (k - q - 1) = n * (k - q) - n
      BY <1>2
    <2> QED BY <1>2, <1>3, <2>1, <2>2
  <1>5. ~(k < q)
    <2> SUFFICES ASSUME k < q PROVE FALSE
      OBVIOUS
    <2>1. n * (q - k - 1) \in Nat
      BY <1>2, ProductNat
    <2>2. n * (q - k - 1) = - (n * (k - q)) - n
      BY <1>2
    <2> QED BY <1>2, <1>3, <2>1, <2>2
  <1>6. k = q
    BY <1>2, <1>4, <1>5
  <1>7. s = r
    BY <1>2, <1>6
  <1> QED BY <1>6, <1>7 DEF k, s

\* Dividing twice.
LEMMA DivDiv ==
  ASSUME NEW x \in Int, NEW m \in Nat, m > 0, NEW n \in Nat, n > 0
  PROVE  x \div (m * n) = (x \div m) \div n
  <1> DEFINE a == x \div m
             r == x % m
             b == a \div n
             t == a % n
  <1>1. a \in Int /\ r \in Int /\ 0 <= r /\ r < m /\ x = m * a + r
    BY DivMod
  <1>2. b \in Int /\ t \in Int /\ 0 <= t /\ t < n /\ a = n * b + t
    <2> HIDE DEF a, r
    <2> QED BY <1>1, DivMod
  <1> HIDE DEF a, r, b, t
  <1>3. m * n \in Nat /\ m * n > 0
    BY ProductNat
  <1>4. m * t + r \in Int /\ 0 <= m * t + r /\ m * t + r < m * n
    <2>1. m * t \in Nat
      BY <1>2, ProductNat
    <2>2. m * (n - 1 - t) \in Nat
      BY <1>2, ProductNat
    <2>3. m * (n - 1 - t) = m * n - m - m * t
      BY <1>2
    <2> QED BY <1>1, <1>3, <2>1, <2>2, <2>3
  <1>5. x = (m * n) * b + (m * t + r)
    <2>1. m * a = m * (n * b) + m * t
      BY <1>1, <1>2
    <2>2. m * (n * b) = (m * n) * b
      BY <1>2
    <2> QED BY <1>1, <1>2, <2>1, <2>2
  <1>6. x \div (m * n) = b
    <2> DEFINE d == m * n
               e == m * t + r
    <2>1. d \in Nat /\ d > 0 /\ e \in Int /\ 0 <= e /\ e < d /\ x = d * b + e
      BY <1>3, <1>4, <1>5
    <2> HIDE DEF d, e
    <2>2. (d * b + e) \div d = b
      BY <1>2, <2>1, DivModUnique
    <2>3. x \div d = b
      BY <2>1, <2>2
    <2> QED BY <2>3 DEF d
  <1> QED BY <1>6 DEF a, b

-----------------------------------------------------------------------------
(* Two's complement.                                                       *)

EvenWidth(n) == n \in Nat /\ n > 0 /\ n % 2 = 0

\* x and y are the same n-valued number.
Wraps(x, y, n) == \E k \in Int : x = n * k + y

\* y is in the range of an n-valued two's complement number.
InRange(y, n) == y \in Int /\ -(n \div 2) <= y /\ y < n \div 2

LEMMA Half ==
  ASSUME NEW n, EvenWidth(n)
  PROVE  n \div 2 \in Nat /\ n \div 2 > 0 /\ n = 2 * (n \div 2)
  BY DEF EvenWidth

\* The same number is so in both directions.
LEMMA WrapsBack ==
  ASSUME NEW x \in Int, NEW y \in Int, NEW n \in Nat, Wraps(x, y, n)
  PROVE  Wraps(y, x, n)
  <1>1. PICK k \in Int : x = n * k + y
    BY DEF Wraps
  <1>2. -k \in Int /\ n * (-k) = -(n * k) /\ n * k \in Int
    OBVIOUS
  <1>3. y = n * (-k) + x
    BY <1>1, <1>2
  <1> QED BY <1>2, <1>3 DEF Wraps

\* Every integer is the same number as its remainder.
LEMMA ModWraps ==
  ASSUME NEW x \in Int, NEW n \in Nat, n > 0
  PROVE  x % n \in 0 .. n - 1 /\ Wraps(x, x % n, n)
  BY DivMod DEF Wraps

\* A remainder is determined by the number it wraps to.
LEMMA ModIs ==
  ASSUME NEW n \in Nat, n > 0, NEW x, NEW r \in Int, 0 <= r, r < n, Wraps(x, r, n)
  PROVE  x % n = r
  BY DivModUnique DEF Wraps

\* Signed is in range, and the same number.
LEMMA SignedRange ==
  ASSUME NEW x \in Int, NEW n, EvenWidth(n)
  PROVE  InRange(Signed(x, n), n) /\ Wraps(x, Signed(x, n), n)
  <1> DEFINE h == n \div 2
             k == (x + h) \div n
             r == (x + h) % n
  <1>1. h \in Nat /\ h > 0 /\ n = 2 * h /\ n \in Nat /\ n > 0
    BY Half DEF EvenWidth
  <1>2. Signed(x, n) = r - h
    BY DEF Signed
  <1> HIDE DEF h
  <1>3. /\ k \in Int /\ r \in Int /\ 0 <= r /\ r < n
        /\ x + h = n * k + r
    BY <1>1, DivMod
  <1> HIDE DEF k, r
  <1>4. -h <= r - h /\ r - h < h /\ r - h \in Int
    BY <1>1, <1>3
  <1>5. x = n * k + (r - h)
    <2>1. n * k \in Int
      BY <1>1, <1>3
    <2> DEFINE p == n * k
    <2> HIDE DEF p
    <2>2. p \in Int /\ x + h = p + r
      BY <1>3, <2>1 DEF p
    <2>3. x = p + (r - h)
      BY <1>1, <1>3, <2>2
    <2> QED BY <2>3 DEF p
  <1>6. Wraps(x, r - h, n)
    BY <1>3, <1>5 DEF Wraps
  <1> QED BY <1>2, <1>4, <1>6 DEF InRange, h

\* And it is the only one in range.
LEMMA SignedIs ==
  ASSUME NEW x \in Int, NEW n, EvenWidth(n), NEW y, InRange(y, n), Wraps(x, y, n)
  PROVE  Signed(x, n) = y
  <1> DEFINE h == n \div 2
  <1>1. h \in Nat /\ h > 0 /\ n = 2 * h /\ n \in Nat /\ n > 0
    BY Half DEF EvenWidth
  <1>2. y \in Int /\ -h <= y /\ y < h
    BY DEF InRange
  <1>3. Signed(x, n) = ((x + h) % n) - h
    BY DEF Signed
  <1>4. PICK k \in Int : x = n * k + y
    BY DEF Wraps
  <1> HIDE DEF h
  <1>5. y + h \in Int /\ 0 <= y + h /\ y + h < n
    BY <1>1, <1>2
  <1>6. x + h = n * k + (y + h)
    BY <1>1, <1>2, <1>4
  <1>7. (n * k + (y + h)) % n = y + h
    BY <1>1, <1>5, DivModUnique
  <1>8. (y + h) - h = y
    BY <1>1, <1>2
  <1> QED BY <1>3, <1>6, <1>7, <1>8

\* A field holds every number in range.
LEMMA FieldHolds ==
  ASSUME NEW n, EvenWidth(n), NEW y, InRange(y, n)
  PROVE  y % n \in 0 .. n - 1 /\ Signed(y % n, n) = y
  <1>1. n \in Nat /\ n > 0 /\ y \in Int
    BY DEF EvenWidth, InRange
  <1>2. y % n \in 0 .. n - 1 /\ y % n \in Int /\ Wraps(y, y % n, n)
    BY <1>1, ModWraps
  <1>3. Wraps(y % n, y, n)
    BY <1>1, <1>2, WrapsBack
  <1> QED BY <1>2, <1>3, SignedIs

\* And every value of the field is the remainder of the number it holds.
LEMMA FieldOf ==
  ASSUME NEW n, EvenWidth(n), NEW f \in 0 .. n - 1
  PROVE  InRange(Signed(f, n), n) /\ Signed(f, n) % n = f
  <1> DEFINE y == Signed(f, n)
  <1>1. n \in Nat /\ n > 0 /\ f \in Int /\ 0 <= f /\ f < n
    BY DEF EvenWidth
  <1>2. InRange(y, n) /\ Wraps(f, y, n)
    BY <1>1, SignedRange
  <1> HIDE DEF y
  <1>3. y \in Int
    BY <1>2 DEF InRange
  <1>4. Wraps(y, f, n)
    BY <1>1, <1>2, <1>3, WrapsBack
  <1>5. y % n = f
    BY <1>1, <1>4, ModIs
  <1> QED BY <1>2, <1>5 DEF y

-----------------------------------------------------------------------------
(* The 32-bit address space.                                               *)

LEMMA SpaceWidth ==
  /\ EvenWidth(Space) /\ Space \in Nat /\ Space > 0 /\ Space % 4 = 0
  /\ EvenWidth(ArmField) /\ EvenWidth(A64Field)
  <1>1. EvenWidth(ArmField) /\ EvenWidth(A64Field)
    BY PatchArmAssumption DEF EvenWidth
  <1>2. ArmField \in Nat /\ ArmField > 0
    BY PatchArmAssumption
  <1>3. Space \in Nat /\ Space % 4 = 0 /\ Space >= 4 * ArmField
    BY PatchArmAssumption
  <1>4. Space > 0 /\ Space % 2 = 0
    BY <1>2, <1>3
  <1> QED BY <1>1, <1>3, <1>4 DEF EvenWidth

\* The same address is aligned in the same way.
LEMMA WrapsAligned ==
  ASSUME NEW x \in Int, NEW y \in Int, Wraps(x, y, Space)
  PROVE  x % 4 = y % 4
  <1>1. PICK k \in Int : x = Space * k + y
    BY DEF Wraps
  <1> DEFINE s == Space \div 4
             z == s * k
  <1>2. s \in Int /\ Space = 4 * s
    BY SpaceWidth
  <1> HIDE DEF s
  <1>3. z \in Int /\ Space * k = 4 * z
    BY <1>2
  <1>4. x = 4 * z + y
    BY <1>1, <1>3
  <1> HIDE DEF z
  <1> QED BY <1>3, <1>4

\* The offset from base to a pointer leads to the pointer.
LEMMA OffsetReaches ==
  ASSUME NEW p \in Nat, p < Space, NEW base \in Int
  PROVE  LET o == Signed(p - base, Space)
         IN  /\ InRange(o, Space)
             /\ (base + o) % Space = p
             /\ o % 4 = (p - base) % 4
  <1> DEFINE o == Signed(p - base, Space)
  <1>1. p - base \in Int /\ Space \in Nat /\ Space > 0 /\ EvenWidth(Space)
    BY SpaceWidth
  <1>2. InRange(o, Space) /\ Wraps(p - base, o, Space)
    BY <1>1, SignedRange
  <1> HIDE DEF o
  <1>3. o \in Int
    BY <1>2 DEF InRange
  <1>4. o % 4 = (p - base) % 4
    BY <1>1, <1>2, <1>3, WrapsAligned
  <1>5. Wraps(o, p - base, Space)
    BY <1>1, <1>2, <1>3, WrapsBack
  <1>6. PICK k \in Int : o = Space * k + (p - base)
    BY <1>5 DEF Wraps
  <1>7. base + o = Space * k + p
    <2> DEFINE z == Space * k
    <2>1. z \in Int
      BY <1>1
    <2> HIDE DEF z
    <2>2. o = z + (p - base)
      BY <1>6 DEF z
    <2>3. base + o = z + p
      BY <1>3, <2>1, <2>2
    <2> QED BY <2>3 DEF z
  <1>8. Wraps(base + o, p, Space)
    BY <1>7 DEF Wraps
  <1>9. (base + o) % Space = p
    BY <1>1, <1>8, ModIs
  <1> QED BY <1>2, <1>4, <1>9 DEF o

\* And what an offset in range reaches has this offset.
LEMMA OffsetKnown ==
  ASSUME NEW base \in Int, NEW o, InRange(o, Space)
  PROVE  LET t == (base + o) % Space
         IN  /\ t \in 0 .. Space - 1
             /\ Signed(t - base, Space) = o
             /\ t % 4 = (base + o) % 4
  <1> DEFINE t == (base + o) % Space
  <1>1. o \in Int /\ base + o \in Int /\ Space \in Nat /\ Space > 0 /\ EvenWidth(Space)
    BY SpaceWidth DEF InRange
  <1>2. t \in 0 .. Space - 1 /\ Wraps(base + o, t, Space)
    BY <1>1, ModWraps
  <1> HIDE DEF t
  <1>3. t \in Int
    BY <1>2
  <1>4. t % 4 = (base + o) % 4
    BY <1>1, <1>2, <1>3, WrapsAligned
  <1>5. Wraps(t, base + o, Space)
    BY <1>1, <1>2, <1>3, WrapsBack
  <1>6. PICK k \in Int : t = Space * k + (base + o)
    BY <1>5 DEF Wraps
  <1>7. t - base = Space * k + o
    <2> DEFINE z == Space * k
    <2>1. z \in Int
      BY <1>1
    <2> HIDE DEF z
    <2>2. t = z + (base + o)
      BY <1>6 DEF z
    <2>3. t - base = z + o
      BY <1>1, <1>3, <2>1, <2>2
    <2> QED BY <2>3 DEF z
  <1>8. Wraps(t - base, o, Space) /\ t - base \in Int
    BY <1>3, <1>7 DEF Wraps
  <1>9. Signed(t - base, Space) = o
    BY <1>1, <1>8, SignedIs
  <1> QED BY <1>2, <1>4, <1>9 DEF t

-----------------------------------------------------------------------------
(* bl of ARM32 and of AArch64: a word offset in one field.                 *)

\* A field of words holds every aligned offset within its range in bytes.
LEMMA WordField ==
  ASSUME NEW n, EvenWidth(n), NEW limit \in Nat, limit <= 2 * n,
         NEW o \in Int, -limit <= o, o <= limit - 1, o % 4 = 0
  PROVE  /\ (o \div 4) % n \in 0 .. n - 1
         /\ 4 * Signed((o \div 4) % n, n) = o
  <1> DEFINE w == o \div 4
             h == n \div 2
  <1>1. h \in Nat /\ n = 2 * h /\ n \in Nat
    BY Half DEF EvenWidth
  <1>2. w \in Int /\ o = 4 * w
    OBVIOUS
  <1> HIDE DEF w, h
  <1>3. -h <= w /\ w < h
    BY <1>1, <1>2
  <1>4. InRange(w, n)
    BY <1>2, <1>3 DEF InRange, h
  <1>5. w % n \in 0 .. n - 1 /\ Signed(w % n, n) = w
    BY <1>4, FieldHolds
  <1> QED BY <1>2, <1>5 DEF w

\* And the offset that a field stands for is encoded in this field.
LEMMA FieldWord ==
  ASSUME NEW n, EvenWidth(n), NEW f \in 0 .. n - 1
  PROVE  LET o == 4 * Signed(f, n)
         IN  /\ o \in Int /\ -(2 * n) <= o /\ o < 2 * n /\ o % 4 = 0
             /\ (o \div 4) % n = f
  <1> DEFINE w == Signed(f, n)
             h == n \div 2
  <1>1. h \in Nat /\ n = 2 * h
    BY Half
  <1>2. InRange(w, n) /\ w % n = f
    BY FieldOf
  <1> HIDE DEF w
  <1>3. w \in Int /\ -h <= w /\ w < h
    BY <1>2 DEF InRange
  <1> HIDE DEF h
  <1>4. (4 * w) \div 4 = w /\ (4 * w) % 4 = 0 /\ 4 * w \in Int
    BY <1>3
  <1>5. -(2 * n) <= 4 * w /\ 4 * w < 2 * n
    BY <1>1, <1>3
  <1> QED BY <1>2, <1>4, <1>5 DEF w

\* ARM32: the patched call reaches the stub, if the stub is ARM code.
LEMMA ArmReaches ==
  ASSUME PatchArmTypeOK, arch = "arm", pc % 4 = 0,
         NEW p \in Nat, p < Space, p % 4 = 0, AcceptsArm(p)
  PROVE  EncodedArm(p) \in ArmInsns /\ EncodedArm(p).op = "bl" /\ Reached(EncodedArm(p)) = p
  <1> DEFINE o == OffsetArm(p)
             f == (o \div 4) % ArmField
  <1>1. code \in ArmInsns /\ pc \in Nat
    BY PatchArmAssumption DEF PatchArmTypeOK, Insns
  <1>2. code.op = "bl" /\ -ArmLimit <= o /\ o <= ArmLimit - 1
    BY DEF AcceptsArm
  <1>3. InRange(o, Space) /\ ((pc + 8) + o) % Space = p /\ o % 4 = (p - (pc + 8)) % 4
    <2>1. pc + 8 \in Int
      BY <1>1
    <2> QED BY <2>1, OffsetReaches DEF OffsetArm
  <1> HIDE DEF o
  <1>4. o \in Int /\ o % 4 = 0
    BY <1>1, <1>3 DEF InRange
  <1>5. f \in 0 .. ArmField - 1 /\ 4 * Signed(f, ArmField) = o
    BY <1>2, <1>4, WordField, SpaceWidth, PatchArmAssumption
  <1>6. EncodedArm(p) = [code EXCEPT !.field = f]
    BY DEF EncodedArm, o
  <1> HIDE DEF f
  <1>7. EncodedArm(p) \in ArmInsns /\ EncodedArm(p).op = "bl" /\ EncodedArm(p).field = f
    BY <1>1, <1>2, <1>5, <1>6 DEF ArmInsns
  <1>8. Callee(EncodedArm(p), pc) = (pc + 8) + o
    <2>1. Callee(EncodedArm(p), pc) = pc + 8 + o + 0
      BY <1>5, <1>7 DEF Callee
    <2> QED BY <1>1, <1>4, <2>1
  <1> QED BY <1>3, <1>7, <1>8 DEF Reached

\* ARM32: the target of a bl is encoded as the linker did.
LEMMA ArmGivesBack ==
  ASSUME PatchArmTypeOK, arch = "arm", linked.op = "bl", code.op = "bl"
  PROVE  EncodedArm(Target) = linked
  <1> DEFINE o == 4 * Signed(linked.field, ArmField)
  <1>1. code \in ArmInsns /\ linked \in ArmInsns /\ pc \in Nat
    BY PatchArmAssumption DEF PatchArmTypeOK, Insns
  <1>2. linked.field \in 0 .. ArmField - 1
    BY <1>1 DEF ArmInsns
  <1>3. /\ o \in Int /\ -(2 * ArmField) <= o /\ o < 2 * ArmField
        /\ (o \div 4) % ArmField = linked.field
    BY <1>2, FieldWord, SpaceWidth
  <1>4. Callee(linked, pc) = pc + 8 + o + 0
    BY DEF Callee
  <1> HIDE DEF o
  <1>5. InRange(o, Space)
    <2> DEFINE h == Space \div 2
    <2>1. h \in Nat /\ Space = 2 * h
      BY Half, SpaceWidth
    <2>2. Space >= 4 * ArmField /\ ArmField \in Nat
      BY PatchArmAssumption
    <2> HIDE DEF h
    <2>3. -h <= o /\ o < h
      BY <1>3, <2>1, <2>2
    <2> QED BY <1>3, <2>3 DEF InRange, h
  <1>6. Target = ((pc + 8) + o) % Space
    <2>1. pc + 8 + o + 0 = (pc + 8) + o
      BY <1>1, <1>3
    <2> QED BY <1>4, <2>1 DEF Target, Reached
  <1>7. Signed(Target - (pc + 8), Space) = o
    <2>1. pc + 8 \in Int
      BY <1>1
    <2> QED BY <1>5, <1>6, <2>1, OffsetKnown
  <1>8. EncodedArm(Target) = [code EXCEPT !.field = linked.field]
    BY <1>3, <1>7 DEF EncodedArm, OffsetArm
  <1> QED BY <1>1, <1>8 DEF ArmInsns

\* AArch64: the patched call reaches the stub.
LEMMA A64Reaches ==
  ASSUME PatchArmTypeOK, arch = "aarch64", pc % 4 = 0,
         NEW p \in Nat, p % 4 = 0, AcceptsA64(p)
  PROVE  EncodedA64(p) \in A64Insns /\ Reached(EncodedA64(p)) = p
  <1> DEFINE o == p - pc
             f == (o \div 4) % A64Field
  <1>1. code \in A64Insns /\ pc \in Nat
    BY PatchArmAssumption DEF PatchArmTypeOK, Insns
  <1>2. -A64Limit <= o /\ o <= A64Limit - 1
    BY DEF AcceptsA64
  <1>3. o \in Int /\ o % 4 = 0 /\ pc + o = p
    BY <1>1
  <1> HIDE DEF o
  <1>4. f \in 0 .. A64Field - 1 /\ 4 * Signed(f, A64Field) = o
    BY <1>2, <1>3, WordField, SpaceWidth, PatchArmAssumption
  <1>5. EncodedA64(p) = [code EXCEPT !.field = f]
    BY DEF EncodedA64, o
  <1> HIDE DEF f
  <1>6. EncodedA64(p) \in A64Insns /\ EncodedA64(p).field = f
    BY <1>1, <1>4, <1>5 DEF A64Insns
  <1>7. Reached(EncodedA64(p)) = pc + o
    BY <1>4, <1>6 DEF Reached, Callee
  <1> QED BY <1>3, <1>6, <1>7

\* AArch64: the target is encoded as the linker did.
LEMMA A64GivesBack ==
  ASSUME PatchArmTypeOK, arch = "aarch64"
  PROVE  EncodedA64(Target) = linked
  <1> DEFINE o == 4 * Signed(linked.field, A64Field)
  <1>1. code \in A64Insns /\ linked \in A64Insns /\ pc \in Nat
    BY PatchArmAssumption DEF PatchArmTypeOK, Insns
  <1>2. linked.field \in 0 .. A64Field - 1
    BY <1>1 DEF A64Insns
  <1>3. o \in Int /\ (o \div 4) % A64Field = linked.field
    BY <1>2, FieldWord, SpaceWidth
  <1>4. Target = pc + o
    BY DEF Target, Reached, Callee
  <1> HIDE DEF o
  <1>5. Target - pc = o
    BY <1>1, <1>3, <1>4
  <1>6. EncodedA64(Target) = [code EXCEPT !.field = linked.field]
    BY <1>3, <1>5 DEF EncodedA64
  <1> QED BY <1>1, <1>6 DEF A64Insns

-----------------------------------------------------------------------------
(* bl of Thumb: a half-word offset in five fields.                         *)

LEMMA ThumbWidth ==
  /\ Imm10 \in Nat /\ Imm10 > 0 /\ Imm11 \in Nat /\ Imm11 > 0
  /\ Imm10 * Imm11 \in Nat /\ Imm10 * Imm11 > 0
  /\ ThumbLimit = 8 * (Imm10 * Imm11)
  /\ ThumbLimit \in Nat /\ ThumbLimit > 0 /\ Space >= 4 * ThumbLimit
  /\ EvenWidth(2 * ThumbLimit) /\ (2 * ThumbLimit) \div 2 = ThumbLimit
  <1>1. Imm10 \in Nat /\ Imm10 > 0 /\ Imm11 \in Nat /\ Imm11 > 0 /\ Space >= 4 * ThumbLimit
    BY PatchArmAssumption
  <1>2. Imm10 * Imm11 \in Nat /\ Imm10 * Imm11 > 0
    BY <1>1
  <1>3. ThumbLimit = 8 * (Imm10 * Imm11)
    BY <1>1 DEF ThumbLimit
  <1> DEFINE m == Imm10 * Imm11
  <1>4. m \in Nat /\ m > 0 /\ ThumbLimit = 8 * m
    BY <1>2, <1>3
  <1> HIDE DEF m
  <1>5. ThumbLimit \in Nat /\ ThumbLimit > 0
    BY <1>4
  <1>6. 2 * ThumbLimit \in Nat /\ 2 * ThumbLimit > 0 /\ (2 * ThumbLimit) % 2 = 0
        /\ (2 * ThumbLimit) \div 2 = ThumbLimit
    BY <1>5
  <1> QED BY <1>1, <1>2, <1>3, <1>5, <1>6 DEF EvenWidth

\* The half-words of a Thumb offset, put together from its bits.
Halves(s, i1, i2, imm10, imm11) ==
  (((s * 2 + i1) * 2 + i2) * Imm10 + imm10) * Imm11 + imm11

\* h has these bits and immediates, up to a multiple of the range.
Digits(h, s, i1, i2, imm10, imm11) ==
  \E e \in Int : h = Halves(s, i1, i2, imm10, imm11) + ThumbLimit * e

\* Bits and immediates are the digits of the half-words: they are there and
\* within the range of the offset,
LEMMA HalvesRange ==
  ASSUME NEW s \in Bit, NEW i1 \in Bit, NEW i2 \in Bit,
         NEW imm10 \in 0 .. Imm10 - 1, NEW imm11 \in 0 .. Imm11 - 1
  PROVE  Halves(s, i1, i2, imm10, imm11) \in 0 .. ThumbLimit - 1
  <1> DEFINE top == (s * 2 + i1) * 2 + i2
             mid == top * Imm10 + imm10
  <1>1. top \in Nat /\ top <= 7
    BY DEF Bit
  <1> HIDE DEF top
  <1>2. Imm10 \in Nat /\ Imm10 > 0 /\ Imm11 \in Nat /\ Imm11 > 0
        /\ imm10 \in Nat /\ imm10 < Imm10 /\ imm11 \in Nat /\ imm11 < Imm11
    BY ThumbWidth
  <1>3. mid \in Nat /\ mid <= 8 * Imm10 - 1
    <2>1. top * Imm10 \in Nat
      BY <1>1, <1>2, ProductNat
    <2>2. (7 - top) * Imm10 \in Nat
      BY <1>1, <1>2, ProductNat
    <2>3. (7 - top) * Imm10 = 7 * Imm10 - top * Imm10
      BY <1>1, <1>2
    <2> QED BY <1>2, <2>1, <2>2, <2>3
  <1> HIDE DEF mid
  <1> DEFINE bits == mid * Imm11 + imm11
  <1>4. bits \in Nat /\ bits <= 8 * (Imm10 * Imm11) - 1
    <2>1. mid * Imm11 \in Nat
      BY <1>2, <1>3, ProductNat
    <2>2. (8 * Imm10 - 1 - mid) * Imm11 \in Nat
      BY <1>2, <1>3, ProductNat
    <2>3. (8 * Imm10 - 1 - mid) * Imm11 = 8 * (Imm10 * Imm11) - Imm11 - mid * Imm11
      BY <1>2, <1>3
    <2> QED BY <1>2, <2>1, <2>2, <2>3, ThumbWidth
  <1>5. Halves(s, i1, i2, imm10, imm11) = bits
    BY DEF Halves, mid, top
  <1> HIDE DEF bits
  <1> QED BY <1>4, <1>5, ThumbWidth

\* division finds them, whatever multiple of the range is added,
LEMMA HalvesDigits ==
  ASSUME NEW s \in Bit, NEW i1 \in Bit, NEW i2 \in Bit,
         NEW imm10 \in 0 .. Imm10 - 1, NEW imm11 \in 0 .. Imm11 - 1,
         NEW h, Digits(h, s, i1, i2, imm10, imm11)
  PROVE  LET a == h \div Imm11
             b == a \div Imm10
         IN  /\ h \in Int /\ h % Imm11 = imm11 /\ a \in Int /\ a % Imm10 = imm10
             /\ b \in Int /\ b % 2 = i2 /\ (b \div 2) % 2 = i1 /\ ((b \div 2) \div 2) % 2 = s
  <1>0. PICK e \in Int : h = Halves(s, i1, i2, imm10, imm11) + ThumbLimit * e
    BY DEF Digits
  <1> DEFINE top == (s * 2 + i1) * 2 + i2
             b == 8 * e + top
             a == Imm10 * b + imm10
  <1>1. Imm10 \in Nat /\ Imm10 > 0 /\ Imm11 \in Nat /\ Imm11 > 0
        /\ imm10 \in Int /\ 0 <= imm10 /\ imm10 < Imm10
        /\ imm11 \in Int /\ 0 <= imm11 /\ imm11 < Imm11
    BY ThumbWidth
  <1>2. top \in Int /\ b \in Int
    BY DEF Bit
  <1>3. b % 2 = i2 /\ (b \div 2) % 2 = i1 /\ ((b \div 2) \div 2) % 2 = s
    <2>1. b \div 2 = 4 * e + (s * 2 + i1) /\ b % 2 = i2
      BY DEF Bit
    <2>2. (4 * e + (s * 2 + i1)) \div 2 = 2 * e + s /\ (4 * e + (s * 2 + i1)) % 2 = i1
      BY DEF Bit
    <2>3. (2 * e + s) % 2 = s
      BY DEF Bit
    <2> QED BY <2>1, <2>2, <2>3
  <1>4. h = Imm11 * a + imm11
    <2>1. Halves(s, i1, i2, imm10, imm11) = (top * Imm10 + imm10) * Imm11 + imm11
      BY DEF Halves
    <2> HIDE DEF top
    <2> DEFINE m == Imm10 * Imm11
    <2>2. ThumbLimit * e = 8 * (m * e) /\ m \in Int
      BY <1>1, ThumbWidth
    <2>3. (top * Imm10 + imm10) * Imm11 = top * m + imm10 * Imm11
      BY <1>1, <1>2
    <2>4. Imm11 * a = 8 * (m * e) + top * m + imm10 * Imm11
      BY <1>1, <1>2
    <2> HIDE DEF m, a
    <2>5. m * e \in Int /\ top * m \in Int /\ imm10 * Imm11 \in Int
      BY <1>1, <1>2, <2>2
    <2> QED BY <1>0, <1>1, <2>1, <2>2, <2>3, <2>4, <2>5
  <1> HIDE DEF b
  <1>5. a \in Int
    BY <1>1, <1>2
  <1>6. a \div Imm10 = b /\ a % Imm10 = imm10
    BY <1>1, <1>2, DivModUnique
  <1> HIDE DEF a
  <1>7. h \div Imm11 = a /\ h % Imm11 = imm11 /\ h \in Int
    BY <1>1, <1>4, <1>5, DivModUnique
  <1> QED BY <1>2, <1>3, <1>5, <1>6, <1>7

\* and they are all there is to a number, up to such a multiple.
LEMMA DigitsHalves ==
  ASSUME NEW h \in Int
  PROVE  LET a == h \div Imm11
             b == a \div Imm10
             s == ((b \div 2) \div 2) % 2
             i1 == (b \div 2) % 2
             i2 == b % 2
             imm10 == a % Imm10
             imm11 == h % Imm11
         IN  /\ s \in Bit /\ i1 \in Bit /\ i2 \in Bit
             /\ imm10 \in 0 .. Imm10 - 1 /\ imm11 \in 0 .. Imm11 - 1
             /\ Digits(h, s, i1, i2, imm10, imm11)
  <1> DEFINE a == h \div Imm11
             b == a \div Imm10
             c == b \div 2
             d == c \div 2
             e == d \div 2
             s == d % 2
             i1 == c % 2
             i2 == b % 2
             imm10 == a % Imm10
             imm11 == h % Imm11
             top == (s * 2 + i1) * 2 + i2
             m == Imm10 * Imm11
  <1>1. Imm10 \in Nat /\ Imm10 > 0 /\ Imm11 \in Nat /\ Imm11 > 0 /\ m \in Int
        /\ ThumbLimit = 8 * m
    BY ThumbWidth
  <1>2. a \in Int /\ imm11 \in Int /\ 0 <= imm11 /\ imm11 < Imm11 /\ h = Imm11 * a + imm11
    BY <1>1, DivMod
  <1> HIDE DEF a, imm11
  <1>3. b \in Int /\ imm10 \in Int /\ 0 <= imm10 /\ imm10 < Imm10 /\ a = Imm10 * b + imm10
    BY <1>1, <1>2, DivMod
  <1> HIDE DEF b, imm10
  <1>4. c \in Int /\ d \in Int /\ e \in Int /\ s \in Bit /\ i1 \in Bit /\ i2 \in Bit
    BY <1>3 DEF Bit
  <1>5. b = 8 * e + top /\ top \in Int
    BY <1>3, <1>4 DEF Bit
  <1>6. Halves(s, i1, i2, imm10, imm11) = (top * Imm10 + imm10) * Imm11 + imm11
    BY DEF Halves
  <1> HIDE DEF c, d, e, s, i1, i2, top
  <1>7. h = Halves(s, i1, i2, imm10, imm11) + ThumbLimit * e
    <2>1. ThumbLimit * e = 8 * (m * e)
      BY <1>1, <1>4
    <2>2. (top * Imm10 + imm10) * Imm11 = top * m + imm10 * Imm11
      BY <1>1, <1>3, <1>5
    <2>3. Imm11 * a = 8 * (m * e) + top * m + imm10 * Imm11
      BY <1>1, <1>3, <1>4, <1>5
    <2> HIDE DEF m
    <2>4. m * e \in Int /\ top * m \in Int /\ imm10 * Imm11 \in Int
      BY <1>1, <1>3, <1>4, <1>5
    <2> QED BY <1>2, <1>6, <2>1, <2>2, <2>3, <2>4
  <1>8. imm10 \in 0 .. Imm10 - 1 /\ imm11 \in 0 .. Imm11 - 1
    BY <1>1, <1>2, <1>3
  <1>9. Digits(h, s, i1, i2, imm10, imm11)
    BY <1>4, <1>7 DEF Digits
  <1> QED BY <1>4, <1>8, <1>9 DEF a, b, c, d, s, i1, i2, imm10, imm11

\* The j bits are the i bits, exchanged with the sign.
LEMMA JBits ==
  ASSUME NEW i \in Bit, NEW s \in Bit
  PROVE  1 - Xor(i, s) \in Bit /\ 1 - Xor(1 - Xor(i, s), s) = i
  BY DEF Bit, Xor

\* The divisions of the encoder take the digits of the half-words.
LEMMA ThumbDivisions ==
  ASSUME NEW o \in Int
  PROVE  LET h == o \div 2
             a == h \div Imm11
             b == a \div Imm10
         IN  /\ o \div (2 * Imm11) = a
             /\ o \div (ThumbLimit \div 4) = b
             /\ o \div (ThumbLimit \div 2) = b \div 2
             /\ o \div ThumbLimit = (b \div 2) \div 2
  <1> DEFINE h == o \div 2
             a == h \div Imm11
             b == a \div Imm10
             m == Imm11 * Imm10
  <1>1. Imm10 \in Nat /\ Imm10 > 0 /\ Imm11 \in Nat /\ Imm11 > 0 /\ h \in Int
    BY ThumbWidth
  <1>2. m \in Nat /\ m > 0 /\ ThumbLimit = 8 * m
    <2>1. m = Imm10 * Imm11
      BY <1>1
    <2> QED BY <2>1, ThumbWidth
  <1>3. o \div (2 * Imm11) = a
    BY <1>1, DivDiv
  <1>4. h \div m = b
    BY <1>1, DivDiv
  <1> HIDE DEF m
  <1>5. o \div (2 * m) = b
    <2>1. o \div (2 * m) = h \div m
      BY <1>2, DivDiv
    <2> QED BY <1>4, <2>1
  <1>6. o \div ((2 * m) * 2) = b \div 2
    <2>1. 2 * m \in Nat /\ 2 * m > 0
      BY <1>2
    <2>2. o \div ((2 * m) * 2) = (o \div (2 * m)) \div 2
      BY <2>1, DivDiv
    <2> QED BY <1>5, <2>2
  <1>7. o \div (((2 * m) * 2) * 2) = (b \div 2) \div 2
    <2>1. (2 * m) * 2 \in Nat /\ (2 * m) * 2 > 0
      BY <1>2
    <2>2. o \div (((2 * m) * 2) * 2) = (o \div ((2 * m) * 2)) \div 2
      BY <2>1, DivDiv
    <2> QED BY <1>6, <2>2
  <1>8. ThumbLimit \div 4 = 2 * m /\ ThumbLimit \div 2 = (2 * m) * 2 /\ ThumbLimit = ((2 * m) * 2) * 2
    BY <1>2
  <1> QED BY <1>3, <1>5, <1>6, <1>7, <1>8

\* A bl holds every even offset in its range.
LEMMA ThumbEncodes ==
  ASSUME NEW p, OffsetThumb(p) \in Int, OffsetThumb(p) % 2 = 0, AcceptsThumb(p)
  PROVE  /\ EncodedThumb(p) \in ThumbInsns /\ EncodedThumb(p).op = "bl"
         /\ ThumbOffset(EncodedThumb(p)) = OffsetThumb(p)
  <1> DEFINE o == OffsetThumb(p)
             h == o \div 2
             a == h \div Imm11
             b == a \div Imm10
             s == ((b \div 2) \div 2) % 2
             i1 == (b \div 2) % 2
             i2 == b % 2
             imm10 == a % Imm10
             imm11 == h % Imm11
             n == 2 * ThumbLimit
             H == Halves(s, i1, i2, imm10, imm11)
  <1>1. /\ o \in Int /\ -ThumbLimit <= o /\ o <= ThumbLimit - 1 /\ h \in Int /\ o = 2 * h
    BY DEF AcceptsThumb
  <1>2. EncodedThumb(p) =
          [op |-> "bl", s |-> s, j1 |-> 1 - Xor(i1, s), j2 |-> 1 - Xor(i2, s),
           imm10 |-> imm10, imm11 |-> imm11]
    BY <1>1, ThumbDivisions DEF EncodedThumb, SignBit
  <1>3. /\ s \in Bit /\ i1 \in Bit /\ i2 \in Bit
        /\ imm10 \in 0 .. Imm10 - 1 /\ imm11 \in 0 .. Imm11 - 1
        /\ Digits(h, s, i1, i2, imm10, imm11)
    BY <1>1, DigitsHalves
  <1> HIDE DEF o, h, s, i1, i2, imm10, imm11
  <1>4. H \in 0 .. ThumbLimit - 1
    BY <1>3, HalvesRange
  <1>5. EncodedThumb(p) \in ThumbInsns /\ EncodedThumb(p).op = "bl"
    BY <1>2, <1>3, JBits DEF ThumbInsns
  <1>6. ThumbOffset(EncodedThumb(p)) = Signed(2 * H, n)
    <2>1. 1 - Xor(1 - Xor(i1, s), s) = i1 /\ 1 - Xor(1 - Xor(i2, s), s) = i2
      BY <1>3, JBits
    <2> QED BY <1>2, <2>1 DEF ThumbOffset, Halves
  <1>7. PICK e \in Int : h = H + ThumbLimit * e
    BY <1>3 DEF Digits
  <1> HIDE DEF H
  <1>8. 2 * H \in Int /\ Wraps(2 * H, o, n)
    <2> DEFINE z == ThumbLimit * e
    <2>1. z \in Int /\ ThumbLimit \in Nat /\ H \in Int
      BY <1>4, ThumbWidth
    <2>2. n * (-e) = -(2 * z) /\ -e \in Int
      BY ThumbWidth
    <2> HIDE DEF z, n
    <2>3. h = H + z
      BY <1>7 DEF z
    <2>4. 2 * H = -(2 * z) + o
      BY <1>1, <2>1, <2>3
    <2>5. 2 * H = n * (-e) + o
      BY <2>2, <2>4
    <2> QED BY <2>1, <2>2, <2>5 DEF Wraps
  <1>9. InRange(o, n) /\ EvenWidth(n)
    BY <1>1, ThumbWidth DEF InRange
  <1>10. Signed(2 * H, n) = o
    BY <1>8, <1>9, SignedIs
  <1> QED BY <1>5, <1>6, <1>10 DEF o

\* The offset of a call is even and in this range, and encoded as it was.
LEMMA ThumbDecodes ==
  ASSUME NEW x \in ThumbInsns
  PROVE  /\ ThumbOffset(x) \in Int /\ ThumbOffset(x) % 2 = 0
         /\ -ThumbLimit <= ThumbOffset(x) /\ ThumbOffset(x) <= ThumbLimit - 1
         /\ \A p : OffsetThumb(p) = ThumbOffset(x) => EncodedThumb(p) = [x EXCEPT !.op = "bl"]
  <1> DEFINE i1 == 1 - Xor(x.j1, x.s)
             i2 == 1 - Xor(x.j2, x.s)
             H == Halves(x.s, i1, i2, x.imm10, x.imm11)
             n == 2 * ThumbLimit
             o == ThumbOffset(x)
             h == o \div 2
  <1>1. /\ x.s \in Bit /\ x.j1 \in Bit /\ x.j2 \in Bit
        /\ x.imm10 \in 0 .. Imm10 - 1 /\ x.imm11 \in 0 .. Imm11 - 1
        /\ x = [op |-> x.op, s |-> x.s, j1 |-> x.j1, j2 |-> x.j2,
                imm10 |-> x.imm10, imm11 |-> x.imm11]
    BY DEF ThumbInsns
  <1>2. i1 \in Bit /\ i2 \in Bit /\ 1 - Xor(i1, x.s) = x.j1 /\ 1 - Xor(i2, x.s) = x.j2
    BY <1>1, JBits
  <1>3. o = Signed(2 * H, n)
    BY DEF ThumbOffset, Halves
  <1> HIDE DEF i1, i2
  <1>4. H \in 0 .. ThumbLimit - 1
    BY <1>1, <1>2, HalvesRange
  <1>5. 2 * H \in Int /\ H \in Int /\ EvenWidth(n) /\ ThumbLimit \in Nat /\ n \div 2 = ThumbLimit
    <2> HIDE DEF H
    <2> QED BY <1>4, ThumbWidth
  <1> HIDE DEF o, H
  <1>6. InRange(o, n) /\ Wraps(2 * H, o, n)
    BY <1>3, <1>5, SignedRange
  <1>7. o \in Int /\ -ThumbLimit <= o /\ o <= ThumbLimit - 1
    BY <1>5, <1>6 DEF InRange
  <1>8. PICK k \in Int : 2 * H = n * k + o
    BY <1>6 DEF Wraps
  <1>9. h = H + ThumbLimit * (-k) /\ -k \in Int /\ o % 2 = 0
    <2> DEFINE z == ThumbLimit * k
    <2>1. z \in Int /\ n * k = 2 * z /\ ThumbLimit * (-k) = -z
      BY <1>5
    <2> HIDE DEF z, n
    <2>2. o = 2 * (H + (-z))
      BY <1>5, <1>7, <1>8, <2>1
    <2>3. h = H + (-z) /\ o % 2 = 0
      BY <1>5, <2>1, <2>2
    <2> QED BY <2>1, <2>3
  <1>10. ASSUME NEW p, OffsetThumb(p) = o
         PROVE  EncodedThumb(p) = [x EXCEPT !.op = "bl"]
    <2> DEFINE a == h \div Imm11
               b == a \div Imm10
    <2>1. /\ h % Imm11 = x.imm11 /\ a % Imm10 = x.imm10
          /\ b % 2 = i2 /\ (b \div 2) % 2 = i1 /\ ((b \div 2) \div 2) % 2 = x.s
      <3>1. Digits(h, x.s, i1, i2, x.imm10, x.imm11)
        BY <1>9 DEF H, Digits
      <3> HIDE DEF h
      <3> QED BY <1>1, <1>2, <3>1, HalvesDigits
    <2>2. /\ o \div (2 * Imm11) = a
          /\ o \div (ThumbLimit \div 4) = b
          /\ o \div (ThumbLimit \div 2) = b \div 2
          /\ o \div ThumbLimit = (b \div 2) \div 2
      BY <1>7, ThumbDivisions
    <2>3. /\ (o \div ThumbLimit) % 2 = x.s
          /\ (o \div (ThumbLimit \div 2)) % 2 = i1 /\ (o \div (ThumbLimit \div 4)) % 2 = i2
          /\ (o \div (2 * Imm11)) % Imm10 = x.imm10 /\ (o \div 2) % Imm11 = x.imm11
      BY <2>1, <2>2
    <2> HIDE DEF a, b
    <2>4. EncodedThumb(p) = [op |-> "bl", s |-> x.s, j1 |-> x.j1, j2 |-> x.j2,
                             imm10 |-> x.imm10, imm11 |-> x.imm11]
      BY <1>2, <1>10, <2>3 DEF EncodedThumb, SignBit
    <2> QED BY <1>1, <2>4
  <1> QED BY <1>7, <1>9, <1>10 DEF o

\* Thumb: the patched call reaches the stub, if the stub is Thumb code.
LEMMA ThumbReaches ==
  ASSUME PatchArmTypeOK, arch = "thumb", NEW p \in Nat, p < Space, p % 2 = 1, AcceptsThumb(p)
  PROVE  EncodedThumb(p) \in ThumbInsns /\ Reached(EncodedThumb(p)) = p
  <1> DEFINE o == OffsetThumb(p)
             x == EncodedThumb(p)
  <1>1. pc \in Nat /\ pc % 2 = 0
    BY PatchArmAssumption DEF PatchArmTypeOK
  <1>2. o = Signed(p - (pc + 5), Space)
    <2>1. Even(p) - (pc + 4) = p - (pc + 5)
      BY <1>1 DEF Even
    <2> QED BY <2>1 DEF OffsetThumb
  <1> HIDE DEF o
  <1>3. InRange(o, Space) /\ ((pc + 5) + o) % Space = p /\ o % 4 = (p - (pc + 5)) % 4
    <2>1. pc + 5 \in Int
      BY <1>1
    <2> QED BY <1>2, <2>1, OffsetReaches
  <1>4. o \in Int /\ o % 2 = 0
    <2>1. o \in Int
      BY <1>3 DEF InRange
    <2> QED BY <1>1, <1>3, <2>1
  <1>5. x \in ThumbInsns /\ x.op = "bl" /\ ThumbOffset(x) = o
    BY <1>4, ThumbEncodes DEF o
  <1> HIDE DEF x
  <1>6. Callee(x, pc) = (pc + 5) + o
    <2>1. Callee(x, pc) = pc + 4 + o + 1
      BY <1>5 DEF Callee
    <2> QED BY <1>1, <1>4, <2>1
  <1>7. Reached(x) = p
    BY <1>3, <1>6 DEF Reached
  <1> QED BY <1>5, <1>7 DEF x

\* Thumb: the target of a bl is accepted and encoded as the linker did.
LEMMA ThumbTarget ==
  ASSUME PatchArmTypeOK, arch = "thumb", linked.op = "bl"
  PROVE  AcceptsThumb(Target) /\ EncodedThumb(Target) = linked
  <1> DEFINE o == ThumbOffset(linked)
  <1>1. linked \in ThumbInsns /\ pc \in Nat /\ pc % 2 = 0
    BY PatchArmAssumption DEF PatchArmTypeOK, Insns
  <1>2. o \in Int /\ o % 2 = 0 /\ -ThumbLimit <= o /\ o <= ThumbLimit - 1
    BY <1>1, ThumbDecodes
  <1>3. Callee(linked, pc) = pc + 4 + o + 1
    BY DEF Callee
  <1> HIDE DEF o
  <1>4. InRange(o, Space)
    <2> DEFINE w == Space \div 2
    <2>1. w \in Nat /\ Space = 2 * w
      BY Half, SpaceWidth
    <2> HIDE DEF w
    <2>2. -w <= o /\ o < w
      BY <1>2, <2>1, ThumbWidth
    <2> QED BY <1>2, <2>2 DEF InRange, w
  <1>5. Target = ((pc + 5) + o) % Space
    <2>1. pc + 4 + o + 1 = (pc + 5) + o
      BY <1>1, <1>2
    <2> QED BY <1>3, <2>1 DEF Target, Reached
  <1>6. /\ Target \in 0 .. Space - 1 /\ Signed(Target - (pc + 5), Space) = o
        /\ Target % 4 = ((pc + 5) + o) % 4
    <2>1. pc + 5 \in Int
      BY <1>1
    <2> QED BY <1>4, <1>5, <2>1, OffsetKnown
  <1>7. Target \in Nat /\ Target % 2 = 1
    BY <1>1, <1>2, <1>6, SpaceWidth
  <1>8. OffsetThumb(Target) = o
    <2>1. Even(Target) - (pc + 4) = Target - (pc + 5)
      BY <1>1, <1>7 DEF Even
    <2> QED BY <1>6, <2>1 DEF OffsetThumb
  <1>9. EncodedThumb(Target) = [linked EXCEPT !.op = "bl"]
    BY <1>1, <1>8, ThumbDecodes DEF o
  <1>10. [linked EXCEPT !.op = "bl"] = linked
    BY <1>1 DEF ThumbInsns
  <1> QED BY <1>2, <1>8, <1>9, <1>10 DEF AcceptsThumb

-----------------------------------------------------------------------------
(* The invariant.                                                          *)

\* What is accepted is encoded in the instruction set, and an ARM call stays
\* the operation it was.
LEMMA PatchTyped ==
  ASSUME PatchArmTypeOK, arch # "thumb" => pc % 4 = 0, NEW p \in Int, Accepts(p)
  PROVE  Encoded(p) \in Insns(arch) /\ (arch # "thumb" => Encoded(p).op = code.op)
  <1>1. CASE arch = "arm"
    <2>1. code \in ArmInsns /\ pc \in Nat
      BY <1>1, PatchArmAssumption DEF PatchArmTypeOK, Insns
    <2>2. OffsetArm(p) \in Int
      <3>1. p - (pc + 8) \in Int
        BY <2>1
      <3> QED BY <3>1, SignedRange, SpaceWidth DEF OffsetArm, InRange
    <2>3. (OffsetArm(p) \div 4) % ArmField \in 0 .. ArmField - 1
      <3>1. OffsetArm(p) \div 4 \in Int
        BY <2>2
      <3> QED BY <3>1, ModWraps, SpaceWidth DEF EvenWidth
    <2>4. EncodedArm(p) \in ArmInsns /\ EncodedArm(p).op = code.op
      BY <2>1, <2>3 DEF EncodedArm, ArmInsns
    <2> QED BY <1>1, <2>4 DEF Encoded, Insns
  <1>2. CASE arch = "thumb"
    <2>1. pc \in Nat
      BY PatchArmAssumption DEF PatchArmTypeOK
    <2>2. OffsetThumb(p) \in Int
      <3>1. Even(p) - (pc + 4) \in Int
        BY <2>1 DEF Even
      <3> QED BY <3>1, SignedRange, SpaceWidth DEF OffsetThumb, InRange
    <2> DEFINE o == OffsetThumb(p)
    <2> HIDE DEF o
    <2>3. (o \div 2) % Imm11 \in 0 .. Imm11 - 1 /\ (o \div (2 * Imm11)) % Imm10 \in 0 .. Imm10 - 1
      <3>1. o \div 2 \in Int /\ o \div (2 * Imm11) \in Int
        BY <2>2, ThumbWidth DEF o
      <3> QED BY <3>1, ModWraps, ThumbWidth
    <2>4. /\ (o \div ThumbLimit) % 2 \in Bit
          /\ (o \div (ThumbLimit \div 2)) % 2 \in Bit
          /\ (o \div (ThumbLimit \div 4)) % 2 \in Bit
      <3>1. ThumbLimit \div 2 > 0 /\ ThumbLimit \div 4 > 0 /\ ThumbLimit > 0
            /\ ThumbLimit \in Nat /\ ThumbLimit \div 2 \in Nat /\ ThumbLimit \div 4 \in Nat
        <4> DEFINE m == Imm10 * Imm11
        <4>1. m \in Nat /\ m > 0 /\ ThumbLimit = 8 * m
          BY ThumbWidth
        <4> HIDE DEF m
        <4> QED BY <4>1
      <3>2. /\ o \div ThumbLimit \in Int /\ o \div (ThumbLimit \div 2) \in Int
            /\ o \div (ThumbLimit \div 4) \in Int
        BY <2>2, <3>1, DivMod DEF o
      <3>3. \A z \in Int : z % 2 \in Bit
        BY DEF Bit
      <3> QED BY <3>2, <3>3
    <2>5. EncodedThumb(p) \in ThumbInsns
      BY <2>3, <2>4, JBits DEF EncodedThumb, SignBit, ThumbInsns, o
    <2> QED BY <1>2, <2>5 DEF Encoded, Insns
  <1>3. CASE arch = "aarch64"
    <2>1. code \in A64Insns /\ pc \in Nat
      BY <1>3, PatchArmAssumption DEF PatchArmTypeOK, Insns
    <2>2. ((p - pc) \div 4) % A64Field \in 0 .. A64Field - 1
      <3>1. (p - pc) \div 4 \in Int
        BY <2>1
      <3> QED BY <3>1, ModWraps, SpaceWidth DEF EvenWidth
    <2>3. EncodedA64(p) \in A64Insns /\ EncodedA64(p).op = code.op
      BY <2>1, <2>2 DEF EncodedA64, A64Insns
    <2> QED BY <1>3, <2>3 DEF Encoded, Insns
  <1> QED BY <1>1, <1>2, <1>3, PatchArmAssumption DEF PatchArmTypeOK

\* What a stub accepted is reached by.
LEMMA PatchReaches ==
  ASSUME PatchArmTypeOK, arch # "thumb" => pc % 4 = 0,
         NEW p \in Pointers, IsPointer(p), Accepts(p),
         p % 2 = (IF arch = "thumb" THEN 1 ELSE 0)
  PROVE  Reached(Encoded(p)) = p
  <1>1. p \in Nat /\ (p % 2 = 1 \/ p % 4 = 0)
    BY PatchArmAssumption
  <1>2. CASE arch = "arm"
    <2>1. p % 4 = 0
      BY <1>1, <1>2
    <2> QED BY <1>1, <1>2, <2>1, ArmReaches DEF IsPointer, Accepts, Encoded
  <1>3. CASE arch = "thumb"
    BY <1>1, <1>3, ThumbReaches DEF IsPointer, Accepts, Encoded
  <1>4. CASE arch = "aarch64"
    BY <1>1, <1>4, A64Reaches DEF IsPointer, Accepts, Encoded
  <1> QED BY <1>2, <1>3, <1>4, PatchArmAssumption DEF PatchArmTypeOK

\* The target of the linked call, if it is accepted.
LEMMA PatchGivesBack ==
  ASSUME PatchArmInv, Accepts(Target)
  PROVE  Encoded(Target) = linked \/ linked.op = "blx"
  <1>1. CASE arch = "arm"
    <2>1. code.op = "bl" /\ linked.op = "bl"
      BY <1>1 DEF Accepts, AcceptsArm, PatchArmInv
    <2> QED BY <1>1, <2>1, ArmGivesBack DEF Encoded, PatchArmInv
  <1>2. CASE arch = "thumb"
    <2>1. linked.op = "bl" \/ linked.op = "blx"
      BY <1>2 DEF PatchArmInv, PatchArmTypeOK, Insns, ThumbInsns
    <2> QED BY <1>2, <2>1, ThumbTarget DEF Encoded, PatchArmInv
  <1>3. CASE arch = "aarch64"
    BY <1>3, A64GivesBack DEF Encoded, PatchArmInv
  <1> QED BY <1>1, <1>2, <1>3, PatchArmAssumption DEF PatchArmInv, PatchArmTypeOK

\* The target is an address, of whatever the call reaches.
LEMMA TargetInt == ASSUME PatchArmTypeOK PROVE Target \in Int
  <1>1. pc \in Nat
    BY PatchArmAssumption DEF PatchArmTypeOK
  <1>2. CASE arch = "arm"
    <2>1. linked.field \in 0 .. ArmField - 1
      BY <1>2 DEF PatchArmTypeOK, Insns, ArmInsns
    <2> DEFINE o == 4 * Signed(linked.field, ArmField)
    <2>2. o \in Int
      BY <2>1, FieldWord, SpaceWidth
    <2> HIDE DEF o
    <2>3. Callee(linked, pc) = pc + 8 + o
            + (IF linked.op = "blx" THEN 1 ELSE IF linked.op = "blxh" THEN 3 ELSE 0)
      BY <1>2 DEF Callee, o
    <2>4. Callee(linked, pc) \in Int
      BY <1>1, <2>2, <2>3
    <2> QED BY <1>2, <2>4, DivMod, SpaceWidth DEF Target, Reached
  <1>3. CASE arch = "thumb"
    <2>1. ThumbOffset(linked) \in Int
      BY <1>3, ThumbDecodes DEF PatchArmTypeOK, Insns
    <2>2. Callee(linked, pc) \in Int
      BY <1>1, <1>3, <2>1 DEF Callee
    <2> QED BY <1>3, <2>2, DivMod, SpaceWidth DEF Target, Reached
  <1>4. CASE arch = "aarch64"
    <2>1. linked.field \in 0 .. A64Field - 1
      BY <1>4 DEF PatchArmTypeOK, Insns, A64Insns
    <2> DEFINE o == 4 * Signed(linked.field, A64Field)
    <2>2. o \in Int
      BY <2>1, FieldWord, SpaceWidth
    <2> HIDE DEF o
    <2>3. Target = pc + o
      BY <1>4 DEF Target, Reached, Callee, o
    <2> QED BY <1>1, <2>2, <2>3
  <1> QED BY <1>2, <1>3, <1>4, PatchArmAssumption DEF PatchArmTypeOK

\* A patch keeps the types, and an ARM call its operation.
LEMMA PatchKeeps ==
  ASSUME PatchArmInv, NEW p \in Int, NEW step, NEW before, Patch(p, step, before),
         UNCHANGED arch
  PROVE  code' \in Insns(arch') /\ (arch # "thumb" => code'.op = code.op)
  <1>1. CASE UNCHANGED code
    BY <1>1 DEF PatchArmInv, PatchArmTypeOK
  <1>2. CASE Accepts(p) /\ code' = Encoded(p)
    <2>1. Encoded(p) \in Insns(arch) /\ (arch # "thumb" => Encoded(p).op = code.op)
      BY <1>2, PatchTyped DEF PatchArmInv
    <2>2. Insns(arch') = Insns(arch)
      OBVIOUS
    <2> QED BY <1>2, <2>1, <2>2
  <1> QED BY <1>1, <1>2 DEF Patch

LEMMA PatchArmNext == PatchArmInv /\ [Next]_vars => PatchArmInv'
  <1> SUFFICES ASSUME PatchArmInv, [Next]_vars PROVE PatchArmInv'
    OBVIOUS
  <1>0. PatchArmTypeOK /\ (arch # "thumb" => pc % 4 = 0 /\ code.op = linked.op)
    BY DEF PatchArmInv
  <1>1. ASSUME NEW p \in Pointers, IsPointer(p), Apply(p)
        PROVE  PatchArmInv'
    <2>1. p \in Int
      BY PatchArmAssumption
    <2>2. UNCHANGED <<arch, linked, pc>> /\ stub' = p /\ phase' = "applied" /\ Patch(p, "apply", {})
      BY <1>1 DEF Apply
    <2>3. code' \in Insns(arch') /\ (arch # "thumb" => code'.op = code.op)
      BY <2>1, <2>2, PatchKeeps
    <2>4. refused' \subseteq {"apply"} /\ (refused' = {} => Accepts(p) /\ code' = Encoded(p))
      BY <2>2 DEF Patch
    <2>5. PatchArmTypeOK'
      <3>1. Insns(arch') = Insns(arch)
        BY <2>2
      <3> QED BY <1>0, <2>2, <2>3, <2>4, <3>1 DEF PatchArmTypeOK
    <2>6. AppliedReachesStub'
      <3> SUFFICES ASSUME refused' = {}, SameSet' PROVE Reached(code)' = stub'
        BY DEF AppliedReachesStub
      <3>1. p % 2 = (IF arch = "thumb" THEN 1 ELSE 0)
        BY <2>2 DEF SameSet
      <3>2. Reached(Encoded(p)) = p
        BY <1>0, <1>1, <2>4, <3>1, PatchReaches
      <3>3. ASSUME NEW x, code' = x
            PROVE  Reached(code)' = Reached(x)
        BY <2>2, <3>3 DEF Reached, Callee
      <3> QED BY <2>2, <2>4, <3>2, <3>3
    <2> QED BY <1>0, <2>2, <2>3, <2>4, <2>5, <2>6 DEF PatchArmInv
  <1>2. CASE Restore
    <2>1. UNCHANGED <<arch, linked, pc, stub>> /\ phase = "applied"
          /\ phase' \in {"restored", "crashed"}
      BY <1>2 DEF Restore
    <2>2. code' \in Insns(arch') /\ (arch # "thumb" => code'.op = code.op)
          /\ refused' \subseteq refused \union {"restore"}
      <3>1. CASE Patch(Target, "restore", refused)
        BY <1>0, <2>1, <3>1, PatchKeeps, TargetInt DEF Patch
      <3>2. CASE UNCHANGED <<code, refused>>
        BY <1>0, <2>1, <3>2 DEF PatchArmTypeOK
      <3> QED BY <1>2, <3>1, <3>2 DEF Restore
    <2>3. PatchArmTypeOK'
      <3>1. Insns(arch') = Insns(arch)
        BY <2>1
      <3> QED BY <1>0, <2>1, <2>2, <3>1 DEF PatchArmTypeOK
    <2> QED BY <1>0, <2>1, <2>2, <2>3 DEF PatchArmInv, AppliedReachesStub
  <1>3. CASE UNCHANGED vars
    BY <1>3 DEF vars, PatchArmInv, PatchArmTypeOK, Insns, AppliedReachesStub, SameSet,
                Reached, Callee
  <1> QED BY <1>1, <1>2, <1>3 DEF Next

LEMMA PatchArmInit == Init => PatchArmInv
  BY DEF Init, PatchArmInv, PatchArmTypeOK, AppliedReachesStub

\* Every accepted stub is reached, from every address and for every call.
THEOREM PatchArmInvariance == Spec => []PatchArmInv
  BY PatchArmInit, PatchArmNext, PTL DEF Spec

\* A patched call is an instruction of its instruction set: nothing runs over
\* from an offset into the opcode.
THEOREM PatchArmTypeCorrect == Spec => []PatchArmTypeOK
  <1>1. PatchArmInv => PatchArmTypeOK
    BY DEF PatchArmInv
  <1> QED BY <1>1, PatchArmInvariance, PTL

\* A patched call enters the stub, by patch_relative_barm, _barmth or _barm64.
THEOREM PatchedReachesStub == Spec => []AppliedReachesStub
  <1>1. PatchArmInv => AppliedReachesStub
    BY DEF PatchArmInv
  <1> QED BY <1>1, PatchArmInvariance, PTL

-----------------------------------------------------------------------------
(* What comes back.                                                        *)

\* A patch that gives back writes the bits of the linked call.
LEMMA RestoredStep ==
  PatchArmInv /\ RestoredUnlessBlx /\ [Next]_vars => RestoredUnlessBlx'
  <1> SUFFICES ASSUME PatchArmInv, RestoredUnlessBlx, [Next]_vars,
                      phase' = "restored", refused' = {}
               PROVE  (code = linked)' \/ linked'.op = "blx"
    BY DEF RestoredUnlessBlx
  <1>1. CASE Restore
    <2>1. UNCHANGED linked /\ Patch(Target, "restore", refused)
      BY <1>1 DEF Restore
    <2>2. Accepts(Target) /\ code' = Encoded(Target)
      BY <2>1 DEF Patch
    <2> QED BY <2>1, <2>2, PatchGivesBack
  <1>2. ASSUME NEW p, Apply(p)
        PROVE  FALSE
    BY <1>2 DEF Apply
  <1>3. CASE UNCHANGED vars
    BY <1>3 DEF vars, RestoredUnlessBlx
  <1> QED BY <1>1, <1>2, <1>3 DEF Next

\* Two written patches leave the call that the linker made, but for a blx.
THEOREM RestoredIsLinked == Spec => []RestoredUnlessBlx
  <1>1. Init => RestoredUnlessBlx
    BY DEF Init, RestoredUnlessBlx
  <1> QED BY <1>1, RestoredStep, PatchArmInvariance, PTL DEF Spec

\* The target of a Thumb bl is never refused.
LEMMA GivesBackStep == PatchArmInv /\ ThumbGivesBack /\ [Next]_vars => ThumbGivesBack'
  <1> SUFFICES ASSUME PatchArmInv, ThumbGivesBack, [Next]_vars,
                      arch' = "thumb", linked'.op = "bl", refused' # {}
               PROVE  "apply" \in refused'
    BY DEF ThumbGivesBack
  <1>1. CASE Restore
    <2>1. UNCHANGED <<arch, linked>>
      BY <1>1 DEF Restore
    <2>2. Accepts(Target)
      BY <2>1, ThumbTarget DEF Accepts, PatchArmInv
    <2>3. refused' = refused
      BY <1>1, <2>2 DEF Restore, Patch
    <2> QED BY <2>1, <2>3 DEF ThumbGivesBack
  <1>2. ASSUME NEW p, Apply(p)
        PROVE  "apply" \in refused'
    BY <1>2 DEF Apply, Patch
  <1>3. CASE UNCHANGED vars
    BY <1>3 DEF vars, ThumbGivesBack
  <1> QED BY <1>1, <1>2, <1>3 DEF Next

\* A Thumb bl that could be diverted can be given back, at both ends of its
\* range.
THEOREM ThumbIsGivenBack == Spec => []ThumbGivesBack
  <1>1. Init => ThumbGivesBack
    BY DEF Init, ThumbGivesBack
  <1> QED BY <1>1, GivesBackStep, PatchArmInvariance, PTL DEF Spec

\* A call that reaches its stub is found.
LEMMA LostStep == PatchArmInv /\ LostExplained /\ [Next]_vars => LostExplained'
  <1> SUFFICES ASSUME PatchArmInv, LostExplained, [Next]_vars, phase' = "crashed"
               PROVE  ("apply" \in refused \/ ~SameSet)'
    BY DEF LostExplained
  <1>1. CASE Restore
    <2>1. phase = "applied" /\ ~Finds(stub) /\ UNCHANGED <<arch, stub, refused>>
      BY <1>1 DEF Restore
    <2>2. ASSUME "apply" \notin refused, SameSet
          PROVE  FALSE
      <3>1. refused = {}
        BY <2>1, <2>2 DEF PatchArmInv
      <3>2. Reached(code) = stub
        BY <2>1, <2>2, <3>1 DEF PatchArmInv, AppliedReachesStub
      <3> QED BY <2>1, <3>2 DEF Finds
    <2> QED BY <2>1, <2>2 DEF SameSet
  <1>2. ASSUME NEW p, Apply(p)
        PROVE  FALSE
    BY <1>2 DEF Apply
  <1>3. CASE UNCHANGED vars
    BY <1>3 DEF vars, LostExplained, SameSet
  <1> QED BY <1>1, <1>2, <1>3 DEF Next

\* The search of mock_restore loses a call only for the two reasons named.
THEOREM LostIsExplained == Spec => []LostExplained
  <1>1. Init => LostExplained
    BY DEF Init, LostExplained
  <1> QED BY <1>1, LostStep, PatchArmInvariance, PTL DEF Spec
=============================================================================
