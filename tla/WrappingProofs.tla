---------------------------- MODULE WrappingProofs ------------------------------
(***************************************************************************)
(* Facts about the conversions of MachineIntegers and about wrap and       *)
(* unwrap, for every even size of the sequence space, that the proofs of   *)
(* the components cite.                                                    *)
(***************************************************************************)
EXTENDS WrappingIntegers, TLAPS

\* Division with remainder: a number below the modulus is its own remainder.
LEMMA ModSmall ==
  ASSUME NEW a \in Nat, NEW b \in Nat \ {0}, a < b
  PROVE  a % b = a
  BY Z3

\* The remainder of x is the one number below the modulus that differs from x by
\* a multiple of it.
LEMMA ModUnique ==
  ASSUME NEW x \in Int, NEW k \in Int, NEW m \in Nat, NEW b \in Nat \ {0},
         m < b, x = k * b + m
  PROVE  x % b = m
  BY Z3

\* An even number of values: the two halves make up the whole.
LEMMA TwoHalves ==
  ASSUME Pow32 \in Nat \ {0}, Pow32 % 2 = 0
  PROVE  /\ Half32 \in Nat \ {0}
         /\ Pow32 = Half32 + Half32
  BY DEF Half32

\* Storing a small count in an int and returning it as a size_t changes nothing
\* (ByteStream's counters and accessors, StreamReassembler::overflow).
LEMMA SmallConversions ==
  ASSUME Pow32 \in Nat \ {0}, Pow32 % 2 = 0,
         NEW x \in Nat, x < Half32
  PROVE  Int32(x) = x /\ Size(x) = x
<1>1. /\ Half32 \in Nat \ {0}
      /\ Pow32 = Half32 + Half32
  BY TwoHalves
<1>2. (x + Half32) % Pow32 = x + Half32
  BY <1>1, ModSmall
<1>3. /\ Pow32 * Pow32 \in Nat \ {0}
      /\ x < Pow32 * Pow32
  BY <1>1, Z3
<1>4. x % (Pow32 * Pow32) = x
  BY <1>3, ModSmall
<1> QED
  BY <1>1, <1>2, <1>4 DEF Int32, Size

--------------------------------------------------------------------------------

\* Every integer is a multiple of the modulus and a remainder below it.
LEMMA Division ==
  ASSUME NEW x \in Int, NEW b \in Nat \ {0}
  PROVE  /\ x \div b \in Int
         /\ x % b \in 0 .. b - 1
         /\ x = b * (x \div b) + (x % b)
<1>1. x \div b \in Int
  OBVIOUS
<1>2. x % b \in 0 .. b - 1
  OBVIOUS
<1>3. x = b * (x \div b) + (x % b)
  OBVIOUS
<1> QED
  BY <1>1, <1>2, <1>3

\* Less than one modulus apart and congruent: equal.
LEMMA CongruentAndClose ==
  ASSUME NEW b \in Nat \ {0}, NEW j \in Int, -b < b * j, b * j < b
  PROVE  j = 0
<1>1. CASE j >= 1
  <2>1. b * j >= b
    BY <1>1, Z3
  <2> QED BY <2>1
<1>2. CASE j <= -1
  <2>1. b * j <= -b
    BY <1>2, Z3
  <2> QED BY <2>1
<1> QED BY <1>1, <1>2

\* The offset of a wrapped number from the ISN is its remainder.
LEMMA OffsetOfWrap ==
  ASSUME Pow32 \in Nat \ {0},
         NEW m \in Nat, NEW i \in WrappingInt32
  PROVE  /\ wrap(m, i) \in WrappingInt32
         /\ Offset(wrap(m, i), i) = m % Pow32
<1>1. Pow32 \in Nat \ {0} /\ i \in 0 .. Pow32 - 1
  BY DEF WrappingInt32
<1> DEFINE q == m \div Pow32
           z == m % Pow32
<1>2. q \in Int /\ z \in 0 .. Pow32 - 1 /\ m = Pow32 * q + z
  BY <1>1, Division
<1> HIDE DEF q, z
<1>3. CASE z + i < Pow32
  <2>1. m + i = q * Pow32 + (z + i) /\ z + i \in Nat
    BY <1>1, <1>2, Z3
  <2>2. (m + i) % Pow32 = z + i
    BY <1>1, <1>2, <1>3, <2>1, ModUnique
  <2> QED
    BY <1>1, <1>2, <1>3, <2>2 DEF wrap, Offset, WrappingInt32, z
<1>4. CASE z + i >= Pow32
  <2>1. /\ m + i = (q + 1) * Pow32 + (z + i - Pow32)
        /\ z + i - Pow32 \in Nat /\ z + i - Pow32 < Pow32 /\ q + 1 \in Int
    BY <1>1, <1>2, <1>4, Z3
  <2>2. (m + i) % Pow32 = z + i - Pow32
    <3> DEFINE w == z + i - Pow32
               k == q + 1
    <3>1. /\ m + i \in Int /\ k \in Int /\ w \in Nat /\ Pow32 \in Nat \ {0}
          /\ w < Pow32 /\ m + i = k * Pow32 + w
      BY <1>1, <2>1
    <3> HIDE DEF w, k
    <3>2. (m + i) % Pow32 = w
      BY <3>1, ModUnique
    <3> QED
      BY <3>2 DEF w
  <2>3. z + i - Pow32 < i /\ z + i - Pow32 \in 0 .. Pow32 - 1
    BY <1>1, <1>2, <2>1
  <2>4. (z + i - Pow32) + Pow32 - i = z
    BY <1>1, <1>2
  <2> QED
    BY <2>2, <2>3, <2>4 DEF wrap, Offset, WrappingInt32, z
<1> QED
  BY <1>1, <1>2, <1>3, <1>4

\* unwrap's contract (wrapping_integers.hh): it returns a number congruent to the one
\* that was wrapped, and of all such numbers one closest to the checkpoint.
THEOREM UnwrapClosest ==
  ASSUME Pow32 \in Nat \ {0},
         NEW m \in Nat, NEW i \in WrappingInt32, NEW c \in Nat
  PROVE  LET u == unwrap(wrap(m, i), i, c)
         IN  /\ u \in Nat
             /\ \E j \in Int : m = u + Pow32 * j
             /\ Distance(u, c) <= Distance(m, c)
<1>1. Pow32 \in Nat \ {0}
  OBVIOUS
<1> DEFINE abs == m % Pow32
           q == m \div Pow32
           k == (c - abs) \div Pow32
           below == abs + Pow32 * k
           above == below + Pow32
           u == unwrap(wrap(m, i), i, c)
<1>2. q \in Int /\ abs \in 0 .. Pow32 - 1 /\ m = Pow32 * q + abs
  BY <1>1, Division
<1>3. u = IF abs >= c THEN abs ELSE IF above - c >= c - below THEN below ELSE above
  <2>1. Offset(wrap(m, i), i) = abs
    BY OffsetOfWrap
  <2> HIDE DEF abs
  <2> QED
    BY <2>1 DEF unwrap, LastBelow
<1> HIDE DEF abs, q, u
<1>4. k \in Int /\ below \in Int /\ c - below \in 0 .. Pow32 - 1
  <2>1. c - abs \in Int
    BY <1>2
  <2>2. /\ k \in Int
        /\ (c - abs) % Pow32 \in 0 .. Pow32 - 1
        /\ c - abs = Pow32 * k + ((c - abs) % Pow32)
    BY <1>1, <2>1, Division
  <2> QED
    BY <1>1, <1>2, <2>2
<1> HIDE DEF k
<1>5. CASE abs >= c
  <2>1. q >= 0
    BY <1>1, <1>2, Z3
  <2>2. Pow32 * q >= 0
    BY <1>1, <1>2, <2>1, Z3
  <2>3. m >= abs /\ u = abs /\ m = u + Pow32 * q
    BY <1>1, <1>2, <1>3, <1>5, <2>2
  <2>4. Distance(u, c) <= Distance(m, c)
    BY <1>2, <1>5, <2>3 DEF Distance
  <2>5. u \in Nat
    BY <1>2, <2>3
  <2>6. \E j \in Int : m = u + Pow32 * j
    BY <1>2, <2>3, Zenon
  <2> QED
    BY <2>4, <2>5, <2>6, Zenon DEF u
<1>6. CASE abs < c
  <2> DEFINE j == q - k
  <2>1. j \in Int /\ m = below + Pow32 * j /\ m = above + Pow32 * (j - 1)
    BY <1>1, <1>2, <1>4, Z3
  <2>2. k >= 0
    BY <1>1, <1>2, <1>4, <1>6, Z3
  <2>3. below >= 0
    BY <1>1, <1>2, <1>4, <2>2, Z3
  <2> HIDE DEF j, below
  <2>4. m <= below \/ m >= above
    BY <1>1, <1>4, <2>1, Z3
  <2>5. Distance(below, c) = c - below /\ Distance(above, c) = above - c
    BY <1>1, <1>4 DEF Distance
  <2>6. c - below <= Distance(m, c) \/ above - c <= Distance(m, c)
    BY <1>1, <1>4, <2>4 DEF Distance
  <2>7. Distance(m, c) \in Int
    BY DEF Distance
  <2>8. CASE above - c >= c - below
    <3>1. u = below
      BY <1>2, <1>3, <1>6, <2>8
    <3>2. below \in Nat /\ c - below <= Distance(m, c)
      BY <1>1, <1>4, <2>3, <2>6, <2>7, <2>8
    <3>3. \E h \in Int : m = u + Pow32 * h
      BY <2>1, <3>1, Zenon
    <3> QED
      BY <2>5, <3>1, <3>2, <3>3, Zenon DEF u
  <2>9. CASE above - c < c - below
    <3>1. u = above
      BY <1>1, <1>2, <1>3, <1>4, <1>6, <2>9
    <3>2. j - 1 \in Int
      BY <2>1
    <3>3. above \in Nat /\ above - c <= Distance(m, c)
      BY <1>1, <1>4, <2>3, <2>6, <2>7, <2>9
    <3> HIDE DEF above
    <3>4. \E h \in Int : m = u + Pow32 * h
      BY <2>1, <3>1, <3>2, Zenon
    <3> QED
      BY <2>5, <3>1, <3>3, <3>4, Zenon DEF u
  <2> QED
    BY <1>1, <1>4, <2>8, <2>9
<1> QED
  BY <1>2, <1>5, <1>6

\* wrap and unwrap are inverse near the checkpoint: a number that is less than half
\* the space away from it is itself the closest one, whatever the ISN and however
\* often the numbers have wrapped.
THEOREM UnwrapOfWrap ==
  ASSUME Pow32 \in Nat \ {0}, Pow32 % 2 = 0,
         NEW m \in Nat, NEW i \in WrappingInt32, NEW c \in Nat,
         Distance(m, c) < Half32
  PROVE  unwrap(wrap(m, i), i, c) = m
<1> DEFINE u == unwrap(wrap(m, i), i, c)
<1>1. Pow32 \in Nat \ {0} /\ Half32 \in Nat /\ Pow32 = Half32 + Half32
  BY TwoHalves
<1>2. u \in Nat /\ Distance(u, c) <= Distance(m, c)
  BY UnwrapClosest
<1>3. PICK j \in Int : m = u + Pow32 * j
  BY UnwrapClosest
<1> HIDE DEF u
<1>4. Pow32 * j = m - u
  BY <1>1, <1>2, <1>3
<1>5. m - u < Pow32 /\ -Pow32 < m - u
  BY <1>1, <1>2 DEF Distance
<1>6. j = 0
  BY <1>1, <1>4, <1>5, CongruentAndClose
<1> QED
  BY <1>1, <1>2, <1>3, <1>6 DEF u

\* Congruent numbers wrap to the same sequence number.
LEMMA CongruentWrap ==
  ASSUME Pow32 \in Nat \ {0},
         NEW a \in Nat, NEW b \in Nat, NEW i \in WrappingInt32,
         NEW j \in Int, a = b + Pow32 * j
  PROVE  wrap(a, i) = wrap(b, i)
<1>1. Pow32 \in Nat \ {0} /\ i \in Nat
  BY DEF WrappingInt32
<1> DEFINE q == (b + i) \div Pow32
           z == (b + i) % Pow32
           k == q + j
<1>2. q \in Int /\ z \in 0 .. Pow32 - 1 /\ b + i = Pow32 * q + z
  <2>1. b + i \in Int
    BY <1>1
  <2> QED
    BY <1>1, <2>1, Division
<1> HIDE DEF q, z
<1>3. /\ k \in Int /\ z \in Nat /\ z < Pow32 /\ a + i \in Int
      /\ a + i = k * Pow32 + z
  BY <1>1, <1>2, Z3
<1> HIDE DEF k
<1>4. (a + i) % Pow32 = z
  BY <1>1, <1>3, ModUnique
<1> QED
  BY <1>4 DEF wrap, z

================================================================================
