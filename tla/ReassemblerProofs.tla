--------------------------- MODULE ReassemblerProofs ---------------------------
(***************************************************************************)
(* The properties of ReassemblerSystem, and that it implements             *)
(* OrderedDelivery, for every stream and capacity whose indices fit into   *)
(* an int (NoOverflow).  The lemmas speak of a reassembler s, not of the   *)
(* variable r.                                                             *)
(***************************************************************************)
EXTENDS ReassemblerSystem, WrappingProofs, SequenceTheorems, FiniteSetTheorems

\* The bytes of the stream with the indices a .. b.
Piece(a, b) == SubSeq(Stream, a + 1, b + 1)

\* The indices of the substrings stored under keys.
Span(m, keys) == UNION {Left(m, k) .. k : k \in keys}

\* What the constants are assumed to be.
LEMMA Constants ==
  /\ Capacity \in Nat /\ N \in Nat /\ Half32 \in Nat /\ Stream \in Seq(Byte)
  /\ Pow32 \in Nat \ {0} /\ Pow32 % 2 = 0 /\ Pow32 = Half32 + Half32
  BY ReassemblerAssumption, TwoHalves, LenProperties DEF N

--------------------------------------------------------------------------------
\* Pieces of the stream.

\* The length and the bytes of a piece.
LEMMA PieceProperties ==
  ASSUME NEW a \in Nat, NEW b \in Int, a <= b + 1, b < N
  PROVE  /\ Piece(a, b) \in Seq(Byte)
         /\ Len(Piece(a, b)) = b - a + 1
         /\ \A i \in 1 .. b - a + 1 : Piece(a, b)[i] = Stream[a + i]
<1>1. \A i \in 1 .. N : Stream[i] \in Byte
  BY Constants, ElementOfSeq DEF N
<1>2. \A i \in a + 1 .. b + 1 : Stream[i] \in Byte
  BY <1>1, Constants
<1>3. /\ Piece(a, b) \in Seq(Byte)
      /\ Len(Piece(a, b)) = IF a + 1 <= b + 1 THEN (b + 1) - (a + 1) + 1 ELSE 0
      /\ \A i \in 1 .. (b + 1) - (a + 1) + 1 : Piece(a, b)[i] = Stream[(a + 1) + i - 1]
  BY <1>2, SubSeqProperties DEF Piece
<1>4. (b + 1) - (a + 1) + 1 = b - a + 1 /\ \A i \in Int : (a + 1) + i - 1 = a + i
  OBVIOUS
<1> QED
  BY <1>3, <1>4

\* A cut of a piece is a piece.
LEMMA PieceOfPiece ==
  ASSUME NEW a \in Nat, NEW b \in Nat, NEW c \in Nat, NEW e \in Nat,
         a <= c, c <= e, e <= b, b < N
  PROVE  SubSeq(Piece(a, b), c - a + 1, e - a + 1) = Piece(c, e)
<1> DEFINE p == Piece(a, b)
           m == c - a + 1
           n == e - a + 1
<1>0. b \in Int /\ a <= b + 1 /\ e \in Int /\ c <= e + 1 /\ e < N
  BY Constants
<1>1. /\ p \in Seq(Byte) /\ Len(p) = b - a + 1
      /\ \A i \in 1 .. b - a + 1 : p[i] = Stream[a + i]
  BY <1>0, PieceProperties
<1>2. /\ Piece(c, e) \in Seq(Byte) /\ Len(Piece(c, e)) = e - c + 1
      /\ \A i \in 1 .. e - c + 1 : Piece(c, e)[i] = Stream[c + i]
  BY <1>0, PieceProperties
<1>3. m \in 1 .. b - a + 1 /\ n \in 1 .. b - a + 1 /\ m <= n /\ n - m + 1 = e - c + 1
  OBVIOUS
<1>4. \A i \in 1 .. Len(p) : p[i] \in Byte
  BY <1>1, ElementOfSeq
<1>5. \A i \in m .. n : p[i] \in Byte
  BY <1>1, <1>3, <1>4
<1>6. /\ SubSeq(p, m, n) \in Seq(Byte) /\ Len(SubSeq(p, m, n)) = n - m + 1
      /\ \A i \in 1 .. n - m + 1 : SubSeq(p, m, n)[i] = p[m + i - 1]
  <2> HIDE DEF m, n, p
  <2> QED
    BY <1>3, <1>5, SubSeqProperties
<1>7. \A i \in 1 .. e - c + 1 : p[m + i - 1] = Stream[c + i]
  <2> SUFFICES ASSUME NEW i \in 1 .. e - c + 1 PROVE p[m + i - 1] = Stream[c + i]
    OBVIOUS
  <2>1. m + i - 1 \in 1 .. b - a + 1 /\ a + (m + i - 1) = c + i
    OBVIOUS
  <2> HIDE DEF m, p
  <2> QED
    BY <1>1, <2>1
<1> HIDE DEF m, n, p
<1>8. \A i \in 1 .. Len(SubSeq(p, m, n)) : SubSeq(p, m, n)[i] = Piece(c, e)[i]
  BY <1>2, <1>3, <1>6, <1>7
<1>9. SubSeq(p, m, n) = Piece(c, e)
  BY <1>2, <1>3, <1>6, <1>8, SeqEqual
<1> QED
  BY <1>9 DEF m, n, p

\* Adjacent pieces concatenate to a piece.
LEMMA PiecesConcat ==
  ASSUME NEW a \in Nat, NEW b \in Int, NEW e \in Int, a <= b + 1, b <= e, e < N
  PROVE  Piece(a, b) \o Piece(b + 1, e) = Piece(a, e)
<1>1. a + 1 \in 1 .. N + 1 /\ b + 1 \in (a + 1) - 1 .. N /\ e + 1 \in b + 1 .. N
  BY Constants
<1>2. SubSeq(Stream, a + 1, b + 1) \o SubSeq(Stream, (b + 1) + 1, e + 1)
        = SubSeq(Stream, a + 1, e + 1)
  BY <1>1, Constants, ConcatAdjacentSubSeq DEF N
<1> QED
  BY <1>2 DEF Piece

\* Two pieces that overlap or touch join to one (StreamReassembler::join).
LEMMA JoinPieces ==
  ASSUME NEW a \in Nat, NEW b \in Nat, NEW c \in Nat, NEW e \in Nat,
         a <= b, c <= e, b < N, e < N, a <= c, c <= b + 1
  PROVE  Join(Piece(a, b), Piece(c, e), a, c) = Piece(a, IF e <= b THEN b ELSE e)
<1>0. b \in Int /\ a <= b + 1 /\ e \in Int /\ c <= e + 1
  OBVIOUS
<1>1. Len(Piece(a, b)) = b - a + 1 /\ Len(Piece(c, e)) = e - c + 1
  BY <1>0, PieceProperties
<1>2. CASE e <= b
  <2>1. c + Len(Piece(c, e)) <= a + Len(Piece(a, b))
    BY <1>1, <1>2
  <2> QED
    BY <1>2, <2>1 DEF Join
<1>3. CASE e > b
  <2>1. ~(c + Len(Piece(c, e)) <= a + Len(Piece(a, b)))
    BY <1>1, <1>3
  <2>2. Join(Piece(a, b), Piece(c, e), a, c)
          = Piece(a, b) \o SubSeq(Piece(c, e), a + Len(Piece(a, b)) - c + 1, Len(Piece(c, e)))
    BY <2>1 DEF Join
  <2>3. a + Len(Piece(a, b)) - c + 1 = (b + 1) - c + 1 /\ Len(Piece(c, e)) = e - c + 1
    BY <1>1
  <2>4. SubSeq(Piece(c, e), (b + 1) - c + 1, e - c + 1) = Piece(b + 1, e)
    <3>1. b + 1 \in Nat /\ c <= b + 1 /\ b + 1 <= e
      BY <1>3
    <3> QED
      BY <3>1, PieceOfPiece
  <2>5. Piece(a, b) \o Piece(b + 1, e) = Piece(a, e)
    BY <1>3, PiecesConcat
  <2>6. (IF e <= b THEN b ELSE e) = e
    BY <1>3
  <2> QED
    BY <2>2, <2>3, <2>4, <2>5, <2>6, Zenon
<1> QED
  BY <1>2, <1>3

\* combine does so whichever of the two starts first.
LEMMA CombinePieces ==
  ASSUME NEW a \in Nat, NEW b \in Nat, NEW c \in Nat, NEW e \in Nat,
         a <= b, c <= e, b < N, e < N, c <= b + 1, a <= e + 1
  PROVE  combine(Piece(a, b), Piece(c, e), a, c)
           = Piece(IF a <= c THEN a ELSE c, IF e <= b THEN b ELSE e)
<1>1. CASE a < c
  BY <1>1, JoinPieces DEF combine
<1>2. CASE c <= a
  <2>1. combine(Piece(a, b), Piece(c, e), a, c) = Join(Piece(c, e), Piece(a, b), c, a)
    BY <1>2 DEF combine
  <2>2. Join(Piece(c, e), Piece(a, b), c, a) = Piece(c, IF b <= e THEN e ELSE b)
    BY <1>2, JoinPieces
  <2>3. (IF b <= e THEN e ELSE b) = (IF e <= b THEN b ELSE e)
    OBVIOUS
  <2>4. c = IF a <= c THEN a ELSE c
    BY <1>2
  <2> QED
    BY <2>1, <2>2, <2>3, <2>4
<1> QED
  BY <1>1, <1>2

--------------------------------------------------------------------------------
\* Sets of indices.

\* A set of natural numbers that is not empty has a smallest element.
LEMMA Smallest ==
  ASSUME NEW S \in SUBSET Nat, S # {}
  PROVE  /\ \E x \in S : \A y \in S : x <= y
         /\ Min(S) \in S /\ \A y \in S : Min(S) <= y
<1>1. PICK x \in S : \A y \in S : ~(<<y, x>> \in OpToRel(<, Nat))
  BY NatLessThanWellFounded, WFMin, Zenon
<1>2. \A y \in S : x <= y
  <2> SUFFICES ASSUME NEW y \in S, y < x PROVE FALSE
    OBVIOUS
  <2>1. <<y, x>> \in Nat \X Nat /\ <<y, x>>[1] < <<y, x>>[2]
    OBVIOUS
  <2>2. <<y, x>> \in OpToRel(<, Nat)
    BY <2>1, Zenon DEF OpToRel
  <2> QED
    BY <1>1, <2>2
<1> QED
  BY <1>2 DEF Min

\* A bounded one has a largest element.
LEMMA Largest ==
  ASSUME NEW S \in SUBSET Nat, S # {}, NEW n \in Nat, \A x \in S : x <= n
  PROVE  Max(S) \in S /\ \A y \in S : y <= Max(S)
<1> DEFINE T == {z \in Nat : \E x \in S : z = n - x}
<1>1. T \in SUBSET Nat /\ T # {}
  <2>1. PICK x \in S : TRUE
    OBVIOUS
  <2>2. n - x \in T
    BY <2>1
  <2> QED
    BY <2>2
<1>2. PICK z \in T : \A y \in T : z <= y
  BY <1>1, Smallest
<1>3. PICK x \in S : z = n - x
  BY <1>2
<1>4. \A y \in S : n - y \in T
  OBVIOUS
<1>5. \A y \in S : x >= y
  BY <1>2, <1>3, <1>4
<1> QED
  BY <1>5 DEF Max

\* The smaller and the larger of two numbers.
LEMMA MinMax ==
  ASSUME NEW a \in Int, NEW b \in Int
  PROVE  /\ Min({a, b}) = IF a <= b THEN a ELSE b
         /\ Max({a, b}) = IF a >= b THEN a ELSE b
<1>1. \E x \in {a, b} : \A y \in {a, b} : x <= y
  BY a <= b \/ b <= a
<1>2. \E x \in {a, b} : \A y \in {a, b} : x >= y
  BY a <= b \/ b <= a
<1>3. Min({a, b}) \in {a, b} /\ Min({a, b}) <= a /\ Min({a, b}) <= b
  BY <1>1 DEF Min
<1>4. Max({a, b}) \in {a, b} /\ Max({a, b}) >= a /\ Max({a, b}) >= b
  BY <1>2 DEF Max
<1> QED
  BY <1>3, <1>4

\* Disjoint finite sets: the cardinalities add up.
LEMMA DisjointCardinality ==
  ASSUME NEW S, NEW T, IsFiniteSet(S), IsFiniteSet(T), S \cap T = {}
  PROVE  /\ IsFiniteSet(S \cup T)
         /\ Cardinality(S) \in Nat /\ Cardinality(T) \in Nat
         /\ Cardinality(S \cup T) = Cardinality(S) + Cardinality(T)
<1>1. Cardinality(S) \in Nat /\ Cardinality(T) \in Nat
  BY FS_CardinalityType, Zenon
<1>2. Cardinality(S \cap T) = 0
  BY FS_EmptySet, Zenon
<1>3. /\ IsFiniteSet(S \cup T)
      /\ Cardinality(S \cup T) = Cardinality(S) + Cardinality(T) - Cardinality(S \cap T)
  BY FS_Union, Zenon
<1> QED
  BY <1>1, <1>2, <1>3

--------------------------------------------------------------------------------
\* The map of stored substrings.

\* The stored substrings are disjoint pieces of the stream.
PiecesOK(m) ==
  /\ DOMAIN m \subseteq 0 .. N - 1
  /\ \A k \in DOMAIN m : Left(m, k) \in 0 .. k /\ m[k] = Piece(Left(m, k), k)
  /\ \A h, k \in DOMAIN m : h < k => h < Left(m, k)

\* The indices of any of them are a finite set of indices of the stream.
LEMMA SpanFinite ==
  ASSUME NEW m, PiecesOK(m), NEW keys \in SUBSET DOMAIN m
  PROVE  /\ Span(m, keys) \subseteq 0 .. N - 1
         /\ IsFiniteSet(Span(m, keys))
         /\ Cardinality(Span(m, keys)) \in Nat
<1>1. Span(m, keys) \subseteq 0 .. N - 1
  <2> SUFFICES ASSUME NEW k \in keys, NEW i \in Left(m, k) .. k PROVE i \in 0 .. N - 1
    BY DEF Span
  <2>1. k \in 0 .. N - 1 /\ Left(m, k) \in 0 .. k
    BY DEF PiecesOK
  <2> QED
    BY <2>1, Constants
<1>2. IsFiniteSet(0 .. N - 1)
  BY Constants, FS_Interval
<1>3. Span(m, keys) \in SUBSET (0 .. N - 1)
  BY <1>1
<1>4. IsFiniteSet(Span(m, keys))
  BY <1>2, <1>3, FS_Subset
<1> QED
  BY <1>1, <1>4, FS_CardinalityType

\* Two of them have no index in common.
LEMMA SpanDisjoint ==
  ASSUME NEW m, PiecesOK(m), NEW S \in SUBSET DOMAIN m, NEW T \in SUBSET DOMAIN m,
         S \cap T = {}
  PROVE  /\ Span(m, S) \cap Span(m, T) = {}
         /\ Span(m, S \cup T) = Span(m, S) \cup Span(m, T)
         /\ Cardinality(Span(m, S \cup T)) = Cardinality(Span(m, S)) + Cardinality(Span(m, T))
<1>1. Span(m, S) \cap Span(m, T) = {}
  <2> SUFFICES ASSUME NEW h \in S, NEW k \in T,
                      NEW i \in Left(m, h) .. h, i \in Left(m, k) .. k
               PROVE  FALSE
    BY DEF Span
  <2>1. h \in 0 .. N - 1 /\ k \in 0 .. N - 1 /\ h # k
    BY DEF PiecesOK
  <2>2. Left(m, h) \in 0 .. h /\ Left(m, k) \in 0 .. k
    BY DEF PiecesOK
  <2>3. (h < k => h < Left(m, k)) /\ (k < h => k < Left(m, h))
    BY DEF PiecesOK
  <2> QED
    BY <2>1, <2>2, <2>3, Constants
<1>2. Span(m, S \cup T) = Span(m, S) \cup Span(m, T)
  BY DEF Span
<1>3. IsFiniteSet(Span(m, S)) /\ IsFiniteSet(Span(m, T))
  BY SpanFinite
<1> QED
  BY <1>1, <1>2, <1>3, DisjointCardinality

\* The lengths of the substrings under keys add up to the number of their indices
\* (ecount and the counts of the flush loop).
LEMMA BytesOfSpan ==
  ASSUME NEW m, PiecesOK(m), NEW keys \in SUBSET DOMAIN m
  PROVE  Bytes(m, keys) = Cardinality(Span(m, keys))
<1> DEFINE P == UNION {{k} \X DOMAIN m[k] : k \in keys}
           S == Span(m, keys)
           f == [p \in P |-> Left(m, p[1]) + p[2] - 1]
<1>1. ASSUME NEW k \in keys
      PROVE  /\ k \in 0 .. N - 1 /\ Left(m, k) \in 0 .. k
             /\ DOMAIN m[k] = 1 .. k - Left(m, k) + 1
  <2>1. k \in 0 .. N - 1 /\ Left(m, k) \in 0 .. k /\ m[k] = Piece(Left(m, k), k)
    BY DEF PiecesOK
  <2>2. Left(m, k) \in Nat /\ k \in Int /\ Left(m, k) <= k + 1 /\ k < N
    BY <2>1, Constants
  <2>3. m[k] \in Seq(Byte) /\ Len(m[k]) = k - Left(m, k) + 1
    BY <2>1, <2>2, PieceProperties
  <2>4. DOMAIN m[k] = 1 .. Len(m[k])
    BY <2>3, LenProperties
  <2> QED
    BY <2>1, <2>3, <2>4
<1>2. ASSUME NEW p \in P
      PROVE  /\ p[1] \in keys /\ p[2] \in 1 .. p[1] - Left(m, p[1]) + 1
             /\ p = <<p[1], p[2]>>
  <2>1. PICK k \in keys : p \in {k} \X DOMAIN m[k]
    OBVIOUS
  <2>2. p[1] = k /\ p[2] \in DOMAIN m[k] /\ p = <<p[1], p[2]>>
    BY <2>1
  <2> QED
    BY <1>1, <2>1, <2>2
<1>3. f \in [P -> S]
  <2> SUFFICES ASSUME NEW p \in P PROVE Left(m, p[1]) + p[2] - 1 \in S
    OBVIOUS
  <2>1. p[1] \in keys /\ p[2] \in 1 .. p[1] - Left(m, p[1]) + 1
    BY <1>2
  <2>2. p[1] \in 0 .. N - 1 /\ Left(m, p[1]) \in 0 .. p[1]
    BY <1>1, <2>1
  <2>3. Left(m, p[1]) + p[2] - 1 \in Left(m, p[1]) .. p[1]
    BY <2>1, <2>2, Constants
  <2> QED
    BY <2>1, <2>3 DEF Span
<1>4. \A p, q \in P : f[p] = f[q] => p = q
  <2> SUFFICES ASSUME NEW p \in P, NEW q \in P, f[p] = f[q] PROVE p = q
    OBVIOUS
  <2>1. /\ p[1] \in keys /\ p[2] \in 1 .. p[1] - Left(m, p[1]) + 1 /\ p = <<p[1], p[2]>>
        /\ q[1] \in keys /\ q[2] \in 1 .. q[1] - Left(m, q[1]) + 1 /\ q = <<q[1], q[2]>>
    BY <1>2
  <2>2. /\ p[1] \in 0 .. N - 1 /\ Left(m, p[1]) \in 0 .. p[1]
        /\ q[1] \in 0 .. N - 1 /\ Left(m, q[1]) \in 0 .. q[1]
    BY <1>1, <2>1
  <2>3. Left(m, p[1]) + p[2] - 1 = Left(m, q[1]) + q[2] - 1
    OBVIOUS
  <2>4. /\ p[1] < q[1] => p[1] < Left(m, q[1])
        /\ q[1] < p[1] => q[1] < Left(m, p[1])
    BY <2>1 DEF PiecesOK
  <2>5. p[1] = q[1]
    <3> DEFINE a == p[1]
               b == q[1]
               x == Left(m, a)
               y == Left(m, b)
    <3>1. /\ N \in Nat /\ a \in 0 .. N - 1 /\ b \in 0 .. N - 1 /\ x \in 0 .. a /\ y \in 0 .. b
          /\ p[2] \in 1 .. a - x + 1 /\ q[2] \in 1 .. b - y + 1
          /\ x + p[2] - 1 = y + q[2] - 1
          /\ (a < b => a < y) /\ (b < a => b < x)
      BY <2>1, <2>2, <2>3, <2>4, Constants, Zenon
    <3> HIDE DEF a, b, x, y, f, P
    <3>2. a = b
      BY <3>1
    <3> QED
      BY <3>2 DEF a, b
  <2>6. p[2] = q[2]
    <3> DEFINE x == Left(m, p[1])
               y == p[1] - x + 1
    <3>1. x \in Int /\ p[2] \in Int /\ q[2] \in Int
      <4>1. p[2] \in 1 .. y /\ q[2] \in 1 .. y /\ x \in 0 .. p[1] /\ p[1] \in 0 .. N - 1
        BY <2>1, <2>2, <2>5, Zenon
      <4> HIDE DEF x, y
      <4> QED
        BY ONLY <4>1
    <3>2. x + p[2] - 1 = x + q[2] - 1
      BY <2>3, <2>5, Zenon
    <3> HIDE DEF x
    <3> QED
      BY ONLY <3>1, <3>2
  <2> QED
    BY <2>1, <2>5, <2>6, Zenon
<1>5. \A i \in S : \E p \in P : f[p] = i
  <2> SUFFICES ASSUME NEW i \in S PROVE \E p \in P : f[p] = i
    OBVIOUS
  <2>1. PICK k \in keys : i \in Left(m, k) .. k
    BY DEF Span
  <2>2. k \in 0 .. N - 1 /\ Left(m, k) \in 0 .. k /\ DOMAIN m[k] = 1 .. k - Left(m, k) + 1
    BY <1>1
  <2>3. i - Left(m, k) + 1 \in DOMAIN m[k] /\ Left(m, k) + (i - Left(m, k) + 1) - 1 = i
    BY <2>1, <2>2, Constants
  <2> DEFINE j == i - Left(m, k) + 1
  <2> HIDE DEF j
  <2>4. <<k, j>> \in {k} \X DOMAIN m[k]
    BY <2>3 DEF j
  <2>5. <<k, j>> \in P
    BY <2>4
  <2>6. f[<<k, j>>] = Left(m, k) + j - 1
    BY <2>5
  <2> QED
    BY <2>3, <2>5, <2>6 DEF j
<1> HIDE DEF P, f
<1>6. f \in Injection(P, S) /\ f \in Surjection(P, S)
  <2> HIDE DEF S
  <2> QED
    BY <1>3, <1>4, <1>5, Zenon DEF Injection, Surjection, IsInjective
<1>7. IsFiniteSet(S)
  BY SpanFinite
<1>8. Cardinality(P) = Cardinality(S)
  BY <1>6, <1>7, FS_Injection
<1> QED
  BY <1>8 DEF Bytes, P

\* The map with the substrings under T replaced by one piece.
Replaced(m, T, a, b) ==
  [k \in (DOMAIN m \ T) \cup {b} |-> IF k = b THEN Piece(a, b) ELSE m[k]]

\* The indices a .. b are clear of the other substrings.
Clear(m, T, a, b) == \A k \in DOMAIN m \ T : k < a \/ b < Left(m, k)

\* Then the map is sound.
LEMMA ReplaceOK ==
  ASSUME NEW m, PiecesOK(m), NEW T \in SUBSET DOMAIN m,
         NEW a \in Nat, NEW b \in Nat, a <= b, b < N,
         Clear(m, T, a, b)
  PROVE  LET mm == Replaced(m, T, a, b)
         IN  /\ PiecesOK(mm)
             /\ Span(mm, DOMAIN mm) = Span(m, DOMAIN m \ T) \cup (a .. b)
             /\ Cardinality(Span(mm, DOMAIN mm))
                  = Cardinality(Span(m, DOMAIN m)) + (b - a + 1) - Cardinality(Span(m, T))
<1> DEFINE D == DOMAIN m \ T
           mm == Replaced(m, T, a, b)
<1>1. /\ DOMAIN mm = D \cup {b}
      /\ mm[b] = Piece(a, b)
      /\ \A k \in D : k # b => mm[k] = m[k]
  BY DEF Replaced
<1> HIDE DEF mm
<1> USE DEF Clear
<1>2. \A k \in DOMAIN m : /\ k \in 0 .. N - 1 /\ Left(m, k) \in 0 .. k
                          /\ m[k] = Piece(Left(m, k), k)
  BY DEF PiecesOK
<1>3. b \notin D
  BY <1>2, Constants
<1>4. Left(mm, b) = a
  <2>0. b \in Int /\ a <= b + 1
    OBVIOUS
  <2>1. Len(Piece(a, b)) = b - a + 1
    BY <2>0, PieceProperties
  <2> QED
    BY <1>1, <2>1 DEF Left
<1>5. \A k \in D : mm[k] = m[k] /\ Left(mm, k) = Left(m, k)
  BY <1>1, <1>3 DEF Left
<1>6. PiecesOK(mm)
  <2>1. DOMAIN mm \subseteq 0 .. N - 1
    BY <1>1, <1>2, Constants
  <2>2. ASSUME NEW k \in DOMAIN mm
        PROVE  Left(mm, k) \in 0 .. k /\ mm[k] = Piece(Left(mm, k), k)
    <3>1. CASE k = b
      BY <1>1, <1>4, <3>1
    <3>2. CASE k \in D
      BY <1>2, <1>5, <3>2
    <3> QED
      BY <1>1, <3>1, <3>2
  <2>3. ASSUME NEW h \in DOMAIN mm, NEW k \in DOMAIN mm, h < k PROVE h < Left(mm, k)
    <3>1. CASE h \in D /\ k \in D
      BY <1>5, <2>3, <3>1 DEF PiecesOK
    <3>2. CASE h = b /\ k \in D
      <4>1. k < a \/ b < Left(m, k)
        BY <3>2
      <4>2. k \in Nat /\ Left(m, k) = Left(mm, k) /\ Left(m, k) \in Nat
        BY <1>2, <1>5, <3>2
      <4> QED
        BY <2>3, <3>2, <4>1, <4>2
    <3>3. CASE h \in D /\ k = b
      <4>1. h < a \/ b < Left(m, h)
        BY <3>3
      <4>2. h \in Nat /\ Left(m, h) \in 0 .. h
        BY <1>2, <3>3
      <4> QED
        BY <1>4, <2>3, <3>3, <4>1, <4>2
    <3>4. CASE h = b /\ k = b
      BY <2>3, <3>4
    <3> QED
      BY <1>1, <3>1, <3>2, <3>3, <3>4
  <2> QED
    BY <2>1, <2>2, <2>3 DEF PiecesOK
<1>7. Span(mm, DOMAIN mm) = Span(m, D) \cup (a .. b)
  <2> HIDE DEF D
  <2> QED
    BY <1>1, <1>4, <1>5 DEF Span
<1>8. Span(m, D) \cap (a .. b) = {}
  <2> SUFFICES ASSUME NEW k \in D, NEW i \in Left(m, k) .. k, i \in a .. b PROVE FALSE
    BY DEF Span
  <2>1. k \in 0 .. N - 1 /\ Left(m, k) \in 0 .. k /\ (k < a \/ b < Left(m, k))
    BY <1>2
  <2> QED
    BY <2>1, Constants
<1>9. /\ IsFiniteSet(Span(m, D)) /\ Cardinality(Span(m, D)) \in Nat
      /\ Cardinality(Span(m, T)) \in Nat
  BY SpanFinite
<1>10. IsFiniteSet(a .. b) /\ Cardinality(a .. b) = b - a + 1
  BY FS_Interval
<1>11. Cardinality(Span(mm, DOMAIN mm)) = Cardinality(Span(m, D)) + (b - a + 1)
  BY <1>7, <1>8, <1>9, <1>10, DisjointCardinality
<1>12. Cardinality(Span(m, DOMAIN m)) = Cardinality(Span(m, D)) + Cardinality(Span(m, T))
  <2>1. D \in SUBSET DOMAIN m /\ D \cap T = {} /\ D \cup T = DOMAIN m
    OBVIOUS
  <2> HIDE DEF D
  <2>2. Cardinality(Span(m, D \cup T)) = Cardinality(Span(m, D)) + Cardinality(Span(m, T))
    BY <2>1, SpanDisjoint
  <2> QED
    BY <2>1, <2>2
<1> QED
  <2> HIDE DEF D
  <2>1. Cardinality(Span(mm, DOMAIN mm))
          = Cardinality(Span(m, DOMAIN m)) + (b - a + 1) - Cardinality(Span(m, T))
    BY <1>9, <1>11, <1>12
  <2> QED
    BY <1>6, <1>7, <2>1 DEF D, mm

\* The members of a reassembler.
Fields == {"output", "capacity", "unassembled", "m", "endIdx"}

\* s and t differ in the stored substrings and their count only.
SameButStore(s, t) ==
  /\ DOMAIN t = Fields
  /\ t.output = s.output /\ t.capacity = s.capacity /\ t.endIdx = s.endIdx

\* The store is sound: disjoint pieces, and unassembled counts their bytes.
StoreOK(s) ==
  /\ DOMAIN s = Fields
  /\ PiecesOK(s.m)
  /\ s.unassembled = Cardinality(Span(s.m, DOMAIN s.m))

\* The first and the last substring that lb .. rb overlaps: everything between them is
\* overlapped too, and what is not overlapped is clear of the merged piece.
LEMMA TouchedOK ==
  ASSUME NEW m, PiecesOK(m), NEW lb \in Nat, NEW rb \in Nat, lb <= rb, rb < N,
         Touched(m, lb, rb) # {}
  PROVE  LET T     == Touched(m, lb, rb)
             first == Min(T)
             last  == Max(T)
             start == IF lb <= Left(m, first) THEN lb ELSE Left(m, first)
             right == IF rb >= last THEN rb ELSE last
         IN  /\ T \in SUBSET DOMAIN m /\ first \in T /\ last \in T
             /\ Left(m, first) <= Left(m, last)
             /\ start \in Nat /\ right \in Nat /\ start <= right /\ right < N
             /\ Clear(m, T, start, right)
             /\ start .. right = Span(m, T) \cup (lb .. rb)
<1> DEFINE T     == Touched(m, lb, rb)
           first == Min(T)
           last  == Max(T)
           start == IF lb <= Left(m, first) THEN lb ELSE Left(m, first)
           right == IF rb >= last THEN rb ELSE last
<1>1. \A k \in DOMAIN m : k \in Nat /\ k < N /\ Left(m, k) \in Nat /\ Left(m, k) <= k
  BY Constants DEF PiecesOK
<1>2. \A h, k \in DOMAIN m : h < k => h < Left(m, k)
  BY DEF PiecesOK
<1>3. T \in SUBSET DOMAIN m /\ T # {}
  BY DEF Touched
<1>4. \A k \in DOMAIN m : k \in T <=> (k >= lb /\ Left(m, k) <= rb)
  BY DEF Touched
<1> HIDE DEF T
<1>5. first \in T /\ \A k \in T : first <= k
  <2>1. T \in SUBSET Nat
    BY <1>1, <1>3
  <2> QED
    BY <1>3, <2>1, Smallest
<1>6. last \in T /\ \A k \in T : k <= last
  <2>1. T \in SUBSET Nat /\ \A k \in T : k <= N
    BY <1>1, <1>3, Constants
  <2> QED
    BY <1>3, <2>1, Largest, Constants
<1> HIDE DEF first, last
<1>7. /\ first \in Nat /\ first < N /\ Left(m, first) \in Nat /\ Left(m, first) <= first
      /\ last \in Nat /\ last < N /\ Left(m, last) \in Nat /\ Left(m, last) <= last
      /\ lb <= first /\ Left(m, first) <= rb /\ lb <= last /\ Left(m, last) <= rb
      /\ first <= last
  BY <1>1, <1>3, <1>4, <1>5, <1>6
<1>8. Left(m, first) <= Left(m, last)
  BY <1>2, <1>3, <1>5, <1>6, <1>7
<1>9. start \in Nat /\ right \in Nat /\ start <= right /\ right < N
  BY <1>7
<1>10. ASSUME NEW k \in DOMAIN m \ T PROVE k < start \/ right < Left(m, k)
  <2>1. k \in Nat /\ Left(m, k) \in Nat /\ Left(m, k) <= k /\ (k < lb \/ rb < Left(m, k))
    BY <1>1, <1>4
  <2>2. /\ k < first => k < Left(m, first)
        /\ last < k => last < Left(m, k)
        /\ k < last => k < Left(m, last)
        /\ k # last
    BY <1>2, <1>3, <1>5, <1>6
  <2> QED
    BY <1>7, <2>1, <2>2
<1>11. start .. right = Span(m, T) \cup (lb .. rb)
  <2>1. ASSUME NEW i \in start .. right PROVE i \in Span(m, T) \cup (lb .. rb)
    <3>1. i \in lb .. rb \/ i \in Left(m, first) .. first \/ i \in Left(m, last) .. last
      BY <1>7, <1>9
    <3> QED
      BY <1>5, <1>6, <3>1 DEF Span
  <2>2. ASSUME NEW k \in T, NEW i \in Left(m, k) .. k PROVE i \in start .. right
    <3>1. k \in Nat /\ Left(m, k) \in Nat /\ first <= k /\ k <= last
      BY <1>1, <1>3, <1>5, <1>6
    <3>2. first < k => first < Left(m, k)
      BY <1>2, <1>3, <1>5
    <3>3. Left(m, first) <= Left(m, k)
      BY <1>7, <3>1, <3>2
    <3> QED
      BY <1>7, <3>1, <3>3
  <2>3. ASSUME NEW i \in lb .. rb PROVE i \in start .. right
    BY <1>7
  <2> HIDE DEF start, right
  <2> QED
    BY <2>1, <2>2, <2>3 DEF Span
<1> HIDE DEF start, right
<1>12. /\ T \in SUBSET DOMAIN m /\ first \in T /\ last \in T
       /\ Left(m, first) <= Left(m, last)
       /\ start \in Nat /\ right \in Nat /\ start <= right /\ right < N
       /\ Clear(m, T, start, right)
       /\ start .. right = Span(m, T) \cup (lb .. rb)
  BY <1>3, <1>5, <1>6, <1>8, <1>9, <1>10, <1>11 DEF Clear
<1> QED
  BY <1>12 DEF T, first, last, start, right

\* Insert stores a piece merged with what it overlaps: afterwards the store holds the
\* old indices and those of the piece, each once (stream_reassembler.cc:134-187).
LEMMA InsertOK ==
  ASSUME NEW s, StoreOK(s), NEW lb \in Nat, NEW rb \in Nat, lb <= rb, rb < N
  PROVE  LET t == Insert(s, Piece(lb, rb), lb, rb)
         IN  /\ StoreOK(t) /\ SameButStore(s, t)
             /\ Span(t.m, DOMAIN t.m) = Span(s.m, DOMAIN s.m) \cup (lb .. rb)
<1> DEFINE m == s.m
           d == Piece(lb, rb)
           t == Insert(s, d, lb, rb)
           T == Touched(m, lb, rb)
<1>1. DOMAIN s = Fields /\ PiecesOK(m) /\ s.unassembled = Cardinality(Span(m, DOMAIN m))
  BY DEF StoreOK
<1>2. \A k \in DOMAIN m : k \in Nat /\ k < N /\ Left(m, k) \in Nat /\ Left(m, k) <= k
                          /\ m[k] = Piece(Left(m, k), k)
  BY <1>1, Constants DEF PiecesOK
<1>3. Cardinality(Span(m, DOMAIN m)) \in Nat
  BY <1>1, SpanFinite
<1>4. CASE T = {}
  <2> DEFINE mm == [k \in (DOMAIN m \ T) \cup {rb} |-> IF k = rb THEN d ELSE m[k]]
             u  == s.unassembled + (rb - lb + 1)
  <2>1. t = [s EXCEPT !.m = mm, !.unassembled = u]
    <3>1. DOMAIN m \ T = DOMAIN m
      BY <1>4
    <3> QED
      BY <1>4, <3>1 DEF Insert
  <2>2. Clear(m, T, lb, rb)
    BY <1>2, <1>4 DEF Touched, Clear
  <2>3. T \in SUBSET DOMAIN m
    BY <1>4
  <2> HIDE DEF m, T, d
  <2>4. /\ PiecesOK(mm)
        /\ Span(mm, DOMAIN mm) = Span(m, DOMAIN m \ T) \cup (lb .. rb)
        /\ Cardinality(Span(mm, DOMAIN mm))
             = Cardinality(Span(m, DOMAIN m)) + (rb - lb + 1) - Cardinality(Span(m, T))
    <3>1. mm = Replaced(m, T, lb, rb)
      BY DEF d, Replaced
    <3>2. /\ PiecesOK(m) /\ T \in SUBSET DOMAIN m /\ lb \in Nat /\ rb \in Nat
          /\ lb <= rb /\ rb < N /\ Clear(m, T, lb, rb)
      BY <1>1, <2>2, <2>3
    <3> DEFINE R == Replaced(m, T, lb, rb)
    <3>3. /\ PiecesOK(R)
          /\ Span(R, DOMAIN R) = Span(m, DOMAIN m \ T) \cup (lb .. rb)
          /\ Cardinality(Span(R, DOMAIN R))
               = Cardinality(Span(m, DOMAIN m)) + (rb - lb + 1) - Cardinality(Span(m, T))
      BY ONLY <3>2, ReplaceOK, SMTT(30)
    <3> HIDE DEF mm
    <3> QED
      BY <3>1, <3>3, Zenon
  <2>5. DOMAIN m \ T = DOMAIN m /\ Cardinality(Span(m, T)) = 0
    <3>1. Span(m, T) = {}
      BY <1>4 DEF Span
    <3> QED
      BY <1>4, <3>1, FS_EmptySet
  <2> HIDE DEF mm
  <2>6. Span(mm, DOMAIN mm) = Span(m, DOMAIN m) \cup (lb .. rb)
    BY <2>4, <2>5
  <2>7. u = Cardinality(Span(mm, DOMAIN mm))
    BY <1>1, <1>3, <2>4, <2>5
  <2> HIDE DEF t, u
  <2>8. /\ DOMAIN t = Fields /\ t.m = mm /\ t.unassembled = u
        /\ t.output = s.output /\ t.capacity = s.capacity /\ t.endIdx = s.endIdx
    BY <1>1, <2>1 DEF Fields
  <2> QED
    BY <2>4, <2>6, <2>7, <2>8, Zenon DEF StoreOK, SameButStore, t, d, m
<1>5. CASE T # {}
  <2> DEFINE first == Min(T)
             last  == Max(T)
             start == IF lb <= Left(m, first) THEN lb ELSE Left(m, first)
             right == IF rb >= last THEN rb ELSE last
             ins   == combine(m[last], combine(m[first], d, Left(m, first), lb),
                              Left(m, last), start)
             mm    == [k \in (DOMAIN m \ T) \cup {right} |-> IF k = right THEN ins ELSE m[k]]
             u     == s.unassembled + (right - start + 1) - Bytes(m, T)
  <2>1. /\ T \in SUBSET DOMAIN m /\ first \in T /\ last \in T
        /\ Left(m, first) <= Left(m, last)
        /\ start \in Nat /\ right \in Nat /\ start <= right /\ right < N
        /\ Clear(m, T, start, right)
        /\ start .. right = Span(m, T) \cup (lb .. rb)
    BY <1>1, <1>5, TouchedOK
  <2>2. /\ first \in Nat /\ first < N /\ Left(m, first) \in Nat /\ Left(m, first) <= first
        /\ last \in Nat /\ last < N /\ Left(m, last) \in Nat /\ Left(m, last) <= last
        /\ m[first] = Piece(Left(m, first), first) /\ m[last] = Piece(Left(m, last), last)
        /\ lb <= first /\ Left(m, first) <= rb /\ lb <= last /\ Left(m, last) <= rb
        /\ first <= last
    <3>1. first \in DOMAIN m /\ last \in DOMAIN m
      BY <2>1
    <3>2. lb <= first /\ Left(m, first) <= rb /\ lb <= last /\ Left(m, last) <= rb
      <4>1. \A k \in T : k >= lb /\ Left(m, k) <= rb
        BY DEF Touched
      <4> HIDE DEF T
      <4> QED
        BY <1>2, <2>1, <4>1, <3>1
    <3>3. first <= last
      <4>1. T \in SUBSET Nat
        BY <1>2, <2>1
      <4>2. \A k \in T : first <= k
        BY <1>5, <4>1, Smallest
      <4> QED
        BY <2>1, <4>2
    <3> QED
      BY <1>2, <3>1, <3>2, <3>3
  <2>3. t = [s EXCEPT !.m = mm, !.unassembled = u]
    <3>1. start = Min({lb, Left(m, first)}) /\ right = Max({rb, last})
      <4> DEFINE x == Left(m, first)
      <4>1. x \in Int /\ last \in Int
        BY <2>2
      <4> HIDE DEF T, first, last, x
      <4>2. Min({lb, x}) = IF lb <= x THEN lb ELSE x
        BY <4>1, MinMax
      <4>3. Max({rb, last}) = IF rb >= last THEN rb ELSE last
        BY <4>1, MinMax
      <4> QED
        BY <4>2, <4>3 DEF x
    <3> DEFINE start2 == Min({lb, Left(m, first)})
               right2 == Max({rb, last})
               ins2 == combine(m[last], combine(m[first], d, Left(m, first), lb),
                               Left(m, last), start2)
               mm2 == [k \in (DOMAIN m \ T) \cup {right2} |-> IF k = right2 THEN ins2 ELSE m[k]]
               u2 == s.unassembled + (right2 - start2 + 1) - Bytes(m, T)
    <3>2. t = [s EXCEPT !.m = mm2, !.unassembled = u2]
      BY <1>5, Zenon DEF Insert
    <3>3. start2 = start /\ right2 = right
      BY <3>1
    <3> HIDE DEF t, start, right, start2, right2, T, first, last, m
    <3>4. mm2 = mm /\ u2 = u
      BY <3>3
    <3> QED
      BY <3>2, <3>4, Zenon
  <2>4. ins = Piece(start, right)
    <3> DEFINE top == IF rb <= first THEN first ELSE rb
    <3>1. combine(m[first], d, Left(m, first), lb)
            = Piece(IF Left(m, first) <= lb THEN Left(m, first) ELSE lb, top)
      <4> HIDE DEF m, T, first
      <4> QED
        BY <2>2, CombinePieces
    <3>2. (IF Left(m, first) <= lb THEN Left(m, first) ELSE lb) = start
      <4> HIDE DEF m, T, first
      <4> QED
        BY <2>2
    <3>3. /\ top \in Nat /\ start <= top /\ top < N /\ start <= last + 1
          /\ Left(m, last) <= top + 1
      <4> HIDE DEF m, T, first, last
      <4> QED
        BY <2>2
    <3>4. start \in Nat
      BY <2>1
    <3> HIDE DEF m, T, d, first, last, start, right, top
    <3>5. combine(m[last], Piece(start, top), Left(m, last), start)
            = Piece(IF Left(m, last) <= start THEN Left(m, last) ELSE start,
                    IF top <= last THEN last ELSE top)
      BY <2>2, <3>3, <3>4, CombinePieces
    <3>6. (IF Left(m, last) <= start THEN Left(m, last) ELSE start) = start
      BY <2>1, <2>2 DEF start
    <3>7. (IF top <= last THEN last ELSE top) = right
      BY <2>2 DEF top, right
    <3> QED
      BY <3>1, <3>2, <3>5, <3>6, <3>7
  <2> HIDE DEF m, T, d, first, last, start, right, ins, t
  <2>5. mm = Replaced(m, T, start, right)
    BY <2>4 DEF Replaced
  <2> HIDE DEF mm
  <2>6. /\ PiecesOK(mm)
        /\ Span(mm, DOMAIN mm) = Span(m, DOMAIN m \ T) \cup (start .. right)
        /\ Cardinality(Span(mm, DOMAIN mm))
             = Cardinality(Span(m, DOMAIN m)) + (right - start + 1) - Cardinality(Span(m, T))
    <3>1. /\ PiecesOK(m) /\ T \in SUBSET DOMAIN m /\ start \in Nat /\ right \in Nat
          /\ start <= right /\ right < N /\ Clear(m, T, start, right)
      BY <1>1, <2>1
    <3> DEFINE R == Replaced(m, T, start, right)
    <3>2. /\ PiecesOK(R)
          /\ Span(R, DOMAIN R) = Span(m, DOMAIN m \ T) \cup (start .. right)
          /\ Cardinality(Span(R, DOMAIN R))
               = Cardinality(Span(m, DOMAIN m)) + (right - start + 1) - Cardinality(Span(m, T))
      BY ONLY <3>1, ReplaceOK, SMTT(30)
    <3> QED
      BY <2>5, <3>2, Zenon
  <2>7. Span(mm, DOMAIN mm) = Span(m, DOMAIN m) \cup (lb .. rb)
    <3>1. Span(m, DOMAIN m) = Span(m, DOMAIN m \ T) \cup Span(m, T)
      BY <2>1 DEF Span
    <3> QED
      BY <2>1, <2>6, <3>1
  <2>8. u = Cardinality(Span(mm, DOMAIN mm))
    BY <1>1, <2>1, <2>6, BytesOfSpan
  <2> HIDE DEF u
  <2>9. /\ DOMAIN t = Fields /\ t.m = mm /\ t.unassembled = u
        /\ t.output = s.output /\ t.capacity = s.capacity /\ t.endIdx = s.endIdx
    BY <1>1, <2>3 DEF Fields
  <2> QED
    BY <2>6, <2>7, <2>8, <2>9, Zenon DEF StoreOK, SameButStore, t, d, m
<1> QED
  BY <1>4, <1>5

--------------------------------------------------------------------------------
\* The output stream.

\* A bounded queue with exact counters that has been given no more than the stream.
OutputOK(b) ==
  /\ b \in BS!Streams(Byte)
  /\ b.capacity = Capacity
  /\ b.total_read \in Nat
  /\ b.written = b.total_read + Len(b.buffer)
  /\ b.written <= N
  /\ Len(b.buffer) <= Capacity

\* A count of at most N, or N and the capacity, survives the conversions.
LEMMA SmallCount ==
  ASSUME NoOverflow, NEW x \in Nat, x <= N + Capacity
  PROVE  Int32(x) = x /\ Size(x) = x /\ BS!Int32(x) = x /\ BS!Size(x) = x
<1>1. x < Half32
  BY Constants DEF NoOverflow
<1>2. Int32(x) = x /\ Size(x) = x
  BY <1>1, Constants, SmallConversions
<1>3. BS!Int32(x) = Int32(x) /\ BS!Size(x) = Size(x)
  BY DEF BS!Int32, Int32, BS!Half32, Half32, BS!Size, Size
<1> QED
  BY <1>2, <1>3

\* The counters report what they count.
LEMMA Counters ==
  ASSUME NoOverflow, NEW b, OutputOK(b)
  PROVE  /\ BS!bytes_written(b) = b.written /\ BS!bytes_read(b) = b.total_read
         /\ b.written \in Nat /\ b.total_read \in Nat /\ b.total_read <= b.written
         /\ b.buffer \in Seq(Byte) /\ Len(b.buffer) \in Nat /\ b.end \in BOOLEAN
<1>1. /\ b.buffer \in Seq(Byte) /\ Len(b.buffer) \in Nat /\ b.end \in BOOLEAN
  BY LenProperties DEF OutputOK, BS!Streams
<1>2. /\ b.written \in Nat /\ b.total_read \in Nat /\ b.total_read <= b.written
      /\ b.written <= N + Capacity /\ b.total_read <= N + Capacity
  BY <1>1, Constants DEF OutputOK
<1>3. BS!Size(b.written) = b.written /\ BS!Size(b.total_read) = b.total_read
  BY <1>2, SmallCount
<1> QED
  BY <1>1, <1>2, <1>3 DEF BS!bytes_written, BS!bytes_read

\* Writing the next piece, which fits, appends all of it.
LEMMA WriteOK ==
  ASSUME NoOverflow, NEW b, OutputOK(b), NEW K \in Nat,
         b.written <= K, K < N, K < b.total_read + Capacity
  PROVE  LET c == BS!write(b, Piece(b.written, K))
         IN  /\ OutputOK(c)
             /\ c.written = K + 1 /\ c.total_read = b.total_read /\ c.end = b.end
             /\ c.buffer = b.buffer \o Piece(b.written, K)
<1> DEFINE w == b.written
           p == Piece(w, K)
           c == BS!write(b, p)
           nb == b.buffer \o p
<1>1. /\ b \in BS!Streams(Byte) /\ b.capacity = Capacity /\ Capacity \in Nat /\ N \in Nat
      /\ w \in Nat /\ b.total_read \in Nat /\ w = b.total_read + Len(b.buffer)
      /\ b.buffer \in Seq(Byte) /\ Len(b.buffer) \in Nat
  BY Counters, Constants DEF OutputOK
<1>2. p \in Seq(Byte) /\ Len(p) = K - w + 1
  <2>1. K \in Int /\ w <= K + 1
    BY <1>1
  <2> QED
    BY <1>1, <2>1, PieceProperties
<1> HIDE DEF p, c, w
<1>3. BS!accepted(b, p) = Len(p)
  <2>1. Len(p) <= b.capacity - Len(b.buffer)
    <3> DEFINE l == Len(b.buffer)
    <3>1. /\ Len(p) = K - w + 1 /\ w = b.total_read + l /\ K < b.total_read + Capacity
          /\ b.capacity = Capacity /\ K \in Nat /\ w \in Nat /\ l \in Nat
          /\ b.total_read \in Nat /\ Capacity \in Nat
      BY <1>1, <1>2, Zenon
    <3> HIDE DEF l
    <3>2. Len(p) <= b.capacity - l
      BY ONLY <3>1, SMTT(20)
    <3> QED
      BY <3>2 DEF l
  <2> QED
    BY <2>1 DEF BS!accepted, BS!remaining_capacity, BS!buffer_size
<1>4. SubSeq(p, 1, Len(p)) = p
  BY <1>2, SubSeqFull
<1>5. w + Len(p) = K + 1 /\ K + 1 \in Nat /\ K + 1 <= N + Capacity
  BY <1>1, <1>2
<1>6. BS!Int32(w + Len(p)) = K + 1
  BY <1>5, SmallCount
<1>7. c = [b EXCEPT !.buffer = nb, !.written = K + 1]
  BY <1>3, <1>4, <1>6 DEF BS!write, c, w
<1>8. nb \in Seq(Byte) /\ Len(nb) = Len(b.buffer) + (K - w + 1)
  <2>1. b.buffer \in Seq(Byte) /\ p \in Seq(Byte)
    BY <1>1, <1>2
  <2>2. nb \in Seq(Byte) /\ Len(nb) = Len(b.buffer) + Len(p)
    BY ONLY <2>1, ConcatProperties
  <2> QED
    BY <1>2, <2>2
<1> DEFINE v == K + 1
<1>9. v \in Int
  OBVIOUS
<1> HIDE DEF nb, v
<1>10. c \in BS!Streams(Byte)
  <2>1. [b EXCEPT !.buffer = nb, !.written = v] \in BS!Streams(Byte)
    BY <1>1, <1>8, <1>9, Zenon DEF BS!Streams
  <2> QED
    BY <1>7, <2>1 DEF v
<1>11. /\ c.buffer = nb /\ c.written = v /\ c.total_read = b.total_read
       /\ c.capacity = b.capacity /\ c.end = b.end
  BY <1>1, <1>7 DEF BS!Streams, v
<1>12. /\ v = b.total_read + Len(nb) /\ v <= N /\ Len(nb) <= Capacity
  <2> DEFINE x == b.total_read
             y == Len(b.buffer)
             z == Len(nb)
  <2>1. /\ x \in Nat /\ y \in Nat /\ w = x + y /\ z = y + (K - w + 1)
        /\ K < N /\ K < x + Capacity /\ v = K + 1 /\ Capacity \in Nat /\ N \in Nat
    BY <1>1, <1>8, Zenon DEF v
  <2> HIDE DEF x, y, z
  <2>2. v = x + z /\ v <= N /\ z <= Capacity
    BY ONLY <2>1, K \in Nat
  <2> QED
    BY <2>2 DEF x, z
<1>13. OutputOK(c)
  BY <1>1, <1>10, <1>11, <1>12 DEF OutputOK
<1> QED
  BY <1>11, <1>13 DEF c, p, w, nb, v

\* Reading n buffered bytes takes them from the front.
LEMMA ReadOK ==
  ASSUME NoOverflow, NEW b, OutputOK(b), NEW n \in 0 .. Len(b.buffer)
  PROVE  LET c == BS!pop_output(b, n)
         IN  /\ OutputOK(c)
             /\ c.written = b.written /\ c.total_read = b.total_read + n /\ c.end = b.end
             /\ c.buffer = SubSeq(b.buffer, n + 1, Len(b.buffer))
<1> DEFINE rest == SubSeq(b.buffer, n + 1, Len(b.buffer))
           t == b.total_read + n
           c == BS!pop_output(b, n)
<1>1. /\ b \in BS!Streams(Byte) /\ b.capacity = Capacity /\ Capacity \in Nat /\ N \in Nat
      /\ b.written \in Nat /\ b.total_read \in Nat /\ b.written = b.total_read + Len(b.buffer)
      /\ b.buffer \in Seq(Byte) /\ Len(b.buffer) \in Nat /\ b.written <= N
      /\ Len(b.buffer) <= Capacity
  BY Counters, Constants DEF OutputOK
<1>2. rest \in Seq(Byte) /\ Len(rest) = Len(b.buffer) - n
  <2>1. \A i \in 1 .. Len(b.buffer) : b.buffer[i] \in Byte
    BY <1>1, ElementOfSeq
  <2>2. \A i \in n + 1 .. Len(b.buffer) : b.buffer[i] \in Byte
    BY <1>1, <2>1
  <2> QED
    BY <1>1, <2>2, SubSeqProperties
<1>3. t \in Nat /\ t <= N + Capacity /\ t \in Int
  BY <1>1
<1>4. BS!Int32(t) = t
  BY <1>3, SmallCount
<1>5. c = [b EXCEPT !.buffer = rest, !.total_read = t]
  BY <1>4 DEF BS!pop_output
<1> HIDE DEF rest, t, c
<1>6. c \in BS!Streams(Byte)
  <2>1. [b EXCEPT !.buffer = rest, !.total_read = t] \in BS!Streams(Byte)
    BY <1>1, <1>2, <1>3, Zenon DEF BS!Streams
  <2> QED
    BY <1>5, <2>1
<1>7. /\ c.buffer = rest /\ c.written = b.written /\ c.total_read = t
      /\ c.capacity = b.capacity /\ c.end = b.end
  BY <1>1, <1>5 DEF BS!Streams
<1>8. b.written = t + Len(rest) /\ Len(rest) <= Capacity
  <2> DEFINE l == Len(b.buffer)
  <2>1. /\ Len(rest) = l - n /\ t = b.total_read + n /\ b.written = b.total_read + l
        /\ l \in Nat /\ n \in Nat /\ b.total_read \in Nat /\ Capacity \in Nat /\ l <= Capacity
    BY <1>1, <1>2 DEF t
  <2> HIDE DEF l
  <2> QED
    BY ONLY <2>1
<1>9. OutputOK(c)
  BY <1>1, <1>3, <1>6, <1>7, <1>8 DEF OutputOK
<1> QED
  BY <1>7, <1>9 DEF c, t, rest

--------------------------------------------------------------------------------
\* Moving what is contiguous to the output.

\* Everything stored is at or beyond w and below the edge of the capacity.
StoredFrom(s, w) ==
  \A k \in DOMAIN s.m : w <= Left(s.m, k) /\ k < s.output.total_read + Capacity

\* The indices that were handed to the reader or are held for it.
Held(s) == (0 .. s.output.written - 1) \cup Span(s.m, DOMAIN s.m)

\* What a reassembler is between two calls.
ReassemblerOK(s) ==
  /\ StoreOK(s)
  /\ OutputOK(s.output)
  /\ s.capacity = Capacity
  /\ StoredFrom(s, s.output.written + 1)

\* The substrings that are ready make up the indices from w to the last of them, and
\* the others start beyond a gap.
LEMMA ReadyOK ==
  ASSUME NoOverflow, NEW s, StoreOK(s), OutputOK(s.output), StoredFrom(s, s.output.written)
  PROVE  LET m == s.m
             w == s.output.written
             ready == Ready(s)
             K == Max(ready)
         IN  /\ ready \in SUBSET DOMAIN m
             /\ ready = {} => \A k \in DOMAIN m : w < Left(m, k)
             /\ ready # {} =>
                  /\ K \in Nat /\ w <= K /\ K < N /\ K < s.output.total_read + Capacity
                  /\ Span(m, ready) = w .. K
                  /\ \A k \in DOMAIN m \ ready : K + 1 < Left(m, k)
<1> DEFINE m == s.m
           w == s.output.written
           ready == Ready(s)
           K == Max(ready)
<1>1. PiecesOK(m) /\ w \in Nat /\ bytes_written(s) = w /\ s.output.total_read \in Nat
  BY Counters DEF StoreOK, bytes_written
<1>2. \A k \in DOMAIN m : /\ k \in Nat /\ k < N /\ Left(m, k) \in Nat /\ Left(m, k) <= k
                          /\ w <= Left(m, k) /\ k < s.output.total_read + Capacity
  BY <1>1, Constants DEF PiecesOK, StoredFrom
<1>3. \A h, k \in DOMAIN m : h < k => h < Left(m, k)
  BY <1>1 DEF PiecesOK
<1>4. /\ ready \in SUBSET DOMAIN m
      /\ \A k \in DOMAIN m : k \in ready <=>
           \A i \in w .. k : \E h \in DOMAIN m : i \in Left(m, h) .. h
  BY <1>1 DEF Ready
<1> HIDE DEF m, w, ready, K
<1>5. ASSUME ready = {}, NEW k \in DOMAIN m PROVE w < Left(m, k)
  <2> SUFFICES ASSUME w = Left(m, k) PROVE FALSE
    BY <1>1, <1>2
  <2>1. \A i \in w .. k : \E h \in DOMAIN m : i \in Left(m, h) .. h
    OBVIOUS
  <2> QED
    BY <1>4, <1>5, <2>1
<1>6. ASSUME ready # {}
      PROVE  /\ K \in Nat /\ w <= K /\ K < N /\ K < s.output.total_read + Capacity
             /\ Span(m, ready) = w .. K
             /\ \A k \in DOMAIN m \ ready : K + 1 < Left(m, k)
  <2>1. K \in ready /\ \A k \in ready : k <= K
    <3>1. ready \in SUBSET Nat /\ \A k \in ready : k <= N
      BY <1>2, <1>4, Constants
    <3> QED
      BY <1>6, <3>1, Largest, Constants DEF K
  <2>2. K \in DOMAIN m /\ K \in Nat /\ w <= K /\ K < N /\ K < s.output.total_read + Capacity
    BY <1>1, <1>2, <1>4, <2>1
  <2>3. \A i \in w .. K : \E h \in DOMAIN m : i \in Left(m, h) .. h
    BY <1>4, <2>1
  <2>4. \A k \in DOMAIN m : k <= K => k \in ready
    <3> SUFFICES ASSUME NEW k \in DOMAIN m, k <= K PROVE k \in ready
      OBVIOUS
    <3>1. \A i \in w .. k : i \in w .. K
      BY <1>1, <1>2, <2>2
    <3> QED
      BY <1>4, <2>3, <3>1
  <2>5. Span(m, ready) = w .. K
    <3>1. ASSUME NEW k \in ready, NEW i \in Left(m, k) .. k PROVE i \in w .. K
      <4>1. k <= K /\ k \in Nat /\ Left(m, k) \in Nat /\ w <= Left(m, k)
        BY <1>2, <1>4, <2>1
      <4> QED
        BY <1>1, <2>2, <4>1
    <3>2. ASSUME NEW i \in w .. K PROVE \E k \in ready : i \in Left(m, k) .. k
      <4>1. PICK h \in DOMAIN m : i \in Left(m, h) .. h
        BY <2>3
      <4>2. h \in Nat /\ Left(m, h) \in Nat /\ (K < h => K < Left(m, h))
        BY <1>2, <1>3, <2>2
      <4>3. h <= K
        BY <1>1, <2>2, <4>1, <4>2
      <4> QED
        BY <2>4, <4>1, <4>3
    <3> QED
      BY <3>1, <3>2 DEF Span
  <2>6. ASSUME NEW k \in DOMAIN m \ ready PROVE K + 1 < Left(m, k)
    <3>1. k \in Nat /\ Left(m, k) \in Nat /\ Left(m, k) <= k /\ K < k
      BY <1>2, <2>2, <2>4
    <3>2. K < Left(m, k)
      BY <1>3, <2>2, <3>1
    <3> SUFFICES ASSUME Left(m, k) = K + 1 PROVE FALSE
      BY <2>2, <3>1, <3>2
    <3>3. ASSUME NEW i \in w .. k PROVE \E h \in DOMAIN m : i \in Left(m, h) .. h
      <4>1. CASE i \in w .. K
        BY <2>3, <4>1
      <4>2. CASE i \in Left(m, k) .. k
        BY <4>2
      <4> QED
        BY <1>1, <2>2, <3>1, <4>1, <4>2
    <3> QED
      BY <1>4, <3>3
  <2> QED
    BY <2>2, <2>5, <2>6
<1> QED
  BY <1>4, <1>5, <1>6 DEF m, w, ready, K

\* A map with fewer substrings.
LEMMA RestrictOK ==
  ASSUME NEW m, PiecesOK(m), NEW T \in SUBSET DOMAIN m
  PROVE  LET mm == [k \in DOMAIN m \ T |-> m[k]]
         IN  /\ PiecesOK(mm)
             /\ DOMAIN mm = DOMAIN m \ T
             /\ \A k \in DOMAIN mm : Left(mm, k) = Left(m, k)
             /\ Span(mm, DOMAIN mm) \cup Span(m, T) = Span(m, DOMAIN m)
             /\ Cardinality(Span(mm, DOMAIN mm))
                  = Cardinality(Span(m, DOMAIN m)) - Cardinality(Span(m, T))
<1> DEFINE mm == [k \in DOMAIN m \ T |-> m[k]]
           D == DOMAIN m \ T
<1>1. DOMAIN mm = D /\ \A k \in D : mm[k] = m[k] /\ Left(mm, k) = Left(m, k)
  BY DEF Left
<1>2. D \in SUBSET DOMAIN m /\ D \cap T = {} /\ D \cup T = DOMAIN m
  OBVIOUS
<1> HIDE DEF mm, D
<1>3. PiecesOK(mm)
  BY <1>1, <1>2 DEF PiecesOK
<1>4. Span(mm, DOMAIN mm) = Span(m, D)
  BY <1>1 DEF Span
<1>5. /\ Span(m, D \cup T) = Span(m, D) \cup Span(m, T)
      /\ Cardinality(Span(m, D \cup T)) = Cardinality(Span(m, D)) + Cardinality(Span(m, T))
  <2>1. PiecesOK(m) /\ D \in SUBSET DOMAIN m /\ T \in SUBSET DOMAIN m /\ D \cap T = {}
    BY <1>2
  <2>2. Span(m, D \cup T) = Span(m, D) \cup Span(m, T)
    BY DEF Span
  <2>3. Span(m, D) \cap Span(m, T) = {}
    <3>1. \A A, B \in SUBSET DOMAIN m : A \cap B = {} => Span(m, A) \cap Span(m, B) = {}
      BY <2>1, SpanDisjoint
    <3> QED
      BY <2>1, <3>1, Zenon
  <2>4. IsFiniteSet(Span(m, D)) /\ IsFiniteSet(Span(m, T))
    BY <2>1, SpanFinite
  <2> QED
    BY <2>2, <2>3, <2>4, DisjointCardinality
<1>6. Cardinality(Span(m, D)) \in Nat /\ Cardinality(Span(m, T)) \in Nat
  BY <1>2, SpanFinite
<1>7. /\ PiecesOK(mm) /\ DOMAIN mm = D
      /\ \A k \in DOMAIN mm : Left(mm, k) = Left(m, k)
      /\ Span(mm, DOMAIN mm) \cup Span(m, T) = Span(m, DOMAIN m)
      /\ Cardinality(Span(mm, DOMAIN mm))
           = Cardinality(Span(m, DOMAIN m)) - Cardinality(Span(m, T))
  <2>1. /\ Span(m, DOMAIN m) = Span(m, D) \cup Span(m, T)
        /\ Cardinality(Span(m, DOMAIN m)) = Cardinality(Span(m, D)) + Cardinality(Span(m, T))
    BY <1>2, <1>5, Zenon
  <2>2. Cardinality(Span(m, D))
          = Cardinality(Span(m, DOMAIN m)) - Cardinality(Span(m, T))
    BY <1>6, <2>1
  <2> QED
    BY <1>1, <1>3, <1>4, <2>1, <2>2, Zenon
<1> QED
  BY <1>7, Zenon DEF mm, D

\* t is s after more of the stream was written to the output.
Continues(s, t) ==
  /\ ReassemblerOK(t)
  /\ t.endIdx = s.endIdx
  /\ t.output.total_read = s.output.total_read /\ t.output.end = s.output.end
  /\ s.output.written <= t.output.written
  /\ t.output.buffer = s.output.buffer \o Piece(s.output.written, t.output.written - 1)

\* Writing nothing.
LEMMA ContinuesSame ==
  ASSUME NoOverflow, NEW s, ReassemblerOK(s)
  PROVE  Continues(s, s)
<1> DEFINE w == s.output.written
<1>1. w \in Nat /\ s.output.buffer \in Seq(Byte)
  BY Counters DEF ReassemblerOK
<1>2. Piece(w, w - 1) = << >>
  <2>1. (w - 1) + 1 < w + 1 /\ (w - 1) + 1 \in Int /\ w + 1 \in Int
    BY <1>1
  <2> QED
    BY <2>1, SubSeqEmpty DEF Piece
<1>3. s.output.buffer = s.output.buffer \o Piece(w, w - 1)
  BY <1>1, <1>2, ConcatEmptySeq
<1>4. w <= w
  BY <1>1
<1> QED
  BY <1>3, <1>4, Zenon DEF Continues

\* Flush writes what continues the output, all of it, and keeps the rest: nothing that
\* was held is lost (stream_reassembler.cc:198-209).
LEMMA FlushOK ==
  ASSUME NoOverflow, NEW s, StoreOK(s), OutputOK(s.output), s.capacity = Capacity,
         StoredFrom(s, s.output.written)
  PROVE  Continues(s, Flush(s)) /\ Held(Flush(s)) = Held(s)
<1> DEFINE m == s.m
           b == s.output
           w == b.written
           ready == Ready(s)
           K == Max(ready)
           t == Flush(s)
<1>1. /\ DOMAIN s = Fields /\ PiecesOK(m) /\ w \in Nat /\ bytes_written(s) = w /\ w <= N
      /\ s.unassembled = Cardinality(Span(m, DOMAIN m)) /\ b.buffer \in Seq(Byte)
  BY Counters DEF StoreOK, OutputOK, bytes_written
<1>2. /\ ready \in SUBSET DOMAIN m
      /\ ready = {} => \A k \in DOMAIN m : w < Left(m, k)
      /\ ready # {} =>
           /\ K \in Nat /\ w <= K /\ K < N /\ K < b.total_read + Capacity
           /\ Span(m, ready) = w .. K
           /\ \A k \in DOMAIN m \ ready : K + 1 < Left(m, k)
  BY ReadyOK
<1>3. \A k \in DOMAIN m : k \in Nat /\ k < N /\ Left(m, k) \in Nat /\ Left(m, k) <= k
  BY <1>1, Constants DEF PiecesOK
<1>4. CASE ready = {}
  <2>1. t = s
    BY <1>4 DEF Flush
  <2>2. StoredFrom(s, w + 1)
    BY <1>1, <1>2, <1>3, <1>4 DEF StoredFrom
  <2>3. ReassemblerOK(s)
    BY <2>2 DEF ReassemblerOK
  <2> QED
    BY <2>1, <2>3, ContinuesSame
<1>5. CASE ready # {}
  <2> DEFINE chunk == [i \in 1 .. K - w + 1 |-> Stored(m, w + i - 1)]
             c == BS!write(b, chunk)
             mm == [k \in DOMAIN m \ ready |-> m[k]]
             u == s.unassembled - Bytes(m, ready)
  <2>1. t = [s EXCEPT !.output = c, !.m = mm, !.unassembled = u]
    BY <1>1, <1>5, Zenon DEF Flush
  <2> HIDE DEF t, ready, K
  <2>2. chunk = Piece(w, K)
    <3>1. ASSUME NEW i \in 1 .. K - w + 1 PROVE Stored(m, w + i - 1) = Stream[w + i]
      <4> DEFINE j == w + i - 1
                 k == CHOOSE h \in DOMAIN m : j \in Left(m, h) .. h
      <4>0. w \in Nat /\ K \in Nat
        BY <1>1, <1>2, <1>5
      <4>1. j \in w .. K /\ j + 1 = w + i
        <5> HIDE DEF w, m
        <5> QED
          BY ONLY <4>0, i \in 1 .. K - w + 1 DEF j
      <4> HIDE DEF j
      <4>2. \E h \in DOMAIN m : j \in Left(m, h) .. h
        BY <1>2, <1>5, <4>1 DEF Span
      <4>3. k \in DOMAIN m /\ j \in Left(m, k) .. k
        BY <4>2
      <4>4. Stored(m, j) = m[k][j - Left(m, k) + 1]
        BY DEF Stored
      <4> HIDE DEF k
      <4>5. /\ Left(m, k) \in Nat /\ k \in Int /\ Left(m, k) <= k + 1 /\ k < N
            /\ m[k] = Piece(Left(m, k), k)
        BY <1>1, <1>3, <4>3 DEF PiecesOK
      <4>6. \A x \in 1 .. k - Left(m, k) + 1 : Piece(Left(m, k), k)[x] = Stream[Left(m, k) + x]
        BY <4>5, PieceProperties
      <4>7. /\ j - Left(m, k) + 1 \in 1 .. k - Left(m, k) + 1
            /\ Left(m, k) + (j - Left(m, k) + 1) = j + 1
        BY <4>3, <4>5
      <4>8. m[k][j - Left(m, k) + 1] = Stream[j + 1]
        BY <4>5, <4>6, <4>7
      <4> QED
        BY <4>1, <4>4, <4>8 DEF j
    <3>2. /\ Piece(w, K) \in Seq(Byte) /\ Len(Piece(w, K)) = K - w + 1
          /\ \A i \in 1 .. K - w + 1 : Piece(w, K)[i] = Stream[w + i]
      <4>1. K \in Int /\ w <= K + 1 /\ K < N
        BY <1>1, <1>2, <1>5
      <4> QED
        BY <1>1, <4>1, PieceProperties
    <3>3. Piece(w, K) = [i \in 1 .. K - w + 1 |-> Piece(w, K)[i]]
      <4>1. Piece(w, K) \in [1 .. Len(Piece(w, K)) -> Byte]
        BY <3>2, LenProperties
      <4> QED
        BY <3>2, <4>1
    <3>4. \A i \in 1 .. K - w + 1 : Stored(m, w + i - 1) = Piece(w, K)[i]
      BY <3>1, <3>2
    <3> HIDE DEF m, w
    <3> QED
      BY <3>3, <3>4
  <2> HIDE DEF chunk, c, mm, u
  <2>3. /\ OutputOK(c)
        /\ c.written = K + 1 /\ c.total_read = b.total_read /\ c.end = b.end
        /\ c.buffer = b.buffer \o Piece(w, K)
    BY <1>2, <1>5, <2>2, WriteOK DEF c
  <2>4. /\ PiecesOK(mm)
        /\ DOMAIN mm = DOMAIN m \ ready
        /\ \A k \in DOMAIN mm : Left(mm, k) = Left(m, k)
        /\ Span(mm, DOMAIN mm) \cup Span(m, ready) = Span(m, DOMAIN m)
        /\ Cardinality(Span(mm, DOMAIN mm))
             = Cardinality(Span(m, DOMAIN m)) - Cardinality(Span(m, ready))
    BY <1>1, <1>2, RestrictOK DEF mm
  <2>5. u = Cardinality(Span(mm, DOMAIN mm))
    BY <1>1, <1>2, <2>4, BytesOfSpan DEF u
  <2>6. /\ DOMAIN t = Fields /\ t.m = mm /\ t.unassembled = u /\ t.output = c
        /\ t.capacity = s.capacity /\ t.endIdx = s.endIdx
    BY <1>1, <2>1 DEF Fields
  <2>7. StoreOK(t)
    BY <2>4, <2>5, <2>6 DEF StoreOK
  <2>8. StoredFrom(t, c.written + 1)
    <3> SUFFICES ASSUME NEW k \in DOMAIN mm
                 PROVE  c.written + 1 <= Left(mm, k) /\ k < b.total_read + Capacity
      BY <2>3, <2>6 DEF StoredFrom
    <3>1. k \in DOMAIN m \ ready /\ Left(mm, k) = Left(m, k)
      BY <2>4
    <3>2. K + 1 < Left(m, k) /\ k < b.total_read + Capacity /\ Left(m, k) \in Nat
      BY <1>2, <1>3, <1>5, <3>1 DEF StoredFrom
    <3> QED
      BY <1>2, <1>5, <2>3, <3>1, <3>2
  <2>9. Held(t) = Held(s)
    <3>1. 0 .. c.written - 1 = (0 .. w - 1) \cup (w .. K)
      BY <1>1, <1>2, <1>5, <2>3
    <3>2. Held(t) = (0 .. c.written - 1) \cup Span(mm, DOMAIN mm)
      BY <2>6 DEF Held
    <3>3. Held(s) = (0 .. w - 1) \cup Span(m, DOMAIN m)
      BY DEF Held
    <3> HIDE DEF m, w, b
    <3> QED
      BY <1>2, <1>5, <2>4, <3>1, <3>2, <3>3
  <2>10. w <= c.written /\ c.written - 1 = K
    BY <1>1, <1>2, <1>5, <2>3
  <2>11. ReassemblerOK(t)
    BY <2>3, <2>6, <2>7, <2>8 DEF ReassemblerOK
  <2>12. /\ t.endIdx = s.endIdx
         /\ t.output.total_read = b.total_read /\ t.output.end = b.end
         /\ w <= t.output.written
         /\ t.output.buffer = b.buffer \o Piece(w, t.output.written - 1)
    BY <2>3, <2>6, <2>10
  <2> QED
    BY <2>9, <2>11, <2>12 DEF t, Continues
<1> QED
  BY <1>4, <1>5

--------------------------------------------------------------------------------
\* push_substring.

\* The conversion to an int keeps the sign of small differences.
LEMMA SmallDifference ==
  ASSUME NEW x \in Int, -Half32 <= x, x < Half32
  PROVE  Int32(x) = x
<1>1. x + Half32 \in Nat /\ x + Half32 < Pow32
  BY Constants
<1>2. (x + Half32) % Pow32 = x + Half32
  BY <1>1, Constants, ModSmall
<1> QED
  BY <1>2, Constants DEF Int32

\* overflow is negative exactly for the indices beyond the capacity.
LEMMA OverflowExact ==
  ASSUME NoOverflow, NEW s, ReassemblerOK(s), NEW i \in 0 .. N
  PROVE  /\ Edge(s) = s.output.total_read + Capacity - 1
         /\ overflow(s, i) < 0 <=> Edge(s) < i
<1> DEFINE e == s.output.total_read + Capacity - 1
<1>1. Edge(s) = e /\ s.output.total_read \in Nat /\ s.output.total_read <= N
  BY Counters, Constants DEF Edge, ReassemblerOK, OutputOK
<1>2. /\ e - i \in Int /\ -Half32 <= e - i /\ e - i < Half32
  BY <1>1, Constants DEF NoOverflow
<1>3. overflow(s, i) = e - i
  BY <1>1, <1>2, SmallDifference DEF overflow
<1> QED
  BY <1>1, <1>3, Constants

\* The indices of lo .. hi - 1 that there is room for.
Fitting(s, lo, hi) == {k \in lo .. hi - 1 : k < s.output.total_read + Capacity}

\* AddTempCash takes all of the bytes that fit and loses none it had.
LEMMA AddTempCashOK ==
  ASSUME NoOverflow, NEW s, ReassemblerOK(s), NEW lo \in 0 .. N, NEW hi \in lo .. N
  PROVE  LET t == AddTempCash(s, SubSeq(Stream, lo + 1, hi), lo)
         IN  /\ Continues(s, t)
             /\ Held(t) = Held(s) \cup Fitting(s, lo, hi)
<1> DEFINE data == SubSeq(Stream, lo + 1, hi)
           t == AddTempCash(s, data, lo)
           w == s.output.written
           e == s.output.total_read + Capacity - 1
           whole == lo + Len(data) - 1
           lb == IF lo < bytes_written(s) THEN bytes_written(s) ELSE lo
           rb == IF overflow(s, whole) < 0 THEN Edge(s) ELSE whole
           d == SubSeq(data, lb - lo + 1, rb - lo + 1)
<1>1. /\ w \in Nat /\ w <= N /\ bytes_written(s) = w /\ e \in Int /\ Edge(s) = e
      /\ s.output.total_read \in Nat /\ lo \in Nat /\ hi \in Nat /\ N \in Nat /\ lo <= hi /\ hi <= N
      /\ w <= e + 1
  <2>1. OutputOK(s.output)
    BY DEF ReassemblerOK
  <2>2. /\ w \in Nat /\ bytes_written(s) = w /\ s.output.total_read \in Nat
        /\ Len(s.output.buffer) \in Nat
    BY <2>1, Counters DEF bytes_written
  <2>3. /\ w <= N /\ w = s.output.total_read + Len(s.output.buffer)
        /\ Len(s.output.buffer) <= Capacity
    BY <2>1 DEF OutputOK
  <2>4. Edge(s) = e
    BY OverflowExact
  <2>5. N \in Nat /\ Capacity \in Nat /\ lo \in Nat /\ hi \in Nat /\ lo <= hi /\ hi <= N
    BY Constants
  <2>6. e \in Int /\ w <= e + 1
    <3> DEFINE tr == s.output.total_read
               l == Len(s.output.buffer)
    <3>1. /\ w = tr + l /\ l <= Capacity /\ e = tr + Capacity - 1
          /\ tr \in Nat /\ l \in Nat /\ Capacity \in Nat
      BY <2>2, <2>3, <2>5, Zenon
    <3> HIDE DEF w, e, tr, l
    <3> QED
      BY ONLY <3>1
  <2> QED
    BY <2>2, <2>3, <2>4, <2>5, <2>6, Zenon
<1>2. data = Piece(lo, hi - 1) /\ data \in Seq(Byte) /\ Len(data) = hi - lo
  <2>1. (hi - 1) + 1 = hi /\ hi - 1 \in Int /\ lo <= (hi - 1) + 1 /\ hi - 1 < N
    BY <1>1
  <2>2. data = Piece(lo, hi - 1)
    BY <2>1, Zenon DEF Piece
  <2>3. Piece(lo, hi - 1) \in Seq(Byte) /\ Len(Piece(lo, hi - 1)) = (hi - 1) - lo + 1
    BY <1>1, <2>1, PieceProperties
  <2> HIDE DEF data
  <2> QED
    BY <1>1, <2>2, <2>3
<1>3. whole = hi - 1 /\ (data = << >> <=> lo = hi)
  <2>1. data = << >> => Len(data) = 0
    BY EmptySeq
  <2>2. Len(data) = 0 => data = << >>
    BY <1>2, EmptySeq
  <2> HIDE DEF data
  <2> QED
    BY <1>1, <1>2, <2>1, <2>2
<1>4. lb = IF lo < w THEN w ELSE lo
  BY <1>1
<1> HIDE DEF data
<1> DEFINE early == \/ data = << >>
                    \/ lo < bytes_written(s) /\ whole < bytes_written(s)
                    \/ overflow(s, whole) < 0 /\ overflow(s, lb) < 0
<1>5. t = IF early THEN s ELSE Flush(Insert(s, d, lb, rb))
  BY Zenon DEF AddTempCash
<1> HIDE DEF t, whole, lb, rb, d
<1>6. lo < hi => /\ overflow(s, whole) < 0 <=> e < hi - 1
                 /\ overflow(s, lb) < 0 <=> e < lb
  <2> SUFFICES ASSUME lo < hi
               PROVE  /\ overflow(s, whole) < 0 <=> e < hi - 1
                      /\ overflow(s, lb) < 0 <=> e < lb
    OBVIOUS
  <2>1. whole \in 0 .. N /\ lb \in 0 .. N
    BY <1>1, <1>3, <1>4
  <2>2. overflow(s, whole) < 0 <=> Edge(s) < whole
    BY <2>1, OverflowExact
  <2>3. overflow(s, lb) < 0 <=> Edge(s) < lb
    BY <2>1, OverflowExact
  <2> QED
    BY <1>1, <1>3, <2>2, <2>3
<1>7. \A k \in Int : k < s.output.total_read + Capacity <=> k <= e
  BY <1>1, Constants
<1> HIDE DEF e
<1>8. CASE early
  <2>1. Fitting(s, lo, hi) \subseteq 0 .. w - 1
    <3> SUFFICES ASSUME NEW k \in lo .. hi - 1, k <= e PROVE k \in 0 .. w - 1
      BY <1>7 DEF Fitting
    <3>1. lo < hi /\ k \in Nat
      BY <1>1
    <3>2. \/ lo < w /\ hi - 1 < w
          \/ e < hi - 1 /\ e < lb
      BY <1>1, <1>3, <1>6, <1>8, <3>1
    <3> HIDE DEF w
    <3> QED
      BY <1>1, <1>4, <3>1, <3>2
  <2>2. t = s
    BY <1>5, <1>8
  <2>3. Held(s) = Held(s) \cup Fitting(s, lo, hi)
    BY <2>1 DEF Held
  <2> QED
    BY <2>2, <2>3, ContinuesSame DEF t, data
<1>9. CASE ~early
  <2>1. lo < hi /\ rb = IF e < hi - 1 THEN e ELSE hi - 1
    BY <1>1, <1>3, <1>6, <1>9 DEF rb
  <2>2. /\ ~(lo < w /\ hi - 1 < w)
        /\ ~(e < hi - 1 /\ e < lb)
    BY <1>1, <1>3, <1>6, <1>9, <2>1
  <2>3. /\ lb \in Nat /\ rb \in Nat /\ lb <= rb /\ rb < N
        /\ lo <= lb /\ rb <= hi - 1 /\ w <= lb /\ rb <= e
    <3> HIDE DEF w, early
    <3> QED
      BY <1>1, <1>4, <2>1, <2>2
  <2>4. d = Piece(lb, rb)
    <3> DEFINE h == hi - 1
    <3>1. /\ h \in Nat /\ lb \in Nat /\ rb \in Nat /\ lo \in Nat
          /\ h < N /\ lo <= lb /\ lb <= rb /\ rb <= h
      BY <1>1, <2>1, <2>3
    <3> HIDE DEF h
    <3>2. SubSeq(Piece(lo, h), lb - lo + 1, rb - lo + 1) = Piece(lb, rb)
      BY ONLY <3>1, PieceOfPiece
    <3> QED
      BY <1>2, <3>2, Zenon DEF d, h
  <2> DEFINE q == Insert(s, Piece(lb, rb), lb, rb)
  <2>5. StoreOK(s) /\ OutputOK(s.output) /\ s.capacity = Capacity /\ StoredFrom(s, w + 1)
    BY DEF ReassemblerOK
  <2>6. /\ StoreOK(q) /\ SameButStore(s, q)
        /\ Span(q.m, DOMAIN q.m) = Span(s.m, DOMAIN s.m) \cup (lb .. rb)
    BY <2>3, <2>5, InsertOK
  <2> HIDE DEF q, early
  <2>7. q.output = s.output /\ q.capacity = s.capacity /\ q.endIdx = s.endIdx
    BY <2>6 DEF SameButStore
  <2>8. StoredFrom(q, w)
    <3> SUFFICES ASSUME NEW k \in DOMAIN q.m
                 PROVE  w <= Left(q.m, k) /\ k <= e
      <4>1. \A k \in DOMAIN q.m : k \in Int
        BY <2>6 DEF StoreOK, PiecesOK
      <4> QED
        BY <1>7, <2>7, <4>1 DEF StoredFrom
    <3>1. Left(q.m, k) \in 0 .. k /\ k \in Nat
      BY <2>6, Constants DEF StoreOK, PiecesOK
    <3>2. ASSUME NEW i \in Left(q.m, k) .. k PROVE w <= i /\ i <= e
      <4>1. i \in Span(s.m, DOMAIN s.m) \/ i \in lb .. rb
        BY <2>6 DEF Span
      <4>2. CASE i \in lb .. rb
        BY <1>1, <2>3, <4>2
      <4>3. CASE i \in Span(s.m, DOMAIN s.m)
        <5>1. PICK h \in DOMAIN s.m : i \in Left(s.m, h) .. h
          BY <4>3 DEF Span
        <5>2. h \in Nat /\ Left(s.m, h) \in Nat /\ w + 1 <= Left(s.m, h) /\ h <= e
          BY <1>7, <2>5, Constants DEF StoredFrom, StoreOK, PiecesOK
        <5> HIDE DEF w
        <5> QED
          BY <1>1, <5>1, <5>2
      <4> QED
        BY <4>1, <4>2, <4>3
    <3>3. Left(q.m, k) \in Left(q.m, k) .. k /\ k \in Left(q.m, k) .. k
      BY <3>1
    <3> QED
      BY <3>2, <3>3
  <2>9. Continues(q, Flush(q)) /\ Held(Flush(q)) = Held(q)
    BY <2>5, <2>6, <2>7, <2>8, FlushOK
  <2>10. t = Flush(q)
    BY <1>5, <1>9, <2>4 DEF q
  <2>11. Held(q) = Held(s) \cup Fitting(s, lo, hi)
    <3>1. Held(q) = Held(s) \cup (lb .. rb)
      BY <2>6, <2>7 DEF Held
    <3>2. lb .. rb \subseteq Fitting(s, lo, hi)
      <4> SUFFICES ASSUME NEW k \in lb .. rb PROVE k \in lo .. hi - 1 /\ k <= e
        BY <1>7, <2>3 DEF Fitting
      <4> QED
        BY <1>1, <2>3
    <3>3. Fitting(s, lo, hi) \subseteq (0 .. w - 1) \cup (lb .. rb)
      <4> SUFFICES ASSUME NEW k \in lo .. hi - 1, k <= e PROVE k \in 0 .. w - 1 \/ k \in lb .. rb
        BY <1>7 DEF Fitting
      <4> HIDE DEF w
      <4> QED
        BY <1>1, <1>4, <2>1, <2>3
    <3>4. 0 .. w - 1 \subseteq Held(s)
      BY DEF Held
    <3> HIDE DEF w
    <3> QED
      BY <3>1, <3>2, <3>3, <3>4
  <2>12. Continues(s, t)
    BY <2>7, <2>9, <2>10 DEF Continues
  <2> QED
    BY <2>9, <2>10, <2>11, <2>12 DEF t, data
<1> QED
  BY <1>8, <1>9

\* The end of the stream is not known, or is the end.
EndOK(s) == s.endIdx \in {SIZE_MAX, N}

\* "No index" is beyond every index.
LEMMA NoIndex ==
  ASSUME NoOverflow
  PROVE  SIZE_MAX \in Int /\ N < SIZE_MAX
<1>1. N < Half32 /\ Half32 <= Pow32 - 1
  BY Constants DEF NoOverflow
<1>2. Pow32 - 1 <= Pow32 * Pow32 - 1 /\ Pow32 * Pow32 \in Int
  BY Constants, Z3
<1> QED
  BY <1>1, <1>2, Constants DEF SIZE_MAX

\* Nothing is missing exactly when everything has been written.
LEMMA CompleteOK ==
  ASSUME NoOverflow, NEW s, ReassemblerOK(s)
  PROVE  Held(s) = 0 .. N - 1 <=> s.output.written = N
<1> DEFINE w == s.output.written
<1>1. w \in Nat /\ w <= N /\ N \in Nat
  BY Counters, Constants DEF ReassemblerOK, OutputOK
<1>2. \A k \in DOMAIN s.m : /\ k \in Nat /\ k < N /\ Left(s.m, k) \in Nat
                            /\ Left(s.m, k) <= k /\ w + 1 <= Left(s.m, k)
  BY Constants DEF ReassemblerOK, StoreOK, PiecesOK, StoredFrom
<1> HIDE DEF w
<1>3. ASSUME w = N PROVE Held(s) = 0 .. N - 1
  <2>1. DOMAIN s.m = {}
    BY <1>1, <1>2, <1>3
  <2>2. Span(s.m, DOMAIN s.m) = {}
    BY <2>1 DEF Span
  <2> QED
    BY <1>3, <2>2 DEF Held, w
<1>4. ASSUME w < N PROVE w \notin Held(s)
  <2>1. w \notin 0 .. w - 1
    BY <1>1
  <2>2. w \notin Span(s.m, DOMAIN s.m)
    BY <1>1, <1>2 DEF Span
  <2> QED
    BY <2>1, <2>2 DEF Held, w
<1>5. w < N => w \in 0 .. N - 1
  BY <1>1
<1> QED
  BY <1>1, <1>3, <1>4, <1>5 DEF w

\* t is s after the bytes lo .. hi - 1 were pushed: those that fit are held, what is
\* contiguous is written, and the output has ended if that reaches the end, where it is known.
PushedTo(s, t, lo, hi, eof) ==
  /\ ReassemblerOK(t)
  /\ t.endIdx = IF eof THEN hi ELSE s.endIdx
  /\ Held(t) = Held(s) \cup Fitting(s, lo, hi)
  /\ t.output.end <=> s.output.end \/ t.output.written = t.endIdx
  /\ t.output.total_read = s.output.total_read
  /\ s.output.written <= t.output.written
  /\ t.output.buffer = s.output.buffer \o Piece(s.output.written, t.output.written - 1)

\* That is what push_substring does, wherever the stream is said to end.
LEMMA PushAny ==
  ASSUME NoOverflow, NEW s, ReassemblerOK(s),
         NEW lo \in 0 .. N, NEW hi \in lo .. N, NEW eof \in BOOLEAN
  PROVE  PushedTo(s, push_substring(s, SubSeq(Stream, lo + 1, hi), lo, eof), lo, hi, eof)
<1> DEFINE data == SubSeq(Stream, lo + 1, hi)
           q == IF eof THEN [s EXCEPT !.endIdx = lo + Len(data)] ELSE s
           u == AddTempCash(q, data, lo)
           t == push_substring(s, data, lo, eof)
<1>1. Len(data) = hi - lo
  <2>1. \A i \in 1 .. N : Stream[i] \in Byte
    BY Constants, ElementOfSeq DEF N
  <2>2. \A i \in lo + 1 .. hi : Stream[i] \in Byte
    BY <2>1, Constants
  <2>3. Len(data) = IF lo + 1 <= hi THEN hi - (lo + 1) + 1 ELSE 0
    BY <2>2, Constants, SubSeqProperties
  <2> QED
    BY <2>3, Constants
<1>2. lo + (hi - lo) = hi
  BY Constants
<1>3. q = IF eof THEN [s EXCEPT !.endIdx = hi] ELSE s
  BY <1>1, <1>2
<1>4. /\ DOMAIN q = Fields /\ q.output = s.output /\ q.m = s.m
      /\ q.unassembled = s.unassembled /\ q.capacity = s.capacity
      /\ q.endIdx = IF eof THEN hi ELSE s.endIdx
  <2>1. DOMAIN s = Fields
    BY DEF ReassemblerOK, StoreOK
  <2> HIDE DEF q
  <2> QED
    BY <1>3, <2>1 DEF Fields
<1> HIDE DEF q
<1>5. ReassemblerOK(q)
  BY <1>4 DEF ReassemblerOK, StoreOK, StoredFrom
<1>6. Held(q) = Held(s) /\ Fitting(q, lo, hi) = Fitting(s, lo, hi)
  BY <1>4 DEF Held, Fitting
<1>7. Continues(q, u) /\ Held(u) = Held(q) \cup Fitting(q, lo, hi)
  BY <1>5, AddTempCashOK
<1>8. t = IF bytes_written(u) = u.endIdx
          THEN [u EXCEPT !.output = BS!end_input(u.output)] ELSE u
  BY Zenon DEF push_substring, q
<1> HIDE DEF data, u, t
<1>9. /\ ReassemblerOK(u) /\ u.endIdx = q.endIdx /\ bytes_written(u) = u.output.written
       /\ u.output.written \in Nat
  BY <1>7, Counters DEF Continues, ReassemblerOK, bytes_written
<1>10. /\ DOMAIN t = Fields /\ t.m = u.m /\ t.unassembled = u.unassembled
       /\ t.capacity = u.capacity /\ t.endIdx = u.endIdx
       /\ t.output \in BS!Streams(Byte)
       /\ t.output.written = u.output.written /\ t.output.total_read = u.output.total_read
       /\ t.output.buffer = u.output.buffer /\ t.output.capacity = u.output.capacity
       /\ t.output.end <=> u.output.end \/ u.output.written = u.endIdx
  <2>1. DOMAIN u = Fields /\ u.output \in BS!Streams(Byte) /\ u.output.end \in BOOLEAN
    BY <1>9, Counters DEF ReassemblerOK, StoreOK, OutputOK
  <2> DEFINE o == BS!end_input(u.output)
  <2>2. /\ o \in BS!Streams(Byte) /\ o.written = u.output.written
        /\ o.total_read = u.output.total_read
        /\ o.buffer = u.output.buffer /\ o.capacity = u.output.capacity /\ o.end = TRUE
    <3>1. o = [u.output EXCEPT !.end = TRUE]
      BY DEF BS!end_input
    <3> HIDE DEF o
    <3>2. o \in BS!Streams(Byte)
      <4>1. [u.output EXCEPT !.end = TRUE] \in BS!Streams(Byte)
        BY <2>1, Zenon DEF BS!Streams
      <4> QED
        BY <3>1, <4>1
    <3> QED
      BY <2>1, <3>1, <3>2 DEF BS!Streams
  <2> HIDE DEF o
  <2>3. CASE bytes_written(u) = u.endIdx
    <3>1. t = [u EXCEPT !.output = o]
      BY <1>8, <2>3 DEF o
    <3>2. /\ DOMAIN t = Fields /\ t.m = u.m /\ t.unassembled = u.unassembled
          /\ t.capacity = u.capacity /\ t.endIdx = u.endIdx /\ t.output = o
      BY <2>1, <3>1 DEF Fields
    <3> QED
      BY <1>9, <2>2, <2>3, <3>2
  <2>4. CASE bytes_written(u) # u.endIdx
    BY <1>8, <1>9, <2>1, <2>4
  <2> QED
    BY <2>3, <2>4
<1>11. ReassemblerOK(t)
  BY <1>5, <1>9, <1>10 DEF ReassemblerOK, StoreOK, StoredFrom, OutputOK
<1>12. Held(t) = Held(s) \cup Fitting(s, lo, hi)
  BY <1>6, <1>7, <1>10 DEF Held
<1>13. /\ u.output.end = s.output.end /\ t.output.total_read = s.output.total_read
       /\ s.output.written <= t.output.written
       /\ t.output.buffer
            = s.output.buffer \o Piece(s.output.written, t.output.written - 1)
  BY <1>4, <1>7, <1>10 DEF Continues
<1>14. t.endIdx = IF eof THEN hi ELSE s.endIdx
  BY <1>4, <1>9, <1>10
<1>15. t.output.end <=> s.output.end \/ t.output.written = t.endIdx
  BY <1>10, <1>13
<1> QED
  BY <1>11, <1>12, <1>13, <1>14, <1>15 DEF t, data, PushedTo

\* An empty substring without the end of the stream can be pushed at any index.
LEMMA PushNothing ==
  ASSUME NoOverflow, NEW s, ReassemblerOK(s), NEW i
  PROVE  PushedTo(s, push_substring(s, << >>, i, FALSE), 0, 0, FALSE)
<1>1. AddTempCash(s, << >>, i) = s /\ AddTempCash(s, << >>, 0) = s
  BY DEF AddTempCash
<1>2. push_substring(s, << >>, i, FALSE) = push_substring(s, << >>, 0, FALSE)
  BY <1>1 DEF push_substring
<1>3. SubSeq(Stream, 0 + 1, 0) = << >>
  BY SubSeqEmpty
<1>4. 0 \in 0 .. N /\ 0 \in 0 .. N /\ FALSE \in BOOLEAN
  BY Constants
<1>5. PushedTo(s, push_substring(s, SubSeq(Stream, 0 + 1, 0), 0, FALSE), 0, 0, FALSE)
  BY <1>4, PushAny
<1> QED
  BY <1>2, <1>3, <1>5

\* The same for a stream whose end is the end of Stream: the output has ended exactly if
\* the end is known and nothing is missing.
Pushed(s, t, lo, hi, eof) ==
  /\ ReassemblerOK(t) /\ EndOK(t)
  /\ Held(t) = Held(s) \cup Fitting(s, lo, hi)
  /\ t.endIdx = N <=> s.endIdx = N \/ eof
  /\ t.output.end <=> s.output.end \/ (t.endIdx = N /\ Held(t) = 0 .. N - 1)
  /\ t.output.total_read = s.output.total_read
  /\ s.output.written <= t.output.written
  /\ t.output.buffer = s.output.buffer \o Piece(s.output.written, t.output.written - 1)

\* That is what push_substring does to it.
LEMMA PushOK ==
  ASSUME NoOverflow, NEW s, ReassemblerOK(s), EndOK(s),
         NEW lo \in 0 .. N, NEW hi \in lo .. N, NEW eof \in BOOLEAN, eof => hi = N
  PROVE  Pushed(s, push_substring(s, SubSeq(Stream, lo + 1, hi), lo, eof), lo, hi, eof)
<1> DEFINE t == push_substring(s, SubSeq(Stream, lo + 1, hi), lo, eof)
<1>1. PushedTo(s, t, lo, hi, eof)
  BY PushAny
<1> HIDE DEF t
<1>2. t.endIdx = (IF eof THEN N ELSE s.endIdx) /\ EndOK(t) /\ ReassemblerOK(t)
  BY <1>1 DEF PushedTo, EndOK
<1>3. t.output.end <=> s.output.end \/ (t.endIdx = N /\ Held(t) = 0 .. N - 1)
  <2>1. t.output.written = t.endIdx <=> t.endIdx = N /\ t.output.written = N
    <3>1. t.endIdx \in {SIZE_MAX, N}
      BY <1>2 DEF EndOK
    <3>2. t.output.written # SIZE_MAX
      <4>1. t.output.written \in Nat /\ t.output.written <= N /\ N < SIZE_MAX
        BY <1>2, NoIndex, Counters DEF ReassemblerOK, OutputOK
      <4> QED
        BY <4>1, NoIndex, Constants
    <3> QED
      BY <3>1, <3>2
  <2>2. t.output.written = N <=> Held(t) = 0 .. N - 1
    BY <1>2, CompleteOK
  <2> QED
    BY <1>1, <2>1, <2>2 DEF PushedTo
<1>4. t.endIdx = N <=> s.endIdx = N \/ eof
  BY <1>2
<1> QED
  BY <1>1, <1>2, <1>3, <1>4 DEF PushedTo, Pushed, t

--------------------------------------------------------------------------------
\* The reader.

\* What was read, g, and what is buffered are the stream up to what was written.
Reader(s, g) ==
  /\ g \in Seq(Byte)
  /\ s.output.total_read = Len(g)
  /\ g \o s.output.buffer = Piece(0, s.output.written - 1)

\* A new reassembler.
LEMMA NewOK ==
  ASSUME NoOverflow
  PROVE  LET s == New(Capacity)
         IN  /\ ReassemblerOK(s) /\ Reader(s, << >>) /\ Held(s) = {}
             /\ s.endIdx = SIZE_MAX /\ s.output.written = 0 /\ s.output.end = FALSE
<1> DEFINE s == New(Capacity)
           b == s.output
<1>1. BS!Int32(Capacity) = Capacity
  BY Constants, SmallCount
<1>2. << >> \in Seq(Byte) /\ Len(<< >>) = 0 /\ DOMAIN << >> = {}
  BY EmptySeq
<1>3. /\ DOMAIN s = Fields /\ s.m = << >> /\ s.unassembled = 0 /\ s.capacity = Capacity
      /\ s.endIdx = SIZE_MAX /\ b = BS!New(Capacity)
  BY DEF New, Fields
<1> HIDE DEF s
<1>4. /\ b \in BS!Streams(Byte) /\ b.capacity = Capacity /\ b.total_read = 0
      /\ b.written = 0 /\ b.buffer = << >> /\ b.end = FALSE
  BY <1>1, <1>2, <1>3, Constants DEF BS!New, BS!Streams
<1> HIDE DEF b
<1>5. OutputOK(b)
  BY <1>2, <1>4, Constants DEF OutputOK
<1>6. PiecesOK(s.m) /\ StoredFrom(s, b.written + 1)
  BY <1>2, <1>3 DEF PiecesOK, StoredFrom
<1>7. Span(s.m, DOMAIN s.m) = {}
  BY <1>2, <1>3 DEF Span
<1>8. s.unassembled = Cardinality(Span(s.m, DOMAIN s.m))
  BY <1>3, <1>7, FS_EmptySet
<1>9. ReassemblerOK(s) /\ Held(s) = {}
  BY <1>3, <1>4, <1>5, <1>6, <1>7, <1>8 DEF ReassemblerOK, StoreOK, Held, b
<1>10. << >> \o b.buffer = Piece(0, b.written - 1)
  <2>1. Piece(0, 0 - 1) = << >>
    BY SubSeqEmpty DEF Piece
  <2> QED
    BY <1>2, <1>4, <2>1, ConcatEmptySeq
<1>11. Reader(s, << >>)
  BY <1>2, <1>4, <1>10 DEF Reader, b
<1> QED
  BY <1>3, <1>4, <1>9, <1>11 DEF s, b

\* A push hands the reader the next bytes.
LEMMA PushedReader ==
  ASSUME NoOverflow, NEW s, NEW t, NEW g, ReassemblerOK(s), ReassemblerOK(t), Reader(s, g),
         t.output.total_read = s.output.total_read, s.output.written <= t.output.written,
         t.output.buffer = s.output.buffer \o Piece(s.output.written, t.output.written - 1)
  PROVE  Reader(t, g)
<1> DEFINE w == s.output.written
           v == t.output.written
           p == Piece(w, v - 1)
           o == s.output.buffer
<1>1. /\ w \in Nat /\ v \in Nat /\ v <= N /\ w <= v /\ o \in Seq(Byte) /\ g \in Seq(Byte)
  BY Counters DEF Reader, ReassemblerOK, OutputOK
<1>2. p \in Seq(Byte)
  <2>1. v - 1 \in Int /\ w <= (v - 1) + 1 /\ v - 1 < N
    BY <1>1, Constants
  <2> QED
    BY <1>1, <2>1, PieceProperties
<1>3. (g \o o) \o p = g \o (o \o p)
  <2> HIDE DEF o, p
  <2> QED
    BY ONLY <1>1, <1>2, ConcatAssociative, SMTT(30)
<1>4. Piece(0, w - 1) \o Piece(w, v - 1) = Piece(0, v - 1)
  <2>1. /\ 0 \in Nat /\ w - 1 \in Int /\ v - 1 \in Int /\ 0 <= (w - 1) + 1
        /\ w - 1 <= v - 1 /\ v - 1 < N /\ (w - 1) + 1 = w
    <3>1. w \in Nat /\ v \in Nat /\ w <= v /\ v <= N /\ N \in Nat
      BY <1>1, Constants, Zenon
    <3> HIDE DEF w, v
    <3> QED
      BY ONLY <3>1
  <2>2. Piece(0, w - 1) \o Piece((w - 1) + 1, v - 1) = Piece(0, v - 1)
    BY <2>1, PiecesConcat
  <2> QED
    BY <2>1, <2>2
<1> QED
  BY <1>1, <1>3, <1>4 DEF Reader

\* A read takes the first bytes of the buffer.
LEMMA ReadAny ==
  ASSUME NoOverflow, NEW s, NEW g, ReassemblerOK(s), Reader(s, g), NEW len \in Nat
  PROVE  LET t == [s EXCEPT !.output = BS!read(s.output, len)]
             h == g \o BS!peek_output(s.output, len)
         IN  /\ ReassemblerOK(t) /\ Reader(t, h) /\ Held(t) = Held(s)
             /\ t.m = s.m /\ t.endIdx = s.endIdx /\ t.output.end = s.output.end
             /\ t.output.written = s.output.written
             /\ \E n \in 0 .. Len(s.output.buffer) : n <= len /\ Len(h) = Len(g) + n
<1> DEFINE b == s.output
           n == IF len > Len(b.buffer) THEN Len(b.buffer) ELSE len
           c == BS!pop_output(b, n)
           front == SubSeq(b.buffer, 1, n)
           rest == SubSeq(b.buffer, n + 1, Len(b.buffer))
           t == [s EXCEPT !.output = BS!read(s.output, len)]
           h == g \o BS!peek_output(s.output, len)
<1>1. /\ OutputOK(b) /\ DOMAIN s = Fields /\ g \in Seq(Byte) /\ Len(g) \in Nat
      /\ b.buffer \in Seq(Byte) /\ Len(b.buffer) \in Nat /\ b.total_read = Len(g)
      /\ b.written \in Nat /\ b.total_read \in Nat
  BY Counters, LenProperties DEF Reader, ReassemblerOK, StoreOK
<1>2. n \in 0 .. Len(b.buffer) /\ n <= len
  BY <1>1, Constants
<1>3. t = [s EXCEPT !.output = c] /\ h = g \o front
  BY DEF BS!read, BS!peek_output, BS!buffer_size
<1> HIDE DEF n, t, h
<1>4. /\ OutputOK(c) /\ c.written = b.written /\ c.total_read = b.total_read + n
      /\ c.end = b.end /\ c.buffer = rest
  BY <1>1, <1>2, ReadOK
<1>5. /\ front \in Seq(Byte) /\ Len(front) = n /\ rest \in Seq(Byte)
      /\ front \o rest = b.buffer
  <2>1. \A i \in 1 .. Len(b.buffer) : b.buffer[i] \in Byte
    BY <1>1, ElementOfSeq
  <2>2. (\A i \in 1 .. n : b.buffer[i] \in Byte)
        /\ (\A i \in n + 1 .. Len(b.buffer) : b.buffer[i] \in Byte)
    BY <1>1, <1>2, <2>1
  <2>3. front \in Seq(Byte) /\ Len(front) = n
    BY <1>2, <2>2, SubSeqProperties
  <2>4. rest \in Seq(Byte)
    BY <1>1, <1>2, <2>2, SubSeqProperties
  <2>5. 1 \in 1 .. Len(b.buffer) + 1 /\ n \in 1 - 1 .. Len(b.buffer)
        /\ Len(b.buffer) \in n .. Len(b.buffer)
    BY <1>1, <1>2
  <2>6. front \o rest = SubSeq(b.buffer, 1, Len(b.buffer))
    BY <1>1, <2>5, ConcatAdjacentSubSeq
  <2>7. SubSeq(b.buffer, 1, Len(b.buffer)) = b.buffer
    BY <1>1, SubSeqFull
  <2> QED
    BY <2>3, <2>4, <2>6, <2>7
<1> HIDE DEF c, front, rest
<1>6. /\ DOMAIN t = Fields /\ t.output = c /\ t.m = s.m /\ t.unassembled = s.unassembled
      /\ t.capacity = s.capacity /\ t.endIdx = s.endIdx
  BY <1>1, <1>3 DEF Fields
<1>7. h \in Seq(Byte) /\ Len(h) = Len(g) + n
  <2>1. g \in Seq(Byte) /\ front \in Seq(Byte)
    BY <1>1, <1>5
  <2>2. g \o front \in Seq(Byte) /\ Len(g \o front) = Len(g) + Len(front)
    BY ONLY <2>1, ConcatProperties
  <2> QED
    BY <1>3, <1>5, <2>2
<1>8. h \o c.buffer = g \o b.buffer
  <2>1. g \in Seq(Byte) /\ front \in Seq(Byte) /\ rest \in Seq(Byte)
    BY <1>1, <1>5
  <2>2. (g \o front) \o rest = g \o (front \o rest)
    BY ONLY <2>1, ConcatAssociative
  <2> QED
    BY <1>3, <1>4, <1>5, <2>2
<1>9. ReassemblerOK(t)
  <2>1. StoreOK(t) /\ t.capacity = Capacity
    BY <1>6 DEF ReassemblerOK, StoreOK
  <2>2. StoredFrom(t, t.output.written + 1)
    <3> SUFFICES ASSUME NEW k \in DOMAIN s.m
                 PROVE  c.written + 1 <= Left(s.m, k) /\ k < c.total_read + Capacity
      BY <1>6 DEF StoredFrom
    <3>1. /\ b.written + 1 <= Left(s.m, k) /\ k < b.total_read + Capacity
          /\ k \in 0 .. N - 1
      BY DEF ReassemblerOK, StoredFrom, StoreOK, PiecesOK
    <3> QED
      BY <1>1, <1>2, <1>4, <3>1, Constants
  <2> QED
    BY <1>4, <1>6, <2>1, <2>2 DEF ReassemblerOK
<1>10. Reader(t, h)
  <2>1. t.output.total_read = Len(h)
    BY <1>1, <1>4, <1>6, <1>7
  <2>2. h \o t.output.buffer = Piece(0, t.output.written - 1)
    BY <1>4, <1>6, <1>8 DEF Reader
  <2> QED
    BY <1>7, <2>1, <2>2 DEF Reader
<1>11. Held(t) = Held(s)
  BY <1>4, <1>6 DEF Held
<1> QED
  BY <1>2, <1>4, <1>6, <1>7, <1>9, <1>10, <1>11 DEF t, h

\* The output has failed: nothing else changes.
LEMMA ErrorOK ==
  ASSUME NoOverflow, NEW s, NEW g, ReassemblerOK(s), Reader(s, g)
  PROVE  LET t == [s EXCEPT !.output = BS!set_error(s.output)]
         IN  /\ ReassemblerOK(t) /\ Reader(t, g) /\ Held(t) = Held(s)
             /\ t.endIdx = s.endIdx /\ t.output.end = s.output.end
             /\ t.output.written = s.output.written
<1> DEFINE b == s.output
           c == BS!set_error(b)
           t == [s EXCEPT !.output = c]
<1>1. OutputOK(b) /\ DOMAIN s = Fields
  BY DEF ReassemblerOK, StoreOK
<1>2. /\ c.written = b.written /\ c.total_read = b.total_read /\ c.end = b.end
      /\ c.buffer = b.buffer /\ c.capacity = b.capacity /\ c \in BS!Streams(Byte)
  BY <1>1 DEF OutputOK, BS!set_error, BS!Streams
<1> HIDE DEF c
<1>3. /\ DOMAIN t = Fields /\ t.output = c /\ t.m = s.m /\ t.unassembled = s.unassembled
      /\ t.capacity = s.capacity /\ t.endIdx = s.endIdx
  BY <1>1 DEF Fields
<1> HIDE DEF t
<1>4. ReassemblerOK(t)
  BY <1>1, <1>2, <1>3 DEF ReassemblerOK, StoreOK, StoredFrom, OutputOK
<1>5. Reader(t, g) /\ Held(t) = Held(s)
  BY <1>2, <1>3 DEF Reader, Held
<1> QED
  BY <1>2, <1>3, <1>4, <1>5 DEF t, c

--------------------------------------------------------------------------------
\* The system.

\* The reassembler is sound, and what was read and what is buffered are the stream up
\* to what was written.
Inv ==
  /\ ReassemblerOK(r) /\ EndOK(r)
  /\ received \in Seq(Byte)
  /\ r.output.total_read = Len(received)
  /\ received \o r.output.buffer = Piece(0, r.output.written - 1)

\* The constructor establishes the invariant.
LEMMA InvInit == NoOverflow /\ Init => Inv
<1> SUFFICES ASSUME NoOverflow, Init PROVE Inv
  OBVIOUS
<1>1. r = New(Capacity) /\ received = << >>
  BY DEF Init
<1>2. ReassemblerOK(r) /\ Reader(r, received) /\ r.endIdx = SIZE_MAX
  BY <1>1, NewOK
<1> QED
  BY <1>2 DEF Inv, Reader, EndOK

\* A push preserves it, and is an arrival of OrderedDelivery.
LEMMA InvPush ==
  ASSUME NoOverflow, Inv, NEW lo \in 0 .. N, NEW hi \in lo .. N, NEW eof \in {FALSE, hi = N},
         Push(lo, hi, eof)
  PROVE  Inv' /\ Abstract!Arrive(lo, hi, eof)
<1> DEFINE w == r.output.written
           v == r'.output.written
<1>1. /\ ReassemblerOK(r') /\ EndOK(r')
      /\ Held(r') = Held(r) \cup Fitting(r, lo, hi)
      /\ r'.endIdx = N <=> r.endIdx = N \/ eof
      /\ r'.output.end <=> r.output.end \/ (r'.endIdx = N /\ Held(r') = 0 .. N - 1)
      /\ r'.output.total_read = r.output.total_read
      /\ w <= v
      /\ r'.output.buffer = r.output.buffer \o Piece(w, v - 1)
      /\ received' = received
  <2>1. eof \in BOOLEAN /\ (eof => hi = N) /\ ReassemblerOK(r) /\ EndOK(r)
    BY DEF Inv
  <2>2. Pushed(r, push_substring(r, SubSeq(Stream, lo + 1, hi), lo, eof), lo, hi, eof)
    BY <2>1, PushOK
  <2>3. Pushed(r, r', lo, hi, eof) /\ received' = received
    BY <2>2 DEF Push
  <2> QED
    BY <2>3, Zenon DEF Pushed
<1>2. /\ w \in Nat /\ v \in Nat /\ v <= N /\ bytes_written(r) = w /\ bytes_written(r') = v
      /\ r.output.buffer \in Seq(Byte) /\ received \in Seq(Byte)
      /\ r.output.end \in BOOLEAN /\ r'.output.end \in BOOLEAN
  BY <1>1, Counters DEF Inv, ReassemblerOK, OutputOK, bytes_written
<1>3. received' \o r'.output.buffer = Piece(0, v - 1)
  <2>1. ReassemblerOK(r) /\ Reader(r, received)
    BY DEF Inv, Reader
  <2>2. Reader(r', received)
    BY <1>1, <2>1, PushedReader
  <2> QED
    BY <1>1, <2>2 DEF Reader
<1>4. Inv'
  BY <1>1, <1>2, <1>3 DEF Inv
<1>5. Abstract!Arrive(lo, hi, eof)
  <2>1. Held(r) = (0 .. bytes_written(r) - 1) \cup StoredIndices
    BY <1>2 DEF Held, StoredIndices, Span
  <2>2. Held(r') = (0 .. bytes_written(r') - 1) \cup StoredIndices'
    BY <1>2 DEF Held, StoredIndices, Span
  <2>3. Fitting(r, lo, hi) = {k \in lo .. hi - 1 : k < Len(received) + Capacity}
    BY DEF Fitting, Inv
  <2>4. /\ BS!input_ended(r.output) = r.output.end
        /\ BS!input_ended(r'.output) = r'.output.end
    BY DEF BS!input_ended
  <2>5. (r'.endIdx = N) = (r.endIdx = N \/ eof)
    BY <1>1
  <2>6. r'.output.end = (r.output.end \/ (r'.endIdx = N /\ Held(r') = 0 .. N - 1))
    BY <1>1, <1>2
  <2> HIDE DEF w, v
  <2> QED
    BY <1>1, <2>1, <2>2, <2>3, <2>4, <2>5, <2>6, Zenon DEF Abstract!Arrive, Abstract!Complete
<1> QED
  BY <1>4, <1>5

\* A read preserves it, and takes what OrderedDelivery lets the reader take.
LEMMA InvRead ==
  ASSUME NoOverflow, Inv, NEW len \in 1 .. Capacity, Read(len)
  PROVE  Inv' /\ [Abstract!Next]_Abstract!vars
<1> DEFINE b == r.output
<1>1. ReassemblerOK(r) /\ Reader(r, received) /\ len \in Nat
  BY Constants DEF Inv, Reader
<1>2. r' = [r EXCEPT !.output = BS!read(b, len)] /\ received' = received \o BS!peek_output(b, len)
  BY DEF Read
<1>3. /\ ReassemblerOK(r') /\ Reader(r', received')
      /\ r'.m = r.m /\ r'.endIdx = r.endIdx /\ r'.output.end = b.end
      /\ r'.output.written = b.written
      /\ \E n \in 0 .. Len(b.buffer) : n <= len /\ Len(received') = Len(received) + n
  BY <1>1, <1>2, ReadAny
<1>4. PICK n \in 0 .. Len(b.buffer) : n <= len /\ Len(received') = Len(received) + n
  BY <1>3
<1>5. /\ received \in Seq(Byte) /\ Len(received) \in Nat /\ Len(b.buffer) \in Nat
      /\ b.total_read = Len(received) /\ bytes_written(r) = b.written
      /\ Len(b.buffer) <= Capacity /\ b.written = b.total_read + Len(b.buffer)
  BY <1>1, Counters, LenProperties DEF Reader, ReassemblerOK, OutputOK, bytes_written
<1>6. Inv'
  BY <1>3 DEF Inv, Reader, EndOK
<1>7. /\ bytes_written(r') = bytes_written(r) /\ StoredIndices' = StoredIndices
       /\ (r'.endIdx = N) = (r.endIdx = N)
       /\ BS!input_ended(r'.output) = BS!input_ended(r.output)
  <2>1. bytes_written(r') = b.written
    BY <1>3, Counters DEF bytes_written, ReassemblerOK
  <2> QED
    BY <1>3, <1>5, <2>1 DEF StoredIndices, BS!input_ended
<1>8. CASE n = 0
  <2>1. Len(received') = Len(received)
    BY <1>4, <1>5, <1>8
  <2>2. UNCHANGED Abstract!vars
    BY <1>7, <2>1 DEF Abstract!vars
  <2> QED
    BY <1>6, <2>2
<1>9. CASE n # 0
  <2>1. n \in 1 .. Capacity
    BY <1>4, <1>5, <1>9, Constants
  <2>2. 0 .. Len(received) + n - 1 \subseteq (0 .. bytes_written(r) - 1) \cup StoredIndices
    <3>1. 0 .. Len(received) + n - 1 \subseteq 0 .. bytes_written(r) - 1
      BY <1>4, <1>5
    <3> QED
      BY <3>1
  <2>3. Abstract!Take(n)
    BY <1>4, <1>7, <2>2 DEF Abstract!Take
  <2>4. Abstract!Next
    BY <2>1, <2>3 DEF Abstract!Next
  <2> QED
    BY <1>6, <2>4
<1> QED
  BY <1>8, <1>9

\* Every step preserves the invariant and is one of OrderedDelivery.
LEMMA InvNext == NoOverflow /\ Inv /\ [Next]_vars => Inv' /\ [Abstract!Next]_Abstract!vars
<1> SUFFICES ASSUME NoOverflow, Inv, [Next]_vars PROVE Inv' /\ [Abstract!Next]_Abstract!vars
  OBVIOUS
<1>1. ASSUME NEW lo \in 0 .. N, NEW hi \in lo .. N, NEW eof \in {FALSE, hi = N}, Push(lo, hi, eof)
      PROVE  Inv' /\ [Abstract!Next]_Abstract!vars
  <2>1. Inv' /\ Abstract!Arrive(lo, hi, eof)
    BY <1>1, InvPush
  <2>2. hi \in 0 .. N /\ lo <= hi /\ eof \in BOOLEAN /\ (eof => hi = N)
    <3>1. hi \in 0 .. N /\ lo <= hi
      BY Constants
    <3>2. eof \in BOOLEAN /\ (eof => hi = N)
      OBVIOUS
    <3> QED
      BY <3>1, <3>2
  <2>3. Abstract!Next
    BY <2>1, <2>2, Zenon DEF Abstract!Next
  <2> QED
    BY <2>1, <2>3
<1>2. ASSUME NEW len \in 1 .. Capacity, Read(len)
      PROVE  Inv' /\ [Abstract!Next]_Abstract!vars
  BY <1>2, InvRead
<1>3. CASE UNCHANGED vars
  <2>1. r' = r /\ received' = received
    BY <1>3 DEF vars
  <2>2. Inv'
    BY <2>1 DEF Inv
  <2>3. UNCHANGED Abstract!vars
    BY <2>1 DEF Abstract!vars, StoredIndices
  <2> QED
    BY <2>2, <2>3
<1> QED
  BY <1>1, <1>2, <1>3 DEF Next

\* The invariant holds throughout.
LEMMA InvAlways == NoOverflow /\ Spec => []Inv
<1> SUFFICES ASSUME NoOverflow PROVE Spec => []Inv
  OBVIOUS
<1>1. Init => Inv
  BY InvInit
<1>2. Inv /\ [Next]_vars => Inv'
  BY InvNext
<1> QED
  BY <1>1, <1>2, PTL DEF Spec

\* Whatever is pushed in whatever order, repeatedly, overlapping or beyond the
\* capacity, the reader is given the stream from its beginning.
THEOREM ReaderGetsPrefix == NoOverflow /\ Spec => []DeliversPrefix
<1>1. NoOverflow /\ Inv => DeliversPrefix
  <2> SUFFICES ASSUME NoOverflow, Inv PROVE DeliversPrefix
    OBVIOUS
  <2>1. r.output.written \in Nat /\ bytes_written(r) = r.output.written
    BY Counters DEF Inv, ReassemblerOK, bytes_written
  <2>2. (r.output.written - 1) + 1 = r.output.written /\ 0 + 1 = 1
    BY <2>1
  <2> QED
    BY <2>1, <2>2 DEF Inv, DeliversPrefix, Piece
<1>2. NoOverflow => []NoOverflow
  OBVIOUS
<1> QED
  BY <1>1, <1>2, InvAlways, PTL

\* What is stored are disjoint pieces of the stream beyond a gap and within the
\* capacity, and unassembled_bytes counts each of their bytes once.
THEOREM StoreIsSound == NoOverflow /\ Spec => []StoredPieces
<1>1. NoOverflow /\ Inv => StoredPieces
  <2> SUFFICES ASSUME NoOverflow, Inv PROVE StoredPieces
    OBVIOUS
  <2> DEFINE w == r.output.written
  <2>1. /\ w \in Nat /\ bytes_written(r) = w /\ ReassemblerOK(r) /\ PiecesOK(r.m)
        /\ r.output.total_read \in Nat
    BY Counters DEF Inv, ReassemblerOK, StoreOK, bytes_written
  <2>2. Edge(r) = r.output.total_read + Capacity - 1
    BY <2>1, Constants, OverflowExact
  <2>3. unassembled_bytes(r) = Cardinality(StoredIndices)
    BY <2>1 DEF unassembled_bytes, ReassemblerOK, StoreOK, StoredIndices, Span
  <2>4. ASSUME NEW k \in DOMAIN r.m
        PROVE  /\ r.m[k] = SubSeq(Stream, Left(r.m, k) + 1, k + 1)
               /\ Left(r.m, k) > bytes_written(r)
               /\ k <= Edge(r)
               /\ \A h \in DOMAIN r.m : h < k => h < Left(r.m, k)
    <3>1. /\ r.m[k] = Piece(Left(r.m, k), k) /\ k \in 0 .. N - 1 /\ Left(r.m, k) \in 0 .. k
          /\ \A h \in DOMAIN r.m : h < k => h < Left(r.m, k)
      BY <2>1 DEF PiecesOK
    <3>2. w + 1 <= Left(r.m, k) /\ k < r.output.total_read + Capacity
      BY <2>1 DEF ReassemblerOK, StoredFrom
    <3> HIDE DEF w
    <3>3. Left(r.m, k) > w /\ k <= Edge(r)
      BY <2>1, <2>2, <3>1, <3>2, Constants, SMTT(20)
    <3> QED
      BY <2>1, <3>1, <3>3 DEF Piece
  <2> QED
    BY <2>3, <2>4 DEF StoredPieces
<1>2. NoOverflow => []NoOverflow
  OBVIOUS
<1> QED
  BY <1>1, <1>2, InvAlways, PTL

\* The reassembler implements OrderedDelivery.
THEOREM ImplementsOrderedDelivery == NoOverflow /\ Spec => Refines
<1> SUFFICES ASSUME NoOverflow PROVE Spec => Refines
  OBVIOUS
<1>1. Init => Abstract!Init
  <2> SUFFICES ASSUME Init PROVE Abstract!Init
    OBVIOUS
  <2>1. Inv
    BY InvInit
  <2>2. /\ r.output.written = 0 /\ r.m = << >> /\ r.endIdx = SIZE_MAX /\ r.output.end = FALSE
        /\ received = << >>
    BY DEF Init, New, BS!New
  <2>3. bytes_written(r) = 0
    BY <2>1, <2>2, Counters DEF Inv, ReassemblerOK, bytes_written
  <2>4. StoredIndices = {}
    BY <2>2 DEF StoredIndices
  <2>5. r.endIdx # N
    BY <2>2, NoIndex, Constants
  <2>6. 0 .. 0 - 1 = {}
    OBVIOUS
  <2> QED
    BY <2>2, <2>3, <2>4, <2>5, <2>6 DEF Abstract!Init, BS!input_ended
<1>2. Inv /\ [Next]_vars => [Abstract!Next]_Abstract!vars
  BY InvNext
<1>3. Spec => []Inv
  BY InvAlways
<1> QED
  BY <1>1, <1>2, <1>3, PTL DEF Spec, Refines, Abstract!Spec

\* Every byte that arrives within the capacity is taken.
THEOREM TakesAllThatFits == NoOverflow /\ Spec => TakesWhatFits
<1> SUFFICES ASSUME NoOverflow PROVE Spec => TakesWhatFits
  OBVIOUS
<1>1. Inv => [\A lo \in 0 .. N : \A hi \in lo .. N : \A eof \in {FALSE, hi = N} :
                Push(lo, hi, eof) => Abstract!Arrive(lo, hi, eof)]_vars
  BY InvPush
<1>2. Spec => []Inv
  BY InvAlways
<1> QED
  BY <1>1, <1>2, PTL DEF TakesWhatFits

================================================================================
