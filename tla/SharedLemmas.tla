---------------------------- MODULE SharedLemmas ----------------------------
(***************************************************************************)
(* Facts about the data several modules are built from: byte strings cut   *)
(* into blocks, for every block size, and lists that are sorted and        *)
(* filtered, by every order.                                               *)
(***************************************************************************)
EXTENDS Blocks, Ordering, SequencesExt, FiniteSetTheorems, SequenceTheorems, NaturalsInduction,
        WellFoundedInduction, TLAPS

(***************************************************************************)
(* Division by a positive integer: what BlockCount is computed with.       *)
(***************************************************************************)
LEMMA DivisionFact ==
  ASSUME NEW a \in Nat, NEW b \in Nat \ {0}
  PROVE  /\ a \div b \in Nat
         /\ b * (a \div b) <= a
         /\ a < b * (a \div b) + b
BY Z3

(***************************************************************************)
(* BlockCount(n, b) is the only count of blocks of size b that n bytes     *)
(* fill: one block less has no room for them, and no block stays empty.    *)
(***************************************************************************)
LEMMA BlockCountIs ==
  ASSUME NEW n \in Nat, NEW b \in Nat \ {0}, NEW c \in Nat,
         n <= b * c, b * c < n + b
  PROVE  BlockCount(n, b) = c
<1> DEFINE d == (n + b - 1) \div b
<1>1. d \in Nat /\ b * d <= n + b - 1 /\ n + b - 1 < b * d + b
  BY DivisionFact
<1>2. CASE d < c
  <2>1. d + 1 <= c  BY <1>1, <1>2
  <2>2. b * (d + 1) <= b * c  BY <2>1, <1>1
  <2> QED  BY <2>2, <1>1
<1>3. CASE c < d
  <2>1. c + 1 <= d  BY <1>1, <1>3
  <2>2. b * (c + 1) <= b * d  BY <2>1, <1>1
  <2> QED  BY <2>2, <1>1
<1> QED  BY <1>1, <1>2, <1>3 DEF BlockCount

LEMMA BlockCountFact ==
  ASSUME NEW n \in Nat, NEW b \in Nat \ {0}
  PROVE  /\ BlockCount(n, b) \in Nat
         /\ n <= b * BlockCount(n, b)
         /\ b * BlockCount(n, b) < n + b
BY DivisionFact, n + b - 1 \in Nat DEF BlockCount

(***************************************************************************)
(* A block that exists is not empty and lies within the n bytes.           *)
(***************************************************************************)
LEMMA BlockBounds ==
  ASSUME NEW n \in Nat, NEW b \in Nat \ {0},
         NEW k \in 1 .. BlockCount(n, b)
  PROVE  /\ BlockStart(k, b) \in 1 .. n
         /\ BlockEnd(n, k, b) \in 1 .. n
         /\ BlockStart(k, b) <= BlockEnd(n, k, b)
<1> DEFINE c == BlockCount(n, b)
           p == (k - 1) * b
<1>1. c \in Nat /\ b * c < n + b  BY BlockCountFact
<1>2. b * k <= b * c
  <2> HIDE DEF c
  <2> QED  BY <1>1, k <= c DEF c
<1>3. k * b = p + b /\ b * k = k * b /\ p \in Nat
  BY <1>1
<1> HIDE DEF p
<1>4. p < n  BY <1>1, <1>2, <1>3
<1>5. BlockStart(k, b) = p + 1  BY DEF BlockStart, p
<1>6. BlockEnd(n, k, b) = IF p + b <= n THEN p + b ELSE n
  BY <1>3 DEF BlockEnd
<1> QED  BY <1>3, <1>4, <1>5, <1>6

(***************************************************************************)
(* Blocks behind q whole blocks are the same blocks, moved by b * q bytes; *)
(* the q blocks in front of them end inside those b * q bytes.             *)
(***************************************************************************)
LEMMA BlockShift ==
  ASSUME NEW n \in Nat, NEW b \in Nat \ {0}, NEW q \in Nat, NEW k \in Nat \ {0}
  PROVE  /\ BlockStart(q + k, b) = b * q + BlockStart(k, b)
         /\ BlockEnd(b * q + n, q + k, b) = b * q + BlockEnd(n, k, b)
<1> DEFINE u == k * b
           m == b * q
<1>1. u \in Nat /\ m \in Nat /\ (q + k) * b = m + u
  OBVIOUS
<1>2. (q + k - 1) * b = m + (k - 1) * b /\ (k - 1) * b \in Nat
  OBVIOUS
<1> HIDE DEF u, m
<1>3. BlockEnd(m + n, q + k, b) = IF m + u <= m + n THEN m + u ELSE m + n
  BY <1>1 DEF BlockEnd
<1>4. BlockEnd(n, k, b) = IF u <= n THEN u ELSE n
  BY DEF BlockEnd, u
<1>5. BlockEnd(m + n, q + k, b) = m + BlockEnd(n, k, b)
  BY <1>1, <1>3, <1>4
<1>6. BlockStart(q + k, b) = m + BlockStart(k, b)
  BY <1>1, <1>2 DEF BlockStart
<1> QED  BY <1>5, <1>6 DEF m

LEMMA WholeBlockEnd ==
  ASSUME NEW n \in Nat, NEW b \in Nat \ {0}, NEW q \in Nat, NEW k \in 1 .. q
  PROVE  BlockEnd(b * q + n, k, b) = BlockEnd(b * q, k, b)
<1> DEFINE u == k * b
           m == b * q
<1>1. u \in Nat /\ m \in Nat /\ u <= m
  OBVIOUS
<1>2. /\ BlockEnd(m + n, k, b) = IF u <= m + n THEN u ELSE m + n
      /\ BlockEnd(m, k, b) = IF u <= m THEN u ELSE m
  BY DEF BlockEnd
<1> HIDE DEF u, m
<1>3. BlockEnd(m + n, k, b) = BlockEnd(m, k, b)
  BY <1>1, <1>2
<1> QED  BY <1>3 DEF m

(***************************************************************************)
(* A function on 1 .. n is a sequence of length n.                         *)
(***************************************************************************)
LEMMA FunctionIsSeq ==
  ASSUME NEW T, NEW n \in Nat, NEW f \in [1 .. n -> T]
  PROVE  f \in Seq(T) /\ Len(f) = n
<1>1. f \in Seq(T)  BY SeqDef
<1>2. Len(f) \in Nat /\ 1 .. Len(f) = 1 .. n  BY <1>1, LenProperties
<1> QED  BY <1>1, <1>2

(***************************************************************************)
(* A sequence that agrees with u and then with v is their concatenation.   *)
(***************************************************************************)
LEMMA ConcatIs ==
  ASSUME NEW T, NEW u \in Seq(T), NEW v \in Seq(T), NEW w \in Seq(T),
         Len(w) = Len(u) + Len(v),
         \A k \in 1 .. Len(u) : w[k] = u[k],
         \A k \in 1 .. Len(v) : w[Len(u) + k] = v[k]
  PROVE  w = u \o v
<1> DEFINE m == Len(u)
           n == Len(v)
<1>1. m \in Nat /\ n \in Nat
  BY LenProperties
<1>2. /\ u \o v \in Seq(T)
      /\ Len(u \o v) = m + n
      /\ \A i \in 1 .. m + n : (u \o v)[i] = IF i <= m THEN u[i] ELSE v[i - m]
  BY ConcatProperties
<1>3. ASSUME NEW k \in 1 .. m + n
      PROVE  w[k] = (u \o v)[k]
  <2>1. CASE k <= m
    BY <1>1, <1>2, <2>1
  <2>2. CASE k > m
    <3>1. k - m \in 1 .. n /\ m + (k - m) = k  BY <1>1, <2>2
    <3>2. w[m + (k - m)] = v[k - m]  BY <3>1
    <3> QED  BY <1>1, <1>2, <2>2, <3>1, <3>2
  <2> QED  BY <1>1, <2>1, <2>2
<1> QED
  BY <1>2, <1>3, SeqEqual

(***************************************************************************)
(* The blocks of a byte string are a sequence of non-empty byte strings.   *)
(***************************************************************************)
LEMMA BlocksOfType ==
  ASSUME NEW S, NEW s \in Seq(S), NEW b \in Nat \ {0}
  PROVE  /\ BlocksOf(s, b) \in Seq(Seq(S))
         /\ Len(BlocksOf(s, b)) = BlockCount(Len(s), b)
         /\ \A k \in 1 .. BlockCount(Len(s), b) :
              /\ BlocksOf(s, b)[k] # <<>>
              /\ BlocksOf(s, b)[k] = SubSeq(s, BlockStart(k, b), BlockEnd(Len(s), k, b))
<1>1. Len(s) \in Nat /\ BlockCount(Len(s), b) \in Nat
  BY LenProperties, BlockCountFact
<1>2. ASSUME NEW k \in 1 .. BlockCount(Len(s), b)
      PROVE  /\ BlocksOf(s, b)[k] = SubSeq(s, BlockStart(k, b), BlockEnd(Len(s), k, b))
             /\ BlocksOf(s, b)[k] \in Seq(S)
             /\ BlocksOf(s, b)[k] # <<>>
  <2> DEFINE lo == BlockStart(k, b)
             hi == BlockEnd(Len(s), k, b)
  <2>1. BlocksOf(s, b)[k] = SubSeq(s, lo, hi)
    BY DEF BlocksOf
  <2>2. lo \in 1 .. Len(s) /\ hi \in 1 .. Len(s) /\ lo <= hi
    BY <1>1, BlockBounds
  <2> HIDE DEF lo, hi
  <2>3. SubSeq(s, lo, hi) \in Seq(S) /\ Len(SubSeq(s, lo, hi)) = hi - lo + 1
    BY <2>2
  <2>4. SubSeq(s, lo, hi) \in Seq(S) /\ SubSeq(s, lo, hi) # <<>>
    BY <2>2, <2>3
  <2> QED  BY <2>1, <2>4 DEF lo, hi
<1>3. BlocksOf(s, b) \in [1 .. BlockCount(Len(s), b) -> Seq(S)]
  BY <1>1, <1>2 DEF BlocksOf
<1> QED  BY <1>1, <1>2, <1>3, FunctionIsSeq

\* s is made of q whole blocks of size b.
FillsBlocks(s, b, q) == Len(s) = b * q

(***************************************************************************)
(* Cutting at a batch boundary changes nothing: if s fills whole blocks,   *)
(* the blocks of s followed by t are those of s followed by those of t.    *)
(***************************************************************************)
LEMMA BlocksOfConcat ==
  ASSUME NEW S, NEW s \in Seq(S), NEW t \in Seq(S), NEW b \in Nat \ {0},
         NEW q \in Nat, FillsBlocks(s, b, q)
  PROVE  BlocksOf(s \o t, b) = BlocksOf(s, b) \o BlocksOf(t, b)
<1> USE DEF FillsBlocks
<1> DEFINE c == BlockCount(Len(t), b)
           A == BlocksOf(s, b)
           B == BlocksOf(t, b)
           C == BlocksOf(s \o t, b)
<1>1. Len(s) \in Nat /\ Len(t) \in Nat
  BY LenProperties
<1>2. c \in Nat /\ Len(t) <= b * c /\ b * c < Len(t) + b
  BY <1>1, BlockCountFact
<1>3. Len(s \o t) = b * q + Len(t) /\ s \o t \in Seq(S)
  BY ConcatProperties
<1>4. BlockCount(Len(s), b) = q
  BY <1>1, BlockCountIs
<1>5. BlockCount(Len(s \o t), b) = q + c
  <2> HIDE DEF c
  <2>1. b * (q + c) = b * q + b * c  BY <1>2
  <2>2. b * q \in Nat /\ b * c \in Nat  BY <1>2
  <2> QED  BY <1>1, <1>2, <1>3, <2>1, <2>2, BlockCountIs
<1>6. /\ A \in Seq(Seq(S)) /\ Len(A) = q
      /\ B \in Seq(Seq(S)) /\ Len(B) = c
      /\ C \in Seq(Seq(S)) /\ Len(C) = q + c
  BY <1>3, <1>4, <1>5, BlocksOfType
<1>7. ASSUME NEW k \in 1 .. q
      PROVE  C[k] = A[k]
  <2> DEFINE lo == BlockStart(k, b)
             hi == BlockEnd(Len(s), k, b)
  <2>1. lo \in 1 .. Len(s) /\ hi \in 1 .. Len(s)
    BY <1>1, <1>4, BlockBounds
  <2>2. A[k] = SubSeq(s, lo, hi)
    BY <1>4, BlocksOfType
  <2>3. k \in 1 .. BlockCount(Len(s \o t), b)
    BY <1>2, <1>5
  <2>4. C[k] = SubSeq(s \o t, lo, BlockEnd(Len(s \o t), k, b))
    BY <1>3, <2>3, BlocksOfType
  <2>5. BlockEnd(b * q + Len(t), k, b) = BlockEnd(b * q, k, b)
    BY <1>1, WholeBlockEnd
  <2>6. BlockEnd(Len(s \o t), k, b) = hi
    BY <1>3, <2>5, Zenon
  <2> HIDE DEF lo, hi
  <2>7. SubSeq(s \o t, lo, hi) = SubSeq(s, lo, hi)
    BY <2>1, SubSeqOfConcat1
  <2> QED  BY <2>2, <2>4, <2>6, <2>7
<1>8. ASSUME NEW k \in 1 .. c
      PROVE  C[q + k] = B[k]
  <2> DEFINE lo == BlockStart(k, b)
             hi == BlockEnd(Len(t), k, b)
  <2>1. lo \in 1 .. Len(t) /\ hi \in 1 .. Len(t)
    BY <1>1, BlockBounds
  <2>2. B[k] = SubSeq(t, lo, hi)
    BY BlocksOfType
  <2>3. q + k \in 1 .. BlockCount(Len(s \o t), b)
    <3> HIDE DEF c
    <3> QED  BY <1>2, <1>5
  <2>4. C[q + k] = SubSeq(s \o t, BlockStart(q + k, b), BlockEnd(Len(s \o t), q + k, b))
    BY <1>3, <2>3, BlocksOfType
  <2>5. /\ BlockStart(q + k, b) = Len(s) + lo
        /\ BlockEnd(Len(s \o t), q + k, b) = Len(s) + hi
    <3>1. k \in Nat \ {0}  BY <1>2
    <3>2. /\ BlockStart(q + k, b) = b * q + lo
          /\ BlockEnd(b * q + Len(t), q + k, b) = b * q + hi
      BY <1>1, <3>1, BlockShift
    <3> QED  BY <1>3, <3>2, Zenon
  <2> HIDE DEF lo, hi
  <2>6. SubSeq(s \o t, Len(s) + lo, Len(s) + hi) = SubSeq(t, lo, hi)
    BY <1>1, <2>1, SubSeqOfConcat2
  <2> QED  BY <2>2, <2>4, <2>5, <2>6
<1> QED
  <2> HIDE DEF c, A, B, C
  <2> DEFINE T == Seq(S)
  <2>1. /\ A \in Seq(T) /\ B \in Seq(T) /\ C \in Seq(T)
    BY <1>6
  <2>2. Len(C) = Len(A) + Len(B)
    BY <1>6
  <2>3. \A k \in 1 .. Len(A) : C[k] = A[k]
    BY <1>6, <1>7
  <2>4. \A k \in 1 .. Len(B) : C[Len(A) + k] = B[k]
    BY <1>6, <1>8
  <2> HIDE DEF T
  <2>5. C = A \o B  BY <2>1, <2>2, <2>3, <2>4, ConcatIs
  <2> QED  BY <2>5 DEF A, B, C

----------------------------------------------------------------------------
(***************************************************************************)
(* Every non-empty set of naturals has a least member: induction, in the   *)
(* form of a least counterexample.                                         *)
(***************************************************************************)
LEMMA Smallest ==
  ASSUME NEW T \in SUBSET Nat, T # {}
  PROVE  \E x \in T : \A y \in T : x <= y
<1> DEFINE R == {ss \in Nat \X Nat : ss[1] < ss[2]}
<1>1. IsWellFoundedOn(R, Nat)  BY NatLessThanWellFounded DEF OpToRel
<1>2. \A x \in Nat : \A y \in Nat : y < x => <<y, x>> \in R
  OBVIOUS
<1> HIDE DEF R
<1>3. \E x \in T : \A y \in T : ~(<<y, x>> \in R)  BY <1>1, WFMin
<1>4. ASSUME NEW x \in T, \A y \in T : ~(<<y, x>> \in R)
      PROVE  \A y \in T : x <= y
  <2>1. \A y \in T : ~(y < x)  BY <1>2, <1>4
  <2> QED  BY <2>1
<1> QED  BY <1>3, <1>4

(***************************************************************************)
(* A bounded set of naturals has a greatest member.                        *)
(***************************************************************************)
LEMMA Greatest ==
  ASSUME NEW T \in SUBSET Nat, T # {}, NEW b \in Nat, \A x \in T : x <= b
  PROVE  \E x \in T : \A y \in T : y <= x
<1> DEFINE U == {n \in Nat : b - n \in T}
<1>1. U # {}
  <2>1. PICK x \in T : TRUE  OBVIOUS
  <2>2. b - x \in Nat /\ b - (b - x) = x  BY <2>1
  <2>3. b - x \in U  BY <2>1, <2>2
  <2> QED  BY <2>3
<1>2. PICK n \in U : \A m \in U : n <= m
  <2>1. U \in SUBSET Nat  OBVIOUS
  <2> HIDE DEF U
  <2> QED  BY <1>1, <2>1, Smallest
<1>3. ASSUME NEW y \in T PROVE y <= b - n
  <2>1. b - y \in Nat /\ b - (b - y) = y  BY <1>3
  <2>2. b - y \in U  BY <2>1
  <2>3. n <= b - y  BY <1>2, <2>2
  <2> QED  BY <2>1, <2>3
<1> QED  BY <1>2, <1>3

LEMMA MinIs ==
  ASSUME NEW S \in SUBSET Nat, S # {}
  PROVE  Min(S) \in S /\ \A x \in S : Min(S) <= x
<1>1. \E x \in S : \A y \in S : x <= y  BY Smallest
<1> QED  BY <1>1 DEF Min

LEMMA MaxIs ==
  ASSUME NEW S \in SUBSET Nat, S # {}, NEW b \in Nat, \A x \in S : x <= b
  PROVE  Max(S) \in S /\ \A x \in S : x <= Max(S)
<1>1. \E x \in S : \A y \in S : y <= x  BY Greatest
<1>2. \E x \in S : \A y \in S : x >= y  BY <1>1
<1> QED  BY <1>2 DEF Max

(***************************************************************************)
(* Who comes later has more before him.                                    *)
(***************************************************************************)
LEMMA LaterHasMoreBefore ==
  ASSUME NEW S, IsFiniteSet(S), NEW R, Orders(R, S), NEW x \in S, NEW y \in S,
         <<x, y>> \in R
  PROVE  Cardinality(Preceding(S, R, x)) < Cardinality(Preceding(S, R, y))
<1> DEFINE X == Preceding(S, R, x)
           Y == Preceding(S, R, y)
<1>1. X \subseteq Y /\ x \in Y /\ x \notin X  BY DEF Orders, Preceding
<1>2. IsFiniteSet(Y)  BY FS_Subset DEF Preceding
<1> HIDE DEF X, Y
<1>3. IsFiniteSet(X) /\ Cardinality(X) <= Cardinality(Y)
      /\ (Cardinality(X) = Cardinality(Y) => X = Y)
  BY <1>1, <1>2, FS_Subset
<1>4. Cardinality(X) \in Nat /\ Cardinality(Y) \in Nat  BY <1>2, <1>3, FS_CardinalityType
<1>5. Cardinality(X) # Cardinality(Y)  BY <1>1, <1>3
<1> QED  BY <1>3, <1>4, <1>5 DEF X, Y

(***************************************************************************)
(* Each place in the order is taken, by one element.                       *)
(***************************************************************************)
LEMMA OnePlaceEach ==
  ASSUME NEW S, IsFiniteSet(S), NEW R, Orders(R, S)
  PROVE  /\ Cardinality(S) \in Nat
         /\ \A x \in S : Cardinality(Preceding(S, R, x)) \in 0 .. Cardinality(S) - 1
         /\ \A n \in 0 .. Cardinality(S) - 1 :
              \E x \in S : Cardinality(Preceding(S, R, x)) = n
<1> DEFINE c == Cardinality(S)
           place == [x \in S |-> Cardinality(Preceding(S, R, x))]
<1>1. c \in Nat  BY FS_CardinalityType
<1>2. ASSUME NEW x \in S PROVE Cardinality(Preceding(S, R, x)) \in 0 .. c - 1
  <2>1. Preceding(S, R, x) \in SUBSET (S \ {x})  BY DEF Preceding, Orders
  <2>2. IsFiniteSet(S \ {x}) /\ Cardinality(S \ {x}) = c - 1  BY FS_RemoveElement
  <2>3. /\ IsFiniteSet(Preceding(S, R, x))
        /\ Cardinality(Preceding(S, R, x)) <= Cardinality(S \ {x})
    BY <2>1, <2>2, FS_Subset
  <2>4. Cardinality(Preceding(S, R, x)) \in Nat  BY <2>3, FS_CardinalityType
  <2> HIDE DEF c
  <2> QED  BY <1>1, <2>2, <2>3, <2>4
<1>3. place \in Injection(S, 0 .. c - 1)
  <2>1. place \in [S -> 0 .. c - 1]  BY <1>2
  <2>2. ASSUME NEW x \in S, NEW y \in S, place[x] = place[y] PROVE x = y
    <3>1. CASE <<x, y>> \in R
      <4>1. Cardinality(Preceding(S, R, x)) < Cardinality(Preceding(S, R, y))
        BY <3>1, LaterHasMoreBefore
      <4> QED  BY <1>2, <2>2, <4>1
    <3>2. CASE <<y, x>> \in R
      <4>1. Cardinality(Preceding(S, R, y)) < Cardinality(Preceding(S, R, x))
        BY <3>2, LaterHasMoreBefore
      <4> QED  BY <1>2, <2>2, <4>1
    <3> QED  BY <3>1, <3>2 DEF Orders
  <2> QED  BY <2>1, <2>2 DEF Injection, IsInjective
<1>4. IsFiniteSet(0 .. c - 1) /\ Cardinality(0 .. c - 1) = c
  <2> HIDE DEF c
  <2>1. IsFiniteSet(0 .. c - 1)
        /\ Cardinality(0 .. c - 1) = IF 0 > c - 1 THEN 0 ELSE (c - 1) - 0 + 1
    BY <1>1, FS_Interval, 0 \in Int, c - 1 \in Int
  <2> QED  BY <1>1, <2>1
<1>5. place \in Surjection(S, 0 .. c - 1)
  <2> HIDE DEF place
  <2> QED  BY <1>3, <1>4, FS_Injection
<1>6. \A n \in 0 .. c - 1 : \E x \in S : place[x] = n  BY <1>5 DEF Surjection
<1> QED  BY <1>1, <1>2, <1>6

(***************************************************************************)
(* InOrder is a list of the elements, each of them, in their order.        *)
(***************************************************************************)
LEMMA InOrderIs ==
  ASSUME NEW S, IsFiniteSet(S), NEW R, Orders(R, S)
  PROVE  /\ Cardinality(S) \in Nat
         /\ InOrder(S, R) \in [1 .. Cardinality(S) -> S]
         /\ \A x \in S : \E n \in 1 .. Cardinality(S) : InOrder(S, R)[n] = x
         /\ \A m, n \in 1 .. Cardinality(S) :
              m < n => <<InOrder(S, R)[m], InOrder(S, R)[n]>> \in R
<1> DEFINE c == Cardinality(S)
           Rank(x) == Cardinality(Preceding(S, R, x))
           order == InOrder(S, R)
<1>1. /\ c \in Nat
      /\ \A x \in S : Rank(x) \in 0 .. c - 1
      /\ \A n \in 0 .. c - 1 : \E x \in S : Rank(x) = n
  BY OnePlaceEach
<1>2. order = [n \in 1 .. c |-> CHOOSE x \in S : Rank(x) = n - 1]  BY DEF InOrder
<1>3. \A x, y \in S : <<x, y>> \in R => Rank(x) < Rank(y)  BY LaterHasMoreBefore
<1> HIDE DEF c, Rank, order
<1>4. ASSUME NEW n \in 1 .. c PROVE order[n] \in S /\ Rank(order[n]) = n - 1
  <2>1. \E x \in S : Rank(x) = n - 1  BY <1>1
  <2>2. order[n] = CHOOSE x \in S : Rank(x) = n - 1  BY <1>2
  <2> QED  BY <2>1, <2>2
<1>5. order \in [1 .. c -> S]  BY <1>2, <1>4
<1>6. ASSUME NEW x \in S, NEW y \in S, Rank(x) = Rank(y) PROVE x = y
  <2>1. ~(Rank(x) < Rank(y)) /\ ~(Rank(y) < Rank(x))  BY <1>1, <1>6
  <2> QED  BY <1>3, <2>1 DEF Orders
<1>7. ASSUME NEW x \in S PROVE \E n \in 1 .. c : order[n] = x
  <2>1. Rank(x) + 1 \in 1 .. c /\ (Rank(x) + 1) - 1 = Rank(x)  BY <1>1
  <2>2. order[Rank(x) + 1] = x  BY <1>4, <1>6, <2>1
  <2> QED  BY <2>1, <2>2
<1>8. ASSUME NEW m \in 1 .. c, NEW n \in 1 .. c, m < n PROVE <<order[m], order[n]>> \in R
  <2>1. Rank(order[m]) < Rank(order[n])  BY <1>1, <1>4, <1>8
  <2>2. order[m] # order[n]  BY <1>1, <1>4, <2>1
  <2>3. ~(<<order[n], order[m]>> \in R)
    <3>1. <<order[n], order[m]>> \in R => Rank(order[n]) < Rank(order[m])  BY <1>3, <1>4
    <3> QED  BY <1>1, <1>4, <2>1, <3>1
  <2> QED  BY <1>4, <2>2, <2>3 DEF Orders
<1> QED  BY <1>1, <1>5, <1>7, <1>8 DEF c, order

(***************************************************************************)
(* s is `list' at the places, in the order R: `order' says which place     *)
(* each element is from.                                                   *)
(***************************************************************************)
Arrangement(s, order, list, places, R) ==
  /\ Cardinality(places) \in Nat
  /\ order \in [1 .. Cardinality(places) -> places]
  /\ \A k \in places : \E n \in 1 .. Cardinality(places) : order[n] = k
  /\ \A m, n \in 1 .. Cardinality(places) : m < n => <<order[m], order[n]>> \in R
  /\ s = [n \in 1 .. Cardinality(places) |-> list[order[n]]]

LEMMA ArrangedIs ==
  ASSUME NEW list, NEW places, IsFiniteSet(places), NEW R, Orders(R, places)
  PROVE  \E order : Arrangement(Arranged(list, places, R), order, list, places, R)
<1>1. Arranged(list, places, R)
        = [n \in 1 .. Cardinality(places) |-> list[InOrder(places, R)[n]]]
  BY DEF Arranged
<1>2. Arrangement(Arranged(list, places, R), InOrder(places, R), list, places, R)
  BY <1>1, InOrderIs DEF Arrangement
<1> QED  BY <1>2

(***************************************************************************)
(* The list that results is a sequence; its elements are those at the      *)
(* places, and they come in their order.                                   *)
(***************************************************************************)
LEMMA ArrangedType ==
  ASSUME NEW list, NEW places, IsFiniteSet(places), NEW R, Orders(R, places),
         NEW T, \A k \in places : list[k] \in T
  PROVE  /\ Arranged(list, places, R) \in Seq(T)
         /\ Len(Arranged(list, places, R)) = Cardinality(places)
<1> DEFINE f == Arranged(list, places, R)
           c == Cardinality(places)
<1>1. PICK order : Arrangement(f, order, list, places, R)  BY ArrangedIs
<1> HIDE DEF f
<1>2. /\ c \in Nat /\ \A n \in 1 .. c : order[n] \in places
      /\ f = [n \in 1 .. c |-> list[order[n]]]
  BY <1>1 DEF Arrangement
<1> HIDE DEF c
<1>3. f \in [1 .. c -> T]  BY <1>2
<1>4. f \in Seq(T) /\ Len(f) = c  BY <1>2, <1>3, FunctionIsSeq
<1> QED  BY <1>4 DEF c, f

LEMMA AscendingOrders ==
  ASSUME NEW S \in SUBSET Int
  PROVE  Orders(Ascending(S), S)
<1>1. \A i, j : <<i, j>> \in Ascending(S) <=> i \in S /\ j \in S /\ i < j
  BY DEF Ascending
<1> QED  BY <1>1 DEF Orders

LEMMA PlacesAreFinite ==
  ASSUME NEW n \in Nat, NEW places \in SUBSET (1 .. n)
  PROVE  IsFiniteSet(places) /\ Cardinality(places) \in Nat
<1>1. IsFiniteSet(1 .. n)  BY FS_Interval, 1 \in Int, n \in Int
<1>2. IsFiniteSet(places)  BY <1>1, FS_Subset
<1> QED  BY <1>2, FS_CardinalityType

(***************************************************************************)
(* f holds what Filtered has collected after each of the first n rows.       *)
(***************************************************************************)
Picks(rows, keep, n, f) ==
  f = [k \in 0 .. n |->
        IF k = 0 THEN <<>>
        ELSE IF k \in keep THEN Append(f[k - 1], rows[k]) ELSE f[k - 1]]

LEMMA PicksAre ==
  ASSUME NEW rows, NEW keep, NEW n \in Nat, NEW f, Picks(rows, keep, n, f)
  PROVE  /\ f[0] = <<>>
         /\ \A k \in 1 .. n :
              f[k] = IF k \in keep THEN Append(f[k - 1], rows[k]) ELSE f[k - 1]
<1> DEFINE v(k) == IF k = 0 THEN <<>>
                   ELSE IF k \in keep THEN Append(f[k - 1], rows[k]) ELSE f[k - 1]
<1>1. f = [k \in 0 .. n |-> v(k)]  BY DEF Picks
<1>2. \A k \in 0 .. n : f[k] = v(k)
  <2> HIDE DEF v
  <2> QED  BY <1>1
<1> QED  BY <1>2

LEMMA OneMorePick ==
  ASSUME NEW rows, NEW keep, NEW n \in Nat \ {0}, NEW g, Picks(rows, keep, n - 1, g)
  PROVE  \E f : Picks(rows, keep, n, f)
<1> DEFINE last == IF n \in keep THEN Append(g[n - 1], rows[n]) ELSE g[n - 1]
           f == [k \in 0 .. n |-> IF k = n THEN last ELSE g[k]]
           v(k) == IF k = 0 THEN <<>>
                   ELSE IF k \in keep THEN Append(f[k - 1], rows[k]) ELSE f[k - 1]
<1>1. \A k \in 0 .. n - 1 : f[k] = g[k]
  <2> HIDE DEF last
  <2> QED  OBVIOUS
<1>2. f[n] = last
  <2> HIDE DEF last
  <2> QED  OBVIOUS
<1>3. \A k \in 0 .. n : f[k] = v(k)
  <2> HIDE DEF f
  <2>1. ASSUME NEW k \in 0 .. n PROVE f[k] = v(k)
    <3>1. CASE k = n
      <4>1. f[n - 1] = g[n - 1]  BY <1>1
      <4> QED  BY <1>2, <3>1, <4>1
    <3>2. CASE k = 0
      <4>1. g[0] = <<>>  BY PicksAre, n - 1 \in Nat
      <4> QED  BY <1>1, <3>2, <4>1
    <3>3. CASE k \in 1 .. n - 1
      <4>1. g[k] = IF k \in keep THEN Append(g[k - 1], rows[k]) ELSE g[k - 1]
        BY PicksAre, n - 1 \in Nat, <3>3
      <4>2. f[k] = g[k] /\ f[k - 1] = g[k - 1] /\ k # 0  BY <1>1, <3>3
      <4> QED  BY <4>1, <4>2
    <3> QED  BY <3>1, <3>2, <3>3
  <2> QED  BY <2>1
<1>4. f = [k \in 0 .. n |-> f[k]]
  <2> HIDE DEF last
  <2> QED  OBVIOUS
<1>5. f = [k \in 0 .. n |-> v(k)]
  <2> HIDE DEF f
  <2>1. \A k \in 0 .. n : f[k] = v(k)  BY <1>3
  <2> HIDE DEF v
  <2> QED  BY <1>4, <2>1
<1> QED
  <2> HIDE DEF f
  <2> QED  BY <1>5 DEF Picks

LEMMA PicksExist ==
  ASSUME NEW rows, NEW keep, NEW n \in Nat
  PROVE  \E f : Picks(rows, keep, n, f)
<1> DEFINE T == {k \in Nat : ~ \E f : Picks(rows, keep, k, f)}
<1> SUFFICES ASSUME T # {} PROVE FALSE
  OBVIOUS
<1>1. PICK k \in T : \A m \in T : k <= m
  <2>1. T \in SUBSET Nat  OBVIOUS
  <2> HIDE DEF T
  <2> QED  BY <2>1, Smallest
<1>2. CASE k = 0
  <2> DEFINE f == [i \in 0 .. 0 |-> <<>>]
  <2>1. Picks(rows, keep, 0, f)  BY DEF Picks
  <2> QED  BY <1>2, <2>1
<1>3. CASE k # 0
  <2>1. k \in Nat \ {0} /\ k - 1 \in Nat /\ k - 1 \notin T  BY <1>1, <1>3
  <2>2. PICK g : Picks(rows, keep, k - 1, g)  BY <2>1
  <2>3. \E f : Picks(rows, keep, k, f)  BY <2>1, <2>2, OneMorePick
  <2> QED  BY <2>3
<1> QED  BY <1>2, <1>3

LEMMA FilteredIs ==
  ASSUME NEW S, NEW rows \in Seq(S), NEW keep
  PROVE  \E f : /\ Picks(rows, keep, Len(rows), f)
                /\ Filtered(rows, keep) = f[Len(rows)]
<1>1. \E f : Picks(rows, keep, Len(rows), f)  BY PicksExist, LenProperties
<1> QED  BY <1>1 DEF Picks, Filtered

(***************************************************************************)
(* A filter arranges the elements at the places it keeps as they come:     *)
(* from the arrangement of those up to place n, that of one more.          *)
(***************************************************************************)
LEMMA OneMoreKept ==
  ASSUME NEW list, NEW n \in Nat, NEW places \in SUBSET (1 .. n - 1), NEW s, NEW order,
         Arrangement(s, order, list, places, Ascending(places)), n # 0,
         NEW T, s \in Seq(T), list[n] \in T
  PROVE  \E more : Arrangement(Append(s, list[n]), more, list, places \cup {n},
                               Ascending(places \cup {n}))
<1> DEFINE c == Cardinality(places)
           P == places \cup {n}
           more == [m \in 1 .. c + 1 |-> IF m = c + 1 THEN n ELSE order[m]]
           t == Append(s, list[n])
<1>1. IsFiniteSet(places) /\ c \in Nat  BY PlacesAreFinite, n - 1 \in Nat
<1>2. Cardinality(P) = c + 1
  <2>1. n \notin places  OBVIOUS
  <2> QED  BY <1>1, <2>1, FS_AddElement
<1>3. /\ order \in [1 .. c -> places]
      /\ \A k \in places : \E m \in 1 .. c : order[m] = k
      /\ \A l, m \in 1 .. c : l < m => <<order[l], order[m]>> \in Ascending(places)
      /\ s = [m \in 1 .. c |-> list[order[m]]]
  BY DEF Arrangement
<1>4. Len(s) = c
  <2>1. s \in [1 .. Len(s) -> T] /\ DOMAIN s = 1 .. Len(s)  BY LenProperties
  <2>2. DOMAIN s = 1 .. c  BY <1>3
  <2> HIDE DEF c
  <2>3. s \in [1 .. c -> T]  BY <2>1, <2>2
  <2> QED  BY <1>1, <2>3, FunctionIsSeq
<1>5. t \in Seq(T) /\ Len(t) = c + 1 /\ t[c + 1] = list[n]
      /\ \A m \in 1 .. c : t[m] = s[m]
  BY <1>1, <1>4, AppendProperties
<1> HIDE DEF c, t
<1>6. /\ more \in [1 .. c + 1 -> P] /\ more[c + 1] = n
      /\ \A m \in 1 .. c : more[m] = order[m] /\ m # c + 1 /\ m \in 1 .. c + 1
  BY <1>1, <1>3
<1> HIDE DEF more
<1>7. ASSUME NEW k \in P PROVE \E m \in 1 .. c + 1 : more[m] = k
  <2>1. CASE k = n  BY <1>1, <1>6, <2>1
  <2>2. CASE k \in places
    <3>1. PICK m \in 1 .. c : order[m] = k  BY <1>3, <2>2
    <3> QED  BY <1>6, <3>1
  <2> QED  BY <2>1, <2>2
<1>8. ASSUME NEW l \in 1 .. c + 1, NEW m \in 1 .. c + 1, l < m
      PROVE  <<more[l], more[m]>> \in Ascending(P)
  <2>1. l \in 1 .. c  BY <1>1, <1>8
  <2>2. more[l] = order[l] /\ order[l] \in places  BY <1>3, <1>6, <2>1
  <2>3. more[l] < more[m] /\ more[l] \in P /\ more[m] \in P
    <3>1. CASE m = c + 1
      <4>1. more[m] = n  BY <1>6, <3>1
      <4>2. more[l] \in 1 .. n - 1  BY <2>2
      <4> QED  BY <2>2, <4>1, <4>2
    <3>2. CASE m # c + 1
      <4>1. m \in 1 .. c  BY <1>1, <3>2
      <4>2. <<order[l], order[m]>> \in Ascending(places)  BY <1>3, <1>8, <2>1, <4>1
      <4> QED  BY <1>6, <2>2, <4>1, <4>2 DEF Ascending
    <3> QED  BY <3>1, <3>2
  <2> HIDE DEF P
  <2> QED  BY <2>3 DEF Ascending
<1>9. t = [m \in 1 .. c + 1 |-> list[more[m]]]
  <2>1. \A m \in 1 .. c + 1 : t[m] = list[more[m]]
    <3> SUFFICES ASSUME NEW m \in 1 .. c + 1 PROVE t[m] = list[more[m]]
      OBVIOUS
    <3>1. CASE m = c + 1  BY <1>5, <1>6, <3>1
    <3>2. CASE m # c + 1
      <4>1. m \in 1 .. c  BY <1>1, <3>2
      <4> QED  BY <1>3, <1>5, <1>6, <4>1
    <3> QED  BY <3>1, <3>2
  <2>2. t = [m \in 1 .. c + 1 |-> t[m]]
    <3>1. t \in [1 .. c + 1 -> T]  BY <1>5, LenProperties
    <3> QED  BY <3>1
  <2> QED  BY <2>1, <2>2
<1>10. Arrangement(t, more, list, P, Ascending(P))
  <2> HIDE DEF P
  <2>1. c + 1 \in Nat  BY <1>1
  <2> QED  BY <1>2, <1>6, <1>7, <1>8, <1>9, <2>1 DEF Arrangement
<1> QED  BY <1>10 DEF t

LEMMA FilteredArranges ==
  ASSUME NEW S, NEW rows \in Seq(S), NEW keep \in SUBSET (DOMAIN rows)
  PROVE  /\ Filtered(rows, keep) \in Seq(S)
         /\ \E order : Arrangement(Filtered(rows, keep), order, rows, keep, Ascending(keep))
<1> DEFINE Up(n) == keep \cap (1 .. n)
<1>0. Len(rows) \in Nat /\ DOMAIN rows = 1 .. Len(rows)  BY LenProperties
<1>1. PICK f : /\ Picks(rows, keep, Len(rows), f)
               /\ Filtered(rows, keep) = f[Len(rows)]
  BY FilteredIs
<1>2. /\ f[0] = <<>>
      /\ \A n \in 1 .. Len(rows) :
           f[n] = IF n \in keep THEN Append(f[n - 1], rows[n]) ELSE f[n - 1]
  BY <1>0, <1>1, PicksAre
<1> DEFINE Good(n) ==
      f[n] \in Seq(S) /\ \E order : Arrangement(f[n], order, rows, Up(n), Ascending(Up(n)))
<1>3. Good(0)
  <2> DEFINE none == [n \in 1 .. 0 |-> 0]
  <2>1. Up(0) = {} /\ Cardinality({}) = 0 /\ 1 .. 0 = {}
    BY FS_EmptySet
  <2>2. <<>> = [n \in 1 .. 0 |-> rows[none[n]]] /\ none \in [1 .. 0 -> {}]
    <3>1. <<>> = [n \in {} |-> rows[none[n]]]  OBVIOUS
    <3> QED  BY <2>1, <3>1
  <2> HIDE DEF none
  <2>3. Arrangement(<<>>, none, rows, {}, Ascending({}))
    BY <2>1, <2>2 DEF Arrangement
  <2>4. <<>> \in Seq(S)  OBVIOUS
  <2> QED  BY <1>2, <2>1, <2>3, <2>4
<1>4. ASSUME NEW n \in 1 .. Len(rows), Good(n - 1) PROVE Good(n)
  <2>0. n \in Nat /\ n # 0 /\ n - 1 \in Nat  BY <1>0
  <2>1. CASE n \in keep
    <3> DEFINE P == Up(n - 1)
    <3>1. PICK order : Arrangement(f[n - 1], order, rows, P, Ascending(P))  BY <1>4
    <3>2. P \in SUBSET (1 .. n - 1) /\ Up(n) = P \cup {n}  BY <2>0, <2>1
    <3>3. rows[n] \in S /\ f[n - 1] \in Seq(S)  BY <1>4, ElementOfSeq
    <3> HIDE DEF P
    <3>4. \E more : Arrangement(Append(f[n - 1], rows[n]), more, rows, P \cup {n},
                                Ascending(P \cup {n}))
      BY <2>0, <3>1, <3>2, <3>3, OneMoreKept
    <3>5. f[n] = Append(f[n - 1], rows[n])  BY <1>2, <2>1
    <3>6. f[n] \in Seq(S)  BY <3>3, <3>5, AppendProperties
    <3> HIDE DEF Up
    <3> QED  BY <3>2, <3>4, <3>5, <3>6
  <2>2. CASE n \notin keep
    <3>1. Up(n) = Up(n - 1)  BY <2>0, <2>2
    <3>2. f[n] = f[n - 1]  BY <1>2, <2>2
    <3> HIDE DEF Up
    <3> QED  BY <1>4, <3>1, <3>2
  <2> QED  BY <2>1, <2>2
<1> HIDE DEF Good
<1> DEFINE T == {n \in 0 .. Len(rows) : ~Good(n)}
<1>5. T = {}
  <2> SUFFICES ASSUME T # {} PROVE FALSE
    OBVIOUS
  <2>1. PICK n \in T : \A m \in T : n <= m
    <3>1. T \in SUBSET Nat  BY <1>0
    <3> HIDE DEF T
    <3> QED  BY <3>1, Smallest
  <2>2. n # 0  BY <1>3, <2>1
  <2>3. n \in 1 .. Len(rows) /\ n - 1 \in 0 .. Len(rows) /\ ~(n <= n - 1)
    BY <1>0, <2>1, <2>2
  <2>4. n - 1 \notin T
    <3> HIDE DEF T
    <3> QED  BY <2>1, <2>3
  <2> QED  BY <1>4, <2>1, <2>3, <2>4
<1>6. Good(Len(rows))  BY <1>0, <1>5
<1>7. Up(Len(rows)) = keep  BY <1>0
<1> HIDE DEF Up
<1> QED  BY <1>1, <1>6, <1>7 DEF Good

LEMMA FilteredType ==
  ASSUME NEW S, NEW rows \in Seq(S), NEW keep \in SUBSET (DOMAIN rows)
  PROVE  Filtered(rows, keep) \in Seq({rows[k] : k \in keep})
<1> DEFINE T == {rows[k] : k \in keep}
           s == Filtered(rows, keep)
           c == Cardinality(keep)
<1>1. PICK order : Arrangement(s, order, rows, keep, Ascending(keep))  BY FilteredArranges
<1> HIDE DEF s
<1>2. /\ c \in Nat /\ \A n \in 1 .. c : order[n] \in keep
      /\ s = [n \in 1 .. c |-> rows[order[n]]]
  BY <1>1 DEF Arrangement
<1> HIDE DEF c
<1>3. s \in [1 .. c -> T]  BY <1>2
<1> HIDE DEF T
<1>4. s \in Seq(T)  BY <1>2, <1>3, FunctionIsSeq
<1> QED  BY <1>4 DEF s, T

(***************************************************************************)
(* f holds the first sequences of seqs, joined, for each number of these.  *)
(***************************************************************************)
Joins(seqs, n, f) ==
  f = [i \in 1 .. n |-> IF i = 1 THEN seqs[i] ELSE f[i - 1] \o seqs[i]]

LEMMA JoinsAre ==
  ASSUME NEW seqs, NEW n \in Nat \ {0}, NEW f, Joins(seqs, n, f)
  PROVE  /\ f[1] = seqs[1]
         /\ \A i \in 2 .. n : f[i] = f[i - 1] \o seqs[i]
<1> DEFINE v(i) == IF i = 1 THEN seqs[i] ELSE f[i - 1] \o seqs[i]
<1>1. f = [i \in 1 .. n |-> v(i)]  BY DEF Joins
<1>2. \A i \in 1 .. n : f[i] = v(i)
  <2> HIDE DEF v
  <2> QED  BY <1>1
<1>3. f[1] = seqs[1]
  <2>1. f[1] = v(1)  BY <1>2
  <2> QED  BY <2>1
<1>4. ASSUME NEW i \in 2 .. n PROVE f[i] = f[i - 1] \o seqs[i]
  <2>1. i \in 1 .. n /\ i # 1  OBVIOUS
  <2>2. f[i] = v(i)  BY <1>2, <2>1
  <2> QED  BY <2>1, <2>2
<1> QED  BY <1>3, <1>4

LEMMA OneMoreJoin ==
  ASSUME NEW seqs, NEW n \in Nat \ {0, 1}, NEW g, Joins(seqs, n - 1, g)
  PROVE  \E f : Joins(seqs, n, f)
<1> DEFINE last == g[n - 1] \o seqs[n]
           f == [i \in 1 .. n |-> IF i = n THEN last ELSE g[i]]
           v(i) == IF i = 1 THEN seqs[i] ELSE f[i - 1] \o seqs[i]
<1>1. \A i \in 1 .. n - 1 : f[i] = g[i]
  <2> HIDE DEF last
  <2> QED  OBVIOUS
<1>2. f[n] = last
  <2> HIDE DEF last
  <2> QED  OBVIOUS
<1>3. /\ g[1] = seqs[1]
      /\ \A i \in 2 .. n - 1 : g[i] = g[i - 1] \o seqs[i]
  BY JoinsAre, n - 1 \in Nat \ {0}
<1>4. \A i \in 1 .. n : f[i] = v(i)
  <2> HIDE DEF f
  <2>1. ASSUME NEW i \in 1 .. n PROVE f[i] = v(i)
    <3>1. CASE i = n
      <4>1. f[n - 1] = g[n - 1] /\ n # 1  BY <1>1
      <4> QED  BY <1>2, <3>1, <4>1
    <3>2. CASE i = 1
      <4>1. i \in 1 .. n - 1  BY <3>2
      <4> QED  BY <1>1, <1>3, <3>2, <4>1
    <3>3. CASE i \in 2 .. n - 1
      <4>1. f[i] = g[i] /\ f[i - 1] = g[i - 1] /\ i # 1  BY <1>1, <3>3
      <4> QED  BY <1>3, <3>3, <4>1
    <3> QED  BY <3>1, <3>2, <3>3
  <2> QED  BY <2>1
<1>5. f = [i \in 1 .. n |-> f[i]]
  <2> HIDE DEF last
  <2> QED  OBVIOUS
<1>6. f = [i \in 1 .. n |-> v(i)]
  <2> HIDE DEF f
  <2>1. \A i \in 1 .. n : f[i] = v(i)  BY <1>4
  <2> HIDE DEF v
  <2> QED  BY <1>5, <2>1
<1> QED
  <2> HIDE DEF f
  <2> QED  BY <1>6 DEF Joins

LEMMA JoinsExist ==
  ASSUME NEW seqs, NEW n \in Nat \ {0}
  PROVE  \E f : Joins(seqs, n, f)
<1> DEFINE T == {m \in Nat \ {0} : ~ \E f : Joins(seqs, m, f)}
<1> SUFFICES ASSUME T # {} PROVE FALSE
  OBVIOUS
<1>1. PICK k \in T : \A m \in T : k <= m
  <2>1. T \in SUBSET Nat  OBVIOUS
  <2> HIDE DEF T
  <2> QED  BY <2>1, Smallest
<1>2. CASE k = 1
  <2> DEFINE f == [i \in 1 .. 1 |-> seqs[1]]
             v(i) == IF i = 1 THEN seqs[i] ELSE f[i - 1] \o seqs[i]
  <2>1. \A i \in 1 .. 1 : f[i] = v(i)  OBVIOUS
  <2>2. f = [i \in 1 .. 1 |-> f[i]]  OBVIOUS
  <2>3. f = [i \in 1 .. 1 |-> v(i)]
    <3> HIDE DEF f
    <3>1. \A i \in 1 .. 1 : f[i] = v(i)  BY <2>1
    <3> HIDE DEF v
    <3> QED  BY <2>2, <3>1
  <2>4. Joins(seqs, 1, f)
    <3> HIDE DEF f
    <3> QED  BY <2>3 DEF Joins
  <2> QED  BY <1>2, <2>4
<1>3. CASE k # 1
  <2>1. k \in Nat \ {0, 1} /\ k - 1 \in Nat \ {0} /\ k - 1 \notin T  BY <1>1, <1>3
  <2>2. PICK g : Joins(seqs, k - 1, g)  BY <2>1
  <2>3. \E f : Joins(seqs, k, f)  BY <2>1, <2>2, OneMoreJoin
  <2> QED  BY <2>3
<1> QED  BY <1>2, <1>3

LEMMA FlattenIs ==
  ASSUME NEW seqs, NEW n \in Nat \ {0}, Len(seqs) = n
  PROVE  \E f : Joins(seqs, n, f) /\ FlattenSeq(seqs) = f[n]
<1>1. \E f : Joins(seqs, n, f)  BY JoinsExist
<1>2. FlattenSeq(seqs) = (CHOOSE f : Joins(seqs, n, f))[n]  BY DEF FlattenSeq, Joins
<1> QED  BY <1>1, <1>2
=============================================================================
