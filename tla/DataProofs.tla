----------------------------- MODULE DataProofs -----------------------------
(***************************************************************************)
(* What the proofs of several modules need of the data.  What              *)
(* PollTable!Compacted promises for a table of any size: the open          *)
(* descriptors are moved, none is lost and none stands twice.  Counting    *)
(* messages in the queues of a connection: what sending, reading and       *)
(* answering do to how many messages of a set S a queue holds, and to what *)
(* they are.  And what a proof by induction needs, for sets instead of     *)
(* operators.                                                              *)
(***************************************************************************)
EXTENDS PollTable, Sequences, SequenceTheorems, FiniteSetTheorems,
        FunctionTheorems, WellFoundedInduction, TLAPS

-----------------------------------------------------------------------------
(* Numbers                                                                 *)

Below == {ss \in Nat \X Nat : ss[1] < ss[2]}

LEMMA Least ==
  ASSUME NEW T, T \subseteq Nat, T # {}
  PROVE  \E m \in T : \A k \in T : m <= k
<1>1. IsWellFoundedOn(Below, Nat)
  BY NatLessThanWellFounded DEF OpToRel, Below
<1>2. PICK m \in T : \A k \in T : <<k, m>> \notin Below
  BY <1>1, WFMin
<1>3. ASSUME NEW k \in T, k < m PROVE FALSE
  <2>1. <<k, m>> \in Below
    BY <1>3 DEF Below
  <2> QED
    BY <1>2, <2>1
<1> QED
  BY <1>2, <1>3

LEMMA Greatest ==
  ASSUME NEW k \in Int, NEW T, T \subseteq Int, T # {}, \A t \in T : t <= k
  PROVE  \E m \in T : \A t \in T : t <= m
<1> DEFINE D == {k - t : t \in T}
<1>1. D \subseteq Nat /\ D # {}
  OBVIOUS
<1>2. PICK d \in D : \A e \in D : d <= e
  BY <1>1, Least
<1>3. PICK m \in T : d = k - m
  BY <1>2
<1>4. ASSUME NEW t \in T PROVE t <= m
  BY <1>2, <1>3
<1> QED
  BY <1>4

-----------------------------------------------------------------------------
(* How many slots are kept, and how many are holes                         *)

LEMMA KeptFinite ==
  ASSUME NEW f, NEW a \in Int, NEW k \in Int
  PROVE  /\ IsFiniteSet(Kept(f, a, k)) /\ Cardinality(Kept(f, a, k)) \in Nat
         /\ Cardinality(Kept(f, a, k)) <= IF a > k THEN 0 ELSE k - a + 1
<1>1. IsFiniteSet(a .. k) /\ Kept(f, a, k) \in SUBSET (a .. k)
  BY FS_Interval DEF Kept
<1>2. IsFiniteSet(Kept(f, a, k)) /\ Cardinality(Kept(f, a, k)) <= Cardinality(a .. k)
  BY <1>1, FS_Subset
<1> QED
  BY <1>2, FS_Interval, FS_CardinalityType

LEMMA Segment ==
  ASSUME NEW n \in Nat
  PROVE  IsFiniteSet(0 .. n - 1) /\ Cardinality(0 .. n - 1) = n
BY FS_Interval, n - 1 \in Int

LEMMA HolesFinite ==
  ASSUME NEW f, NEW j \in Int
  PROVE  IsFiniteSet(Holes(f, j)) /\ Cardinality(Holes(f, j)) \in Nat
<1>1. IsFiniteSet(0 .. j) /\ Holes(f, j) \in SUBSET (0 .. j)
  BY FS_Interval DEF Holes
<1>2. IsFiniteSet(Holes(f, j))
  BY <1>1, FS_Subset
<1> QED
  BY <1>2, FS_CardinalityType

LEMMA DisjointUnion ==
  ASSUME NEW A, NEW B, IsFiniteSet(A), IsFiniteSet(B), A \cap B = {}
  PROVE  Cardinality(A \cup B) = Cardinality(A) + Cardinality(B)
<1>1. Cardinality(A \cup B) = Cardinality(A) + Cardinality(B) - Cardinality(A \cap B)
  BY FS_Union
<1>2. Cardinality(A \cap B) = 0
  BY FS_EmptySet
<1>3. Cardinality(A) \in Nat /\ Cardinality(B) \in Nat
  BY FS_CardinalityType
<1> QED
  BY <1>1, <1>2, <1>3

LEMMA KeptSplit ==
  ASSUME NEW f, NEW a \in Int, NEW b \in Int, NEW k \in Int, a <= b, b <= k + 1
  PROVE  Cardinality(Kept(f, a, k))
           = Cardinality(Kept(f, a, b - 1)) + Cardinality(Kept(f, b, k))
<1> DEFINE A == Kept(f, a, b - 1)
           B == Kept(f, b, k)
<1>1. Kept(f, a, k) = A \cup B /\ A \cap B = {}
  BY DEF Kept
<1>2. IsFiniteSet(A) /\ IsFiniteSet(B)
  BY KeptFinite, b - 1 \in Int
<1>3. Cardinality(A \cup B) = Cardinality(A) + Cardinality(B)
  BY <1>1, <1>2, DisjointUnion
<1> QED
  BY <1>1, <1>3

LEMMA KeptOne ==
  ASSUME NEW f, NEW a \in Int
  PROVE  Cardinality(Kept(f, a, a)) = IF f[a] = NoFd THEN 0 ELSE 1
<1>1. Kept(f, a, a) = IF f[a] = NoFd THEN {} ELSE {a}
  BY DEF Kept
<1> QED
  BY <1>1, FS_EmptySet, FS_Singleton

LEMMA KeptStep ==
  ASSUME NEW f, NEW a \in Int, NEW k \in Int, a <= k
  PROVE  Cardinality(Kept(f, a, k))
           = Cardinality(Kept(f, a + 1, k)) + IF f[a] = NoFd THEN 0 ELSE 1
<1>1. Cardinality(Kept(f, a, k))
        = Cardinality(Kept(f, a, a)) + Cardinality(Kept(f, a + 1, k))
  <2>1. a + 1 \in Int /\ a <= a + 1 /\ a + 1 <= k + 1 /\ (a + 1) - 1 = a
    OBVIOUS
  <2> QED
    BY <2>1, KeptSplit
<1> QED
  BY <1>1, KeptOne, KeptFinite, a + 1 \in Int

(* Every slot below n is kept or a hole.                                   *)
LEMMA KeptAndHoles ==
  ASSUME NEW f, NEW n \in Nat
  PROVE  Cardinality(Kept(f, 0, n - 1)) + Cardinality(Holes(f, n - 1)) = n
<1> DEFINE A == Kept(f, 0, n - 1)
           B == Holes(f, n - 1)
<1>1. A \cup B = 0 .. n - 1 /\ A \cap B = {}
  BY DEF Kept, Holes
<1>2. IsFiniteSet(A) /\ IsFiniteSet(B)
  BY KeptFinite, HolesFinite, n - 1 \in Int
<1>3. Cardinality(A \cup B) = Cardinality(A) + Cardinality(B)
  BY <1>1, <1>2, DisjointUnion
<1>4. Cardinality(0 .. n - 1) = n
  BY FS_Interval, n - 1 \in Int
<1> QED
  BY <1>1, <1>3, <1>4

LEMMA HolesGrow ==
  ASSUME NEW f, NEW i \in Int, NEW j \in Int, i <= j
  PROVE  /\ Cardinality(Holes(f, i)) <= Cardinality(Holes(f, j))
         /\ 0 <= j /\ i < j /\ f[j] = NoFd
              => Cardinality(Holes(f, i)) < Cardinality(Holes(f, j))
<1>1. Holes(f, i) \in SUBSET Holes(f, j)
  BY DEF Holes
<1>2. IsFiniteSet(Holes(f, j))
  BY HolesFinite
<1>3. Cardinality(Holes(f, i)) <= Cardinality(Holes(f, j))
  BY <1>1, <1>2, FS_Subset
<1>4. ASSUME 0 <= j, i < j, f[j] = NoFd
      PROVE  Cardinality(Holes(f, i)) # Cardinality(Holes(f, j))
  <2>1. j \in Holes(f, j) /\ j \notin Holes(f, i)
    BY <1>4 DEF Holes
  <2> QED
    BY <1>1, <1>2, <2>1, FS_Subset
<1> QED
  BY <1>3, <1>4, HolesFinite

-----------------------------------------------------------------------------
(* The m-th open descriptor from the end: there is one, and only one.      *)

LEMMA FromTheEndUnique ==
  ASSUME NEW f, NEW k \in Int, NEW p \in Int, NEW q \in Int, p < q, q <= k,
         f[p] # NoFd
  PROVE  Cardinality(Kept(f, q, k)) < Cardinality(Kept(f, p, k))
<1>1. Cardinality(Kept(f, p, k)) = Cardinality(Kept(f, p + 1, k)) + 1
  BY KeptStep
<1>2. Cardinality(Kept(f, p + 1, k))
        = Cardinality(Kept(f, p + 1, q - 1)) + Cardinality(Kept(f, q, k))
  <2>1. p + 1 \in Int /\ p + 1 <= q /\ q <= k + 1
    OBVIOUS
  <2> QED
    BY <2>1, KeptSplit
<1>3. /\ Cardinality(Kept(f, q, k)) \in Nat
      /\ Cardinality(Kept(f, p + 1, q - 1)) \in Nat
  BY KeptFinite, p + 1 \in Int, q - 1 \in Int
<1> QED
  BY <1>1, <1>2, <1>3

LEMMA FromTheEndExists ==
  ASSUME NEW f, NEW n \in Nat, NEW k \in Int, NEW m \in Nat \ {0},
         n <= k, m <= Cardinality(Kept(f, n, k))
  PROVE  \E p \in Kept(f, n, k) : Cardinality(Kept(f, p, k)) = m
<1> DEFINE T == {p \in n .. k : m <= Cardinality(Kept(f, p, k))}
<1>1. T \subseteq Int /\ T # {} /\ \A t \in T : t <= k
  <2>1. n \in T
    OBVIOUS
  <2> QED
    BY <2>1
<1>2. PICK p \in T : \A t \in T : t <= p
  BY <1>1, Greatest
<1>3. p \in n .. k /\ m <= Cardinality(Kept(f, p, k)) /\ p \in Int
  BY <1>2
<1>4. Cardinality(Kept(f, p + 1, k)) < m
  <2>1. CASE p = k
    <3>1. Kept(f, p + 1, k) = {}
      BY <2>1, <1>3 DEF Kept
    <3> QED
      BY <3>1, FS_EmptySet
  <2>2. CASE p < k
    <3>1. p + 1 \in n .. k /\ p + 1 \notin T
      BY <1>2, <1>3, <2>2
    <3> QED
      BY <3>1, KeptFinite
  <2> QED
    BY <1>3, <2>1, <2>2
<1>5. Cardinality(Kept(f, p, k))
        = Cardinality(Kept(f, p + 1, k)) + IF f[p] = NoFd THEN 0 ELSE 1
  BY <1>3, KeptStep
<1>6. Cardinality(Kept(f, p + 1, k)) \in Nat
  BY <1>3, KeptFinite, p + 1 \in Int
<1>7. f[p] # NoFd /\ Cardinality(Kept(f, p, k)) = m
  BY <1>3, <1>4, <1>5, <1>6
<1> QED
  BY <1>3, <1>7 DEF Kept

-----------------------------------------------------------------------------
(* Where Compacted takes the descriptor of slot j from.                    *)
Source(f, k, j) ==
    IF f[j] # NoFd THEN j
    ELSE CHOOSE p \in Kept(f, Cardinality(Kept(f, 0, k)), k) :
           Cardinality(Kept(f, p, k)) = Cardinality(Holes(f, j))

(* The source of a hole is an open slot behind those that are left.        *)
LEMMA SourceOfHole ==
  ASSUME NEW f, NEW k \in Nat, NEW n, n = Cardinality(Kept(f, 0, k)),
         NEW j \in 0 .. n - 1, f[j] = NoFd
  PROVE  /\ n \in Nat /\ Source(f, k, j) \in Kept(f, n, k)
         /\ Cardinality(Kept(f, Source(f, k, j), k)) = Cardinality(Holes(f, j))
<1>1. n \in Nat /\ n <= k + 1
  BY KeptFinite
<1>2. Cardinality(Holes(f, j)) \in Nat \ {0}
  <2>1. Cardinality(Holes(f, j - 1)) < Cardinality(Holes(f, j))
    BY <1>1, HolesGrow, j - 1 \in Int, j - 1 <= j
  <2> QED
    BY <1>1, <2>1, HolesFinite, j - 1 \in Int
<1>3. n <= k
  <2> SUFFICES ASSUME n = k + 1 PROVE FALSE
    BY <1>1
  <2>1. Cardinality(Holes(f, k)) = 0
    BY <1>1, KeptAndHoles, HolesFinite
  <2>2. j \in Holes(f, k)
    BY <1>1 DEF Holes
  <2> QED
    BY <2>1, <2>2, HolesFinite, FS_EmptySet
<1>4. Cardinality(Kept(f, n, k)) = Cardinality(Holes(f, n - 1))
  <2>1. n = Cardinality(Kept(f, 0, n - 1)) + Cardinality(Kept(f, n, k))
    BY <1>1, KeptSplit
  <2>2. n = Cardinality(Kept(f, 0, n - 1)) + Cardinality(Holes(f, n - 1))
    BY <1>1, KeptAndHoles
  <2> QED
    BY <1>1, <2>1, <2>2, KeptFinite, HolesFinite, n - 1 \in Int
<1>5. Cardinality(Holes(f, j)) <= Cardinality(Holes(f, n - 1))
  BY <1>1, HolesGrow, j \in Int, n - 1 \in Int, j <= n - 1
<1>6. \E p \in Kept(f, n, k) : Cardinality(Kept(f, p, k)) = Cardinality(Holes(f, j))
  BY <1>1, <1>2, <1>3, <1>4, <1>5, FromTheEndExists
<1> QED
  BY <1>1, <1>6 DEF Source

(* Compacted moves each open descriptor of slots 0..k to one of the first  *)
(* slots, and only those in slots that are not among these move.           *)
THEOREM CompactedMoves ==
  ASSUME NEW f, NEW k \in Nat, NEW n, n = Cardinality(Kept(f, 0, k))
  PROVE  /\ n \in 0 .. k + 1
         /\ DOMAIN Compacted(f, k) = 0 .. n - 1
         /\ \A j \in 0 .. n - 1 :
              /\ Source(f, k, j) \in Kept(f, 0, k)
              /\ Compacted(f, k)[j] = f[Source(f, k, j)]
              /\ IF f[j] # NoFd THEN Source(f, k, j) = j ELSE Source(f, k, j) >= n
         /\ \A i, j \in 0 .. n - 1 :
              Source(f, k, i) = Source(f, k, j) => i = j
         /\ \A p \in Kept(f, 0, k) : \E j \in 0 .. n - 1 : Source(f, k, j) = p
<1>1. n \in 0 .. k + 1
  BY KeptFinite
<1>2. DOMAIN Compacted(f, k) = 0 .. n - 1
  BY DEF Compacted
<1>3. ASSUME NEW j \in 0 .. n - 1
      PROVE  /\ Source(f, k, j) \in Kept(f, 0, k)
             /\ Compacted(f, k)[j] = f[Source(f, k, j)]
             /\ IF f[j] # NoFd THEN Source(f, k, j) = j ELSE Source(f, k, j) >= n
  <2>1. Compacted(f, k)[j] = f[Source(f, k, j)]
    BY DEF Compacted, Source
  <2>2. CASE f[j] # NoFd
    BY <1>1, <2>1, <2>2 DEF Source, Kept
  <2>3. CASE f[j] = NoFd
    <3>1. Source(f, k, j) \in Kept(f, n, k)
      BY <2>3, SourceOfHole
    <3> QED
      BY <1>1, <2>1, <2>3, <3>1 DEF Kept
  <2> QED
    BY <2>2, <2>3
<1>4. ASSUME NEW i \in 0 .. n - 1, NEW j \in 0 .. n - 1, i < j,
             Source(f, k, i) = Source(f, k, j)
      PROVE  FALSE
  <2>1. f[i] = NoFd /\ f[j] = NoFd
    BY <1>1, <1>3, <1>4
  <2>2. Cardinality(Holes(f, i)) = Cardinality(Holes(f, j))
    BY <1>4, <2>1, SourceOfHole
  <2>3. Cardinality(Holes(f, i)) < Cardinality(Holes(f, j))
    BY <1>1, <1>4, <2>1, HolesGrow
  <2> QED
    BY <1>1, <2>2, <2>3, HolesFinite
<1>5. \A i, j \in 0 .. n - 1 : Source(f, k, i) = Source(f, k, j) => i = j
  BY <1>1, <1>4
<1>6. ASSUME NEW p \in Kept(f, 0, k)
      PROVE  \E j \in 0 .. n - 1 : Source(f, k, j) = p
  <2> DEFINE g == [j \in 0 .. n - 1 |-> Source(f, k, j)]
  <2>1. g \in Injection(0 .. n - 1, Kept(f, 0, k))
    BY <1>3, <1>5, Fun_IsInj
  <2>2. Cardinality(0 .. n - 1) = Cardinality(Kept(f, 0, k))
    BY <1>1, FS_Interval, n - 1 \in Int
  <2>3. g \in Surjection(0 .. n - 1, Kept(f, 0, k))
    BY <2>1, <2>2, KeptFinite, FS_Injection
  <2> HIDE DEF g
  <2>4. \A q \in Kept(f, 0, k) : \E j \in 0 .. n - 1 : g[j] = q
    BY <2>3 DEF Surjection
  <2> QED
    BY <2>4 DEF g
<1> QED
  BY <1>1, <1>2, <1>3, <1>5, <1>6

-----------------------------------------------------------------------------
(* One turn of the loop of compress_poll_socket_array: f is the table      *)
(* before it, g the one after; the first hole h takes what slot p holds,   *)
(* the last one that is open.                                              *)
FillsHole(f, g, h, p, k) ==
    /\ h < p /\ p <= k
    /\ f[h] = NoFd /\ \A j \in 0 .. h - 1 : f[j] # NoFd
    /\ f[p] # NoFd /\ \A j \in p + 1 .. k : f[j] = NoFd
    /\ \A j \in 0 .. k : g[j] = IF j = h THEN f[p] ELSE IF j = p THEN NoFd ELSE f[j]

LEMMA FillCounts ==
  ASSUME NEW k \in Nat, NEW h \in Nat, NEW p \in Nat, NEW f, NEW g,
         FillsHole(f, g, h, p, k), NEW n, n = Cardinality(Kept(f, 0, k))
  PROVE  /\ n \in Nat /\ h < n /\ n <= p
         /\ Cardinality(Kept(g, 0, k)) = n
         /\ \A x \in h + 1 .. p :
              Cardinality(Kept(f, x, k)) = Cardinality(Kept(g, x, k)) + 1
         /\ \A j \in h .. p - 1 :
              Cardinality(Holes(f, j)) = Cardinality(Holes(g, j)) + 1
<1> USE DEF FillsHole
<1>1. n \in Nat /\ IsFiniteSet(Kept(f, 0, k))
  BY KeptFinite
<1>2. h < n
  <2> DEFINE A == 0 .. h - 1
  <2>1. A \cup {p} \in SUBSET Kept(f, 0, k)
    BY DEF Kept
  <2>2. IsFiniteSet(A) /\ Cardinality(A) = h
    BY Segment
  <2>3. Cardinality(A \cup {p}) = h + 1
    <3>1. p \notin A
      OBVIOUS
    <3> HIDE DEF A, FillsHole
    <3> QED
      BY <2>2, <3>1, FS_AddElement
  <2>4. Cardinality(A \cup {p}) <= Cardinality(Kept(f, 0, k))
    BY <1>1, <2>1, FS_Subset
  <2> QED
    BY <1>1, <2>3, <2>4
<1>3. n <= p
  <2> DEFINE A == 0 .. p
  <2>1. Kept(f, 0, k) \in SUBSET (A \ {h})
    BY DEF Kept
  <2>2. IsFiniteSet(A) /\ Cardinality(A) = p + 1 /\ h \in A
    BY FS_Interval
  <2>3. IsFiniteSet(A \ {h}) /\ Cardinality(A \ {h}) = p
    <3> HIDE DEF A, FillsHole
    <3>1. Cardinality(A \ {h}) = Cardinality(A) - 1
      BY <2>2, FS_RemoveElement
    <3> QED
      BY <2>2, <3>1, FS_RemoveElement
  <2>4. Cardinality(Kept(f, 0, k)) <= Cardinality(A \ {h})
    BY <2>1, <2>3, FS_Subset
  <2> QED
    BY <1>1, <2>3, <2>4
<1>4. Cardinality(Kept(g, 0, k)) = n
  <2> DEFINE A == Kept(f, 0, k)
  <2>1. Kept(g, 0, k) = (A \ {p}) \cup {h} /\ p \in A /\ h \notin A
    BY DEF Kept
  <2>2. IsFiniteSet(A \ {p}) /\ Cardinality(A \ {p}) = n - 1
    BY <1>1, <2>1, FS_RemoveElement
  <2>3. Cardinality((A \ {p}) \cup {h}) = n - 1 + 1
    <3> HIDE DEF A, FillsHole
    <3> QED
      BY <2>1, <2>2, FS_AddElement
  <2>4. n - 1 + 1 = n
    BY <1>1
  <2> HIDE DEF A, FillsHole
  <2> QED
    BY <2>1, <2>3, <2>4
<1>5. ASSUME NEW x \in h + 1 .. p
      PROVE  Cardinality(Kept(f, x, k)) = Cardinality(Kept(g, x, k)) + 1
  <2>1. Kept(f, x, k) = Kept(g, x, k) \cup {p} /\ p \notin Kept(g, x, k)
    BY DEF Kept
  <2>2. IsFiniteSet(Kept(g, x, k))
    BY KeptFinite, x \in Int
  <2> QED
    BY <2>1, <2>2, FS_AddElement
<1>6. ASSUME NEW j \in h .. p - 1
      PROVE  Cardinality(Holes(f, j)) = Cardinality(Holes(g, j)) + 1
  <2>1. Holes(f, j) = Holes(g, j) \cup {h} /\ h \notin Holes(g, j)
    BY DEF Holes
  <2>2. IsFiniteSet(Holes(g, j))
    BY HolesFinite, j \in Int
  <2> QED
    BY <2>1, <2>2, FS_AddElement
<1> QED
  BY <1>1, <1>2, <1>3, <1>4, <1>5, <1>6

LEMMA SameCountSameSlot ==
  ASSUME NEW f, NEW k \in Nat, NEW p \in Kept(f, 0, k), NEW q \in Kept(f, 0, k),
         Cardinality(Kept(f, p, k)) = Cardinality(Kept(f, q, k))
  PROVE  p = q
<1>1. /\ p \in Int /\ q \in Int /\ p <= k /\ q <= k
      /\ f[p] # NoFd /\ f[q] # NoFd
  BY DEF Kept
<1>2. Cardinality(Kept(f, p, k)) \in Nat
  BY <1>1, KeptFinite
<1>3. ~ (p < q)
  BY <1>1, <1>2, FromTheEndUnique
<1>4. ~ (q < p)
  BY <1>1, <1>2, FromTheEndUnique
<1> QED
  BY <1>1, <1>3, <1>4

(* Such a turn leaves the result that is promised as it was.               *)
THEOREM FillKeepsResult ==
  ASSUME NEW k \in Nat, NEW h \in Nat, NEW p \in Nat, NEW f, NEW g,
         FillsHole(f, g, h, p, k)
  PROVE  Compacted(g, k) = Compacted(f, k)
<1> DEFINE n == Cardinality(Kept(f, 0, k))
<1>1. /\ n \in Nat /\ h < n /\ n <= p /\ n = Cardinality(Kept(g, 0, k))
      /\ \A x \in h + 1 .. p :
           Cardinality(Kept(f, x, k)) = Cardinality(Kept(g, x, k)) + 1
      /\ \A j \in h .. p - 1 :
           Cardinality(Holes(f, j)) = Cardinality(Holes(g, j)) + 1
  BY FillCounts
<1> HIDE DEF n
<1>2. /\ DOMAIN Compacted(f, k) = 0 .. n - 1 /\ DOMAIN Compacted(g, k) = 0 .. n - 1
      /\ \A j \in 0 .. n - 1 :
           /\ Source(f, k, j) \in Kept(f, 0, k) /\ Source(g, k, j) \in Kept(g, 0, k)
           /\ Compacted(f, k)[j] = f[Source(f, k, j)]
           /\ Compacted(g, k)[j] = g[Source(g, k, j)]
  BY <1>1, CompactedMoves DEF n
<1>3. p \in Kept(f, 0, k) /\ Cardinality(Kept(f, p, k)) = 1
  <2>1. Kept(f, p, k) = {p}
    BY DEF Kept, FillsHole
  <2>2. Cardinality(Kept(f, p, k)) = 1
    BY <2>1, FS_Singleton
  <2> QED
    BY <2>2 DEF Kept, FillsHole
<1>4. ASSUME NEW j \in 0 .. n - 1
      PROVE  g[Source(g, k, j)] = f[Source(f, k, j)]
  <2>1. CASE j = h
    <3>1. Holes(f, h) = {h} /\ f[j] = NoFd
      BY <2>1 DEF Holes, FillsHole
    <3>2. Cardinality(Kept(f, Source(f, k, j), k)) = Cardinality(Holes(f, j))
      BY <3>1, SourceOfHole DEF n
    <3>3. Cardinality(Kept(f, Source(f, k, j), k)) = 1
      BY <2>1, <3>1, <3>2, FS_Singleton
    <3>4. Source(f, k, j) = p
      BY <1>2, <1>3, <3>3, SameCountSameSlot
    <3>5. g[j] = f[p] /\ g[j] # NoFd
      BY <1>1, <2>1 DEF FillsHole
    <3>6. Source(g, k, j) = j
      BY <3>5 DEF Source
    <3> QED
      BY <3>4, <3>5, <3>6
  <2>2. CASE j # h /\ f[j] # NoFd
    <3>1. g[j] = f[j]
      BY <1>1, <2>2 DEF FillsHole
    <3> QED
      BY <2>2, <3>1 DEF Source
  <2>3. CASE j # h /\ f[j] = NoFd
    <3>1. g[j] = NoFd /\ j \in h .. p - 1
      BY <1>1, <2>3 DEF FillsHole
    <3> DEFINE q == Source(f, k, j)
               r == Source(g, k, j)
    <3>2. /\ q \in Kept(f, n, k)
          /\ Cardinality(Kept(f, q, k)) = Cardinality(Holes(f, j))
      BY <2>3, SourceOfHole DEF n
    <3>3. /\ r \in Kept(g, n, k)
          /\ Cardinality(Kept(g, r, k)) = Cardinality(Holes(g, j))
      BY <1>1, <3>1, SourceOfHole
    <3> HIDE DEF q, r
    <3>4. r \in h + 1 .. p /\ r # p /\ r \in 0 .. k
      BY <1>1, <3>3 DEF Kept, FillsHole
    <3>5. f[r] = g[r] /\ r \in Kept(f, 0, k)
      BY <1>1, <3>3, <3>4 DEF Kept, FillsHole
    <3>6. Cardinality(Kept(f, r, k)) = Cardinality(Kept(f, q, k))
      BY <1>1, <3>1, <3>2, <3>3, <3>4
    <3>7. q \in Kept(f, 0, k)
      BY <1>1, <3>2 DEF Kept
    <3>8. q = r
      BY <3>5, <3>6, <3>7, SameCountSameSlot
    <3> QED
      BY <3>5, <3>8 DEF q, r
  <2> QED
    BY <2>1, <2>2, <2>3
<1>5. \A j \in 0 .. n - 1 : Compacted(g, k)[j] = Compacted(f, k)[j]
  BY <1>2, <1>4
<1>6. /\ Compacted(f, k) = [j \in 0 .. n - 1 |-> Compacted(f, k)[j]]
      /\ Compacted(g, k) = [j \in 0 .. n - 1 |-> Compacted(g, k)[j]]
  BY <1>1 DEF Compacted, n
<1> QED
  BY <1>5, <1>6

(* A table without holes up to p, and with nothing behind, is its result.  *)
LEMMA CompactedWhole ==
  ASSUME NEW f, NEW k \in Nat, NEW p \in 0 .. k,
         \A j \in 0 .. p : f[j] # NoFd, \A j \in p + 1 .. k : f[j] = NoFd
  PROVE  Compacted(f, k) = [j \in 0 .. p |-> f[j]]
<1>1. Kept(f, 0, k) = 0 .. p
  BY DEF Kept
<1>2. Cardinality(Kept(f, 0, k)) - 1 = p
  BY <1>1, FS_Interval
<1> QED
  BY <1>2 DEF Compacted

-----------------------------------------------------------------------------
(* Queues                                                                  *)

At(q, S)      == {k \in DOMAIN q : q[k] \in S}
Count(q, S)   == Cardinality(At(q, S))
Each(q, S, X) == \A k \in At(q, S) : q[k] \in X

LEMMA CountType ==
  ASSUME NEW T, NEW q \in Seq(T), NEW S
  PROVE  IsFiniteSet(At(q, S)) /\ Count(q, S) \in Nat
<1>1. DOMAIN q = 1 .. Len(q) /\ Len(q) \in Nat
  BY LenProperties
<1>2. IsFiniteSet(1 .. Len(q)) /\ At(q, S) \in SUBSET (1 .. Len(q))
  BY <1>1, FS_Interval DEF At
<1>3. IsFiniteSet(At(q, S))
  BY <1>2, FS_Subset
<1> QED
  BY <1>3, FS_CardinalityType DEF Count

LEMMA CountEmpty ==
  ASSUME NEW S
  PROVE  Count(<<>>, S) = 0 /\ \A X : Each(<<>>, S, X)
<1>1. At(<<>>, S) = {}
  BY DEF At
<1> QED
  BY <1>1, FS_EmptySet DEF Count, Each

LEMMA CountNone ==
  ASSUME NEW T, NEW q \in Seq(T), NEW S
  PROVE  /\ Count(q, S) = 0 <=> At(q, S) = {}
         /\ Count(q, S) = 0 => \A X : Each(q, S, X)
<1>1. IsFiniteSet(At(q, S))
  BY CountType
<1>2. Count(q, S) = 0 <=> At(q, S) = {}
  BY <1>1, FS_EmptySet DEF Count
<1> QED
  BY <1>2 DEF Each

(* Sending                                                                 *)
LEMMA CountAppend ==
  ASSUME NEW T, NEW q \in Seq(T), NEW m \in T, NEW S
  PROVE  /\ Append(q, m) \in Seq(T)
         /\ Count(Append(q, m), S) = Count(q, S) + IF m \in S THEN 1 ELSE 0
         /\ \A X : Each(Append(q, m), S, X) <=> Each(q, S, X) /\ (m \in S => m \in X)
<1> DEFINE r == Append(q, m)
           n == Len(q) + 1
<1>1. /\ r \in Seq(T) /\ DOMAIN q = 1 .. Len(q) /\ DOMAIN r = 1 .. n
      /\ Len(q) \in Nat /\ r[n] = m /\ \A k \in 1 .. Len(q) : r[k] = q[k]
  BY AppendProperties, LenProperties
<1> HIDE DEF r
<1>2. At(r, S) = At(q, S) \cup (IF m \in S THEN {n} ELSE {}) /\ n \notin At(q, S)
  BY <1>1 DEF At
<1>3. Count(r, S) = Count(q, S) + IF m \in S THEN 1 ELSE 0
  <2>1. CASE m \in S
    BY <1>2, <2>1, CountType, FS_AddElement DEF Count
  <2>2. CASE m \notin S
    <3>1. At(r, S) = At(q, S)
      BY <1>2, <2>2
    <3> QED
      BY <2>2, <3>1, CountType DEF Count
  <2> QED
    BY <2>1, <2>2
<1>4. ASSUME NEW X PROVE Each(r, S, X) <=> Each(q, S, X) /\ (m \in S => m \in X)
  BY <1>1, <1>2 DEF Each, At
<1> QED
  BY <1>1, <1>3, <1>4 DEF r

(* Reading                                                                 *)
LEMMA CountTail ==
  ASSUME NEW T, NEW q \in Seq(T), q # <<>>, NEW S
  PROVE  /\ Head(q) \in T /\ Tail(q) \in Seq(T)
         /\ Count(q, S) = Count(Tail(q), S) + IF Head(q) \in S THEN 1 ELSE 0
         /\ \A X : Each(q, S, X)
                     => Each(Tail(q), S, X) /\ (Head(q) \in S => Head(q) \in X)
<1> DEFINE r == Tail(q)
           B == {k + 1 : k \in At(r, S)}
<1>1. /\ Head(q) \in T /\ r \in Seq(T) /\ Len(q) \in Nat \ {0}
      /\ DOMAIN q = 1 .. Len(q) /\ DOMAIN r = 1 .. Len(q) - 1
      /\ \A k \in 1 .. Len(q) - 1 : r[k] = q[k + 1]
      /\ Head(q) = q[1]
  BY HeadTailProperties, LenProperties, EmptySeq
<1> HIDE DEF r
<1>2. At(q, S) = B \cup (IF Head(q) \in S THEN {1} ELSE {}) /\ 1 \notin B
  <2>1. ASSUME NEW k \in At(q, S), k # 1 PROVE k \in B
    <3>1. k - 1 \in At(r, S)
      BY <1>1, <2>1 DEF At
    <3> QED
      BY <1>1, <2>1, <3>1 DEF At
  <2>2. ASSUME NEW k \in At(r, S) PROVE k + 1 \in At(q, S) /\ k + 1 # 1
    BY <1>1, <2>2 DEF At
  <2>3. 1 \in At(q, S) <=> Head(q) \in S
    BY <1>1 DEF At
  <2> QED
    BY <2>1, <2>2, <2>3
<1>3. IsFiniteSet(B) /\ Cardinality(B) = Count(r, S)
  <2> DEFINE g == [k \in At(r, S) |-> k + 1]
  <2>1. At(r, S) \subseteq Int
    BY <1>1 DEF At
  <2>2. g \in Bijection(At(r, S), B)
    <3>1. g \in [At(r, S) -> B]
      OBVIOUS
    <3>2. \A a, b \in At(r, S) : g[a] = g[b] => a = b
      BY <2>1
    <3>3. \A t \in B : \E s \in At(r, S) : g[s] = t
      OBVIOUS
    <3> QED
      BY <3>1, <3>2, <3>3, Fun_IsBij
  <2>3. ExistsBijection(At(r, S), B)
    BY <2>2, Fun_ExistsBij
  <2> QED
    BY <1>1, <2>3, CountType, FS_Bijection DEF Count
<1>4. Count(q, S) = Count(r, S) + IF Head(q) \in S THEN 1 ELSE 0
  <2> HIDE DEF B
  <2>1. CASE Head(q) \in S
    <3>1. At(q, S) = B \cup {1} /\ 1 \notin B
      BY <1>2, <2>1
    <3> QED
      BY <1>3, <2>1, <3>1, FS_AddElement DEF Count
  <2>2. CASE Head(q) \notin S
    <3>1. At(q, S) = B
      BY <1>2, <2>2
    <3>2. Count(r, S) \in Nat
      BY <1>1, CountType
    <3> QED
      BY <1>3, <2>2, <3>1, <3>2 DEF Count
  <2> QED
    BY <2>1, <2>2
<1>5. ASSUME NEW X, Each(q, S, X)
      PROVE  Each(r, S, X) /\ (Head(q) \in S => Head(q) \in X)
  BY <1>1, <1>5 DEF Each, At
<1> QED
  BY <1>1, <1>4, <1>5 DEF r

(* Answering with one message, or two                                      *)
LEMMA ConcatOne ==
  ASSUME NEW T, NEW q \in Seq(T), NEW a \in T
  PROVE  q \o <<a>> = Append(q, a)
BY AppendIsConcat

LEMMA ConcatTwo ==
  ASSUME NEW T, NEW q \in Seq(T), NEW a \in T, NEW b \in T
  PROVE  q \o <<a, b>> = Append(Append(q, a), b)
<1>1. Append(q, a) \in Seq(T) /\ <<a>> \in Seq(T) /\ <<b>> \in Seq(T)
  BY AppendProperties
<1>2. Append(Append(q, a), b) = (q \o <<a>>) \o <<b>>
  BY <1>1, AppendIsConcat
<1>3. (q \o <<a>>) \o <<b>> = q \o (<<a>> \o <<b>>)
  BY <1>1, ConcatAssociative
<1>4. <<a>> \o <<b>> = <<a, b>>
  <2>1. /\ <<a>> \o <<b>> \in Seq(T) /\ Len(<<a>> \o <<b>>) = 2
        /\ (<<a>> \o <<b>>)[1] = a /\ (<<a>> \o <<b>>)[2] = b
    BY <1>1, ConcatProperties
  <2>2. <<a, b>> \in Seq(T) /\ Len(<<a, b>>) = 2
    OBVIOUS
  <2>3. \A k \in 1 .. 2 : (<<a>> \o <<b>>)[k] = <<a, b>>[k]
    BY <2>1
  <2> DEFINE s == <<a>> \o <<b>>
             t == <<a, b>>
  <2> HIDE DEF s, t
  <2>4. s \in Seq(T) /\ t \in Seq(T) /\ Len(s) = Len(t) /\ \A k \in 1 .. Len(s) : s[k] = t[k]
    BY <2>1, <2>2, <2>3 DEF s, t
  <2>5. s = t
    BY <2>4, SeqEqual
  <2> QED
    BY <2>5 DEF s, t
<1> QED
  BY <1>2, <1>3, <1>4

(* A queue tells sets apart by what it holds only.                         *)
LEMMA CountSame ==
  ASSUME NEW q, NEW R, NEW S, \A k \in DOMAIN q : q[k] \in R <=> q[k] \in S
  PROVE  Count(q, R) = Count(q, S)
<1>1. At(q, R) = At(q, S)
  BY DEF At
<1> QED
  BY <1>1 DEF Count

LEMMA CountMore ==
  ASSUME NEW T, NEW q \in Seq(T), NEW R, NEW S, R \subseteq S
  PROVE  Count(q, R) <= Count(q, S)
<1>1. IsFiniteSet(At(q, S))
  BY CountType
<1>2. At(q, R) \in SUBSET At(q, S)
  BY DEF At
<1> QED
  BY <1>1, <1>2, FS_Subset DEF Count

LEMMA CountOutside ==
  ASSUME NEW T, NEW q \in Seq(T), NEW S, T \cap S = {}
  PROVE  Count(q, S) = 0
<1>1. \A k \in DOMAIN q : q[k] \in T
  BY ElementOfSeq, LenProperties
<1>2. At(q, S) = {}
  BY <1>1 DEF At
<1> QED
  BY <1>2, CountNone

(* Answering with a sequence                                               *)
LEMMA CountConcat ==
  ASSUME NEW T, NEW q \in Seq(T), NEW r \in Seq(T), NEW S
  PROVE  Count(q \o r, S) = Count(q, S) + Count(r, S)
<1> DEFINE s == q \o r
           n == Len(q)
           B == {n + k : k \in At(r, S)}
<1>1. /\ s \in Seq(T) /\ n \in Nat /\ Len(r) \in Nat /\ Len(s) = n + Len(r)
      /\ DOMAIN q = 1 .. n /\ DOMAIN r = 1 .. Len(r) /\ DOMAIN s = 1 .. n + Len(r)
      /\ \A k \in 1 .. n + Len(r) : s[k] = IF k <= n THEN q[k] ELSE r[k - n]
  BY ConcatProperties, LenProperties
<1> HIDE DEF s, n
<1>2. At(s, S) = At(q, S) \cup B
  <2>1. ASSUME NEW k \in At(s, S), k > n PROVE k \in B
    <3>1. k \in 1 .. n + Len(r) /\ s[k] \in S
      BY <1>1 DEF At
    <3>2. k - n \in At(r, S)
      BY <1>1, <2>1, <3>1 DEF At
    <3>3. k = n + (k - n)
      BY <1>1, <3>1
    <3> QED
      BY <3>2, <3>3
  <2>2. ASSUME NEW k \in At(s, S), k <= n PROVE k \in At(q, S)
    BY <1>1, <2>2 DEF At
  <2>3. ASSUME NEW k \in At(q, S) PROVE k \in At(s, S)
    <3>1. k \in 1 .. n + Len(r) /\ k <= n /\ q[k] \in S
      BY <1>1 DEF At
    <3> QED
      BY <1>1, <3>1 DEF At
  <2>4. ASSUME NEW k \in At(r, S) PROVE n + k \in At(s, S)
    <3>1. k \in 1 .. Len(r) /\ r[k] \in S
      BY <1>1 DEF At
    <3>2. n + k \in 1 .. n + Len(r) /\ ~(n + k <= n) /\ (n + k) - n = k
      BY <1>1, <3>1
    <3> QED
      BY <1>1, <3>1, <3>2 DEF At
  <2>5. \A k \in At(s, S) : k > n \/ k <= n
    BY <1>1 DEF At
  <2> QED
    BY <2>1, <2>2, <2>3, <2>4, <2>5
<1>3. At(q, S) \cap B = {}
  BY <1>1 DEF At
<1>4. IsFiniteSet(B) /\ Cardinality(B) = Count(r, S)
  <2> DEFINE g == [k \in At(r, S) |-> n + k]
  <2>1. At(r, S) \subseteq Int /\ n \in Int
    BY <1>1 DEF At
  <2>2. g \in Bijection(At(r, S), B)
    <3>1. g \in [At(r, S) -> B]
      OBVIOUS
    <3>2. \A a, b \in At(r, S) : g[a] = g[b] => a = b
      BY <2>1
    <3>3. \A t \in B : \E k \in At(r, S) : g[k] = t
      OBVIOUS
    <3> QED
      BY <3>1, <3>2, <3>3, Fun_IsBij
  <2>3. ExistsBijection(At(r, S), B)
    BY <2>2, Fun_ExistsBij
  <2> QED
    BY <2>3, CountType, FS_Bijection DEF Count
<1>5. Cardinality(At(q, S) \cup B) = Cardinality(At(q, S)) + Cardinality(B) - Cardinality({})
  <2> HIDE DEF B
  <2> QED
    BY <1>3, <1>4, CountType, FS_Union
<1>6. Cardinality({}) = 0 /\ Count(q, S) \in Nat /\ Count(r, S) \in Nat
  BY CountType, FS_EmptySet
<1>7. Count(s, S) = Count(q, S) + Count(r, S)
  <2> HIDE DEF B
  <2> QED
    BY <1>2, <1>4, <1>5, <1>6 DEF Count
<1> QED
  BY <1>7 DEF s

(* The lowest free one of n slots, and one more that is taken.             *)
LEMMA LowestSlot ==
  ASSUME NEW n \in Nat, NEW F \in SUBSET (0 .. n - 1), NEW i \in F, \A j \in F : i <= j
  PROVE  i \in Nat /\ i <= Cardinality(0 .. n - 1 \ F)
<1> DEFINE T == 0 .. n - 1 \ F
<1>1. i \in Nat /\ 0 .. i - 1 \in SUBSET T /\ T \in SUBSET (0 .. n - 1)
  OBVIOUS
<1>2. IsFiniteSet(T)
  BY <1>1, Segment, FS_Subset
<1>3. Cardinality(0 .. i - 1) <= Cardinality(T) /\ Cardinality(0 .. i - 1) = i
  BY <1>1, <1>2, FS_Subset, Segment
<1> QED
  BY <1>1, <1>3

LEMMA SlotsFinite ==
  ASSUME NEW n \in Nat, NEW F
  PROVE  IsFiniteSet(0 .. n - 1 \ F)
<1>1. 0 .. n - 1 \ F \in SUBSET (0 .. n - 1)
  OBVIOUS
<1> QED
  BY <1>1, Segment, FS_Subset

LEMMA OneMoreTaken ==
  ASSUME NEW A, IsFiniteSet(A), NEW x, NEW B \in SUBSET (A \cup {x}),
         NEW n \in Nat, Cardinality(A) <= n
  PROVE  Cardinality(B) <= n + 1
<1>1. Cardinality(A) \in Nat
  BY FS_CardinalityType
<1>2. IsFiniteSet(A \cup {x}) /\ Cardinality(A \cup {x}) <= Cardinality(A) + 1
  BY <1>1, FS_AddElement
<1>3. Cardinality(B) <= Cardinality(A \cup {x}) /\ IsFiniteSet(B)
  BY <1>2, FS_Subset
<1>4. Cardinality(B) \in Nat /\ Cardinality(A \cup {x}) \in Nat
  BY <1>2, <1>3, FS_CardinalityType
<1> QED
  BY <1>1, <1>2, <1>3, <1>4

LEMMA CountOne ==
  ASSUME NEW a, NEW S
  PROVE  Count(<<a>>, S) = IF a \in S THEN 1 ELSE 0
<1>1. DOMAIN <<a>> = {1} /\ <<a>>[1] = a
  OBVIOUS
<1>2. At(<<a>>, S) = IF a \in S THEN {1} ELSE {}
  BY <1>1 DEF At
<1> QED
  BY <1>2, FS_EmptySet, FS_Singleton DEF Count
=============================================================================
