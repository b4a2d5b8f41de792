----------------------------- MODULE ChatProofs -----------------------------
(***************************************************************************)
(* The system implements Chat: whoever leaves, everybody shows the texts   *)
(* in one order; as long as nobody leaves, each of them once and without a *)
(* gap.                                                                    *)
(***************************************************************************)
EXTENDS NyanChatProofs

(* What the messages of a queue q in S are marked with, in the sequence    *)
(* at, which goes along with q.                                            *)
Marks(q, at, S)    == {at[k] : k \in At(q, S)}
Rising(q, at, S)   == \A j, k \in At(q, S) : j < k => at[j] <= at[k]
Strictly(q, at, S) == \A j, k \in At(q, S) : j < k => at[j] < at[k]

LEMMA TailAt ==
  ASSUME NEW T, NEW q \in Seq(T), q # <<>>
  PROVE  /\ Len(q) \in Nat /\ Len(q) > 0 /\ DOMAIN q = 1 .. Len(q) /\ Head(q) = q[1]
         /\ Tail(q) \in Seq(T) /\ Len(Tail(q)) = Len(q) - 1
         /\ DOMAIN Tail(q) = 1 .. Len(q) - 1
         /\ \A k \in 1 .. Len(q) - 1 : Tail(q)[k] = q[k + 1]
<1>1. /\ Tail(q) \in Seq(T) /\ Len(Tail(q)) = Len(q) - 1
      /\ \A k \in 1 .. Len(q) - 1 : Tail(q)[k] = q[k + 1]
  BY HeadTailProperties
<1>2. Len(q) \in Nat /\ DOMAIN q = 1 .. Len(q) /\ DOMAIN Tail(q) = 1 .. Len(q) - 1
  BY <1>1, LenProperties
<1>3. Len(q) > 0
  BY <1>2, EmptySeq
<1>4. Head(q) = q[1]
  OBVIOUS
<1> QED
  BY <1>1, <1>2, <1>3, <1>4

LEMMA MarksTail ==
  ASSUME NEW T, NEW q \in Seq(T), q # <<>>, NEW at \in Seq(Nat), Len(at) = Len(q), NEW S
  PROVE  /\ Tail(at) \in Seq(Nat) /\ Len(Tail(at)) = Len(Tail(q)) /\ Head(at) \in Nat
         /\ Marks(q, at, S) = Marks(Tail(q), Tail(at), S)
                                \cup IF Head(q) \in S THEN {Head(at)} ELSE {}
         /\ Rising(q, at, S) =>
              /\ Rising(Tail(q), Tail(at), S)
              /\ Head(q) \in S => \A x \in Marks(Tail(q), Tail(at), S) : Head(at) <= x
         /\ Strictly(q, at, S) =>
              /\ Strictly(Tail(q), Tail(at), S)
              /\ Head(q) \in S => \A x \in Marks(Tail(q), Tail(at), S) : Head(at) < x
<1> DEFINE n == Len(q)
           r == Tail(q)
           w == Tail(at)
<1>1. /\ n \in Nat /\ n > 0 /\ DOMAIN q = 1 .. n /\ Head(q) = q[1]
      /\ Len(r) = n - 1 /\ DOMAIN r = 1 .. n - 1 /\ \A k \in 1 .. n - 1 : r[k] = q[k + 1]
  BY TailAt
<1>2. at # <<>> /\ Len(at) = n
  BY <1>1, EmptySeq
<1>3. /\ DOMAIN at = 1 .. n /\ Head(at) = at[1] /\ w \in Seq(Nat)
      /\ Len(w) = n - 1 /\ DOMAIN w = 1 .. n - 1 /\ \A k \in 1 .. n - 1 : w[k] = at[k + 1]
  BY <1>2, TailAt
<1>4. \A k \in 1 .. n : at[k] \in Nat
  BY <1>2, <1>3, ElementOfSeq
<1>5. 1 \in 1 .. n /\ Head(at) \in Nat
  BY <1>1, <1>3, <1>4
<1> HIDE DEF n, r, w
<1>6. ASSUME NEW k \in At(r, S)
      PROVE  k \in 1 .. n - 1 /\ k + 1 \in At(q, S) /\ w[k] = at[k + 1] /\ 1 < k + 1
  BY <1>1, <1>3, <1>6 DEF At
<1>7. ASSUME NEW k \in At(q, S), k # 1
      PROVE  k - 1 \in At(r, S) /\ at[k] = w[k - 1]
  <2>1. k \in 1 .. n /\ q[k] \in S
    BY <1>1 DEF At
  <2>2. k - 1 \in 1 .. n - 1 /\ (k - 1) + 1 = k
    BY <1>1, <1>7, <2>1
  <2>3. r[k - 1] = q[k] /\ w[k - 1] = at[k]
    BY <1>1, <1>3, <2>2
  <2> QED
    BY <1>1, <2>1, <2>2, <2>3 DEF At
<1>8. 1 \in At(q, S) <=> Head(q) \in S
  BY <1>1, <1>5 DEF At
<1>9. Marks(q, at, S) = Marks(r, w, S) \cup IF Head(q) \in S THEN {Head(at)} ELSE {}
  <2>1. ASSUME NEW x \in Marks(r, w, S) PROVE x \in Marks(q, at, S)
    <3>1. PICK k \in At(r, S) : x = w[k]
      BY DEF Marks
    <3> QED
      BY <1>6, <3>1 DEF Marks
  <2>2. Head(q) \in S => Head(at) \in Marks(q, at, S)
    BY <1>3, <1>8 DEF Marks
  <2>3. ASSUME NEW x \in Marks(q, at, S)
        PROVE  x \in Marks(r, w, S) \cup IF Head(q) \in S THEN {Head(at)} ELSE {}
    <3>1. PICK k \in At(q, S) : x = at[k]
      BY DEF Marks
    <3>2. CASE k = 1
      BY <1>3, <1>8, <3>1, <3>2
    <3>3. CASE k # 1
      BY <1>7, <3>1, <3>3 DEF Marks
    <3> QED
      BY <3>2, <3>3
  <2> QED
    BY <2>1, <2>2, <2>3
<1>10. ASSUME Rising(q, at, S)
       PROVE  Rising(r, w, S) /\ (Head(q) \in S => \A x \in Marks(r, w, S) : Head(at) <= x)
  <2>1. ASSUME NEW j \in At(r, S), NEW k \in At(r, S), j < k PROVE w[j] <= w[k]
    <3>1. j + 1 \in At(q, S) /\ k + 1 \in At(q, S) /\ w[j] = at[j + 1] /\ w[k] = at[k + 1]
      BY <1>6
    <3>2. j + 1 < k + 1
      BY <1>6, <2>1
    <3> QED
      BY <1>10, <3>1, <3>2 DEF Rising
  <2>2. ASSUME Head(q) \in S, NEW x \in Marks(r, w, S) PROVE Head(at) <= x
    <3>1. PICK k \in At(r, S) : x = w[k]
      BY DEF Marks
    <3>2. k + 1 \in At(q, S) /\ x = at[k + 1] /\ 1 < k + 1
      BY <1>6, <3>1
    <3> QED
      BY <1>3, <1>8, <1>10, <2>2, <3>2 DEF Rising
  <2> QED
    BY <2>1, <2>2 DEF Rising
<1>11. ASSUME Strictly(q, at, S)
       PROVE  Strictly(r, w, S) /\ (Head(q) \in S => \A x \in Marks(r, w, S) : Head(at) < x)
  <2>1. ASSUME NEW j \in At(r, S), NEW k \in At(r, S), j < k PROVE w[j] < w[k]
    <3>1. j + 1 \in At(q, S) /\ k + 1 \in At(q, S) /\ w[j] = at[j + 1] /\ w[k] = at[k + 1]
      BY <1>6
    <3>2. j + 1 < k + 1
      BY <1>6, <2>1
    <3> QED
      BY <1>11, <3>1, <3>2 DEF Strictly
  <2>2. ASSUME Head(q) \in S, NEW x \in Marks(r, w, S) PROVE Head(at) < x
    <3>1. PICK k \in At(r, S) : x = w[k]
      BY DEF Marks
    <3>2. k + 1 \in At(q, S) /\ x = at[k + 1] /\ 1 < k + 1
      BY <1>6, <3>1
    <3> QED
      BY <1>3, <1>8, <1>11, <2>2, <3>2 DEF Strictly
  <2> QED
    BY <2>1, <2>2 DEF Strictly
<1> QED
  BY <1>1, <1>3, <1>5, <1>9, <1>10, <1>11 DEF r, w

LEMMA MarksAppend ==
  ASSUME NEW T, NEW q \in Seq(T), NEW at \in Seq(Nat), Len(at) = Len(q), NEW S,
         NEW m \in T, NEW x \in Nat
  PROVE  /\ Append(at, x) \in Seq(Nat) /\ Len(Append(at, x)) = Len(Append(q, m))
         /\ m \in S => Marks(Append(q, m), Append(at, x), S) = Marks(q, at, S) \cup {x}
         /\ m \notin S => Marks(Append(q, m), Append(at, x), S) = Marks(q, at, S)
         /\ Rising(q, at, S) /\ (m \in S => \A y \in Marks(q, at, S) : y <= x)
              => Rising(Append(q, m), Append(at, x), S)
         /\ Strictly(q, at, S) /\ (m \in S => \A y \in Marks(q, at, S) : y < x)
              => Strictly(Append(q, m), Append(at, x), S)
<1> DEFINE n == Len(q)
           r == Append(q, m)
           w == Append(at, x)
<1>1. n \in Nat /\ DOMAIN q = 1 .. n /\ DOMAIN at = 1 .. n
  BY LenProperties
<1>2. /\ r \in Seq(T) /\ Len(r) = n + 1 /\ \A k \in 1 .. n : r[k] = q[k]
      /\ r[n + 1] = m
  BY AppendProperties
<1>3. /\ w \in Seq(Nat) /\ Len(w) = n + 1 /\ \A k \in 1 .. n : w[k] = at[k]
      /\ w[n + 1] = x
  BY AppendProperties
<1>4. DOMAIN r = 1 .. n + 1 /\ DOMAIN w = 1 .. n + 1
  BY <1>2, <1>3, LenProperties
<1> HIDE DEF n, r, w
<1>5. ASSUME NEW k \in At(q, S)
      PROVE  k \in At(r, S) /\ w[k] = at[k] /\ k \in Nat /\ k <= n
  BY <1>1, <1>2, <1>3, <1>4 DEF At
<1>6. ASSUME NEW k \in At(r, S)
      PROVE  \/ k \in At(q, S) /\ w[k] = at[k] /\ k \in Nat /\ k <= n
             \/ k = n + 1 /\ w[k] = x /\ m \in S
  <2>1. k \in 1 .. n + 1 /\ r[k] \in S
    BY <1>4 DEF At
  <2>2. CASE k \in 1 .. n
    BY <1>1, <1>2, <1>3, <2>1, <2>2 DEF At
  <2>3. CASE k = n + 1
    BY <1>2, <1>3, <2>1, <2>3
  <2> QED
    BY <1>1, <2>1, <2>2, <2>3
<1>7. Marks(r, w, S) = Marks(q, at, S) \cup IF m \in S THEN {x} ELSE {}
  <2>1. ASSUME NEW y \in Marks(q, at, S) PROVE y \in Marks(r, w, S)
    <3>1. PICK k \in At(q, S) : y = at[k]
      BY DEF Marks
    <3> QED
      BY <1>5, <3>1 DEF Marks
  <2>2. ASSUME m \in S PROVE x \in Marks(r, w, S)
    <3>1. n + 1 \in At(r, S)
      BY <1>1, <1>2, <1>4, <2>2 DEF At
    <3> QED
      BY <1>3, <3>1 DEF Marks
  <2>3. ASSUME NEW y \in Marks(r, w, S)
        PROVE  y \in Marks(q, at, S) \cup IF m \in S THEN {x} ELSE {}
    <3>1. PICK k \in At(r, S) : y = w[k]
      BY DEF Marks
    <3>2. CASE k \in At(q, S) /\ w[k] = at[k]
      BY <3>1, <3>2 DEF Marks
    <3>3. CASE w[k] = x /\ m \in S
      BY <3>1, <3>3
    <3> QED
      BY <1>6, <3>2, <3>3
  <2> QED
    BY <2>1, <2>2, <2>3
<1>8. \A k \in At(q, S) : at[k] \in Marks(q, at, S)
  BY DEF Marks
<1>9. ASSUME Rising(q, at, S), m \in S => \A y \in Marks(q, at, S) : y <= x
      PROVE  Rising(r, w, S)
  <2> SUFFICES ASSUME NEW j \in At(r, S), NEW k \in At(r, S), j < k PROVE w[j] <= w[k]
    BY DEF Rising
  <2>1. j \in At(q, S) /\ w[j] = at[j]
    BY <1>1, <1>6
  <2> QED
    BY <1>6, <1>8, <1>9, <2>1 DEF Rising
<1>10. ASSUME Strictly(q, at, S), m \in S => \A y \in Marks(q, at, S) : y < x
       PROVE  Strictly(r, w, S)
  <2> SUFFICES ASSUME NEW j \in At(r, S), NEW k \in At(r, S), j < k PROVE w[j] < w[k]
    BY DEF Strictly
  <2>1. j \in At(q, S) /\ w[j] = at[j]
    BY <1>1, <1>6
  <2> QED
    BY <1>6, <1>8, <1>10, <2>1 DEF Strictly
<1> QED
  BY <1>2, <1>3, <1>7, <1>9, <1>10 DEF r, w

(* w are the marks of q and then of r, where the ones in S are at n.       *)
Labelled(q, at, r, w, S, n) ==
    /\ w \in Seq(Nat) /\ Len(w) = Len(q \o r)
    /\ \A k \in DOMAIN q : w[k] = at[k]
    /\ \A k \in At(r, S) : w[Len(q) + k] = n

LEMMA MarksConcat ==
  ASSUME NEW T, NEW q \in Seq(T), NEW r \in Seq(T), NEW at \in Seq(Nat), Len(at) = Len(q),
         NEW S, NEW n \in Nat, NEW w, Labelled(q, at, r, w, S, n)
  PROVE  /\ Marks(q, at, S) \subseteq Marks(q \o r, w, S)
         /\ Marks(q \o r, w, S) \subseteq Marks(q, at, S) \cup {n}
         /\ \A k \in At(r, S) : n \in Marks(q \o r, w, S)
         /\ At(r, S) = {} => Marks(q \o r, w, S) \subseteq Marks(q, at, S)
         /\ Rising(q, at, S) /\ (\A x \in Marks(q, at, S) : x <= n) => Rising(q \o r, w, S)
         /\ /\ Strictly(q, at, S) /\ \A x \in Marks(q, at, S) : x < n
            /\ \A j, k \in At(r, S) : j = k
            => Strictly(q \o r, w, S)
<1> DEFINE s == q \o r
           l == Len(q)
           e == Len(r)
<1>1. /\ s \in Seq(T) /\ l \in Nat /\ e \in Nat /\ Len(s) = l + e
      /\ DOMAIN q = 1 .. l /\ DOMAIN r = 1 .. e /\ DOMAIN s = 1 .. l + e /\ DOMAIN at = 1 .. l
      /\ \A k \in 1 .. l + e : s[k] = IF k <= l THEN q[k] ELSE r[k - l]
  BY ConcatProperties, LenProperties
<1>2. /\ \A k \in 1 .. l : w[k] = at[k]
      /\ \A k \in At(r, S) : w[l + k] = n
  BY <1>1 DEF Labelled
<1> HIDE DEF s, l, e
<1>6. ASSUME NEW k \in At(q, S) PROVE k \in At(s, S) /\ w[k] = at[k] /\ k \in Nat /\ k <= l
  <2>1. k \in 1 .. l /\ q[k] \in S /\ k \in 1 .. l + e /\ k <= l
    BY <1>1 DEF At
  <2> QED
    BY <1>1, <1>2, <2>1 DEF At
<1>7. ASSUME NEW k \in At(r, S) PROVE l + k \in At(s, S) /\ w[l + k] = n
  <2>1. k \in 1 .. e /\ r[k] \in S
    BY <1>1 DEF At
  <2>2. l + k \in 1 .. l + e /\ l + k \notin 1 .. l /\ ~(l + k <= l) /\ (l + k) - l = k
    BY <1>1, <2>1
  <2>3. s[l + k] = r[k]
    BY <1>1, <2>2
  <2> QED
    BY <1>1, <1>2, <2>1, <2>2, <2>3 DEF At
<1>8. ASSUME NEW k \in At(s, S)
      PROVE  \/ k \in At(q, S) /\ w[k] = at[k] /\ k \in Nat /\ k <= l
             \/ k - l \in At(r, S) /\ w[k] = n /\ k \in Nat /\ k > l
  <2>1. k \in 1 .. l + e /\ s[k] \in S
    BY <1>1 DEF At
  <2>2. CASE k <= l
    <3>1. k \in 1 .. l /\ s[k] = q[k]
      BY <1>1, <2>1, <2>2
    <3> QED
      BY <1>1, <1>2, <2>1, <2>2, <3>1 DEF At
  <2>3. CASE k > l
    <3>1. k - l \in 1 .. e /\ s[k] = r[k - l] /\ l + (k - l) = k
      BY <1>1, <2>1, <2>3
    <3>2. k - l \in At(r, S)
      BY <1>1, <2>1, <3>1 DEF At
    <3>3. w[l + (k - l)] = n
      BY <1>2, <3>2
    <3> QED
      BY <1>1, <2>1, <2>3, <3>1, <3>2, <3>3
  <2> QED
    BY <1>1, <2>1, <2>2, <2>3
<1>9. Marks(s, w, S) = Marks(q, at, S) \cup IF At(r, S) = {} THEN {} ELSE {n}
  <2>1. ASSUME NEW y \in Marks(q, at, S) PROVE y \in Marks(s, w, S)
    <3>1. PICK k \in At(q, S) : y = at[k]
      BY DEF Marks
    <3> QED
      BY <1>6, <3>1 DEF Marks
  <2>2. ASSUME At(r, S) # {} PROVE n \in Marks(s, w, S)
    BY <1>7, <2>2 DEF Marks
  <2>3. ASSUME NEW y \in Marks(s, w, S)
        PROVE  y \in Marks(q, at, S) \cup IF At(r, S) = {} THEN {} ELSE {n}
    <3>1. PICK k \in At(s, S) : y = w[k]
      BY DEF Marks
    <3>2. CASE k \in At(q, S) /\ w[k] = at[k]
      BY <3>1, <3>2 DEF Marks
    <3>3. CASE k - l \in At(r, S) /\ w[k] = n
      <4>1. At(r, S) # {} /\ y = n
        BY <3>1, <3>3
      <4> QED
        BY <4>1
    <3> QED
      BY <1>8, <3>2, <3>3
  <2> QED
    BY <2>1, <2>2, <2>3
<1>10. \A k \in At(q, S) : at[k] \in Marks(q, at, S)
  BY DEF Marks
<1>11. ASSUME NEW k \in At(s, S)
       PROVE  /\ k \in Nat /\ (k <= l \/ k > l)
              /\ k <= l => k \in At(q, S) /\ w[k] = at[k]
              /\ k > l => k - l \in At(r, S) /\ w[k] = n
  <2>1. k \in Nat
    BY <1>8
  <2>2. (k <= l \/ k > l) /\ ~(k <= l /\ k > l)
    BY <1>1, <2>1
  <2> QED
    BY <1>8, <2>1, <2>2
<1>12. ASSUME Rising(q, at, S), \A x \in Marks(q, at, S) : x <= n
       PROVE  Rising(s, w, S)
  <2> SUFFICES ASSUME NEW j \in At(s, S), NEW k \in At(s, S), j < k PROVE w[j] <= w[k]
    BY DEF Rising
  <2>1. CASE k <= l
    <3>1. j <= l
      <4>1. j \in Nat /\ k \in Nat
        BY <1>11
      <4> QED
        BY <1>1, <2>1, <4>1
    <3> QED
      BY <1>12, <1>11, <2>1, <3>1 DEF Rising
  <2>2. CASE k > l /\ j <= l
    BY <1>10, <1>12, <1>11, <2>2
  <2>3. CASE k > l /\ j > l
    <3>1. w[j] = n /\ w[k] = n
      BY <1>11, <2>3
    <3> QED
      BY <3>1, n <= n
  <2> QED
    BY <1>11, <2>1, <2>2, <2>3
<1>13. ASSUME Strictly(q, at, S), \A x \in Marks(q, at, S) : x < n, \A j, k \in At(r, S) : j = k
       PROVE  Strictly(s, w, S)
  <2> SUFFICES ASSUME NEW j \in At(s, S), NEW k \in At(s, S), j < k PROVE w[j] < w[k]
    BY DEF Strictly
  <2>1. CASE k <= l
    <3>1. j <= l
      <4>1. j \in Nat /\ k \in Nat
        BY <1>11
      <4> QED
        BY <1>1, <2>1, <4>1
    <3> QED
      BY <1>13, <1>11, <2>1, <3>1 DEF Strictly
  <2>2. CASE k > l /\ j <= l
    BY <1>10, <1>13, <1>11, <2>2
  <2>3. CASE k > l /\ j > l
    <3>1. j - l \in At(r, S) /\ k - l \in At(r, S) /\ j \in Nat /\ k \in Nat
      BY <1>11, <2>3
    <3>2. j - l = k - l
      BY <1>13, <3>1
    <3> QED
      BY <1>1, <3>1, <3>2
  <2> QED
    BY <1>11, <2>1, <2>2, <2>3
<1> QED
  BY <1>1, <1>9, <1>12, <1>13 DEF s, l, e

(* What a mark says of a message: the text is there in the sequence l.     *)
Quoted(q, at, S, l) == \A k \in At(q, S) : at[k] \in 1 .. Len(l) /\ l[at[k]] = q[k].body

LEMMA QuotedTail ==
  ASSUME NEW T, NEW q \in Seq(T), q # <<>>, NEW at \in Seq(Nat), Len(at) = Len(q), NEW S, NEW l,
         Quoted(q, at, S, l)
  PROVE  /\ Quoted(Tail(q), Tail(at), S, l)
         /\ Head(q) \in S => Head(at) \in 1 .. Len(l) /\ l[Head(at)] = Head(q).body
<1> DEFINE n == Len(q)
           r == Tail(q)
           w == Tail(at)
<1>1. /\ n \in Nat /\ n > 0 /\ DOMAIN q = 1 .. n /\ Head(q) = q[1]
      /\ DOMAIN r = 1 .. n - 1 /\ \A k \in 1 .. n - 1 : r[k] = q[k + 1]
  BY TailAt
<1>2. at # <<>> /\ Len(at) = n
  BY <1>1, EmptySeq
<1>3. Head(at) = at[1] /\ \A k \in 1 .. n - 1 : w[k] = at[k + 1]
  BY <1>2, TailAt
<1> HIDE DEF n, r, w
<1>4. ASSUME NEW k \in At(r, S) PROVE w[k] \in 1 .. Len(l) /\ l[w[k]] = r[k].body
  <2>1. k \in 1 .. n - 1 /\ r[k] \in S /\ r[k] = q[k + 1] /\ w[k] = at[k + 1] /\ k + 1 \in 1 .. n
    BY <1>1, <1>3 DEF At
  <2>2. k + 1 \in At(q, S)
    BY <1>1, <2>1 DEF At
  <2> QED
    BY <2>1, <2>2 DEF Quoted
<1>5. ASSUME Head(q) \in S PROVE Head(at) \in 1 .. Len(l) /\ l[Head(at)] = Head(q).body
  <2>1. 1 \in At(q, S)
    BY <1>1, <1>5 DEF At
  <2> QED
    BY <1>1, <1>3, <2>1 DEF Quoted
<1> QED
  BY <1>4, <1>5 DEF Quoted, r, w

LEMMA QuotedAppend ==
  ASSUME NEW T, NEW q \in Seq(T), NEW at \in Seq(Nat), Len(at) = Len(q), NEW S, NEW l,
         NEW m \in T, NEW x \in Nat, Quoted(q, at, S, l),
         m \in S => x \in 1 .. Len(l) /\ l[x] = m.body
  PROVE  Quoted(Append(q, m), Append(at, x), S, l)
<1> DEFINE n == Len(q)
           r == Append(q, m)
           w == Append(at, x)
<1>1. n \in Nat /\ DOMAIN q = 1 .. n
  BY LenProperties
<1>2. /\ r \in Seq(T) /\ Len(r) = n + 1 /\ \A k \in 1 .. n : r[k] = q[k]
      /\ r[n + 1] = m
  BY AppendProperties
<1>3. /\ \A k \in 1 .. n : w[k] = at[k]
      /\ w[n + 1] = x
  BY AppendProperties
<1>4. DOMAIN r = 1 .. n + 1
  BY <1>2, LenProperties
<1> HIDE DEF n, r, w
<1>5. ASSUME NEW k \in At(r, S) PROVE w[k] \in 1 .. Len(l) /\ l[w[k]] = r[k].body
  <2>1. k \in 1 .. n + 1 /\ r[k] \in S
    BY <1>4 DEF At
  <2>2. CASE k \in 1 .. n
    BY <1>1, <1>2, <1>3, <2>1, <2>2 DEF At, Quoted
  <2>3. CASE k = n + 1
    BY <1>2, <1>3, <2>1, <2>3
  <2> QED
    BY <1>1, <2>1, <2>2, <2>3
<1> QED
  BY <1>5 DEF Quoted, r, w

LEMMA QuotedConcat ==
  ASSUME NEW T, NEW q \in Seq(T), NEW r \in Seq(T), NEW at \in Seq(Nat), Len(at) = Len(q),
         NEW S, NEW n \in Nat, NEW w, NEW l, Quoted(q, at, S, l), Labelled(q, at, r, w, S, n),
         \A k \in At(r, S) : n \in 1 .. Len(l) /\ l[n] = r[k].body
  PROVE  Quoted(q \o r, w, S, l)
<1> DEFINE s == q \o r
           a == Len(q)
           e == Len(r)
<1>1. /\ a \in Nat /\ e \in Nat /\ s \in Seq(T) /\ Len(s) = a + e
      /\ DOMAIN q = 1 .. a /\ DOMAIN r = 1 .. e /\ DOMAIN s = 1 .. a + e
      /\ \A k \in 1 .. a + e : s[k] = IF k <= a THEN q[k] ELSE r[k - a]
  BY ConcatProperties, LenProperties
<1>2. /\ \A k \in 1 .. a : w[k] = at[k]
      /\ \A k \in At(r, S) : w[a + k] = n
  BY <1>1 DEF Labelled
<1> HIDE DEF s, a, e
<1>3. ASSUME NEW k \in At(s, S) PROVE w[k] \in 1 .. Len(l) /\ l[w[k]] = s[k].body
  <2>1. k \in 1 .. a + e /\ s[k] \in S
    BY <1>1 DEF At
  <2>2. CASE k <= a
    <3>1. k \in 1 .. a /\ s[k] = q[k] /\ w[k] = at[k]
      BY <1>1, <1>2, <2>1, <2>2
    <3>2. k \in At(q, S)
      BY <1>1, <2>1, <3>1 DEF At
    <3> QED
      BY <3>1, <3>2 DEF Quoted
  <2>3. CASE k > a
    <3>1. k - a \in 1 .. e /\ s[k] = r[k - a] /\ a + (k - a) = k
      BY <1>1, <2>1, <2>3
    <3>2. k - a \in At(r, S)
      BY <1>1, <2>1, <3>1 DEF At
    <3>3. w[a + (k - a)] = n
      BY <1>2, <3>2
    <3> QED
      BY <3>1, <3>2, <3>3
  <2> QED
    BY <1>1, <2>1, <2>2, <2>3
<1> QED
  BY <1>3 DEF Quoted, s

LEMMA QuotedMore ==
  ASSUME NEW q, NEW at, NEW S, NEW T, NEW l \in Seq(T), NEW t \in T, Quoted(q, at, S, l)
  PROVE  Quoted(q, at, S, Append(l, t))
<1>1. /\ Len(Append(l, t)) = Len(l) + 1 /\ Len(l) \in Nat
      /\ \A k \in 1 .. Len(l) : Append(l, t)[k] = l[k]
  BY AppendProperties, LenProperties
<1> QED
  BY <1>1 DEF Quoted

(* Marks are numbers.                                                      *)
LEMMA MarksType ==
  ASSUME NEW T, NEW q \in Seq(T), NEW at \in Seq(Nat), Len(at) = Len(q), NEW S
  PROVE  /\ Marks(q, at, S) \subseteq Nat
         /\ \A l : Quoted(q, at, S, l) => Marks(q, at, S) \subseteq 1 .. Len(l)
         /\ \A R : R \subseteq S => Marks(q, at, R) \subseteq Marks(q, at, S)
         /\ \A k \in At(q, S) : at[k] \in Marks(q, at, S)
<1>1. DOMAIN q = 1 .. Len(q)
  BY LenProperties
<1>2. \A k \in 1 .. Len(q) : at[k] \in Nat
  BY ElementOfSeq
<1> QED
  BY <1>1, <1>2 DEF Marks, At, Quoted

LEMMA NoMarks ==
  ASSUME NEW at, NEW S, NEW l
  PROVE  /\ Marks(<<>>, at, S) = {} /\ Rising(<<>>, at, S) /\ Strictly(<<>>, at, S)
         /\ Quoted(<<>>, at, S, l) /\ At(<<>>, S) = {}
BY DEF Marks, Rising, Strictly, Quoted, At
-----------------------------------------------------------------------------
(* What travels, also when clients have left.                              *)
Shown == {m \in Msgs : m.type = "server_client"}
Said  == {m \in Asked : m.type = "std" => m.body \in Texts \/ m.len = 0}
Heard == {m \in Said : Passed(m)}
Told  == {m \in Replies : m.type = "server_client" => m.len # 0}

TableTypes ==
    /\ tot \in [Clients -> Nat \ {0}] /\ nb \in [Clients -> Nat]
    /\ slots = [c \in Clients |-> slots[c]]
    /\ \A c \in Clients :
         /\ slots[c] \in [0 .. tot[c] - 1 -> Said \cup Client!EmptySlots]
         /\ pseudo[c] # Blank => nb[c] > 0

LineTypes ==
    /\ LoginTypes /\ TableTypes
    /\ up \in [Clients -> Seq(Said)] /\ down \in [Clients -> Seq(Told)]
    /\ sin \in Seq(Heard) /\ sout \in Seq(Told)
    /\ clients = [i \in Server!CSlots |-> clients[i]]
    /\ \A i \in Server!CSlots : clients[i] # Null => clients[i].sock \in Int

LEMMA ClientTypes ==
  ASSUME LineTypes, NEW c \in Clients, LoginTypes', UNCHANGED <<sin, sout, clients>>,
         tot' \in [Clients -> Nat \ {0}], nb' \in [Clients -> Nat],
         \A d \in Clients : d # c => tot'[d] = tot[d] /\ nb'[d] = nb[d] /\ pseudo'[d] = pseudo[d],
         slots' = [slots EXCEPT ![c] = slots'[c]],
         slots'[c] \in [0 .. tot'[c] - 1 -> Said \cup Client!EmptySlots],
         pseudo'[c] # Blank => nb'[c] > 0,
         up' = [up EXCEPT ![c] = up'[c]], up'[c] \in Seq(Said),
         down' = [down EXCEPT ![c] = down'[c]], down'[c] \in Seq(Told)
  PROVE  LineTypes'
<1>1. up' \in [Clients -> Seq(Said)] /\ down' \in [Clients -> Seq(Told)]
  BY DEF LineTypes
<1>2. slots' = [d \in Clients |-> slots'[d]] /\ \A d \in Clients : d # c => slots'[d] = slots[d]
  BY DEF LineTypes, TableTypes
<1>3. TableTypes'
  BY <1>2 DEF LineTypes, TableTypes
<1> QED
  BY <1>1, <1>3 DEF LineTypes

LEMMA SaidMsgs ==
  ASSUME NEW p \in Names
  PROVE  /\ \A k \in Nat : Client!ConnectionMsg(p, k) \in Said
         /\ \A i \in Nat, t \in Texts \cup {Blank}, r \in Nat : Client!StdMsg(i, p, t, r) \in Said
<1>1. ASSUME NEW k \in Nat PROVE Client!ConnectionMsg(p, k) \in Said
  <2> DEFINE m == Client!ConnectionMsg(p, k)
  <2>1. m \in [type : {"connection"}, id : {0}, sock : {-1}, src : {p}, len : {1}, body : {k},
               retr : {0}]
    BY DEF Client!ConnectionMsg, Client!EmptyMsg
  <2> HIDE DEF m
  <2>2. m.type = "connection" /\ k \in Bodies
    BY <2>1 DEF Bodies
  <2>3. m \in Asked
    BY <2>1, <2>2 DEF Asked, Msgs
  <2> QED
    BY <2>2, <2>3 DEF Said, m
<1>2. ASSUME NEW i \in Nat, NEW t \in Texts \cup {Blank}, NEW r \in Nat
      PROVE  Client!StdMsg(i, p, t, r) \in Said
  <2> DEFINE m == Client!StdMsg(i, p, t, r)
  <2>1. /\ m \in [type : {"std"}, id : {i}, sock : {-1}, src : {p}, len : {0, 1}, body : {t},
                  retr : {r}]
        /\ m.len = IF t = Blank THEN 0 ELSE 1
    BY DEF Client!StdMsg, Client!EmptyMsg
  <2> HIDE DEF m
  <2>2. m.type = "std" /\ m.body = t /\ t \in Bodies
    BY <2>1 DEF Bodies
  <2>3. m \in Asked
    BY <2>1, <2>2 DEF Asked, Msgs
  <2> QED
    BY <2>1, <2>2, <2>3 DEF Said, m
<1> QED
  BY <1>1, <1>2

LEMMA LoginLines ==
  ASSUME LineTypes, NEW c \in Clients, NEW p \in Names, Client!Login(c, p),
         UNCHANGED <<sin, sout, clients>>
  PROVE  LineTypes'
<1> DEFINE k == Client!CodeFor(c, p)
           m == Client!ConnectionMsg(p, k)
<1>1. LoginTypes /\ TableTypes
  BY DEF LineTypes
<1>2. /\ pseudo' = [pseudo EXCEPT ![c] = p] /\ waiting' = [waiting EXCEPT ![c] = TRUE]
      /\ drawn' = [drawn EXCEPT ![c] = IF Client!File(c, p) = NoCode THEN @ + 1 ELSE @]
      /\ files' = [files EXCEPT ![Dir[c]][p] = k]
      /\ slots' = [slots EXCEPT ![c][0] = m] /\ nb' = [nb EXCEPT ![c] = @ + 1]
      /\ up' = [up EXCEPT ![c] = Append(@, m)] /\ UNCHANGED <<proc, connected, tot, down>>
      /\ Client!File(c, p) # Blank
  BY DEF Client!Login, Client!RequestLogin, Client!Send
<1>3. k \in Nat
  BY <1>1, <1>2 DEF Client!CodeFor, Client!File, Client!Dirs, LoginTypes
<1>4. m \in Said
  BY <1>3, SaidMsgs
<1> HIDE DEF k, m
<1>5. LoginTypes'
  <2>1. drawn' \in [Clients -> Nat]
    BY <1>1, <1>2 DEF LoginTypes
  <2>2. files' \in [Client!Dirs -> [Names -> Nat \cup {NoCode, Blank}]]
    BY <1>1, <1>2, <1>3 DEF LoginTypes, Client!Dirs
  <2> QED
    BY <1>1, <1>2, <2>1, <2>2 DEF LoginTypes
<1>6. /\ slots'[c] \in [0 .. tot'[c] - 1 -> Said \cup Client!EmptySlots]
      /\ slots' = [slots EXCEPT ![c] = slots'[c]]
  BY <1>1, <1>2, <1>4 DEF TableTypes
<1>7. up'[c] \in Seq(Said) /\ down'[c] \in Seq(Told)
  BY <1>2, <1>4, AppendProperties DEF LineTypes
<1>8. up' = [up EXCEPT ![c] = up'[c]] /\ down' = [down EXCEPT ![c] = down'[c]]
  BY <1>2 DEF LineTypes
<1>9. nb' \in [Clients -> Nat] /\ nb'[c] > 0 /\ tot' = tot /\ tot' \in [Clients -> Nat \ {0}]
  BY <1>1, <1>2 DEF TableTypes
<1>10. \A d \in Clients : d # c => tot'[d] = tot[d] /\ nb'[d] = nb[d] /\ pseudo'[d] = pseudo[d]
  BY <1>1, <1>2 DEF TableTypes, LoginTypes
<1> QED
  BY <1>5, <1>6, <1>7, <1>8, <1>9, <1>10, ClientTypes

LEMMA SpeakLines ==
  ASSUME LineTypes, NEW c \in Clients, NEW t \in Texts \cup {Blank}, Client!Speak(c, t),
         UNCHANGED <<sin, sout, clients>>
  PROVE  LineTypes'
<1>1. LoginTypes /\ TableTypes
  BY DEF LineTypes
<1>2. /\ pseudo[c] \in Names /\ tot[c] \in Nat /\ tot[c] > 0
      /\ slots[c] \in [0 .. tot[c] - 1 -> Said \cup Client!EmptySlots]
      /\ up[c] \in Seq(Said) /\ nb[c] \in Nat
  BY <1>1 DEF Client!Speak, Client!Say, Client!SayGrowing, Client!CanTalk, LoginTypes, TableTypes,
              LineTypes
<1>3. \A m \in Said \cup Client!EmptySlots : m.retr \in Nat
  <2>1. Retries \subseteq Nat
    BY SystemAssumption DEF Retries
  <2>2. \A m \in Said : m.retr \in Nat
    BY DEF Said, Asked, Msgs
  <2> QED
    BY <2>1, <2>2, EmptyFields
<1>4. ASSUME NEW m \in Said,
             tot' \in [Clients -> Nat \ {0}], \A d \in Clients : d # c => tot'[d] = tot[d],
             slots' = [slots EXCEPT ![c] = slots'[c]],
             slots'[c] \in [0 .. tot'[c] - 1 -> Said \cup Client!EmptySlots],
             nb' = [nb EXCEPT ![c] = @ + 1], up' = [up EXCEPT ![c] = Append(@, m)],
             UNCHANGED <<proc, pseudo, connected, waiting, drawn, files, down>>
      PROVE  LineTypes'
  <2>2. /\ up'[c] \in Seq(Said) /\ down'[c] \in Seq(Told)
        /\ up' = [up EXCEPT ![c] = up'[c]] /\ down' = [down EXCEPT ![c] = down'[c]]
    BY <1>4, AppendProperties DEF LineTypes
  <2>3. /\ nb' \in [Clients -> Nat] /\ nb'[c] > 0
        /\ \A d \in Clients : d # c => nb'[d] = nb[d] /\ pseudo'[d] = pseudo[d]
    BY <1>1, <1>4 DEF TableTypes
  <2>4. LoginTypes'
    BY <1>1, <1>4, LoginStays
  <2> QED
    BY <1>4, <2>2, <2>3, <2>4, ClientTypes
<1>5. ASSUME NEW i \in 0 .. tot[c] - 1, Client!Say(c, i, t) PROVE LineTypes'
  <2> DEFINE m == Client!StdMsg(i, pseudo[c], t, slots[c][i].retr)
  <2>1. slots[c][i].retr \in Nat /\ i \in Nat
    BY <1>2, <1>3, <1>5
  <2>2. m \in Said
    BY <1>2, <2>1, SaidMsgs
  <2>3. /\ slots' = [slots EXCEPT ![c][i] = m] /\ nb' = [nb EXCEPT ![c] = @ + 1]
        /\ up' = [up EXCEPT ![c] = Append(@, slots'[c][i])]
        /\ UNCHANGED <<proc, pseudo, connected, waiting, drawn, files, down, tot>>
    BY <1>1, <1>2, <1>5 DEF Client!Say, Client!Send, Client!login, TableTypes
  <2> HIDE DEF m
  <2>4. /\ slots'[c] = [slots[c] EXCEPT ![i] = m] /\ slots'[c][i] = m
        /\ slots' = [slots EXCEPT ![c] = slots'[c]]
    BY <1>1, <1>2, <1>5, <2>3 DEF TableTypes
  <2>5. slots'[c] \in [0 .. tot'[c] - 1 -> Said \cup Client!EmptySlots]
    BY <1>2, <2>2, <2>3, <2>4
  <2>6. up' = [up EXCEPT ![c] = Append(@, m)] /\ tot' \in [Clients -> Nat \ {0}]
    BY <1>1, <2>3, <2>4 DEF TableTypes
  <2> QED
    BY <1>4, <2>2, <2>3, <2>4, <2>5, <2>6
<1>6. ASSUME Client!SayGrowing(c, t) PROVE LineTypes'
  <2> DEFINE n == tot[c]
  <2>1. PICK g \in [n .. 2 * n - 1 -> Client!EmptySlots] :
          slots' = [slots EXCEPT ![c] =
             [i \in 0 .. 2 * n - 1 |->
                 IF i < n THEN slots[c][i]
                 ELSE IF i = n THEN Client!StdMsg(i, pseudo[c], t, g[i].retr)
                 ELSE g[i]]]
    BY <1>6 DEF Client!SayGrowing
  <2> DEFINE m == Client!StdMsg(n, pseudo[c], t, g[n].retr)
  <2>2. g[n].retr \in Nat /\ n \in 0 .. 2 * n - 1 /\ 2 * n \in Nat
    <3>1. n \in n .. 2 * n - 1 /\ n \in 0 .. 2 * n - 1 /\ 2 * n \in Nat
      BY <1>2
    <3> QED
      BY <1>3, <3>1
  <2>3. m \in Said
    BY <1>2, <2>2, SaidMsgs
  <2>4. /\ tot' = [tot EXCEPT ![c] = 2 * @] /\ nb' = [nb EXCEPT ![c] = @ + 1]
        /\ up' = [up EXCEPT ![c] = Append(@, slots'[c][n])]
        /\ UNCHANGED <<proc, pseudo, connected, waiting, drawn, files, down>>
    BY <1>6 DEF Client!SayGrowing, Client!Send, Client!login
  <2> HIDE DEF m
  <2>5. slots'[c] = [i \in 0 .. 2 * n - 1 |->
                        IF i < n THEN slots[c][i] ELSE IF i = n THEN m ELSE g[i]]
    BY <1>1, <2>1 DEF TableTypes, m
  <2>6. slots' = [slots EXCEPT ![c] = slots'[c]] /\ slots'[c][n] = m
    BY <1>1, <1>2, <2>1, <2>2, <2>5 DEF TableTypes
  <2>7. /\ tot' \in [Clients -> Nat \ {0}] /\ tot'[c] = 2 * n
        /\ \A d \in Clients : d # c => tot'[d] = tot[d]
    BY <1>1, <1>2, <2>4 DEF TableTypes
  <2>8. slots'[c] \in [0 .. 2 * n - 1 -> Said \cup Client!EmptySlots]
    BY <1>2, <2>3, <2>5
  <2>9. up' = [up EXCEPT ![c] = Append(@, m)]
    BY <2>4, <2>6
  <2>10. slots'[c] \in [0 .. tot'[c] - 1 -> Said \cup Client!EmptySlots]
    BY <2>7, <2>8
  <2> HIDE DEF n
  <2> QED
    BY <1>4, <2>3, <2>4, <2>6, <2>7, <2>9, <2>10
<1> QED
  BY <1>5, <1>6 DEF Client!Speak

LEMMA ReadLines ==
  ASSUME LineTypes, NEW c \in Clients, Client!OnMsg(c), UNCHANGED <<sin, sout, clients>>
  PROVE  LineTypes'
<1>1. LoginTypes /\ TableTypes
  BY DEF LineTypes
<1>2. PICK m \in Client!Next1(c) :
        \/ Client!OnRefusal(c, m) \/ Client!OnWelcome(c, m) \/ Client!OnNegativeAck(c, m)
        \/ Client!OnPositiveAck(c, m) \/ Client!OnOther(c, m)
  BY DEF Client!OnMsg
<1>3. m = Head(down[c]) /\ down[c] # <<>>
  BY <1>2 DEF Client!Next1
<1>4. down[c] \in Seq(Told) /\ m \in Told /\ Tail(down[c]) \in Seq(Told)
  BY <1>3, HeadTail DEF LineTypes
<1>5. down' = [down EXCEPT ![c] = Tail(@)]
  BY <1>2 DEF Client!OnRefusal, Client!OnWelcome, Client!OnNegativeAck, Client!OnPositiveAck,
              Client!Acked, Client!OnOther, Client!Take
<1>6. down' = [down EXCEPT ![c] = down'[c]] /\ down'[c] \in Seq(Told)
  BY <1>4, <1>5 DEF LineTypes
<1>7. /\ tot[c] \in Nat \ {0} /\ nb[c] \in Nat /\ up[c] \in Seq(Said) /\ m.retr \in Nat
      /\ slots[c] \in [0 .. tot[c] - 1 -> Said \cup Client!EmptySlots]
  BY <1>1, <1>4 DEF TableTypes, LineTypes, Told, Replies, Msgs
<1>8. ASSUME LoginTypes', UNCHANGED <<tot, nb>>,
             \A d \in Clients : d # c => pseudo'[d] = pseudo[d], pseudo'[c] \in {pseudo[c], Blank},
             slots' = [slots EXCEPT ![c] = slots'[c]], up' = [up EXCEPT ![c] = up'[c]],
             slots'[c] \in [0 .. tot[c] - 1 -> Said \cup Client!EmptySlots],
             up'[c] \in Seq(Said)
      PROVE  LineTypes'
  <2>1. /\ tot' \in [Clients -> Nat \ {0}] /\ nb' \in [Clients -> Nat]
        /\ pseudo'[c] # Blank => nb'[c] > 0
    BY <1>1, <1>8 DEF TableTypes
  <2> QED
    BY <1>6, <1>8, <2>1, ClientTypes
<1>9. CASE UNCHANGED <<slots, up, tot, nb, proc>>
  <2>1. slots' = [slots EXCEPT ![c] = slots'[c]] /\ up' = [up EXCEPT ![c] = up'[c]]
    BY <1>1, <1>9 DEF TableTypes, LineTypes
  <2>2. CASE Client!OnRefusal(c, m)
    <3>1. /\ files' = [files EXCEPT ![Dir[c]][pseudo[c]] = NoCode]
          /\ pseudo' = [pseudo EXCEPT ![c] = Blank] /\ waiting' = [waiting EXCEPT ![c] = FALSE]
          /\ UNCHANGED <<connected, drawn>>
      BY <2>2 DEF Client!OnRefusal
    <3>2. files' \in [Client!Dirs -> [Names -> Nat \cup {NoCode, Blank}]]
      BY <1>1, <3>1 DEF LoginTypes
    <3>3. LoginTypes' /\ pseudo'[c] = Blank /\ \A d \in Clients : d # c => pseudo'[d] = pseudo[d]
      BY <1>1, <1>9, <3>1, <3>2 DEF LoginTypes
    <3> QED
      BY <1>7, <1>8, <1>9, <2>1, <3>3
  <2>3. CASE Client!OnWelcome(c, m)
    <3>1. LoginTypes' /\ pseudo' = pseudo
      BY <1>1, <1>9, <2>3 DEF Client!OnWelcome, LoginTypes
    <3> QED
      BY <1>7, <1>8, <1>9, <2>1, <3>1
  <2>4. CASE UNCHANGED Client!login
    <3>1. LoginTypes' /\ pseudo' = pseudo
      BY <1>1, <2>4 DEF Client!login, LoginTypes
    <3> QED
      BY <1>7, <1>8, <1>9, <2>1, <3>1
  <2> QED
    BY <1>2, <2>2, <2>3, <2>4 DEF Client!OnNegativeAck, Client!OnPositiveAck, Client!OnOther
<1>10. ASSUME Client!OnNegativeAck(c, m) \/ Client!OnPositiveAck(c, m)
       PROVE  LineTypes'
  <2>1. ~Client!BadAck(c, m)
    BY <1>10 DEF Client!OnNegativeAck, Client!OnPositiveAck, Client!Acked
  <2>2. m.id \in 0 .. tot[c] - 1 /\ slots[c][m.id].type # "null"
    BY <1>7, <2>1 DEF Client!BadAck, Client!Beyond
  <2>3. slots[c][m.id] \in Said
    BY <1>7, <2>2, EmptyFields
  <2>4. UNCHANGED <<proc, pseudo, connected, waiting, drawn, files, tot, nb>>
    BY <1>10 DEF Client!OnNegativeAck, Client!OnPositiveAck, Client!login
  <2>5. LoginTypes' /\ pseudo' = pseudo
    BY <1>1, <2>4, LoginStays
  <2>6. CASE Client!OnNegativeAck(c, m)
    <3> DEFINE s == [slots[c][m.id] EXCEPT !.retr = m.retr]
    <3>1. s \in Said
      BY <1>7, <2>3 DEF Said, Asked, Msgs
    <3>2. slots' = [slots EXCEPT ![c][m.id].retr = m.retr]
          /\ up' = [up EXCEPT ![c] = Append(@, slots'[c][m.id])]
      BY <2>6 DEF Client!OnNegativeAck, Client!Send
    <3>3. slots'[c] = [slots[c] EXCEPT ![m.id] = s] /\ slots' = [slots EXCEPT ![c] = slots'[c]]
      BY <1>1, <3>2 DEF TableTypes
    <3> HIDE DEF s
    <3>4. /\ slots'[c][m.id] = s
          /\ slots'[c] \in [0 .. tot[c] - 1 -> Said \cup Client!EmptySlots]
      BY <1>7, <2>2, <3>1, <3>3
    <3>5. up' = [up EXCEPT ![c] = up'[c]] /\ up'[c] \in Seq(Said)
      <4>1. Append(up[c], s) \in Seq(Said)
        BY <1>7, <3>1, AppendProperties
      <4>2. up' = [up EXCEPT ![c] = Append(@, s)]
        BY <3>2, <3>4
      <4> QED
        BY <4>1, <4>2 DEF LineTypes
    <3> QED
      BY <1>8, <2>4, <2>5, <3>3, <3>4, <3>5
  <2>7. CASE Client!OnPositiveAck(c, m)
    <3>1. slots' = [slots EXCEPT ![c][m.id] = Client!EmptyMsg] /\ up' = up
      BY <2>7 DEF Client!OnPositiveAck
    <3>2. Client!EmptyMsg \in Client!EmptySlots
      BY EmptyFields DEF EmptyMsg, Client!EmptyMsg
    <3>3. /\ slots' = [slots EXCEPT ![c] = slots'[c]] /\ up' = [up EXCEPT ![c] = up'[c]]
          /\ slots'[c] \in [0 .. tot[c] - 1 -> Said \cup Client!EmptySlots]
          /\ up'[c] \in Seq(Said)
      BY <1>1, <1>7, <2>2, <3>1, <3>2 DEF TableTypes, LineTypes
    <3> QED
      BY <1>8, <2>4, <2>5, <3>3
  <2> QED
    BY <1>10, <2>6, <2>7
<1>11. CASE Client!OnRefusal(c, m) \/ Client!OnWelcome(c, m) \/ Client!OnOther(c, m)
  BY <1>9, <1>11 DEF Client!OnRefusal, Client!OnWelcome, Client!OnOther, Client!login, Client!table
<1> QED
  BY <1>2, <1>10, <1>11

LEMMA StopLines ==
  ASSUME LineTypes, NEW c \in Clients, Client!Leave(c) \/ Client!ReadBeyond(c),
         UNCHANGED <<sin, sout, clients>>
  PROVE  LineTypes'
<1>1. /\ proc' = [proc EXCEPT ![c] = "gone"] /\ down' = [down EXCEPT ![c] = <<>>]
      /\ UNCHANGED <<pseudo, connected, waiting, drawn, files, slots, tot, nb, up>>
  BY DEF Client!Leave, Client!ReadBeyond, Client!Stop, Client!table
<1>2. LoginTypes'
  BY <1>1 DEF LineTypes, LoginTypes
<1>3. TableTypes'
  BY <1>1 DEF LineTypes, TableTypes
<1>4. down' \in [Clients -> Seq(Told)]
  BY <1>1, EmptySeq DEF LineTypes
<1> QED
  BY <1>1, <1>2, <1>3, <1>4 DEF LineTypes

LEMMA ForwardLines ==
  ASSUME LineTypes, NEW j \in PollSlots, OnClientReceived(j)
  PROVE  LineTypes'
<1> DEFINE c == fds[j]
           h == Head(up[c])
           m == [h EXCEPT !.sock = j]
<1>1. /\ c \in Clients /\ up[c] # <<>> /\ up' = [up EXCEPT ![c] = Tail(@)]
      /\ sin' = IF Passed(m) THEN Append(sin, m) ELSE sin
      /\ UNCHANGED <<proc, pseudo, connected, waiting, drawn, files, slots, tot, nb>>
      /\ UNCHANGED <<down, sout, clients>>
  BY DEF OnClientReceived, clientSide, serverSide
<1>2. h \in Said /\ Tail(up[c]) \in Seq(Said)
  BY <1>1, HeadTail DEF LineTypes
<1>3. m \in Said
  <2>1. \A x \in Said, k \in Int : [x EXCEPT !.sock = k] \in Said
    BY DEF Said, Asked, Msgs
  <2>2. j \in Int
    BY ProxyAssumption DEF PollSlots
  <2> QED
    BY <1>2, <2>1, <2>2
<1> HIDE DEF m
<1>4. up' \in [Clients -> Seq(Said)]
  BY <1>1, <1>2 DEF LineTypes
<1>5. sin' \in Seq(Heard)
  BY <1>1, <1>3, AppendProperties DEF LineTypes, Heard
<1>6. LoginTypes' /\ TableTypes'
  BY <1>1, LoginStays DEF LineTypes, TableTypes
<1> QED
  BY <1>1, <1>4, <1>5, <1>6 DEF LineTypes

(* What the proxy takes from the server goes to a client, or nowhere.      *)
LEMMA Delivery ==
  ASSUME LineTypes, OnServerReceived
  PROVE  LET m == Head(sout)
             f == fds[m.sock]
         IN  /\ sout # <<>> /\ sout' = Tail(sout) /\ soutAt' = Tail(soutAt) /\ m \in Told
             /\ UNCHANGED <<proc, connected, sin, clients, log, shown, place, fds, nbFds>>
             /\ \/ UNCHANGED <<down, downAt>>
                \/ /\ ~Discarded(m) /\ f \in Clients
                   /\ down' = [down EXCEPT ![f] = Append(@, m)]
                   /\ downAt' = [downAt EXCEPT ![f] = Append(@, Head(soutAt))]
<1>1. sout # <<>> /\ sout' = Tail(sout) /\ soutAt' = Tail(soutAt)
  BY DEF OnServerReceived
<1>2. Head(sout) \in Told
  BY <1>1, HeadTail DEF LineTypes
<1>3. UNCHANGED <<proc, connected, sin, clients, log, shown, place, fds, nbFds>>
  BY DEF OnServerReceived, clientSide, serverSide
<1> QED
  BY <1>1, <1>2, <1>3 DEF OnServerReceived

LEMMA DeliverLines ==
  ASSUME LineTypes, OnServerReceived
  PROVE  LineTypes'
<1>1. UNCHANGED <<proc, pseudo, connected, waiting, drawn, files, slots, tot, nb, up, sin, clients>>
  BY DEF OnServerReceived, clientSide, serverSide
<1>2. LoginTypes' /\ TableTypes'
  BY <1>1, LoginStays DEF LineTypes, TableTypes
<1>3. sout # <<>> /\ sout' = Tail(sout) /\ sout' \in Seq(Told)
  <2>1. sout \in Seq(Told) /\ sout # <<>> /\ sout' = Tail(sout)
    BY Delivery DEF LineTypes
  <2> QED
    BY <2>1, HeadTail
<1>4. down' \in [Clients -> Seq(Told)]
  <2>1. CASE down' = down
    BY <2>1 DEF LineTypes
  <2>2. ASSUME NEW f \in Clients, NEW m \in Told, down' = [down EXCEPT ![f] = Append(@, m)]
        PROVE  down' \in [Clients -> Seq(Told)]
    BY <2>2, AppendProperties DEF LineTypes
  <2> QED
    BY <2>1, <2>2, Delivery
<1> QED
  BY <1>1, <1>2, <1>3, <1>4 DEF LineTypes

LEMMA ToldMsgs ==
  ASSUME NEW m \in Heard
  PROVE  /\ \A x \in {Server!PositiveAck(m), Server!NegativeAck(m), Server!ErrorMsg(m)} :
              x \in Told /\ x \notin Shown /\ x \notin Welcomes
         /\ Server!WellConnected(m) \in Told /\ Server!WellConnected(m) \notin Shown
         /\ Server!WellConnected(m) \in Welcomes /\ Server!WellConnected(m).sock = m.sock
         /\ m.type = "std" =>
              /\ m.body \in Texts
              /\ \A s \in Int : LET x == Server!ServerClientMsg(m, s) IN
                   x \in Told /\ x \in Shown /\ x \notin Welcomes /\ x.body = m.body /\ x.sock = s
<1>1. /\ m.id \in Int /\ m.sock \in Int /\ m.src \in Names \cup {Blank} /\ m.len \in {0, 1}
      /\ m.body \in Bodies /\ m.retr \in Nat /\ Blank \in Bodies
      /\ m.type = "std" => m.body \in Texts /\ m.len = 1
  <2>1. m \in Msgs /\ Passed(m) /\ (m.type = "std" => m.body \in Texts \/ m.len = 0)
    BY DEF Heard, Said, Asked
  <2>2. m.type = "std" => m.len # 0
    BY <2>1 DEF Passed, MayBeEmpty
  <2> QED
    BY <2>1, <2>2 DEF Msgs, Bodies
<1>2. /\ Server!PositiveAck(m) \in [type : {"ack_pos"}, id : Int, sock : Int, src : {Blank},
                                    len : {0}, body : {Blank}, retr : Nat]
      /\ Server!NegativeAck(m) \in [type : {"ack_neg"}, id : Int, sock : Int, src : {Blank},
                                    len : {0}, body : {Blank}, retr : Nat]
  <2>1. Server!PositiveAck(m) \in [type : {"ack_pos"}, id : Int, sock : Int, src : {Blank},
                                   len : {0}, body : {Blank}, retr : Nat]
    BY <1>1 DEF Server!PositiveAck, Server!EmptyMsg
  <2>2. m.retr + 1 \in Nat
    BY <1>1
  <2>3. Server!NegativeAck(m) \in [type : {"ack_neg"}, id : Int, sock : Int, src : {Blank},
                                   len : {0}, body : {Blank}, retr : Nat]
    BY <1>1, <2>2 DEF Server!NegativeAck, Server!EmptyMsg
  <2> QED
    BY <2>1, <2>3
<1>3. /\ Server!ErrorMsg(m) \in [type : {"error"}, id : {-1}, sock : Int, src : {Blank},
                                 len : {0}, body : {Blank}, retr : {0}]
      /\ Server!WellConnected(m) \in [type : {"well_connected"}, id : {-1}, sock : {m.sock},
                                      src : {Blank}, len : {0}, body : {Blank}, retr : {0}]
  BY <1>1 DEF Server!ErrorMsg, Server!WellConnected, Server!EmptyMsg
<1>4. ASSUME NEW s \in Int
      PROVE  Server!ServerClientMsg(m, s) \in
               [type : {"server_client"}, id : {-1}, sock : {s}, src : Names \cup {Blank},
                len : {m.len}, body : {m.body}, retr : {0}]
  BY <1>1 DEF Server!ServerClientMsg, Server!EmptyMsg
<1>5. ASSUME NEW x \in {Server!PositiveAck(m), Server!NegativeAck(m), Server!ErrorMsg(m)}
      PROVE  x \in Told /\ x \notin Shown /\ x \notin Welcomes
  <2>1. /\ x \in [type : {"ack_pos", "ack_neg", "error"}, id : Int, sock : Int, src : {Blank},
                  len : {0}, body : {Blank}, retr : Nat]
    BY <1>2, <1>3
  <2>2. x.type # "server_client" /\ x.type # "well_connected"
    BY <2>1
  <2>3. x \in Msgs /\ x.type \notin {"connection", "std"}
    BY <1>1, <2>1 DEF Msgs
  <2> QED
    BY <2>2, <2>3 DEF Told, Replies, Asked, Shown, Welcomes
<1>6. LET x == Server!WellConnected(m)
      IN  x \in Told /\ x \notin Shown /\ x \in Welcomes /\ x.sock = m.sock
  <2> DEFINE x == Server!WellConnected(m)
  <2>1. x.type = "well_connected" /\ x.sock = m.sock /\ x \in Msgs
    BY <1>1, <1>3 DEF Msgs
  <2> HIDE DEF x
  <2>2. x \in Told /\ x \notin Shown /\ x \in Welcomes /\ x.sock = m.sock
    BY <2>1 DEF Told, Replies, Asked, Shown, Welcomes
  <2> QED
    BY <2>2 DEF x
<1>7. ASSUME m.type = "std", NEW s \in Int
      PROVE  LET x == Server!ServerClientMsg(m, s) IN
               x \in Told /\ x \in Shown /\ x \notin Welcomes /\ x.body = m.body /\ x.sock = s
  <2> DEFINE x == Server!ServerClientMsg(m, s)
  <2>1. /\ x.type = "server_client" /\ x.sock = s /\ x.len = 1 /\ x.body = m.body /\ x \in Msgs
    BY <1>1, <1>4, <1>7 DEF Msgs
  <2> HIDE DEF x
  <2>2. x \in Told /\ x \in Shown /\ x \notin Welcomes /\ x.body = m.body /\ x.sock = s
    BY <2>1 DEF Told, Replies, Asked, Shown, Welcomes
  <2> QED
    BY <2>2 DEF x
<1> QED
  BY <1>1, <1>5, <1>6, <1>7

(* The server delivers a text, gives a session, or changes no session.     *)
Delivers(m, r) ==
    /\ m.type = "std" /\ m.body \in Texts /\ log' = Append(log, m.body)
    /\ r = <<Server!PositiveAck(m)>> \o Server!Broadcast(m) /\ clients' = clients
    /\ \A k \in At(r, Shown) : r[k].body = m.body

Welcoming(m, r) ==
    /\ m.type = "connection" /\ log' = log /\ r = <<Server!WellConnected(m)>>
    /\ \E i, p : \A k \in Server!CSlots :
         clients'[k] = IF k = i THEN [pseudo |-> p, last |-> now, sock |-> m.sock]
                       ELSE clients[k]

Declines(m, r) ==
    /\ r \in {<<>>, <<Server!ErrorMsg(m)>>, <<Server!NegativeAck(m)>>}
    /\ log' = log /\ clients' = clients

LEMMA CopyTold ==
  ASSUME LineTypes, NEW m \in Heard, m.type = "std", NEW i \in Server!CSlots
  PROVE  Server!Copy(m, i) \in Seq({x \in Told : x \in Shown /\ x.body = m.body})
<1>1. CASE clients[i] = Null
  BY <1>1, EmptySeq DEF Server!Copy
<1>2. CASE clients[i] # Null
  <2>1. clients[i].sock \in Int
    BY <1>2 DEF LineTypes
  <2> DEFINE x == Server!ServerClientMsg(m, clients[i].sock)
  <2>2. x \in Told /\ x \in Shown /\ x.body = m.body
    BY <2>1, ToldMsgs
  <2>3. Server!Copy(m, i) = <<x>>
    BY <1>2 DEF Server!Copy
  <2> HIDE DEF x
  <2> QED
    BY <2>2, <2>3
<1> QED
  BY <1>1, <1>2

LEMMA Served ==
  ASSUME LineTypes, ServerReads
  PROVE  \E m \in Heard, r \in Seq(Told) :
           /\ sin # <<>> /\ m = Head(sin) /\ sin' = Tail(sin) /\ sout' = sout \o r
           /\ soutAt' = [k \in DOMAIN sout' |->
                            IF k \in DOMAIN sout THEN soutAt[k]
                            ELSE IF sout'[k].type = "server_client" THEN Len(log') ELSE 0]
           /\ UNCHANGED <<clientSide, up, down, fds, nbFds, shown, place, downAt>>
           /\ clients' = [k \in Server!CSlots |-> clients'[k]]
           /\ Delivers(m, r) \/ Welcoming(m, r) \/ Declines(m, r)
<1>1. PICK m \in Server!Incoming :
        Server!OnMsgReceived(m) /\ log' = IF Server!Deliver(m) THEN Append(log, m.body) ELSE log
  BY DEF ServerReads
<1>2. sin # <<>> /\ m = Head(sin)
  BY <1>1 DEF Server!Incoming
<1>3. m \in Heard
  BY <1>2, HeadTail DEF LineTypes
<1>4. /\ soutAt' = [k \in DOMAIN sout' |->
                       IF k \in DOMAIN sout THEN soutAt[k]
                       ELSE IF sout'[k].type = "server_client" THEN Len(log') ELSE 0]
      /\ UNCHANGED <<clientSide, up, down, fds, nbFds, shown, place, downAt>>
  BY DEF ServerReads, proxySide, table
<1>5. sin' = Tail(sin)
  BY <1>1, <1>2 DEF Server!OnMsgReceived, Server!IgnoreShort, Server!Refuse, Server!TakeOver,
     Server!Register, Server!Deliver, Server!AskAgain, Server!Connection, Server!Std, Server!Receive
<1>6. ASSUME NEW r \in Seq(Told), sout' = sout \o r, clients' = [k \in Server!CSlots |-> clients'[k]],
             Delivers(m, r) \/ Welcoming(m, r) \/ Declines(m, r)
      PROVE  \E x \in Heard, y \in Seq(Told) :
           /\ sin # <<>> /\ x = Head(sin) /\ sin' = Tail(sin) /\ sout' = sout \o y
           /\ soutAt' = [k \in DOMAIN sout' |->
                            IF k \in DOMAIN sout THEN soutAt[k]
                            ELSE IF sout'[k].type = "server_client" THEN Len(log') ELSE 0]
           /\ UNCHANGED <<clientSide, up, down, fds, nbFds, shown, place, downAt>>
           /\ clients' = [k \in Server!CSlots |-> clients'[k]]
           /\ Delivers(x, y) \/ Welcoming(x, y) \/ Declines(x, y)
  BY <1>2, <1>3, <1>4, <1>5, <1>6
<1>7. \A x \in Told : <<x>> \in Seq(Told)
  OBVIOUS
<1>8. clients = [k \in Server!CSlots |-> clients[k]]
  BY DEF LineTypes
<1>9. CASE Server!Deliver(m)
  <2> DEFINE C == {x \in Told : x \in Shown /\ x.body = m.body}
             a == Server!PositiveAck(m)
             b == Server!Broadcast(m)
  <2>1. /\ m.type = "std" /\ sout' = sout \o (<<a>> \o b) /\ clients' = clients
        /\ log' = Append(log, m.body)
    BY <1>1, <1>9 DEF Server!Deliver, Server!Std, Server!Answer
  <2>2. m.body \in Texts /\ a \in Told /\ a \notin Shown
    BY <1>3, <2>1, ToldMsgs
  <2>3. b \in Seq(C)
    BY <1>3, <2>1, CopyTold, BroadcastType
  <2>4. b \in Seq(Told)
    BY <2>3, SeqMono
  <2> HIDE DEF a, b
  <2>5. <<a>> \in Seq(Told) /\ Len(<<a>>) = 1 /\ <<a>>[1] = a
    BY <2>2
  <2>6. <<a>> \o b \in Seq(Told)
    BY <2>4, <2>5, ConcatProperties
  <2>7. ASSUME NEW k \in At(<<a>> \o b, Shown) PROVE (<<a>> \o b)[k].body = m.body
    <3>1. /\ Len(<<a>> \o b) = 1 + Len(b) /\ Len(b) \in Nat
          /\ \A x \in 1 .. 1 + Len(b) : (<<a>> \o b)[x] = IF x <= 1 THEN <<a>>[x] ELSE b[x - 1]
      BY <2>4, <2>5, ConcatProperties, LenProperties
    <3>2. k \in 1 .. 1 + Len(b) /\ (<<a>> \o b)[k] \in Shown
      BY <2>6, <3>1, LenProperties DEF At
    <3>3. k # 1
      BY <2>2, <2>5, <3>1, <3>2
    <3>4. k - 1 \in 1 .. Len(b) /\ (<<a>> \o b)[k] = b[k - 1]
      BY <3>1, <3>2, <3>3
    <3>5. b[k - 1] \in C
      BY <2>3, <3>4, ElementOfSeq
    <3> QED
      BY <3>4, <3>5
  <2>8. Delivers(m, <<a>> \o b)
    BY <2>1, <2>2, <2>7 DEF Delivers, a, b
  <2> QED
    BY <1>6, <1>8, <2>1, <2>6, <2>8
<1>10. CASE ~Server!Deliver(m)
  <2>1. log' = log
    BY <1>1, <1>10
  <2>2. CASE Server!IgnoreShort(m)
    <3>1. sout' = sout /\ clients' = clients
      BY <2>2 DEF Server!IgnoreShort, Server!state
    <3>2. sout' = sout \o <<>> /\ <<>> \in Seq(Told)
      BY <3>1, ConcatEmptySeq, EmptySeq DEF LineTypes
    <3>3. Declines(m, <<>>)
      BY <2>1, <3>1 DEF Declines
    <3> QED
      BY <1>6, <1>8, <3>1, <3>2, <3>3
  <2>3. CASE Server!Refuse(m)
    <3>1. sout' = sout \o <<Server!ErrorMsg(m)>> /\ clients' = clients
      BY <2>3 DEF Server!Refuse, Server!Answer
    <3>2. <<Server!ErrorMsg(m)>> \in Seq(Told)
      BY <1>3, <1>7, ToldMsgs
    <3>3. Declines(m, <<Server!ErrorMsg(m)>>)
      BY <2>1, <3>1 DEF Declines
    <3> QED
      BY <1>6, <1>8, <3>1, <3>2, <3>3
  <2>4. CASE Server!AskAgain(m)
    <3>1. sout' = sout \o <<Server!NegativeAck(m)>> /\ clients' = clients
      BY <2>4 DEF Server!AskAgain, Server!Answer
    <3>2. <<Server!NegativeAck(m)>> \in Seq(Told)
      BY <1>3, <1>7, ToldMsgs
    <3>3. Declines(m, <<Server!NegativeAck(m)>>)
      BY <2>1, <3>1 DEF Declines
    <3> QED
      BY <1>6, <1>8, <3>1, <3>2, <3>3
  <2>5. <<Server!WellConnected(m)>> \in Seq(Told)
    BY <1>3, <1>7, ToldMsgs
  <2>6. ASSUME NEW i, NEW p, m.type = "connection", sout' = sout \o <<Server!WellConnected(m)>>,
               clients' = [clients EXCEPT ![i] = [pseudo |-> p, last |-> now, sock |-> m.sock]]
        PROVE  /\ clients' = [k \in Server!CSlots |-> clients'[k]]
               /\ Welcoming(m, <<Server!WellConnected(m)>>)
    <3>1. /\ clients' = [k \in Server!CSlots |-> clients'[k]]
          /\ \A k \in Server!CSlots :
               clients'[k] = IF k = i THEN [pseudo |-> p, last |-> now, sock |-> m.sock]
                             ELSE clients[k]
      BY <1>8, <2>6
    <3> QED
      BY <2>1, <2>6, <3>1 DEF Welcoming
  <2>7. CASE Server!TakeOver(m)
    <3>1. /\ m.type = "connection" /\ sout' = sout \o <<Server!WellConnected(m)>>
          /\ clients' = [clients EXCEPT ![index[m.src]] =
                           [pseudo |-> clients[index[m.src]].pseudo, last |-> now, sock |-> m.sock]]
      BY <2>7 DEF Server!TakeOver, Server!Connection, Server!Answer
    <3> QED
      BY <1>6, <2>5, <2>6, <3>1
  <2>8. ASSUME NEW i \in Server!CSlots, Server!Register(m, i)
        PROVE  /\ m.type = "connection" /\ sout' = sout \o <<Server!WellConnected(m)>>
               /\ clients' = [clients EXCEPT ![i] = [pseudo |-> m.src, last |-> now, sock |-> m.sock]]
    BY <2>8 DEF Server!Register, Server!Connection, Server!Answer
  <2>9. CASE \E i \in Server!CSlots : Server!Register(m, i)
    BY <1>6, <2>5, <2>6, <2>8, <2>9
  <2> QED
    BY <1>1, <1>10, <2>2, <2>3, <2>4, <2>7, <2>9 DEF Server!OnMsgReceived
<1> QED
  BY <1>9, <1>10

LEMMA ServerLines ==
  ASSUME LineTypes, ServerReads
  PROVE  LineTypes'
<1>1. PICK m \in Heard, r \in Seq(Told) :
        /\ sin # <<>> /\ sin' = Tail(sin) /\ sout' = sout \o r /\ UNCHANGED <<clientSide, up, down>>
        /\ clients' = [k \in Server!CSlots |-> clients'[k]]
        /\ Delivers(m, r) \/ Welcoming(m, r) \/ Declines(m, r)
  BY Served
<1>2. LoginTypes' /\ TableTypes'
  BY <1>1, LoginStays DEF LineTypes, TableTypes, clientSide
<1>3. sin' \in Seq(Heard) /\ sout' \in Seq(Told)
  BY <1>1, HeadTail, ConcatProperties DEF LineTypes
<1>4. \A i \in Server!CSlots : clients'[i] # Null => clients'[i].sock \in Int
  <2>1. CASE clients' = clients
    BY <2>1 DEF LineTypes
  <2>2. CASE Welcoming(m, r)
    <3>1. m.sock \in Int
      BY DEF Heard, Said, Asked, Msgs
    <3>2. PICK i, p : \A k \in Server!CSlots :
            clients'[k] = IF k = i THEN [pseudo |-> p, last |-> now, sock |-> m.sock] ELSE clients[k]
      BY <2>2 DEF Welcoming
    <3>3. [pseudo |-> p, last |-> now, sock |-> m.sock].sock \in Int
      BY <3>1
    <3> QED
      BY <3>2, <3>3 DEF LineTypes
  <2> QED
    BY <1>1, <2>1, <2>2 DEF Delivers, Declines
<1> QED
  BY <1>1, <1>2, <1>3, <1>4 DEF LineTypes

LEMMA LinesStay ==
  ASSUME LineTypes, LoginTypes', UNCHANGED <<pseudo, slots, tot, nb, up, down, sin, sout, clients>>
  PROVE  LineTypes'
BY DEF LineTypes, TableTypes

LEMMA InitLines == Init => LineTypes
<1> SUFFICES ASSUME Init PROVE LineTypes
  OBVIOUS
<1>1. LoginTypes
  BY DEF Init, LoginTypes, Client!ClientInit, Client!Dirs, Client!Codes
<1>2. TableTypes
  <2>1. /\ slots = [c \in Clients |-> [i \in 0 .. InitSlots - 1 |-> EmptyMsg]]
        /\ tot = [c \in Clients |-> InitSlots] /\ nb = [c \in Clients |-> 0]
        /\ pseudo = [c \in Clients |-> Blank]
    BY DEF Init, Client!ClientInit, Client!EmptyMsg, EmptyMsg
  <2> QED
    BY <2>1, EmptyFields, SystemAssumption DEF TableTypes
<1>3. /\ up = [c \in Clients |-> <<>>] /\ down = [c \in Clients |-> <<>>]
      /\ sin = <<>> /\ sout = <<>> /\ clients = [i \in Server!CSlots |-> Null]
  BY DEF Init, Client!ClientInit, Server!Init
<1> QED
  BY <1>1, <1>2, <1>3, EmptySeq DEF LineTypes

(* A text that is typed is one of the texts.                               *)
LEMMA TypedText ==
  ASSUME LineTypes, NEW c \in Clients, UserActs(c)
  PROVE  \/ \E p \in Names : Client!Login(c, p)
         \/ \E t \in Texts \cup {Blank} : Client!Speak(c, t)
<1>1. CASE Client!Speak(c, <<c, nb[c]>>)
  <2>1. nb[c] \in Nat /\ nb[c] > 0 /\ nb[c] < MaxSent
    BY <1>1 DEF Client!Speak, Client!Say, Client!SayGrowing, Client!CanTalk, LineTypes, TableTypes
  <2>2. <<c, nb[c]>> \in Texts
    BY <2>1, SystemAssumption DEF Texts
  <2> QED
    BY <1>1, <2>2
<1>2. CASE Client!Speak(c, Blank)
  BY <1>2
<1> QED
  BY <1>1, <1>2 DEF UserActs

LEMMA NextLines ==
  ASSUME LineTypes, [Next]_vars
  PROVE  LineTypes'
<1>1. ASSUME NEW c \in Clients, Join(c) PROVE LineTypes'
  <2>1. /\ proc' = [proc EXCEPT ![c] = "on"]
        /\ UNCHANGED <<pseudo, connected, waiting, drawn, files, slots, tot, nb, up, down>>
        /\ UNCHANGED <<sin, sout, clients>>
    BY <1>1 DEF Join, Client!Start, Client!table, serverSide
  <2>2. LoginTypes'
    BY <2>1 DEF LineTypes, LoginTypes
  <2> QED
    BY <2>1, <2>2, LinesStay
<1>2. ASSUME NEW c \in Clients, Leave(c) \/ ClientReadsBeyond(c) PROVE LineTypes'
  BY <1>2, StopLines DEF Leave, ClientReadsBeyond, serverSide
<1>3. ASSUME NEW c \in Clients, UserActs(c) PROVE LineTypes'
  <2>1. UNCHANGED <<sin, sout, clients>>
    BY <1>3 DEF UserActs, serverSide
  <2>2. ASSUME NEW p \in Names, Client!Login(c, p) PROVE LineTypes'
    BY <2>1, <2>2, LoginLines
  <2>3. ASSUME NEW t \in Texts \cup {Blank}, Client!Speak(c, t) PROVE LineTypes'
    BY <2>1, <2>3, SpeakLines
  <2> QED
    BY <1>3, <2>2, <2>3, TypedText
<1>4. ASSUME NEW c \in Clients, ClientReads(c) PROVE LineTypes'
  <2>1. UNCHANGED <<sin, sout, clients>> /\ Client!OnMsg(c)
    BY <1>4 DEF ClientReads, serverSide
  <2> QED
    BY <2>1, ReadLines
<1>5. ASSUME NEW j \in PollSlots, OnClientReceived(j) PROVE LineTypes'
  BY <1>5, ForwardLines
<1>6. ASSUME \/ \E j \in PollSlots : OnClientLeft(j) \/ OnClientReset(j)
             \/ Compress \/ Tick \/ UNCHANGED vars
      PROVE  LineTypes'
  <2>1. UNCHANGED <<clientSide, up, down, sin, sout, clients>>
    BY <1>6 DEF OnClientLeft, OnClientReset, Compress, Tick, Server!Tick, Server!state, serverSide,
                vars
  <2>2. LoginTypes'
    BY <2>1, LoginStays DEF LineTypes, clientSide
  <2> QED
    BY <2>1, <2>2, LinesStay DEF clientSide
<1>7. CASE OnServerReceived
  BY <1>7, DeliverLines
<1>8. CASE ServerReads
  BY <1>8, ServerLines
<1> QED
  BY <1>1, <1>2, <1>3, <1>4, <1>5, <1>6, <1>7, <1>8 DEF Next, Proxy

-----------------------------------------------------------------------------
(* What is on its way to the clients, and what they have shown, is in the  *)
(* order of the conversation, whoever has left.                            *)
Sent      == Marks(sout, soutAt, Shown)
Coming(c) == Marks(down[c], downAt[c], Shown)

LineOrder(c) ==
    /\ Len(downAt[c]) = Len(down[c]) /\ Rising(down[c], downAt[c], Shown)
    /\ Quoted(down[c], downAt[c], Shown, log)
    /\ place[c] <= Len(log) /\ \A x \in Coming(c) \cup Sent : place[c] <= x
    /\ \A x \in Coming(c), y \in Sent : x <= y

OrderInv ==
    /\ log \in Seq(Texts) /\ soutAt \in Seq(Nat) /\ Len(soutAt) = Len(sout)
    /\ Rising(sout, soutAt, Shown) /\ Quoted(sout, soutAt, Shown, log)
    /\ place \in [Clients -> Nat] /\ downAt \in [Clients -> Seq(Nat)]
    /\ \A c \in Clients : LineOrder(c)

LEMMA OrderStays ==
  ASSUME OrderInv, UNCHANGED <<log, place, sout, soutAt, down, downAt>>
  PROVE  OrderInv'
BY DEF OrderInv, LineOrder, Sent, Coming

LEMMA SameLine ==
  ASSUME NEW d \in Clients, LineOrder(d), UNCHANGED <<log, sout, soutAt, down[d], downAt[d], place[d]>>
  PROVE  LineOrder(d)'
BY DEF LineOrder, Sent, Coming

LEMMA InitOrder == Init => OrderInv
<1> SUFFICES ASSUME Init PROVE OrderInv
  OBVIOUS
<1>1. /\ log = <<>> /\ soutAt = <<>> /\ sout = <<>> /\ place = [c \in Clients |-> 0]
      /\ down = [c \in Clients |-> <<>>] /\ downAt = [c \in Clients |-> <<>>]
  BY DEF Init, Server!Init, Client!ClientInit
<1>2. Len(<<>>) = 0 /\ 0 <= 0
  OBVIOUS
<1>3. \A c \in Clients : LineOrder(c)
  BY <1>1, <1>2, NoMarks DEF LineOrder, Sent, Coming
<1> QED
  BY <1>1, <1>3, NoMarks, EmptySeq DEF OrderInv

LEMMA ReadOrder ==
  ASSUME LineTypes, OrderInv, NEW c \in Clients, ClientReads(c)
  PROVE  /\ OrderInv'
         /\ connected[c] /\ Head(down[c]).type = "server_client" =>
              /\ Head(downAt[c]) \in 1 .. Len(log) /\ place[c] <= Head(downAt[c])
              /\ Head(down[c]).body = log[Head(downAt[c])]
<1> DEFINE q == down[c]
           at == downAt[c]
           h == Head(at)
<1>1. /\ q # <<>> /\ down' = [down EXCEPT ![c] = Tail(@)] /\ downAt' = [downAt EXCEPT ![c] = Tail(@)]
      /\ UNCHANGED <<sout, soutAt, log>>
      /\ \/ place' = place
         \/ Head(q).type = "server_client" /\ place' = [place EXCEPT ![c] = h]
  BY DEF ClientReads, Show, Client!OnMsg, Client!Next1, Client!OnRefusal, Client!OnWelcome,
         Client!OnNegativeAck, Client!OnPositiveAck, Client!Acked, Client!OnOther, Client!Take
<1>2. /\ q \in Seq(Told) /\ at \in Seq(Nat) /\ Len(at) = Len(q) /\ Rising(q, at, Shown)
      /\ Quoted(q, at, Shown, log) /\ LineOrder(c) /\ log \in Seq(Texts) /\ Len(log) \in Nat
      /\ place \in [Clients -> Nat] /\ place[c] \in Nat
  BY LenProperties DEF LineTypes, OrderInv, LineOrder
<1>3. /\ down'[c] = Tail(q) /\ downAt'[c] = Tail(at)
      /\ \A d \in Clients : d # c => UNCHANGED <<down[d], downAt[d], place[d]>>
      /\ downAt' = [downAt EXCEPT ![c] = downAt'[c]]
  BY <1>1 DEF LineTypes, OrderInv
<1>4. Head(q) \in Shown <=> Head(q).type = "server_client"
  <2>1. Head(q) \in Told
    BY <1>1, <1>2, HeadTail
  <2> QED
    BY <2>1 DEF Told, Replies, Shown
<1> HIDE DEF q, at, h
<1>5. /\ Tail(at) \in Seq(Nat) /\ Len(Tail(at)) = Len(Tail(q)) /\ h \in Nat
      /\ Marks(q, at, Shown) = Marks(Tail(q), Tail(at), Shown)
                                 \cup IF Head(q) \in Shown THEN {h} ELSE {}
      /\ Rising(Tail(q), Tail(at), Shown)
      /\ Head(q) \in Shown => \A x \in Marks(Tail(q), Tail(at), Shown) : h <= x
  BY <1>1, <1>2, MarksTail DEF h
<1>6. /\ Quoted(Tail(q), Tail(at), Shown, log)
      /\ Head(q) \in Shown => h \in 1 .. Len(log) /\ log[h] = Head(q).body
  BY <1>1, <1>2, QuotedTail DEF h
<1>7. /\ Coming(c) = Marks(q, at, Shown) /\ Coming(c)' = Marks(Tail(q), Tail(at), Shown)
      /\ Sent' = Sent /\ Coming(c)' \subseteq Coming(c)
      /\ Head(q) \in Shown => h \in Coming(c)
  BY <1>1, <1>3, <1>5 DEF Coming, Sent, q, at
<1>8. /\ Sent' = Sent /\ \A x \in Coming(c) \cup Sent : place[c] <= x
      /\ \A x \in Coming(c), y \in Sent : x <= y
      /\ place[c] <= Len(log)
  BY <1>2, <1>7 DEF LineOrder
<1>9. place' \in [Clients -> Nat]
  BY <1>1, <1>2, <1>5
<1>10. place'[c] <= Len(log) /\ \A x \in Coming(c)' \cup Sent : place'[c] <= x
  <2>1. CASE place' = place
    BY <1>7, <1>8, <2>1
  <2>2. CASE Head(q) \in Shown /\ place' = [place EXCEPT ![c] = h]
    <3>1. place'[c] = h /\ h \in Coming(c) /\ h <= Len(log)
      BY <1>2, <1>6, <1>7, <2>2
    <3>2. \A x \in Coming(c)' : h <= x
      BY <1>5, <1>7, <2>2
    <3>3. \A y \in Sent : h <= y
      BY <1>8, <3>1
    <3> QED
      BY <3>1, <3>2, <3>3
  <2> QED
    BY <1>1, <1>4, <2>1, <2>2
<1>11. LineOrder(c)'
  BY <1>1, <1>3, <1>5, <1>6, <1>7, <1>8, <1>10 DEF LineOrder
<1>12. \A d \in Clients : LineOrder(d)'
  <2>1. ASSUME NEW d \in Clients, d # c PROVE LineOrder(d)'
    <3>1. LineOrder(d) /\ UNCHANGED <<log, sout, soutAt, down[d], downAt[d], place[d]>>
      BY <1>1, <1>3, <2>1 DEF OrderInv
    <3> QED
      BY <3>1, SameLine
  <2> QED
    BY <1>11, <2>1
<1>13. downAt' \in [Clients -> Seq(Nat)]
  BY <1>3, <1>5 DEF OrderInv
<1>14. OrderInv'
  BY <1>1, <1>9, <1>12, <1>13 DEF OrderInv
<1>15. Head(q) \in Shown => h \in 1 .. Len(log) /\ place[c] <= h /\ Head(q).body = log[h]
  BY <1>6, <1>7, <1>8
<1> QED
  BY <1>4, <1>14, <1>15 DEF q, at, h

LEMMA StopOrder ==
  ASSUME LineTypes, OrderInv, NEW c \in Clients,
         down' = [down EXCEPT ![c] = <<>>], downAt' = [downAt EXCEPT ![c] = <<>>],
         UNCHANGED <<log, place, sout, soutAt>>
  PROVE  OrderInv'
<1>1. /\ down'[c] = <<>> /\ downAt'[c] = <<>>
      /\ \A d \in Clients : d # c => UNCHANGED <<down[d], downAt[d], place[d]>>
  BY DEF LineTypes, OrderInv
<1>2. downAt' \in [Clients -> Seq(Nat)]
  BY EmptySeq DEF OrderInv
<1>3. Coming(c)' = {} /\ Sent' = Sent
  BY <1>1, NoMarks DEF Coming, Sent
<1>4. LineOrder(c)
  BY DEF OrderInv
<1>5. LineOrder(c)'
  BY <1>1, <1>3, <1>4, NoMarks DEF LineOrder
<1>6. ASSUME NEW d \in Clients, d # c PROVE LineOrder(d)'
  <2>1. LineOrder(d) /\ UNCHANGED <<log, sout, soutAt, down[d], downAt[d], place[d]>>
    BY <1>1, <1>6 DEF OrderInv
  <2> QED
    BY <2>1, SameLine
<1> QED
  BY <1>2, <1>5, <1>6 DEF OrderInv

LEMMA DeliverOrder ==
  ASSUME LineTypes, OrderInv, OnServerReceived
  PROVE  OrderInv'
<1> DEFINE m == Head(sout)
           x == Head(soutAt)
           f == fds[m.sock]
<1>1. /\ sout # <<>> /\ sout' = Tail(sout) /\ soutAt' = Tail(soutAt) /\ m \in Told
      /\ UNCHANGED <<log, place>>
      /\ \/ UNCHANGED <<down, downAt>>
         \/ /\ f \in Clients /\ down' = [down EXCEPT ![f] = Append(@, m)]
            /\ downAt' = [downAt EXCEPT ![f] = Append(@, x)]
  BY Delivery
<1>2. /\ sout \in Seq(Told) /\ soutAt \in Seq(Nat) /\ Len(soutAt) = Len(sout)
      /\ Rising(sout, soutAt, Shown) /\ Quoted(sout, soutAt, Shown, log)
      /\ \A d \in Clients : down[d] \in Seq(Told) /\ downAt[d] \in Seq(Nat) /\ LineOrder(d)
  BY DEF LineTypes, OrderInv
<1> HIDE DEF m, x, f
<1>3. /\ soutAt' \in Seq(Nat) /\ Len(soutAt') = Len(sout') /\ x \in Nat
      /\ Sent = Sent' \cup IF m \in Shown THEN {x} ELSE {}
      /\ Rising(sout', soutAt', Shown)
      /\ m \in Shown => \A y \in Sent' : x <= y
  BY <1>1, <1>2, MarksTail DEF Sent, m, x
<1>4. /\ Quoted(sout', soutAt', Shown, log)
      /\ m \in Shown => x \in 1 .. Len(log) /\ log[x] = m.body
  BY <1>1, <1>2, QuotedTail DEF m, x
<1>5. Sent' \subseteq Sent /\ (m \in Shown => x \in Sent)
  BY <1>3
<1>6. ASSUME NEW d \in Clients, UNCHANGED <<down[d], downAt[d]>> PROVE LineOrder(d)'
  <2>1. Coming(d)' = Coming(d)
    BY <1>6 DEF Coming
  <2> QED
    BY <1>1, <1>2, <1>5, <1>6, <2>1 DEF LineOrder
<1>7. CASE UNCHANGED <<down, downAt>>
  BY <1>1, <1>3, <1>4, <1>6, <1>7 DEF OrderInv
<1>8. ASSUME NEW g \in Clients, down' = [down EXCEPT ![g] = Append(@, m)],
             downAt' = [downAt EXCEPT ![g] = Append(@, x)]
      PROVE  OrderInv'
  <2>1. /\ down'[g] = Append(down[g], m) /\ downAt'[g] = Append(downAt[g], x)
        /\ \A d \in Clients : d # g => UNCHANGED <<down[d], downAt[d]>>
    BY <1>8 DEF LineTypes, OrderInv
  <2>2. /\ Len(downAt[g]) = Len(down[g]) /\ Rising(down[g], downAt[g], Shown)
        /\ Quoted(down[g], downAt[g], Shown, log) /\ place[g] <= Len(log)
        /\ \A y \in Coming(g) \cup Sent : place[g] <= y
        /\ \A y \in Coming(g), z \in Sent : y <= z
        /\ down[g] \in Seq(Told) /\ downAt[g] \in Seq(Nat)
    BY <1>2, <1>8 DEF LineOrder
  <2>3. /\ downAt'[g] \in Seq(Nat) /\ Len(downAt'[g]) = Len(down'[g])
        /\ Coming(g)' = Coming(g) \cup IF m \in Shown THEN {x} ELSE {}
        /\ Rising(down'[g], downAt'[g], Shown)
    <3>1. m \in Shown => \A y \in Marks(down[g], downAt[g], Shown) : y <= x
      BY <1>5, <2>2 DEF Coming
    <3>2. m \in Told /\ x \in Nat
      BY <1>1, <1>3
    <3>3. /\ Append(downAt[g], x) \in Seq(Nat)
          /\ Len(Append(downAt[g], x)) = Len(Append(down[g], m))
          /\ Marks(Append(down[g], m), Append(downAt[g], x), Shown)
               = Marks(down[g], downAt[g], Shown) \cup IF m \in Shown THEN {x} ELSE {}
          /\ Rising(Append(down[g], m), Append(downAt[g], x), Shown)
      <4>1. /\ Len(downAt[g]) = Len(down[g]) /\ down[g] \in Seq(Told) /\ downAt[g] \in Seq(Nat)
        BY <2>2
      <4>2. Append(downAt[g], x) \in Seq(Nat)
        BY <4>1, <3>2, MarksAppend
      <4>3. Len(Append(downAt[g], x)) = Len(Append(down[g], m))
        BY <4>1, <3>2, MarksAppend
      <4>4. Marks(Append(down[g], m), Append(downAt[g], x), Shown)
               = Marks(down[g], downAt[g], Shown) \cup IF m \in Shown THEN {x} ELSE {}
        <5>1. m \in Shown => Marks(Append(down[g], m), Append(downAt[g], x), Shown)
                               = Marks(down[g], downAt[g], Shown) \cup {x}
          BY <4>1, <3>2, MarksAppend
        <5>2. m \notin Shown => Marks(Append(down[g], m), Append(downAt[g], x), Shown)
                                  = Marks(down[g], downAt[g], Shown)
          BY <4>1, <3>2, MarksAppend
        <5> QED
          BY <5>1, <5>2
      <4>5. Rising(Append(down[g], m), Append(downAt[g], x), Shown)
        BY <4>1, <2>2, <3>1, <3>2, MarksAppend
      <4> QED
        BY <4>2, <4>3, <4>4, <4>5
    <3> QED
      BY <2>1, <3>3 DEF Coming
  <2>4. Quoted(down'[g], downAt'[g], Shown, log)
    <3>1. m \in Told /\ x \in Nat
      BY <1>1, <1>3
    <3>2. Quoted(Append(down[g], m), Append(downAt[g], x), Shown, log)
      BY <1>4, <2>2, <3>1, QuotedAppend
    <3> QED
      BY <2>1, <3>2
  <2>5. \A y \in Coming(g)' \cup Sent' : place[g] <= y
    BY <1>5, <2>2, <2>3
  <2>6. \A y \in Coming(g)', z \in Sent' : y <= z
    BY <1>3, <1>5, <2>2, <2>3
  <2>7. LineOrder(g)'
    BY <1>1, <2>2, <2>3, <2>4, <2>5, <2>6 DEF LineOrder
  <2>8. downAt' \in [Clients -> Seq(Nat)]
    BY <1>8, <2>1, <2>3 DEF OrderInv
  <2>9. \A d \in Clients : LineOrder(d)'
    BY <1>6, <2>1, <2>7
  <2> QED
    BY <1>1, <1>3, <1>4, <2>8, <2>9 DEF OrderInv
<1> QED
  BY <1>1, <1>7, <1>8

(* What the server sends is marked with the length of the log.             *)
LEMMA Marked ==
  ASSUME LineTypes, OrderInv, NEW r \in Seq(Told), sout' = sout \o r,
         NEW n \in Nat, n = Len(log'),
         soutAt' = [k \in DOMAIN sout' |->
                       IF k \in DOMAIN sout THEN soutAt[k]
                       ELSE IF sout'[k].type = "server_client" THEN Len(log') ELSE 0]
  PROVE  sout' \in Seq(Told) /\ Labelled(sout, soutAt, r, soutAt', Shown, n)
<1>1. PICK s : s = sout'
  OBVIOUS
<1>2. PICK w : w = soutAt'
  OBVIOUS
<1>3. PICK l : l = Len(sout)
  OBVIOUS
<1>4. PICK e : e = Len(r)
  OBVIOUS
<1>5. /\ s = sout \o r /\ s \in Seq(Told) /\ l \in Nat /\ e \in Nat /\ l + e \in Nat
      /\ Len(s) = l + e /\ DOMAIN sout = 1 .. l /\ DOMAIN r = 1 .. e /\ DOMAIN s = 1 .. l + e
      /\ \A k \in 1 .. l + e : s[k] = IF k <= l THEN sout[k] ELSE r[k - l]
      /\ \A k \in 1 .. l : soutAt[k] \in Nat
  <2>1. sout \in Seq(Told) /\ soutAt \in Seq(Nat) /\ Len(soutAt) = Len(sout)
    BY DEF LineTypes, OrderInv
  <2>2. l \in Nat /\ e \in Nat /\ DOMAIN sout = 1 .. l /\ DOMAIN r = 1 .. e
    BY <1>3, <1>4, <2>1, LenProperties
  <2>3. sout \o r \in Seq(Told) /\ Len(sout \o r) = l + e
        /\ \A k \in 1 .. l + e : (sout \o r)[k] = IF k <= l THEN sout[k] ELSE r[k - l]
    BY <1>3, <1>4, <2>1, ConcatProperties
  <2>4. DOMAIN (sout \o r) = 1 .. l + e
    BY <2>3, LenProperties
  <2>5. \A k \in 1 .. l : soutAt[k] \in Nat
    BY <1>3, <2>1, ElementOfSeq
  <2> QED
    BY <1>1, <2>2, <2>3, <2>4, <2>5
<1>6. w = [k \in 1 .. l + e |-> IF k \in 1 .. l THEN soutAt[k]
                                ELSE IF s[k].type = "server_client" THEN n ELSE 0]
  BY <1>1, <1>2, <1>5
<1>7. w \in Seq(Nat) /\ Len(w) = l + e
  <2>1. \A k \in 1 .. l + e : (IF k \in 1 .. l THEN soutAt[k]
                                ELSE IF s[k].type = "server_client" THEN n ELSE 0) \in Nat
    BY <1>5
  <2>2. w \in [1 .. l + e -> Nat] /\ DOMAIN w = 1 .. l + e
    BY <1>6, <2>1
  <2>3. w \in Seq(Nat)
    BY <1>5, <2>2, SeqDef
  <2>4. Len(w) \in Nat /\ DOMAIN w = 1 .. Len(w)
    BY <2>3, LenProperties
  <2>5. \A x, y \in Nat : 1 .. x = 1 .. y => x = y
    <3> SUFFICES ASSUME NEW x \in Nat, NEW y \in Nat, 1 .. x = 1 .. y, x < y PROVE FALSE
      OBVIOUS
    <3>1. y \in 1 .. y
      OBVIOUS
    <3> QED
      BY <3>1
  <2> QED
    BY <1>5, <2>2, <2>3, <2>4, <2>5
<1>8. \A k \in 1 .. l : w[k] = soutAt[k]
  BY <1>5, <1>6
<1>9. ASSUME NEW k \in At(r, Shown) PROVE w[l + k] = n
  <2>1. k \in 1 .. e /\ r[k] \in Shown
    BY <1>5 DEF At
  <2>2. l + k \in 1 .. l + e /\ l + k \notin 1 .. l /\ ~(l + k <= l) /\ (l + k) - l = k
    BY <1>5, <2>1
  <2>3. s[l + k] = r[k] /\ r[k] \in Told
    BY <1>5, <2>1, <2>2, ElementOfSeq, <1>4
  <2>4. s[l + k].type = "server_client"
    BY <2>1, <2>3 DEF Told, Replies, Shown
  <2> QED
    BY <1>6, <2>2, <2>4
<1> QED
  BY <1>1, <1>2, <1>3, <1>5, <1>7, <1>8, <1>9 DEF Labelled

(* Nothing but a delivery sends copies.                                    *)
LEMMA NoCopies ==
  ASSUME NEW m \in Heard, NEW r, Welcoming(m, r) \/ Declines(m, r)
  PROVE  At(r, Shown) = {}
<1>1. r = <<>> \/ \E a \in Told : r = <<a>> /\ a \notin Shown
  BY ToldMsgs DEF Welcoming, Declines
<1>2. ASSUME NEW a \in Told, r = <<a>>, a \notin Shown PROVE At(r, Shown) = {}
  <2>1. DOMAIN <<a>> = {1} /\ <<a>>[1] = a
    OBVIOUS
  <2> QED
    BY <1>2, <2>1 DEF At
<1> QED
  BY <1>1, <1>2, NoMarks

LEMMA ServerOrder ==
  ASSUME LineTypes, OrderInv, ServerReads
  PROVE  OrderInv'
<1>1. PICK m \in Heard, r \in Seq(Told) :
        /\ sout' = sout \o r
        /\ soutAt' = [k \in DOMAIN sout' |->
                         IF k \in DOMAIN sout THEN soutAt[k]
                         ELSE IF sout'[k].type = "server_client" THEN Len(log') ELSE 0]
        /\ UNCHANGED <<down, place, downAt>>
        /\ Delivers(m, r) \/ Welcoming(m, r) \/ Declines(m, r)
  BY Served
<1>2. PICK n : n = Len(log')
  OBVIOUS
<1>3. PICK l : l = log'
  OBVIOUS
<1>4. /\ log \in Seq(Texts) /\ Len(log) \in Nat /\ sout \in Seq(Told) /\ soutAt \in Seq(Nat)
      /\ Len(soutAt) = Len(sout) /\ Rising(sout, soutAt, Shown)
      /\ Quoted(sout, soutAt, Shown, log)
      /\ \A d \in Clients : LineOrder(d) /\ down[d] \in Seq(Told) /\ downAt[d] \in Seq(Nat)
  BY LenProperties DEF LineTypes, OrderInv
<1>5. /\ l \in Seq(Texts) /\ n \in Nat /\ Len(log) <= n /\ n = Len(l)
      /\ \A q, at : Quoted(q, at, Shown, log) => Quoted(q, at, Shown, l)
      /\ \A k \in At(r, Shown) : n \in 1 .. Len(l) /\ l[n] = r[k].body
  <2>1. CASE Delivers(m, r)
    <3>1. m.body \in Texts /\ l = Append(log, m.body) /\ \A k \in At(r, Shown) : r[k].body = m.body
      BY <1>3, <2>1 DEF Delivers
    <3>2. l \in Seq(Texts) /\ Len(l) = Len(log) + 1 /\ l[Len(log) + 1] = m.body
      BY <1>4, <3>1, AppendProperties
    <3>3. n = Len(log) + 1 /\ n \in Nat /\ n \in 1 .. Len(l) /\ Len(log) <= n
      BY <1>2, <1>3, <1>4, <3>2
    <3>4. \A q, at : Quoted(q, at, Shown, log) => Quoted(q, at, Shown, l)
      BY <1>4, <3>1, QuotedMore
    <3> QED
      BY <3>1, <3>2, <3>3, <3>4
  <2>2. CASE Welcoming(m, r) \/ Declines(m, r)
    <3>1. l = log /\ n = Len(log)
      BY <1>2, <1>3, <2>2 DEF Welcoming, Declines
    <3> QED
      BY <1>4, <2>2, <3>1, NoCopies
  <2> QED
    BY <1>1, <2>1, <2>2
<1>6. sout' \in Seq(Told) /\ Labelled(sout, soutAt, r, soutAt', Shown, n)
  BY <1>1, <1>2, <1>5, Marked
<1>7. Sent \subseteq 1 .. Len(log) /\ \A x \in Sent : x <= n
  <2>1. Sent \subseteq 1 .. Len(log)
    BY <1>4, MarksType DEF Sent
  <2>2. \A x \in 1 .. Len(log) : x <= n
    BY <1>4, <1>5
  <2> QED
    BY <2>1, <2>2
<1>8. /\ soutAt' \in Seq(Nat) /\ Len(soutAt') = Len(sout') /\ Rising(sout', soutAt', Shown)
      /\ Sent' = Sent \cup IF At(r, Shown) = {} THEN {} ELSE {n}
  <2>1. \A x \in Marks(sout, soutAt, Shown) : x <= n
    BY <1>7 DEF Sent
  <2>2. PICK w : w = soutAt'
    OBVIOUS
  <2>3. Labelled(sout, soutAt, r, w, Shown, n)
    BY <1>6, <2>2
  <2>4. w \in Seq(Nat) /\ Len(w) = Len(sout \o r)
    BY <2>3 DEF Labelled
  <2>5. Rising(sout \o r, w, Shown)
    BY <1>4, <1>5, <2>1, <2>3, MarksConcat
  <2>6. /\ Marks(sout, soutAt, Shown) \subseteq Marks(sout \o r, w, Shown)
        /\ Marks(sout \o r, w, Shown) \subseteq Marks(sout, soutAt, Shown) \cup {n}
        /\ \A k \in At(r, Shown) : n \in Marks(sout \o r, w, Shown)
        /\ At(r, Shown) = {} => Marks(sout \o r, w, Shown) \subseteq Marks(sout, soutAt, Shown)
    BY <1>4, <1>5, <2>3, MarksConcat
  <2>7. Marks(sout \o r, w, Shown)
          = Marks(sout, soutAt, Shown) \cup IF At(r, Shown) = {} THEN {} ELSE {n}
    BY <2>6
  <2> QED
    BY <1>1, <2>2, <2>4, <2>5, <2>7 DEF Sent
<1>9. Quoted(sout', soutAt', Shown, l)
  <2>1. Quoted(sout, soutAt, Shown, l)
    BY <1>4, <1>5
  <2>2. PICK w : w = soutAt'
    OBVIOUS
  <2>3. Labelled(sout, soutAt, r, w, Shown, n)
    BY <1>6, <2>2
  <2>4. Quoted(sout \o r, w, Shown, l)
    BY <1>4, <1>5, <2>1, <2>3, QuotedConcat
  <2> QED
    BY <1>1, <2>2, <2>4
<1>10. ASSUME NEW d \in Clients PROVE LineOrder(d)'
  <2>1. /\ Len(downAt[d]) = Len(down[d]) /\ Rising(down[d], downAt[d], Shown)
        /\ Quoted(down[d], downAt[d], Shown, log) /\ place[d] <= Len(log)
        /\ \A x \in Coming(d) \cup Sent : place[d] <= x
        /\ \A x \in Coming(d), y \in Sent : x <= y
    BY <1>4 DEF LineOrder
  <2>2. UNCHANGED <<down[d], downAt[d], place[d]>> /\ Coming(d)' = Coming(d)
    BY <1>1 DEF Coming
  <2>3. Coming(d) \subseteq 1 .. Len(log) /\ place[d] \in Nat
    BY <1>4, <2>1, MarksType DEF Coming, OrderInv
  <2>4. place[d] <= n /\ \A x \in Coming(d) : x <= n
    BY <1>4, <1>5, <2>1, <2>3
  <2>5. Quoted(down[d], downAt[d], Shown, l)
    BY <1>5, <2>1
  <2>6. \A x \in Sent' : x \in Sent \/ x = n
    BY <1>8
  <2> QED
    BY <1>2, <1>3, <2>1, <2>2, <2>4, <2>5, <2>6 DEF LineOrder
<1> QED
  BY <1>1, <1>3, <1>5, <1>8, <1>9, <1>10 DEF OrderInv

(* Whoever leaves, what comes is in the order of the conversation.         *)
LEMMA NextOrder ==
  ASSUME LineTypes, OrderInv, [Next]_vars
  PROVE  OrderInv'
<1>1. ASSUME NEW c \in Clients, Join(c) PROVE OrderInv'
  <2>1. UNCHANGED <<log, place, sout, soutAt, down, downAt>>
    BY <1>1 DEF Join, Client!Start, seen
  <2> QED
    BY <2>1, OrderStays
<1>2. ASSUME NEW c \in Clients, Leave(c) \/ ClientReadsBeyond(c) PROVE OrderInv'
  <2>1. /\ down' = [down EXCEPT ![c] = <<>>] /\ downAt' = [downAt EXCEPT ![c] = <<>>]
        /\ UNCHANGED <<log, place, sout, soutAt>>
    BY <1>2 DEF Leave, ClientReadsBeyond, Client!Leave, Client!ReadBeyond, Client!Stop
  <2> QED
    BY <2>1, StopOrder
<1>3. ASSUME NEW c \in Clients, UserActs(c) PROVE OrderInv'
  <2>1. UNCHANGED <<sout, log, place, soutAt, downAt>>
    BY <1>3 DEF UserActs, seen
  <2>2. ASSUME NEW p \in Names, Client!Login(c, p) PROVE down' = down
    BY <2>2 DEF Client!Login, Client!RequestLogin
  <2>3. ASSUME NEW t \in Texts \cup {Blank}, Client!Speak(c, t) PROVE down' = down
    BY <2>3 DEF Client!Speak, Client!Say, Client!SayGrowing
  <2>4. down' = down
    BY <1>3, <2>2, <2>3, TypedText
  <2> QED
    BY <2>1, <2>4, OrderStays
<1>4. ASSUME NEW c \in Clients, ClientReads(c) PROVE OrderInv'
  BY <1>4, ReadOrder
<1>5. ASSUME NEW j \in PollSlots, OnClientReceived(j) \/ OnClientLeft(j) \/ OnClientReset(j)
      PROVE  OrderInv'
  <2>1. UNCHANGED <<log, place, sout, soutAt, down, downAt>>
    BY <1>5 DEF OnClientReceived, OnClientLeft, OnClientReset, seen
  <2> QED
    BY <2>1, OrderStays
<1>6. ASSUME Compress \/ Tick \/ UNCHANGED vars PROVE OrderInv'
  <2>1. UNCHANGED <<log, place, sout, soutAt, down, downAt>>
    BY <1>6 DEF Compress, Tick, Server!Tick, Server!state, seen, vars
  <2> QED
    BY <2>1, OrderStays
<1>7. CASE OnServerReceived
  BY <1>7, DeliverOrder
<1>8. CASE ServerReads
  BY <1>8, ServerOrder
<1> QED
  BY <1>1, <1>2, <1>3, <1>4, <1>5, <1>6, <1>7, <1>8 DEF Next, Proxy

(* In every order of joins, departures, logins and texts, the texts that   *)
(* on_server_received has still to pass on and those in the socket of a    *)
(* client are in the order in which the server took them, and none of them *)
(* is one that the client has left behind.                                 *)
THEOREM Lines == Spec => [](LineTypes /\ OrderInv)
<1>1. Init => LineTypes /\ OrderInv
  BY InitLines, InitOrder
<1>2. LineTypes /\ OrderInv /\ [Next]_vars => (LineTypes /\ OrderInv)'
  BY NextLines, NextOrder
<1> QED
  BY <1>1, <1>2, PTL DEF Spec

-----------------------------------------------------------------------------
(* As long as nobody leaves, what is on its way to a client is the end of  *)
(* the log, or some texts before it that come without a gap.               *)
Left(c)  == Marks(sout, soutAt, Shown \cap Of(c))
Holds(c) == {i \in Server!CSlots : clients[i] # Null /\ clients[i].sock \in SlotOf(c)}

(* No welcome has come, nor comes.                                         *)
Unwelcomed(c) ==
    /\ ~connected[c] /\ Count(down[c], Welcomes) = 0 /\ Count(sout, Welcomes \cap Of(c)) = 0

(* Only who is welcomed has a session, and nobody two.                     *)
Session(c) ==
    /\ \A i, j \in Holds(c) : i = j
    /\ ~connected[c] => place[c] = 0
    /\ Unwelcomed(c) => Coming(c) = {} /\ Left(c) = {} /\ Holds(c) = {}

(* The client has shown a texts, or none; those to e are in its socket,    *)
(* those to b in the server's.                                             *)
Follows(c, a, e, b) ==
    /\ a <= e /\ e <= b /\ b <= Len(log)
    /\ Coming(c) = a + 1 .. e /\ Left(c) = e + 1 .. b /\ place[c] \in {0, a}
    /\ Holds(c) # {} => b = Len(log)

NoGap(c) ==
    /\ Strictly(down[c], downAt[c], Shown) /\ Strictly(sout, soutAt, Shown \cap Of(c))
    /\ \E a, e, b \in Nat : Follows(c, a, e, b)

GapInv == \A c \in Clients : Session(c) /\ NoGap(c)

(* What the steps that come do not touch.                                  *)
LEMMA SameLeft ==
  ASSUME WireInv, NEW c \in Clients, UNCHANGED <<sout, soutAt>>,
         \A j \in Live : j \in SlotOf(c)' <=> j \in SlotOf(c)
  PROVE  /\ Left(c)' = Left(c)
         /\ Strictly(sout', soutAt', Shown \cap Of(c)') <=> Strictly(sout, soutAt, Shown \cap Of(c))
         /\ Count(sout', Welcomes \cap Of(c)') = Count(sout, Welcomes \cap Of(c))
<1>1. \A k \in DOMAIN sout : sout[k].sock \in Live
  BY QueueMsgs
<1>2. \A S : At(sout, S \cap Of(c)') = At(sout, S \cap Of(c))
  BY <1>1 DEF At, Of
<1> QED
  BY <1>2 DEF Left, Marks, Strictly, Count

LEMMA SameHolds ==
  ASSUME WireInv, NEW c \in Clients, clients' = clients,
         \A j \in Live : j \in SlotOf(c)' <=> j \in SlotOf(c)
  PROVE  Holds(c)' = Holds(c)
<1>1. \A i \in Server!CSlots : clients[i] # Null => clients[i].sock \in Live
  BY DEF WireInv, ServerTypes, Sessions
<1> QED
  BY <1>1 DEF Holds

LEMMA SilentGap ==
  ASSUME WireInv, NEW c \in Clients, Session(c), NoGap(c),
         UNCHANGED <<sout, soutAt, log, clients, down[c], downAt[c], place[c], connected[c]>>,
         \A j \in Live : j \in SlotOf(c)' <=> j \in SlotOf(c)
  PROVE  Session(c)' /\ NoGap(c)'
<1>1. /\ Left(c)' = Left(c)
      /\ Strictly(sout', soutAt', Shown \cap Of(c)') <=> Strictly(sout, soutAt, Shown \cap Of(c))
      /\ Count(sout', Welcomes \cap Of(c)') = Count(sout, Welcomes \cap Of(c))
  BY SameLeft
<1>2. Holds(c)' = Holds(c)
  BY SameHolds
<1>3. Coming(c)' = Coming(c)
  BY DEF Coming
<1>4. Unwelcomed(c)' <=> Unwelcomed(c)
  BY <1>1 DEF Unwelcomed
<1>5. Session(c)'
  BY <1>1, <1>2, <1>3, <1>4 DEF Session
<1>6. PICK a \in Nat, e \in Nat, b \in Nat : Follows(c, a, e, b)
  BY DEF NoGap
<1>7. Follows(c, a, e, b)'
  BY <1>1, <1>2, <1>3, <1>6 DEF Follows
<1>8. NoGap(c)'
  BY <1>1, <1>7 DEF NoGap
<1> QED
  BY <1>5, <1>8

LEMMA FirstMark ==
  ASSUME NEW a \in Nat, NEW e \in Nat, NEW D, NEW h, D \cup {h} = a + 1 .. e,
         \A x \in D : h < x
  PROVE  h = a + 1 /\ a + 1 <= e /\ D = a + 2 .. e
<1>1. h \in a + 1 .. e /\ D \subseteq a + 1 .. e
  OBVIOUS
<1>2. a + 1 \in a + 1 .. e
  BY <1>1
<1>3. h = a + 1
  BY <1>1, <1>2
<1>4. ASSUME NEW x \in D PROVE x \in a + 2 .. e
  BY <1>1, <1>3, <1>4
<1>5. ASSUME NEW x \in a + 2 .. e PROVE x \in D
  <2>1. x \in a + 1 .. e /\ x # h
    BY <1>3, <1>5
  <2> QED
    BY <2>1
<1> QED
  <2>1. D = a + 2 .. e
    BY <1>4, <1>5
  <2>2. a + 1 <= e
    BY <1>1, <1>3
  <2> QED
    BY <1>3, <2>1, <2>2

(* A welcome is for a client that waits.                                   *)
LEMMA WelcomeAwaited ==
  ASSUME WireInv, TalkInv, NEW c \in Clients, down[c] # <<>>, Head(down[c]) \in Welcomes
  PROVE  waiting[c]
<1>1. /\ down[c] \in Seq(Replies) /\ up[c] \in Seq(Asked) /\ sin \in Seq(Asked)
      /\ sout \in Seq(Replies)
  BY QueueMsgs
<1>2. Welcomes \subseteq LoginAnswers
  BY DEF Welcomes, LoginAnswers
<1>3. /\ Count(down[c], LoginAnswers) = Count(Tail(down[c]), LoginAnswers)
                                          + IF Head(down[c]) \in LoginAnswers THEN 1 ELSE 0
      /\ Tail(down[c]) \in Seq(Replies)
  BY <1>1, CountTail
<1>4. /\ Count(Tail(down[c]), LoginAnswers) \in Nat /\ Count(up[c], Logins) \in Nat
      /\ Count(sin, Logins \cap Of(c)) \in Nat /\ Count(sout, LoginAnswers \cap Of(c)) \in Nat
  BY <1>1, <1>3, CountType
<1>5. Flow(c, Logins, LoginAnswers) > 0
  <2>1. Count(down[c], LoginAnswers) = Count(Tail(down[c]), LoginAnswers) + 1
    BY <1>2, <1>3
  <2>2. \A u, v, w, x \in Nat : u + v + w + (x + 1) > 0
    OBVIOUS
  <2> QED
    BY <1>4, <2>1, <2>2 DEF Flow
<1>6. Flow(c, Logins, LoginAnswers) <= IF waiting[c] THEN 1 ELSE 0
  BY DEF TalkInv, Talk, LoginInv
<1>7. Flow(c, Logins, LoginAnswers) \in Nat
  BY FlowType
<1> QED
  BY <1>5, <1>6, <1>7

LEMMA ReadGap ==
  ASSUME LineTypes, OrderInv, WireInv, TalkInv, NEW c \in Clients, ClientReads(c),
         Session(c), NoGap(c)
  PROVE  Session(c)' /\ NoGap(c)'
<1> DEFINE q == down[c]
           at == downAt[c]
           h == Head(at)
<1>1. /\ q # <<>> /\ down' = [down EXCEPT ![c] = Tail(@)] /\ downAt' = [downAt EXCEPT ![c] = Tail(@)]
      /\ UNCHANGED <<sout, soutAt, log, clients, fds, nbFds>>
      /\ IF connected[c] /\ Head(q).type = "server_client" THEN place' = [place EXCEPT ![c] = h]
         ELSE place' = place
  BY DEF ClientReads, Show, Client!OnMsg, Client!Next1, Client!OnRefusal, Client!OnWelcome,
         Client!OnNegativeAck, Client!OnPositiveAck, Client!Acked, Client!OnOther, Client!Take,
         serverSide, proxySide, table
<1>2. /\ q \in Seq(Told) /\ at \in Seq(Nat) /\ Len(at) = Len(q) /\ place \in [Clients -> Nat]
      /\ connected \in [Clients -> BOOLEAN]
  BY DEF LineTypes, LoginTypes, OrderInv, LineOrder
<1>3. down'[c] = Tail(q) /\ downAt'[c] = Tail(at) /\ Head(q) \in Told
  BY <1>1, <1>2, HeadTail DEF LineTypes, OrderInv
<1>4. Head(q) \in Shown <=> Head(q).type = "server_client"
  BY <1>3 DEF Told, Replies, Shown
<1>5. \/ connected' = connected /\ ~(waiting[c] /\ Head(q).type = "well_connected")
      \/ connected'[c] = TRUE
  <2>1. PICK m \in Client!Next1(c) :
          \/ Client!OnRefusal(c, m) \/ Client!OnWelcome(c, m) \/ Client!OnNegativeAck(c, m)
          \/ Client!OnPositiveAck(c, m) \/ Client!OnOther(c, m)
    BY DEF ClientReads, Client!OnMsg
  <2>2. m = Head(q)
    BY <2>1 DEF Client!Next1
  <2>3. CASE Client!OnWelcome(c, m)
    BY <1>2, <2>3 DEF Client!OnWelcome
  <2>4. CASE Client!OnRefusal(c, m) \/ Client!OnNegativeAck(c, m) \/ Client!OnPositiveAck(c, m)
    BY <2>2, <2>4 DEF Client!OnRefusal, Client!OnNegativeAck, Client!OnPositiveAck, Client!Acked,
                      Client!login
  <2>5. CASE Client!OnOther(c, m)
    BY <2>2, <2>5 DEF Client!OnOther, Client!login
  <2> QED
    BY <2>1, <2>3, <2>4, <2>5
<1>6. Head(q) \in Welcomes => waiting[c]
  BY <1>1, WelcomeAwaited
<1> HIDE DEF q, at, h
<1>7. /\ h \in Nat
      /\ Marks(q, at, Shown) = Marks(Tail(q), Tail(at), Shown)
                                 \cup IF Head(q) \in Shown THEN {h} ELSE {}
  BY <1>1, <1>2, MarksTail DEF h
<1>8. Strictly(q, at, Shown)
  BY DEF NoGap, q, at
<1>9. /\ Strictly(Tail(q), Tail(at), Shown)
      /\ Head(q) \in Shown => \A x \in Marks(Tail(q), Tail(at), Shown) : h < x
  BY <1>1, <1>2, <1>8, MarksTail DEF h
<1>10. /\ Coming(c) = Marks(q, at, Shown) /\ Coming(c)' = Marks(Tail(q), Tail(at), Shown)
       /\ Count(q, Welcomes) = Count(Tail(q), Welcomes) + IF Head(q) \in Welcomes THEN 1 ELSE 0
  BY <1>1, <1>2, <1>3, CountTail DEF Coming, q, at
<1>11. SlotOf(c)' = SlotOf(c) /\ Of(c)' = Of(c)
  BY <1>1, SameSlots
<1>12. Left(c)' = Left(c) /\ Holds(c)' = Holds(c)
  BY <1>1, <1>11 DEF Left, Holds
<1>13. ASSUME ~connected'[c]
       PROVE  /\ place'[c] = place[c] /\ ~connected[c]
              /\ Unwelcomed(c)' => Unwelcomed(c)
  <2>1. ~connected[c] /\ connected' = connected
    BY <1>5, <1>13
  <2>2. place' = place
    BY <1>1, <2>1
  <2>3. ~(waiting[c] /\ Head(q).type = "well_connected")
    BY <1>5, <1>13
  <2>4. Head(q) \notin Welcomes
    BY <1>6, <2>3 DEF Welcomes
  <2>5. Count(Tail(q), Welcomes) = 0 => Count(q, Welcomes) = 0
    BY <1>10, <2>4
  <2>6. Unwelcomed(c)' => Unwelcomed(c)
    BY <1>1, <1>3, <1>11, <2>1, <2>5 DEF Unwelcomed, q
  <2> QED
    BY <2>1, <2>2, <2>6
<1>14. Session(c)'
  <2>1. Coming(c)' \subseteq Coming(c)
    BY <1>7, <1>10
  <2>2. Unwelcomed(c)' => ~connected'[c]
    BY DEF Unwelcomed
  <2> QED
    BY <1>12, <1>13, <2>1, <2>2 DEF Session
<1>15. PICK a \in Nat, e \in Nat, b \in Nat : Follows(c, a, e, b)
  BY DEF NoGap
<1>16. \E x \in Nat : Follows(c, x, e, b)'
  <2>1. CASE Head(q) \notin Shown
    <3>1. place' = place /\ Coming(c)' = Coming(c)
      BY <1>1, <1>4, <1>7, <1>10, <2>1
    <3>2. Follows(c, a, e, b)'
      BY <1>1, <1>12, <1>15, <3>1 DEF Follows
    <3> QED
      BY <3>2
  <2>2. CASE Head(q) \in Shown
    <3>1. h = a + 1 /\ a + 1 <= e /\ Coming(c)' = a + 2 .. e
      <4>1. Coming(c)' \cup {h} = a + 1 .. e /\ \A x \in Coming(c)' : h < x
        BY <1>7, <1>9, <1>10, <1>15, <2>2 DEF Follows
      <4> QED
        BY <4>1, FirstMark
    <3>2. place'[c] \in {0, a + 1}
      <4>1. CASE connected[c]
        BY <1>1, <1>2, <1>4, <2>2, <3>1, <4>1
      <4>2. CASE ~connected[c]
        <5>1. place' = place /\ place[c] = 0
          BY <1>1, <4>2 DEF Session
        <5> QED
          BY <5>1
      <4> QED
        BY <4>1, <4>2
    <3>3. a + 1 \in Nat /\ (a + 1) + 1 = a + 2
      OBVIOUS
    <3>4. Follows(c, a + 1, e, b)'
      BY <1>1, <1>12, <1>15, <3>1, <3>2, <3>3 DEF Follows
    <3> QED
      BY <3>3, <3>4
  <2> QED
    BY <2>1, <2>2
<1>17. Strictly(sout', soutAt', Shown \cap Of(c)')
  BY <1>1, <1>11 DEF NoGap
<1>18. NoGap(c)'
  BY <1>3, <1>9, <1>16, <1>17 DEF NoGap
<1> QED
  BY <1>14, <1>18

LEMMA DeliverGap ==
  ASSUME LineTypes, OrderInv, WireInv, NobodyLeft, OnServerReceived, NEW c \in Clients,
         Session(c), NoGap(c)
  PROVE  Session(c)' /\ NoGap(c)'
<1> DEFINE m == Head(sout)
           x == Head(soutAt)
           f == fds[m.sock]
<1>1. /\ sout # <<>> /\ sout' = Tail(sout) /\ soutAt' = Tail(soutAt) /\ m \in Told
      /\ UNCHANGED <<connected, clients, log, place, fds, nbFds>>
  BY Delivery
<1>2. m.sock \in Live
  <2>1. sout \in Seq(SoutMsgs)
    BY DEF WireInv, QueueTypes
  <2>2. m \in SoutMsgs
    BY <1>1, <2>1, HeadTail
  <2> QED
    BY <2>2, QueueMsgs
<1>3. f \in Clients /\ reset = {} /\ proc[f] # "gone"
  BY <1>2 DEF WireInv, TableInv, NobodyLeft
<1>4. IF Discarded(m) THEN UNCHANGED <<down, downAt>>
      ELSE /\ down' = [down EXCEPT ![f] = Append(@, m)]
           /\ downAt' = [downAt EXCEPT ![f] = Append(@, x)]
  BY <1>3 DEF OnServerReceived
<1>5. m \in Shown \cup Welcomes => ~Discarded(m)
  <2>1. m.sock # -1 /\ ~(m.sock >= nbFds)
    BY <1>2 DEF Live, WireInv, TableInv
  <2>2. m \in Shown => m.len > 0
    BY <1>1 DEF Told, Shown, Msgs
  <2> QED
    BY <2>1, <2>2 DEF Discarded, Passed, MayBeEmpty, Welcomes
<1>6. m \in Of(c) <=> f = c
  BY <1>1, <1>2, PlaceOf DEF Of, Told, Replies
<1>7. /\ sout \in Seq(Told) /\ soutAt \in Seq(Nat) /\ Len(soutAt) = Len(sout)
      /\ down[c] \in Seq(Told) /\ downAt[c] \in Seq(Nat) /\ Len(downAt[c]) = Len(down[c])
  BY DEF LineTypes, OrderInv, LineOrder
<1> HIDE DEF m, x, f
<1> DEFINE S == Shown \cap Of(c)
           W == Welcomes \cap Of(c)
<1>8. SlotOf(c)' = SlotOf(c) /\ Of(c)' = Of(c)
  BY <1>1, SameSlots
<1>9. Holds(c)' = Holds(c) /\ Left(c) = Marks(sout, soutAt, S) /\ Left(c)' = Marks(sout', soutAt', S)
  BY <1>1, <1>8 DEF Left, Holds
<1>10. Strictly(sout, soutAt, S)
  BY DEF NoGap
<1> HIDE DEF S, W
<1>11. /\ x \in Nat /\ Left(c) = Left(c)' \cup IF m \in S THEN {x} ELSE {}
       /\ Strictly(sout', soutAt', S) /\ (m \in S => \A y \in Left(c)' : x < y)
  BY <1>1, <1>7, <1>9, <1>10, MarksTail DEF m, x
<1>12. /\ Count(sout, W) = Count(sout', W) + IF m \in W THEN 1 ELSE 0
       /\ Count(sout, W) \in Nat /\ Count(sout', W) \in Nat /\ Count(down[c], Welcomes) \in Nat
  <2>1. Count(sout, W) = Count(sout', W) + IF m \in W THEN 1 ELSE 0
    BY <1>1, <1>7, CountTail DEF m
  <2>2. sout' \in Seq(Told)
    BY <1>1, <1>7, HeadTail
  <2> QED
    BY <1>7, <2>1, <2>2, CountType
<1>13. PICK a \in Nat, e \in Nat, b \in Nat : Follows(c, a, e, b)
  BY DEF NoGap
<1>14. ASSUME UNCHANGED <<down[c], downAt[c]>>, m \notin S, m \notin W
       PROVE  Session(c)' /\ NoGap(c)'
  <2>1. Coming(c)' = Coming(c) /\ Left(c)' = Left(c) /\ Count(sout', W) = Count(sout, W)
    BY <1>11, <1>12, <1>14 DEF Coming
  <2>2. Unwelcomed(c)' <=> Unwelcomed(c)
    BY <1>1, <1>8, <1>14, <2>1 DEF Unwelcomed, W
  <2>3. Session(c)'
    BY <1>1, <1>9, <2>1, <2>2 DEF Session
  <2>4. Follows(c, a, e, b)'
    BY <1>1, <1>9, <1>13, <2>1 DEF Follows
  <2>5. Strictly(sout', soutAt', Shown \cap Of(c)') /\ Strictly(down'[c], downAt'[c], Shown)
    BY <1>8, <1>11, <1>14 DEF NoGap, S
  <2>6. NoGap(c)'
    BY <2>4, <2>5 DEF NoGap
  <2> QED
    BY <2>3, <2>6
<1>15. CASE f # c \/ Discarded(m)
  <2>1. UNCHANGED <<down[c], downAt[c]>>
    BY <1>3, <1>4, <1>15 DEF LineTypes, OrderInv
  <2>2. m \notin S /\ m \notin W
    BY <1>5, <1>6, <1>15 DEF S, W
  <2> QED
    BY <1>14, <2>1, <2>2
<1>16. CASE f = c /\ ~Discarded(m)
  <2>1. down'[c] = Append(down[c], m) /\ downAt'[c] = Append(downAt[c], x)
    BY <1>3, <1>4, <1>16 DEF LineTypes, OrderInv
  <2>2. (m \in S <=> m \in Shown) /\ (m \in W <=> m \in Welcomes)
    BY <1>6, <1>16 DEF S, W
  <2>3. m \in Shown => x = e + 1 /\ e + 1 <= b /\ Left(c)' = e + 2 .. b
    <3>1. SUFFICES ASSUME m \in Shown PROVE x = e + 1 /\ e + 1 <= b /\ Left(c)' = e + 2 .. b
      OBVIOUS
    <3>2. Left(c)' \cup {x} = e + 1 .. b /\ \A y \in Left(c)' : x < y
      BY <1>11, <1>13, <2>2, <3>1 DEF Follows
    <3> QED
      BY <3>2, FirstMark
  <2> DEFINE q == down[c]
             at == downAt[c]
  <2>20. m \in Told /\ x \in Nat /\ q \in Seq(Told) /\ at \in Seq(Nat) /\ Len(at) = Len(q)
    BY <1>1, <1>7, <1>11
  <2> HIDE DEF q, at
  <2>4. m \in Shown => Marks(Append(q, m), Append(at, x), Shown) = Marks(q, at, Shown) \cup {x}
    BY <2>20, MarksAppend
  <2>5. m \notin Shown => Marks(Append(q, m), Append(at, x), Shown) = Marks(q, at, Shown)
    BY <2>20, MarksAppend
  <2>6. /\ m \in Shown => Coming(c)' = Coming(c) \cup {x}
        /\ m \notin Shown => Coming(c)' = Coming(c) /\ Left(c)' = Left(c)
    BY <1>11, <2>1, <2>2, <2>4, <2>5 DEF Coming, q, at
  <2>7. Coming(c) = a + 1 .. e /\ Left(c) = e + 1 .. b /\ a <= e /\ e <= b
    BY <1>13 DEF Follows
  <2>8. Strictly(down'[c], downAt'[c], Shown)
    <3>1. m \in Shown => \A y \in Marks(down[c], downAt[c], Shown) : y < x
      BY <2>3, <2>7 DEF Coming
    <3>2. Strictly(down[c], downAt[c], Shown)
      BY DEF NoGap
    <3>3. Strictly(q, at, Shown) /\ (m \in Shown => \A y \in Marks(q, at, Shown) : y < x)
      BY <3>1, <3>2 DEF q, at
    <3>4. Strictly(Append(q, m), Append(at, x), Shown)
      BY <2>20, <3>3, MarksAppend
    <3> QED
      BY <2>1, <3>4 DEF q, at
  <2>9. Count(down'[c], Welcomes) = Count(down[c], Welcomes) + IF m \in Welcomes THEN 1 ELSE 0
    BY <1>1, <1>7, <2>1, CountAppend
  <2>10. Unwelcomed(c)' => Unwelcomed(c)
    <3>1. SUFFICES ASSUME Unwelcomed(c)' PROVE Unwelcomed(c)
      OBVIOUS
    <3>2. Count(down'[c], Welcomes) = 0 /\ Count(sout', W) = 0 /\ ~connected'[c]
      BY <1>8, <3>1 DEF Unwelcomed, W
    <3>3. m \notin Welcomes /\ Count(down[c], Welcomes) = 0
      BY <1>12, <2>9, <3>2
    <3>4. Count(sout, W) = 0
      BY <1>12, <2>2, <3>2, <3>3
    <3> QED
      BY <1>1, <3>2, <3>3, <3>4 DEF Unwelcomed, W
  <2>11. Session(c)'
    <3>1. Unwelcomed(c)' => Coming(c)' = {} /\ Left(c)' = {} /\ Holds(c)' = {}
      <4>1. SUFFICES ASSUME Coming(c) = {}, Left(c) = {} PROVE Coming(c)' = {} /\ Left(c)' = {}
        BY <1>9, <2>10 DEF Session
      <4>2. m \notin Shown
        BY <1>11, <2>2, <4>1
      <4> QED
        BY <2>6, <4>1, <4>2
    <3> QED
      BY <1>1, <1>9, <3>1 DEF Session
  <2>12. \E y \in Nat : Follows(c, a, y, b)'
    <3>1. CASE m \notin Shown
      <4>1. Follows(c, a, e, b)'
        BY <1>1, <1>9, <1>13, <2>6, <3>1 DEF Follows
      <4> QED
        BY <4>1
    <3>2. CASE m \in Shown
      <4>3. (a + 1 .. e) \cup {e + 1} = a + 1 .. e + 1
        BY <2>7
      <4>4. Coming(c)' = (a + 1 .. e) \cup {e + 1}
        BY <2>3, <2>6, <2>7, <3>2
      <4>5. (e + 1) + 1 = e + 2 /\ a <= e + 1 /\ e + 1 \in Nat
        BY <2>7
      <4>1. Coming(c)' = a + 1 .. e + 1 /\ (e + 1) + 1 = e + 2 /\ a <= e + 1 /\ e + 1 \in Nat
        BY <4>3, <4>4, <4>5
      <4>2. Follows(c, a, e + 1, b)'
        BY <1>1, <1>9, <1>13, <2>3, <3>2, <4>1 DEF Follows
      <4> QED
        BY <4>1, <4>2
    <3> QED
      BY <3>1, <3>2
  <2>13. NoGap(c)'
    BY <1>8, <1>11, <2>8, <2>12 DEF NoGap, S
  <2> QED
    BY <2>11, <2>13
<1> QED
  BY <1>15, <1>16

(* A text goes once to the session of c.                                   *)
LEMMA CopyCounted ==
  ASSUME LineTypes, NEW m \in Heard, m.type = "std", NEW c \in Clients,
         NEW i \in Server!CSlots, clients[i] # Null => clients[i].sock \in PollSlots
  PROVE  /\ Server!Copy(m, i) \in Seq(Told)
         /\ i \in Holds(c) => Count(Server!Copy(m, i), Shown \cap Of(c)) = 1
         /\ i \notin Holds(c) => Count(Server!Copy(m, i), Shown \cap Of(c)) = 0
<1>1. CASE clients[i] = Null
  <2>1. Server!Copy(m, i) = <<>> /\ i \notin Holds(c)
    BY <1>1 DEF Server!Copy, Holds
  <2> QED
    BY <2>1, CountEmpty, EmptySeq
<1>2. CASE clients[i] # Null
  <2> DEFINE x == Server!ServerClientMsg(m, clients[i].sock)
  <2>1. clients[i].sock \in Int
    BY <1>2 DEF LineTypes
  <2>2. x \in Told /\ x \in Shown /\ x.sock = clients[i].sock
    BY <2>1, ToldMsgs
  <2>3. Server!Copy(m, i) = <<x>>
    BY <1>2 DEF Server!Copy
  <2> HIDE DEF x
  <2>4. i \in Holds(c) <=> x \in Shown \cap Of(c)
    BY <1>2, <2>2 DEF Holds, Of, Shown
  <2>5. <<x>> \in Seq(Told)
    BY <2>2
  <2> QED
    BY <2>3, <2>4, <2>5, CountOne
<1> QED
  BY <1>1, <1>2

LEMMA CopiesCounted ==
  ASSUME LineTypes, NEW m \in Heard, m.type = "std", NEW c \in Clients,
         \A i \in Server!CSlots : clients[i] # Null => clients[i].sock \in PollSlots,
         \A i, j \in Holds(c) : i = j
  PROVE  /\ Server!Broadcast(m) \in Seq(Told)
         /\ Holds(c) # {} => Count(Server!Broadcast(m), Shown \cap Of(c)) = 1
         /\ Holds(c) = {} => Count(Server!Broadcast(m), Shown \cap Of(c)) = 0
<1> DEFINE S == Shown \cap Of(c)
           H == Holds(c)
           Lower(n) == {i \in H : i < n}
<1>1. PICK u : UpTo(u, m, MaxClients) /\ Server!Broadcast(m) = u[MaxClients]
  BY BroadcastSteps
<1>2. MaxClients \in Nat
  BY SystemAssumption
<1>3. H \subseteq Server!CSlots /\ Server!CSlots = 0 .. MaxClients - 1
  BY DEF Holds, Server!CSlots
<1>4. \A i \in Server!CSlots :
        /\ Server!Copy(m, i) \in Seq(Told)
        /\ i \in H => Count(Server!Copy(m, i), S) = 1
        /\ i \notin H => Count(Server!Copy(m, i), S) = 0
  BY CopyCounted
<1>5. \A i, j \in H : i = j
  OBVIOUS
<1> HIDE DEF S, H
<1> DEFINE Good(n) == /\ u[n] \in Seq(Told)
                      /\ Lower(n) # {} => Count(u[n], S) = 1
                      /\ Lower(n) = {} => Count(u[n], S) = 0
           T == {n \in 0 .. MaxClients : ~Good(n)}
<1>6. T = {}
  <2>1. SUFFICES ASSUME T # {} PROVE FALSE
    OBVIOUS
  <2>2. PICK n \in T : \A k \in T : n <= k
    <3>1. T \subseteq Nat
      BY <1>2
    <3> QED
      BY <2>1, <3>1, Least
  <2>3. n \in Nat /\ n <= MaxClients /\ ~Good(n)
    BY <1>2, <2>2
  <2>4. n # 0
    <3>1. u[0] = <<>>
      BY <1>1, <1>2 DEF UpTo
    <3>2. Lower(0) = {}
      <4>1. SUFFICES ASSUME NEW i \in H, i < 0 PROVE FALSE
        OBVIOUS
      <4>2. i \in 0 .. MaxClients - 1
        BY <1>3
      <4> QED
        BY <1>2, <4>1, <4>2
    <3>3. u[0] \in Seq(Told) /\ Count(u[0], S) = 0
      BY <3>1, CountEmpty, EmptySeq
    <3>4. Good(0)
      BY <3>2, <3>3
    <3> QED
      BY <2>3, <3>4
  <2>5. n - 1 \in 0 .. MaxClients /\ n - 1 \notin T /\ n - 1 \in Server!CSlots
    BY <1>2, <2>2, <2>3, <2>4 DEF Server!CSlots
  <2>6. u[n] = u[n - 1] \o Server!Copy(m, n - 1)
    BY <1>1, <1>2, <2>3, <2>4 DEF UpTo
  <2>7. Good(n - 1)
    BY <2>5
  <2>8. Server!Copy(m, n - 1) \in Seq(Told)
    BY <1>4, <2>5
  <2>9. u[n] \in Seq(Told) /\ Count(u[n], S) = Count(u[n - 1], S) + Count(Server!Copy(m, n - 1), S)
    BY <2>6, <2>7, <2>8, ConcatProperties, CountConcat
  <2>10. \A i \in H : i < n <=> i < n - 1 \/ i = n - 1
    BY <1>2, <1>3, <2>3, <2>4
  <2>11. CASE n - 1 \in H
    <3>3. Lower(n - 1) = {}
      <4>1. SUFFICES ASSUME NEW i \in H, i < n - 1 PROVE FALSE
        OBVIOUS
      <4>2. i = n - 1
        BY <1>5, <2>11
      <4> QED
        BY <2>3, <4>1, <4>2
    <3>4. n - 1 \in Lower(n)
      BY <2>3, <2>11
    <3>1. Lower(n - 1) = {} /\ Lower(n) # {}
      BY <3>3, <3>4
    <3>2. Count(u[n], S) = 1
      BY <1>4, <2>5, <2>7, <2>9, <2>11, <3>1
    <3> QED
      BY <2>3, <2>9, <3>1, <3>2
  <2>12. CASE n - 1 \notin H
    <3>1. Lower(n) = Lower(n - 1)
      BY <2>10, <2>12
    <3>2. Count(Server!Copy(m, n - 1), S) = 0
      BY <1>4, <2>5, <2>12
    <3>3. Count(u[n], S) = Count(u[n - 1], S)
      BY <2>7, <2>9, <3>1, <3>2
    <3> QED
      BY <2>3, <2>7, <2>9, <3>1, <3>3
  <2> QED
    BY <2>11, <2>12
<1>7. Good(MaxClients)
  BY <1>2, <1>6
<1>8. Lower(MaxClients) = H
  <2>1. \A i \in 0 .. MaxClients - 1 : i < MaxClients
    BY <1>2
  <2> QED
    BY <1>3, <2>1
<1> QED
  BY <1>1, <1>7, <1>8 DEF S, H

(* What is sent first does not count.                                      *)
LEMMA CountFirst ==
  ASSUME NEW T, NEW a \in T, NEW b \in Seq(T), NEW S, a \notin S, NEW r, r = <<a>> \o b
  PROVE  /\ Count(b, S) = 0 => At(r, S) = {}
         /\ Count(b, S) = 1 => \E x : At(r, S) = {x}
<1>1. <<a>> \in Seq(T) /\ Count(<<a>>, S) = 0
  BY CountOne
<1>2. <<a>> \o b \in Seq(T)
  BY <1>1, ConcatProperties
<1>3. Count(<<a>> \o b, S) = Count(<<a>>, S) + Count(b, S)
  BY <1>1, CountConcat
<1>4. Count(b, S) \in Nat
  BY CountType
<1>5. r \in Seq(T) /\ Count(r, S) = Count(b, S)
  BY <1>1, <1>2, <1>3, <1>4
<1>6. IsFiniteSet(At(r, S))
  BY <1>5, CountType
<1>7. Count(r, S) = 0 <=> At(r, S) = {}
  BY <1>5, CountNone
<1>8. Count(r, S) = 1 <=> \E x : At(r, S) = {x}
  BY <1>6, FS_Singleton DEF Count
<1> QED
  BY <1>5, <1>7, <1>8

(* The acknowledgement and the copies of a text, as the session sees them. *)
LEMMA CopiesAt ==
  ASSUME LineTypes, NEW m \in Heard, m.type = "std", NEW c \in Clients, NEW r,
         r = <<Server!PositiveAck(m)>> \o Server!Broadcast(m),
         \A i \in Server!CSlots : clients[i] # Null => clients[i].sock \in PollSlots,
         \A i, j \in Holds(c) : i = j
  PROVE  /\ Holds(c) = {} => At(r, Shown \cap Of(c)) = {}
         /\ Holds(c) # {} => At(r, Shown \cap Of(c)) # {}
         /\ \A j, k \in At(r, Shown \cap Of(c)) : j = k
<1> DEFINE S == Shown \cap Of(c)
           a == Server!PositiveAck(m)
           b == Server!Broadcast(m)
<1>1. b \in Seq(Told) /\ (Holds(c) # {} => Count(b, S) = 1)
  BY CopiesCounted
<1>2. Holds(c) = {} => Count(b, S) = 0
  BY CopiesCounted
<1>3. a \in Told /\ a \notin S /\ r = <<a>> \o b
  BY ToldMsgs
<1> HIDE DEF S, a, b
<1>4. /\ Count(b, S) = 0 => At(r, S) = {}
      /\ Count(b, S) = 1 => \E x : At(r, S) = {x}
  BY <1>1, <1>3, CountFirst
<1>5. Holds(c) = {} => At(r, S) = {}
  BY <1>2, <1>4
<1>6. Holds(c) # {} => At(r, S) # {} /\ \A j, k \in At(r, S) : j = k
  BY <1>1, <1>4
<1> QED
  BY <1>5, <1>6 DEF S

(* What the server adds to what is left for c.                             *)
LEMMA ServeLeft ==
  ASSUME LineTypes, OrderInv, NEW c \in Clients, NoGap(c), UNCHANGED <<fds, nbFds>>,
         NEW r \in Seq(Told), sout' = sout \o r,
         soutAt' = [k \in DOMAIN sout' |->
                       IF k \in DOMAIN sout THEN soutAt[k]
                       ELSE IF sout'[k].type = "server_client" THEN Len(log') ELSE 0],
         Len(log') \in Nat,
         \/ Len(log') = Len(log) + 1 /\ \A j, k \in At(r, Shown \cap Of(c)) : j = k
         \/ At(r, Shown) = {}
  PROVE  /\ Strictly(sout', soutAt', Shown \cap Of(c)')
         /\ At(r, Shown \cap Of(c)) = {} => Left(c)' = Left(c)
         /\ At(r, Shown \cap Of(c)) # {} => Left(c)' = Left(c) \cup {Len(log) + 1}
<1> DEFINE S == Shown \cap Of(c)
           n == Len(log) + 1
<1>1. PICK g \in Nat : g = Len(log')
  OBVIOUS
<1>2. sout' \in Seq(Told) /\ Labelled(sout, soutAt, r, soutAt', Shown, g)
  BY <1>1, Marked
<1>3. At(r, S) \subseteq At(r, Shown)
  BY DEF At
<1>4. /\ sout \in Seq(Told) /\ soutAt \in Seq(Nat) /\ Len(soutAt) = Len(sout)
      /\ log \in Seq(Texts) /\ Len(log) \in Nat /\ n \in Nat
  BY LenProperties DEF LineTypes, OrderInv
<1>5. \A k \in At(r, S) : g = n
  BY <1>1, <1>3
<1>6. \A j, k \in At(r, S) : j = k
  BY <1>3
<1>7. Of(c)' = Of(c)
  BY SameSlots
<1>8. /\ Left(c) = Marks(sout, soutAt, S) /\ Left(c)' = Marks(sout', soutAt', S)
      /\ Strictly(sout, soutAt, S)
  BY <1>7 DEF Left, NoGap
<1>9. \A x \in Marks(sout, soutAt, S) : x < n
  <2>1. PICK a \in Nat, e \in Nat, b \in Nat : Follows(c, a, e, b)
    BY DEF NoGap
  <2>2. Left(c) = e + 1 .. b /\ b <= Len(log)
    BY <2>1 DEF Follows
  <2>3. \A x \in e + 1 .. b : x < n
    BY <1>4, <2>1, <2>2
  <2> QED
    BY <1>8, <2>2, <2>3
<1>10. PICK w : w = soutAt'
  OBVIOUS
<1> HIDE DEF S, n
<1>11. Labelled(sout, soutAt, r, w, S, n)
  BY <1>2, <1>3, <1>5, <1>10 DEF Labelled
<1>12. /\ Marks(sout, soutAt, S) \subseteq Marks(sout \o r, w, S)
       /\ Marks(sout \o r, w, S) \subseteq Marks(sout, soutAt, S) \cup {n}
       /\ \A k \in At(r, S) : n \in Marks(sout \o r, w, S)
       /\ At(r, S) = {} => Marks(sout \o r, w, S) \subseteq Marks(sout, soutAt, S)
  BY <1>4, <1>11, MarksConcat
<1>13. Strictly(sout \o r, w, S)
  BY <1>4, <1>6, <1>8, <1>9, <1>11, MarksConcat
<1>14. Left(c)' = Marks(sout \o r, w, S)
  BY <1>8, <1>10
<1>15. Strictly(sout', soutAt', S)
  BY <1>10, <1>13
<1>16. At(r, S) = {} => Left(c)' = Left(c)
  <2>1. SUFFICES ASSUME At(r, S) = {} PROVE Left(c)' = Left(c)
    OBVIOUS
  <2>2. Left(c) \subseteq Left(c)' /\ Left(c)' \subseteq Left(c)
    BY <1>8, <1>12, <1>14, <2>1
  <2> QED
    BY <2>2
<1>17. At(r, S) # {} => Left(c)' = Left(c) \cup {n}
  <2>1. SUFFICES ASSUME NEW k \in At(r, S) PROVE Left(c)' = Left(c) \cup {n}
    OBVIOUS
  <2>2. n \in Marks(sout \o r, w, S)
    BY <1>12
  <2>3. Left(c) \subseteq Left(c)' /\ n \in Left(c)' /\ Left(c)' \subseteq Left(c) \cup {n}
    BY <1>8, <1>12, <1>14, <2>2
  <2> QED
    BY <2>3
<1> QED
  BY <1>7, <1>15, <1>16, <1>17 DEF S, n

LEMMA ServeWelcomes ==
  ASSUME LineTypes, NEW c \in Clients, UNCHANGED <<fds, nbFds, connected, down>>,
         NEW r \in Seq(Told), sout' = sout \o r, Unwelcomed(c)'
  PROVE  Unwelcomed(c) /\ Count(r, Welcomes \cap Of(c)) = 0
<1> DEFINE W == Welcomes \cap Of(c)
<1>1. Of(c)' = Of(c)
  BY SameSlots
<1>2. sout \in Seq(Told)
  BY DEF LineTypes
<1>3. /\ ~connected[c] /\ Count(down[c], Welcomes) = 0 /\ Count(sout \o r, W) = 0
  BY <1>1 DEF Unwelcomed
<1> HIDE DEF W
<1>4. /\ Count(sout \o r, W) = Count(sout, W) + Count(r, W)
      /\ Count(sout, W) \in Nat /\ Count(r, W) \in Nat
  BY <1>2, CountConcat, CountType
<1>5. Count(sout, W) = 0 /\ Count(r, W) = 0
  BY <1>3, <1>4
<1> QED
  BY <1>3, <1>5 DEF Unwelcomed, W

(* A request for a session comes from a client that has none.              *)
LEMMA RequestAwaited ==
  ASSUME WireInv, TalkInv, sin # <<>>, NEW m, m = Head(sin), m.type = "connection"
  PROVE  /\ m.sock \in Live /\ fds[m.sock] \in Clients
         /\ ~connected[fds[m.sock]] /\ Unwelcomed(fds[m.sock])
<1> DEFINE c == fds[m.sock]
<1>1. sin \in Seq(Asked) /\ m \in Asked
  BY QueueMsgs, HeadTail
<1>2. m.sock \in Live
  <2>1. sin \in Seq(SinMsgs)
    BY DEF WireInv, QueueTypes
  <2>2. m \in SinMsgs
    BY <2>1, HeadTail
  <2> QED
    BY <2>2, QueueMsgs
<1>3. c \in Clients
  BY <1>2 DEF WireInv, TableInv
<1> HIDE DEF c
<1>4. m \in Logins \cap Of(c)
  <2>1. m.sock \in SlotOf(c)
    BY <1>2, <1>3, PlaceOf DEF c
  <2>2. m \in Msgs
    BY <1>1 DEF Asked
  <2> QED
    BY <2>1, <2>2 DEF Logins, Of
<1>5. /\ down[c] \in Seq(Replies) /\ up[c] \in Seq(Asked) /\ sout \in Seq(Replies)
  BY <1>3, QueueMsgs
<1>6. /\ Count(sin, Logins \cap Of(c)) = Count(Tail(sin), Logins \cap Of(c)) + 1
      /\ Tail(sin) \in Seq(Asked)
  BY <1>1, <1>4, CountTail
<1>7. /\ Count(Tail(sin), Logins \cap Of(c)) \in Nat /\ Count(up[c], Logins) \in Nat
      /\ Count(sout, LoginAnswers \cap Of(c)) \in Nat /\ Count(down[c], LoginAnswers) \in Nat
  BY <1>5, <1>6, CountType
<1>8. Flow(c, Logins, LoginAnswers)
        = Count(up[c], Logins) + (Count(Tail(sin), Logins \cap Of(c)) + 1)
            + Count(sout, LoginAnswers \cap Of(c)) + Count(down[c], LoginAnswers)
  BY <1>6 DEF Flow
<1>9. /\ Flow(c, Logins, LoginAnswers) <= IF waiting[c] THEN 1 ELSE 0
      /\ connected[c] => ~waiting[c]
  BY <1>3 DEF TalkInv, Talk, LoginInv
<1>10. \A u, v, w, x \in Nat : /\ ~(u + (v + 1) + w + x <= 0)
                               /\ u + (v + 1) + w + x <= 1 => w = 0 /\ x = 0
  OBVIOUS
<1>11. waiting[c]
  BY <1>7, <1>8, <1>9, <1>10
<1>12. Count(sout, LoginAnswers \cap Of(c)) = 0 /\ Count(down[c], LoginAnswers) = 0
  BY <1>7, <1>8, <1>9, <1>10, <1>11
<1>13. Welcomes \subseteq LoginAnswers /\ Welcomes \cap Of(c) \subseteq LoginAnswers \cap Of(c)
  BY DEF Welcomes, LoginAnswers
<1>14. /\ Count(down[c], Welcomes) <= Count(down[c], LoginAnswers)
       /\ Count(sout, Welcomes \cap Of(c)) <= Count(sout, LoginAnswers \cap Of(c))
       /\ Count(down[c], Welcomes) \in Nat /\ Count(sout, Welcomes \cap Of(c)) \in Nat
  BY <1>5, <1>13, CountMore, CountType
<1>15. Count(down[c], Welcomes) = 0 /\ Count(sout, Welcomes \cap Of(c)) = 0
  BY <1>12, <1>14
<1>16. ~connected[c] /\ Unwelcomed(c)
  BY <1>9, <1>11, <1>15 DEF Unwelcomed
<1> QED
  BY <1>2, <1>3, <1>16 DEF c

(* What the server does with a message leaves no gap.                      *)
LEMMA SayGap ==
  ASSUME LineTypes, OrderInv, NEW c \in Clients, Session(c), NoGap(c),
         UNCHANGED <<fds, nbFds, connected, place, down, downAt, clients>>,
         NEW r \in Seq(Told), sout' = sout \o r, Len(log') = Len(log) + 1,
         soutAt' = [k \in DOMAIN sout' |->
                       IF k \in DOMAIN sout THEN soutAt[k]
                       ELSE IF sout'[k].type = "server_client" THEN Len(log') ELSE 0],
         Holds(c) = {} => At(r, Shown \cap Of(c)) = {},
         Holds(c) # {} => At(r, Shown \cap Of(c)) # {},
         \A j, k \in At(r, Shown \cap Of(c)) : j = k
  PROVE  Session(c)' /\ NoGap(c)'
<1> DEFINE S == Shown \cap Of(c)
<1>1. Len(log) \in Nat /\ Len(log') \in Nat
  BY LenProperties DEF OrderInv
<1>2. Strictly(sout', soutAt', Shown \cap Of(c)')
  BY <1>1, ServeLeft
<1>3. At(r, S) = {} => Left(c)' = Left(c)
  BY <1>1, ServeLeft
<1>4. At(r, S) # {} => Left(c)' = Left(c) \cup {Len(log) + 1}
  BY <1>1, ServeLeft
<1>5. /\ Holds(c) = {} => Left(c)' = Left(c)
      /\ Holds(c) # {} => Left(c)' = Left(c) \cup {Len(log) + 1}
  BY <1>3, <1>4
<1>6. Coming(c)' = Coming(c) /\ Holds(c)' = Holds(c)
  <2>1. SlotOf(c)' = SlotOf(c)
    BY SameSlots
  <2> QED
    BY <2>1 DEF Coming, Holds
<1>7. Unwelcomed(c)' => Unwelcomed(c)
  BY ServeWelcomes
<1>8. Session(c)'
  BY <1>5, <1>6, <1>7 DEF Session
<1>9. PICK a \in Nat, e \in Nat, b \in Nat : Follows(c, a, e, b)
  BY DEF NoGap
<1>10. \E d \in Nat : Follows(c, a, e, d)'
  <2>1. CASE Holds(c) = {}
    <3>1. b <= Len(log')
      BY <1>1, <1>9 DEF Follows
    <3>2. Follows(c, a, e, b)'
      BY <1>5, <1>6, <1>9, <2>1, <3>1 DEF Follows
    <3> QED
      BY <3>2
  <2>2. CASE Holds(c) # {}
    <3>1. b = Len(log) /\ a <= e /\ e <= b /\ Left(c) = e + 1 .. b
      BY <1>9, <2>2 DEF Follows
    <3>2. (e + 1 .. b) \cup {b + 1} = e + 1 .. b + 1
      BY <3>1
    <3>3. Left(c)' = e + 1 .. b + 1 /\ Len(log') = b + 1
      BY <1>5, <2>2, <3>1, <3>2
    <3>4. e <= b + 1 /\ b + 1 <= Len(log') /\ b + 1 \in Nat
      BY <3>1, <3>3
    <3>5. Follows(c, a, e, b + 1)'
      BY <1>6, <1>9, <3>3, <3>4 DEF Follows
    <3> QED
      BY <3>4, <3>5
  <2> QED
    BY <2>1, <2>2
<1>11. Strictly(down'[c], downAt'[c], Shown)
  BY DEF NoGap
<1>12. NoGap(c)'
  BY <1>2, <1>9, <1>10, <1>11 DEF NoGap
<1> QED
  BY <1>8, <1>12

(* A message that is not a text.                                           *)
LEMMA AnswerGap ==
  ASSUME LineTypes, OrderInv, NEW c \in Clients, Session(c), NoGap(c),
         UNCHANGED <<fds, nbFds, connected, place, down, downAt, log>>,
         NEW r \in Seq(Told), sout' = sout \o r,
         soutAt' = [k \in DOMAIN sout' |->
                       IF k \in DOMAIN sout THEN soutAt[k]
                       ELSE IF sout'[k].type = "server_client" THEN Len(log') ELSE 0],
         At(r, Shown) = {},
         \/ Holds(c)' \subseteq Holds(c)
         \/ /\ Unwelcomed(c) /\ Count(r, Welcomes \cap Of(c)) # 0
            /\ \A i, j \in Holds(c)' : i = j
  PROVE  Session(c)' /\ NoGap(c)'
<1>1. Len(log) \in Nat /\ Len(log') \in Nat /\ At(r, Shown \cap Of(c)) = {}
  BY LenProperties DEF OrderInv, At
<1>2. Strictly(sout', soutAt', Shown \cap Of(c)')
  BY <1>1, ServeLeft
<1>3. Left(c)' = Left(c)
  BY <1>1, ServeLeft
<1>4. Coming(c)' = Coming(c)
  BY DEF Coming
<1>5. Unwelcomed(c)' => Unwelcomed(c) /\ Holds(c)' \subseteq Holds(c)
  BY ServeWelcomes
<1>6. \A i, j \in Holds(c)' : i = j
  BY DEF Session
<1>7. Session(c)'
  BY <1>3, <1>4, <1>5, <1>6 DEF Session
<1>8. \E a, e, b \in Nat : Follows(c, a, e, b)'
  <2>1. CASE Holds(c)' \subseteq Holds(c)
    <3>1. PICK a \in Nat, e \in Nat, b \in Nat : Follows(c, a, e, b)
      BY DEF NoGap
    <3>2. Follows(c, a, e, b)'
      BY <1>3, <1>4, <2>1, <3>1 DEF Follows
    <3> QED
      BY <3>2
  <2>2. CASE Unwelcomed(c)
    <3> DEFINE n == Len(log)
    <3>1. Coming(c) = {} /\ Left(c) = {} /\ place[c] = 0
      BY <2>2 DEF Session, Unwelcomed
    <3>2. PICK g \in Nat : g = Len(log)
      BY <1>1
    <3>3. g + 1 .. g = {} /\ g <= g
      BY <3>2
    <3>4. Follows(c, g, g, g)'
      BY <1>3, <1>4, <3>1, <3>2, <3>3 DEF Follows
    <3> QED
      BY <3>2, <3>4
  <2> QED
    BY <2>1, <2>2
<1>9. Strictly(down'[c], downAt'[c], Shown)
  BY DEF NoGap
<1>10. NoGap(c)'
  BY <1>2, <1>8, <1>9 DEF NoGap
<1> QED
  BY <1>7, <1>10

LEMMA ServeGap ==
  ASSUME LineTypes, OrderInv, WireInv, TalkInv, ServerReads, NEW c \in Clients,
         \A d \in Clients : Session(d) /\ NoGap(d)
  PROVE  Session(c)' /\ NoGap(c)'
<1>1. PICK m \in Heard, r \in Seq(Told) :
        /\ sin # <<>> /\ m = Head(sin) /\ sin' = Tail(sin) /\ sout' = sout \o r
        /\ soutAt' = [k \in DOMAIN sout' |->
                         IF k \in DOMAIN sout THEN soutAt[k]
                         ELSE IF sout'[k].type = "server_client" THEN Len(log') ELSE 0]
        /\ UNCHANGED <<clientSide, up, down, fds, nbFds, shown, place, downAt>>
        /\ clients' = [k \in Server!CSlots |-> clients'[k]]
        /\ Delivers(m, r) \/ Welcoming(m, r) \/ Declines(m, r)
  BY Served
<1>2. UNCHANGED <<fds, nbFds, connected, place, down, downAt>>
  BY <1>1 DEF clientSide
<1>3. Session(c) /\ NoGap(c) /\ log \in Seq(Texts)
  BY DEF OrderInv
<1>4. \A j \in Live : j \in PollSlots /\ (j \in SlotOf(c) <=> fds[j] = c)
  <2>1. \A j \in Live : j \in PollSlots
    BY ProxyAssumption DEF WireInv, TableInv, Live, PollSlots
  <2> QED
    BY <2>1, PlaceOf
<1>5. \A i \in Server!CSlots : clients[i] # Null => clients[i].sock \in PollSlots
  BY <1>4 DEF WireInv, ServerTypes, Sessions
<1>6. SlotOf(c)' = SlotOf(c)
  BY <1>2, SameSlots
<1>7. CASE Delivers(m, r)
  <2>1. /\ m.type = "std" /\ r = <<Server!PositiveAck(m)>> \o Server!Broadcast(m)
        /\ clients' = clients /\ Len(log') = Len(log) + 1
    <3>1. log' = Append(log, m.body) /\ m.body \in Texts
      BY <1>7 DEF Delivers
    <3>2. Len(log') = Len(log) + 1
      BY <1>3, <3>1, AppendProperties
    <3> QED
      BY <1>7, <3>2 DEF Delivers
  <2>2. \A i, j \in Holds(c) : i = j
    BY <1>3 DEF Session
  <2>3. /\ Holds(c) = {} => At(r, Shown \cap Of(c)) = {}
        /\ Holds(c) # {} => At(r, Shown \cap Of(c)) # {}
        /\ \A j, k \in At(r, Shown \cap Of(c)) : j = k
    BY <1>5, <2>1, <2>2, CopiesAt
  <2> QED
    BY <1>1, <1>2, <1>3, <2>1, <2>3, SayGap
<1>8. CASE Declines(m, r)
  <2>1. At(r, Shown) = {} /\ log' = log
    BY <1>8, NoCopies DEF Declines
  <2>2. Holds(c)' \subseteq Holds(c)
    BY <1>6, <1>8 DEF Declines, Holds
  <2> QED
    BY <1>1, <1>2, <1>3, <2>1, <2>2, AnswerGap
<1>9. CASE Welcoming(m, r)
  <2>1. At(r, Shown) = {} /\ log' = log /\ r = <<Server!WellConnected(m)>> /\ m.type = "connection"
    BY <1>9, NoCopies DEF Welcoming
  <2>2. PICK i, p : \A k \in Server!CSlots :
          clients'[k] = IF k = i THEN [pseudo |-> p, last |-> now, sock |-> m.sock]
                        ELSE clients[k]
    BY <1>9 DEF Welcoming
  <2>3. m.sock \in Live /\ Unwelcomed(fds[m.sock])
    BY <1>1, <2>1, RequestAwaited
  <2>4. CASE fds[m.sock] = c
    <3>1. Holds(c) = {} /\ Unwelcomed(c)
      BY <1>3, <2>3, <2>4 DEF Session
    <3>2. \A k \in Holds(c)' : k = i
      BY <1>6, <2>2, <3>1 DEF Holds
    <3>3. Server!WellConnected(m) \in Welcomes \cap Of(c)
      <4>1. Server!WellConnected(m) \in Welcomes /\ Server!WellConnected(m).sock = m.sock
        BY ToldMsgs
      <4>2. m.sock \in SlotOf(c)
        BY <1>4, <2>3, <2>4
      <4> QED
        BY <4>1, <4>2 DEF Of, Welcomes
    <3>4. Count(r, Welcomes \cap Of(c)) # 0
      BY <2>1, <3>3, CountOne
    <3>5. \A k, l \in Holds(c)' : k = l
      BY <3>2
    <3> QED
      BY <1>1, <1>2, <1>3, <2>1, <3>1, <3>4, <3>5, AnswerGap
  <2>5. CASE fds[m.sock] # c
    <3>1. m.sock \notin SlotOf(c)
      BY <1>4, <2>3, <2>5
    <3>2. ASSUME NEW k \in Holds(c)' PROVE k \in Holds(c)
      <4>1. k \in Server!CSlots /\ clients'[k] # Null /\ clients'[k].sock \in SlotOf(c)
        BY <1>6 DEF Holds
      <4>2. k # i
        BY <2>2, <3>1, <4>1
      <4> QED
        BY <2>2, <4>1, <4>2 DEF Holds
    <3>3. Holds(c)' \subseteq Holds(c)
      BY <3>2
    <3> QED
      BY <1>1, <1>2, <1>3, <2>1, <3>3, AnswerGap
  <2> QED
    BY <2>4, <2>5
<1> QED
  BY <1>1, <1>7, <1>8, <1>9

LEMMA InitGap == Init => GapInv
<1> SUFFICES ASSUME Init, NEW c \in Clients PROVE Session(c) /\ NoGap(c)
  BY DEF GapInv
<1>1. /\ sout = <<>> /\ soutAt = <<>> /\ down[c] = <<>> /\ downAt[c] = <<>> /\ log = <<>>
      /\ place[c] = 0 /\ clients = [i \in Server!CSlots |-> Null]
  BY DEF Init, Client!ClientInit, Server!Init
<1>2. Coming(c) = {} /\ Left(c) = {} /\ Holds(c) = {}
  BY <1>1, NoMarks DEF Coming, Left, Holds
<1>3. Strictly(down[c], downAt[c], Shown) /\ Strictly(sout, soutAt, Shown \cap Of(c))
  BY <1>1, NoMarks
<1>4. Follows(c, 0, 0, 0)
  <2>1. Len(log) = 0 /\ 0 + 1 .. 0 = {} /\ 0 <= 0
    BY <1>1
  <2> QED
    BY <1>1, <1>2, <2>1 DEF Follows
<1> QED
  BY <1>1, <1>2, <1>3, <1>4 DEF Session, NoGap

LEMMA NextGap ==
  ASSUME LineTypes, OrderInv, WireInv, WireInv', TalkInv, NobodyLeft, NobodyLeft',
         GapInv, [Next]_vars
  PROVE  GapInv'
<1> SUFFICES ASSUME NEW c \in Clients PROVE Session(c)' /\ NoGap(c)'
  BY DEF GapInv
<1>1. Session(c) /\ NoGap(c)
  BY DEF GapInv
<1>2. ASSUME UNCHANGED <<sout, soutAt, log, clients, down[c], downAt[c], place[c], connected[c]>>,
             UNCHANGED <<fds, nbFds>>
      PROVE  Session(c)' /\ NoGap(c)'
  <2>1. SlotOf(c)' = SlotOf(c)
    BY <1>2, SameSlots
  <2> QED
    BY <1>1, <1>2, <2>1, SilentGap
<1>3. ASSUME NEW d \in Clients, Join(d) PROVE Session(c)' /\ NoGap(c)'
  <2>1. UNCHANGED <<sout, soutAt, log, clients, down, downAt, place, connected>>
    BY <1>3 DEF Join, Client!Start, seen, serverSide
  <2>2. \A j \in Live : j \in SlotOf(c)' <=> j \in SlotOf(c)
    <3>1. /\ fds' = [fds EXCEPT ![nbFds] = d] /\ nbFds' = nbFds + 1
      BY <1>3 DEF Join
    <3>2. fds = [j \in PollSlots |-> fds[j]] /\ nbFds \in Nat
      BY ProxyAssumption DEF WireInv, TableInv
    <3>3. \A j \in Live : j \in PollSlots /\ j # nbFds /\ j < nbFds /\ j < nbFds + 1
      BY <3>2, ProxyAssumption DEF WireInv, TableInv, Live, PollSlots
    <3>4. \A j \in Live : fds'[j] = fds[j]
      BY <3>1, <3>2, <3>3
    <3> QED
      BY <3>1, <3>3, <3>4 DEF SlotOf
  <2> QED
    BY <1>1, <2>1, <2>2, SilentGap
<1>4. ASSUME NEW d \in Clients, Leave(d) \/ ClientReadsBeyond(d) PROVE FALSE
  <2>1. proc'[d] = "gone"
    BY <1>4 DEF Leave, ClientReadsBeyond, Client!Leave, Client!ReadBeyond, Client!Stop, WireInv,
                LoginTypes
  <2> QED
    BY <2>1 DEF NobodyLeft
<1>5. ASSUME NEW d \in Clients, UserActs(d) PROVE Session(c)' /\ NoGap(c)'
  <2>1. UNCHANGED <<sout, soutAt, log, clients, downAt, place, fds, nbFds>>
    BY <1>5 DEF UserActs, seen, serverSide, proxySide, table
  <2>2. ASSUME NEW p \in Names, Client!Login(d, p) PROVE UNCHANGED <<down, connected>>
    BY <2>2 DEF Client!Login, Client!RequestLogin
  <2>3. ASSUME NEW t \in Texts \cup {Blank}, Client!Speak(d, t) PROVE UNCHANGED <<down, connected>>
    BY <2>3 DEF Client!Speak, Client!Say, Client!SayGrowing, Client!login
  <2>4. UNCHANGED <<down, connected>>
    BY <1>5, <2>2, <2>3, TypedText
  <2> QED
    BY <1>2, <2>1, <2>4
<1>6. ASSUME NEW d \in Clients, ClientReads(d) PROVE Session(c)' /\ NoGap(c)'
  <2>1. CASE d = c
    BY <1>1, <1>6, <2>1, ReadGap
  <2>2. CASE d # c
    <3>1. UNCHANGED <<sout, soutAt, log, clients, fds, nbFds>>
      BY <1>6 DEF ClientReads, serverSide, proxySide, table
    <3>2. UNCHANGED <<down[c], downAt[c], place[c], connected[c]>>
      <4>1. /\ downAt' = [downAt EXCEPT ![d] = Tail(@)]
            /\ place' = place \/ place' = [place EXCEPT ![d] = Head(downAt[d])]
        BY <1>6 DEF ClientReads, Show
      <4>2. /\ down' = [down EXCEPT ![d] = Tail(@)]
            /\ connected' = connected \/ connected' = [connected EXCEPT ![d] = TRUE]
        BY <1>6 DEF ClientReads, Client!OnMsg, Client!OnRefusal, Client!OnWelcome,
           Client!OnNegativeAck, Client!OnPositiveAck, Client!Acked, Client!OnOther, Client!Take,
           Client!login
      <4>3. /\ down \in [Clients -> Seq(Told)] /\ connected \in [Clients -> BOOLEAN]
            /\ downAt \in [Clients -> Seq(Nat)] /\ place \in [Clients -> Nat]
        BY DEF LineTypes, LoginTypes, OrderInv
      <4> QED
        BY <2>2, <4>1, <4>2, <4>3
    <3> QED
      BY <1>2, <3>1, <3>2
  <2> QED
    BY <2>1, <2>2
<1>7. ASSUME NEW j \in PollSlots, OnClientReceived(j) PROVE Session(c)' /\ NoGap(c)'
  <2>1. UNCHANGED <<sout, soutAt, log, clients, down, downAt, place, connected, fds, nbFds>>
    BY <1>7 DEF OnClientReceived, seen, serverSide, proxySide, table, clientSide
  <2> QED
    BY <1>2, <2>1
<1>8. ASSUME NEW j \in PollSlots, OnClientLeft(j) PROVE FALSE
  BY <1>8 DEF OnClientLeft, NobodyLeft
<1>9. ASSUME NEW j \in PollSlots, OnClientReset(j) PROVE FALSE
  BY <1>9 DEF OnClientReset, WireInv, TableInv
<1>10. ~Compress
  BY DEF Compress, WireInv, TableInv
<1>11. CASE OnServerReceived
  BY <1>1, <1>11, DeliverGap
<1>12. CASE ServerReads
  BY <1>12, ServeGap DEF GapInv
<1>13. CASE Tick \/ UNCHANGED vars
  <2>1. UNCHANGED <<sout, soutAt, log, clients, down, downAt, place, connected, fds, nbFds>>
    BY <1>13 DEF Tick, Server!Tick, Server!state, vars, seen, serverSide, proxySide, table, clientSide
  <2> QED
    BY <1>2, <2>1
<1> QED
  BY <1>3, <1>4, <1>5, <1>6, <1>7, <1>8, <1>9, <1>10, <1>11, <1>12, <1>13 DEF Next, Proxy

(* As long as nobody leaves, what is on its way to a client is a stretch   *)
(* of the conversation without a gap, up to its end while it has a session *)
(* -- through the server's table, which answers by slots of the proxy, and *)
(* both queues.                                                            *)
THEOREM NothingLeftOut == Spec => [](NobodyLeft => GapInv)
<1> DEFINE K == ProcType /\ LineTypes /\ OrderInv /\ (NobodyLeft => WireInv /\ TalkInv)
           J == NobodyLeft => GapInv
<1>1. Spec => []K
  BY Invariant, TalkInvariant, Lines, PTL
<1>2. Init => J
  BY InitGap
<1>3. K /\ K' /\ J /\ [Next]_vars => J'
  BY NobodyLeftBefore, NextGap
<1> HIDE DEF K, J
<1>4. Spec => []J
  BY <1>1, <1>2, <1>3, PTL DEF Spec
<1> QED
  BY <1>4 DEF J
-----------------------------------------------------------------------------
(* The system implements the conversation: see Chat.                       *)

(* The text that is shown next follows the one shown last.                 *)
LEMMA ShownNext ==
  ASSUME LineTypes, OrderInv, NEW c \in Clients, NoGap(c), down[c] # <<>>,
         Head(down[c]) \in Shown
  PROVE  place[c] \in {0, Head(downAt[c]) - 1}
<1> DEFINE q == down[c]
           at == downAt[c]
           h == Head(at)
<1>1. q \in Seq(Told) /\ q # <<>> /\ at \in Seq(Nat) /\ Len(at) = Len(q) /\ Strictly(q, at, Shown)
  BY DEF LineTypes, OrderInv, LineOrder, NoGap
<1>2. PICK a \in Nat, e \in Nat, b \in Nat : Follows(c, a, e, b)
  BY DEF NoGap
<1>3. place[c] \in {0, a} /\ Marks(q, at, Shown) = a + 1 .. e
  BY <1>2 DEF Follows, Coming
<1>4. Head(q) \in Shown
  OBVIOUS
<1> HIDE DEF q, at
<1>5. /\ Marks(q, at, Shown) = Marks(Tail(q), Tail(at), Shown)
                                 \cup IF Head(q) \in Shown THEN {h} ELSE {}
      /\ Head(q) \in Shown => \A x \in Marks(Tail(q), Tail(at), Shown) : h < x
  BY <1>1, MarksTail
<1> DEFINE D == Marks(Tail(q), Tail(at), Shown)
<1>6. D \cup {h} = a + 1 .. e /\ \A x \in D : h < x
  BY <1>3, <1>4, <1>5
<1> HIDE DEF D, h
<1>7. h = a + 1
  BY <1>6, FirstMark
<1>8. h - 1 = a
  BY <1>7
<1> QED
  BY <1>3, <1>8 DEF h, at

LEMMA ChatStutters ==
  ASSUME UNCHANGED <<log, shown, place, proc>>
  PROVE  UNCHANGED Chat!vars
<1>1. NobodyLeft' = NobodyLeft
  BY DEF NobodyLeft
<1> QED
  BY <1>1 DEF Chat!vars

LEMMA ChatReads ==
  ASSUME LineTypes, OrderInv, NobodyLeft => GapInv, NEW c \in Clients, ClientReads(c)
  PROVE  [Chat!Next]_(Chat!vars)
<1> DEFINE k == Head(downAt[c])
<1>1. proc' = proc /\ log' = log /\ NobodyLeft' = NobodyLeft /\ down[c] # <<>>
  <2>1. proc' = proc
    BY DEF ClientReads, Client!OnMsg, Client!OnRefusal, Client!OnWelcome,
       Client!OnNegativeAck, Client!OnPositiveAck, Client!OnOther, Client!login
  <2>2. NobodyLeft' = NobodyLeft
    BY <2>1 DEF NobodyLeft
  <2> QED
    BY <2>1, <2>2 DEF ClientReads, Client!OnMsg, Client!Next1
<1>2. CASE connected[c] /\ Head(down[c]).type = "server_client"
  <2>1. /\ shown' = [shown EXCEPT ![c] = Append(@, Head(down[c]).body)]
        /\ place' = [place EXCEPT ![c] = k]
    BY <1>2 DEF ClientReads, Show
  <2>2. k \in 1 .. Len(log) /\ place[c] <= k /\ Head(down[c]).body = log[k]
    BY <1>2, ReadOrder
  <2>3. NobodyLeft => place[c] \in {0, k - 1}
    <3>1. Head(down[c]) \in Told
      BY <1>1, HeadTail DEF LineTypes
    <3>2. Head(down[c]) \in Shown
      BY <1>2, <3>1 DEF Told, Replies, Shown
    <3> QED
      BY <1>1, <3>2, ShownNext DEF GapInv
  <2> HIDE DEF k
  <2>4. Chat!Read(c, k)
    BY <1>1, <2>1, <2>2, <2>3 DEF Chat!Read
  <2> QED
    BY <2>2, <2>4 DEF Chat!Next
<1>3. CASE ~(connected[c] /\ Head(down[c]).type = "server_client")
  <2>1. UNCHANGED <<shown, place>>
    BY <1>3 DEF ClientReads
  <2> QED
    BY <1>1, <2>1, ChatStutters
<1> QED
  BY <1>2, <1>3

LEMMA ChatSays ==
  ASSUME LineTypes, ServerReads
  PROVE  [Chat!Next]_(Chat!vars)
<1>1. PICK m \in Heard, r \in Seq(Told) :
        /\ UNCHANGED <<clientSide, up, down, fds, nbFds, shown, place, downAt>>
        /\ Delivers(m, r) \/ Welcoming(m, r) \/ Declines(m, r)
  BY Served
<1>2. UNCHANGED <<shown, place, proc>>
  BY <1>1 DEF clientSide
<1>3. NobodyLeft' = NobodyLeft
  BY <1>2 DEF NobodyLeft
<1>4. CASE Delivers(m, r)
  <2>1. Chat!Say(m.body) /\ m.body \in Texts
    BY <1>2, <1>3, <1>4 DEF Delivers, Chat!Say
  <2> QED
    BY <2>1 DEF Chat!Next
<1>5. CASE Welcoming(m, r) \/ Declines(m, r)
  <2>1. log' = log
    BY <1>5 DEF Welcoming, Declines
  <2> QED
    BY <1>2, <2>1, ChatStutters
<1> QED
  BY <1>1, <1>4, <1>5

LEMMA ChatNext ==
  ASSUME ProcType, LineTypes, OrderInv, NobodyLeft => GapInv, [Next]_vars
  PROVE  [Chat!Next]_(Chat!vars)
<1>1. ASSUME NEW c \in Clients, Join(c) PROVE [Chat!Next]_(Chat!vars)
  <2>1. UNCHANGED <<log, shown, place>> /\ proc[c] = "off" /\ proc' = [proc EXCEPT ![c] = "on"]
    BY <1>1 DEF Join, Client!Start, seen
  <2>2. NobodyLeft' = NobodyLeft
    BY <2>1 DEF NobodyLeft, ProcType
  <2> QED
    BY <2>1, <2>2 DEF Chat!vars
<1>2. ASSUME NEW c \in Clients, Leave(c) \/ ClientReadsBeyond(c) PROVE [Chat!Next]_(Chat!vars)
  <2>1. UNCHANGED <<log, shown, place>> /\ proc' = [proc EXCEPT ![c] = "gone"]
    BY <1>2 DEF Leave, ClientReadsBeyond, Client!Leave, Client!ReadBeyond, Client!Stop
  <2>2. NobodyLeft' = FALSE
    BY <2>1 DEF NobodyLeft, ProcType
  <2>3. Chat!Leave
    BY <2>1, <2>2 DEF Chat!Leave
  <2> QED
    BY <2>3 DEF Chat!Next
<1>3. ASSUME NEW c \in Clients, UserActs(c) PROVE [Chat!Next]_(Chat!vars)
  <2>1. UNCHANGED <<log, shown, place>>
    BY <1>3 DEF UserActs, seen
  <2>2. proc' = proc
    BY <1>3 DEF UserActs, Client!Login, Client!RequestLogin, Client!Speak, Client!Say,
       Client!SayGrowing, Client!login
  <2> QED
    BY <2>1, <2>2, ChatStutters
<1>4. ASSUME NEW c \in Clients, ClientReads(c) PROVE [Chat!Next]_(Chat!vars)
  BY <1>4, ChatReads
<1>5. CASE Proxy \/ Tick \/ UNCHANGED vars
  <2>1. UNCHANGED <<log, shown, place, proc>>
    BY <1>5 DEF Proxy, OnClientReceived, OnClientLeft, OnClientReset, Compress, OnServerReceived,
                Tick, clientSide, seen, vars
  <2> QED
    BY <2>1, ChatStutters
<1>6. CASE ServerReads
  BY <1>6, ChatSays
<1> QED
  BY <1>1, <1>2, <1>3, <1>4, <1>5, <1>6 DEF Next

(* Whatever the clients, the sessions and the interleaving of the two      *)
(* threads, the queues, the slots and the server's table together are one  *)
(* conversation: the server's order of the texts is the order in which     *)
(* every client shows them, and as long as nobody leaves no client shows a *)
(* text twice or leaves one out.                                           *)
THEOREM ImplementsChat == Spec => OneConversation
<1> DEFINE K == ProcType /\ LineTypes /\ OrderInv /\ (NobodyLeft => GapInv)
<1>1. Spec => []K
  BY Invariant, Lines, NothingLeftOut, PTL
<1>2. Init => Chat!Init
  <2>1. Init => log = <<>> /\ shown = [c \in Clients |-> <<>>] /\ place = [c \in Clients |-> 0]
    BY DEF Init
  <2>2. Init => NobodyLeft = TRUE
    BY DEF Init, Client!ClientInit, NobodyLeft
  <2> QED
    BY <2>1, <2>2 DEF Chat!Init
<1>3. K /\ [Next]_vars => [Chat!Next]_(Chat!vars)
  BY ChatNext
<1> HIDE DEF K
<1>4. Spec => Chat!Spec
  BY <1>1, <1>2, <1>3, PTL DEF Spec, Chat!Spec
<1> QED
  BY <1>4 DEF OneConversation
=============================================================================
