---------------------------- MODULE LibraryProofs ----------------------------
(***************************************************************************)
(* The safety of the hashmap, for any hash function and any keys; of the   *)
(* input line and of the cursor in the history, for lines, panels and      *)
(* histories of any size; and what the loops on the array of the line      *)
(* compute.                                                                *)
(***************************************************************************)
EXTENDS InputLine, Hashmap, DataProofs

-----------------------------------------------------------------------------
(* The loops on the array                                                  *)

(* What the loop of backspace and delete has done after index i.           *)
LoweredTo(s, c, i) ==
    [k \in 1 .. Len(s) |-> IF c < k /\ k <= i THEN s[k + 1] ELSE s[k]]

LEMMA LoweredSteps ==
  ASSUME NEW S, NEW s \in Seq(S), NEW c \in Nat, c < Len(s)
  PROVE  Lowered(s, c) = SubSeq(LoweredTo(s, c, Len(s) - 1), 1, Len(s) - 1)
<1> DEFINE n == Len(s) - 1
           step[i \in c .. Len(s) - 1] ==
             IF i = c THEN s
             ELSE [step[i - 1] EXCEPT ![i] = step[i - 1][i + 1]]
           f == [i \in c .. Len(s) - 1 |-> LoweredTo(s, c, i)]
<1>1. Len(s) \in Nat /\ DOMAIN s = 1 .. Len(s) /\ n \in Nat /\ c <= n
      /\ s = [k \in 1 .. Len(s) |-> s[k]]
  BY LenProperties
<1>2. Lowered(s, c) = SubSeq(step[Len(s) - 1], 1, Len(s) - 1)
  BY DEF Lowered
<1>3. LoweredTo(s, c, c) = s
  BY <1>1 DEF LoweredTo
<1>4. ASSUME NEW i \in c + 1 .. n
      PROVE  LoweredTo(s, c, i)
               = [LoweredTo(s, c, i - 1) EXCEPT ![i] = LoweredTo(s, c, i - 1)[i + 1]]
  <2> DEFINE q == LoweredTo(s, c, i - 1)
  <2>1. q[i + 1] = s[i + 1]
    BY <1>1 DEF LoweredTo
  <2>2. ASSUME NEW k \in 1 .. Len(s)
        PROVE  LoweredTo(s, c, i)[k] = IF k = i THEN s[i + 1] ELSE q[k]
    <3>1. CASE k = i
      BY <1>1, <3>1 DEF LoweredTo
    <3>2. CASE k # i
      BY <1>1, <3>2 DEF LoweredTo
    <3> QED
      BY <3>1, <3>2
  <2>3. /\ q = [k \in 1 .. Len(s) |-> q[k]]
        /\ LoweredTo(s, c, i) = [k \in 1 .. Len(s) |-> LoweredTo(s, c, i)[k]]
    BY DEF LoweredTo
  <2> HIDE DEF q
  <2>4. LoweredTo(s, c, i) = [q EXCEPT ![i] = q[i + 1]]
    BY <2>1, <2>2, <2>3
  <2> QED
    BY <2>4 DEF q
<1>5. f = [i \in c .. Len(s) - 1 |->
             IF i = c THEN s ELSE [f[i - 1] EXCEPT ![i] = f[i - 1][i + 1]]]
  <2> SUFFICES ASSUME NEW i \in c .. Len(s) - 1
               PROVE  LoweredTo(s, c, i)
                        = IF i = c THEN s ELSE [f[i - 1] EXCEPT ![i] = f[i - 1][i + 1]]
    OBVIOUS
  <2>1. CASE i = c
    BY <1>3, <2>1
  <2>2. CASE i # c
    <3>1. i \in c + 1 .. n /\ f[i - 1] = LoweredTo(s, c, i - 1)
      BY <1>1, <2>2
    <3> QED
      BY <1>4, <2>2, <3>1
  <2> QED
    BY <2>1, <2>2
<1>6. step = [i \in c .. Len(s) - 1 |->
                IF i = c THEN s ELSE [step[i - 1] EXCEPT ![i] = step[i - 1][i + 1]]]
  <2> HIDE DEF f
  <2> QED
    BY <1>5
<1> HIDE DEF step, f
<1>7. ASSUME NEW i \in c .. n PROVE step[i] = LoweredTo(s, c, i)
  <2> DEFINE T == {k \in c .. n : step[k] # LoweredTo(s, c, k)}
  <2>1. SUFFICES ASSUME T # {} PROVE FALSE
    OBVIOUS
  <2>2. PICK k \in T : \A j \in T : k <= j
    <3>1. T \subseteq Nat
      BY <1>1
    <3> QED
      BY <2>1, <3>1, Least
  <2>3. k # c
    BY <1>1, <1>3, <1>6
  <2>4. k \in c + 1 .. n /\ k - 1 \in c .. n /\ k - 1 \notin T
    BY <1>1, <2>2, <2>3
  <2>5. step[k - 1] = LoweredTo(s, c, k - 1)
    BY <2>4
  <2>6. step[k] = [step[k - 1] EXCEPT ![k] = step[k - 1][k + 1]]
    BY <1>1, <1>6, <2>3, <2>4
  <2> QED
    BY <1>4, <2>4, <2>5, <2>6
<1> QED
  BY <1>1, <1>2, <1>7

LEMMA LoweredProperties ==
  ASSUME NEW S, NEW s \in Seq(S), NEW c \in Nat, c < Len(s)
  PROVE  /\ Lowered(s, c) \in Seq(S) /\ Len(Lowered(s, c)) = Len(s) - 1
         /\ \A k \in 1 .. Len(s) - 1 : Lowered(s, c)[k] = IF k > c THEN s[k + 1] ELSE s[k]
<1> DEFINE q == LoweredTo(s, c, Len(s) - 1)
           n == Len(s) - 1
<1>1. n \in Nat /\ Len(s) = n + 1 /\ \A k \in 1 .. Len(s) : s[k] \in S
  BY LenProperties, ElementOfSeq
<1>2. \A k \in 1 .. n : q[k] = IF k > c THEN s[k + 1] ELSE s[k]
  BY <1>1 DEF LoweredTo
<1>3. \A k \in 1 .. n : q[k] \in S
  BY <1>1, <1>2
<1>4. Lowered(s, c) = SubSeq(q, 1, n)
  BY LoweredSteps
<1> HIDE DEF q, n
<1>5. /\ SubSeq(q, 1, n) \in Seq(S)
      /\ Len(SubSeq(q, 1, n)) = IF 1 <= n THEN n - 1 + 1 ELSE 0
      /\ \A k \in 1 .. n - 1 + 1 : SubSeq(q, 1, n)[k] = q[1 + k - 1]
  BY <1>1, <1>3, SubSeqProperties
<1>6. Len(Lowered(s, c)) = n /\ \A k \in 1 .. n : Lowered(s, c)[k] = q[k]
  BY <1>1, <1>4, <1>5
<1> QED
  BY <1>1, <1>2, <1>4, <1>5, <1>6 DEF n

(* The loop of backspace and delete takes one byte out of the line, and    *)
(* every other one stays where it was in their order, wherever the cursor. *)
THEOREM LoweredRemoves ==
  ASSUME NEW S, NEW s \in Seq(S), NEW c \in 0 .. Len(s) - 1
  PROVE  Lowered(s, c) = RemoveAt(s, c + 1)
<1> DEFINE a == SubSeq(s, 1, c)
           b == SubSeq(s, c + 2, Len(s))
           n == Len(s)
<1>1. /\ n \in Nat /\ c \in Nat /\ c < n
      /\ \A k \in 1 .. n : s[k] \in S
  BY LenProperties, ElementOfSeq
<1>2. /\ a \in Seq(S) /\ Len(a) = c /\ \A k \in 1 .. c : a[k] = s[k]
  <2>1. \A k \in 1 .. c : s[k] \in S
    BY <1>1
  <2>2. /\ SubSeq(s, 1, c) \in Seq(S)
        /\ Len(SubSeq(s, 1, c)) = IF 1 <= c THEN c - 1 + 1 ELSE 0
        /\ \A k \in 1 .. c - 1 + 1 : SubSeq(s, 1, c)[k] = s[1 + k - 1]
    BY <1>1, <2>1, SubSeqProperties
  <2> QED
    BY <1>1, <2>2
<1>3. /\ b \in Seq(S) /\ Len(b) = n - c - 1
      /\ \A k \in 1 .. n - c - 1 : b[k] = s[c + 1 + k]
  <2>1. \A k \in c + 2 .. n : s[k] \in S
    BY <1>1
  <2>2. /\ SubSeq(s, c + 2, n) \in Seq(S)
        /\ Len(SubSeq(s, c + 2, n)) = IF c + 2 <= n THEN n - (c + 2) + 1 ELSE 0
        /\ \A k \in 1 .. n - (c + 2) + 1 : SubSeq(s, c + 2, n)[k] = s[c + 2 + k - 1]
    BY <1>1, <2>1, SubSeqProperties
  <2>3. \A k \in 1 .. n - c - 1 : c + 2 + k - 1 = c + 1 + k
    BY <1>1
  <2> QED
    BY <1>1, <2>2, <2>3
<1>4. RemoveAt(s, c + 1) = a \o b
  <2>1. RemoveAt(s, c + 1) = SubSeq(s, 1, (c + 1) - 1) \o SubSeq(s, (c + 1) + 1, Len(s))
    BY DEF RemoveAt
  <2>2. (c + 1) - 1 = c /\ (c + 1) + 1 = c + 2
    BY <1>1
  <2> QED
    BY <2>1, <2>2
<1> HIDE DEF a, b
<1> DEFINE l == Lowered(s, c)
           r == a \o b
<1> HIDE DEF l, r
<1>5. /\ r \in Seq(S) /\ Len(r) = n - 1
      /\ \A k \in 1 .. n - 1 : r[k] = IF k <= c THEN a[k] ELSE b[k - c]
  <2>1. /\ r \in Seq(S) /\ Len(r) = Len(a) + Len(b)
        /\ \A k \in 1 .. Len(a) + Len(b) : r[k] =
                IF k <= Len(a) THEN a[k] ELSE b[k - Len(a)]
    BY <1>2, <1>3, ConcatProperties DEF r
  <2>2. Len(a) = c /\ Len(a) + Len(b) = n - 1
    BY <1>1, <1>2, <1>3
  <2> QED
    BY <2>1, <2>2
<1>6. \A k \in 1 .. n - 1 : r[k] = IF k > c THEN s[k + 1] ELSE s[k]
  <2> TAKE k \in 1 .. n - 1
  <2>1. CASE k <= c
    <3>1. k \in 1 .. c /\ r[k] = a[k]
      BY <1>1, <1>5, <2>1
    <3> QED
      BY <1>1, <1>2, <2>1, <3>1
  <2>2. CASE k > c
    <3>1. k - c \in 1 .. n - c - 1 /\ c + 1 + (k - c) = k + 1
      BY <1>1, <2>2
    <3>2. r[k] = b[k - c] /\ b[k - c] = s[c + 1 + (k - c)]
      BY <1>1, <1>3, <1>5, <2>2, <3>1
    <3> QED
      BY <1>1, <2>2, <3>1, <3>2
  <2> QED
    BY <1>1, <2>1, <2>2
<1>7. /\ l \in Seq(S) /\ Len(l) = n - 1
      /\ \A k \in 1 .. n - 1 : l[k] = IF k > c THEN s[k + 1] ELSE s[k]
  BY <1>1, LoweredProperties DEF l
<1>8. l \in Seq(S) /\ r \in Seq(S) /\ Len(l) = Len(r) /\ \A k \in 1 .. Len(l) : l[k] = r[k]
  BY <1>5, <1>6, <1>7
<1>9. l = r
  BY <1>8, SeqEqual
<1> QED
  BY <1>4, <1>9 DEF l, r
-----------------------------------------------------------------------------
(* What the loop of an insertion has done after index i.                   *)
RaisedTo(s, c, i) ==
    [k \in 1 .. Len(s) + 1 |->
        IF c + 1 < k /\ k <= i + 1 THEN s[c + 1] ELSE Append(s, "NUL")[k]]

LEMMA RaisedSteps ==
  ASSUME NEW S, NEW s \in Seq(S), NEW c \in Nat, c < Len(s)
  PROVE  Raised(s, c) = RaisedTo(s, c, Len(s))
<1> DEFINE n == Len(s)
           t == Append(s, "NUL")
           step[i \in c .. Len(s)] ==
             IF i = c THEN Append(s, "NUL")
             ELSE [step[i - 1] EXCEPT ![i + 1] = step[i - 1][i]]
           f == [i \in c .. Len(s) |-> RaisedTo(s, c, i)]
<1>1. /\ n \in Nat /\ c < n /\ t = [k \in 1 .. n + 1 |-> t[k]]
      /\ \A k \in 1 .. n : t[k] = s[k]
  <2>1. s \in Seq(S \cup {"NUL"})
    BY LenProperties, SeqDef
  <2>2. n \in Nat /\ DOMAIN s = 1 .. n
    BY LenProperties
  <2>3. /\ t \in Seq(S \cup {"NUL"}) /\ Len(t) = n + 1
        /\ \A k \in 1 .. n : t[k] = s[k]
    BY <2>1, AppendProperties
  <2>4. DOMAIN t = 1 .. n + 1 /\ t = [k \in DOMAIN t |-> t[k]]
    <3> HIDE DEF t
    <3> QED
      BY <2>3, LenProperties
  <2> QED
    BY <2>2, <2>3, <2>4
<1>2. Raised(s, c) = step[Len(s)]
  BY DEF Raised
<1> HIDE DEF t
<1>3. RaisedTo(s, c, c) = t
  <2>1. RaisedTo(s, c, c) = [k \in 1 .. n + 1 |-> t[k]]
    BY <1>1 DEF RaisedTo, t
  <2> QED
    BY <1>1, <2>1
<1>4. ASSUME NEW i \in c + 1 .. n
      PROVE  RaisedTo(s, c, i)
               = [RaisedTo(s, c, i - 1) EXCEPT ![i + 1] = RaisedTo(s, c, i - 1)[i]]
  <2> DEFINE q == RaisedTo(s, c, i - 1)
  <2>1. q[i] = s[c + 1]
    <3>1. CASE i = c + 1
      BY <1>1, <3>1 DEF RaisedTo, t
    <3>2. CASE i # c + 1
      BY <1>1, <3>2 DEF RaisedTo, t
    <3> QED
      BY <3>1, <3>2
  <2>2. ASSUME NEW k \in 1 .. n + 1
        PROVE  RaisedTo(s, c, i)[k] = IF k = i + 1 THEN s[c + 1] ELSE q[k]
    <3>1. CASE k = i + 1
      BY <1>1, <3>1 DEF RaisedTo
    <3>2. CASE k # i + 1
      BY <1>1, <3>2 DEF RaisedTo
    <3> QED
      BY <3>1, <3>2
  <2>3. /\ q = [k \in 1 .. n + 1 |-> q[k]]
        /\ RaisedTo(s, c, i) = [k \in 1 .. n + 1 |-> RaisedTo(s, c, i)[k]]
    BY DEF RaisedTo
  <2> HIDE DEF q
  <2>4. RaisedTo(s, c, i) = [q EXCEPT ![i + 1] = q[i]]
    BY <2>1, <2>2, <2>3
  <2> QED
    BY <2>4 DEF q
<1>5. f = [i \in c .. Len(s) |->
             IF i = c THEN Append(s, "NUL") ELSE [f[i - 1] EXCEPT ![i + 1] = f[i - 1][i]]]
  <2> SUFFICES ASSUME NEW i \in c .. Len(s)
               PROVE  RaisedTo(s, c, i)
                        = IF i = c THEN Append(s, "NUL")
                          ELSE [f[i - 1] EXCEPT ![i + 1] = f[i - 1][i]]
    OBVIOUS
  <2>1. CASE i = c
    BY <1>3, <2>1 DEF t
  <2>2. CASE i # c
    <3>1. i \in c + 1 .. n /\ f[i - 1] = RaisedTo(s, c, i - 1)
      BY <1>1, <2>2
    <3> QED
      BY <1>4, <2>2, <3>1
  <2> QED
    BY <2>1, <2>2
<1>6. step = [i \in c .. Len(s) |->
                IF i = c THEN Append(s, "NUL")
                ELSE [step[i - 1] EXCEPT ![i + 1] = step[i - 1][i]]]
  <2> HIDE DEF f
  <2> QED
    BY <1>5
<1> HIDE DEF step, f
<1>7. ASSUME NEW i \in c .. n PROVE step[i] = RaisedTo(s, c, i)
  <2> DEFINE T == {k \in c .. n : step[k] # RaisedTo(s, c, k)}
  <2>1. SUFFICES ASSUME T # {} PROVE FALSE
    OBVIOUS
  <2>2. PICK k \in T : \A j \in T : k <= j
    <3>1. T \subseteq Nat
      BY <1>1
    <3> QED
      BY <2>1, <3>1, Least
  <2>3. k # c
    BY <1>1, <1>3, <1>6 DEF t
  <2>4. k \in c + 1 .. n /\ k - 1 \in c .. n /\ k - 1 \notin T
    BY <1>1, <2>2, <2>3
  <2>5. step[k - 1] = RaisedTo(s, c, k - 1)
    BY <2>4
  <2>6. step[k] = [step[k - 1] EXCEPT ![k + 1] = step[k - 1][k]]
    BY <1>1, <1>6, <2>3, <2>4
  <2> QED
    BY <1>4, <2>4, <2>5, <2>6
<1> QED
  BY <1>1, <1>2, <1>7

(* What a character does to the line: at its end it is appended; anywhere  *)
(* else, every byte behind it becomes the one that the cursor was on.      *)
THEOREM InsertRepeats ==
  ASSUME NEW S, input \in Seq(S), cursor \in 0 .. Len(input), NEW b \in S
  PROVE  /\ Inserted(b) \in Seq(S) /\ Len(Inserted(b)) = Len(input) + 1
         /\ \A k \in 1 .. Len(input) + 1 :
              Inserted(b)[k] = IF k <= cursor THEN input[k]
                               ELSE IF k = cursor + 1 THEN b ELSE input[cursor + 1]
<1> DEFINE n == Len(input)
<1>1. n \in Nat /\ cursor \in Nat /\ cursor <= n /\ \A k \in 1 .. n : input[k] \in S
  BY LenProperties, ElementOfSeq
<1>2. CASE cursor = n
  <2>1. Inserted(b) = Append(input, b)
    BY <1>2 DEF Inserted
  <2>2. /\ Append(input, b) \in Seq(S) /\ Len(Append(input, b)) = n + 1
        /\ \A k \in 1 .. n : Append(input, b)[k] = input[k]
        /\ Append(input, b)[n + 1] = b
    BY AppendProperties
  <2> QED
    BY <1>1, <1>2, <2>1, <2>2
<1>3. CASE cursor < n
  <2> DEFINE r == [k \in 1 .. n + 1 |-> IF k <= cursor THEN input[k]
                                        ELSE IF k = cursor + 1 THEN b ELSE input[cursor + 1]]
             q == RaisedTo(input, cursor, n)
  <2>1. Inserted(b) = [q EXCEPT ![cursor + 1] = b]
    BY <1>1, <1>3, RaisedSteps DEF Inserted
  <2>2. \A k \in 1 .. n : Append(input, "NUL")[k] = input[k]
    BY <1>1
  <2>3. \A k \in 1 .. n + 1 : k # cursor + 1 => q[k] = r[k]
    BY <1>1, <1>3, <2>2 DEF RaisedTo
  <2>4. q = [k \in 1 .. n + 1 |-> q[k]] /\ r[cursor + 1] = b
    BY <1>1, <1>3 DEF RaisedTo
  <2> HIDE DEF q
  <2>5. [q EXCEPT ![cursor + 1] = b] = [k \in 1 .. n + 1 |-> r[k]]
    BY <1>1, <1>3, <2>3, <2>4
  <2>6. Inserted(b) = r
    BY <2>1, <2>5
  <2>7. \A k \in 1 .. n + 1 : r[k] \in S
    BY <1>1, <1>3
  <2>8. r \in Seq(S) /\ Len(r) = n + 1
    BY <1>1, <2>7
  <2> QED
    BY <2>6, <2>8
<1> QED
  BY <1>1, <1>2, <1>3
-----------------------------------------------------------------------------
(* The cursor of the history                                               *)

LEMMA LastMsgIs ==
  ASSUME Nb \in Nat, Nb <= MaxMsgs
  PROVE  LastMsg = IF Nb = 0 THEN SizeT - 1 ELSE Nb - 1
<1>1. SizeT \in Nat /\ SizeT > 0 /\ Nb < SizeT
  BY HistoryAssumption
<1> DEFINE n == Nb
<1> HIDE DEF n
<1>2. ASSUME NEW a \in Int, 0 <= a, a < SizeT PROVE a % SizeT = a
  BY <1>1, <1>2
<1>3. (-1) % SizeT = SizeT - 1
  BY <1>1
<1>4. CASE Nb = 0
  BY <1>3, <1>4 DEF LastMsg
<1>5. CASE Nb # 0
  BY <1>1, <1>2, <1>5 DEF LastMsg
<1> QED
  BY <1>4, <1>5

HistoryOK ==
    /\ msgs \in Seq(Lengths) /\ msgCursor \in Nat /\ Nb <= MaxMsgs
    /\ early \in 0 .. MaxDown
    /\ msgCursor < Nb \/ msgCursor <= early

LEMMA ReceiveOK ==
  ASSUME HistoryOK, NEW len \in Lengths, Receive(len)
  PROVE  /\ HistoryOK' /\ Len(msgs') = Nb + 1 /\ early' = early
         /\ msgCursor = Nb - 1 => msgCursor' = Nb
<1>1. /\ Nb \in Nat /\ Nb < MaxMsgs /\ msgs' \in Seq(Lengths) /\ Len(msgs') = Nb + 1
      /\ MaxMsgs \in Nat /\ MaxDown \in Nat /\ SizeT \in Nat /\ SizeT > MaxMsgs + MaxDown
  BY HistoryAssumption, LenProperties, AppendProperties DEF HistoryOK, Receive, Nb
<1>2. LastMsg = IF Nb = 0 THEN SizeT - 1 ELSE Nb - 1
  BY <1>1, LastMsgIs
<1>3. /\ msgCursor' = IF msgCursor = LastMsg THEN msgCursor + 1 ELSE msgCursor
      /\ early' = early
  BY DEF Receive
<1>4. msgCursor \in Nat /\ early \in 0 .. MaxDown /\ (msgCursor < Nb \/ msgCursor <= early)
  BY DEF HistoryOK
<1>5. msgCursor' \in Nat /\ (msgCursor' < Nb + 1 \/ msgCursor' <= early')
  BY <1>1, <1>2, <1>3, <1>4
<1>6. HistoryOK'
  BY <1>1, <1>3, <1>4, <1>5 DEF HistoryOK, Nb
<1> QED
  BY <1>1, <1>2, <1>3, <1>4, <1>6

LEMMA PressOK ==
  ASSUME HistoryOK, NEW key, Press(key)
  PROVE  HistoryOK' /\ msgs' = msgs /\ (Nb > 0 => early' = early)
<1>1. Nb \in Nat /\ MaxDown \in Nat /\ msgCursor \in Nat /\ early \in 0 .. MaxDown
  BY HistoryAssumption, LenProperties DEF HistoryOK, Nb
<1>2. /\ msgCursor' <= MaxDown /\ msgs' = msgs
      /\ early' = IF Nb = 0 THEN msgCursor' ELSE early
      /\ \/ msgCursor < LastMsg /\ msgCursor' = msgCursor + 1
         \/ msgCursor > 0 /\ msgCursor' = msgCursor - 1
         \/ msgCursor' = msgCursor
  BY DEF Press, MsgCursorAfter
<1>3. msgCursor' \in Nat /\ early' \in 0 .. MaxDown
  BY <1>1, <1>2
<1>4. LastMsg = IF Nb = 0 THEN SizeT - 1 ELSE Nb - 1
  BY <1>1, LastMsgIs DEF HistoryOK
<1>5. msgCursor' < Nb \/ msgCursor' <= early'
  BY <1>1, <1>2, <1>3, <1>4 DEF HistoryOK
<1>6. HistoryOK'
  BY <1>2, <1>3, <1>5 DEF HistoryOK, Nb
<1> QED
  BY <1>1, <1>2, <1>6

LEMMA HistoryInvariant == HistorySpec => []HistoryOK
<1>1. HistoryInit => HistoryOK
  BY HistoryAssumption DEF HistoryInit, HistoryOK, Nb
<1>2. ASSUME HistoryOK, [HistoryNext]_history PROVE HistoryOK'
  <2>1. CASE HistoryNext
    BY <1>2, <2>1, ReceiveOK, PressOK DEF HistoryNext
  <2>2. CASE UNCHANGED history
    BY <1>2, <2>2 DEF HistoryOK, history, Nb
  <2> QED
    BY <1>2, <2>1, <2>2
<1> QED
  BY <1>1, <1>2, PTL DEF HistorySpec

(* Whatever keys are pressed and messages come, from the first state on:   *)
(* the cursor is on a message, or no further than the keys pressed before  *)
(* the first message had taken it, where nb - 1 wraps; and one on the last *)
(* message follows the next.                                               *)
THEOREM CursorFollows == HistorySpec => CursorStaysOnMessages
<1>1. ASSUME HistoryOK, HistoryNext
      PROVE  /\ msgCursor' < Len(msgs') \/ msgCursor' <= early'
             /\ Nb > 0 => early' = early
             /\ (Len(msgs') > Nb /\ msgCursor = Nb - 1)
                  => msgCursor' = Len(msgs') - 1
  <2>1. Nb \in Nat /\ Len(msgs) = Nb
    BY <1>1, LenProperties DEF HistoryOK, Nb
  <2>2. ASSUME NEW len \in Lengths, Receive(len)
        PROVE  /\ HistoryOK' /\ early' = early
               /\ msgCursor = Nb - 1 => msgCursor' = Len(msgs') - 1
    BY <1>1, <2>1, <2>2, ReceiveOK
  <2>3. ASSUME NEW key, Press(key)
        PROVE  HistoryOK' /\ (Nb > 0 => early' = early) /\ ~(Len(msgs') > Nb)
    BY <1>1, <2>1, <2>3, PressOK
  <2>4. HistoryOK' => msgCursor' < Len(msgs') \/ msgCursor' <= early'
    BY DEF HistoryOK, Nb
  <2> QED
    BY <1>1, <2>2, <2>3, <2>4 DEF HistoryNext
<1> QED
  BY <1>1, HistoryInvariant, PTL DEF HistorySpec, CursorStaysOnMessages
-----------------------------------------------------------------------------
(* The input line                                                          *)

(* A key that is no character is decoded by one of the tables.             *)
LEMMA SentKeys ==
  ASSUME NEW k \in DOMAIN Sent, NEW s \in Sent[k]
  PROVE  \/ \E a \in SpecialBytes : s = <<a>> /\ OneByte(a) = k
         \/ s = <<"ESC", "?", "M">> /\ k = "enter"
         \/ \E c \in {"A", "B", "C", "D", "H", "F"} :
              s = <<"ESC", "[", c>> /\ AfterBracket(c, "escape") = k
         \/ \E c \in {"H", "F"} : s = <<"ESC", "O", c>> /\ AfterO(c, "escape") = k
         \/ \E c \in {"1", "3", "4", "5", "6", "7", "8"} :
              s = <<"ESC", "[", c, "~">> /\ AfterDigit(c, "escape") = k
<1>1. k \in {"enter", "tab", "escape", "backspace", "delete", "top", "bottom", "right", "left",
             "home", "end", "pageup", "pagedown"}
  BY DEF Sent
<1>2. CASE k \in {"enter", "tab", "escape", "backspace"}
  <2>1. \/ s = <<"ESC", "?", "M">> /\ k = "enter"
        \/ s = <<"CR">> /\ k = "enter"
        \/ s = <<"TAB">> /\ k = "tab"
        \/ s = <<"ESC">> /\ k = "escape"
        \/ s = <<"DEL">> /\ k = "backspace"
    BY <1>2 DEF Sent
  <2> QED
    BY <2>1 DEF OneByte, SpecialBytes
<1>3. CASE k \in {"top", "bottom", "right", "left"}
  <2>1. \/ s = <<"ESC", "[", "A">> /\ k = "top"
        \/ s = <<"ESC", "[", "B">> /\ k = "bottom"
        \/ s = <<"ESC", "[", "C">> /\ k = "right"
        \/ s = <<"ESC", "[", "D">> /\ k = "left"
    BY <1>3 DEF Sent
  <2> QED
    BY <2>1 DEF AfterBracket
<1>4. CASE k \in {"delete", "pageup", "pagedown"}
  <2>1. \/ s = <<"ESC", "[", "3", "~">> /\ k = "delete"
        \/ s = <<"ESC", "[", "5", "~">> /\ k = "pageup"
        \/ s = <<"ESC", "[", "6", "~">> /\ k = "pagedown"
    BY <1>4 DEF Sent
  <2> QED
    BY <2>1 DEF AfterDigit
<1>5. CASE k = "home"
  <2>1. \/ s = <<"ESC", "[", "H">> \/ s = <<"ESC", "O", "H">>
        \/ s = <<"ESC", "[", "1", "~">> \/ s = <<"ESC", "[", "7", "~">>
    BY <1>5 DEF Sent
  <2> QED
    BY <1>5, <2>1 DEF AfterDigit, AfterBracket, AfterO
<1>6. CASE k = "end"
  <2>1. \/ s = <<"ESC", "[", "F">> \/ s = <<"ESC", "O", "F">>
        \/ s = <<"ESC", "[", "4", "~">> \/ s = <<"ESC", "[", "8", "~">>
    BY <1>6 DEF Sent
  <2> QED
    BY <1>6, <2>1 DEF AfterDigit, AfterBracket, AfterO
<1> QED
  BY <1>1, <1>2, <1>3, <1>4, <1>5, <1>6

LEMMA BytesOfKeys ==
  ASSUME NEW k \in DOMAIN KeyBytes
  PROVE  KeyBytes[k] \in Seq(Bytes)
<1> DEFINE s == KeyBytes[k]
<1>1. \E S : s \in Seq(S)
  <2>1. CASE k \in DOMAIN Sent \ Chars /\ s \in Sent[k]
    <3>1. \/ \E a : s = <<a>>
          \/ \E b, c : s = <<"ESC", b, c>>
          \/ \E c : s = <<"ESC", "[", c, "~">>
      <4> HIDE DEF s
      <4> QED
        BY <2>1, SentKeys
    <3> HIDE DEF s
    <3>2. ASSUME NEW a, s = <<a>> PROVE s \in Seq({a})
      BY <3>2
    <3>3. ASSUME NEW b, NEW c, s = <<"ESC", b, c>> PROVE s \in Seq({"ESC", b, c})
      BY <3>3
    <3>4. ASSUME NEW c, s = <<"ESC", "[", c, "~">> PROVE s \in Seq({"ESC", "[", c, "~"})
      BY <3>4
    <3>5. \E S : s \in Seq(S)
      BY <3>1, <3>2, <3>3, <3>4
    <3> QED
      BY <3>5
  <2>2. CASE s \in Seq(STRING \ SpecialBytes)
    BY <2>2
  <2> QED
    BY <2>1, <2>2, InputAssumption
<1>2. \A i \in DOMAIN s : s[i] \in Bytes
  BY DEF Bytes
<1> HIDE DEF s
<1>3. /\ Len(s) \in Nat /\ DOMAIN s = 1 .. Len(s) /\ s = [i \in 1 .. Len(s) |-> s[i]]
  BY <1>1, LenProperties
<1>4. s \in Seq(Bytes)
  BY <1>2, <1>3, SeqDef
<1> QED
  BY <1>4 DEF s

LEMMA DropType ==
  ASSUME tty \in Seq(Bytes), NEW n \in Nat, Drop(n)
  PROVE  tty' \in Seq(Bytes)
<1>1. Len(tty) \in Nat /\ \A i \in 1 .. Len(tty) : tty[i] \in Bytes
  BY LenProperties, ElementOfSeq
<1>2. \A i \in n + 1 .. Len(tty) : tty[i] \in Bytes
  BY <1>1
<1>3. SubSeq(tty, n + 1, Len(tty)) \in Seq(Bytes)
  BY <1>1, <1>2, SubSeqProperties
<1> QED
  BY <1>3 DEF Drop

(* The line and its cursor, whatever was typed.                            *)
LineOK ==
    /\ input \in Seq(Bytes) /\ Len(input) <= MaxMsg - 1
    /\ cursor \in 0 .. Len(input)

LEMMA LineAfterOK ==
  ASSUME LineOK, NEW key, input' = LineAfter(key)[1], cursor' = LineAfter(key)[2]
  PROVE  LineOK'
<1>1. /\ Len(input) \in Nat /\ cursor \in Nat /\ cursor <= Len(input)
      /\ MaxMsg \in Nat /\ MaxMsg > 0 /\ Len(input) <= MaxMsg - 1
  BY LenProperties, InputAssumption DEF LineOK
<1>2. CASE key = "enter"
  <2>1. input' = <<>> /\ cursor' = 0
    BY <1>2 DEF LineAfter
  <2> QED
    BY <1>1, <2>1 DEF LineOK
<1>3. ASSUME NEW c \in Nat, c < Len(input), input' = Lowered(input, c),
             cursor' \in 0 .. Len(input) - 1
      PROVE  LineOK'
  <2>1. Lowered(input, c) \in Seq(Bytes) /\ Len(Lowered(input, c)) = Len(input) - 1
    BY <1>3, LoweredProperties DEF LineOK
  <2> QED
    BY <1>1, <1>3, <2>1 DEF LineOK
<1>4. CASE key = "backspace" /\ cursor > 0
  <2>1. input' = Lowered(input, cursor - 1) /\ cursor' = cursor - 1
    BY <1>4 DEF LineAfter
  <2>2. cursor - 1 \in Nat /\ cursor - 1 < Len(input) /\ cursor - 1 \in 0 .. Len(input) - 1
    BY <1>1, <1>4
  <2> QED
    BY <1>3, <2>1, <2>2
<1>5. CASE key = "delete" /\ cursor < Len(input)
  <2>1. input' = Lowered(input, cursor) /\ cursor' = cursor
    BY <1>5 DEF LineAfter
  <2> QED
    BY <1>1, <1>3, <1>5, <2>1
<1>6. CASE \/ key = "left" /\ cursor > 0
           \/ key = "right" /\ cursor < Len(input)
  <2>1. input' = input /\ cursor' \in 0 .. Len(input)
    BY <1>1, <1>6 DEF LineAfter
  <2> QED
    BY <1>1, <2>1 DEF LineOK
<1>7. CASE /\ key # "enter" /\ ~(key = "backspace" /\ cursor > 0)
           /\ ~(key = "delete" /\ cursor < Len(input))
           /\ ~(key = "left" /\ cursor > 0) /\ ~(key = "right" /\ cursor < Len(input))
  <2>1. LineAfter(key) = line
    BY <1>7 DEF LineAfter
  <2>2. input' = input /\ cursor' = cursor
    BY <2>1 DEF line
  <2> QED
    BY <1>1, <2>2 DEF LineOK
<1> QED
  BY <1>2, <1>4, <1>5, <1>6, <1>7

InputOK ==
    /\ tty \in Seq(Bytes) /\ LineOK /\ HistoryOK
    /\ connected \in BOOLEAN /\ ended \in BOOLEAN

LEMMA TypesOfInput == InputOK => InputTypeOK
<1>1. MaxMsgs \in Nat /\ MaxDown \in Nat
  BY HistoryAssumption
<1>2. ASSUME HistoryOK
      PROVE  /\ msgs \in Seq(Lengths) /\ msgCursor \in 0 .. MaxDown + MaxMsgs
             /\ early \in 0 .. MaxDown
  <2>1. Nb \in Nat /\ msgCursor \in Nat
    BY <1>2, LenProperties DEF HistoryOK, Nb
  <2> QED
    BY <1>1, <1>2, <2>1 DEF HistoryOK
<1> QED
  BY <1>2 DEF InputOK, InputTypeOK, LineOK

LEMMA InputStep ==
  ASSUME InputOK, [InputNext]_ivars
  PROVE  InputOK'
<1> USE DEF InputOK
<1>1. ASSUME UNCHANGED history PROVE HistoryOK'
  BY <1>1 DEF HistoryOK, history, Nb
<1>2. ASSUME UNCHANGED line PROVE LineOK'
  BY <1>2 DEF LineOK, line
<1>3. Len(tty) \in Nat /\ (tty # <<>> => Len(tty) > 0 /\ tty[1] \in Bytes)
  BY LenProperties, ElementOfSeq, EmptySeq
<1>4. ASSUME TurnChar PROVE InputOK'
  <2>1. tty # <<>> /\ Drop(1) /\ ended' \in BOOLEAN /\ UNCHANGED <<connected, history>>
    BY <1>4 DEF TurnChar
  <2>2. tty' \in Seq(Bytes)
    BY <2>1, DropType
  <2>3. ASSUME Room, input' = Inserted(tty[1]), cursor' = cursor + 1 PROVE LineOK'
    <3> DEFINE b == tty[1]
    <3>1. b \in Bytes /\ input \in Seq(Bytes) /\ cursor \in 0 .. Len(input)
      BY <1>3, <2>1 DEF LineOK
    <3> HIDE DEF b
    <3>2. Inserted(b) \in Seq(Bytes) /\ Len(Inserted(b)) = Len(input) + 1
      BY <3>1, InsertRepeats
    <3>3. input' \in Seq(Bytes) /\ Len(input') = Len(input) + 1
      BY <2>3, <3>2 DEF b
    <3>4. Len(input) \in Nat /\ MaxMsg \in Nat /\ Len(input) < MaxMsg - 1
      BY <2>3, <3>1, LenProperties, InputAssumption DEF Room
    <3> QED
      BY <2>3, <3>1, <3>3, <3>4 DEF LineOK
  <2>4. LineOK'
    BY <1>2, <1>4, <2>3 DEF TurnChar
  <2> QED
    BY <1>1, <2>1, <2>2, <2>4
<1>5. ASSUME TurnSpecial PROVE InputOK'
  <2> DEFINE key == Decoded(tty[1], seq0', seq1', Len(tty) - 1)
             n   == 1 + Taken(seq0', seq1', Len(tty) - 1)
  <2>1. /\ tty # <<>> /\ Drop(n) /\ Press(key) /\ ended' = ended /\ connected' = connected
        /\ input' = LineAfter(key)[1] /\ cursor' = LineAfter(key)[2]
    BY <1>5 DEF TurnSpecial
  <2>2. n \in Nat
    BY <1>3, <2>1 DEF Taken
  <2> HIDE DEF key, n
  <2>3. tty' \in Seq(Bytes)
    BY <2>1, <2>2, DropType
  <2>4. LineOK'
    BY <2>1, LineAfterOK
  <2>5. HistoryOK'
    BY <2>1, PressOK
  <2> QED
    BY <2>1, <2>3, <2>4, <2>5
<1>6. ASSUME Hear PROVE InputOK'
  <2>1. PICK len \in HeardLengths : Receive(len)
    BY <1>6 DEF Hear
  <2>2. len \in Lengths
    BY <2>1, InputAssumption
  <2>3. HistoryOK'
    BY <2>1, <2>2, ReceiveOK
  <2> QED
    BY <1>2, <1>6, <2>3 DEF Hear
<1>7. ASSUME NEW k \in DOMAIN KeyBytes, Type(k) PROVE InputOK'
  <2>1. tty' \in Seq(Bytes)
    BY <1>7, BytesOfKeys, ConcatProperties DEF Type
  <2> QED
    BY <1>1, <1>2, <1>7, <2>1 DEF Type
<1>8. ASSUME Welcome PROVE InputOK'
  <2>1. MaxMsg \in Nat /\ MaxMsg > 0
    BY InputAssumption
  <2>2. LineOK'
    BY <1>8, <2>1, EmptySeq DEF Welcome, LineOK
  <2> QED
    BY <1>1, <1>8, <2>2 DEF Welcome
<1>9. ASSUME UNCHANGED ivars PROVE InputOK'
  BY <1>1, <1>2, <1>9 DEF ivars
<1> QED
  BY <1>4, <1>5, <1>6, <1>7, <1>8, <1>9 DEF InputNext

LEMMA InputInvariant == InputSpec => []InputOK
<1>1. InputInit => InputOK
  <2>1. HistoryInit => HistoryOK
    BY HistoryAssumption DEF HistoryInit, HistoryOK, Nb
  <2>2. MaxMsg \in Nat /\ MaxMsg > 0
    BY InputAssumption
  <2>3. input = <<>> /\ cursor = 0 => LineOK
    BY <2>2, EmptySeq DEF LineOK
  <2> QED
    BY <2>1, <2>3, EmptySeq DEF InputInit, InputOK
<1> QED
  BY <1>1, InputStep, PTL DEF InputSpec

(* However keys and their time-outs fall, a byte of the line is one that   *)
(* was typed, the line leaves room for its NUL in the array of MaxMsg      *)
(* bytes, and its cursor is in it.                                         *)
THEOREM TypeCorrect == InputSpec => []InputTypeOK
BY InputInvariant, TypesOfInput, PTL

(* What a key that comes alone is decoded as.                              *)
LEMMA AloneDecoded ==
  ASSUME NEW k \in DOMAIN Sent, tty \in Sent[k], NEW old0, NEW old1,
         old0 \notin {"O", "?"} \/ Len(tty) > 1
  PROVE  /\ tty # <<>> /\ tty[1] \in SpecialBytes
         /\ Decoded(tty[1], Read(1, old0), Read(2, old1), Len(tty) - 1) = k
<1> DEFINE D == Decoded(tty[1], Read(1, old0), Read(2, old1), Len(tty) - 1)
           P == tty # <<>> /\ tty[1] \in SpecialBytes /\ D = k
<1>1. ASSUME NEW a \in SpecialBytes, tty = <<a>>, OneByte(a) = k PROVE P
  <2>1. Len(tty) = 1 /\ tty[1] = a /\ tty # <<>>
    BY <1>1
  <2>2. Read(1, old0) = old0 /\ old0 \notin {"O", "?"} /\ Len(tty) - 1 = 0
    BY <2>1 DEF Read
  <2> DEFINE s1 == Read(2, old1)
  <2> HIDE DEF s1
  <2>3. Decoded(a, old0, s1, 0) = OneByte(a)
    BY <2>2 DEF Decoded, Sequence
  <2> QED
    BY <1>1, <2>1, <2>2, <2>3 DEF s1
<1>2. ASSUME NEW b, NEW c, tty = <<"ESC", b, c>>
      PROVE  /\ tty # <<>> /\ tty[1] = "ESC" /\ D = Decoded("ESC", b, c, 2)
  <2>1. Len(tty) = 3 /\ tty[1] = "ESC" /\ tty[2] = b /\ tty[3] = c /\ tty # <<>>
    BY <1>2
  <2>2. Read(1, old0) = b /\ Read(2, old1) = c /\ Len(tty) - 1 = 2
    BY <2>1 DEF Read
  <2> QED
    BY <2>1, <2>2
<1>3. OneByte("ESC") = "escape" /\ "ESC" \in SpecialBytes
  BY DEF OneByte, SpecialBytes
<1>4. ASSUME tty = <<"ESC", "?", "M">>, k = "enter" PROVE P
  <2>1. Decoded("ESC", "?", "M", 2) = "enter"
    BY DEF Decoded, Sequence, AfterMark
  <2> QED
    BY <1>2, <1>3, <1>4, <2>1
<1>5. ASSUME NEW c \in {"A", "B", "C", "D", "H", "F"}, tty = <<"ESC", "[", c>>,
             AfterBracket(c, "escape") = k
      PROVE  P
  <2>1. Decoded("ESC", "[", c, 2) = AfterBracket(c, "escape")
    <3>1. Sequence("[", 2) /\ c \notin Digits
      BY DEF Sequence, Digits
    <3> QED
      BY <1>3, <3>1 DEF Decoded
  <2> QED
    BY <1>2, <1>3, <1>5, <2>1
<1>6. ASSUME NEW c \in {"H", "F"}, tty = <<"ESC", "O", c>>, AfterO(c, "escape") = k
      PROVE  P
  <2>1. Decoded("ESC", "O", c, 2) = AfterO(c, "escape")
    BY <1>3 DEF Decoded, Sequence
  <2> QED
    BY <1>2, <1>3, <1>6, <2>1
<1>7. ASSUME NEW c \in {"1", "3", "4", "5", "6", "7", "8"}, tty = <<"ESC", "[", c, "~">>,
             AfterDigit(c, "escape") = k
      PROVE  P
  <2>1. /\ Len(tty) = 4 /\ tty[1] = "ESC" /\ tty[2] = "[" /\ tty[3] = c /\ tty[4] = "~"
        /\ tty # <<>>
    BY <1>7
  <2>2. Read(1, old0) = "[" /\ Read(2, old1) = c /\ Len(tty) - 1 = 3
    BY <2>1 DEF Read
  <2>3. Sequence("[", 3) /\ c \in Digits
    BY DEF Sequence, Digits
  <2>4. Decoded("ESC", "[", c, 3) = AfterDigit(c, "escape")
    BY <1>3, <2>1, <2>3 DEF Decoded
  <2> QED
    BY <1>3, <1>7, <2>1, <2>2, <2>4
<1> HIDE DEF P, D
<1>8. P
  <2>1. \/ \E a \in SpecialBytes : tty = <<a>> /\ OneByte(a) = k
        \/ tty = <<"ESC", "?", "M">> /\ k = "enter"
        \/ \E c \in {"A", "B", "C", "D", "H", "F"} :
             tty = <<"ESC", "[", c>> /\ AfterBracket(c, "escape") = k
        \/ \E c \in {"H", "F"} : tty = <<"ESC", "O", c>> /\ AfterO(c, "escape") = k
        \/ \E c \in {"1", "3", "4", "5", "6", "7", "8"} :
             tty = <<"ESC", "[", c, "~">> /\ AfterDigit(c, "escape") = k
    BY SentKeys
  <2>2. CASE \E a \in SpecialBytes : tty = <<a>> /\ OneByte(a) = k
    BY <1>1, <2>2
  <2>3. CASE \E c \in {"A", "B", "C", "D", "H", "F"} :
               tty = <<"ESC", "[", c>> /\ AfterBracket(c, "escape") = k
    BY <1>5, <2>3
  <2>4. CASE \E c \in {"H", "F"} : tty = <<"ESC", "O", c>> /\ AfterO(c, "escape") = k
    BY <1>6, <2>4
  <2>5. CASE \E c \in {"1", "3", "4", "5", "6", "7", "8"} :
               tty = <<"ESC", "[", c, "~">> /\ AfterDigit(c, "escape") = k
    BY <1>7, <2>5
  <2>6. CASE tty = <<"ESC", "?", "M">> /\ k = "enter"
    BY <1>4, <2>6
  <2> QED
    BY <2>1, <2>2, <2>3, <2>4, <2>5, <2>6
<1> QED
  BY <1>8 DEF P, D

(* A special key does to the line what a line editor does.                 *)
LEMMA LineAfterEdits ==
  ASSUME LineOK, NEW k, k \notin Chars
  PROVE  LineAfter(k) = Edited(k)
<1>1. /\ Len(input) \in Nat /\ cursor \in Nat /\ cursor <= Len(input) /\ input \in Seq(Bytes)
  BY LenProperties DEF LineOK
<1>2. CASE k = "backspace" /\ cursor > 0
  <2>1. cursor - 1 \in 0 .. Len(input) - 1 /\ (cursor - 1) + 1 = cursor
    BY <1>1, <1>2
  <2>2. Lowered(input, cursor - 1) = RemoveAt(input, (cursor - 1) + 1)
    BY <1>1, <2>1, LoweredRemoves
  <2>3. Lowered(input, cursor - 1) = RemoveAt(input, cursor)
    BY <2>1, <2>2
  <2>4. LineAfter(k) = <<Lowered(input, cursor - 1), cursor - 1>>
    BY <1>2 DEF LineAfter
  <2>5. Edited(k) = <<RemoveAt(input, cursor), cursor - 1>>
    BY <1>2 DEF Edited
  <2> QED
    BY <2>3, <2>4, <2>5
<1>3. CASE k = "delete" /\ cursor < Len(input)
  <2>1. cursor \in 0 .. Len(input) - 1
    BY <1>1, <1>3
  <2>2. Lowered(input, cursor) = RemoveAt(input, cursor + 1)
    BY <1>1, <2>1, LoweredRemoves
  <2>3. LineAfter(k) = <<Lowered(input, cursor), cursor>>
    BY <1>3 DEF LineAfter
  <2>4. Edited(k) = <<RemoveAt(input, cursor + 1), cursor>>
    BY <1>3 DEF Edited
  <2> QED
    BY <2>2, <2>3, <2>4
<1>4. CASE ~(k = "backspace" /\ cursor > 0) /\ ~(k = "delete" /\ cursor < Len(input))
  <2>1. CASE k = "enter"
    BY <2>1 DEF LineAfter, Edited
  <2>2. CASE k = "left" /\ cursor > 0
    BY <2>2 DEF LineAfter, Edited
  <2>3. CASE k = "right" /\ cursor < Len(input)
    BY <2>3 DEF LineAfter, Edited
  <2>4. CASE /\ k # "enter" /\ ~(k = "left" /\ cursor > 0)
             /\ ~(k = "right" /\ cursor < Len(input))
    <3>1. LineAfter(k) = line
      BY <1>4, <2>4 DEF LineAfter
    <3>2. Edited(k) = line
      BY <1>4, <2>4 DEF Edited
    <3> QED
      BY <3>1, <3>2
  <2> QED
    BY <2>1, <2>2, <2>3, <2>4
<1> QED
  BY <1>2, <1>3, <1>4

(* So does a character at the end of the line, or that has no room.        *)
LEMMA CharEdits ==
  ASSUME LineOK, NEW k \in Chars, NEW b \in Bytes, KeyBytes[k][1] = b, k \notin DOMAIN Sent,
         cursor = Len(input) \/ ~Room
  PROVE  Edited(k) = IF Room THEN <<Inserted(b), cursor + 1>> ELSE line
<1>1. Len(input) \in Nat /\ input \in Seq(Bytes) /\ MaxMsg \in Nat
  BY LenProperties, InputAssumption DEF LineOK
<1>2. k \notin {"enter", "backspace", "delete", "left", "right"}
  BY DEF Sent
<1>3. CASE Room
  <2>1. Edited(k) = <<InsertAt(input, cursor + 1, b), cursor + 1>>
    <3>1. k \in Chars /\ Len(input) < MaxMsg - 1
      BY <1>3 DEF Room
    <3>2. Edited(k) = <<InsertAt(input, cursor + 1, KeyBytes[k][1]), cursor + 1>>
      BY <1>2, <3>1 DEF Edited
    <3> QED
      BY <3>2
  <2>2. InsertAt(input, cursor + 1, b) = Append(input, b)
    <3>0. cursor = Len(input)
      BY <1>3
    <3> DEFINE n == Len(input)
    <3>1. SubSeq(input, 1, n) = input
      BY <1>1, SubSeqProperties
    <3>2. SubSeq(input, n + 1, n) = <<>>
      BY <1>1, EmptySeq, SubSeqProperties
    <3>3. InsertAt(input, n + 1, b) = SubSeq(input, 1, (n + 1) - 1) \o <<b>> \o SubSeq(input, n + 1, n)
      BY DEF InsertAt
    <3>4. (n + 1) - 1 = n
      BY <1>1
    <3>5. input \o <<b>> \o <<>> = Append(input, b)
      BY <1>1
    <3> QED
      BY <3>0, <3>1, <3>2, <3>3, <3>4, <3>5
  <2>3. Inserted(b) = Append(input, b)
    BY <1>3 DEF Inserted
  <2> QED
    BY <1>3, <2>1, <2>2, <2>3
<1>4. CASE ~Room
  <2>1. ~(Len(input) < MaxMsg - 1)
    BY <1>4 DEF Room
  <2>2. Edited(k) = line
    BY <1>2, <2>1 DEF Edited
  <2> QED
    BY <1>4, <2>2
<1> QED
  BY <1>3, <1>4

LEMMA LineAfterPair ==
  ASSUME NEW key
  PROVE  LineAfter(key) = <<LineAfter(key)[1], LineAfter(key)[2]>>
<1>1. \E a, b : LineAfter(key) = <<a, b>>
  <2>1. CASE key = "enter"
    BY <2>1 DEF LineAfter
  <2>2. CASE key = "backspace" /\ cursor > 0
    BY <2>2 DEF LineAfter
  <2>3. CASE key = "delete" /\ cursor < Len(input)
    BY <2>3 DEF LineAfter
  <2>4. CASE key = "left" /\ cursor > 0
    BY <2>4 DEF LineAfter
  <2>5. CASE key = "right" /\ cursor < Len(input)
    BY <2>5 DEF LineAfter
  <2>6. CASE /\ key # "enter" /\ ~(key = "backspace" /\ cursor > 0)
             /\ ~(key = "delete" /\ cursor < Len(input))
             /\ ~(key = "left" /\ cursor > 0) /\ ~(key = "right" /\ cursor < Len(input))
    BY <2>6 DEF LineAfter, line
  <2> QED
    BY <2>1, <2>2, <2>3, <2>4, <2>5, <2>6
<1> QED
  BY <1>1

LEMMA KeyStep ==
  ASSUME InputOK, InputNext, Handled, NEW k \in DOMAIN KeyBytes,
         \/ tty = KeyBytes[k] /\ (seq0 \notin {"O", "?"} \/ Len(tty) > 1)
         \/ k \in Chars /\ tty[1] = KeyBytes[k][1]
  PROVE  IF MidLine(k) THEN Repeated(k) ELSE line' = Edited(k)
<1>1. LineOK /\ tty \in Seq(Bytes) /\ Len(tty) \in Nat /\ tty # <<>>
  BY LenProperties DEF InputOK, Handled
<1>2. TurnChar \/ TurnSpecial
  <2>1. ASSUME NEW j \in DOMAIN KeyBytes, Type(j) PROVE FALSE
    <3>1. KeyBytes[j] \in Seq(Bytes) /\ tty' = tty \o KeyBytes[j]
      BY <2>1, BytesOfKeys DEF Type
    <3>2. Len(tty') = Len(tty) + Len(KeyBytes[j]) /\ Len(KeyBytes[j]) \in Nat
      BY <1>1, <3>1, ConcatProperties, LenProperties
    <3>3. Len(tty') < Len(tty)
      BY DEF Handled
    <3> QED
      BY <1>1, <3>2, <3>3
  <2>2. ASSUME Hear PROVE FALSE
    <3>1. tty' = tty /\ Len(tty') < Len(tty)
      BY <2>2 DEF Hear, Handled
    <3> QED
      BY <1>1, <3>1
  <2>3. ASSUME Welcome PROVE FALSE
    <3>1. tty' = tty /\ Len(tty') < Len(tty)
      BY <2>3 DEF Welcome, Handled
    <3> QED
      BY <1>1, <3>1
  <2> QED
    BY <2>1, <2>2, <2>3 DEF InputNext
<1>3. CASE k \in DOMAIN Sent \ Chars /\ KeyBytes[k] \in Sent[k]
  <2>1. tty = KeyBytes[k] /\ (seq0 \notin {"O", "?"} \/ Len(tty) > 1)
    BY <1>3
  <2>2. /\ tty[1] \in SpecialBytes
        /\ Decoded(tty[1], Read(1, seq0), Read(2, seq1), Len(tty) - 1) = k
    BY <1>3, <2>1, AloneDecoded
  <2>3. TurnSpecial
    BY <1>2, <2>2 DEF TurnChar
  <2>4. seq0' = Read(1, seq0) /\ seq1' = Read(2, seq1)
    BY <2>3 DEF TurnSpecial
  <2>5. input' = LineAfter(k)[1] /\ cursor' = LineAfter(k)[2]
    BY <2>2, <2>3, <2>4 DEF TurnSpecial
  <2>6. line' = <<LineAfter(k)[1], LineAfter(k)[2]>>
    BY <2>5 DEF line
  <2>7. LineAfter(k) = Edited(k)
    BY <1>1, <1>3, LineAfterEdits
  <2>8. ~MidLine(k)
    BY <1>3 DEF MidLine
  <2> QED
    BY <2>6, <2>7, <2>8, LineAfterPair
<1>4. ASSUME /\ k \notin DOMAIN Sent /\ (k \in Chars \/ KeyBytes[k] = <<QuitByte>>)
             /\ KeyBytes[k] \in Seq(STRING \ SpecialBytes) /\ Len(KeyBytes[k]) = 1
      PROVE  IF MidLine(k) THEN Repeated(k) ELSE line' = Edited(k)
  <2> DEFINE b == tty[1]
  <2>1. b = KeyBytes[k][1] /\ b \notin SpecialBytes /\ b \in Bytes
    <3>1. b = KeyBytes[k][1]
      OBVIOUS
    <3>2. 1 \in 1 .. Len(KeyBytes[k])
      BY <1>4
    <3>3. KeyBytes[k][1] \in STRING \ SpecialBytes
      BY <1>4, <3>2, ElementOfSeq
    <3>4. KeyBytes[k][1] \in Bytes
      BY <3>2, BytesOfKeys, ElementOfSeq
    <3> QED
      BY <3>1, <3>3, <3>4
  <2>2. TurnChar
    BY <1>2, <2>1 DEF TurnSpecial
  <2> HIDE DEF b
  <2>3. CASE MidLine(k)
    <3>1. /\ Room /\ cursor \in 0 .. Len(input) /\ input \in Seq(Bytes) /\ b \in Bytes
          /\ Len(input) \in Nat
      BY <1>1, <2>1, <2>3, LenProperties DEF LineOK, MidLine, Room
    <3>2. /\ Len(Inserted(b)) = Len(input) + 1
          /\ \A i \in 1 .. Len(input) + 1 :
               Inserted(b)[i] = IF i <= cursor THEN input[i]
                                ELSE IF i = cursor + 1 THEN b ELSE input[cursor + 1]
      BY <3>1, InsertRepeats
    <3>3. input' = Inserted(b) /\ cursor' = cursor + 1
      BY <2>2, <3>1 DEF TurnChar, b
    <3>4. Repeated(k)
      BY <2>1, <3>1, <3>2, <3>3 DEF Repeated
    <3> QED
      BY <2>3, <3>4
  <2>4. CASE k \in Chars /\ ~MidLine(k)
    <3>0. cursor = Len(input) \/ ~Room
      BY <1>1, <2>4, LenProperties DEF LineOK, MidLine, Room
    <3>1. Edited(k) = IF Room THEN <<Inserted(b), cursor + 1>> ELSE line
      BY <1>1, <1>4, <2>1, <2>4, <3>0, CharEdits
    <3>2. line' = IF Room THEN <<Inserted(b), cursor + 1>> ELSE line
      BY <2>2 DEF TurnChar, line, b
    <3> QED
      BY <2>4, <3>1, <3>2
  <2>5. CASE k \notin Chars
    <3>1. b = QuitByte
      BY <1>4, <2>1, <2>5
    <3>2. ended' = TRUE
      BY <2>2, <3>1 DEF TurnChar, b
    <3> QED
      BY <3>2 DEF Handled
  <2> QED
    BY <2>3, <2>4, <2>5
<1> QED
  BY <1>3, <1>4, InputAssumption

(* A key that comes alone, and a character whatever comes behind it, does  *)
(* to the line what a line editor does: for every sequence that a terminal *)
(* sends for it, any bytes left in seq, any line and any cursor, but for a *)
(* lone key after ESC O or ESC ?.  A character that is inserted before the *)
(* end of the line repeats the byte under the cursor up to the end, and    *)
(* spoils nothing on its left.                                             *)
THEOREM KeysDoAsSaid == InputSpec => KeysDoWhatTheySay
<1>1. ASSUME InputOK, [InputNext]_ivars
      PROVE  [\A k \in DOMAIN KeyBytes :
                (/\ Handled
                 /\ \/ tty = KeyBytes[k] /\ (seq0 \notin {"O", "?"} \/ Len(tty) > 1)
                    \/ k \in Chars /\ tty[1] = KeyBytes[k][1])
                => IF MidLine(k) THEN Repeated(k) ELSE line' = Edited(k)]_ivars
  BY <1>1, KeyStep
<1> QED
  BY <1>1, InputInvariant, PTL DEF InputSpec, KeysDoWhatTheySay

(* The part of the line that display_input_text shows has the cursor in    *)
(* it, in a panel of any width; it is wider than the panel only for a      *)
(* cursor in the middle of a long line.                                    *)
THEOREM CursorIsInPanel == InputSpec => []CursorInPanel
<1>1. ASSUME LineOK PROVE CursorInPanel
  <2> SUFFICES ASSUME NEW ctx \in Widths
               PROVE  LET w == Window(ctx) IN
                      /\ w.start <= cursor /\ cursor <= w.end /\ cursor - w.start <= ctx
                      /\ \/ w.end - w.start <= ctx
                         \/ cursor > ctx \div 2 /\ cursor < Len(input) - ctx \div 2
    BY DEF CursorInPanel
  <2> DEFINE n == Len(input)
             half == ctx \div 2
  <2>1. ctx \in Nat /\ ctx > 0 /\ n \in Nat /\ cursor \in Nat /\ cursor <= n
    BY <1>1, LenProperties, InputAssumption DEF LineOK
  <2>2. half \in Nat /\ 2 * half <= ctx /\ ctx <= 2 * half + 1
    BY <2>1
  <2>3. Window(ctx) =
          CASE n <= ctx -> [start |-> 0, end |-> n]
            [] n > ctx /\ cursor <= half -> [start |-> 0, end |-> ctx]
            [] n > ctx /\ cursor > half /\ cursor >= n - half -> [start |-> n - ctx, end |-> n]
            [] OTHER -> [start |-> cursor - half, end |-> n + half]
    BY DEF Window
  <2> DEFINE w == Window(ctx)
  <2> HIDE DEF n, half, w
  <2>4. CASE n <= ctx
    <3>1. w.start = 0 /\ w.end = n
      BY <2>1, <2>2, <2>3, <2>4 DEF w
    <3> QED
      BY <2>1, <2>2, <2>4, <3>1 DEF w
  <2>5. CASE n > ctx /\ cursor <= half
    <3>1. w.start = 0 /\ w.end = ctx
      BY <2>1, <2>2, <2>3, <2>5 DEF w
    <3> QED
      BY <2>1, <2>2, <2>5, <3>1 DEF w
  <2>6. CASE n > ctx /\ cursor > half /\ cursor >= n - half
    <3>1. w.start = n - ctx /\ w.end = n
      BY <2>1, <2>2, <2>3, <2>6 DEF w
    <3> QED
      BY <2>1, <2>2, <2>6, <3>1 DEF w
  <2>7. CASE n > ctx /\ cursor > half /\ cursor < n - half
    <3>1. w.start = cursor - half /\ w.end = n + half
      BY <2>1, <2>2, <2>3, <2>7 DEF w
    <3> QED
      BY <2>1, <2>2, <2>7, <3>1 DEF w, n, half
  <2> QED
    BY <2>1, <2>2, <2>4, <2>5, <2>6, <2>7
<1> QED
  BY <1>1, InputInvariant, PTL DEF InputOK
-----------------------------------------------------------------------------
(* Numbers                                                                 *)

LEMMA ModAdd ==
  ASSUME NEW n \in Nat \ {0}, NEW q \in Nat, NEW r \in 0 .. n - 1
  PROVE  (n * q + r) % n = r
<1> DEFINE a == n * q + r
           d == a \div n
           s == a % n
<1>1. a \in Nat
  OBVIOUS
<1>2. d \in Nat /\ s \in 0 .. n - 1 /\ a = n * d + s
  BY <1>1
<1>3. a = n * q + r
  OBVIOUS
<1> HIDE DEF a, d, s
<1>4. ASSUME d < q PROVE FALSE
  <2>1. PICK e \in Nat : q = d + 1 + e
    <3>1. q - d - 1 \in Nat /\ q = d + 1 + (q - d - 1)
      BY <1>2, <1>4
    <3> QED
      BY <3>1
  <2>2. n * q = n * d + n + n * e
    BY <1>2, <2>1
  <2>3. n * e \in Nat /\ n * d \in Nat
    BY <1>2, <2>1
  <2> QED
    BY <1>2, <1>3, <2>2, <2>3
<1>5. ASSUME q < d PROVE FALSE
  <2>1. PICK e \in Nat : d = q + 1 + e
    <3>1. d - q - 1 \in Nat /\ d = q + 1 + (d - q - 1)
      BY <1>2, <1>5
    <3> QED
      BY <3>1
  <2>2. n * d = n * q + n + n * e
    BY <1>2, <2>1
  <2>3. n * e \in Nat /\ n * q \in Nat
    BY <1>2, <2>1
  <2> QED
    BY <1>2, <1>3, <2>2, <2>3
<1>6. d = q
  BY <1>2, <1>4, <1>5
<1>7. s = r
  BY <1>2, <1>3, <1>6
<1> QED
  BY <1>7 DEF s, a

(* Steps by multiples of the size lead to the same case.                   *)
LEMMA ModSame ==
  ASSUME NEW n \in Nat \ {0}, NEW a \in Nat, NEW q \in Nat
  PROVE  (a + n * q) % n = a % n
<1> DEFINE d == a \div n
           r == a % n
<1>1. d \in Nat /\ r \in 0 .. n - 1 /\ a = n * d + r
  OBVIOUS
<1> HIDE DEF d, r
<1>2. a + n * q = n * (d + q) + r
  BY <1>1
<1>3. d + q \in Nat
  BY <1>1
<1>4. (n * (d + q) + r) % n = r
  BY <1>1, <1>3, ModAdd
<1> QED
  BY <1>2, <1>4 DEF r

LEMMA ModDiffers ==
  ASSUME NEW n \in Nat \ {0}, NEW a \in Nat, NEW b \in Nat, a <= b, a % n = b % n
  PROVE  \E q \in Nat : b = a + n * q
<1> DEFINE d == a \div n
           e == b \div n
           r == a % n
<1>1. d \in Nat /\ r \in 0 .. n - 1 /\ a = n * d + r
  OBVIOUS
<1>2. e \in Nat /\ b = n * e + r
  OBVIOUS
<1> HIDE DEF d, e, r
<1>3. ASSUME e < d PROVE FALSE
  <2>1. PICK f \in Nat : d = e + 1 + f
    <3>1. d - e - 1 \in Nat /\ d = e + 1 + (d - e - 1)
      BY <1>1, <1>2, <1>3
    <3> QED
      BY <3>1
  <2>2. n * d = n * e + n + n * f /\ n * f \in Nat /\ n * e \in Nat
    BY <1>2, <2>1
  <2> QED
    BY <1>1, <1>2, <2>2
<1>4. e - d \in Nat /\ e = d + (e - d)
  BY <1>1, <1>2, <1>3
<1>5. n * e = n * d + n * (e - d)
  BY <1>1, <1>2, <1>4
<1>6. b = a + n * (e - d)
  BY <1>1, <1>2, <1>5
<1> QED
  BY <1>4, <1>6

LEMMA Parity ==
  ASSUME NEW a \in Nat
  PROVE  \E k \in Nat : a = 2 * k \/ a = 2 * k + 1
<1>1. a \div 2 \in Nat /\ (a = 2 * (a \div 2) \/ a = 2 * (a \div 2) + 1)
  OBVIOUS
<1> QED
  BY <1>1

LEMMA Jump ==
  ASSUME NEW i \in Nat
  PROVE  jump(i) \in Nat /\ 2 * jump(i) = i * (i + 1)
<1>1. PICK k \in Nat : i = 2 * k \/ i = 2 * k + 1
  BY Parity
<1>2. CASE i = 2 * k
  <2>1. i * (i + 1) = 2 * (k * (i + 1)) /\ k * (i + 1) \in Nat
    BY <1>2
  <2> QED
    BY <2>1 DEF jump
<1>3. CASE i = 2 * k + 1
  <2> DEFINE m == i * (k + 1)
             p == i * (i + 1)
  <2>1. p = 2 * m /\ m \in Nat
    BY <1>3
  <2>2. jump(i) = p \div 2
    BY DEF jump
  <2> HIDE DEF m, p
  <2>3. jump(i) = m
    BY <2>1, <2>2
  <2> QED
    BY <2>1, <2>3 DEF p
<1> QED
  BY <1>1, <1>2, <1>3

(* The probes run back after as many steps as there are cases.             *)
LEMMA Mirror ==
  ASSUME NEW n \in Nat \ {0}, NEW x \in Nat, NEW i \in 0 .. n - 1
  PROVE  /\ 2 * n - 1 - i \in n .. 2 * n
         /\ (x + jump(2 * n - 1 - i)) % n = (x + jump(i)) % n
<1> DEFINE j == 2 * n - 1 - i
           q == 2 * (n - i) - 1
<1>1. i \in Nat /\ j \in n .. 2 * n /\ j \in Nat /\ q \in Nat
  OBVIOUS
<1>2. jump(i) \in Nat /\ jump(j) \in Nat /\ 2 * jump(i) = i * (i + 1) /\ 2 * jump(j) = j * (j + 1)
  BY <1>1, Jump
<1>3. j * (j + 1) = 2 * (n * q) + i * (i + 1)
  OBVIOUS
<1>4. n * q \in Nat
  BY <1>1
<1> HIDE DEF q, j
<1>5. jump(j) = jump(i) + n * q
  BY <1>2, <1>3, <1>4
<1>6. x + jump(j) = (x + jump(i)) + n * q /\ x + jump(i) \in Nat
  BY <1>2, <1>5, <1>4
<1>7. (x + jump(j)) % n = (x + jump(i)) % n
  BY <1>1, <1>6, ModSame
<1> QED
  BY <1>1, <1>7 DEF j

LEMMA MirrorLast ==
  ASSUME NEW n \in Nat \ {0}, NEW x \in Nat
  PROVE  (x + jump(2 * n)) % n = (x + jump(0)) % n
<1>1. jump(2 * n) \in Nat /\ 2 * jump(2 * n) = (2 * n) * (2 * n + 1)
  BY Jump
<1>2. jump(0) \in Nat /\ 2 * jump(0) = 0
  BY Jump
<1>3. (2 * n) * (2 * n + 1) = 2 * (n * (2 * n + 1)) /\ n * (2 * n + 1) \in Nat
  OBVIOUS
<1>4. jump(2 * n) = n * (2 * n + 1) /\ jump(0) = 0
  BY <1>1, <1>2, <1>3
<1>5. 2 * n + 1 \in Nat /\ x + 0 = x
  OBVIOUS
<1>6. (x + n * (2 * n + 1)) % n = x % n
  BY <1>5, ModSame
<1> QED
  BY <1>4, <1>5, <1>6
-----------------------------------------------------------------------------
(* Powers of two                                                           *)

(* n is what doubling leads to from 1.                                     *)
PowerOfTwo(n) ==
    \A S \in SUBSET Nat : 1 \in S /\ (\A m \in S : 2 * m \in S) => n \in S

LEMMA PowerOne == PowerOfTwo(1)
  BY DEF PowerOfTwo

LEMMA PowerDoubles ==
  ASSUME NEW n, PowerOfTwo(n)
  PROVE  PowerOfTwo(2 * n) /\ n \in Nat \ {0}
<1>1. PowerOfTwo(2 * n)
  BY DEF PowerOfTwo
<1>2. Nat \ {0} \in SUBSET Nat /\ 1 \in Nat \ {0} /\ \A m \in Nat \ {0} : 2 * m \in Nat \ {0}
  OBVIOUS
<1> QED
  BY <1>1, <1>2 DEF PowerOfTwo

LEMMA PowerHalves ==
  ASSUME NEW n, PowerOfTwo(n), n # 1
  PROVE  n \div 2 \in Nat /\ n = 2 * (n \div 2) /\ PowerOfTwo(n \div 2)
<1> DEFINE S == {m \in Nat : m = 1 \/ \E k \in Nat : m = 2 * k /\ PowerOfTwo(k)}
<1>1. 1 \in S
  OBVIOUS
<1>2. ASSUME NEW m \in S PROVE 2 * m \in S
  <2>1. m \in Nat /\ 2 * m \in Nat
    OBVIOUS
  <2>2. PowerOfTwo(m)
    <3>1. CASE m = 1
      BY <3>1, PowerOne
    <3>2. CASE m # 1
      BY <3>2, PowerDoubles
    <3> QED
      BY <3>1, <3>2
  <2> QED
    BY <2>1, <2>2
<1>3. n \in S
  <2> HIDE DEF S
  <2>1. S \in SUBSET Nat
    BY DEF S
  <2> QED
    BY <1>1, <1>2, <2>1 DEF PowerOfTwo
<1>4. PICK k \in Nat : n = 2 * k /\ PowerOfTwo(k)
  BY <1>3
<1>5. n \div 2 = k
  BY <1>4
<1> QED
  BY <1>4, <1>5

(* An odd factor does not help a product to be a multiple.                 *)
OddDoesNotHelp(m) ==
    \A a, b, q \in Nat : (2 * a + 1) * b = m * q => \E c \in Nat : b = m * c

LEMMA OddStep ==
  ASSUME NEW m \in Nat, OddDoesNotHelp(m)
  PROVE  OddDoesNotHelp(2 * m)
<1> SUFFICES ASSUME NEW a \in Nat, NEW b \in Nat, NEW q \in Nat,
                    (2 * a + 1) * b = (2 * m) * q
             PROVE  \E c \in Nat : b = (2 * m) * c
  BY DEF OddDoesNotHelp
<1>1. PICK k \in Nat : b = 2 * k \/ b = 2 * k + 1
  BY Parity
<1>2. m * q \in Nat /\ a * k \in Nat /\ (2 * m) * q = 2 * (m * q)
  OBVIOUS
<1>3. b # 2 * k + 1
  <2>1. SUFFICES ASSUME b = 2 * k + 1 PROVE FALSE
    OBVIOUS
  <2>2. (2 * a + 1) * b = 2 * (2 * (a * k) + a + k) + 1
    BY <2>1
  <2> QED
    BY <1>2, <2>2
<1>4. b = 2 * k
  BY <1>1, <1>3
<1>5. (2 * a + 1) * b = 2 * ((2 * a + 1) * k) /\ (2 * a + 1) * k \in Nat
  BY <1>4
<1>6. (2 * a + 1) * k = m * q
  BY <1>2, <1>5
<1>7. PICK c \in Nat : k = m * c
  BY <1>6, Zenon DEF OddDoesNotHelp
<1>8. b = (2 * m) * c
  BY <1>4, <1>7
<1> QED
  BY <1>8

LEMMA OddFactor ==
  ASSUME NEW n, PowerOfTwo(n), NEW a \in Nat, NEW b \in Nat, NEW q \in Nat,
         (2 * a + 1) * b = n * q
  PROVE  \E c \in Nat : b = n * c
<1> DEFINE S == {m \in Nat : OddDoesNotHelp(m)}
<1>1. 1 \in S
  <2>1. OddDoesNotHelp(1)
    BY DEF OddDoesNotHelp
  <2> QED
    BY <2>1
<1>2. ASSUME NEW m \in S PROVE 2 * m \in S
  BY OddStep
<1>3. n \in S
  <2> HIDE DEF S
  <2>1. S \in SUBSET Nat
    BY DEF S
  <2> QED
    BY <1>1, <1>2, <2>1 DEF PowerOfTwo
<1>4. OddDoesNotHelp(n)
  BY <1>3
<1> QED
  BY <1>4, Zenon DEF OddDoesNotHelp

(* In a table with a power of two of cases, the first probes, as many as   *)
(* there are cases, are all different.                                     *)
LEMMA ProbesDiffer ==
  ASSUME NEW n, PowerOfTwo(n), NEW x \in Nat, NEW i \in 0 .. n - 1, NEW j \in 0 .. n - 1,
         (x + jump(i)) % n = (x + jump(j)) % n
  PROVE  i = j
<1>1. n \in Nat \ {0} /\ PowerOfTwo(2 * n)
  BY PowerDoubles
<1>2. ASSUME NEW u \in 0 .. n - 1, NEW v \in 0 .. n - 1, u < v,
             (x + jump(u)) % n = (x + jump(v)) % n
      PROVE  FALSE
  <2>1. /\ u \in Nat /\ v \in Nat
        /\ jump(u) \in Nat /\ jump(v) \in Nat
        /\ 2 * jump(u) = u * (u + 1) /\ 2 * jump(v) = v * (v + 1)
    BY <1>1, Jump
  <2> DEFINE d == v - u
             e == v + u + 1
  <2>2. /\ d \in Nat /\ 0 < d /\ d < n /\ e \in Nat /\ 0 < e /\ e < 2 * n
        /\ v = u + d /\ e = 2 * u + d + 1
    BY <1>1, <1>2, <2>1
  <2>3. v * (v + 1) = u * (u + 1) + d * e /\ d * e \in Nat
    <3>1. u * (u + 1) + d * e = v * (v + 1)
      BY <2>1
    <3> HIDE DEF d, e
    <3>2. d * e \in Nat
      BY <2>2
    <3> QED
      BY <3>1, <3>2
  <2>4. jump(u) <= jump(v)
    <3> HIDE DEF d, e
    <3> QED
      BY <2>1, <2>3
  <2>5. PICK q \in Nat : x + jump(v) = (x + jump(u)) + n * q
    <3>1. x + jump(u) \in Nat /\ x + jump(v) \in Nat /\ x + jump(u) <= x + jump(v)
      BY <2>1, <2>4
    <3> QED
      BY <1>1, <1>2, <3>1, ModDiffers
  <2>6. n * q \in Nat /\ (2 * n) * q = 2 * (n * q)
    BY <1>1
  <2> HIDE DEF d, e
  <2>7. d * e = (2 * n) * q
    <3> DEFINE f == d * e
               g == n * q
               a == u * (u + 1)
               b == v * (v + 1)
               h2 == (2 * n) * q
    <3>1. b = a + f /\ x + jump(v) = (x + jump(u)) + g /\ 2 * jump(u) = a /\ 2 * jump(v) = b
      BY <2>1, <2>3, <2>5
    <3>2. f \in Nat /\ g \in Nat /\ h2 = 2 * g
      BY <2>3, <2>6
    <3> HIDE DEF f, g, a, b, h2
    <3>3. f = h2
      BY <2>1, <3>1, <3>2
    <3> QED
      BY <3>3 DEF f, h2
  <2>8. ASSUME NEW f \in Nat, NEW c \in Nat, 0 < f, f < 2 * n, f = (2 * n) * c PROVE FALSE
    <3>1. c # 0
      BY <1>1, <2>8
    <3>2. c - 1 \in Nat /\ (2 * n) * c = 2 * n + (2 * n) * (c - 1) /\ (2 * n) * (c - 1) \in Nat
      BY <1>1, <3>1
    <3> QED
      BY <1>1, <2>8, <3>2
  <2>9. PICK k \in Nat : d = 2 * k \/ d = 2 * k + 1
    BY <2>2, Parity
  <2>10. CASE d = 2 * k + 1
    <3>1. (2 * k + 1) * e = (2 * n) * q
      BY <2>7, <2>10
    <3>2. PICK c \in Nat : e = (2 * n) * c
      <4> DEFINE m == 2 * n
      <4>1. (2 * k + 1) * e = m * q /\ PowerOfTwo(m) /\ e \in Nat
        BY <1>1, <2>2, <3>1
      <4> HIDE DEF m
      <4>2. \E c \in Nat : e = m * c
        BY <4>1, OddFactor
      <4> QED
        BY <4>2 DEF m
    <3> QED
      BY <2>2, <2>8, <3>2
  <2>11. CASE d = 2 * k
    <3>1. e = 2 * (u + k) + 1 /\ u + k \in Nat
      BY <2>1, <2>2, <2>11
    <3>2. (2 * (u + k) + 1) * d = (2 * n) * q
      <4>1. e * d = d * e
        BY <2>2
      <4> QED
        BY <2>7, <3>1, <4>1
    <3>3. PICK c \in Nat : d = (2 * n) * c
      <4> DEFINE m == 2 * n
      <4>1. (2 * (u + k) + 1) * d = m * q /\ PowerOfTwo(m) /\ d \in Nat
        BY <1>1, <2>2, <3>2
      <4> HIDE DEF m
      <4>2. \E c \in Nat : d = m * c
        BY <3>1, <4>1, OddFactor
      <4> QED
        BY <4>2 DEF m
    <3>4. d < 2 * n
      BY <1>1, <2>2
    <3> QED
      BY <2>2, <2>8, <3>3, <3>4
  <2> QED
    BY <2>9, <2>10, <2>11
<1>3. i \in Nat /\ j \in Nat /\ ~(i < j) /\ ~(j < i)
  BY <1>1, <1>2
<1> QED
  BY <1>3
-----------------------------------------------------------------------------
(* Probes                                                                  *)

(* jump makes hashmap_find and hashmap_insert look at every case of a       *)
(* table of 2^n cases within 2^n steps, wherever they start.               *)
THEOREM ProbesReach ==
  ASSUME NEW n, PowerOfTwo(n), NEW x \in Nat, NEW p \in 0 .. n - 1
  PROVE  \E i \in 0 .. n - 1 : (x + jump(i)) % n = p
<1> DEFINE S == 0 .. n - 1
           T == (0 .. n - 1) \ {p}
           f == [i \in S |-> (x + jump(i)) % n]
<1>1. n \in Nat \ {0}
  BY PowerDoubles
<1>2. SUFFICES ASSUME \A i \in S : f[i] # p PROVE FALSE
  OBVIOUS
<1>3. IsFiniteSet(S) /\ Cardinality(S) = n
  BY <1>1, Segment
<1>4. IsFiniteSet(T) /\ Cardinality(T) = n - 1
  BY <1>3, FS_RemoveElement
<1>5. \A i \in S : f[i] \in S
  <2> SUFFICES ASSUME NEW i \in S PROVE (x + jump(i)) % n \in 0 .. n - 1
    OBVIOUS
  <2>1. i \in Nat /\ jump(i) \in Nat
    BY <1>1, Jump
  <2>2. x + jump(i) \in Nat
    BY <2>1
  <2> QED
    BY <1>1, <2>2
<1>6. \A i, j \in S : f[i] = f[j] => i = j
  BY ProbesDiffer
<1>7. f \in [S -> T]
  BY <1>2, <1>5
<1> HIDE DEF S, T, f
<1>8. Cardinality(T) < Cardinality(S)
  BY <1>1, <1>3, <1>4
<1>9. \E i, j \in S : i # j /\ f[i] = f[j]
  BY <1>3, <1>4, <1>7, <1>8, FS_PigeonHole
<1> QED
  BY <1>6, <1>9

Items     == [key : Keys \cup {NULL, TOMBSTONE}, value : Nat]
Tables(n) == [size : {n}, count : Nat, items : [0 .. n - 1 -> Items]]

(* The cases that hold a key, and the keys.                                *)
Occupied(t)  == {p \in 0 .. t.size - 1 : t.items[p].key \in Keys}
KeysIn(t) == {t.items[p].key : p \in Occupied(t)}

(* What the probe of step i from x sees.                                   *)
KeyAt(t, x, i) == t.items[(x + jump(i)) % t.size].key

LEMMA JumpZero == jump(0) = 0
<1>1. jump(0) \in Nat /\ 2 * jump(0) = 0
  BY Jump
<1> QED
  BY <1>1

LEMMA CaseType ==
  ASSUME NEW n \in Nat \ {0}, NEW x \in Nat, NEW i \in Nat
  PROVE  (x + jump(i)) % n \in 0 .. n - 1
<1>1. x + jump(i) \in Nat
  BY Jump
<1> QED
  BY <1>1

LEMMA MinIsLeast ==
  ASSUME NEW S, S \subseteq Nat, S # {}
  PROVE  Min(S) \in S /\ \A j \in S : Min(S) <= j
<1>1. \E m \in S : \A j \in S : m <= j
  BY Least
<1> QED
  BY <1>1 DEF Min

(* An empty case ends every insertion, whatever was read before.           *)
LEMMA EmptyCaseEnds ==
  ASSUME NEW n, PowerOfTwo(n), NEW t \in Tables(n), NEW p \in 0 .. n - 1,
         t.items[p].key = NULL, NEW x \in Nat, NEW k, NEW first
  PROVE  Ends(t, k, x, first) # {}
<1>1. n \in Nat \ {0} /\ t.size = n
  BY PowerDoubles DEF Tables
<1>2. PICK i \in 0 .. n - 1 : (x + jump(i)) % n = p
  BY ProbesReach
<1> DEFINE j == 2 * n - 1 - i
<1>3. j \in n .. 2 * n /\ (x + jump(j)) % n = p
  BY <1>1, <1>2, Mirror
<1>4. j \in 0 .. 2 * n /\ j # 0
  BY <1>1, <1>3
<1> HIDE DEF j
<1>5. Seen(t, x, first, j) = NULL
  BY <1>1, <1>3, <1>4 DEF Seen
<1> QED
  BY <1>1, <1>4, <1>5 DEF Ends

(* The loop of an insertion that did not resize ends within one round.     *)
LEMMA FirstEnd ==
  ASSUME NEW n \in Nat \ {0}, NEW t \in Tables(n), NEW x \in Nat, NEW k,
         Ends(t, k, x, KeyAt(t, x, 0)) # {}
  PROVE  LET e == Min(Ends(t, k, x, KeyAt(t, x, 0)))
         IN  /\ e \in 0 .. n - 1
             /\ KeyAt(t, x, e) \in {NULL, k}
             /\ \A j \in 0 .. e - 1 : KeyAt(t, x, j) \notin {NULL, k}
             /\ \A j \in 0 .. 2 * n : Seen(t, x, KeyAt(t, x, 0), j) = KeyAt(t, x, j)
<1> DEFINE E == Ends(t, k, x, KeyAt(t, x, 0))
           e == Min(E)
<1>1. t.size = n
  BY DEF Tables
<1>2. \A j \in 0 .. 2 * n : Seen(t, x, KeyAt(t, x, 0), j) = KeyAt(t, x, j)
  BY <1>1 DEF Seen, KeyAt
<1>3. E = {j \in 0 .. 2 * n : KeyAt(t, x, j) \in {NULL, k}}
  BY <1>1, <1>2 DEF Ends
<1> HIDE DEF E, e
<1>4. E # {} /\ E \subseteq Nat
  BY <1>3 DEF E
<1>5. e \in E /\ \A j \in E : e <= j
  BY <1>4, MinIsLeast DEF e
<1>6. e \in 0 .. 2 * n /\ KeyAt(t, x, e) \in {NULL, k}
  BY <1>3, <1>5
<1>7. ASSUME NEW j \in 0 .. e - 1 PROVE KeyAt(t, x, j) \notin {NULL, k}
  <2>1. j \in 0 .. 2 * n /\ ~(e <= j)
    BY <1>6
  <2> QED
    BY <1>3, <1>5, <2>1
<1>8. e < n
  <2>1. CASE e = 2 * n
    <3>1. KeyAt(t, x, 0) = KeyAt(t, x, e)
      BY <1>1, <2>1, MirrorLast DEF KeyAt
    <3>2. 0 \in E
      BY <1>3, <1>6, <3>1
    <3> QED
      BY <1>5, <2>1, <3>2
  <2>2. CASE e \in n .. 2 * n - 1
    <3>1. PICK i \in 0 .. n - 1 : e = 2 * n - 1 - i
      <4>1. 2 * n - 1 - e \in 0 .. n - 1 /\ e = 2 * n - 1 - (2 * n - 1 - e)
        BY <2>2
      <4> QED
        BY <4>1
    <3>2. KeyAt(t, x, e) = KeyAt(t, x, i)
      BY <1>1, <3>1, Mirror DEF KeyAt
    <3>3. i \in E /\ i < e
      BY <1>3, <1>6, <2>2, <3>2
    <3> QED
      BY <1>5, <2>2, <3>3
  <2> QED
    BY <1>6, <2>1, <2>2
<1>9. e \in 0 .. n - 1
  BY <1>6, <1>8
<1> QED
  BY <1>2, <1>6, <1>7, <1>9 DEF e, E
-----------------------------------------------------------------------------
(* hashmap_find                                                            *)

(* Step i is the first that meets the key or an empty case.                *)
HitAt(t, k, i) ==
    /\ i \in 0 .. t.size - 1 /\ KeyAt(t, hash[k], i) \in {NULL, k}
    /\ \A j \in 0 .. i - 1 : KeyAt(t, hash[k], j) \notin {NULL, k}

(* The index is reduced before and after the step.                         *)
LEMMA ProbeIsStep ==
  ASSUME NEW n \in Nat \ {0}, NEW x \in Nat, NEW i \in Nat
  PROVE  ((x % n) + jump(i)) % n = (x + jump(i)) % n
<1> DEFINE r == x % n
           d == x \div n
<1>1. r \in 0 .. n - 1 /\ d \in Nat /\ x = n * d + r
  OBVIOUS
<1>2. jump(i) \in Nat /\ n * d \in Nat
  BY <1>1, Jump
<1> HIDE DEF r, d
<1>3. r + jump(i) \in Nat /\ x + jump(i) = (r + jump(i)) + n * d
  BY <1>1, <1>2
<1>4. (x + jump(i)) % n = (r + jump(i)) % n
  <2> DEFINE a == r + jump(i)
  <2>1. a \in Nat /\ x + jump(i) = a + n * d
    BY <1>3
  <2> HIDE DEF a
  <2>2. (a + n * d) % n = a % n
    BY <1>1, <2>1, ModSame
  <2> QED
    BY <2>1, <2>2 DEF a
<1> QED
  BY <1>4 DEF r

LEMMA ProbeSees ==
  ASSUME hash \in [Keys -> Nat], NEW k \in Keys, NEW n \in Nat \ {0}, NEW t \in Tables(n),
         NEW i \in Nat
  PROVE  /\ Probe(k, i, n) = (hash[k] + jump(i)) % n /\ Probe(k, i, n) \in 0 .. n - 1
         /\ KeyAt(t, Index(k, n), i) = t.items[Probe(k, i, n)].key
         /\ KeyAt(t, hash[k], i) = t.items[Probe(k, i, n)].key
         /\ Index(k, n) \in 0 .. n - 1
<1>1. hash[k] \in Nat /\ t.size = n
  BY DEF Tables
<1>2. Index(k, n) \in 0 .. n - 1
  BY <1>1 DEF Index
<1>3. Probe(k, i, n) = (hash[k] + jump(i)) % n
  BY <1>1, ProbeIsStep DEF Probe, Index
<1>4. Probe(k, i, n) \in 0 .. n - 1
  BY <1>1, <1>3, CaseType
<1> QED
  BY <1>1, <1>2, <1>3, <1>4 DEF KeyAt, Probe

LEMMA FindHit ==
  ASSUME hash \in [Keys -> Nat], NEW k \in Keys, NEW n \in Nat \ {0}, NEW t \in Tables(n),
         NEW i, HitAt(t, k, i)
  PROVE  /\ i \in 0 .. n - 1
         /\ Find(t, k) = IF KeyAt(t, hash[k], i) = NULL THEN -1 ELSE Probe(k, i, n)
<1> DEFINE E == {j \in 0 .. t.size - 1 : t.items[Probe(k, j, t.size)].key \in {NULL, k}}
<1>1. t.size = n /\ i \in 0 .. n - 1
  BY DEF Tables, HitAt
<1>2. \A j \in 0 .. n - 1 : KeyAt(t, hash[k], j) = t.items[Probe(k, j, n)].key
  BY ProbeSees
<1>3. i \in E /\ E \subseteq Nat
  BY <1>1, <1>2 DEF HitAt
<1>4. \A j \in 0 .. i - 1 : j \notin E
  BY <1>1, <1>2 DEF HitAt
<1> HIDE DEF E
<1>5. Min(E) \in E /\ Min(E) <= i /\ Min(E) \in Nat
  BY <1>3, MinIsLeast
<1>6. Min(E) = i
  BY <1>1, <1>4, <1>5
<1>7. Find(t, k) = IF E = {} \/ t.items[Probe(k, Min(E), t.size)].key = NULL
                   THEN -1 ELSE Probe(k, Min(E), t.size)
  BY DEF Find, E
<1> QED
  BY <1>1, <1>2, <1>3, <1>6, <1>7

LEMMA FindFinds ==
  ASSUME hash \in [Keys -> Nat], NEW k \in Keys, NEW n \in Nat \ {0}, NEW t \in Tables(n),
         Find(t, k) # -1
  PROVE  \E i \in 0 .. n - 1 :
           /\ HitAt(t, k, i) /\ KeyAt(t, hash[k], i) = k /\ Find(t, k) = Probe(k, i, n)
           /\ Find(t, k) \in Occupied(t) /\ t.items[Find(t, k)].key = k
<1> DEFINE E == {j \in 0 .. t.size - 1 : t.items[Probe(k, j, t.size)].key \in {NULL, k}}
           i == Min(E)
<1>1. t.size = n
  BY DEF Tables
<1>2. \A j \in 0 .. n - 1 : KeyAt(t, hash[k], j) = t.items[Probe(k, j, n)].key
  BY ProbeSees
<1>3. /\ E \subseteq Nat
      /\ \A j \in 0 .. n - 1 : j \in E <=> KeyAt(t, hash[k], j) \in {NULL, k}
      /\ E \subseteq 0 .. n - 1
  BY <1>1, <1>2
<1>4. Find(t, k) = IF E = {} \/ t.items[Probe(k, i, t.size)].key = NULL
                   THEN -1 ELSE Probe(k, i, t.size)
  BY DEF Find
<1> HIDE DEF E, i
<1>5. i \in E /\ \A j \in E : i <= j
  BY <1>3, <1>4, MinIsLeast DEF i
<1>6. /\ i \in 0 .. n - 1 /\ KeyAt(t, hash[k], i) \in {NULL, k}
      /\ t.items[Probe(k, i, n)].key = KeyAt(t, hash[k], i)
  BY <1>2, <1>3, <1>5
<1>7. KeyAt(t, hash[k], i) = k /\ Find(t, k) = Probe(k, i, n)
  BY <1>1, <1>4, <1>5, <1>6
<1>8. \A j \in 0 .. i - 1 : KeyAt(t, hash[k], j) \notin {NULL, k}
  <2> SUFFICES ASSUME NEW j \in 0 .. i - 1 PROVE KeyAt(t, hash[k], j) \notin {NULL, k}
    OBVIOUS
  <2>1. j \in 0 .. n - 1 /\ ~(i <= j)
    BY <1>6
  <2> QED
    BY <1>3, <1>5, <2>1
<1>9. Probe(k, i, n) \in 0 .. n - 1
  BY <1>6, ProbeSees
<1> QED
  BY <1>1, <1>6, <1>7, <1>8, <1>9 DEF HitAt, Occupied

(* Every key stands where it is found.                                     *)
Placed(t) == \A p \in Occupied(t) : Find(t, t.items[p].key) = p

LEMMA PlacedFinds ==
  ASSUME hash \in [Keys -> Nat], NEW n \in Nat \ {0}, NEW t \in Tables(n), Placed(t),
         NEW k \in Keys
  PROVE  Find(t, k) # -1 <=> k \in KeysIn(t)
<1>1. ASSUME Find(t, k) # -1 PROVE k \in KeysIn(t)
  BY <1>1, FindFinds DEF KeysIn
<1>2. ASSUME k \in KeysIn(t) PROVE Find(t, k) # -1
  <2>1. PICK p \in Occupied(t) : t.items[p].key = k
    BY <1>2 DEF KeysIn
  <2>2. Find(t, k) = p /\ p \in 0 .. n - 1
    BY <2>1 DEF Placed, Occupied, Tables
  <2> QED
    BY <2>2
<1> QED
  BY <1>1, <1>2

(* A key stays found when no case becomes empty and its own stays.         *)
LEMMA StillFound ==
  ASSUME hash \in [Keys -> Nat], NEW n \in Nat \ {0}, NEW t \in Tables(n), NEW w \in Tables(n),
         NEW k \in Keys, Find(t, k) # -1, w.items[Find(t, k)].key = k,
         \A p \in 0 .. n - 1 : /\ t.items[p].key # NULL => w.items[p].key # NULL
                               /\ w.items[p].key = k => t.items[p].key = k
  PROVE  Find(w, k) = Find(t, k)
<1>1. PICK i \in 0 .. n - 1 : /\ HitAt(t, k, i) /\ KeyAt(t, hash[k], i) = k
                              /\ Find(t, k) = Probe(k, i, n)
  BY FindFinds
<1>2. t.size = n /\ w.size = n /\ i \in Nat /\ k # NULL
  BY HashmapAssumption DEF Tables
<1>3. ASSUME NEW j \in Nat
      PROVE  /\ Probe(k, j, n) \in 0 .. n - 1
             /\ KeyAt(t, hash[k], j) = t.items[Probe(k, j, n)].key
             /\ KeyAt(w, hash[k], j) = w.items[Probe(k, j, n)].key
  BY ProbeSees
<1>4. KeyAt(w, hash[k], i) = k
  BY <1>1, <1>2, <1>3
<1>5. ASSUME NEW j \in 0 .. i - 1 PROVE KeyAt(w, hash[k], j) \notin {NULL, k}
  <2>1. j \in Nat /\ KeyAt(t, hash[k], j) \notin {NULL, k}
    BY <1>1, <1>2 DEF HitAt
  <2> QED
    BY <1>3, <2>1
<1>6. HitAt(w, k, i)
  BY <1>2, <1>4, <1>5 DEF HitAt
<1>7. Find(w, k) = Probe(k, i, n)
  BY <1>2, <1>4, <1>6, FindHit
<1> QED
  BY <1>1, <1>7

-----------------------------------------------------------------------------
(* The rest of hashmap_insert                                              *)

With(t, p, k, v) == [t EXCEPT !.items[p] = Item(k, v), !.count = @ + 1]

IsWith(w, t, n, p, k, v) ==
    /\ w \in Tables(n) /\ w.size = n /\ w.count = t.count + 1
    /\ \A q \in 0 .. n - 1 : w.items[q] = IF q = p THEN Item(k, v) ELSE t.items[q]
    /\ Occupied(w) = Occupied(t) \cup {p}

LEMMA WithTable ==
  ASSUME NEW n \in Nat \ {0}, NEW t \in Tables(n), NEW p \in 0 .. n - 1, NEW k \in Keys,
         NEW v \in Nat
  PROVE  IsWith(With(t, p, k, v), t, n, p, k, v)
<1> DEFINE w == With(t, p, k, v)
<1>1. w = [size |-> n, count |-> t.count + 1, items |-> [t.items EXCEPT ![p] = Item(k, v)]]
  <2> DEFINE f == [t.items EXCEPT ![p] = Item(k, v)]
  <2>1. w = [t EXCEPT !.items = f, !.count = t.count + 1]
    BY DEF With
  <2> HIDE DEF f, w
  <2>2. w = [size |-> n, count |-> t.count + 1, items |-> f]
    BY <2>1 DEF Tables
  <2> QED
    BY <2>2 DEF f
<1>2. Item(k, v) \in Items /\ Item(k, v).key = k
  BY DEF Items, Item
<1>3. t.count \in Nat /\ t.items \in [0 .. n - 1 -> Items] /\ t.size = n
  BY DEF Tables
<1>4. /\ w.size = n /\ w.count = t.count + 1
      /\ \A q \in 0 .. n - 1 : w.items[q] = IF q = p THEN Item(k, v) ELSE t.items[q]
  BY <1>1, <1>3
<1>5. w \in Tables(n)
  BY <1>1, <1>2, <1>3 DEF Tables
<1> HIDE DEF w
<1>6. Occupied(w) = Occupied(t) \cup {p}
  BY <1>2, <1>3, <1>4 DEF Occupied
<1>7. IsWith(w, t, n, p, k, v)
  BY <1>4, <1>5, <1>6 DEF IsWith
<1> QED
  BY <1>7 DEF w

LEMMA PutShape ==
  ASSUME NEW n \in Nat \ {0}, NEW t \in Tables(n), NEW k, NEW v, NEW x \in Nat, NEW first,
         Ends(t, k, x, first) # {}
  PROVE  LET e == Min(Ends(t, k, x, first))
         IN  /\ e \in 0 .. 2 * n /\ Seen(t, x, first, e) \in {NULL, k}
             /\ Seen(t, x, first, e) = k => Put(t, k, v, x, first) = t
             /\ Seen(t, x, first, e) # k =>
                  \E i \in 0 .. e :
                    /\ i = e \/ Seen(t, x, first, i) = TOMBSTONE
                    /\ \A j \in 0 .. i - 1 : Seen(t, x, first, j) # TOMBSTONE
                    /\ Put(t, k, v, x, first) = With(t, (x + jump(i)) % n, k, v)
<1> DEFINE E == Ends(t, k, x, first)
           e == Min(E)
           tombs == {i \in 0 .. e - 1 : Seen(t, x, first, i) = TOMBSTONE}
           b == IF tombs = {} THEN e ELSE Min(tombs)
<1>1. t.size = n
  BY DEF Tables
<1>2. E \subseteq 0 .. 2 * n /\ \A i \in E : Seen(t, x, first, i) \in {NULL, k}
  BY <1>1 DEF Ends
<1>3. Put(t, k, v, x, first) = IF Seen(t, x, first, e) = k THEN t
                               ELSE With(t, (x + jump(b)) % t.size, k, v)
  BY DEF Put, With
<1> HIDE DEF E, e
<1>4. e \in E
  <2>1. E # {} /\ E \subseteq Nat
    BY <1>2 DEF E
  <2> QED
    BY <2>1, MinIsLeast DEF e
<1>5. e \in 0 .. 2 * n /\ e \in Nat
  BY <1>2, <1>4
<1>6. /\ b \in 0 .. e /\ (b = e \/ Seen(t, x, first, b) = TOMBSTONE)
      /\ \A j \in 0 .. b - 1 : Seen(t, x, first, j) # TOMBSTONE
  <2>1. CASE tombs = {}
    <3>1. b = e /\ \A j \in 0 .. e - 1 : j \notin tombs
      BY <2>1
    <3> QED
      BY <1>5, <3>1
  <2>2. CASE tombs # {}
    <3>1. b = Min(tombs) /\ tombs \subseteq Nat
      BY <1>5, <2>2
    <3>2. b \in tombs /\ \A j \in tombs : b <= j
      <4> HIDE DEF tombs, b
      <4> QED
        BY <2>2, <3>1, MinIsLeast
    <3>3. b \in 0 .. e - 1 /\ Seen(t, x, first, b) = TOMBSTONE
      <4> HIDE DEF b
      <4> QED
        BY <3>2
    <3>4. ASSUME NEW j \in 0 .. b - 1 PROVE Seen(t, x, first, j) # TOMBSTONE
      <4> HIDE DEF b
      <4>1. j \in 0 .. e - 1 /\ ~(b <= j)
        BY <1>5, <3>3
      <4> QED
        BY <3>2, <4>1
    <3> QED
      BY <1>5, <3>3, <3>4
  <2> QED
    BY <2>1, <2>2
<1> HIDE DEF b, tombs
<1>7. Seen(t, x, first, e) # k =>
        \E i \in 0 .. e :
          /\ i = e \/ Seen(t, x, first, i) = TOMBSTONE
          /\ \A j \in 0 .. i - 1 : Seen(t, x, first, j) # TOMBSTONE
          /\ Put(t, k, v, x, first) = With(t, (x + jump(i)) % n, k, v)
  BY <1>1, <1>3, <1>6
<1> QED
  BY <1>2, <1>3, <1>4, <1>5, <1>7 DEF e, E

(* The index from which hashmap_insert and hashmap_resize start.           *)
LEMMA FirstSeen ==
  ASSUME hash \in [Keys -> Nat], NEW k \in Keys, NEW n \in Nat \ {0}, NEW t \in Tables(n)
  PROVE  /\ Index(k, n) \in Nat /\ KeyAt(t, Index(k, n), 0) = t.items[Index(k, n)].key
         /\ \A i \in Nat : KeyAt(t, Index(k, n), i) = KeyAt(t, hash[k], i)
<1>1. t.size = n /\ hash[k] \in Nat
  BY DEF Tables
<1>2. Index(k, n) \in 0 .. n - 1
  BY ProbeSees
<1>3. (Index(k, n) + 0) % n = Index(k, n)
  BY <1>2
<1>4. \A i \in Nat : KeyAt(t, Index(k, n), i) = KeyAt(t, hash[k], i)
  BY ProbeSees
<1> QED
  BY <1>1, <1>2, <1>3, <1>4, JumpZero DEF KeyAt

(* A key that is there is met before any empty case.                       *)
LEMMA PutOld ==
  ASSUME hash \in [Keys -> Nat], NEW n \in Nat \ {0}, NEW t \in Tables(n), Placed(t),
         NEW k \in KeysIn(t), k \in Keys, NEW v,
         Ends(t, k, Index(k, n), t.items[Index(k, n)].key) # {}
  PROVE  Put(t, k, v, Index(k, n), t.items[Index(k, n)].key) = t
<1> DEFINE x == Index(k, n)
           first == t.items[x].key
           e == Min(Ends(t, k, x, first))
<1>1. /\ x \in Nat /\ first = KeyAt(t, x, 0)
      /\ \A i \in Nat : KeyAt(t, x, i) = KeyAt(t, hash[k], i)
  BY FirstSeen
<1>2. Ends(t, k, x, KeyAt(t, x, 0)) # {}
  BY <1>1
<1>3. Find(t, k) # -1
  BY PlacedFinds
<1>4. PICK i \in 0 .. n - 1 : HitAt(t, k, i) /\ KeyAt(t, hash[k], i) = k
  BY <1>3, FindFinds
<1>5. \A j \in 0 .. i - 1 : KeyAt(t, hash[k], j) \notin {NULL, k}
  BY <1>4 DEF HitAt
<1> HIDE DEF x
<1>6. LET d == Min(Ends(t, k, x, KeyAt(t, x, 0)))
      IN  /\ d \in 0 .. n - 1
          /\ KeyAt(t, x, d) \in {NULL, k}
          /\ \A j \in 0 .. d - 1 : KeyAt(t, x, j) \notin {NULL, k}
          /\ \A j \in 0 .. 2 * n : Seen(t, x, KeyAt(t, x, 0), j) = KeyAt(t, x, j)
  BY <1>1, <1>2, FirstEnd
<1>7. /\ e \in 0 .. n - 1 /\ KeyAt(t, x, e) \in {NULL, k} /\ e \in 0 .. 2 * n
      /\ \A j \in 0 .. e - 1 : KeyAt(t, x, j) \notin {NULL, k}
      /\ \A j \in 0 .. 2 * n : Seen(t, x, first, j) = KeyAt(t, x, j)
  BY <1>1, <1>6
<1>10. Seen(t, x, first, e) = k => Put(t, k, v, x, first) = t
  BY DEF Put
<1> HIDE DEF e, first
<1>8. e = i
  <2>1. ~(e < i)
    <3>1. SUFFICES ASSUME e < i PROVE FALSE
      OBVIOUS
    <3>2. e \in 0 .. i - 1 /\ e \in Nat
      BY <1>4, <1>7, <3>1
    <3> QED
      BY <1>1, <1>5, <1>7, <3>2
  <2>2. ~(i < e)
    <3>1. SUFFICES ASSUME i < e PROVE FALSE
      OBVIOUS
    <3>2. i \in 0 .. e - 1 /\ i \in Nat
      BY <1>4, <1>7, <3>1
    <3> QED
      BY <1>1, <1>4, <1>7, <3>2
  <2> QED
    BY <1>4, <1>7, <2>1, <2>2
<1>9. Seen(t, x, first, e) = k
  BY <1>1, <1>4, <1>7, <1>8
<1> QED
  BY <1>9, <1>10 DEF x, first

(* A key that is not there goes where it will be found, and hides no other.*)
LEMMA PutNew ==
  ASSUME hash \in [Keys -> Nat], NEW n \in Nat \ {0}, NEW t \in Tables(n), Placed(t),
         NEW k \in Keys, k \notin KeysIn(t), NEW v \in Nat,
         Ends(t, k, Index(k, n), t.items[Index(k, n)].key) # {}
  PROVE  \E p \in (0 .. n - 1) \ Occupied(t) :
           /\ Put(t, k, v, Index(k, n), t.items[Index(k, n)].key) = With(t, p, k, v)
           /\ Placed(With(t, p, k, v))
<1> DEFINE x == Index(k, n)
           first == t.items[x].key
           e == Min(Ends(t, k, x, first))
<1>1. /\ x \in Nat /\ first = KeyAt(t, x, 0)
      /\ \A i \in Nat : KeyAt(t, x, i) = KeyAt(t, hash[k], i)
  BY FirstSeen
<1>2. Ends(t, k, x, KeyAt(t, x, 0)) # {}
  BY <1>1
<1>3. \A i \in Nat : /\ (x + jump(i)) % n \in 0 .. n - 1
                     /\ KeyAt(t, x, i) = t.items[(x + jump(i)) % n].key
  BY <1>1, CaseType DEF KeyAt, Tables
<1>4. t.size = n
  BY DEF Tables
<1> HIDE DEF x
<1>5. LET d == Min(Ends(t, k, x, KeyAt(t, x, 0)))
      IN  /\ d \in 0 .. n - 1
          /\ KeyAt(t, x, d) \in {NULL, k}
          /\ \A j \in 0 .. d - 1 : KeyAt(t, x, j) \notin {NULL, k}
          /\ \A j \in 0 .. 2 * n : Seen(t, x, KeyAt(t, x, 0), j) = KeyAt(t, x, j)
  BY <1>1, <1>2, FirstEnd
<1>6. /\ e \in 0 .. n - 1 /\ KeyAt(t, x, e) \in {NULL, k} /\ e \in 0 .. 2 * n /\ e \in Nat
      /\ \A j \in 0 .. e - 1 : KeyAt(t, x, j) \notin {NULL, k}
      /\ \A j \in 0 .. 2 * n : Seen(t, x, first, j) = KeyAt(t, x, j)
  BY <1>1, <1>5
<1>7. Seen(t, x, first, e) # k =>
        \E i \in 0 .. e :
          /\ i = e \/ Seen(t, x, first, i) = TOMBSTONE
          /\ \A j \in 0 .. i - 1 : Seen(t, x, first, j) # TOMBSTONE
          /\ Put(t, k, v, x, first) = With(t, (x + jump(i)) % n, k, v)
  BY <1>1, <1>2, PutShape
<1> HIDE DEF e, first
<1>8. KeyAt(t, x, e) = NULL /\ k # NULL /\ k # TOMBSTONE
  <2>1. KeyAt(t, x, e) # k
    BY <1>3, <1>4, <1>6 DEF KeysIn, Occupied
  <2> QED
    BY <1>6, <2>1, HashmapAssumption
<1>9. PICK i \in 0 .. e :
          /\ i = e \/ Seen(t, x, first, i) = TOMBSTONE
          /\ \A j \in 0 .. i - 1 : Seen(t, x, first, j) # TOMBSTONE
          /\ Put(t, k, v, x, first) = With(t, (x + jump(i)) % n, k, v)
  BY <1>6, <1>7, <1>8
<1> DEFINE p == (x + jump(i)) % n
           w == With(t, p, k, v)
<1>10. i \in 0 .. n - 1 /\ i \in Nat /\ i \in 0 .. 2 * n
  BY <1>6, <1>9
<1>11. /\ p \in 0 .. n - 1 /\ t.items[p].key \in {NULL, TOMBSTONE}
       /\ \A j \in 0 .. i - 1 : t.items[(x + jump(j)) % n].key \notin {NULL, TOMBSTONE, k}
  <2>1. p \in 0 .. n - 1 /\ t.items[p].key \in {NULL, TOMBSTONE}
    BY <1>3, <1>6, <1>8, <1>9, <1>10
  <2>2. ASSUME NEW j \in 0 .. i - 1
        PROVE  t.items[(x + jump(j)) % n].key \notin {NULL, TOMBSTONE, k}
    <3>1. j \in Nat /\ j \in 0 .. e - 1 /\ j \in 0 .. 2 * n
      BY <1>6, <1>10
    <3>2. KeyAt(t, x, j) \notin {NULL, k} /\ KeyAt(t, x, j) # TOMBSTONE
      BY <1>6, <1>9, <3>1
    <3> QED
      BY <1>3, <3>1, <3>2
  <2> QED
    BY <2>1, <2>2
<1>12. p \notin Occupied(t)
  BY <1>11, HashmapAssumption DEF Occupied
<1>13. /\ w \in Tables(n) /\ w.size = n
       /\ \A q \in 0 .. n - 1 : w.items[q] = IF q = p THEN Item(k, v) ELSE t.items[q]
       /\ Occupied(w) = Occupied(t) \cup {p}
  <2> HIDE DEF p
  <2>1. p \in 0 .. n - 1
    BY <1>11
  <2>2. IsWith(w, t, n, p, k, v)
    BY <2>1, WithTable
  <2> HIDE DEF w
  <2> QED
    BY <2>2 DEF IsWith
<1> HIDE DEF p, w
<1>14. Find(w, k) = p
  <2>1. \A j \in Nat : /\ KeyAt(w, hash[k], j) = w.items[(x + jump(j)) % n].key
                       /\ Probe(k, j, n) = (x + jump(j)) % n
    BY <1>13, ProbeSees DEF Probe, x
  <2>2. KeyAt(w, hash[k], i) = k
    BY <1>10, <1>11, <1>13, <2>1 DEF p, Item
  <2>3. ASSUME NEW j \in 0 .. i - 1 PROVE KeyAt(w, hash[k], j) \notin {NULL, k}
    <3>1. j \in Nat
      BY <1>10
    <3>2. (x + jump(j)) % n # p
      BY <1>11
    <3> QED
      BY <1>3, <1>11, <1>13, <2>1, <3>1, <3>2
  <2>4. HitAt(w, k, i)
    BY <1>10, <1>13, <2>2, <2>3 DEF HitAt
  <2> QED
    BY <1>8, <1>10, <1>13, <2>1, <2>2, <2>4, FindHit DEF p
<1>15. Placed(w)
  <2> SUFFICES ASSUME NEW q \in Occupied(w) PROVE Find(w, w.items[q].key) = q
    BY DEF Placed
  <2>1. CASE q = p
    BY <1>11, <1>13, <1>14, <2>1 DEF Item
  <2>2. CASE q # p
    <3> DEFINE y == t.items[q].key
    <3>1. q \in Occupied(t) /\ q \in 0 .. n - 1 /\ y \in Keys /\ w.items[q] = t.items[q]
      BY <1>4, <1>13, <2>2 DEF Occupied
    <3>2. Find(t, y) = q /\ y # k
      BY <3>1 DEF Placed, KeysIn
    <3>3. \A r \in 0 .. n - 1 : /\ t.items[r].key # NULL => w.items[r].key # NULL
                                /\ w.items[r].key = y => t.items[r].key = y
      BY <1>8, <1>13, <3>2 DEF Item
    <3> HIDE DEF y
    <3>4. Find(t, y) # -1 /\ w.items[Find(t, y)].key = y
      BY <3>1, <3>2 DEF y
    <3>5. Find(w, y) = q
      BY <1>13, <3>1, <3>2, <3>3, <3>4, StillFound
    <3> QED
      BY <3>1, <3>5 DEF y
  <2> QED
    BY <2>1, <2>2
<1> QED
  BY <1>9, <1>11, <1>12, <1>15 DEF p, w, x, first
-----------------------------------------------------------------------------
(* hashmap_resize                                                          *)

LEMMA OccupiedFinite ==
  ASSUME NEW n \in Nat, NEW t \in Tables(n)
  PROVE  /\ IsFiniteSet(Occupied(t)) /\ Cardinality(Occupied(t)) \in Nat
         /\ Occupied(t) \subseteq 0 .. n - 1
<1>1. Occupied(t) \subseteq 0 .. n - 1
  BY DEF Occupied, Tables
<1>2. IsFiniteSet(0 .. n - 1)
  BY Segment
<1> QED
  BY <1>1, <1>2, FS_Subset, FS_CardinalityType

LEMMA FreeCase ==
  ASSUME NEW n \in Nat, NEW t \in Tables(n), Cardinality(Occupied(t)) < n
  PROVE  \E p \in 0 .. n - 1 : t.items[p].key \in {NULL, TOMBSTONE}
<1>1. SUFFICES ASSUME \A p \in 0 .. n - 1 : t.items[p].key \notin {NULL, TOMBSTONE}
               PROVE  FALSE
  OBVIOUS
<1>2. t.size = n /\ \A p \in 0 .. n - 1 : t.items[p].key \in Keys
  BY <1>1 DEF Tables, Items
<1>3. Occupied(t) = 0 .. n - 1
  BY <1>2 DEF Occupied
<1> QED
  BY <1>3, Segment

PairsIn(t) == {<<t.items[p].key, t.items[p].value>> : p \in Occupied(t)}

(* A table without removals.                                               *)
Sound(t, n) ==
    /\ t \in Tables(n) /\ Placed(t) /\ t.count = Cardinality(Occupied(t))
    /\ \A p \in 0 .. n - 1 : t.items[p].key # TOMBSTONE

LEMMA EmptySound ==
  ASSUME NEW n \in Nat
  PROVE  /\ Sound(EmptyTable(n), n) /\ Occupied(EmptyTable(n)) = {}
         /\ \A p \in 0 .. n - 1 : EmptyTable(n).items[p].key = NULL
<1> DEFINE t == EmptyTable(n)
<1>1. /\ t.size = n /\ t.count = 0 /\ t.items = [p \in 0 .. n - 1 |-> NoItem]
      /\ t = [size |-> n, count |-> 0, items |-> t.items]
  BY DEF EmptyTable
<1>2. NoItem \in Items /\ NoItem.key = NULL
  BY DEF NoItem, Item, Items
<1> HIDE DEF t
<1>3. t \in Tables(n)
  BY <1>1, <1>2 DEF Tables
<1>4. Occupied(t) = {}
  BY <1>1, <1>2, HashmapAssumption DEF Occupied
<1>5. \A p \in 0 .. n - 1 : t.items[p].key = NULL
  BY <1>1, <1>2
<1>6. Sound(t, n)
  BY <1>1, <1>3, <1>4, <1>5, FS_EmptySet, HashmapAssumption DEF Sound, Placed
<1> QED
  BY <1>4, <1>5, <1>6 DEF t

LEMMA PairsWith ==
  ASSUME NEW n \in Nat \ {0}, NEW t \in Tables(n), NEW p \in (0 .. n - 1) \ Occupied(t),
         NEW k \in Keys, NEW v \in Nat
  PROVE  PairsIn(With(t, p, k, v)) = PairsIn(t) \cup {<<k, v>>}
<1> DEFINE w == With(t, p, k, v)
<1>1. /\ \A q \in 0 .. n - 1 : w.items[q] = IF q = p THEN Item(k, v) ELSE t.items[q]
      /\ Occupied(w) = Occupied(t) \cup {p} /\ Occupied(t) \subseteq 0 .. n - 1
  <2>1. Occupied(t) \subseteq 0 .. n - 1
    BY OccupiedFinite
  <2>2. IsWith(w, t, n, p, k, v)
    BY WithTable
  <2> HIDE DEF w
  <2> QED
    BY <2>1, <2>2 DEF IsWith
<1>2. Item(k, v).key = k /\ Item(k, v).value = v
  BY DEF Item
<1> HIDE DEF w
<1>3. /\ \A q \in Occupied(t) : w.items[q] = t.items[q]
      /\ w.items[p].key = k /\ w.items[p].value = v
  BY <1>1, <1>2
<1>4. ASSUME NEW y \in PairsIn(w) PROVE y \in PairsIn(t) \cup {<<k, v>>}
  <2>1. PICK q \in Occupied(w) : y = <<w.items[q].key, w.items[q].value>>
    BY DEF PairsIn
  <2> QED
    BY <1>1, <1>3, <2>1 DEF PairsIn
<1>5. ASSUME NEW y \in PairsIn(t) PROVE y \in PairsIn(w)
  <2>1. PICK q \in Occupied(t) : y = <<t.items[q].key, t.items[q].value>>
    BY DEF PairsIn
  <2> QED
    BY <1>1, <1>3, <2>1 DEF PairsIn
<1>6. <<k, v>> \in PairsIn(w)
  BY <1>1, <1>3 DEF PairsIn
<1> QED
  BY <1>4, <1>5, <1>6 DEF w

LEMMA PutSound ==
  ASSUME hash \in [Keys -> Nat], NEW n, PowerOfTwo(n), NEW t, Sound(t, n),
         Cardinality(Occupied(t)) < n, NEW k \in Keys, NEW v \in Nat
  PROVE  LET w == Put(t, k, v, Index(k, n), t.items[Index(k, n)].key)
         IN  /\ Sound(w, n) /\ KeysIn(w) = KeysIn(t) \cup {k}
             /\ Cardinality(Occupied(w)) <= Cardinality(Occupied(t)) + 1
             /\ k \notin KeysIn(t) => PairsIn(w) = PairsIn(t) \cup {<<k, v>>}
<1> DEFINE x == Index(k, n)
           first == t.items[x].key
           w == Put(t, k, v, x, first)
<1>1. n \in Nat \ {0}
  BY PowerDoubles
<1>2. /\ t \in Tables(n) /\ Placed(t) /\ t.count = Cardinality(Occupied(t))
      /\ \A p \in 0 .. n - 1 : t.items[p].key # TOMBSTONE
  BY DEF Sound
<1>3. Ends(t, k, x, first) # {}
  <2>1. PICK p \in 0 .. n - 1 : t.items[p].key = NULL
    BY <1>1, <1>2, FreeCase
  <2>2. x \in Nat
    BY <1>1, <1>2, FirstSeen
  <2> HIDE DEF x
  <2> QED
    BY <1>2, <2>1, <2>2, EmptyCaseEnds
<1>4. Cardinality(Occupied(t)) \in Nat /\ IsFiniteSet(Occupied(t))
  BY <1>1, <1>2, OccupiedFinite
<1>5. CASE k \in KeysIn(t)
  <2>1. w = t
    BY <1>1, <1>2, <1>3, <1>5, PutOld
  <2> QED
    BY <1>4, <1>5, <2>1
<1>6. CASE k \notin KeysIn(t)
  <2>1. PICK p \in (0 .. n - 1) \ Occupied(t) : w = With(t, p, k, v) /\ Placed(With(t, p, k, v))
    BY <1>1, <1>2, <1>3, <1>6, PutNew
  <2> HIDE DEF w
  <2>2. /\ w \in Tables(n) /\ w.size = n /\ w.count = t.count + 1
        /\ \A q \in 0 .. n - 1 : w.items[q] = IF q = p THEN Item(k, v) ELSE t.items[q]
        /\ Occupied(w) = Occupied(t) \cup {p}
    <3>1. p \in 0 .. n - 1
      BY <2>1
    <3>2. n \in Nat \ {0} /\ t \in Tables(n)
      BY <1>1, <1>2
    <3>3. IsWith(w, t, n, p, k, v)
      BY <2>1, <3>1, <3>2, WithTable
    <3> QED
      BY <3>3 DEF IsWith
  <2>3. Cardinality(Occupied(w)) = Cardinality(Occupied(t)) + 1
    BY <1>4, <2>1, <2>2, FS_AddElement
  <2>4. Item(k, v).key = k /\ Item(k, v).value = v /\ k # TOMBSTONE
    BY HashmapAssumption DEF Item
  <2>5. Sound(w, n)
    BY <1>2, <2>1, <2>2, <2>3, <2>4 DEF Sound
  <2>6. /\ Occupied(t) \subseteq 0 .. n - 1
        /\ \A q \in Occupied(t) : w.items[q] = t.items[q]
        /\ w.items[p].key = k /\ w.items[p].value = v
    BY <1>1, <1>2, <2>1, <2>2, <2>4, OccupiedFinite
  <2>7. KeysIn(w) = KeysIn(t) \cup {k}
    <3>1. ASSUME NEW y \in KeysIn(w) PROVE y \in KeysIn(t) \cup {k}
      <4>1. PICK q \in Occupied(w) : y = w.items[q].key
        BY DEF KeysIn
      <4> QED
        BY <2>2, <2>6, <4>1 DEF KeysIn
    <3>2. ASSUME NEW y \in KeysIn(t) PROVE y \in KeysIn(w)
      <4>1. PICK q \in Occupied(t) : y = t.items[q].key
        BY DEF KeysIn
      <4> QED
        BY <2>2, <2>6, <4>1 DEF KeysIn
    <3>3. k \in KeysIn(w)
      BY <2>2, <2>6 DEF KeysIn
    <3> QED
      BY <3>1, <3>2, <3>3
  <2>8. PairsIn(w) = PairsIn(t) \cup {<<k, v>>}
    BY <1>1, <1>2, <2>1, PairsWith
  <2> QED
    BY <1>4, <2>3, <2>5, <2>7, <2>8 DEF w
<1> QED
  BY <1>5, <1>6

(* What the loop of hashmap_resize does with case p.                       *)
Reinserted(t, n, p, u) ==
    LET i == t.items[p] IN
    IF i.key \in {NULL, TOMBSTONE} THEN u
    ELSE Put(u, i.key, i.value, Index(i.key, n), u.items[Index(i.key, n)].key)

LEMMA PutTable ==
  ASSUME NEW n, NEW t \in Tables(n), NEW k \in Keys, NEW v \in Nat, NEW x, NEW first
  PROVE  Put(t, k, v, x, first) \in Tables(n)
<1>1. ASSUME NEW p PROVE [t EXCEPT !.items[p] = Item(k, v), !.count = @ + 1] \in Tables(n)
  <2> DEFINE f == [t.items EXCEPT ![p] = Item(k, v)]
             w == [t EXCEPT !.items[p] = Item(k, v), !.count = @ + 1]
  <2>1. Item(k, v) \in Items
    BY DEF Item, Items
  <2>2. f \in [0 .. n - 1 -> Items] /\ t.count + 1 \in Nat
    <3>1. t.items \in [0 .. n - 1 -> Items] /\ t.count \in Nat
      BY DEF Tables
    <3>2. f = [q \in 0 .. n - 1 |-> IF q = p THEN Item(k, v) ELSE t.items[q]]
      BY <3>1
    <3>3. \A q \in 0 .. n - 1 : (IF q = p THEN Item(k, v) ELSE t.items[q]) \in Items
      BY <2>1, <3>1
    <3> HIDE DEF f
    <3> QED
      BY <3>1, <3>2, <3>3
  <2>3. w = [t EXCEPT !.items = f, !.count = t.count + 1]
    OBVIOUS
  <2> HIDE DEF f, w
  <2>4. w = [size |-> n, count |-> t.count + 1, items |-> f]
    BY <2>3 DEF Tables
  <2> QED
    BY <2>2, <2>4 DEF w, Tables
<1> QED
  BY <1>1 DEF Put

(* A loop of m turns has a result.                                         *)
Turns(V, a, s, m) ==
    {f \in [0 .. m -> V] : f[0] = a /\ \A p \in 1 .. m : f[p] = s[<<p - 1, f[p - 1]>>]}

LEMMA OneTurn ==
  ASSUME NEW V, NEW m \in Nat, NEW a \in V, NEW s \in [(0 .. m - 1) \X V -> V],
         NEW q \in 1 .. m, NEW g \in Turns(V, a, s, q - 1)
  PROVE  \E f : f \in Turns(V, a, s, q)
<1> DEFINE b == s[<<q - 1, g[q - 1]>>]
           f == [i \in 0 .. q |-> IF i = q THEN b ELSE g[i]]
<1>1. /\ g \in [0 .. q - 1 -> V] /\ g[0] = a
      /\ \A p \in 1 .. q - 1 : g[p] = s[<<p - 1, g[p - 1]>>]
  BY DEF Turns
<1>2. g[q - 1] \in V /\ <<q - 1, g[q - 1]>> \in (0 .. m - 1) \X V
  BY <1>1
<1>3. b \in V
  BY <1>2
<1>4. /\ \A i \in 0 .. q - 1 : f[i] = g[i]
      /\ f[q] = s[<<q - 1, g[q - 1]>>]
  OBVIOUS
<1> HIDE DEF b
<1>5. f \in [0 .. q -> V]
  BY <1>1, <1>3
<1> HIDE DEF f
<1>6. f[0] = a
  BY <1>1, <1>4
<1>7. ASSUME NEW p \in 1 .. q PROVE f[p] = s[<<p - 1, f[p - 1]>>]
  <2>1. f[p - 1] = g[p - 1]
    BY <1>4
  <2>2. CASE p = q
    BY <1>4, <2>1, <2>2
  <2>3. CASE p # q
    <3>1. p \in 1 .. q - 1 /\ p \in 0 .. q - 1
      BY <2>3
    <3> QED
      BY <1>1, <1>4, <2>1, <3>1
  <2> QED
    BY <2>2, <2>3
<1>8. f \in Turns(V, a, s, q)
  BY <1>5, <1>6, <1>7 DEF Turns
<1> QED
  BY <1>8

LEMMA AllTurns ==
  ASSUME NEW V, NEW m \in Nat, NEW a \in V, NEW s \in [(0 .. m - 1) \X V -> V]
  PROVE  \E f : f \in Turns(V, a, s, m)
<1> DEFINE T == {q \in 0 .. m : \A f : f \notin Turns(V, a, s, q)}
<1>1. SUFFICES ASSUME T # {} PROVE FALSE
  <2>1. m \in 0 .. m
    OBVIOUS
  <2> QED
    BY <2>1
<1>2. T \subseteq Nat
  OBVIOUS
<1>3. PICK q \in T : \A k \in T : q <= k
  <2> HIDE DEF T
  <2> QED
    BY <1>1, <1>2, Least
<1>4. q \in 0 .. m /\ \A f : f \notin Turns(V, a, s, q)
  BY <1>3
<1>5. q # 0
  <2> DEFINE f == [i \in 0 .. 0 |-> a]
  <2>1. f \in [0 .. 0 -> V] /\ f[0] = a /\ 1 .. 0 = {}
    OBVIOUS
  <2> HIDE DEF f
  <2>2. f \in Turns(V, a, s, 0)
    BY <2>1 DEF Turns
  <2> QED
    BY <1>4, <2>2
<1>6. q \in 1 .. m /\ q - 1 \in 0 .. m /\ ~(q <= q - 1)
  BY <1>4, <1>5
<1>7. q - 1 \notin T
  BY <1>3, <1>6
<1>8. PICK g : g \in Turns(V, a, s, q - 1)
  BY <1>6, <1>7
<1> HIDE DEF T
<1> QED
  BY <1>4, <1>6, <1>8, OneTurn

(* The loop of hashmap_resize is a loop.                                   *)
LEMMA ResizeTurns ==
  ASSUME NEW n \in Nat, NEW m \in Nat, NEW t \in Tables(m)
  PROVE  \E f \in [0 .. m -> Tables(n)] :
           /\ f[0] = EmptyTable(n) /\ Resize(t, n) = f[m]
           /\ \A p \in 1 .. m : f[p] = Reinserted(t, n, p - 1, f[p - 1])
<1> DEFINE V == Tables(n)
           D == (0 .. m - 1) \X V
           s == [d \in D |-> Reinserted(t, n, d[1], d[2])]
           upTo[p \in 0 .. t.size] ==
             IF p = 0 THEN EmptyTable(n) ELSE Reinserted(t, n, p - 1, upTo[p - 1])
<1>1. t.size = m
  BY DEF Tables
<1>2. EmptyTable(n) \in V
  BY EmptySound DEF Sound
<1>3. ASSUME NEW p \in 0 .. m - 1, NEW u \in V PROVE Reinserted(t, n, p, u) \in V
  <2>1. t.items[p] \in Items
    BY DEF Tables
  <2>2. CASE t.items[p].key \in {NULL, TOMBSTONE}
    BY <2>2 DEF Reinserted
  <2>3. CASE t.items[p].key \notin {NULL, TOMBSTONE}
    <3>1. t.items[p].key \in Keys /\ t.items[p].value \in Nat
      BY <2>1, <2>3 DEF Items
    <3> QED
      BY <2>3, <3>1, PutTable DEF Reinserted
  <2> QED
    BY <2>2, <2>3
<1> HIDE DEF V
<1>4. s \in [D -> V]
  BY <1>3
<1>5. PICK f : f \in Turns(V, EmptyTable(n), s, m)
  <2> HIDE DEF s
  <2> QED
    BY <1>2, <1>4, AllTurns
<1>6. /\ f \in [0 .. m -> V] /\ f[0] = EmptyTable(n)
      /\ \A p \in 1 .. m : f[p] = s[<<p - 1, f[p - 1]>>]
  <2> HIDE DEF s
  <2> QED
    BY <1>5 DEF Turns
<1>7. ASSUME NEW p \in 1 .. m PROVE f[p] = Reinserted(t, n, p - 1, f[p - 1])
  <2>1. <<p - 1, f[p - 1]>> \in D
    BY <1>6
  <2> QED
    BY <1>6, <2>1
<1> HIDE DEF s
<1>8. f = [p \in 0 .. t.size |-> IF p = 0 THEN EmptyTable(n)
                                 ELSE Reinserted(t, n, p - 1, f[p - 1])]
  <2>1. ASSUME NEW p \in 0 .. m
        PROVE  f[p] = IF p = 0 THEN EmptyTable(n) ELSE Reinserted(t, n, p - 1, f[p - 1])
    <3>1. p = 0 \/ p \in 1 .. m
      OBVIOUS
    <3> QED
      BY <1>6, <1>7, <3>1
  <2> QED
    BY <1>1, <1>6, <2>1
<1>9. upTo = [p \in 0 .. t.size |-> IF p = 0 THEN EmptyTable(n)
                                    ELSE Reinserted(t, n, p - 1, upTo[p - 1])]
  BY <1>8
<1>10. Resize(t, n) = upTo[m]
  BY <1>1 DEF Resize, Again, Reinserted
<1> HIDE DEF upTo
<1>11. ASSUME NEW p \in 0 .. m PROVE upTo[p] = f[p]
  <2> DEFINE T == {q \in 0 .. m : upTo[q] # f[q]}
  <2>1. SUFFICES ASSUME T # {} PROVE FALSE
    OBVIOUS
  <2>2. PICK q \in T : \A k \in T : q <= k
    <3>1. T \subseteq Nat
      OBVIOUS
    <3> HIDE DEF T
    <3> QED
      BY <2>1, <3>1, Least
  <2>3. q \in 0 .. m /\ upTo[q] # f[q]
    BY <2>2
  <2>4. q # 0
    BY <1>1, <1>6, <1>9, <2>3
  <2>5. q - 1 \in 0 .. m /\ ~(q <= q - 1) /\ q \in 1 .. m
    BY <2>3, <2>4
  <2>6. upTo[q - 1] = f[q - 1]
    BY <2>2, <2>5
  <2> QED
    BY <1>1, <1>7, <1>9, <2>3, <2>4, <2>5, <2>6
<1>12. upTo[m] = f[m] /\ m \in 0 .. m
  BY <1>11
<1> QED
  BY <1>6, <1>7, <1>10, <1>12 DEF V

(* The keys of the table that is left fit into the new one, where each of  *)
(* them is found; a key that stood in two cases stands in one.             *)
LEMMA ResizeKeeps ==
  ASSUME hash \in [Keys -> Nat], NEW n, PowerOfTwo(n), NEW m \in Nat, NEW t \in Tables(m),
         Cardinality(Occupied(t)) < n
  PROVE  /\ Sound(Resize(t, n), n) /\ KeysIn(Resize(t, n)) = KeysIn(t)
         /\ Cardinality(Occupied(Resize(t, n))) <= Cardinality(Occupied(t))
         /\ Placed(t) => PairsIn(Resize(t, n)) = PairsIn(t)
<1> DEFINE Upto(p) == {q \in Occupied(t) : q < p}
<1>1. n \in Nat \ {0}
  BY PowerDoubles
<1>2. PICK f \in [0 .. m -> Tables(n)] :
        /\ f[0] = EmptyTable(n) /\ Resize(t, n) = f[m]
        /\ \A p \in 1 .. m : f[p] = Reinserted(t, n, p - 1, f[p - 1])
  BY <1>1, ResizeTurns
<1>3. /\ Occupied(t) \subseteq 0 .. m - 1 /\ IsFiniteSet(Occupied(t))
      /\ t.size = m /\ t.items \in [0 .. m - 1 -> Items]
  BY OccupiedFinite DEF Tables
<1>4. ASSUME NEW p \in 0 .. m
      PROVE  /\ Cardinality(Upto(p)) \in Nat /\ Cardinality(Upto(p)) < n /\ IsFiniteSet(Upto(p))
             /\ Cardinality(Upto(p)) <= Cardinality(Occupied(t)) /\ Cardinality(Occupied(t)) \in Nat
  <2>1. Upto(p) \in SUBSET Occupied(t)
    OBVIOUS
  <2>2. IsFiniteSet(Upto(p)) /\ Cardinality(Upto(p)) <= Cardinality(Occupied(t))
    <3> HIDE DEF Upto
    <3> QED
      BY <1>3, <2>1, FS_Subset
  <2>3. Cardinality(Occupied(t)) \in Nat /\ Cardinality(Upto(p)) \in Nat
    BY <1>3, <2>2, FS_CardinalityType
  <2> QED
    BY <1>1, <2>2, <2>3
<1> DEFINE G(p) ==
             /\ Sound(f[p], n) /\ KeysIn(f[p]) = {t.items[q].key : q \in Upto(p)}
             /\ Cardinality(Occupied(f[p])) <= Cardinality(Upto(p))
             /\ Placed(t) => PairsIn(f[p])
                               = {<<t.items[q].key, t.items[q].value>> : q \in Upto(p)}
<1>5. G(0)
  <2>1. Upto(0) = {}
    BY <1>3
  <2>2. f[0] = EmptyTable(n) /\ Occupied(EmptyTable(n)) = {} /\ Sound(EmptyTable(n), n)
    BY <1>1, <1>2, EmptySound
  <2>3. KeysIn(f[0]) = {} /\ PairsIn(f[0]) = {}
    BY <2>2 DEF KeysIn, PairsIn
  <2>4. Cardinality(Occupied(f[0])) <= Cardinality(Upto(0))
    <3>1. Occupied(f[0]) = Upto(0) /\ Cardinality(Upto(0)) = 0
      BY <2>1, <2>2, FS_EmptySet
    <3> HIDE DEF Upto
    <3> QED
      BY <3>1
  <2> QED
    BY <2>1, <2>2, <2>3, <2>4
<1>6. ASSUME NEW p \in 1 .. m, G(p - 1) PROVE G(p)
  <2> DEFINE q == p - 1
             u == f[q]
             k == t.items[q].key
             v == t.items[q].value
  <2>1. q \in 0 .. m - 1 /\ q \in 0 .. m /\ f[p] = Reinserted(t, n, q, u) /\ t.items[q] \in Items
    BY <1>2, <1>3
  <2>2. k \in Keys \cup {NULL, TOMBSTONE} /\ v \in Nat
    BY <2>1 DEF Items
  <2>3. CASE k \in {NULL, TOMBSTONE}
    <3>1. q \notin Occupied(t)
      BY <2>3, HashmapAssumption DEF Occupied
    <3>2. Upto(p) = Upto(q)
      BY <1>3, <2>1, <3>1
    <3>3. f[p] = u
      BY <2>1, <2>3 DEF Reinserted
    <3> QED
      BY <1>6, <3>2, <3>3
  <2>4. CASE k \notin {NULL, TOMBSTONE}
    <3>1. k \in Keys /\ q \in Occupied(t)
      BY <1>3, <2>1, <2>2, <2>4 DEF Occupied
    <3>2. Upto(p) = Upto(q) \cup {q} /\ q \notin Upto(q)
      BY <1>3, <2>1, <3>1
    <3>3. Cardinality(Upto(p)) = Cardinality(Upto(q)) + 1
      <4> HIDE DEF Upto, q
      <4> QED
        BY <1>4, <2>1, <3>2, FS_AddElement
    <3>4. f[p] = Put(u, k, v, Index(k, n), u.items[Index(k, n)].key)
      BY <2>1, <2>4 DEF Reinserted
    <3>5. Sound(u, n) /\ Cardinality(Occupied(u)) <= Cardinality(Upto(q))
      BY <1>6
    <3>6. Cardinality(Occupied(u)) \in Nat
      BY <1>1, <3>5, OccupiedFinite DEF Sound
    <3>7. Cardinality(Occupied(u)) < n /\ Cardinality(Upto(q)) \in Nat
      <4>1. Cardinality(Upto(q)) \in Nat /\ Cardinality(Upto(q)) < n
        BY <1>4, <2>1
      <4> HIDE DEF Upto, u, q
      <4> QED
        BY <1>1, <3>5, <3>6, <4>1
    <3>8. /\ Sound(f[p], n) /\ KeysIn(f[p]) = KeysIn(u) \cup {k}
          /\ Cardinality(Occupied(f[p])) <= Cardinality(Occupied(u)) + 1
          /\ k \notin KeysIn(u) => PairsIn(f[p]) = PairsIn(u) \cup {<<k, v>>}
      <4> HIDE DEF u, k, v, q
      <4>1. LET w == Put(u, k, v, Index(k, n), u.items[Index(k, n)].key)
            IN  /\ Sound(w, n) /\ KeysIn(w) = KeysIn(u) \cup {k}
                /\ Cardinality(Occupied(w)) <= Cardinality(Occupied(u)) + 1
                /\ k \notin KeysIn(u) => PairsIn(w) = PairsIn(u) \cup {<<k, v>>}
        BY <2>2, <3>1, <3>5, <3>7, PutSound
      <4> QED
        BY <3>4, <4>1
    <3>9. Cardinality(Occupied(f[p])) <= Cardinality(Upto(p))
      <4>1. Cardinality(Occupied(f[p])) \in Nat
        BY <1>1, <3>8, OccupiedFinite DEF Sound
      <4> HIDE DEF Upto, u
      <4> QED
        BY <3>3, <3>5, <3>6, <3>7, <3>8, <4>1
    <3>10. KeysIn(u) = {t.items[r].key : r \in Upto(q)}
      BY <1>6
    <3>11. KeysIn(f[p]) = {t.items[r].key : r \in Upto(p)}
      <4> HIDE DEF Upto, u
      <4> QED
        BY <3>2, <3>8, <3>10
    <3>12. ASSUME Placed(t)
           PROVE  PairsIn(f[p]) = {<<t.items[r].key, t.items[r].value>> : r \in Upto(p)}
      <4>1. k \notin KeysIn(u)
        <5>1. SUFFICES ASSUME NEW r \in Upto(q), t.items[r].key = k PROVE FALSE
          BY <3>10
        <5>2. r \in Occupied(t) /\ r # q
          BY <1>3, <2>1
        <5> QED
          BY <3>1, <3>12, <5>1, <5>2 DEF Placed
      <4>2. PairsIn(u) = {<<t.items[r].key, t.items[r].value>> : r \in Upto(q)}
        BY <1>6, <3>12
      <4> HIDE DEF Upto, u
      <4> QED
        BY <3>2, <3>8, <4>1, <4>2
    <3> QED
      BY <3>8, <3>9, <3>11, <3>12
  <2> QED
    BY <2>3, <2>4
<1> HIDE DEF G
<1>7. G(m)
  <2> DEFINE T == {q \in 0 .. m : ~G(q)}
  <2>1. SUFFICES ASSUME T # {} PROVE FALSE
    <3>1. m \in 0 .. m
      OBVIOUS
    <3> QED
      BY <3>1
  <2>2. PICK q \in T : \A k \in T : q <= k
    <3>1. T \subseteq Nat
      OBVIOUS
    <3> HIDE DEF T
    <3> QED
      BY <2>1, <3>1, Least
  <2>3. q \in 0 .. m /\ ~G(q)
    BY <2>2
  <2>4. q # 0
    BY <1>5, <2>3
  <2>5. q - 1 \in 0 .. m /\ ~(q <= q - 1) /\ q \in 1 .. m
    BY <2>3, <2>4
  <2>6. G(q - 1)
    BY <2>2, <2>5
  <2> QED
    BY <1>6, <2>3, <2>5, <2>6
<1>8. Upto(m) = Occupied(t)
  BY <1>3
<1> HIDE DEF Upto
<1> QED
  BY <1>2, <1>7, <1>8 DEF G, KeysIn, PairsIn
-----------------------------------------------------------------------------
(* hashmap_create                                                          *)

LEMMA ShiftedPower ==
  /\ shifted[0] = 1 /\ \A i \in 1 .. 16 : shifted[i] = 2 * shifted[i - 1]
  /\ \A i \in 0 .. 16 : shifted[i] \in Nat /\ PowerOfTwo(shifted[i])
<1> DEFINE D == (0 .. 16 - 1) \X Nat
           s == [d \in D |-> 2 * d[2]]
<1>1. s \in [D -> Nat]
  OBVIOUS
<1>2. PICK f : f \in Turns(Nat, 1, s, 16)
  <2> HIDE DEF s
  <2> QED
    BY <1>1, AllTurns
<1>3. f \in [0 .. 16 -> Nat] /\ f[0] = 1 /\ \A p \in 1 .. 16 : f[p] = 2 * f[p - 1]
  <2>1. f \in [0 .. 16 -> Nat] /\ f[0] = 1 /\ \A p \in 1 .. 16 : f[p] = s[<<p - 1, f[p - 1]>>]
    <3> HIDE DEF s
    <3> QED
      BY <1>2 DEF Turns
  <2>2. ASSUME NEW p \in 1 .. 16 PROVE f[p] = 2 * f[p - 1]
    <3>1. <<p - 1, f[p - 1]>> \in D
      BY <2>1
    <3> QED
      BY <2>1, <3>1
  <2> QED
    BY <2>1, <2>2
<1> HIDE DEF s
<1>4. f = [n \in 0 .. 16 |-> IF n = 0 THEN 1 ELSE 2 * f[n - 1]]
  <2>1. ASSUME NEW n \in 0 .. 16 PROVE f[n] = IF n = 0 THEN 1 ELSE 2 * f[n - 1]
    <3>1. n = 0 \/ n \in 1 .. 16
      OBVIOUS
    <3> QED
      BY <1>3, <3>1
  <2> QED
    BY <1>3, <2>1
<1>5. shifted = [n \in 0 .. 16 |-> IF n = 0 THEN 1 ELSE 2 * shifted[n - 1]]
  BY <1>4 DEF shifted
<1>6. shifted[0] = 1 /\ \A i \in 1 .. 16 : shifted[i] = 2 * shifted[i - 1]
  BY <1>5
<1>7. ASSUME NEW i \in 0 .. 16 PROVE shifted[i] \in Nat /\ PowerOfTwo(shifted[i])
  <2> DEFINE T == {q \in 0 .. 16 : ~PowerOfTwo(shifted[q])}
  <2>1. T = {}
    <3>1. SUFFICES ASSUME T # {} PROVE FALSE
      OBVIOUS
    <3>2. PICK q \in T : \A k \in T : q <= k
      <4>1. T \subseteq Nat
        OBVIOUS
      <4> HIDE DEF T
      <4> QED
        BY <3>1, <4>1, Least
    <3>3. q \in 0 .. 16 /\ ~PowerOfTwo(shifted[q])
      BY <3>2
    <3>4. q # 0
      BY <1>6, <3>3, PowerOne
    <3>5. q - 1 \in 0 .. 16 /\ ~(q <= q - 1) /\ q \in 1 .. 16
      BY <3>3, <3>4
    <3>6. PowerOfTwo(shifted[q - 1])
      BY <3>2, <3>5
    <3> QED
      BY <1>6, <3>3, <3>5, <3>6, PowerDoubles
  <2> QED
    BY <2>1, PowerDoubles
<1> QED
  BY <1>6, <1>7

LEMMA Created ==
  \E n : PowerOfTwo(n) /\ Create(AskedSize) = EmptyTable(n)
<1> DEFINE S == {p \in Powers : p >= AskedSize}
<1>1. AskedSize <= shifted[16] /\ shifted[16] \in Powers
  <2>1. AskedSize \in 1 .. shifted[16] /\ shifted[16] \in Nat
    BY HashmapAssumption, ShiftedPower
  <2> QED
    BY <2>1 DEF Powers
<1>2. AskedSize \in Nat /\ shifted[16] \in Nat
  BY HashmapAssumption, ShiftedPower
<1>3. S # {}
  BY <1>1, <1>2
<1>4. ASSUME NEW p \in S PROVE p \in Nat /\ PowerOfTwo(p)
  BY ShiftedPower DEF Powers
<1>5. Create(AskedSize) = EmptyTable(Min(S))
  BY DEF Create
<1> HIDE DEF S
<1>6. Min(S) \in S
  BY <1>3, <1>4, MinIsLeast
<1> QED
  BY <1>4, <1>5, <1>6
-----------------------------------------------------------------------------
(* The invariant                                                           *)

(* There are no more keys than are counted.  They may be fewer: after the  *)
(* growth a key may be written over another one.                           *)
CountInv == Cardinality(Occupied(h)) <= h.count

TableInv ==
    /\ hash \in [Keys -> Nat] /\ grew \in BOOLEAN /\ stuck \in BOOLEAN
    /\ PowerOfTwo(h.size) /\ h \in Tables(h.size)

MapInv == ~grew => Placed(h) /\ map = PairsIn(h)

HashmapInv == TableInv /\ CountInv /\ MapInv /\ HangsOnTombstones

LEMMA InitHashmap == HashmapInit => HashmapInv
<1> SUFFICES ASSUME HashmapInit PROVE HashmapInv
  OBVIOUS
<1>1. PICK n : PowerOfTwo(n) /\ h = EmptyTable(n)
  BY Created DEF HashmapInit
<1>2. n \in Nat
  BY <1>1, PowerDoubles
<1>3. Sound(h, n) /\ Occupied(h) = {}
  BY <1>1, <1>2, EmptySound
<1>4. h.size = n /\ h \in Tables(n) /\ Placed(h)
  BY <1>3 DEF Sound, Tables
<1>5. TableInv
  BY <1>1, <1>4, HashmapAssumption DEF TableInv, HashmapInit
<1>6. CountInv
  <2>1. h.count = Cardinality(Occupied(h)) /\ h \in Tables(n)
    BY <1>3 DEF Sound
  <2>2. Cardinality(Occupied(h)) \in Nat
    BY <1>2, <2>1, OccupiedFinite
  <2> QED
    BY <2>1, <2>2 DEF CountInv
<1>7. MapInv
  BY <1>3, <1>4 DEF MapInv, HashmapInit, PairsIn
<1>8. HangsOnTombstones
  BY DEF HangsOnTombstones, HashmapInit
<1> QED
  BY <1>5, <1>6, <1>7, <1>8 DEF HashmapInv

(* What an insertion puts into the table.                                  *)
LEMMA PutCounts ==
  ASSUME NEW n \in Nat \ {0}, NEW t \in Tables(n), Cardinality(Occupied(t)) <= t.count,
         NEW k \in Keys, NEW v \in Nat, NEW x \in Nat, NEW first, Ends(t, k, x, first) # {}
  PROVE  LET w == Put(t, k, v, x, first)
         IN  /\ w \in Tables(n) /\ Cardinality(Occupied(w)) <= w.count
             /\ \/ w = t
                \/ \E p \in 0 .. n - 1 : w = With(t, p, k, v)
<1> DEFINE w == Put(t, k, v, x, first)
           e == Min(Ends(t, k, x, first))
<1>1. /\ e \in 0 .. 2 * n
      /\ Seen(t, x, first, e) = k => w = t
      /\ Seen(t, x, first, e) # k =>
           \E i \in 0 .. e : w = With(t, (x + jump(i)) % n, k, v)
  <2>1. /\ e \in 0 .. 2 * n
        /\ Seen(t, x, first, e) = k => Put(t, k, v, x, first) = t
        /\ Seen(t, x, first, e) # k =>
             \E i \in 0 .. e :
               /\ i = e \/ Seen(t, x, first, i) = TOMBSTONE
               /\ \A j \in 0 .. i - 1 : Seen(t, x, first, j) # TOMBSTONE
               /\ Put(t, k, v, x, first) = With(t, (x + jump(i)) % n, k, v)
    BY PutShape
  <2> HIDE DEF e
  <2> QED
    BY <2>1
<1> HIDE DEF w, e
<1>2. w = t \/ \E p \in 0 .. n - 1 : w = With(t, p, k, v)
  BY <1>1, CaseType
<1>3. w \in Tables(n)
  BY PutTable DEF w
<1>4. Cardinality(Occupied(w)) <= w.count
  <2>1. CASE w = t
    BY <2>1
  <2>2. CASE w # t
    <3>1. PICK p \in 0 .. n - 1 : w = With(t, p, k, v)
      BY <1>2, <2>2
    <3>2. w.count = t.count + 1 /\ Occupied(w) = Occupied(t) \cup {p}
      <4>1. IsWith(w, t, n, p, k, v)
        BY <3>1, WithTable
      <4> QED
        BY <4>1 DEF IsWith
    <3>3. IsFiniteSet(Occupied(t)) /\ Cardinality(Occupied(t)) \in Nat /\ t.count \in Nat
      BY OccupiedFinite DEF Tables
    <3>4. Cardinality(Occupied(w)) <= Cardinality(Occupied(t)) + 1
      <4>1. Cardinality(Occupied(t) \cup {p}) =
              IF p \in Occupied(t) THEN Cardinality(Occupied(t)) ELSE Cardinality(Occupied(t)) + 1
        BY <3>3, FS_AddElement
      <4> QED
        BY <3>2, <3>3, <4>1
    <3>5. Cardinality(Occupied(w)) \in Nat
      BY <1>3, OccupiedFinite
    <3> QED
      BY <3>2, <3>3, <3>4, <3>5
  <2> QED
    BY <2>1, <2>2
<1> QED
  BY <1>2, <1>3, <1>4 DEF w

(* A table that is not too full in which an insertion does not end.        *)
LEMMA HangsThere ==
  ASSUME NEW n, PowerOfTwo(n), NEW t \in Tables(n), Cardinality(Occupied(t)) <= t.count,
         ~TooFull(t), NEW k, NEW x \in Nat, NEW first, Ends(t, k, x, first) = {}
  PROVE  /\ \A p \in 0 .. n - 1 : t.items[p].key # NULL
         /\ \E p \in 0 .. n - 1 : t.items[p].key = TOMBSTONE
<1>1. n \in Nat \ {0} /\ t.size = n /\ t.count \in Nat
  BY PowerDoubles DEF Tables
<1>2. \A p \in 0 .. n - 1 : t.items[p].key # NULL
  BY EmptyCaseEnds
<1>3. t.count < n
  BY <1>1 DEF TooFull
<1>4. Cardinality(Occupied(t)) \in Nat
  BY <1>1, OccupiedFinite
<1>5. Cardinality(Occupied(t)) < n
  BY <1>1, <1>3, <1>4
<1>6. \E p \in 0 .. n - 1 : t.items[p].key \in {NULL, TOMBSTONE}
  BY <1>1, <1>5, FreeCase
<1> QED
  BY <1>2, <1>6

(* The table into which an insertion grows.                                *)
LEMMA Grown ==
  ASSUME TableInv, CountInv, NEW k, NEW x \in Nat, NEW first
  PROVE  LET t == Resize(h, 2 * h.size)
         IN  /\ PowerOfTwo(2 * h.size) /\ Sound(t, 2 * h.size) /\ KeysIn(t) = KeysIn(h)
             /\ Ends(t, k, x, first) # {}
<1> DEFINE n == h.size
           t == Resize(h, 2 * n)
<1>1. /\ n \in Nat \ {0} /\ PowerOfTwo(n) /\ PowerOfTwo(2 * n)
      /\ hash \in [Keys -> Nat] /\ h \in Tables(n)
  BY PowerDoubles DEF TableInv
<1> HIDE DEF n
<1>2. Cardinality(Occupied(h)) \in Nat /\ Cardinality(Occupied(h)) < 2 * n
  <2>1. IsFiniteSet(0 .. n - 1) /\ Cardinality(0 .. n - 1) = n
    BY <1>1, Segment
  <2>2. Occupied(h) \in SUBSET (0 .. n - 1) /\ Cardinality(Occupied(h)) \in Nat
    BY <1>1, OccupiedFinite
  <2>3. Cardinality(Occupied(h)) <= n
    BY <2>1, <2>2, FS_Subset
  <2> QED
    BY <1>1, <2>2, <2>3
<1>3. /\ Sound(t, 2 * n) /\ KeysIn(t) = KeysIn(h)
      /\ Cardinality(Occupied(t)) <= Cardinality(Occupied(h))
  BY <1>1, <1>2, ResizeKeeps
<1> HIDE DEF t
<1>4. 2 * n \in Nat /\ t \in Tables(2 * n)
  BY <1>1, <1>3 DEF Sound
<1>5. Cardinality(Occupied(t)) \in Nat
  BY <1>4, OccupiedFinite
<1>6. Cardinality(Occupied(t)) < 2 * n
  BY <1>1, <1>2, <1>3, <1>5
<1>7. PICK p \in 0 .. 2 * n - 1 : t.items[p].key = NULL
  BY <1>3, <1>4, <1>6, FreeCase DEF Sound
<1>8. Ends(t, k, x, first) # {}
  BY <1>1, <1>4, <1>7, EmptyCaseEnds
<1> QED
  BY <1>1, <1>3, <1>8 DEF t, n

(* hashmap_find and the map that is meant.                                 *)
LEMMA ValueFound ==
  ASSUME TableInv, Placed(h), map = PairsIn(h), NEW k \in Keys
  PROVE  /\ Find(h, k) # -1 <=> k \in Known
         /\ k \in Known <=> k \in KeysIn(h)
         /\ k \in Known => /\ Value(k) = h.items[Find(h, k)].value
                           /\ <<k, Value(k)>> \in map
                           /\ \A pair \in map : pair[1] = k => pair = <<k, Value(k)>>
<1> DEFINE n == h.size
           q == Find(h, k)
<1>1. n \in Nat \ {0} /\ hash \in [Keys -> Nat] /\ h \in Tables(n)
  BY PowerDoubles DEF TableInv
<1> HIDE DEF n
<1>2. q # -1 <=> k \in KeysIn(h)
  BY <1>1, PlacedFinds
<1>3. k \in Known <=> k \in KeysIn(h)
  <2>1. ASSUME k \in Known PROVE k \in KeysIn(h)
    <3>1. PICK pair \in map : pair[1] = k
      BY <2>1 DEF Known
    <3>2. PICK p \in Occupied(h) : pair = <<h.items[p].key, h.items[p].value>>
      BY <3>1 DEF PairsIn
    <3> QED
      BY <3>1, <3>2 DEF KeysIn
  <2>2. ASSUME k \in KeysIn(h) PROVE k \in Known
    <3>1. PICK p \in Occupied(h) : k = h.items[p].key
      BY <2>2 DEF KeysIn
    <3>2. <<k, h.items[p].value>> \in map
      BY <3>1 DEF PairsIn
    <3>3. <<k, h.items[p].value>>[1] = k
      OBVIOUS
    <3> QED
      BY <3>2, <3>3 DEF Known
  <2> QED
    BY <2>1, <2>2
<1>4. ASSUME k \in Known
      PROVE  /\ Value(k) = h.items[q].value /\ <<k, Value(k)>> \in map
             /\ \A pair \in map : pair[1] = k => pair = <<k, Value(k)>>
  <2>1. q \in Occupied(h) /\ h.items[q].key = k
    BY <1>1, <1>2, <1>3, <1>4, FindFinds
  <2> DEFINE a == <<k, h.items[q].value>>
  <2>2. a \in map /\ a[1] = k /\ a[2] = h.items[q].value
    BY <2>1 DEF PairsIn
  <2>3. ASSUME NEW pair \in map, pair[1] = k PROVE pair = a
    <3>1. PICK p \in Occupied(h) : pair = <<h.items[p].key, h.items[p].value>>
      BY DEF PairsIn
    <3>2. h.items[p].key = k
      BY <2>3, <3>1
    <3>3. p = q
      BY <3>1, <3>2 DEF Placed
    <3> QED
      BY <3>1, <3>2, <3>3
  <2> HIDE DEF a, q
  <2>4. (CHOOSE pair \in map : pair[1] = k) = a
    BY <2>2, <2>3
  <2>5. Value(k) = h.items[q].value
    BY <1>4, <2>2, <2>4 DEF Value
  <2> QED
    BY <2>2, <2>3, <2>5 DEF a
<1> QED
  BY <1>2, <1>3, <1>4

(* As long as no key is new and no case gets empty, keys stay where they   *)
(* are found.                                                              *)
LEMMA PlacedStays ==
  ASSUME hash \in [Keys -> Nat], NEW n \in Nat \ {0}, NEW t \in Tables(n), NEW w \in Tables(n),
         Placed(t), \A p \in Occupied(w) : p \in Occupied(t) /\ t.items[p].key = w.items[p].key,
         \A p \in 0 .. n - 1 : t.items[p].key # NULL => w.items[p].key # NULL
  PROVE  Placed(w)
<1> SUFFICES ASSUME NEW q \in Occupied(w) PROVE Find(w, w.items[q].key) = q
  BY DEF Placed
<1> DEFINE k == w.items[q].key
<1>1. q \in Occupied(t) /\ t.items[q].key = k /\ k \in Keys
  BY DEF Occupied
<1>2. Find(t, k) = q /\ q # -1
  <2>1. q \in 0 .. n - 1
    BY <1>1, OccupiedFinite
  <2> QED
    BY <1>1, <2>1 DEF Placed
<1>3. \A p \in 0 .. n - 1 : w.items[p].key = k => t.items[p].key = k
  <2> SUFFICES ASSUME NEW p \in 0 .. n - 1, w.items[p].key = k PROVE t.items[p].key = k
    OBVIOUS
  <2>1. p \in Occupied(w)
    BY <1>1 DEF Occupied, Tables
  <2> QED
    BY <2>1
<1>4. w.items[Find(t, k)].key = k
  BY <1>2
<1> HIDE DEF k
<1> QED
  BY <1>1, <1>2, <1>3, <1>4, StillFound DEF k

(* A key that is found and stays where it was is found, there or earlier.  *)
LEMMA FoundSomewhere ==
  ASSUME hash \in [Keys -> Nat], NEW n \in Nat \ {0}, NEW t \in Tables(n), NEW w \in Tables(n),
         NEW k \in Keys, Find(t, k) # -1, w.items[Find(t, k)].key = k,
         \A p \in 0 .. n - 1 : t.items[p].key # NULL => w.items[p].key # NULL
  PROVE  Find(w, k) # -1
<1>1. PICK i \in 0 .. n - 1 : /\ HitAt(t, k, i) /\ KeyAt(t, hash[k], i) = k
                              /\ Find(t, k) = Probe(k, i, n)
  BY FindFinds
<1>2. t.size = n /\ w.size = n /\ i \in Nat /\ k # NULL
  BY HashmapAssumption DEF Tables
<1>3. ASSUME NEW j \in Nat
      PROVE  /\ Probe(k, j, n) \in 0 .. n - 1
             /\ KeyAt(t, hash[k], j) = t.items[Probe(k, j, n)].key
             /\ KeyAt(w, hash[k], j) = w.items[Probe(k, j, n)].key
  BY ProbeSees
<1> DEFINE S == {j \in 0 .. i : KeyAt(w, hash[k], j) = k}
<1>4. i \in S /\ S \subseteq Nat
  BY <1>1, <1>2, <1>3
<1>5. PICK m \in S : \A j \in S : m <= j
  <2> HIDE DEF S
  <2> QED
    BY <1>4, MinIsLeast
<1>6. m \in 0 .. i /\ KeyAt(w, hash[k], m) = k /\ m \in Nat /\ m \in 0 .. n - 1
  BY <1>2, <1>5
<1>7. ASSUME NEW j \in 0 .. m - 1 PROVE KeyAt(w, hash[k], j) \notin {NULL, k}
  <2>1. j \in 0 .. i /\ j \in 0 .. i - 1 /\ ~(m <= j) /\ j \in Nat
    BY <1>2, <1>6
  <2>2. KeyAt(w, hash[k], j) # k
    BY <1>5, <2>1
  <2>3. KeyAt(t, hash[k], j) # NULL
    BY <1>1, <2>1 DEF HitAt
  <2> QED
    BY <1>3, <2>1, <2>2, <2>3
<1>8. HitAt(w, k, m)
  BY <1>2, <1>6, <1>7 DEF HitAt
<1>9. Find(w, k) = Probe(k, m, n)
  BY <1>2, <1>6, <1>8, FindHit
<1> QED
  BY <1>3, <1>6, <1>9
-----------------------------------------------------------------------------
(* The steps                                                               *)

LEMMA PlacedNext == hash' = hash /\ Placed(h') => Placed(h)'
  BY DEF Placed, Find, Probe, Index

(* hashmap_insert                                                          *)
LEMMA InsertStep ==
  ASSUME TableInv, CountInv, MapInv, NEW k \in Keys, NEW v \in Nat, InsertInto(k, v),
         hash' = hash
  PROVE  HashmapInv'
<1> DEFINE n == h.size
           x == Index(k, n)
           first == h.items[x].key
           t == IF TooFull(h) THEN Resize(h, 2 * n) ELSE h
<1>1. /\ n \in Nat \ {0} /\ PowerOfTwo(n) /\ h \in Tables(n) /\ hash \in [Keys -> Nat]
      /\ grew \in BOOLEAN
  BY PowerDoubles DEF TableInv
<1>2. /\ stuck' = (Ends(t, k, x, first) = {})
      /\ h' = IF stuck' THEN t ELSE Put(t, k, v, x, first)
      /\ grew' = (grew \/ TooFull(h))
      /\ map' = IF k \in Known \/ stuck' THEN map ELSE map \cup {<<k, v>>}
  BY DEF InsertInto
<1>3. x \in Nat
  BY <1>1, FirstSeen
<1> HIDE DEF n, x, first, t
<1>4. CASE TooFull(h)
  <2>1. t = Resize(h, 2 * n)
    BY <1>4 DEF t
  <2>2. PowerOfTwo(2 * n) /\ Sound(t, 2 * n) /\ Ends(t, k, x, first) # {}
    BY <1>3, <2>1, Grown DEF n
  <2>3. 2 * n \in Nat \ {0} /\ t \in Tables(2 * n) /\ Cardinality(Occupied(t)) = t.count
    BY <1>1, <2>2 DEF Sound
  <2>4. ~stuck' /\ h' = Put(t, k, v, x, first) /\ grew' = TRUE /\ stuck' \in BOOLEAN
    BY <1>2, <1>4, <2>2
  <2>5. Cardinality(Occupied(t)) <= t.count
    <3>1. Cardinality(Occupied(t)) \in Nat
      BY <2>3, OccupiedFinite
    <3> QED
      BY <2>3, <3>1
  <2>6. h' \in Tables(2 * n) /\ Cardinality(Occupied(h')) <= h'.count
    BY <1>3, <2>2, <2>3, <2>4, <2>5, PutCounts
  <2>7. h'.size = 2 * n
    BY <2>6 DEF Tables
  <2>8. TableInv'
    BY <1>1, <2>2, <2>4, <2>6, <2>7 DEF TableInv
  <2>9. CountInv'
    BY <2>6 DEF CountInv
  <2>10. MapInv' /\ HangsOnTombstones'
    BY <2>4 DEF MapInv, HangsOnTombstones
  <2> QED
    BY <2>8, <2>9, <2>10 DEF HashmapInv
<1>5. CASE ~TooFull(h)
  <2>1. t = h /\ grew' = grew
    BY <1>1, <1>2, <1>5 DEF t
  <2>2. CASE Ends(h, k, x, first) = {}
    <3>1. stuck' = TRUE /\ h' = h /\ map' = map
      BY <1>2, <2>1, <2>2
    <3>2. TableInv' /\ CountInv'
      BY <2>1, <3>1 DEF TableInv, CountInv
    <3>3. MapInv'
      BY <2>1, <3>1, PlacedNext DEF MapInv
    <3>4. /\ \A p \in 0 .. n - 1 : h.items[p].key # NULL
          /\ \E p \in 0 .. n - 1 : h.items[p].key = TOMBSTONE
      BY <1>1, <1>3, <1>5, <2>2, HangsThere DEF CountInv
    <3>5. DOMAIN h'.items = 0 .. n - 1
      BY <1>1, <3>1 DEF Tables
    <3>6. HangsOnTombstones'
      BY <3>1, <3>4, <3>5 DEF HangsOnTombstones
    <3> QED
      BY <3>2, <3>3, <3>6 DEF HashmapInv
  <2>3. CASE Ends(h, k, x, first) # {}
    <3>1. /\ stuck' = FALSE /\ h' = Put(h, k, v, x, first)
          /\ map' = IF k \in Known THEN map ELSE map \cup {<<k, v>>}
      BY <1>2, <2>1, <2>3
    <3>2. h' \in Tables(n) /\ Cardinality(Occupied(h')) <= h'.count
      BY <1>1, <1>3, <2>3, <3>1, PutCounts DEF CountInv
    <3>3. h'.size = n
      BY <3>2 DEF Tables
    <3>4. TableInv' /\ CountInv'
      BY <1>1, <2>1, <3>1, <3>2, <3>3 DEF TableInv, CountInv
    <3>5. ASSUME ~grew PROVE Placed(h') /\ map' = PairsIn(h')
      <4>1. Placed(h) /\ map = PairsIn(h)
        BY <3>5 DEF MapInv
      <4>2. k \in Known <=> k \in KeysIn(h)
        BY <4>1, ValueFound
      <4>3. CASE k \in KeysIn(h)
        <5>1. h' = h
          BY <1>1, <2>3, <3>1, <4>1, <4>3, PutOld DEF x, first
        <5> QED
          BY <3>1, <4>1, <4>2, <4>3, <5>1
      <4>4. CASE k \notin KeysIn(h)
        <5>1. PICK p \in (0 .. n - 1) \ Occupied(h) :
                h' = With(h, p, k, v) /\ Placed(With(h, p, k, v))
          BY <1>1, <2>3, <3>1, <4>1, <4>4, PutNew DEF x, first
        <5>2. PairsIn(With(h, p, k, v)) = PairsIn(h) \cup {<<k, v>>}
          BY <1>1, PairsWith
        <5> QED
          BY <3>1, <4>1, <4>2, <4>4, <5>1, <5>2
      <4> QED
        BY <4>3, <4>4
    <3>6. MapInv'
      BY <2>1, <3>5, PlacedNext DEF MapInv
    <3> QED
      BY <3>1, <3>4, <3>6 DEF HashmapInv, HangsOnTombstones
  <2> QED
    BY <2>2, <2>3
<1> QED
  BY <1>4, <1>5

(* hashmap_increase of a key that is there                                 *)
LEMMA Increased ==
  ASSUME NEW n \in Nat \ {0}, NEW t \in Tables(n), NEW q \in 0 .. n - 1, NEW v \in Nat
  PROVE  LET w == [t EXCEPT !.items[q].value = @ + v]
         IN  /\ w \in Tables(n) /\ w.count = t.count /\ Occupied(w) = Occupied(t)
             /\ \A p \in 0 .. n - 1 :
                  /\ w.items[p].key = t.items[p].key
                  /\ w.items[p].value = t.items[p].value + (IF p = q THEN v ELSE 0)
<1> DEFINE i == [t.items[q] EXCEPT !.value = @ + v]
           f == [t.items EXCEPT ![q] = i]
           w == [t EXCEPT !.items[q].value = @ + v]
<1>1. t.count \in Nat /\ t.items \in [0 .. n - 1 -> Items] /\ t.size = n
  BY DEF Tables
<1>2. i \in Items /\ i.key = t.items[q].key /\ i.value = t.items[q].value + v
  <2>1. t.items[q] \in Items
    BY <1>1
  <2> QED
    BY <2>1 DEF Items
<1>3. w = [t EXCEPT !.items = f]
  OBVIOUS
<1> HIDE DEF i, w
<1>4. f \in [0 .. n - 1 -> Items] /\ \A p \in 0 .. n - 1 : f[p] = IF p = q THEN i ELSE t.items[p]
  BY <1>1, <1>2
<1> HIDE DEF f
<1>5. w = [size |-> n, count |-> t.count, items |-> f]
  BY <1>1, <1>3 DEF Tables
<1>6. w \in Tables(n) /\ w.size = n /\ w.count = t.count /\ w.items = f
  BY <1>1, <1>4, <1>5 DEF Tables
<1>7. ASSUME NEW p \in 0 .. n - 1
      PROVE  /\ w.items[p].key = t.items[p].key
             /\ w.items[p].value = t.items[p].value + (IF p = q THEN v ELSE 0)
  <2>1. t.items[p].value \in Nat
    BY <1>1 DEF Items
  <2> QED
    BY <1>2, <1>4, <1>6, <2>1
<1>8. Occupied(w) = Occupied(t)
  BY <1>1, <1>6, <1>7 DEF Occupied
<1> QED
  BY <1>6, <1>7, <1>8 DEF w

LEMMA IncreaseStep ==
  ASSUME HashmapInv, ~stuck, NEW k \in Keys, NEW v \in Nat, Find(h, k) # -1,
         h' = [h EXCEPT !.items[Find(h, k)].value = @ + v],
         map' = {pair \in map : pair[1] # k} \cup {<<k, Value(k) + v>>},
         UNCHANGED <<hash, grew, stuck>>
  PROVE  HashmapInv'
<1> DEFINE n == h.size
           q == Find(h, k)
<1>1. /\ n \in Nat \ {0} /\ PowerOfTwo(n) /\ h \in Tables(n) /\ hash \in [Keys -> Nat]
      /\ TableInv /\ CountInv /\ MapInv
  BY PowerDoubles DEF TableInv, HashmapInv
<1> HIDE DEF n
<1>2. q \in Occupied(h) /\ h.items[q].key = k /\ q \in 0 .. n - 1
  <2>1. q \in Occupied(h) /\ h.items[q].key = k
    BY <1>1, FindFinds
  <2> QED
    BY <1>1, <2>1, OccupiedFinite
<1> HIDE DEF q
<1>3. h' = [h EXCEPT !.items[q].value = @ + v]
  BY DEF q
<1>4. /\ h' \in Tables(n) /\ h'.count = h.count /\ Occupied(h') = Occupied(h)
      /\ \A p \in 0 .. n - 1 :
           /\ h'.items[p].key = h.items[p].key
           /\ h'.items[p].value = h.items[p].value + (IF p = q THEN v ELSE 0)
  <2> DEFINE w == [h EXCEPT !.items[q].value = @ + v]
  <2>1. /\ w \in Tables(n) /\ w.count = h.count /\ Occupied(w) = Occupied(h)
        /\ \A p \in 0 .. n - 1 :
             /\ w.items[p].key = h.items[p].key
             /\ w.items[p].value = h.items[p].value + (IF p = q THEN v ELSE 0)
    BY <1>1, <1>2, Increased
  <2>2. h' = w
    BY <1>3
  <2> HIDE DEF w
  <2> QED
    BY <2>1, <2>2
<1>5. h'.size = n
  BY <1>4 DEF Tables
<1>6. TableInv' /\ CountInv' /\ HangsOnTombstones'
  BY <1>1, <1>4, <1>5 DEF TableInv, CountInv, HangsOnTombstones
<1>7. ASSUME ~grew PROVE Placed(h') /\ map' = PairsIn(h')
  <2>1. Placed(h) /\ map = PairsIn(h) /\ Occupied(h) \subseteq 0 .. n - 1
    BY <1>1, <1>7, OccupiedFinite DEF MapInv
  <2>2. Placed(h')
    <3>1. \A p \in Occupied(h') : p \in Occupied(h) /\ h.items[p].key = h'.items[p].key
      BY <1>4, <2>1
    <3>2. \A p \in 0 .. n - 1 : h.items[p].key # NULL => h'.items[p].key # NULL
      BY <1>4
    <3> QED
      BY <1>1, <1>4, <2>1, <3>1, <3>2, PlacedStays
  <2>3. Value(k) = h.items[q].value
    <3>1. k \in Known /\ Value(k) = h.items[Find(h, k)].value
      BY <1>1, <2>1, ValueFound
    <3> QED
      BY <3>1 DEF q
  <2>4. ASSUME NEW y \in map' PROVE y \in PairsIn(h')
    <3>1. CASE y = <<k, Value(k) + v>>
      <4>1. h'.items[q].key = k /\ h'.items[q].value = Value(k) + v
        BY <1>2, <1>4, <2>3
      <4> QED
        BY <1>2, <1>4, <3>1, <4>1 DEF PairsIn
    <3>2. CASE y \in map /\ y[1] # k
      <4>1. PICK p \in Occupied(h) : y = <<h.items[p].key, h.items[p].value>>
        BY <2>1, <3>2 DEF PairsIn
      <4>2. p # q /\ p \in 0 .. n - 1 /\ h.items[p].value \in Nat
        BY <1>1, <1>2, <2>1, <3>2, <4>1 DEF Tables, Items
      <4>3. y = <<h'.items[p].key, h'.items[p].value>>
        BY <1>4, <4>1, <4>2
      <4> QED
        BY <1>4, <4>3 DEF PairsIn
    <3> QED
      BY <3>1, <3>2
  <2>5. ASSUME NEW y \in PairsIn(h') PROVE y \in map'
    <3>1. PICK p \in Occupied(h) : y = <<h'.items[p].key, h'.items[p].value>>
      BY <1>4 DEF PairsIn
    <3>2. p \in 0 .. n - 1 /\ h.items[p].value \in Nat
      BY <1>1, <2>1, <3>1 DEF Tables, Items
    <3>3. CASE p = q
      <4>1. y = <<k, Value(k) + v>>
        BY <1>2, <1>4, <2>3, <3>1, <3>2, <3>3
      <4> QED
        BY <4>1
    <3>4. CASE p # q
      <4>1. y = <<h.items[p].key, h.items[p].value>>
        BY <1>4, <3>1, <3>2, <3>4
      <4>2. h.items[p].key # k
        <5>1. Find(h, h.items[p].key) = p
          BY <2>1, <3>1 DEF Placed
        <5> QED
          BY <3>4, <5>1 DEF q
      <4>3. y \in map /\ y[1] # k
        BY <2>1, <3>1, <4>1, <4>2 DEF PairsIn
      <4> QED
        BY <4>3
    <3> QED
      BY <3>3, <3>4
  <2> QED
    BY <2>2, <2>4, <2>5
<1>8. MapInv'
  BY <1>7, PlacedNext DEF MapInv
<1> QED
  BY <1>6, <1>8 DEF HashmapInv

(* hashmap_remove                                                          *)
LEMMA RemovedTable ==
  ASSUME NEW n \in Nat \ {0}, NEW t \in Tables(n), Cardinality(Occupied(t)) <= t.count,
         NEW q \in Occupied(t)
  PROVE  LET w == Removed(t, q)
         IN  /\ w \in Tables(n) /\ w.size = n /\ Occupied(w) = Occupied(t) \ {q}
             /\ Cardinality(Occupied(w)) <= w.count
             /\ \A p \in 0 .. n - 1 : w.items[p] = IF p = q THEN Item(TOMBSTONE, 0) ELSE t.items[p]
<1> DEFINE i == Item(TOMBSTONE, 0)
           f == [t.items EXCEPT ![q] = i]
           w == Removed(t, q)
<1>1. t.count \in Nat /\ t.items \in [0 .. n - 1 -> Items] /\ t.size = n
  BY DEF Tables
<1>2. /\ IsFiniteSet(Occupied(t)) /\ Cardinality(Occupied(t)) \in Nat
      /\ Occupied(t) \subseteq 0 .. n - 1 /\ q \in 0 .. n - 1
  BY OccupiedFinite
<1>3. /\ Cardinality(Occupied(t) \ {q}) = Cardinality(Occupied(t)) - 1
      /\ IsFiniteSet(Occupied(t) \ {q})
  BY <1>2, FS_RemoveElement
<1>4. Cardinality(Occupied(t) \ {q}) \in Nat
  BY <1>3, FS_CardinalityType
<1>5. t.count - 1 \in Nat /\ Cardinality(Occupied(t) \ {q}) <= t.count - 1
  BY <1>1, <1>2, <1>3, <1>4
<1>6. i \in Items /\ i.key = TOMBSTONE /\ TOMBSTONE \notin Keys
  BY HashmapAssumption DEF Item, Items
<1>7. w = [t EXCEPT !.items = f, !.count = t.count - 1]
  BY DEF Removed
<1> HIDE DEF i, w
<1>8. f \in [0 .. n - 1 -> Items] /\ \A p \in 0 .. n - 1 : f[p] = IF p = q THEN i ELSE t.items[p]
  BY <1>1, <1>2, <1>6
<1> HIDE DEF f
<1>9. w = [size |-> n, count |-> t.count - 1, items |-> f]
  BY <1>7 DEF Tables
<1>10. w \in Tables(n) /\ w.size = n /\ w.count = t.count - 1 /\ w.items = f
  BY <1>5, <1>8, <1>9 DEF Tables
<1>11. Occupied(w) = Occupied(t) \ {q}
  BY <1>1, <1>2, <1>6, <1>8, <1>10 DEF Occupied
<1> QED
  BY <1>5, <1>8, <1>10, <1>11 DEF w, i

LEMMA RemoveStep ==
  ASSUME HashmapInv, ~stuck, NEW k \in Keys, hashmap_remove(k)
  PROVE  HashmapInv'
<1> DEFINE n == h.size
           q == Find(h, k)
           t == Removed(h, q)
<1>1. /\ n \in Nat \ {0} /\ PowerOfTwo(n) /\ h \in Tables(n) /\ hash \in [Keys -> Nat]
      /\ TableInv /\ CountInv /\ MapInv
  BY PowerDoubles DEF TableInv, HashmapInv
<1>2. /\ q # -1 /\ h' = IF TooEmpty(t) THEN Resize(t, t.size \div 2) ELSE t
      /\ map' = {pair \in map : pair[1] # k}
      /\ hash' = hash /\ grew' = grew /\ stuck' = stuck
  BY DEF hashmap_remove
<1> HIDE DEF n
<1>3. q \in Occupied(h) /\ h.items[q].key = k /\ q \in 0 .. n - 1
  <2>1. q \in Occupied(h) /\ h.items[q].key = k
    BY <1>1, <1>2, FindFinds
  <2> QED
    BY <1>1, <2>1, OccupiedFinite
<1> HIDE DEF q
<1>4. /\ t \in Tables(n) /\ t.size = n /\ Occupied(t) = Occupied(h) \ {q}
      /\ Cardinality(Occupied(t)) <= t.count
      /\ \A p \in 0 .. n - 1 : t.items[p] = IF p = q THEN Item(TOMBSTONE, 0) ELSE h.items[p]
  BY <1>1, <1>3, RemovedTable DEF CountInv
<1> HIDE DEF t
<1>5. Item(TOMBSTONE, 0).key = TOMBSTONE /\ TOMBSTONE \notin Keys /\ TOMBSTONE # NULL
  BY HashmapAssumption DEF Item
<1>6. Occupied(h) \subseteq 0 .. n - 1 /\ Occupied(t) \subseteq 0 .. n - 1
      /\ \A p \in Occupied(t) : t.items[p] = h.items[p]
  <2>1. Occupied(h) \subseteq 0 .. n - 1
    BY <1>1, OccupiedFinite
  <2> QED
    BY <1>4, <2>1
<1>7. ASSUME ~grew PROVE Placed(t) /\ map' = PairsIn(t)
  <2>1. Placed(h) /\ map = PairsIn(h)
    BY <1>1, <1>7 DEF MapInv
  <2>2. Placed(t)
    <3>1. \A p \in Occupied(t) : p \in Occupied(h) /\ h.items[p].key = t.items[p].key
      BY <1>4, <1>6
    <3>2. \A p \in 0 .. n - 1 : h.items[p].key # NULL => t.items[p].key # NULL
      BY <1>4, <1>5
    <3> QED
      BY <1>1, <1>4, <2>1, <3>1, <3>2, PlacedStays
  <2>3. ASSUME NEW y \in map' PROVE y \in PairsIn(t)
    <3>1. PICK p \in Occupied(h) : y = <<h.items[p].key, h.items[p].value>>
      BY <1>2, <2>1, <2>3 DEF PairsIn
    <3>2. p # q
      BY <1>2, <1>3, <2>3, <3>1
    <3>3. p \in Occupied(t) /\ t.items[p] = h.items[p]
      BY <1>4, <1>6, <3>2
    <3> QED
      BY <3>1, <3>3 DEF PairsIn
  <2>4. ASSUME NEW y \in PairsIn(t) PROVE y \in map'
    <3>1. PICK p \in Occupied(t) : y = <<t.items[p].key, t.items[p].value>>
      BY <2>4 DEF PairsIn
    <3>2. p \in Occupied(h) /\ p # q /\ y = <<h.items[p].key, h.items[p].value>>
      BY <1>4, <1>6, <3>1
    <3>3. h.items[p].key # k
      <4>1. Find(h, h.items[p].key) = p
        BY <2>1, <3>2 DEF Placed
      <4> QED
        BY <3>2, <4>1 DEF q
    <3>4. y \in map /\ y[1] # k
      BY <2>1, <3>2, <3>3 DEF PairsIn
    <3> QED
      BY <1>2, <3>4
  <2> QED
    BY <2>2, <2>3, <2>4
<1>8. HangsOnTombstones'
  BY <1>2 DEF HangsOnTombstones
<1>9. CASE ~TooEmpty(t)
  <2>1. h' = t
    BY <1>2, <1>9
  <2>2. TableInv' /\ CountInv'
    BY <1>1, <1>2, <1>4, <2>1 DEF TableInv, CountInv
  <2>3. MapInv'
    BY <1>2, <1>7, <2>1, PlacedNext DEF MapInv
  <2> QED
    BY <1>8, <2>2, <2>3 DEF HashmapInv
<1>10. CASE TooEmpty(t)
  <2> DEFINE m == n \div 2
             w == Resize(t, m)
  <2>1. h' = w /\ n > 2 /\ 4 * t.count < n
    BY <1>2, <1>4, <1>10 DEF TooEmpty
  <2>2. PowerOfTwo(m) /\ 2 * m = n /\ m \in Nat \ {0}
    <3>1. PowerOfTwo(m) /\ 2 * m = n
      BY <1>1, <2>1, PowerHalves
    <3> HIDE DEF m
    <3> QED
      BY <3>1, PowerDoubles
  <2>3. Cardinality(Occupied(t)) < m
    <3>1. Cardinality(Occupied(t)) \in Nat /\ t.count \in Nat
      BY <1>1, <1>4, OccupiedFinite DEF Tables
    <3> HIDE DEF m
    <3> QED
      BY <1>4, <2>1, <2>2, <3>1
  <2> HIDE DEF m, w
  <2>4. /\ Sound(w, m) /\ KeysIn(w) = KeysIn(t)
        /\ Cardinality(Occupied(w)) <= Cardinality(Occupied(t))
        /\ Placed(t) => PairsIn(w) = PairsIn(t)
    BY <1>1, <1>4, <2>2, <2>3, ResizeKeeps DEF w
  <2>5. w \in Tables(m) /\ w.size = m /\ Placed(w) /\ w.count = Cardinality(Occupied(w))
    BY <2>4 DEF Sound, Tables
  <2>6. Cardinality(Occupied(w)) \in Nat
    BY <2>2, <2>5, OccupiedFinite
  <2>7. TableInv' /\ CountInv'
    BY <1>1, <1>2, <2>1, <2>2, <2>5, <2>6 DEF TableInv, CountInv
  <2>8. MapInv'
    BY <1>2, <1>7, <2>1, <2>4, <2>5, PlacedNext DEF MapInv
  <2> QED
    BY <1>8, <2>7, <2>8 DEF HashmapInv
<1> QED
  BY <1>9, <1>10
-----------------------------------------------------------------------------
(* The theorems                                                            *)

LEMMA NextHashmap == HashmapInv /\ [HashmapNext]_hvars => HashmapInv'
<1> SUFFICES ASSUME HashmapInv, [HashmapNext]_hvars PROVE HashmapInv'
  OBVIOUS
<1>1. CASE UNCHANGED hvars
  <2>1. UNCHANGED <<hash, h, map, grew, stuck>>
    BY <1>1 DEF hvars
  <2>2. TableInv' /\ CountInv' /\ HangsOnTombstones'
    BY <2>1 DEF HashmapInv, TableInv, CountInv, HangsOnTombstones
  <2>3. MapInv'
    BY <2>1, PlacedNext DEF HashmapInv, MapInv
  <2> QED
    BY <2>2, <2>3 DEF HashmapInv
<1>2. ASSUME NEW k \in Keys, hashmap_insert(k, 1) PROVE HashmapInv'
  <2>1. InsertInto(k, 1) /\ hash' = hash
    BY <1>2 DEF hashmap_insert
  <2> QED
    BY <2>1, InsertStep DEF HashmapInv
<1>3. ASSUME NEW k \in Keys, hashmap_increase(k, 1) PROVE HashmapInv'
  <2>1. CASE InsertInto(k, 1) /\ hash' = hash
    BY <2>1, InsertStep DEF HashmapInv
  <2>2. CASE /\ ~stuck /\ Find(h, k) # -1
             /\ h' = [h EXCEPT !.items[Find(h, k)].value = @ + 1]
             /\ map' = {pair \in map : pair[1] # k} \cup {<<k, Value(k) + 1>>}
             /\ UNCHANGED <<hash, grew, stuck>>
    BY <2>2, IncreaseStep
  <2> QED
    BY <1>3, <2>1, <2>2 DEF hashmap_increase
<1>4. ASSUME NEW k \in Keys, hashmap_remove(k) PROVE HashmapInv'
  <2>1. ~stuck
    BY <1>4 DEF hashmap_remove
  <2> QED
    BY <1>4, <2>1, RemoveStep
<1> QED
  BY <1>1, <1>2, <1>3, <1>4 DEF HashmapNext

(* Whatever is inserted, increased and removed, for every hash function:   *)
(* the table keeps a size that is a power of two and counts no fewer keys  *)
(* than it holds; until an insertion of hashmap_insert grows it, each key  *)
(* stands once, where the probes of hashmap_find end.                      *)
THEOREM HashmapSound == HashmapSpec => []HashmapInv
<1>1. HashmapInit => HashmapInv
  BY InitHashmap
<1>2. HashmapInv /\ [HashmapNext]_hvars => HashmapInv'
  BY NextHashmap
<1> QED
  BY <1>1, <1>2, PTL DEF HashmapSpec

(* hashmap_find and hashmap_get answer what the callers of the map mean,   *)
(* through collisions, tombstones and shrinking, until an insertion grows  *)
(* the table.                                                              *)
THEOREM MapFound == HashmapSpec => []IsTheMap
<1>1. HashmapInv => IsTheMap
  <2> SUFFICES ASSUME HashmapInv, ~grew, NEW k \in Keys
               PROVE  (Find(h, k) # -1 <=> k \in Known) /\ Get(h, k) = Value(k)
    BY DEF IsTheMap
  <2>1. /\ Find(h, k) # -1 <=> k \in Known
        /\ k \in Known => Value(k) = h.items[Find(h, k)].value
    BY ValueFound DEF HashmapInv, MapInv
  <2>2. k \notin Known => Value(k) = 0
    BY DEF Value
  <2>3. Get(h, k) = IF Find(h, k) = -1 THEN 0 ELSE h.items[Find(h, k)].value
    BY DEF Get
  <2> QED
    BY <2>1, <2>2, <2>3
<1> QED
  BY <1>1, HashmapSound, PTL

(* The loop of hashmap_insert, which has no bound, fails to end only in a  *)
(* table without an empty case, one at least of which a removed key left   *)
(* its tombstone in.                                                       *)
THEOREM HangIsOfTombstones == HashmapSpec => []HangsOnTombstones
<1>1. HashmapInv => HangsOnTombstones
  BY DEF HashmapInv
<1> QED
  BY <1>1, HashmapSound, PTL

LEMMA ResizeSize ==
  ASSUME NEW n \in Nat, NEW m \in Nat, NEW t \in Tables(m)
  PROVE  Resize(t, n).size = n
<1>1. PICK f \in [0 .. m -> Tables(n)] : Resize(t, n) = f[m]
  BY ResizeTurns
<1>2. m \in 0 .. m
  OBVIOUS
<1>3. Resize(t, n) \in Tables(n)
  BY <1>1, <1>2
<1> QED
  BY <1>3 DEF Tables

(* Only an insertion into a table that is too full makes it larger.        *)
LEMMA OnlyInsertGrows ==
  ASSUME HashmapInv, HashmapNext, h'.size > h.size
  PROVE  \E k \in Keys : InsertInto(k, 1) /\ TooFull(h) /\ hash' = hash
<1> DEFINE n == h.size
<1>1. n \in Nat \ {0} /\ PowerOfTwo(n) /\ h \in Tables(n) /\ hash \in [Keys -> Nat]
  BY PowerDoubles DEF TableInv, HashmapInv
<1>2. ASSUME NEW k \in Keys, InsertInto(k, 1), ~TooFull(h) PROVE h'.size = n
  <2> DEFINE x == Index(k, n)
             w == Put(h, k, 1, x, h.items[x].key)
  <2>1. h' = h \/ h' = w
    BY <1>2 DEF InsertInto
  <2>2. w \in Tables(n)
    BY <1>1, PutTable
  <2> HIDE DEF w
  <2> QED
    BY <2>1, <2>2 DEF Tables
<1>3. ASSUME NEW k \in Keys, hashmap_remove(k) PROVE ~(h'.size > n)
  <2> DEFINE q == Find(h, k)
             t == Removed(h, q)
  <2>1. h' = t \/ h' = Resize(t, t.size \div 2)
    BY <1>3 DEF hashmap_remove
  <2>2. q \in Occupied(h)
    <3>1. q # -1
      BY <1>3 DEF hashmap_remove
    <3> QED
      BY <1>1, <3>1, FindFinds
  <2> HIDE DEF q
  <2>3. t \in Tables(n) /\ t.size = n
    BY <1>1, <2>2, RemovedTable DEF HashmapInv, CountInv
  <2> HIDE DEF t, n
  <2>4. n \div 2 \in Nat /\ ~(n \div 2 > n) /\ ~(n > n)
    BY <1>1
  <2>5. Resize(t, n \div 2).size = n \div 2
    BY <1>1, <2>3, <2>4, ResizeSize
  <2> QED
    BY <1>1, <2>1, <2>3, <2>4, <2>5
<1>4. ASSUME NEW k \in Keys, h' = [h EXCEPT !.items[Find(h, k)].value = @ + 1]
      PROVE  h'.size = n
  BY <1>1, <1>4 DEF Tables
<1>5. PICK k \in Keys : hashmap_insert(k, 1) \/ hashmap_increase(k, 1) \/ hashmap_remove(k)
  BY DEF HashmapNext
<1>6. CASE hashmap_insert(k, 1)
  <2>1. InsertInto(k, 1) /\ hash' = hash
    BY <1>6 DEF hashmap_insert
  <2> QED
    BY <1>1, <1>2, <2>1
<1>7. CASE hashmap_increase(k, 1)
  <2>1. \/ InsertInto(k, 1)
        \/ h' = [h EXCEPT !.items[Find(h, k)].value = @ + 1]
    BY <1>7 DEF hashmap_increase
  <2>2. hash' = hash
    BY <1>7 DEF hashmap_increase
  <2> QED
    BY <1>1, <1>2, <1>4, <2>1, <2>2
<1>8. CASE hashmap_remove(k)
  BY <1>3, <1>8
<1> QED
  BY <1>5, <1>6, <1>7, <1>8

(* An insertion that makes the table grow puts its key where the small     *)
(* table's index leads; at most one of the keys that could be found is     *)
(* found no more.                                                          *)
THEOREM GrowthLoses == HashmapSpec => GrowthLosesOne
<1>1. ASSUME HashmapInv, HashmapNext, h'.size > h.size
      PROVE  Cardinality(Lost) <= 1
  <2> DEFINE m == 2 * h.size
             t == Resize(h, m)
  <2>1. PICK k \in Keys : InsertInto(k, 1) /\ TooFull(h) /\ hash' = hash
    BY <1>1, OnlyInsertGrows
  <2> DEFINE x == Index(k, h.size)
             first == h.items[x].key
             w == Put(t, k, 1, x, first)
  <2>2. /\ h.size \in Nat \ {0} /\ h \in Tables(h.size) /\ hash \in [Keys -> Nat]
        /\ TableInv /\ CountInv
    BY <1>1, PowerDoubles DEF TableInv, HashmapInv
  <2>3. x \in Nat
    BY <2>2, FirstSeen
  <2>4. h' = IF Ends(t, k, x, first) = {} THEN t ELSE w
    BY <2>1 DEF InsertInto
  <2> HIDE DEF x, first
  <2>5. PowerOfTwo(m) /\ Sound(t, m) /\ KeysIn(t) = KeysIn(h) /\ Ends(t, k, x, first) # {}
    BY <2>2, <2>3, Grown
  <2>6. h' = w /\ m \in Nat \ {0} /\ t \in Tables(m) /\ Placed(t)
    BY <2>2, <2>4, <2>5 DEF Sound
  <2> HIDE DEF m, t, w
  <2>7. Cardinality(Occupied(t)) <= t.count
    <3>1. Cardinality(Occupied(t)) \in Nat /\ t.count = Cardinality(Occupied(t))
      BY <2>5, <2>6, OccupiedFinite DEF Sound
    <3> QED
      BY <3>1
  <2>8. w \in Tables(m) /\ (w = t \/ \E p \in 0 .. m - 1 : w = With(t, p, k, 1))
    BY <2>3, <2>5, <2>6, <2>7, PutCounts DEF w
  <2>9. PICK p \in 0 .. m - 1 : w = t \/ w = With(t, p, k, 1)
    <3>1. 0 \in 0 .. m - 1
      BY <2>6
    <3> QED
      BY <2>8, <3>1
  <2>10. \A q \in 0 .. m - 1 : /\ q # p => w.items[q] = t.items[q]
                               /\ t.items[q].key # NULL => w.items[q].key # NULL
    <3>1. CASE w = t
      BY <3>1
    <3>2. CASE w = With(t, p, k, 1)
      <4>1. \A q \in 0 .. m - 1 : w.items[q] = IF q = p THEN Item(k, 1) ELSE t.items[q]
        <5>1. IsWith(w, t, m, p, k, 1)
          BY <2>6, <3>2, WithTable
        <5> QED
          BY <5>1 DEF IsWith
      <4>2. Item(k, 1).key = k /\ k # NULL
        BY HashmapAssumption DEF Item
      <4> QED
        BY <4>1, <4>2
    <3> QED
      BY <2>9, <3>1, <3>2
  <2>11. ASSUME NEW j \in Lost PROVE j = t.items[p].key
    <3>1. j \in Keys /\ Find(h, j) # -1 /\ Find(w, j) = -1
      BY <2>6 DEF Lost
    <3>2. j \in KeysIn(h)
      BY <2>2, <3>1, FindFinds DEF KeysIn
    <3>3. Find(t, j) # -1
      BY <2>2, <2>5, <2>6, <3>1, <3>2, PlacedFinds
    <3>4. Find(t, j) \in Occupied(t) /\ t.items[Find(t, j)].key = j
      BY <2>2, <2>6, <3>1, <3>3, FindFinds
    <3>5. Find(t, j) \in 0 .. m - 1
      BY <2>6, <3>4, OccupiedFinite
    <3>6. CASE Find(t, j) = p
      BY <3>4, <3>6
    <3>7. CASE Find(t, j) # p
      <4>1. w.items[Find(t, j)].key = j
        BY <2>10, <3>4, <3>5, <3>7
      <4>2. Find(w, j) # -1
        BY <2>2, <2>6, <2>8, <2>10, <3>1, <3>3, <4>1, FoundSomewhere
      <4> QED
        BY <3>1, <4>2
    <3> QED
      BY <3>6, <3>7
  <2>12. Lost \in SUBSET {t.items[p].key}
    BY <2>11
  <2>13. IsFiniteSet({t.items[p].key}) /\ Cardinality({t.items[p].key}) = 1
    BY FS_Singleton
  <2>14. IsFiniteSet(Lost) /\ Cardinality(Lost) <= Cardinality({t.items[p].key})
    BY <2>12, <2>13, FS_Subset
  <2> QED
    BY <2>13, <2>14
<1>2. HashmapInv /\ [HashmapNext]_hvars => [h'.size > h.size => Cardinality(Lost) <= 1]_hvars
  BY <1>1
<1> QED
  BY <1>2, HashmapSound, PTL DEF HashmapSpec, GrowthLosesOne
=============================================================================
