---------------------------- MODULE ProxyProofs ----------------------------
(***************************************************************************)
(* The safety of the proxy's two threads, for any number of clients and a  *)
(* table of any size: the inductive invariant of Proxy and what follows    *)
(* from it.                                                                *)
(***************************************************************************)
EXTENDS Proxy, DataProofs

(* The process ends both threads; until it is connected there is one.      *)
ThreadsInv ==
    /\ spc = "ended" <=> cpc = "ended"
    /\ spc = "connect" => cpc = "off" /\ sem = 0
    /\ sem = 1 => cpc \in {"off", "ended"}

(* The thread of the server's side only leaves its loop, and is only told  *)
(* to, when the server is gone; it ends once it has forgotten the number.  *)
GoneInv ==
    /\ spc \in {"forget", "lastline", "close", "tell", "done"} \/ sEnd
         => server \in {"closed", "reset"}
    /\ spc \in {"forget", "lastline"} => sEnd

(* The slots behind those in use hold no client, and a client's connection *)
(* is accepted once: the table of the clients never fills.                 *)
Served == {c \in Conns : peer[c] \notin {"none", "pending"}}

TableInv ==
    /\ cnb <= 2 + Cardinality(Served)
    /\ cpc \in {"off", "init"} => cnb = 0
    /\ cpc \in {"poll", "stdin", "close", "done"} =>
          cnb >= 2 /\ cfds[0] = csock /\ cfds[1] = Tty
    /\ \A k \in Slots : k >= cnb => cfds[k] \in {Tty, NoFd}

(* While the thread of the server's side serves, both sockets are what the *)
(* sides take them for.                                                    *)
SocketsInv ==
    spc \in {"poll", "stdin"} =>
        /\ sfds[0] = ssock
        /\ cpc \in {"poll", "stdin", "close"} => kind[csock] = "listener"

IInv ==
    /\ TypeOK
    /\ ThreadsInv /\ GoneInv /\ TableInv /\ SocketsInv
    /\ DescriptorsApart /\ NotBothBlocked
-----------------------------------------------------------------------------
LEMMA ServedCounts ==
    /\ IsFiniteSet(Served) /\ Cardinality(Served) \in Nat
    /\ Cardinality(Served) <= Cardinality(Conns) /\ Cardinality(Conns) \in Nat
<1>1. Served \in SUBSET Conns
  BY DEF Served
<1>2. IsFiniteSet(Served) /\ Cardinality(Served) <= Cardinality(Conns)
  BY <1>1, ProxyAssumption, FS_Subset
<1> QED
  BY <1>2, ProxyAssumption, FS_CardinalityType

LEMMA NeverFull == TypeOK /\ TableInv => cnb \in 0 .. MaxPoll - 1
BY ServedCounts, ProxyAssumption DEF TypeOK, TableInv

(* Nobody who was served is forgotten.                                     *)
LEMMA ServedGrows ==
  ASSUME Served \subseteq Served'
  PROVE  /\ Cardinality(Served) \in Nat /\ Cardinality(Served') \in Nat
         /\ Cardinality(Served) <= Cardinality(Served')
<1>1. IsFiniteSet(Served')
  <2>1. Served' \in SUBSET Conns
    BY DEF Served
  <2> QED
    BY <2>1, ProxyAssumption, FS_Subset
<1> QED
  BY <1>1, FS_Subset, FS_CardinalityType

(* A step that leaves the table of the clients alone.                      *)
LEMMA TableStays ==
  ASSUME TypeOK, TableInv, Served \subseteq Served',
         UNCHANGED <<csock, cfds, cnb>>,
         cpc' \in {"off", "init"} => cpc \in {"off", "init"},
         cpc' \in {"poll", "stdin", "close", "done"}
           => cpc \in {"poll", "stdin", "close", "done"}
  PROVE  TableInv'
BY ServedGrows DEF TableInv, TypeOK

-----------------------------------------------------------------------------
LEMMA InitIInv == Init => IInv
<1> SUFFICES ASSUME Init PROVE IInv
  OBVIOUS
<1> USE ProxyAssumption DEF Init
<1>1. TypeOK
  <2>1. sfds \in [0 .. 2 -> Fds \cup {NoFd}] /\ cfds \in [Slots -> Fds \cup {NoFd}]
    BY DEF Fds, Slots
  <2>2. kind \in [Fds -> Kinds]
    BY DEF Kinds
  <2>3. cnb \in 0 .. MaxPoll /\ lines \in 0 .. MaxLines /\ ssock \in Fds /\ csock \in Fds
    <3>1. MaxPoll \in Nat /\ MaxLines \in Nat /\ MaxFd \in Nat
      OBVIOUS
    <3> QED
      BY <3>1 DEF Fds
  <2> QED
    BY <2>1, <2>2, <2>3 DEF TypeOK
<1>2. ThreadsInv /\ GoneInv /\ SocketsInv /\ DescriptorsApart /\ NotBothBlocked
  BY DEF ThreadsInv, GoneInv, SocketsInv, DescriptorsApart, NotBothBlocked, SReading
<1>3. TableInv
  BY ServedCounts DEF TableInv, Tty
<1> QED
  BY <1>1, <1>2, <1>3 DEF IInv

LEMMA EndIInv == IInv /\ End => IInv'
<1> SUFFICES ASSUME IInv, End PROVE IInv'
  OBVIOUS
<1> USE DEF IInv, End, sides, csides, world
<1>1. TypeOK'
  <2>1. kind' \in [Fds -> Kinds]
    BY DEF Kinds
  <2> QED
    BY <2>1 DEF TypeOK
<1>2. (ThreadsInv /\ GoneInv /\ SocketsInv /\ DescriptorsApart /\ NotBothBlocked)'
  BY DEF ThreadsInv, GoneInv, SocketsInv, DescriptorsApart, NotBothBlocked, SReading
<1>3. TableInv'
  BY DEF TableInv, Served
<1> QED
  BY <1>1, <1>2, <1>3
-----------------------------------------------------------------------------
(* The thread of the server's side                                         *)

LEMMA SConnectIInv == IInv /\ (\E f \in Fds : SConnect(f)) => IInv'
<1> SUFFICES ASSUME IInv, NEW f \in Fds, SConnect(f) PROVE IInv'
  OBVIOUS
<1> USE DEF IInv, SConnect, csides
<1>1. TypeOK'
  <2>1. kind' \in [Fds -> Kinds]
    BY DEF TypeOK, Kinds
  <2>2. sfds' \in [0 .. 2 -> Fds \cup {NoFd}]
    BY ProxyAssumption DEF Fds, Tty
  <2> QED
    BY <2>1, <2>2 DEF TypeOK
<1>2. (ThreadsInv /\ GoneInv /\ NotBothBlocked)'
  BY DEF ThreadsInv, GoneInv, NotBothBlocked, SReading
<1>3. TableInv'
  BY DEF TableInv, Served
<1>4. (SocketsInv /\ DescriptorsApart)'
  BY DEF SocketsInv, DescriptorsApart, ThreadsInv, TableInv, TypeOK
<1> QED
  BY <1>1, <1>2, <1>3, <1>4

LEMMA SRecvIInv == IInv /\ (\E j \in 2 .. MaxPoll - 1 : SRecv(j)) => IInv'
<1> SUFFICES ASSUME IInv, NEW j \in 2 .. MaxPoll - 1, SRecv(j), ~End PROVE IInv'
  BY EndIInv
<1> USE DEF IInv
<1>1. /\ spc = "poll"
      /\ spc' = (IF sEnd THEN "close" ELSE "poll") \/ (lines > 0 /\ spc' = "stdin")
      /\ UNCHANGED <<cpc, sem, sides, csock, cfds, cnb, kind, server, inbox, lines>>
      /\ sInbox' = FALSE /\ cEnd' \in {TRUE, cEnd}
  BY DEF SRecv, SServed, STurn, csides
<1>2. /\ peer' \in [Conns -> {"none", "pending", "up", "closed", "reset"}]
      /\ Served \subseteq Served'
  BY DEF SRecv, TypeOK, Served
<1> USE <1>1 DEF sides
<1>3. TypeOK'
  BY <1>2 DEF TypeOK
<1>4. (ThreadsInv /\ GoneInv /\ NotBothBlocked)'
  BY DEF ThreadsInv, GoneInv, NotBothBlocked, SReading
<1>5. TableInv'
  BY <1>2, TableStays
<1>6. (SocketsInv /\ DescriptorsApart)'
  BY DEF SocketsInv, DescriptorsApart
<1> QED
  BY <1>3, <1>4, <1>5, <1>6

(* The compression of the server's table of three.                         *)
LEMMA SForgetIInv == IInv /\ SForget => IInv'
<1> SUFFICES ASSUME IInv, SForget PROVE IInv'
  OBVIOUS
<1> USE DEF IInv, SForget, csides, world
<1> DEFINE f    == [sfds EXCEPT ![0] = NoFd]
           n    == Cardinality(Kept(f, 0, 2))
           kept == Compacted(f, 2)
<1>1. f \in [0 .. 2 -> Fds \cup {NoFd}]
  BY DEF TypeOK
<1>2. \A j \in DOMAIN kept : kept[j] \in Fds \cup {NoFd}
  <2> HIDE DEF f
  <2>1. /\ DOMAIN kept = 0 .. n - 1
        /\ \A j \in 0 .. n - 1 : /\ Source(f, 2, j) \in Kept(f, 0, 2)
                                 /\ kept[j] = f[Source(f, 2, j)]
    BY CompactedMoves, 2 \in Nat
  <2> HIDE DEF n, kept
  <2> QED
    BY <1>1, <2>1 DEF Kept
<1>3. TypeOK'
  <2>1. sfds' = [j \in 0 .. 2 |-> IF j \in DOMAIN kept THEN kept[j] ELSE NoFd]
    OBVIOUS
  <2> HIDE DEF f, n, kept
  <2>2. sfds' \in [0 .. 2 -> Fds \cup {NoFd}]
    BY <1>2, <2>1
  <2> QED
    BY <2>2 DEF TypeOK
<1>4. (ThreadsInv /\ GoneInv /\ NotBothBlocked /\ SocketsInv /\ DescriptorsApart)'
  BY DEF ThreadsInv, GoneInv, NotBothBlocked, SReading, SocketsInv, DescriptorsApart
<1>5. TableInv'
  BY TableStays DEF Served
<1> QED
  BY <1>3, <1>4, <1>5

LEMMA ServerThreadIInv == IInv /\ ServerThread => IInv'
<1> SUFFICES ASSUME IInv, ServerThread, ~End PROVE IInv'
  BY EndIInv
<1> USE DEF IInv
<1>1. CASE SLeft
  <2> USE <1>1 DEF SLeft, csides, world
  <2>1. TypeOK'
    <3>1. kind' \in [Fds -> Kinds]
      BY DEF TypeOK, Kinds
    <3> QED
      BY <3>1 DEF TypeOK
  <2>2. (ThreadsInv /\ GoneInv /\ NotBothBlocked /\ SocketsInv /\ DescriptorsApart)'
    BY DEF ThreadsInv, GoneInv, NotBothBlocked, SReading, SocketsInv, DescriptorsApart
  <2>3. TableInv'
    BY TableStays DEF Served
  <2> QED
    BY <2>1, <2>2, <2>3
<1>2. CASE SBroken
  <2> USE <1>2 DEF SBroken, csides, world
  <2>1. TypeOK'
    BY DEF TypeOK
  <2>2. (ThreadsInv /\ GoneInv /\ NotBothBlocked /\ SocketsInv /\ DescriptorsApart)'
    BY DEF ThreadsInv, GoneInv, NotBothBlocked, SReading, SocketsInv, DescriptorsApart
  <2>3. TableInv'
    BY TableStays DEF Served
  <2> QED
    BY <2>1, <2>2, <2>3
<1>3. CASE SLine
  <2> USE <1>3 DEF SLine, sides, csides, world
  <2>1. TypeOK'
    BY DEF TypeOK
  <2>2. (ThreadsInv /\ GoneInv /\ NotBothBlocked /\ SocketsInv /\ DescriptorsApart)'
    BY DEF ThreadsInv, GoneInv, NotBothBlocked, SReading, SocketsInv, DescriptorsApart
  <2>3. TableInv'
    BY TableStays DEF Served
  <2> QED
    BY <2>1, <2>2, <2>3
<1>4. CASE SReadLine
  <2> USE <1>4 DEF SReadLine, SReading, STurn, sides, csides
  <2>1. TypeOK'
    BY ProxyAssumption DEF TypeOK
  <2>2. (ThreadsInv /\ GoneInv /\ NotBothBlocked /\ SocketsInv /\ DescriptorsApart)'
    BY DEF ThreadsInv, GoneInv, NotBothBlocked, SReading, SocketsInv, DescriptorsApart
  <2>3. TableInv'
    BY TableStays DEF Served
  <2> QED
    BY <2>1, <2>2, <2>3
<1>5. CASE SClose
  <2> USE <1>5 DEF SClose, sides, csides, world
  <2>1. TypeOK'
    <3>1. kind' \in [Fds -> Kinds]
      BY DEF TypeOK, Kinds
    <3> QED
      BY <3>1 DEF TypeOK
  <2>2. (ThreadsInv /\ GoneInv /\ NotBothBlocked /\ SocketsInv /\ DescriptorsApart)'
    BY DEF ThreadsInv, GoneInv, NotBothBlocked, SReading, SocketsInv, DescriptorsApart
  <2>3. TableInv'
    BY TableStays DEF Served
  <2> QED
    BY <2>1, <2>2, <2>3
<1>6. CASE STell
  <2> USE <1>6 DEF STell, sides, world
  <2>1. TypeOK'
    BY DEF TypeOK
  <2>2. (ThreadsInv /\ GoneInv /\ NotBothBlocked /\ SocketsInv /\ DescriptorsApart)'
    BY DEF ThreadsInv, GoneInv, NotBothBlocked, SReading, SocketsInv, DescriptorsApart
  <2>3. TableInv'
    BY TableStays DEF Served
  <2> QED
    BY <2>1, <2>2, <2>3
<1> QED
  BY <1>1, <1>2, <1>3, <1>4, <1>5, <1>6, SConnectIInv, SRecvIInv, SForgetIInv
     DEF ServerThread, SConnectFails
-----------------------------------------------------------------------------
(* The thread of the clients' side                                         *)

LEMMA CInitIInv == IInv /\ (\E f \in Fds : CInit(f)) => IInv'
<1> SUFFICES ASSUME IInv, NEW f \in Fds, CInit(f) PROVE IInv'
  OBVIOUS
<1> USE DEF IInv, CInit, sides, world
<1>1. MaxPoll \in Nat /\ MaxFd \in Nat /\ MaxPoll > 2
  BY ServedCounts, ProxyAssumption
<1>2. TypeOK'
  <2>1. kind' \in [Fds -> Kinds]
    BY DEF TypeOK, Kinds
  <2>2. cfds' \in [Slots -> Fds \cup {NoFd}]
    BY <1>1 DEF Fds, Tty
  <2>3. cnb' = 2 /\ 2 \in 0 .. MaxPoll
    BY <1>1
  <2>4. cEnd' = FALSE /\ csock' = f
    OBVIOUS
  <2> QED
    BY <2>1, <2>2, <2>3, <2>4 DEF TypeOK
<1>3. (ThreadsInv /\ GoneInv /\ NotBothBlocked)'
  BY DEF ThreadsInv, GoneInv, NotBothBlocked, SReading
<1>4. TableInv'
  <2>1. Served' = Served
    BY DEF Served
  <2>2. 0 \in Slots /\ 1 \in Slots
    BY <1>1 DEF Slots
  <2> QED
    BY <1>1, <2>1, <2>2, ServedCounts DEF TableInv
<1>5. (SocketsInv /\ DescriptorsApart)'
  BY DEF SocketsInv, DescriptorsApart, TypeOK, LowestFree
<1> QED
  BY <1>2, <1>3, <1>4, <1>5

LEMMA CAcceptIInv == IInv /\ (\E c \in Conns, f \in Fds : CAccept(c, f)) => IInv'
<1> SUFFICES ASSUME IInv, NEW c \in Conns, NEW f \in Fds, CAccept(c, f) PROVE IInv'
  OBVIOUS
<1> USE DEF IInv, CAccept, CTurn, sides
<1>1. /\ MaxPoll \in Nat /\ cnb \in 2 .. MaxPoll - 1
      /\ cnb \in Slots /\ 0 \in Slots /\ 1 \in Slots
  BY NeverFull, ProxyAssumption DEF TypeOK, TableInv, Slots
<1>2. \A k \in Slots : cfds'[k] = IF k = cnb THEN f ELSE cfds[k]
  BY <1>1 DEF TypeOK
<1>3. \A g \in Fds : kind'[g] = IF g = f THEN c ELSE kind[g]
  BY DEF TypeOK
<1>4. TypeOK'
  <2>1. kind' \in [Fds -> Kinds] /\ cfds' \in [Slots -> Fds \cup {NoFd}]
    BY DEF TypeOK, Kinds
  <2>2. peer' \in [Conns -> {"none", "pending", "up", "closed", "reset"}]
    BY DEF TypeOK
  <2>3. cnb' \in 0 .. MaxPoll
    BY <1>1, ProxyAssumption
  <2> QED
    BY <2>1, <2>2, <2>3 DEF TypeOK
<1>5. (ThreadsInv /\ GoneInv /\ NotBothBlocked)'
  BY DEF ThreadsInv, GoneInv, NotBothBlocked, SReading
<1>6. TableInv'
  <2>1. Served' = Served \cup {c} /\ c \notin Served
    BY DEF Served, TypeOK
  <2>2. Cardinality(Served') = Cardinality(Served) + 1
    BY <2>1, ServedCounts, FS_AddElement
  <2> QED
    BY <1>1, <1>2, <2>2, ServedCounts DEF TableInv, Slots
<1>7. (SocketsInv /\ DescriptorsApart)'
  <2> SUFFICES ASSUME spc \in {"poll", "stdin"} PROVE (SocketsInv /\ DescriptorsApart)'
    BY DEF SocketsInv, DescriptorsApart
  <2>1. /\ sfds[0] = ssock /\ ssock \in Fds /\ csock \in Fds
        /\ kind[csock] = "listener" /\ kind[ssock] = "server" /\ kind[f] = "free"
    BY DEF SocketsInv, DescriptorsApart, LowestFree, TypeOK
  <2>2. SocketsInv' /\ kind'[ssock] = "server"
    BY <1>3, <2>1 DEF SocketsInv
  <2>3. \A k \in 2 .. cnb - 1 : cfds[k] \notin {Tty, NoFd} => cfds[k] \in Fds /\ cfds[k] # f /\ kind[cfds[k]] \in Conns
    BY <1>1, <2>1, ProxyAssumption DEF DescriptorsApart, TypeOK, Slots
  <2>4. \A k \in 2 .. cnb - 1 : cfds'[k] = cfds[k]
    BY <1>1, <1>2 DEF Slots
  <2>5. ASSUME NEW i \in 2 .. cnb, NEW k \in 2 .. cnb, cfds'[i] \notin {Tty, NoFd}
        PROVE  kind'[cfds'[i]] \in Conns /\ (cfds'[i] = cfds'[k] => i = k)
    <3>1. CASE i = cnb
      BY <1>1, <1>2, <1>3, <2>3, <2>4, <2>5, <3>1
    <3>2. CASE i \in 2 .. cnb - 1 /\ k = cnb
      BY <1>1, <1>2, <1>3, <2>3, <2>4, <2>5, <3>2
    <3>3. CASE i \in 2 .. cnb - 1 /\ k \in 2 .. cnb - 1
      BY <1>1, <1>3, <2>3, <2>4, <2>5, <3>3 DEF DescriptorsApart
    <3> QED
      BY <1>1, <3>1, <3>2, <3>3
  <2>6. cnb' - 1 = cnb /\ ssock' = ssock
    BY <1>1
  <2> QED
    BY <2>2, <2>5, <2>6 DEF DescriptorsApart
<1> QED
  BY <1>4, <1>5, <1>6, <1>7

(* A client's connection is closed and the table compressed: nothing but   *)
(* clients moves, each to one slot.                                        *)
LEMMA CLeftIInv ==
    IInv /\ (\E j \in Slots, c \in Conns : CLeft(j, c)) => IInv'
<1> SUFFICES ASSUME IInv, NEW j \in Slots, NEW c \in Conns, CLeft(j, c) PROVE IInv'
  OBVIOUS
<1> DEFINE f    == [cfds EXCEPT ![j] = NoFd]
           n    == Cardinality(Kept(f, 0, cnb))
           kept == Compacted(f, cnb)
           From(i) == Source(f, cnb, i)
<1>1. /\ cpc = "poll" /\ cpc' \in {"poll", "close"} /\ TypeOK /\ TableInv
      /\ UNCHANGED <<spc, sem, ssock, sfds, sEnd, csock, cEnd, world>>
      /\ kind' = [kind EXCEPT ![cfds[j]] = "free"]
      /\ cfds' = [k \in Slots |-> IF k \in DOMAIN kept THEN kept[k]
                                  ELSE IF k <= cnb THEN NoFd ELSE cfds[k]]
      /\ cnb' = Cardinality(DOMAIN kept)
  BY DEF IInv, CLeft, CTurn, sides
<1>2. /\ MaxPoll \in Nat /\ cnb \in 2 .. MaxPoll - 1
      /\ cnb \in Slots /\ 0 \in Slots /\ 1 \in Slots
  BY <1>1, NeverFull, ProxyAssumption DEF TypeOK, TableInv, Slots
<1>3. /\ j \in 2 .. cnb - 1 /\ cfds[j] \in Fds /\ kind[cfds[j]] = c
      /\ c \notin {"free", "tty", "server", "listener"}
  <2>1. c \notin {"free", "tty", "server", "listener"}
    BY ProxyAssumption
  <2>2. 2 <= j /\ j < cnb /\ KindOf(cfds[j]) = c
    BY DEF CLeft, InSlot
  <2>3. cfds[j] # NoFd /\ kind[cfds[j]] = c
    BY <2>1, <2>2 DEF KindOf
  <2>4. cfds[j] \in Fds
    BY <1>1, <2>3 DEF TypeOK
  <2>5. j \in 2 .. cnb - 1
    BY <1>2, <2>2 DEF Slots
  <2> QED
    BY <2>1, <2>3, <2>4, <2>5
<1>4. /\ \A k \in Slots : f[k] = IF k = j THEN NoFd ELSE cfds[k]
      /\ \A k \in Slots : f[k] \in Fds \cup {NoFd}
      /\ f[0] = csock /\ f[1] = Tty /\ csock \in Fds /\ Tty \in Fds
      /\ f[0] # NoFd /\ f[1] # NoFd
  BY <1>1, <1>2, <1>3, ProxyAssumption DEF TypeOK, TableInv, Fds, Tty
<1>5. /\ n \in 0 .. cnb + 1 /\ DOMAIN kept = 0 .. n - 1
      /\ \A i \in 0 .. n - 1 :
           /\ From(i) \in Kept(f, 0, cnb) /\ kept[i] = f[From(i)]
           /\ f[i] # NoFd => From(i) = i
      /\ \A i, k \in 0 .. n - 1 : From(i) = From(k) => i = k
      /\ \A p \in Kept(f, 0, cnb) : \E i \in 0 .. n - 1 : From(i) = p
  <2> HIDE DEF f
  <2>1. cnb \in Nat
    BY <1>2
  <2> QED
    BY <2>1, CompactedMoves
<1> HIDE DEF f, n, kept, From
<1>6. n \in 2 .. cnb
  <2>1. n >= 2
    <3>1. 0 \in Kept(f, 0, cnb) /\ 1 \in Kept(f, 0, cnb)
      BY <1>2, <1>4 DEF Kept
    <3> QED
      BY <1>5, <3>1
  <2>2. n # cnb + 1
    <3> SUFFICES ASSUME n = cnb + 1 PROVE FALSE
      OBVIOUS
    <3>1. IsFiniteSet(0 .. cnb) /\ Cardinality(0 .. cnb) = cnb + 1
      BY <1>2, FS_Interval
    <3>2. Kept(f, 0, cnb) \in SUBSET (0 .. cnb) /\ j \in 0 .. cnb /\ j \notin Kept(f, 0, cnb)
      BY <1>2, <1>3, <1>4 DEF Kept
    <3> QED
      BY <3>1, <3>2, FS_Subset DEF n
  <2> QED
    BY <1>2, <1>5, <2>1, <2>2
<1>7. cnb' = n
  <2>1. Cardinality(0 .. n - 1) = n
    BY <1>6, Segment
  <2> QED
    BY <1>1, <1>5, <2>1
<1>8. /\ \A i \in 0 .. n - 1 :
            cfds'[i] = f[From(i)] /\ From(i) \in 0 .. cnb /\ From(i) # j
      /\ \A i \in Slots : i >= n => cfds'[i] \in {NoFd, cfds[i]} /\ (i <= cnb => cfds'[i] = NoFd)
  BY <1>1, <1>2, <1>4, <1>5, <1>6 DEF Slots, Kept
<1>9. From(0) = 0 /\ From(1) = 1
  BY <1>4, <1>5, <1>6
<1>10. \A i \in 2 .. n - 1 : From(i) \in 2 .. cnb
  BY <1>2, <1>5, <1>6, <1>8, <1>9
<1>11. TypeOK'
  <2>1. kind' \in [Fds -> Kinds]
    BY <1>1, <1>3 DEF TypeOK, Kinds
  <2>2. cfds' \in [Slots -> Fds \cup {NoFd}]
    <3>1. \A k \in Slots : cfds'[k] \in Fds \cup {NoFd}
      <4> TAKE k \in Slots
      <4>1. CASE k < n
        BY <1>2, <1>4, <1>6, <1>8, <4>1 DEF Slots
      <4>2. CASE k >= n
        BY <1>1, <1>8, <4>2 DEF TypeOK
      <4> QED
        BY <1>6, <4>1, <4>2 DEF Slots
    <3> QED
      BY <1>1, <3>1
  <2>3. cnb' \in 0 .. MaxPoll
    BY <1>2, <1>6, <1>7
  <2> QED
    BY <1>1, <2>1, <2>2, <2>3 DEF TypeOK, world
<1>12. (ThreadsInv /\ GoneInv /\ NotBothBlocked)'
  BY <1>1 DEF IInv, ThreadsInv, GoneInv, NotBothBlocked, SReading, world
<1>13. TableInv'
  <2>1. Served' = Served
    BY <1>1 DEF Served, world
  <2>2. cnb' <= 2 + Cardinality(Served) /\ cnb' >= 2
    BY <1>1, <1>2, <1>6, <1>7, ServedCounts DEF TableInv
  <2>3. cfds'[0] = csock /\ cfds'[1] = Tty
    BY <1>4, <1>6, <1>8, <1>9
  <2>4. \A k \in Slots : k >= n => cfds'[k] \in {Tty, NoFd}
    BY <1>1, <1>2, <1>6, <1>8 DEF TableInv, Slots
  <2> QED
    BY <1>1, <1>7, <2>1, <2>2, <2>3, <2>4 DEF TableInv
<1>14. (SocketsInv /\ DescriptorsApart)'
  <2> SUFFICES ASSUME spc \in {"poll", "stdin"} PROVE (SocketsInv /\ DescriptorsApart)'
    BY <1>1 DEF SocketsInv, DescriptorsApart
  <2>1. /\ sfds[0] = ssock /\ ssock \in Fds /\ csock \in Fds
        /\ kind[csock] = "listener" /\ kind[ssock] = "server"
        /\ \A i, k \in 2 .. cnb - 1 :
             cfds[i] \notin {Tty, NoFd} =>
                kind[cfds[i]] \in Conns /\ (cfds[i] = cfds[k] => i = k)
    BY <1>1 DEF IInv, SocketsInv, DescriptorsApart, TypeOK
  <2>2. \A g \in Fds : kind'[g] = IF g = cfds[j] THEN "free" ELSE kind[g]
    BY <1>1 DEF TypeOK
  <2>3. SocketsInv' /\ kind'[ssock] = "server"
    BY <1>1, <1>3, <2>1, <2>2 DEF SocketsInv
  <2>4. ASSUME NEW i \in 2 .. n - 1, cfds'[i] \notin {Tty, NoFd}
        PROVE  /\ From(i) \in 2 .. cnb - 1 /\ cfds'[i] = cfds[From(i)]
               /\ cfds'[i] # cfds[j] /\ cfds'[i] \in Fds
    <3>1. From(i) \in 2 .. cnb /\ cfds'[i] = cfds[From(i)] /\ From(i) # j /\ From(i) \in Slots
      BY <1>2, <1>4, <1>6, <1>8, <1>10 DEF Slots
    <3>2. From(i) # cnb
      BY <1>1, <1>2, <2>4, <3>1 DEF TableInv
    <3>3. From(i) \in 2 .. cnb - 1
      BY <1>2, <3>1, <3>2
    <3> QED
      BY <1>1, <1>3, <2>1, <2>4, <3>1, <3>3 DEF TypeOK
  <2>5. ASSUME NEW i \in 2 .. n - 1, NEW k \in 2 .. n - 1, cfds'[i] \notin {Tty, NoFd}
        PROVE  kind'[cfds'[i]] \in Conns /\ (cfds'[i] = cfds'[k] => i = k)
    <3>1. kind'[cfds'[i]] \in Conns
      BY <2>1, <2>2, <2>4, <2>5
    <3>2. ASSUME cfds'[i] = cfds'[k] PROVE i = k
      <4>1. From(i) = From(k)
        BY <2>1, <2>4, <2>5, <3>2
      <4>2. i \in 0 .. n - 1 /\ k \in 0 .. n - 1
        BY <1>6
      <4> QED
        BY <1>5, <4>1, <4>2
    <3> QED
      BY <3>1, <3>2
  <2>6. cnb' - 1 = n - 1 /\ ssock' = ssock
    BY <1>1, <1>7
  <2> QED
    BY <2>3, <2>5, <2>6 DEF DescriptorsApart
<1> QED
  BY <1>11, <1>12, <1>13, <1>14 DEF IInv

(* The client is served by what stands in poll_fds[0] of the other side:   *)
(* while the server is there, by the server.                               *)
LEMMA ServedByServer ==
  ASSUME IInv, cpc = "poll", ~(spc = "ended"), server \in {"none", "up"}
  PROVE  Target = "server"
<1>1. spc \in {"poll", "stdin"}
  BY DEF IInv, TypeOK, ThreadsInv, GoneInv
<1> QED
  BY <1>1, ProxyAssumption
     DEF IInv, SocketsInv, DescriptorsApart, Target, KindOf, TypeOK, Fds

LEMMA CRelayIInv ==
    IInv /\ (\E j \in Slots, c \in Conns : CRelay(j, c)) => IInv'
<1> SUFFICES ASSUME IInv, NEW j \in Slots, NEW c \in Conns, CRelay(j, c), ~End
             PROVE  IInv'
  BY EndIInv
<1> USE DEF IInv
<1>1. /\ cpc = "poll" /\ cpc' = (IF cEnd THEN "close" ELSE "poll")
      /\ inbox' = [inbox EXCEPT ![c] = FALSE]
      /\ UNCHANGED <<spc, sem, ssock, sfds, csides, kind, sInbox, peer, lines>>
  BY DEF CRelay, CTurn, sides
<1>2. /\ server' \in {"none", "up", "closed", "reset"} /\ sEnd' \in BOOLEAN
      /\ server \in {"closed", "reset"} => server' \in {"closed", "reset"}
  BY DEF CRelay, sides, TypeOK
<1>3. sEnd' => server' \in {"closed", "reset"}
  <2>1. CASE sEnd
    BY <1>2, <2>1 DEF GoneInv
  <2>2. CASE ~sEnd /\ sEnd'
    <3>1. spc # "ended" /\ UNCHANGED server
      BY <1>1, <2>2 DEF ThreadsInv, CRelay, sides
    <3>2. Target \in {"free", "tty"} \/ server = "reset"
      BY <2>2 DEF CRelay, sides
    <3>3. server \notin {"none", "up"}
      BY <1>1, <3>1, <3>2, ServedByServer
    <3> QED
      BY <3>1, <3>3 DEF TypeOK
  <2> QED
    BY <2>1, <2>2
<1> USE <1>1 DEF csides
<1>4. TypeOK'
  <2>1. inbox' \in [Conns -> BOOLEAN]
    BY DEF TypeOK
  <2> QED
    BY <1>2, <2>1 DEF TypeOK
<1>5. (ThreadsInv /\ GoneInv /\ NotBothBlocked)'
  <2>1. sEnd' = sEnd \/ sEnd' = TRUE
    BY DEF CRelay, sides
  <2> QED
    BY <1>2, <1>3, <2>1 DEF ThreadsInv, GoneInv, NotBothBlocked, SReading
<1>6. TableInv'
  BY TableStays DEF Served
<1>7. (SocketsInv /\ DescriptorsApart)'
  BY DEF SocketsInv, DescriptorsApart
<1> QED
  BY <1>4, <1>5, <1>6, <1>7

(* The listener and the clients in the table are closed, not the server.   *)
LEMMA CCloseIInv == IInv /\ CClose => IInv'
<1> SUFFICES ASSUME IInv, CClose, ~End PROVE IInv'
  BY EndIInv
<1> USE DEF IInv
<1> DEFINE numbers == {csock} \cup ClientFds
<1>1. /\ cpc = "close" /\ cpc' = "done"
      /\ kind' = [f \in Fds |-> IF f \in numbers THEN "free" ELSE kind[f]]
      /\ UNCHANGED <<spc, sem, sides, csides, world>>
  BY DEF CClose
<1> HIDE DEF numbers
<1> USE <1>1 DEF sides, csides, world
<1>2. TypeOK'
  <2>1. kind' \in [Fds -> Kinds]
    BY DEF TypeOK, Kinds
  <2> QED
    BY <2>1 DEF TypeOK
<1>3. (ThreadsInv /\ GoneInv /\ NotBothBlocked)'
  BY DEF ThreadsInv, GoneInv, NotBothBlocked, SReading
<1>4. TableInv'
  BY TableStays DEF Served
<1>5. (SocketsInv /\ DescriptorsApart)'
  <2> SUFFICES ASSUME spc \in {"poll", "stdin"} PROVE (SocketsInv /\ DescriptorsApart)'
    BY DEF SocketsInv, DescriptorsApart
  <2>1. ssock # csock /\ kind[ssock] = "server" /\ ssock \in Fds
    BY DEF SocketsInv, DescriptorsApart, TypeOK
  <2>2. ssock \notin ClientFds
    BY <2>1, ProxyAssumption DEF ClientFds, DescriptorsApart
  <2>3. kind'[ssock] = "server"
    BY <2>1, <2>2 DEF numbers
  <2> QED
    BY <2>3 DEF SocketsInv, DescriptorsApart
<1> QED
  BY <1>2, <1>3, <1>4, <1>5

LEMMA ClientsThreadIInv == IInv /\ ClientsThread => IInv'
<1> SUFFICES ASSUME IInv, ClientsThread, ~End PROVE IInv'
  BY EndIInv
<1> USE DEF IInv
<1>1. ASSUME NEW j \in Slots, CBroken(j) PROVE IInv'
  <2> USE <1>1 DEF CBroken, sides, world
  <2>1. TypeOK'
    BY DEF TypeOK
  <2>2. (ThreadsInv /\ GoneInv /\ NotBothBlocked /\ SocketsInv /\ DescriptorsApart)'
    BY DEF ThreadsInv, GoneInv, NotBothBlocked, SReading, SocketsInv, DescriptorsApart
  <2>3. TableInv'
    BY TableStays DEF Served
  <2> QED
    BY <2>1, <2>2, <2>3
<1>2. CASE CLine
  <2> USE <1>2 DEF CLine, sides, csides, world
  <2>1. TypeOK'
    BY DEF TypeOK
  <2>2. (ThreadsInv /\ GoneInv /\ SocketsInv /\ DescriptorsApart)'
    BY DEF ThreadsInv, GoneInv, SocketsInv, DescriptorsApart
  <2>3. NotBothBlocked'
    BY DEF NotBothBlocked, SReading
  <2>4. TableInv'
    BY TableStays DEF Served
  <2> QED
    BY <2>1, <2>2, <2>3, <2>4
<1>3. CASE CReadLine
  <2> USE <1>3 DEF CReadLine, CTurn, sides, csides
  <2>1. TypeOK'
    BY ProxyAssumption DEF TypeOK
  <2>2. (ThreadsInv /\ GoneInv /\ NotBothBlocked /\ SocketsInv /\ DescriptorsApart)'
    BY DEF ThreadsInv, GoneInv, NotBothBlocked, SReading, SocketsInv, DescriptorsApart
  <2>3. TableInv'
    BY TableStays DEF Served
  <2> QED
    BY <2>1, <2>2, <2>3
<1> QED
  BY <1>1, <1>2, <1>3, CInitIInv, CAcceptIInv, CLeftIInv, CRelayIInv, CCloseIInv
     DEF ClientsThread, CInitFails

-----------------------------------------------------------------------------
(* main and the environment                                                *)

LEMMA MainIInv == IInv /\ Main => IInv'
<1> SUFFICES ASSUME IInv, CreateClients PROVE IInv'
  BY EndIInv DEF Main, Join
<1> USE DEF IInv, CreateClients, sides, csides, world
<1>1. TypeOK'
  BY DEF TypeOK
<1>2. (ThreadsInv /\ GoneInv /\ NotBothBlocked)'
  BY DEF ThreadsInv, GoneInv, NotBothBlocked, SReading
<1>3. (SocketsInv /\ DescriptorsApart)'
  BY DEF SocketsInv, DescriptorsApart
<1>4. TableInv'
  BY TableStays DEF Served
<1> QED
  BY <1>1, <1>2, <1>3, <1>4

LEMMA EnvironmentIInv == IInv /\ Environment => IInv'
<1> SUFFICES ASSUME IInv, Environment PROVE IInv'
  OBVIOUS
<1> USE DEF IInv
<1>1. UNCHANGED <<threads, sides, csides, kind>>
  BY DEF Environment, ServerSends, ServerLeaves, ClientActs, TypeLine
<1>2. /\ server' \in {"none", "up", "closed", "reset"} /\ sInbox' \in BOOLEAN
      /\ server \in {"closed", "reset"} => server' \in {"closed", "reset"}
      /\ lines' \in 0 .. MaxLines /\ lines' >= lines
  <2>1. lines' \in 0 .. MaxLines /\ lines' >= lines
    <3>1. lines' = lines \/ (lines < MaxLines /\ lines' = lines + 1)
      BY DEF Environment, ServerSends, ServerLeaves, ClientActs, TypeLine
    <3>2. MaxLines \in Nat /\ lines \in 0 .. MaxLines
      BY ProxyAssumption DEF TypeOK
    <3> QED
      BY <3>1, <3>2
  <2>2. sInbox' \in BOOLEAN
    <3>1. sInbox \in BOOLEAN
      BY DEF TypeOK
    <3>2. CASE \E how \in {"closed", "reset"} : ServerLeaves(how)
      BY <3>1, <3>2 DEF ServerLeaves
    <3>3. CASE sInbox' = sInbox \/ sInbox' = TRUE
      BY <3>1, <3>3
    <3> QED
      BY <3>2, <3>3 DEF Environment, ServerSends, ClientActs, TypeLine
  <2>3. /\ server' \in {"none", "up", "closed", "reset"}
        /\ server \in {"closed", "reset"} => server' \in {"closed", "reset"}
    BY DEF Environment, ServerSends, ServerLeaves, ClientActs, TypeLine, TypeOK
  <2> QED
    BY <2>1, <2>2, <2>3
<1>3. /\ peer' \in [Conns -> {"none", "pending", "up", "closed", "reset"}]
      /\ inbox' \in [Conns -> BOOLEAN] /\ Served \subseteq Served'
  <2>1. ASSUME NEW c \in Conns, ClientActs(c)
        PROVE  /\ peer' \in [Conns -> {"none", "pending", "up", "closed", "reset"}]
               /\ inbox' \in [Conns -> BOOLEAN] /\ Served \subseteq Served'
    BY <2>1 DEF ClientActs, TypeOK, Served
  <2>2. CASE UNCHANGED <<peer, inbox>>
    BY <2>2 DEF TypeOK, Served
  <2> QED
    BY <2>1, <2>2 DEF Environment, ServerSends, ServerLeaves, TypeLine
<1> USE <1>1 DEF threads, sides, csides
<1>4. TypeOK'
  BY <1>2, <1>3 DEF TypeOK
<1>5. (ThreadsInv /\ GoneInv)'
  BY <1>2 DEF ThreadsInv, GoneInv
<1>6. NotBothBlocked'
  BY <1>2, ProxyAssumption DEF NotBothBlocked, SReading, TypeOK
<1>7. (SocketsInv /\ DescriptorsApart)'
  BY DEF SocketsInv, DescriptorsApart
<1>8. TableInv'
  BY <1>3, TableStays
<1> QED
  BY <1>4, <1>5, <1>6, <1>7, <1>8

-----------------------------------------------------------------------------
LEMMA StutterIInv == IInv /\ UNCHANGED vars => IInv'
<1> SUFFICES ASSUME IInv, UNCHANGED vars PROVE IInv'
  OBVIOUS
<1> USE DEF IInv, vars, threads, sides, csides, world
<1>1. TypeOK'
  BY DEF TypeOK
<1>2. (ThreadsInv /\ GoneInv /\ NotBothBlocked /\ SocketsInv /\ DescriptorsApart)'
  BY DEF ThreadsInv, GoneInv, NotBothBlocked, SReading, SocketsInv, DescriptorsApart
<1>3. TableInv'
  BY TableStays DEF Served
<1> QED
  BY <1>1, <1>2, <1>3

(* The invariant of the two threads.                                       *)
THEOREM Invariant == Spec => []IInv
<1>1. IInv /\ [Next]_vars => IInv'
  BY ServerThreadIInv, ClientsThreadIInv, MainIInv, EnvironmentIInv, StutterIInv
     DEF Next
<1> QED
  BY InitIInv, <1>1, PTL DEF Spec

(* The variables of both sides keep their types; the table of the clients  *)
(* and the numbers of its descriptors stay in their bounds.                *)
THEOREM TypeCorrect == Spec => []TypeOK
<1>1. IInv => TypeOK
  BY DEF IInv
<1> QED
  BY Invariant, <1>1, PTL

(* The two threads never both wait for a line that is not there.           *)
THEOREM OneThreadRuns == Spec => []NotBothBlocked
<1>1. IInv => NotBothBlocked
  BY DEF IInv
<1> QED
  BY Invariant, <1>1, PTL

(* However many clients come and go, and whichever numbers the system      *)
(* gives their connections, the table of the clients holds each client's   *)
(* descriptor once and never the server's, while the server is served.     *)
THEOREM TablesAreApart == Spec => []DescriptorsApart
<1>1. IInv => DescriptorsApart
  BY DEF IInv
<1> QED
  BY Invariant, <1>1, PTL

-----------------------------------------------------------------------------
(* A client's message is read by CRelay only, which sends it to Target.    *)
RelayedRight ==
    (\E c \in Conns : inbox[c] /\ ~inbox'[c]) /\ server \in {"none", "up"}
        => KindOf(sfds[0]) = "server"

LEMMA RelayedRightStep == IInv /\ [Next]_vars => RelayedRight
<1> SUFFICES ASSUME IInv, [Next]_vars, server \in {"none", "up"},
                    NEW c \in Conns, inbox[c], ~inbox'[c]
             PROVE  Target = "server"
  BY DEF RelayedRight, Target
<1>1. cpc = "poll"
  <2>1. inbox' # inbox
    OBVIOUS
  <2> USE <2>1 DEF world
  <2>2. ~End /\ ~UNCHANGED vars
    BY DEF End, vars
  <2>3. ~ServerThread
    BY <2>2 DEF ServerThread, SConnect, SConnectFails, SRecv, SLeft, SForget,
                SBroken, SLine, SReadLine, SClose, STell
  <2>4. ~Main
    BY <2>2 DEF Main, CreateClients, Join
  <2>5. ~Environment
    <3>1. ~ServerSends /\ ~TypeLine /\ \A how : ~ServerLeaves(how)
      BY DEF ServerSends, TypeLine, ServerLeaves
    <3>2. ASSUME NEW d \in Conns, ClientActs(d) PROVE FALSE
      BY <3>2 DEF ClientActs, IInv, TypeOK
    <3> QED
      BY <3>1, <3>2 DEF Environment
  <2> QED
    BY <2>2, <2>3, <2>4, <2>5
       DEF Next, ClientsThread, CInit, CInitFails, CAccept, CRelay, CLeft,
           CBroken, CLine, CReadLine, CClose
<1> QED
  BY <1>1, ServedByServer DEF IInv, ThreadsInv

(* While the server is there, what a client says is sent to the server,    *)
(* and to nobody who was given its number, or before it is connected.      *)
THEOREM RelayReachesServer == Spec => RelayedToServer
<1>1. IInv /\ [Next]_vars => [RelayedRight]_vars
  BY RelayedRightStep
<1> QED
  BY Invariant, <1>1, PTL DEF Spec, RelayedToServer, RelayedRight
=============================================================================
