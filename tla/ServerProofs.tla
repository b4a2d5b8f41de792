---------------------------- MODULE ServerProofs ----------------------------
(***************************************************************************)
(* The safety of the server, for any set of pseudos and codes, any number  *)
(* of clients and any time-out: sessions, hashmap and stored codes agree.  *)
(***************************************************************************)
EXTENDS Server, TLAPS

IInv == TypeOK /\ IndexMatches /\ SessionHasCode

-----------------------------------------------------------------------------
(* What a handler may take from a message of the proxy.                    *)
LEMMA RequestFields ==
  ASSUME NEW m \in Requests
  PROVE  /\ m.src \in Pseudos /\ m.sock \in Int
         /\ m.type = "connection" => m.body \in Codes
<1>1. ASSUME NEW p \in Pseudos, NEW c \in Codes, NEW s \in ProxySlots,
             m = [ConnectionMsg(p, c) EXCEPT !.sock = s]
      PROVE  m.src = p /\ m.sock = s /\ m.body = c
  BY <1>1 DEF EmptyMsg, ConnectionMsg
<1>2. ASSUME NEW p \in Pseudos, NEW t, NEW r, NEW s \in ProxySlots,
             m = [StdMsg(1, p, t, r) EXCEPT !.sock = s]
      PROVE  m.src = p /\ m.sock = s /\ m.type = "std"
  BY <1>2 DEF EmptyMsg, StdMsg
<1> QED
  BY <1>1, <1>2, ServerAssumption DEF Requests

LEMMA IncomingIsRequest ==
  ASSUME TypeOK, NEW m \in Incoming
  PROVE  m \in Requests /\ Tail(sin) \in Seq(Requests)
BY DEF TypeOK, Incoming

(* Once a bad entry is looked for, there is none.                          *)
LEMMA NothingToClean ==
  ASSUME IInv, NEW p \in Pseudos
  PROVE  Cleaned(p) = index /\ (Found(p) = Null <=> index[p] = -1)
<1>1. index[p] # -1 => index[p] \in CSlots /\ clients[index[p]] # Null
  BY DEF IInv, TypeOK, IndexMatches
<1>2. Found(p) = Null <=> index[p] = -1
  BY <1>1 DEF Found
<1>3. index[p] = -1 => [index EXCEPT ![p] = -1] = index
  BY DEF IInv, TypeOK
<1> QED
  BY <1>2, <1>3 DEF Cleaned

-----------------------------------------------------------------------------
LEMMA InitIInv == Init => IInv
<1> SUFFICES ASSUME Init PROVE IInv
  OBVIOUS
<1> USE ServerAssumption DEF Init
<1>1. TypeOK
  BY DEF TypeOK
<1>2. IndexMatches /\ SessionHasCode
  BY DEF IndexMatches, SessionHasCode
<1> QED
  BY <1>1, <1>2 DEF IInv

(* Steps that touch neither the table nor the hashmap nor the codes.       *)
LEMMA StateUnchanged ==
  ASSUME IInv, UNCHANGED state, now' \in 0 .. MaxTime, sin' \in Seq(Requests)
  PROVE  IInv'
BY DEF IInv, state, TypeOK, IndexMatches, SessionHasCode

(* Steps after which the server remembers nobody.                          *)
LEMMA ForgetIInv ==
  ASSUME IInv, Forget, UNCHANGED now,
         stored' \in [Pseudos -> Codes \cup {NoCode, Blank}]
  PROVE  IInv'
<1>1. TypeOK'
  BY ServerAssumption DEF IInv, TypeOK, Forget
<1>2. IndexMatches' /\ SessionHasCode'
  BY DEF Forget, IndexMatches, SessionHasCode
<1> QED
  BY <1>1, <1>2 DEF IInv

LEMMA TakeOverIInv ==
  ASSUME IInv, NEW m \in Incoming, TakeOver(m)
  PROVE  IInv'
<1> DEFINE k == index[m.src]
<1>1. /\ m \in Requests /\ m.src \in Pseudos /\ m.sock \in Int
      /\ m.body \in Codes /\ sin' \in Seq(Requests)
  BY RequestFields, IncomingIsRequest DEF IInv, TakeOver, Connection, Receive
<1>2. k \in CSlots /\ clients[k] \in ClientRec /\ clients[k].pseudo = m.src
  BY <1>1, NothingToClean, NullAssumption DEF IInv, TypeOK, IndexMatches, TakeOver
<1>3. /\ clients' = [clients EXCEPT ![k] = [pseudo |-> m.src, last |-> now, sock |-> m.sock]]
      /\ stored' = [stored EXCEPT ![m.src] = m.body]
      /\ index' = index /\ now' = now
  BY <1>2 DEF TakeOver, IInv, TypeOK
<1>4. [pseudo |-> m.src, last |-> now, sock |-> m.sock] \in ClientRec
  BY <1>1 DEF ClientRec, IInv, TypeOK
<1>5. TypeOK'
  BY <1>1, <1>2, <1>3, <1>4 DEF IInv, TypeOK
<1>6. IndexMatches'
  BY <1>1, <1>2, <1>3, <1>4, NullAssumption DEF IInv, TypeOK, IndexMatches
<1>7. SessionHasCode'
  <2> SUFFICES ASSUME NEW i \in CSlots, clients'[i] # Null
               PROVE  stored'[clients'[i].pseudo] \in Codes
    BY DEF SessionHasCode
  <2>1. CASE i = k
    BY <2>1, <1>1, <1>2, <1>3 DEF IInv, TypeOK
  <2>2. CASE i # k
    <3>1. clients'[i] = clients[i] /\ clients[i] # Null
      BY <2>2, <1>2, <1>3 DEF IInv, TypeOK
    <3>2. clients[i].pseudo \in Pseudos
      BY <3>1 DEF IInv, TypeOK, ClientRec
    <3> QED
      BY <3>1, <3>2, <1>1, <1>3 DEF IInv, TypeOK, SessionHasCode
  <2> QED
    BY <2>1, <2>2
<1> QED
  BY <1>5, <1>6, <1>7 DEF IInv

LEMMA RegisterIInv ==
  ASSUME IInv, NEW m \in Incoming, NEW i \in CSlots, Register(m, i)
  PROVE  IInv'
<1> DEFINE c == [pseudo |-> m.src, last |-> now, sock |-> m.sock]
<1>1. /\ m \in Requests /\ m.src \in Pseudos /\ m.sock \in Int
      /\ m.body \in Codes /\ sin' \in Seq(Requests)
  BY RequestFields, IncomingIsRequest DEF IInv, Register, Connection, Receive
<1>2. clients[i] = Null /\ index[m.src] = -1
  BY <1>1, NothingToClean DEF Register, FreeSlots
<1>3. /\ clients' = [clients EXCEPT ![i] = c]
      /\ index' = [index EXCEPT ![m.src] = i]
      /\ stored' = [stored EXCEPT ![m.src] = m.body]
      /\ now' = now
  BY DEF Register
<1>4. c \in ClientRec /\ c # Null
  BY <1>1, NullAssumption DEF ClientRec, IInv, TypeOK
<1> HIDE DEF c
<1>5. c.pseudo = m.src
  BY DEF c
<1>6. TypeOK'
  BY <1>1, <1>3, <1>4 DEF IInv, TypeOK
<1>7. IndexMatches'
  <2>1. ASSUME NEW p \in Pseudos, index'[p] # -1
        PROVE  clients'[index'[p]] # Null /\ clients'[index'[p]].pseudo = p
    <3>1. CASE p = m.src
      BY <3>1, <1>1, <1>3, <1>4, <1>5 DEF IInv, TypeOK
    <3>2. CASE p # m.src
      <4>1. index'[p] = index[p] /\ index[p] \in CSlots
        BY <3>2, <2>1, <1>1, <1>3 DEF IInv, TypeOK
      <4>2. clients[index[p]] # Null /\ clients[index[p]].pseudo = p
        BY <4>1, <2>1 DEF IInv, IndexMatches
      <4> QED
        BY <4>1, <4>2, <1>2, <1>3 DEF IInv, TypeOK
    <3> QED
      BY <3>1, <3>2
  <2>2. ASSUME NEW j \in CSlots, clients'[j] # Null
        PROVE  index'[clients'[j].pseudo] = j
    <3>1. CASE j = i
      BY <3>1, <1>1, <1>3, <1>5 DEF IInv, TypeOK
    <3>2. CASE j # i
      <4>1. clients'[j] = clients[j] /\ clients[j] # Null
        BY <3>2, <2>2, <1>3 DEF IInv, TypeOK
      <4>2. index[clients[j].pseudo] = j /\ clients[j].pseudo \in Pseudos
        BY <4>1 DEF IInv, TypeOK, IndexMatches, ClientRec
      <4> QED
        BY <4>1, <4>2, <1>2, <1>3 DEF IInv, TypeOK, CSlots
    <3> QED
      BY <3>1, <3>2
  <2> QED
    BY <2>1, <2>2 DEF IndexMatches
<1>8. SessionHasCode'
  <2> SUFFICES ASSUME NEW j \in CSlots, clients'[j] # Null
               PROVE  stored'[clients'[j].pseudo] \in Codes
    BY DEF SessionHasCode
  <2>1. CASE j = i
    BY <2>1, <1>1, <1>3, <1>5 DEF IInv, TypeOK
  <2>2. CASE j # i
    <3>1. clients'[j] = clients[j] /\ clients[j] # Null
      BY <2>2, <1>3 DEF IInv, TypeOK
    <3>2. clients[j].pseudo \in Pseudos
      BY <3>1 DEF IInv, TypeOK, ClientRec
    <3> QED
      BY <3>1, <3>2, <1>1, <1>3 DEF IInv, TypeOK, SessionHasCode
  <2> QED
    BY <2>1, <2>2
<1> QED
  BY <1>6, <1>7, <1>8 DEF IInv

-----------------------------------------------------------------------------
LEMMA OnMsgReceivedIInv ==
  ASSUME IInv, NEW m \in Incoming, OnMsgReceived(m)
  PROVE  IInv'
<1>1. m \in Requests /\ m.src \in Pseudos /\ Tail(sin) \in Seq(Requests)
  BY IncomingIsRequest, RequestFields DEF IInv
<1>2. now \in 0 .. MaxTime
  BY DEF IInv, TypeOK
<1>3. CASE IgnoreShort(m)
  BY <1>1, <1>2, <1>3, StateUnchanged DEF IgnoreShort, Receive
<1>4. CASE Refuse(m) \/ Deliver(m) \/ AskAgain(m)
  <2>1. Cleaned(m.src) = index
    BY <1>1, NothingToClean
  <2> QED
    BY <1>1, <1>2, <1>4, <2>1, StateUnchanged
       DEF Refuse, Deliver, AskAgain, Connection, Std, Receive, state
<1>5. CASE TakeOver(m)
  BY <1>5, TakeOverIInv
<1>6. CASE \E i \in CSlots : Register(m, i)
  BY <1>6, RegisterIInv
<1> QED
  BY <1>3, <1>4, <1>5, <1>6 DEF OnMsgReceived

LEMMA StepIInv ==
  ASSUME IInv, Step
  PROVE  IInv'
<1>1. CASE \E m \in Incoming : OnMsgReceived(m)
  BY <1>1, OnMsgReceivedIInv
<1>2. ASSUME NEW m \in Incoming, CrashStoring(m)
      PROVE  IInv'
  BY <1>2, ForgetIInv DEF CrashStoring, IInv, TypeOK
<1>3. CASE Crash
  BY <1>3, ForgetIInv DEF Crash, IInv, TypeOK
<1>4. CASE Tick
  <2>1. now' \in 0 .. MaxTime /\ sin' \in Seq(Requests)
    BY <1>4, ServerAssumption DEF Tick, IInv, TypeOK
  <2> QED
    BY <1>4, <2>1, StateUnchanged DEF Tick
<1> QED
  BY <1>1, <1>2, <1>3, <1>4 DEF Step

LEMMA RequestIInv ==
  ASSUME IInv, NEW m \in Requests, Request(m)
  PROVE  IInv'
<1>1. sin' \in Seq(Requests) /\ now' \in 0 .. MaxTime
  BY DEF Request, IInv, TypeOK
<1> QED
  BY <1>1, StateUnchanged DEF Request

LEMMA StutterIInv ==
  ASSUME IInv, UNCHANGED vars
  PROVE  IInv'
BY StateUnchanged DEF vars, IInv, TypeOK

(* The invariant of the server, which is inductive.                        *)
THEOREM Invariant == Spec => []IInv
<1>1. Init => IInv
  BY InitIInv
<1>2. IInv /\ [Next]_vars => IInv'
  BY StepIInv, RequestIInv, StutterIInv DEF Next
<1> QED
  BY <1>1, <1>2, PTL DEF Spec

-----------------------------------------------------------------------------
(* Table, hashmap, codes and queue keep their types.                       *)
THEOREM TypeCorrect == Spec => []TypeOK
<1>1. IInv => TypeOK
  BY DEF IInv
<1> QED
  BY <1>1, Invariant, PTL

(* Hashmap and table describe the same sessions, one per pseudo, so the    *)
(* branches of on_msg_received that clean a bad entry are dead.            *)
THEOREM SessionsIndexed == Spec => []IndexMatches
<1>1. IInv => IndexMatches
  BY DEF IInv
<1> QED
  BY <1>1, Invariant, PTL

(* Every session has a code on disk, whenever the server crashed.          *)
THEOREM SessionsHaveCodes == Spec => []SessionHasCode
<1>1. IInv => SessionHasCode
  BY DEF IInv
<1> QED
  BY <1>1, Invariant, PTL

(* No code of a pseudo is ever replaced by another one, and only its own   *)
(* holder's request, cut by a crash, leaves the file empty.                *)
THEOREM CodesKept == Spec => CodeIsForever
<1> DEFINE Spent(p) == /\ stored'[p] = Blank
                       /\ \E m \in Incoming : /\ m.src = p /\ m.type = "connection"
                                              /\ m.body = stored[p]
           A == \A p \in Pseudos : stored[p] # NoCode =>
                  \/ stored'[p] = stored[p]
                  \/ /\ stored'[p] = Blank
                     /\ \E m \in Incoming : /\ m.src = p /\ m.type = "connection"
                                            /\ m.body = stored[p]
<1>1. IInv /\ [Next]_vars => [A]_vars
  <2> SUFFICES ASSUME IInv, Next PROVE A
    OBVIOUS
  <2> SUFFICES ASSUME NEW p \in Pseudos, stored[p] # NoCode
               PROVE  stored'[p] = stored[p] \/ Spent(p)
    OBVIOUS
  <2>1. CASE UNCHANGED stored
    BY <2>1
  <2>2. ASSUME NEW m \in Incoming, TakeOver(m) \/ \E i \in CSlots : Register(m, i)
        PROVE  stored'[p] = stored[p]
    <3>1. stored' = [stored EXCEPT ![m.src] = m.body] /\ ~Refused(m)
      BY <2>2 DEF TakeOver, Register
    <3>2. stored[m.src] \in {NoCode, m.body}
      BY <3>1 DEF Refused, KeyAccepted
    <3> QED
      BY <3>1, <3>2 DEF IInv, TypeOK
  <2>3. ASSUME NEW m \in Incoming, CrashStoring(m)
        PROVE  stored'[p] = stored[p] \/ Spent(p)
    <3>1. stored' = [stored EXCEPT ![m.src] = Blank] /\ m.type = "connection"
      BY <2>3 DEF CrashStoring
    <3>2. stored[m.src] \in {NoCode, m.body}
      BY <2>3 DEF CrashStoring, Refused, KeyAccepted
    <3>3. CASE p = m.src
      <4>1. stored'[p] = Blank /\ m.body = stored[p]
        BY <3>1, <3>2, <3>3 DEF IInv, TypeOK
      <4> QED
        BY <3>1, <3>3, <4>1
    <3>4. CASE p # m.src
      BY <3>1, <3>4 DEF IInv, TypeOK
    <3> QED
      BY <3>3, <3>4
  <2>4. CASE \E m \in Incoming : IgnoreShort(m) \/ Refuse(m) \/ Deliver(m) \/ AskAgain(m)
    BY <2>4, <2>1 DEF IgnoreShort, Refuse, Deliver, AskAgain, state
  <2>5. CASE Crash \/ Tick \/ \E m \in Requests : Request(m)
    BY <2>5, <2>1 DEF Crash, Tick, Request, state
  <2> HIDE DEF Spent
  <2> QED
    BY <2>2, <2>3, <2>4, <2>5 DEF Next, Step, OnMsgReceived
<1> QED
  BY <1>1, Invariant, PTL DEF Spec, CodeIsForever

(* A session is taken over only under its pseudo and after the time-out.   *)
THEOREM SessionsKept == Spec => SessionKeptUntilTimeout
<1> DEFINE A == \A i \in CSlots :
                  clients[i] # Null /\ clients'[i] # Null /\ clients'[i] # clients[i]
                    => /\ clients'[i].pseudo = clients[i].pseudo
                       /\ now - clients[i].last >= Timeout
<1>1. IInv /\ [Next]_vars => [A]_vars
  <2> SUFFICES ASSUME IInv, Next PROVE A
    OBVIOUS
  <2> SUFFICES ASSUME NEW i \in CSlots,
                      clients[i] # Null, clients'[i] # Null, clients'[i] # clients[i]
               PROVE  /\ clients'[i].pseudo = clients[i].pseudo
                      /\ now - clients[i].last >= Timeout
    OBVIOUS
  <2>1. ASSUME NEW m \in Incoming, TakeOver(m)
        PROVE  /\ clients'[i].pseudo = clients[i].pseudo
               /\ now - clients[i].last >= Timeout
    <3>1. m.src \in Pseudos
      BY RequestFields, IncomingIsRequest DEF IInv
    <3>2. i = index[m.src] /\ Found(m.src) = clients[i] /\ clients[i] \in ClientRec
      BY <2>1, <3>1, NothingToClean DEF TakeOver, Found, IInv, TypeOK
    <3>3. stored[m.src] # NoCode
      <4>1. clients[i].pseudo = m.src
        BY <3>1, <3>2, NothingToClean DEF IInv, IndexMatches
      <4> QED
        BY <4>1, <3>2, ServerAssumption DEF IInv, SessionHasCode
    <3>4. ~(now - clients[i].last < Timeout)
      BY <2>1, <3>2, <3>3 DEF TakeOver, Refused, StillActive
    <3>5. now \in Int /\ clients[i].last \in Int /\ Timeout \in Int
      BY <3>2, ServerAssumption DEF IInv, TypeOK, ClientRec
    <3>6. clients'[i].pseudo = clients[i].pseudo
      BY <2>1, <3>2 DEF TakeOver, IInv, TypeOK, ClientRec
    <3> QED
      BY <3>4, <3>5, <3>6
  <2>2. ASSUME NEW m \in Incoming, NEW j \in CSlots, Register(m, j)
        PROVE  FALSE
    BY <2>2 DEF Register, FreeSlots, IInv, TypeOK
  <2>3. ~UNCHANGED clients /\ ~Forget
    BY DEF Forget
  <2>4. ~\E m \in Incoming : \/ IgnoreShort(m) \/ Refuse(m) \/ Deliver(m)
                             \/ AskAgain(m) \/ CrashStoring(m)
    BY <2>3 DEF IgnoreShort, Refuse, Deliver, AskAgain, CrashStoring, state
  <2>5. ~(Crash \/ Tick \/ \E m \in Requests : Request(m))
    BY <2>3 DEF Crash, Tick, Request, state
  <2> QED
    BY <2>1, <2>2, <2>4, <2>5 DEF Next, Step, OnMsgReceived
<1> QED
  BY <1>1, Invariant, PTL DEF Spec, SessionKeptUntilTimeout
=============================================================================
