------------------------ MODULE TcpConnectionProofs ------------------------
(***************************************************************************)
(* The safety of the event loop, for a table of any size, any number of    *)
(* clients and any bound: the inductive invariant of TcpConnection and     *)
(* what follows from it.                                                   *)
(***************************************************************************)
EXTENDS TcpConnection, DataProofs

(* While the slots are walked over, the slots still to visit are among     *)
(* those that were polled, which are still in the table.                   *)
WalkInv ==
    pc \in Walking \cup {"spin"} =>
        /\ current \in 2 .. nb /\ current < MaxPoll
        /\ \A j \in todo : j < current
        /\ pc \in {"accept", "read", "stdin"} => slot < current

(* need_compress_poll_arr is exactly "there is a hole".                    *)
HoleInv ==
    /\ needCompress =>
        /\ pc \in Walking \cup {"spin"}
        /\ \E j \in Slots : j < current /\ fds[j] = NoFd
    /\ ~needCompress /\ pc \in Walking \cup {"poll"} =>
        \A j \in Slots : j < nb => fds[j] # NoFd

(* The two indices of the compression: no hole below the first, nothing    *)
(* after the second, and the second moves below current_nb_poll_socks      *)
(* before the loop ends, because a hole was there to be filled.            *)
CompressInv ==
    pc \in Compressing =>
        /\ current \in 2 .. MaxPoll - 1
        /\ lastOk \in 1 .. current
        /\ \A j \in Slots : j < hole => fds[j] # NoFd
        /\ \A j \in Slots : lastOk < j /\ j <= current => fds[j] = NoFd
        /\ pc = "fill" => fds[lastOk] # NoFd
        /\ lastOk = current =>
             \/ pc = "trim" /\ fds[lastOk] = NoFd
             \/ \E j \in Slots : hole <= j /\ j < current /\ fds[j] = NoFd

TableInBounds == pc # "spin" => nb \in 2 .. MaxPoll - 1

IInv ==
    /\ TypeOK
    /\ FixedSlots /\ OneSlotPerSocket /\ SlotsAreOpen
    /\ TableInBounds /\ WalkInv /\ HoleInv /\ CompressInv

-----------------------------------------------------------------------------
LEMMA InitIInv == Init => IInv
<1> SUFFICES ASSUME Init PROVE IInv
  OBVIOUS
<1> USE SizeAssumption, FdAssumption DEF Init
<1>1. TypeOK
  <2>1. fds \in [Slots -> Fds]
    BY DEF Slots, Fds
  <2>2. /\ sk \in [Socks -> {"free", "open"}]
        /\ inbox \in [Socks -> 0 .. MaxInbox]
        /\ peer \in [Socks -> {"up", "closed", "reset"}]
    OBVIOUS
  <2>3. /\ nb \in 0 .. MaxPoll /\ current \in 0 .. MaxPoll
        /\ slot \in Slots /\ lastOk \in Slots /\ hole \in 0 .. MaxPoll
        /\ backlog \in 0 .. MaxBacklog /\ lines \in 0 .. MaxLines
    BY DEF Slots
  <2>4. todo \subseteq Slots /\ bad \subseteq todo
    OBVIOUS
  <2> QED
    BY <2>1, <2>2, <2>3, <2>4 DEF TypeOK
<1>2. FixedSlots /\ OneSlotPerSocket /\ SlotsAreOpen
  BY DEF FixedSlots, OneSlotPerSocket, SlotsAreOpen, Slots
<1>3. TableInBounds /\ WalkInv /\ HoleInv /\ CompressInv
  BY DEF TableInBounds, WalkInv, HoleInv, CompressInv, Walking, Compressing, Slots
<1> QED
  BY <1>1, <1>2, <1>3 DEF IInv
-----------------------------------------------------------------------------
(* A step of the environment leaves the table and the thread where they    *)
(* are, and opens or closes no socket.                                     *)
LEMMA EnvironmentIInv == IInv /\ Environment => IInv'
<1> SUFFICES ASSUME IInv, Environment PROVE IInv'
  OBVIOUS
<1> USE SizeAssumption, FdAssumption
<1> DEFINE EnvTypes == /\ endConn \in BOOLEAN
                       /\ inbox \in [Socks -> 0 .. MaxInbox]
                       /\ peer \in [Socks -> {"up", "closed", "reset"}]
                       /\ backlog \in 0 .. MaxBacklog
                       /\ lines \in 0 .. MaxLines
                       /\ stdin \in {"up", "eof", "hup"}
<1>1. UNCHANGED <<pc, fds, nb, current, todo, bad, slot, needCompress, lastOk,
                  hole, sk>>
  BY DEF Environment, Connect, PeerSend, PeerLeave, TypeLine, StdinCloses,
         EndRequested, con, scan, compact, kernel, input
<1>2. EnvTypes'
  <2> USE DEF IInv, TypeOK, con, scan, compact, kernel, input
  <2>1. CASE Connect
    BY <2>1 DEF Connect
  <2>2. ASSUME NEW s \in Socks,
               PeerSend(s) \/ \E how \in {"closed", "reset"} : PeerLeave(s, how)
        PROVE  EnvTypes'
    BY <2>2 DEF PeerSend, PeerLeave
  <2>3. CASE TypeLine
    BY <2>3 DEF TypeLine
  <2>4. CASE (\E how \in {"eof", "hup"} : StdinCloses(how)) \/ EndRequested
    BY <2>4 DEF StdinCloses, EndRequested
  <2> QED
    BY <2>1, <2>2, <2>3, <2>4 DEF Environment
<1>3. TypeOK'
  BY <1>1, <1>2 DEF IInv, TypeOK
<1>4. (FixedSlots /\ OneSlotPerSocket /\ SlotsAreOpen /\ TableInBounds)'
  BY <1>1 DEF IInv, FixedSlots, OneSlotPerSocket, SlotsAreOpen, TableInBounds
<1>5. WalkInv'
  BY <1>1 DEF IInv, WalkInv
<1>6. HoleInv'
  BY <1>1 DEF IInv, HoleInv
<1>7. CompressInv'
  BY <1>1 DEF IInv, CompressInv
<1> QED
  BY <1>3, <1>4, <1>5, <1>6, <1>7 DEF IInv

LEMMA LoopIInv == IInv /\ Loop => IInv'
<1> SUFFICES ASSUME IInv, Loop PROVE IInv'
  OBVIOUS
<1> USE SizeAssumption, FdAssumption DEF IInv
<1>1. ASSUME Poll PROVE IInv'
  <2> USE <1>1 DEF Poll, con, scan, compact, kernel, input
  <2>1. /\ todo' \subseteq {j \in Slots : j < nb}
        /\ bad' \subseteq todo'
    BY DEF Marked
  <2>2. TypeOK'
    BY <2>1 DEF TypeOK, Slots
  <2>3. (FixedSlots /\ OneSlotPerSocket /\ SlotsAreOpen)'
    BY DEF FixedSlots, OneSlotPerSocket, SlotsAreOpen
  <2>4. TableInBounds'
    BY DEF TableInBounds
  <2>5. WalkInv'
    <3>1. nb \in 2 .. MaxPoll - 1
      BY DEF TableInBounds
    <3>2. \A j \in todo' : j < current'
      BY <2>1
    <3> QED
      BY <3>1, <3>2 DEF WalkInv
  <2>6. (HoleInv /\ CompressInv)'
    BY DEF TypeOK, HoleInv, CompressInv, Walking, Compressing
  <2> QED
    BY <2>2, <2>3, <2>4, <2>5, <2>6
<1>2. ASSUME NEW i \in Slots, VisitError(i) PROVE IInv'
  <2> USE <1>2 DEF VisitError, con, scan, compact, kernel, input
  <2>1. TypeOK'
    BY DEF TypeOK, Slots, Fds
  <2>2. (FixedSlots /\ OneSlotPerSocket /\ SlotsAreOpen)'
    BY DEF TypeOK, FixedSlots, OneSlotPerSocket, SlotsAreOpen, Slots
  <2>3. (TableInBounds /\ WalkInv /\ HoleInv /\ CompressInv)'
    BY DEF TypeOK, FixedSlots, TableInBounds, WalkInv, HoleInv, CompressInv,
           Walking, Compressing, Slots
  <2> QED
    BY <2>1, <2>2, <2>3
<1>3. ASSUME NEW i \in Slots, Visit(i) PROVE IInv'
  <2> USE <1>3 DEF Visit, con, scan, compact, kernel, input
  <2>1. TypeOK'
    BY DEF TypeOK, Slots, Fds
  <2>2. (FixedSlots /\ OneSlotPerSocket /\ SlotsAreOpen)'
    BY DEF TypeOK, FixedSlots, OneSlotPerSocket, SlotsAreOpen, Slots
  <2>3. (TableInBounds /\ WalkInv)'
    BY DEF TypeOK, TableInBounds, WalkInv, Walking, IsNext
  <2>4. (HoleInv /\ CompressInv)'
    BY DEF TypeOK, HoleInv, CompressInv, Walking, Compressing
  <2> QED
    BY <2>1, <2>2, <2>3, <2>4
<1>4. ASSUME ScanEnd PROVE IInv'
  <2> USE <1>4 DEF ScanEnd, con, scan, compact, kernel, input
  <2>1. current \in 2 .. MaxPoll - 1 /\ current <= nb
    BY DEF TypeOK, WalkInv, Walking
  <2>2. TypeOK'
    <3>1. /\ lastOk' \in Slots /\ hole' \in 0 .. MaxPoll
          /\ current' \in 0 .. MaxPoll /\ slot' \in Slots
      BY <2>1 DEF TypeOK, Slots
    <3>2. pc' \in {"trim", "exit", "poll"} /\ needCompress' = FALSE
      OBVIOUS
    <3> QED
      BY <3>1, <3>2 DEF TypeOK
  <2>3. (FixedSlots /\ OneSlotPerSocket /\ SlotsAreOpen)'
    BY DEF FixedSlots, OneSlotPerSocket, SlotsAreOpen
  <2>4. (TableInBounds /\ WalkInv /\ HoleInv)'
    BY DEF TypeOK, TableInBounds, WalkInv, HoleInv, Walking
  <2>5. CompressInv'
    <3>1. CASE needCompress
      <4>1. PICK j \in Slots : j < current /\ fds[j] = NoFd
        BY <3>1 DEF HoleInv
      <4>2. hole' = 0 /\ lastOk' = current /\ current' = current /\ pc' = "trim"
        BY <3>1
      <4> QED
        BY <2>1, <4>1, <4>2 DEF TypeOK, CompressInv, Slots
    <3>2. CASE ~needCompress
      BY <3>2 DEF CompressInv, Compressing
    <3> QED
      BY <3>1, <3>2
  <2> QED
    BY <2>2, <2>3, <2>4, <2>5
<1>5. ASSUME Close PROVE IInv'
  <2> USE <1>5 DEF Close, con, scan, compact, kernel, input
  <2>1. TypeOK'
    BY DEF TypeOK, Slots, Fds
  <2>2. (FixedSlots /\ OneSlotPerSocket /\ SlotsAreOpen)'
    BY DEF TypeOK, FixedSlots, OneSlotPerSocket, SlotsAreOpen, Slots
  <2>3. (TableInBounds /\ WalkInv /\ HoleInv /\ CompressInv)'
    BY DEF TypeOK, FixedSlots, TableInBounds, WalkInv, HoleInv, CompressInv,
           Walking, Compressing, Slots
  <2> QED
    BY <2>1, <2>2, <2>3
<1>6. ASSUME NEW s \in Socks, AcceptNew(s) PROVE IInv'
  <2> USE <1>6 DEF AcceptNew, con, scan, compact, kernel, input
  <2>1. TypeOK'
    BY DEF TypeOK, Slots, Fds
  <2>2. nb \in Slots /\ nb > 1
    BY DEF TypeOK, TableInBounds, Slots
  <2>3. (FixedSlots /\ OneSlotPerSocket /\ SlotsAreOpen)'
    <3>1. \A j \in Slots : fds[j] # s
      BY DEF SlotsAreOpen
    <3>2. \A j \in Slots : fds'[j] = IF j = nb THEN s ELSE fds[j]
      BY <2>2 DEF TypeOK
    <3>3. FixedSlots'
      BY <2>2, <3>2 DEF FixedSlots, Slots
    <3>4. OneSlotPerSocket'
      BY <3>1, <3>2 DEF OneSlotPerSocket
    <3>5. SlotsAreOpen'
      BY <3>2 DEF SlotsAreOpen, TypeOK
    <3> QED
      BY <3>3, <3>4, <3>5
  <2>4. (TableInBounds /\ WalkInv /\ HoleInv /\ CompressInv)'
    BY DEF TypeOK, FixedSlots, TableInBounds, WalkInv, HoleInv, CompressInv,
           Walking, Compressing, Slots
  <2> QED
    BY <2>1, <2>3, <2>4
<1>7. ASSUME AcceptNone PROVE IInv'
  <2> USE <1>7 DEF AcceptNone, con, scan, compact, kernel, input
  <2>1. TypeOK'
    BY DEF TypeOK, Slots, Fds
  <2>2. (FixedSlots /\ OneSlotPerSocket /\ SlotsAreOpen)'
    BY DEF TypeOK, FixedSlots, OneSlotPerSocket, SlotsAreOpen, Slots
  <2>3. (TableInBounds /\ WalkInv /\ HoleInv /\ CompressInv)'
    BY DEF TypeOK, FixedSlots, TableInBounds, WalkInv, HoleInv, CompressInv,
           Walking, Compressing, Slots
  <2> QED
    BY <2>1, <2>2, <2>3
<1>8. ASSUME AcceptFails PROVE IInv'
  <2> USE <1>8 DEF AcceptFails, con, scan, compact, kernel, input
  <2>1. TypeOK'
    BY DEF TypeOK, Slots, Fds
  <2>2. (FixedSlots /\ OneSlotPerSocket /\ SlotsAreOpen)'
    BY DEF TypeOK, FixedSlots, OneSlotPerSocket, SlotsAreOpen, Slots
  <2>3. (TableInBounds /\ WalkInv /\ HoleInv /\ CompressInv)'
    BY DEF TypeOK, FixedSlots, TableInBounds, WalkInv, HoleInv, CompressInv,
           Walking, Compressing, Slots
  <2> QED
    BY <2>1, <2>2, <2>3
<1>9. ASSUME NEW s \in Socks, ReadMsg(s) PROVE IInv'
  <2> USE <1>9 DEF ReadMsg, con, scan, compact, kernel, input
  <2>1. TypeOK'
    BY DEF TypeOK, Slots, Fds
  <2>2. (FixedSlots /\ OneSlotPerSocket /\ SlotsAreOpen)'
    BY DEF TypeOK, FixedSlots, OneSlotPerSocket, SlotsAreOpen, Slots
  <2>3. (TableInBounds /\ WalkInv /\ HoleInv /\ CompressInv)'
    BY DEF TypeOK, FixedSlots, TableInBounds, WalkInv, HoleInv, CompressInv,
           Walking, Compressing, Slots
  <2> QED
    BY <2>1, <2>2, <2>3
<1>10. ASSUME NEW s \in Socks, ReadNothing(s) PROVE IInv'
  <2> USE <1>10 DEF ReadNothing, con, scan, compact, kernel, input
  <2>1. TypeOK'
    BY DEF TypeOK, Slots, Fds
  <2>2. (FixedSlots /\ OneSlotPerSocket /\ SlotsAreOpen)'
    BY DEF TypeOK, FixedSlots, OneSlotPerSocket, SlotsAreOpen, Slots
  <2>3. (TableInBounds /\ WalkInv /\ HoleInv /\ CompressInv)'
    BY DEF TypeOK, FixedSlots, TableInBounds, WalkInv, HoleInv, CompressInv,
           Walking, Compressing, Slots
  <2> QED
    BY <2>1, <2>2, <2>3
<1>11. ASSUME NEW s \in Socks, ReadClosed(s) PROVE IInv'
  <2> USE <1>11 DEF ReadClosed, con, scan, compact, kernel, input
  <2>1. TypeOK'
    BY DEF TypeOK, Slots, Fds
  <2>2. (FixedSlots /\ OneSlotPerSocket /\ SlotsAreOpen)'
    BY DEF TypeOK, FixedSlots, OneSlotPerSocket, SlotsAreOpen, Slots
  <2>3. (TableInBounds /\ WalkInv /\ HoleInv /\ CompressInv)'
    BY DEF TypeOK, FixedSlots, TableInBounds, WalkInv, HoleInv, CompressInv,
           Walking, Compressing, Slots
  <2> QED
    BY <2>1, <2>2, <2>3
<1>12. ASSUME ReadLine PROVE IInv'
  <2> USE <1>12 DEF ReadLine, con, scan, compact, kernel, input
  <2>1. TypeOK'
    <3>1. endConn' \in BOOLEAN
      BY DEF TypeOK
    <3> QED
      BY <3>1 DEF TypeOK
  <2>2. (FixedSlots /\ OneSlotPerSocket /\ SlotsAreOpen)'
    BY DEF TypeOK, FixedSlots, OneSlotPerSocket, SlotsAreOpen, Slots
  <2>3. (TableInBounds /\ WalkInv /\ HoleInv /\ CompressInv)'
    BY DEF TypeOK, FixedSlots, TableInBounds, WalkInv, HoleInv, CompressInv,
           Walking, Compressing, Slots
  <2> QED
    BY <2>1, <2>2, <2>3
<1>13. ASSUME ReadEof PROVE IInv'
  <2> USE <1>13 DEF ReadEof, con, scan, compact, kernel, input
  <2>1. TypeOK'
    BY DEF TypeOK, Slots, Fds
  <2>2. (FixedSlots /\ OneSlotPerSocket /\ SlotsAreOpen)'
    BY DEF TypeOK, FixedSlots, OneSlotPerSocket, SlotsAreOpen, Slots
  <2>3. (TableInBounds /\ WalkInv /\ HoleInv /\ CompressInv)'
    BY DEF TypeOK, FixedSlots, TableInBounds, WalkInv, HoleInv, CompressInv,
           Walking, Compressing, Slots
  <2> QED
    BY <2>1, <2>2, <2>3
<1>14. ASSUME Trim PROVE IInv'
  <2> USE <1>14 DEF Trim, con, scan, compact, kernel, input
  <2>1. TypeOK'
    BY DEF TypeOK, Slots, Fds
  <2>2. (FixedSlots /\ OneSlotPerSocket /\ SlotsAreOpen)'
    BY DEF TypeOK, FixedSlots, OneSlotPerSocket, SlotsAreOpen, Slots
  <2>3. (TableInBounds /\ WalkInv /\ HoleInv /\ CompressInv)'
    BY DEF TypeOK, FixedSlots, TableInBounds, WalkInv, HoleInv, CompressInv,
           Walking, Compressing, Slots
  <2> QED
    BY <2>1, <2>2, <2>3
<1>15. ASSUME Fill PROVE IInv'
  <2> USE <1>15 DEF Fill, con, scan, compact, kernel, input
  <2>1. TypeOK'
    BY DEF TypeOK, Slots, Fds
  <2>2. /\ hole \in Slots /\ lastOk \in Slots /\ hole < lastOk
        /\ lastOk <= current /\ current \in 2 .. MaxPoll - 1
        /\ fds[lastOk] # NoFd
        /\ \A j \in Slots : j < hole => fds[j] # NoFd
        /\ \A j \in Slots : lastOk < j /\ j <= current => fds[j] = NoFd
        /\ nb \in 2 .. MaxPoll - 1 /\ ~needCompress
    BY DEF TypeOK, CompressInv, Compressing, Slots, TableInBounds, HoleInv, Walking
  <2>3. CASE fds[hole] = NoFd
    <3>1. /\ \A j \in Slots : fds'[j] = IF j = hole THEN fds[lastOk]
                                     ELSE IF j = lastOk THEN NoFd ELSE fds[j]
          /\ pc' = "trim"
      BY <2>2, <2>3 DEF TypeOK
    <3>2. hole # 0 /\ hole # 1
      BY <2>3 DEF FixedSlots
    <3>3. FixedSlots'
      BY <2>2, <3>1, <3>2 DEF FixedSlots, Slots
    <3>4. OneSlotPerSocket'
      BY <2>2, <3>1 DEF OneSlotPerSocket
    <3>5. SlotsAreOpen'
      BY <2>2, <3>1 DEF SlotsAreOpen
    <3>6. (TableInBounds /\ WalkInv /\ HoleInv)'
      BY <2>2, <3>1 DEF TableInBounds, WalkInv, HoleInv, Walking
    <3>7. CompressInv'
      BY <2>2, <3>1, <3>2 DEF CompressInv, Slots
    <3> QED
      BY <2>1, <3>3, <3>4, <3>5, <3>6, <3>7
  <2>4. CASE fds[hole] # NoFd
    <3>1. UNCHANGED <<fds, pc>>
      BY <2>4
    <3>2. (FixedSlots /\ OneSlotPerSocket /\ SlotsAreOpen /\ TableInBounds)'
      BY <3>1 DEF FixedSlots, OneSlotPerSocket, SlotsAreOpen, TableInBounds
    <3>3. (WalkInv /\ HoleInv)'
      BY <2>2, <3>1 DEF WalkInv, HoleInv, Walking
    <3>4. CompressInv'
      BY <2>2, <2>4, <3>1 DEF CompressInv, Compressing, Slots
    <3> QED
      BY <2>1, <3>2, <3>3, <3>4
  <2> QED
    BY <2>3, <2>4
<1>16. ASSUME FillEnd PROVE IInv'
  <2> USE <1>16 DEF FillEnd, con, scan, compact, kernel, input
  <2>1. TypeOK'
    BY DEF TypeOK, Slots, Fds
  <2>2. (FixedSlots /\ OneSlotPerSocket /\ SlotsAreOpen)'
    BY DEF TypeOK, FixedSlots, OneSlotPerSocket, SlotsAreOpen, Slots
  <2>3. (TableInBounds /\ WalkInv /\ HoleInv /\ CompressInv)'
    BY DEF TypeOK, FixedSlots, TableInBounds, WalkInv, HoleInv, CompressInv,
           Walking, Compressing, Slots
  <2> QED
    BY <2>1, <2>2, <2>3
<1> QED
  BY <1>1, <1>2, <1>3, <1>4, <1>5, <1>6, <1>7, <1>8, <1>9, <1>10, <1>11, <1>12, <1>13, <1>14, <1>15, <1>16
     DEF Loop, ScanLoop, Accept, Read, ReadStdin, Compress
-----------------------------------------------------------------------------
LEMMA StutterIInv == IInv /\ UNCHANGED vars => IInv'
<1> SUFFICES ASSUME IInv, UNCHANGED vars PROVE IInv'
  OBVIOUS
<1> USE DEF vars, con, scan, compact, kernel, input
<1>1. TypeOK'
  BY DEF IInv, TypeOK
<1>2. (FixedSlots /\ OneSlotPerSocket /\ SlotsAreOpen /\ TableInBounds)'
  BY DEF IInv, FixedSlots, OneSlotPerSocket, SlotsAreOpen, TableInBounds
<1>3. (WalkInv /\ HoleInv /\ CompressInv)'
  BY DEF IInv, WalkInv, HoleInv, CompressInv
<1> QED
  BY <1>1, <1>2, <1>3 DEF IInv

(* The invariant holds in every reachable state of the loop.               *)
THEOREM Invariant == Spec => []IInv
<1>1. IInv /\ [Next]_vars => IInv'
  BY EnvironmentIInv, LoopIInv, StutterIInv DEF Next
<1> QED
  BY InitIInv, <1>1, PTL DEF Spec

(* The variables of the loop and of the table keep their types.            *)
THEOREM TypeCorrect == Spec => []TypeOK
<1>1. IInv => TypeOK
  BY DEF IInv
<1> QED
  BY Invariant, <1>1, PTL

(* Listener and stdin never move, however slots are filled and compressed. *)
THEOREM SlotsStayFixed == Spec => []FixedSlots
<1>1. IInv => FixedSlots
  BY DEF IInv
<1> QED
  BY Invariant, <1>1, PTL

(* No client is in two slots: none is read twice in a turn, none closed    *)
(* twice.                                                                  *)
THEOREM SocketsInTable == Spec => []OneSlotPerSocket
<1>1. IInv => OneSlotPerSocket
  BY DEF IInv
<1> QED
  BY Invariant, <1>1, PTL

(* No slot holds a closed descriptor, which the system may have given to   *)
(* another client.                                                         *)
THEOREM OpenSockets == Spec => []SlotsAreOpen
<1>1. IInv => SlotsAreOpen
  BY DEF IInv
<1> QED
  BY Invariant, <1>1, PTL

(* When poll is called, compression has left no hole in the table.         *)
THEOREM Compressed == Spec => []NoHoles
<1>1. IInv => NoHoles
  BY DEF IInv, HoleInv, NoHoles, Walking
<1> QED
  BY Invariant, <1>1, PTL

(* The read one past the slots in use stays inside poll_fds.               *)
THEOREM InBounds == Spec => []CompressInBounds
<1>1. IInv => CompressInBounds
  BY SizeAssumption DEF IInv, CompressInBounds, TableInBounds, CompressInv,
                        TypeOK, Slots
<1> QED
  BY Invariant, <1>1, PTL

-----------------------------------------------------------------------------
(* A polled client is polled again or closed.  Only three actions can take *)
(* a descriptor out of a slot in use: closing it, moving it, and shrinking *)
(* the table.                                                              *)
StaysPolled(s) ==
    Polled(s, nb) /\ Polled(s, current) => sk'[s] = "free" \/ Polled(s, nb)'

LEMMA StaysPolledStep ==
    IInv /\ [Next]_vars => \A s \in Socks : StaysPolled(s)
<1> SUFFICES ASSUME IInv, [Next]_vars, NEW s \in Socks,
                    Polled(s, nb), Polled(s, current), sk'[s] # "free"
             PROVE  Polled(s, nb)'
  BY DEF StaysPolled
<1> USE SizeAssumption, FdAssumption DEF IInv
<1>1. PICK j \in Slots : j < nb /\ j < current /\ fds[j] = s
  BY DEF Polled, OneSlotPerSocket
<1>2. CASE UNCHANGED <<fds, nb>>
  BY <1>1, <1>2 DEF Polled
<1>3. ASSUME NEW c \in Socks, AcceptNew(c) PROVE Polled(s, nb)'
  <2>1. fds'[j] = s /\ j < nb'
    BY <1>1, <1>3 DEF AcceptNew, TypeOK, Slots
  <2> QED
    BY <2>1 DEF Polled
<1>4. ASSUME NEW c \in Socks, ReadClosed(c) PROVE Polled(s, nb)'
  BY <1>1, <1>4 DEF ReadClosed, Polled, TypeOK, OneSlotPerSocket
<1>5. CASE Fill
  <2>1. \E k \in Slots : k < nb' /\ fds'[k] = s
    <3>1. CASE j = lastOk /\ fds[hole] = NoFd
      BY <1>1, <1>5, <3>1 DEF Fill, TypeOK, Slots
    <3>2. CASE j # lastOk \/ fds[hole] # NoFd
      BY <1>1, <1>5, <3>2 DEF Fill, TypeOK, Slots
    <3> QED
      BY <3>1, <3>2
  <2> QED
    BY <2>1 DEF Polled
<1>6. CASE FillEnd
  <2>1. nb' = lastOk + 1 /\ UNCHANGED fds
    BY <1>6 DEF FillEnd, FixedSlots
  <2>2. j <= lastOk
    BY <1>1, <1>6 DEF FillEnd, TypeOK, CompressInv, Compressing, Slots
  <2> QED
    BY <1>1, <2>1, <2>2 DEF Polled, TypeOK, Slots
<1>7. CASE /\ \A c \in Socks : ~AcceptNew(c) /\ ~ReadClosed(c)
           /\ ~Fill /\ ~FillEnd
  <2>1. UNCHANGED <<fds, nb>>
    <3> USE <1>7 DEF vars, con, scan, compact, kernel, input
    <3>1. CASE ScanLoop
      BY <3>1 DEF ScanLoop, Poll, VisitError, Visit, ScanEnd, Close
    <3>2. CASE Accept
      BY <3>2 DEF Accept, AcceptNone, AcceptFails
    <3>3. CASE Read
      BY <3>3 DEF Read, ReadMsg, ReadNothing
    <3>4. CASE ReadStdin
      BY <3>4 DEF ReadStdin, ReadLine, ReadEof
    <3>5. CASE Compress
      BY <3>5 DEF Compress, Trim
    <3>6. CASE Environment
      BY <3>6 DEF Environment, Connect, PeerSend, PeerLeave, TypeLine,
                  StdinCloses, EndRequested
    <3> QED
      BY <3>1, <3>2, <3>3, <3>4, <3>5, <3>6 DEF Next, Loop
  <2> QED
    BY <1>2, <2>1
<1> QED
  BY <1>3, <1>4, <1>5, <1>6, <1>7

(* Neither the walk over the slots nor the compression loses a client that *)
(* was polled.                                                             *)
THEOREM PolledStays == Spec => StillPolled
<1>1. IInv /\ [Next]_vars => [\A s \in Socks : StaysPolled(s)]_vars
  BY StaysPolledStep
<1> QED
  BY Invariant, <1>1, PTL DEF Spec, StillPolled, StaysPolled
-----------------------------------------------------------------------------
(* The compression.  Only Fill moves descriptors, and each of its moves is *)
(* one of those FillKeepsResult is about.                                  *)
KeepsCompacted ==
    pc \in Compressing =>
        Compacted(fds, current)
          = IF pc' \in Compressing THEN Compacted(fds', current) ELSE InUse'

LEMMA KeepsCompactedStep == IInv /\ [Next]_vars => KeepsCompacted
<1> SUFFICES ASSUME IInv, [Next]_vars, pc \in Compressing
             PROVE  Compacted(fds, current)
                      = IF pc' \in Compressing THEN Compacted(fds', current)
                                               ELSE InUse'
  BY DEF KeepsCompacted
<1> USE SizeAssumption DEF IInv
<1>1. /\ current \in 2 .. MaxPoll - 1 /\ lastOk \in 1 .. current
      /\ \A j \in Slots : j < hole => fds[j] # NoFd
      /\ \A j \in Slots : lastOk < j /\ j <= current => fds[j] = NoFd
      /\ pc = "fill" => fds[lastOk] # NoFd
      /\ hole \in Nat /\ fds \in [Slots -> Fds]
  BY DEF CompressInv, TypeOK
<1>2. CASE Fill /\ fds[hole] = NoFd
  <2>1. hole < lastOk /\ hole \in Slots /\ lastOk \in Slots
    BY <1>1, <1>2 DEF Fill, Slots
  <2>2. fds' = [fds EXCEPT ![hole] = fds[lastOk], ![lastOk] = NoFd]
    BY <1>2 DEF Fill
  <2>3. \A j \in Slots : fds'[j] = IF j = hole THEN fds[lastOk]
                                   ELSE IF j = lastOk THEN NoFd ELSE fds[j]
    BY <1>1, <2>1, <2>2
  <2>4. FillsHole(fds, fds', hole, lastOk, current)
    BY <1>1, <1>2, <2>1, <2>3 DEF FillsHole, Slots, Fill
  <2>5. Compacted(fds', current) = Compacted(fds, current)
    BY <1>1, <2>4, FillKeepsResult
  <2>6. pc' = "trim"
    BY <1>2 DEF Fill
  <2> QED
    BY <2>5, <2>6 DEF Compressing
<1>3. CASE FillEnd
  <2>1. pc = "fill" /\ hole >= lastOk
    BY <1>3 DEF FillEnd
  <2>2. \A j \in 0 .. lastOk : fds[j] # NoFd
    BY <1>1, <2>1 DEF Slots
  <2>3. \A j \in lastOk + 1 .. current : fds[j] = NoFd
    BY <1>1 DEF Slots
  <2>4. Compacted(fds, current) = [j \in 0 .. lastOk |-> fds[j]]
    BY <1>1, <2>2, <2>3, CompactedWhole
  <2>5. nb' = lastOk + 1 /\ fds' = fds /\ pc' \notin Compressing
    BY <1>1, <1>3, <2>2 DEF FillEnd, Compressing
  <2>6. InUse' = [j \in 0 .. lastOk |-> fds[j]]
    BY <1>1, <2>5 DEF InUse
  <2> QED
    BY <2>4, <2>5, <2>6
<1>4. CASE ~FillEnd /\ ~(Fill /\ fds[hole] = NoFd)
  <2>1. UNCHANGED fds /\ pc' \in Compressing
    <3> USE <1>4 DEF vars, con, scan, compact, kernel, input, Compressing
    <3>1. CASE Compress
      BY <3>1 DEF Compress, Trim, Fill
    <3>2. CASE Environment
      BY <3>2 DEF Environment, Connect, PeerSend, PeerLeave, TypeLine,
                  StdinCloses, EndRequested
    <3>3. CASE ScanLoop \/ Accept \/ Read \/ ReadStdin
      BY <3>3 DEF ScanLoop, Poll, VisitError, Visit, ScanEnd, Close, Accept,
                  AcceptNew, AcceptNone, AcceptFails, Read, ReadMsg, ReadNothing,
                  ReadClosed, ReadStdin, ReadLine, ReadEof
    <3> QED
      BY <3>1, <3>2, <3>3 DEF Next, Loop
  <2> QED
    BY <2>1
<1> QED
  BY <1>2, <1>3, <1>4

(* Whatever the size of the table and the slots that were closed, the two  *)
(* indices of compress_poll_socket_array compute Compacted: every step     *)
(* keeps that result, and what is left in use at the end is the result.    *)
THEOREM LoopCompacts == Spec => CompressIsCompacted
<1>1. IInv /\ [Next]_vars => [KeepsCompacted]_vars
  BY KeepsCompactedStep
<1> QED
  BY Invariant, <1>1, PTL DEF Spec, CompressIsCompacted, KeepsCompacted
=============================================================================
