-------------------------- MODULE StoreServer_proofs --------------------------
(***************************************************************************)
(* Proofs about StoreServer, for any number of clients and sessions, any   *)
(* backlog, any width of the int, any old store and any failures.          *)
(***************************************************************************)
EXTENDS StoreServerInv, SequenceTheorems, TLAPS

-----------------------------------------------------------------------------
(* Messages                                                                *)

(* + 1 on a C int yields a C int.                                          *)
LEMMA IncrementType == ASSUME NEW n \in Ints PROVE Increment(n) \in Ints
  BY MessageAssumption DEF Ints, Increment

(* What a client answers and what a child stores are messages.             *)
LEMMA MessageTypes ==
  /\ DefaultMessage \in message_t
  /\ \A m \in message_t : ServerBump(m) \in message_t
  /\ \A c \in Clients, m \in message_t :
       /\ ClientMessage(c, m) \in message_t
       /\ Served(c, m) \in message_t
<1>1. DefaultMessage \in message_t
  BY MessageAssumption DEF DefaultMessage, message_t, Ints
<1>2. ASSUME NEW m \in message_t PROVE ServerBump(m) \in message_t
  BY IncrementType DEF ServerBump, message_t
<1>3. ASSUME NEW c \in Clients, NEW m \in message_t
      PROVE ClientMessage(c, m) \in message_t
  BY IncrementType, MessageAssumption DEF ClientMessage, message_t
<1> QED
  BY <1>1, <1>2, <1>3 DEF Served

(* A record written inside or right behind the store leaves it a store     *)
(* that is not shorter, and changes that record only.                      *)
LEMMA PutRecordType ==
  ASSUME NEW st \in Seq(message_t), NEW p \in Nat, p =< Len(st),
         NEW m \in message_t
  PROVE  /\ PutRecord(st, p, m) \in Seq(message_t)
         /\ Len(PutRecord(st, p, m)) =
              IF p < Len(st) THEN Len(st) ELSE p + 1
         /\ \A i \in 1 .. Len(PutRecord(st, p, m)) :
              PutRecord(st, p, m)[i] = IF i = p + 1 THEN m ELSE st[i]
<1> DEFINE n == IF p < Len(st) THEN Len(st) ELSE p + 1
<1>1. n \in Nat /\ n >= Len(st) /\ Len(st) \in Nat
  OBVIOUS
<1>2. ASSUME NEW i \in 1 .. n, i # p + 1 PROVE st[i] \in message_t
  <2>1. i \in 1 .. Len(st)
    BY <1>1, <1>2
  <2> QED
    BY <2>1, ElementOfSeq
<1>3. PutRecord(st, p, m) \in [1 .. n -> message_t]
  BY <1>2 DEF PutRecord
<1>4. PutRecord(st, p, m) \in Seq(message_t)
  BY <1>1, <1>3, SeqDef
<1>5. Len(PutRecord(st, p, m)) = n
  <2>1. DOMAIN PutRecord(st, p, m) = 1 .. n
    BY DEF PutRecord
  <2> QED
    BY <1>1, <1>4, <2>1, LenProperties
<1>6. \A i \in 1 .. n :
        PutRecord(st, p, m)[i] = IF i = p + 1 THEN m ELSE st[i]
  BY DEF PutRecord
<1> QED
  BY <1>4, <1>5, <1>6

(* Written right behind the store, the record is appended.                 *)
LEMMA PutRecordAppends ==
  ASSUME NEW st \in Seq(message_t), NEW m \in message_t
  PROVE  PutRecord(st, Len(st), m) = Append(st, m)
<1>1. Len(st) \in Nat /\ ~(Len(st) < Len(st))
  OBVIOUS
<1>2. /\ PutRecord(st, Len(st), m) \in Seq(message_t)
      /\ Len(PutRecord(st, Len(st), m)) = Len(st) + 1
      /\ \A i \in 1 .. Len(st) + 1 :
           PutRecord(st, Len(st), m)[i] = IF i = Len(st) + 1 THEN m ELSE st[i]
  <2> DEFINE p == Len(st)
             r == PutRecord(st, p, m)
  <2>1. p \in Nat /\ p =< Len(st)
    BY <1>1
  <2> HIDE DEF p
  <2>2. /\ r \in Seq(message_t)
        /\ Len(r) = IF p < Len(st) THEN Len(st) ELSE p + 1
        /\ \A i \in 1 .. Len(r) : r[i] = IF i = p + 1 THEN m ELSE st[i]
    BY <2>1, PutRecordType, Zenon
  <2> QED
    BY <1>1, <2>2 DEF p
<1>3. /\ Append(st, m) \in Seq(message_t)
      /\ Len(Append(st, m)) = Len(st) + 1
      /\ \A i \in 1 .. Len(st) + 1 :
           Append(st, m)[i] = IF i = Len(st) + 1 THEN m ELSE st[i]
  OBVIOUS
<1> QED
  BY <1>1, <1>2, <1>3, SeqEqual

(* The sessions are the pairs of a client and the number of a turn.        *)
LEMMA SessionType ==
  /\ \A s \in Sessions : s[1] \in Clients /\ s[2] \in 1 .. LoopMax
                         /\ s = <<s[1], s[2]>>
  /\ \A c \in Clients, i \in 1 .. LoopMax : <<c, i>> \in Sessions
  BY DEF Sessions

-----------------------------------------------------------------------------
(* Types                                                                   *)

(* Resetting the connections nobody accepted keeps the types.              *)
LEMMA DropTypes ==
  ASSUME TypeOK, DropBacklog
  PROVE  backlog' \in Seq(Sessions) /\ reset' \subseteq Sessions
<1>1. CASE ListenerOpen'
  BY <1>1 DEF TypeOK, DropBacklog
<1>2. CASE ~ListenerOpen'
  BY <1>2 DEF TypeOK, DropBacklog
<1> QED
  BY <1>1, <1>2

(* Every step keeps the types, and the ranges that depend on a place.      *)
LEMMA TypeStep == TypeInv /\ [Next]_vars => TypeInv'
<1> SUFFICES ASSUME TypeInv, [Next]_vars PROVE TypeInv'
  OBVIOUS
<1> USE StoreServerAssumption, SessionType
    DEF TypeInv, TypeOK, PlaceOK, MsgOrNone, Serving, Draining, Dead, Live,
        Before, Critical, After, Ended, At, Goto, ReleaseLock,
        WaitExit, Session, vars, parentVars, childVars, netVars, clientVars
<1>1. CASE Accept
  <2>1. Head(backlog) \in Sessions /\ Tail(backlog) \in Seq(Sessions)
    BY <1>1, HeadTailProperties DEF Accept
  <2> QED
    BY <1>1, <2>1 DEF Accept
<1>2. CASE AcceptFails
  BY <1>2, DropTypes DEF AcceptFails
<1>3. CASE Fork
  BY <1>3 DEF Fork
<1>4. CASE ForkFails
  BY <1>4, DropTypes DEF ForkFails
<1>5. CASE CloseAccepted
  <2>1. TypeOK'
    <3>1. counter' \in Nat /\ left' \in Nat
      BY <1>5 DEF CloseAccepted
    <3>2. ppc' = "reap" /\ accepted' = NoSession
      BY <1>5 DEF CloseAccepted
    <3> QED
      BY <1>5, <3>1, <3>2 DEF CloseAccepted
  <2>2. PlaceOK'
    BY <1>5 DEF CloseAccepted
  <2> QED
    BY <2>1, <2>2
<1>6. CASE Reap
  <2>1. TypeOK'
    <3>1. kids' \subseteq Sessions /\ left' \in Nat
      BY <1>6 DEF Reap
    <3> QED
      BY <1>6, <3>1 DEF Reap
  <2>2. PlaceOK'
    BY <1>6 DEF Reap
  <2> QED
    BY <2>1, <2>2
<1>7. CASE ReapDone
  BY <1>7 DEF ReapDone
<1>8. CASE Drain
  BY <1>8 DEF Drain
<1>9. CASE DrainDone
  BY <1>9 DEF DrainDone
<1>10. CASE ServerKilled
  BY <1>10, DropTypes DEF ServerKilled
<1>11. CASE Restart
  <2>1. TypeOK'
    <3>1. restarts' \in 0 .. MaxRestarts /\ ppc' = "accept"
      BY <1>11 DEF Restart
    <3> QED
      BY <1>11, <3>1 DEF Restart
  <2>2. PlaceOK'
    BY <1>11 DEF Restart
  <2> QED
    BY <2>1, <2>2
<1>12. ASSUME NEW s \in Sessions, ChildStart(s) PROVE TypeInv'
  BY <1>12, DropTypes DEF ChildStart
<1>13. ASSUME NEW s \in Sessions, AcquireLock(s) PROVE TypeInv'
  BY <1>13 DEF AcquireLock
<1>14. ASSUME NEW s \in Sessions, CheckSize(s) PROVE TypeInv'
  <2>1. CASE store = <<>>
    <3>1. /\ tosend' = [tosend EXCEPT ![s] = DefaultMessage]
          /\ cpc' = [cpc EXCEPT ![s] = "send"]
      BY <1>14, <2>1 DEF CheckSize
    <3>2. DefaultMessage \in message_t
      BY MessageTypes
    <3> QED
      BY <1>14, <3>1, <3>2 DEF CheckSize
  <2>2. CASE store # <<>>
    <3>1. Len(store) > 0
      BY <2>2, EmptySeq
    <3> QED
      BY <1>14, <2>2, <3>1 DEF CheckSize
  <2> QED
    BY <2>1, <2>2
<1>15. ASSUME NEW s \in Sessions, SeekLast(s) PROVE TypeInv'
  <2>1. Len(store) - 1 \in Nat /\ Len(store) - 1 < Len(store)
    BY <1>15, LenProperties DEF SeekLast
  <2> QED
    BY <1>15, <2>1 DEF SeekLast
<1>16. ASSUME NEW s \in Sessions, ReadLast(s) PROVE TypeInv'
  <2>1. TypeOK'
    <3>1. /\ cpc' \in [Sessions -> {"none"} \cup Live \cup Ended]
          /\ tosend' \in [Sessions -> MsgOrNone]
      <4>1. pos[s] + 1 \in 1 .. Len(store)
        <5>1. pos[s] \in Nat /\ pos[s] < Len(store)
          BY <1>16 DEF ReadLast
        <5>2. Len(store) \in Nat
          BY LenProperties
        <5> QED
          BY <5>1, <5>2
      <4>2. store[pos[s] + 1] \in message_t
        BY <4>1, ElementOfSeq
      <4> QED
        BY <1>16, <4>2 DEF ReadLast
    <3> QED
      BY <1>16, <3>1 DEF ReadLast
  <2>2. PlaceOK'
    BY <1>16 DEF ReadLast
  <2> QED
    BY <2>1, <2>2
<1>17. ASSUME NEW s \in Sessions, SendLast(s) PROVE TypeInv'
  BY <1>17 DEF SendLast
<1>18. ASSUME NEW s \in Sessions, Receive(s) PROVE TypeInv'
  BY <1>18, MessageTypes DEF Receive
<1>19. ASSUME NEW s \in Sessions, ReceiveEof(s) PROVE TypeInv'
  <2>1. TypeOK'
    <3>1. /\ cpc' \in [Sessions -> {"none"} \cup Live \cup Ended]
          /\ tostore' \in [Sessions -> MsgOrNone]
      BY <1>19, MessageTypes DEF ReceiveEof
    <3> QED
      BY <1>19, <3>1 DEF ReceiveEof
  <2>2. PlaceOK'
    BY <1>19, MessageTypes DEF ReceiveEof
  <2> QED
    BY <2>1, <2>2
<1>20. ASSUME NEW s \in Sessions, SeekEnd(s) PROVE TypeInv'
  <2>1. TypeOK'
    <3>1. /\ cpc' \in [Sessions -> {"none"} \cup Live \cup Ended]
          /\ pos' \in [Sessions -> Nat]
      BY <1>20 DEF SeekEnd
    <3> QED
      BY <1>20, <3>1 DEF SeekEnd
  <2>2. PlaceOK'
    BY <1>20 DEF SeekEnd
  <2> QED
    BY <2>1, <2>2
<1>21. ASSUME NEW s \in Sessions, WriteRecord(s) PROVE TypeInv'
  <2>1. /\ pos[s] \in Nat /\ pos[s] =< Len(store)
        /\ tostore[s] \in message_t /\ Len(store) \in Nat
    BY <1>21, LenProperties DEF WriteRecord
  <2>2. store' \in Seq(message_t) /\ Len(store') >= Len(store)
    BY <1>21, <2>1, PutRecordType DEF WriteRecord
  <2>3. Len(store') \in Nat
    BY <2>2, LenProperties
  <2>4. TypeOK'
    BY <1>21, <2>2 DEF WriteRecord
  <2>5. PlaceOK'
    <3>1. ASSUME NEW t \in Sessions
          PROVE  /\ cpc'[t] = "seek" => Len(store') > 0
                 /\ cpc'[t] = "read" => pos'[t] < Len(store')
                 /\ cpc'[t] = "write" => pos'[t] =< Len(store')
      BY <1>21, <2>1, <2>2, <2>3 DEF WriteRecord
    <3>2. ASSUME NEW t \in Sessions
          PROVE  /\ cpc'[t] \in {"send", "recv", "append", "write"}
                      => tosend'[t] \in message_t
                 /\ cpc'[t] \in {"append", "write"} => tostore'[t] \in message_t
      BY <1>21 DEF WriteRecord
    <3>3. UNCHANGED <<clpc, got, round>>
      BY <1>21 DEF WriteRecord
    <3> QED
      BY <3>1, <3>2, <3>3
  <2> QED
    BY <2>4, <2>5
<1>22. ASSUME NEW s \in Sessions, Unlock(s) PROVE TypeInv'
  BY <1>22 DEF Unlock
<1>23. ASSUME NEW s \in Sessions, Exit(s) PROVE TypeInv'
  BY <1>23 DEF Exit, ProcessEnds
<1>24. ASSUME NEW s \in Sessions, ReceiveReset(s) PROVE TypeInv'
  BY <1>24 DEF ReceiveReset, ProcessEnds
<1>25. ASSUME NEW s \in Sessions, ChildAborts(s) PROVE TypeInv'
  <2> DEFINE how == IF cpc[s] \in After THEN "exited" ELSE "aborted"
  <2>1. how \in Ended
    OBVIOUS
  <2> HIDE DEF how
  <2> QED
    BY <1>25, <2>1, DropTypes DEF ChildAborts, ProcessEnds, how
<1>26. ASSUME NEW c \in Clients, Connect(c) PROVE TypeInv'
  <2>1. Session(c) \in Sessions
    BY <1>26 DEF Connect
  <2>2. backlog' \in Seq(Sessions)
    BY <1>26, <2>1 DEF Connect
  <2> QED
    BY <1>26, <2>2 DEF Connect
<1>27. ASSUME NEW c \in Clients, ConnectRefused(c) PROVE TypeInv'
  BY <1>27 DEF ConnectRefused
<1>28. ASSUME NEW c \in Clients, ReadMessage(c) PROVE TypeInv'
  <2>1. Session(c) \in Sessions
    BY <1>28 DEF ReadMessage
  <2>2. s2c[Session(c)] \in message_t
    BY <1>28, <2>1 DEF ReadMessage
  <2> QED
    BY <1>28, <2>1, <2>2 DEF ReadMessage
<1>29. ASSUME NEW c \in Clients, ReadEof(c) PROVE TypeInv'
  BY <1>29 DEF ReadEof
<1>30. ASSUME NEW c \in Clients, ReadReset(c) PROVE TypeInv'
  BY <1>30 DEF ReadReset
<1>31. ASSUME NEW c \in Clients, SendAnswer(c) PROVE TypeInv'
  <2> DEFINE answer == IF cpc[Session(c)] \in Live
                       THEN ClientMessage(c, got[c]) ELSE NoMsg
  <2>1. Session(c) \in Sessions /\ got[c] \in message_t
    BY <1>31 DEF SendAnswer
  <2>2. answer \in MsgOrNone
    BY <2>1, MessageTypes
  <2>3. c2s' = [c2s EXCEPT ![Session(c)] = answer]
    BY <1>31 DEF SendAnswer
  <2> HIDE DEF answer
  <2>4. c2s' \in [Sessions -> MsgOrNone]
    BY <2>1, <2>2, <2>3
  <2>5. /\ clpc[c] = "send" /\ round[c] \in 1 .. LoopMax
        /\ round' = [round EXCEPT ![c] = round[c] + 1]
        /\ clpc' = [clpc EXCEPT ![c] =
                      IF round[c] < LoopMax THEN "connect" ELSE "done"]
        /\ got' = [got EXCEPT ![c] = NoMsg]
        /\ UNCHANGED <<store, lock, parentVars, childVars, backlog, s2c, reset>>
    BY <1>31 DEF SendAnswer
  <2>6. TypeOK'
    <3>1. round' \in [Clients -> 1 .. LoopMax + 1]
      <4>1. round[c] + 1 \in 1 .. LoopMax + 1
        BY <2>5
      <4> QED
        BY <2>5, <4>1
    <3>2. /\ got' \in [Clients -> MsgOrNone]
          /\ clpc' \in [Clients -> {"connect", "read", "send", "done",
                                    "failed", "killed"}]
      BY <2>5
    <3> QED
      BY <2>4, <2>5, <3>1, <3>2
  <2>7. PlaceOK'
    BY <2>5
  <2> QED
    BY <2>6, <2>7
<1>32. ASSUME NEW c \in Clients, ClientKilled(c) PROVE TypeInv'
  <2>1. TypeOK'
    <3>1. /\ s2c' \in [Sessions -> MsgOrNone]
          /\ got' \in [Clients -> MsgOrNone]
          /\ reset' \subseteq Sessions
      BY <1>32 DEF ClientKilled
    <3> QED
      BY <1>32, <3>1 DEF ClientKilled
  <2>2. PlaceOK'
    BY <1>32 DEF ClientKilled
  <2> QED
    BY <2>1, <2>2
<1>33. CASE UNCHANGED vars
  BY <1>33
<1> QED
  BY <1>1, <1>2, <1>3, <1>4, <1>5, <1>6, <1>7, <1>8, <1>9, <1>10, <1>11, <1>12,
     <1>13, <1>14, <1>15, <1>16, <1>17, <1>18, <1>19, <1>20, <1>21, <1>22,
     <1>23, <1>24, <1>25, <1>26, <1>27, <1>28, <1>29, <1>30, <1>31, <1>32,
     <1>33
  DEF Next, ParentStep, ChildStep, ClientStep, Failure, Idle

(* At the start every process and every variable is in its place.          *)
LEMMA TypeInit == Init => TypeInv
  BY StoreServerAssumption, SessionType
  DEF Init, TypeInv, TypeOK, PlaceOK, MsgOrNone, Serving, Live, Ended

(* Type correctness: TypeOK is an invariant of the server and its clients. *)
THEOREM TypeCorrect == Spec => []TypeOK
<1>1. TypeInv => TypeOK
  BY DEF TypeInv
<1> QED
  BY <1>1, TypeInit, TypeStep, PTL DEF Spec

-----------------------------------------------------------------------------
(* Connections                                                             *)

(* Taking the head of a queue without duplicates.                          *)
LEMMA QueueHead ==
  ASSUME NEW S, NEW q \in Seq(S), q # <<>>,
         \A i, j \in 1 .. Len(q) : q[i] = q[j] => i = j
  PROVE  /\ Head(q) \in S
         /\ \E i \in 1 .. Len(q) : q[i] = Head(q)
         /\ \A i \in 1 .. Len(Tail(q)) :
              /\ Tail(q)[i] # Head(q)
              /\ \E j \in 1 .. Len(q) : q[j] = Tail(q)[i]
         /\ \A i, j \in 1 .. Len(Tail(q)) : Tail(q)[i] = Tail(q)[j] => i = j
<1>1. /\ Head(q) = q[1] /\ Len(q) \in Nat \ {0} /\ Head(q) \in S
      /\ Len(Tail(q)) = Len(q) - 1
      /\ \A i \in 1 .. Len(Tail(q)) : Tail(q)[i] = q[i + 1]
  BY HeadTailProperties, EmptySeq
<1>2. \A i \in 1 .. Len(Tail(q)) : i + 1 \in 1 .. Len(q) /\ i + 1 # 1
  BY <1>1
<1>3. 1 \in 1 .. Len(q)
  BY <1>1
<1> QED
  BY <1>1, <1>2, <1>3

(* Appending to a queue something that is not in it.                       *)
LEMMA QueueAppend ==
  ASSUME NEW S, NEW q \in Seq(S), NEW x \in S,
         \A i \in 1 .. Len(q) : q[i] # x,
         \A i, j \in 1 .. Len(q) : q[i] = q[j] => i = j
  PROVE  /\ \A i \in 1 .. Len(Append(q, x)) :
              \/ Append(q, x)[i] = x
              \/ \E j \in 1 .. Len(q) : q[j] = Append(q, x)[i]
         /\ \A i, j \in 1 .. Len(Append(q, x)) :
              Append(q, x)[i] = Append(q, x)[j] => i = j
<1>1. /\ Len(q) \in Nat /\ Len(Append(q, x)) = Len(q) + 1
      /\ \A i \in 1 .. Len(q) + 1 :
           Append(q, x)[i] = IF i = Len(q) + 1 THEN x ELSE q[i]
  OBVIOUS
<1>2. \A i \in 1 .. Len(q) + 1 : i # Len(q) + 1 => i \in 1 .. Len(q)
  BY <1>1
<1> QED
  BY <1>1, <1>2

(* What these two facts mean for the listen queue.                         *)
LEMMA QueueAccept ==
  ASSUME backlog \in Seq(Sessions), backlog # <<>>, backlog' = Tail(backlog),
         \A i, j \in 1 .. Len(backlog) : backlog[i] = backlog[j] => i = j
  PROVE  /\ Head(backlog) \in Sessions /\ Queued(Head(backlog))
         /\ \A t \in Sessions : Queued(t)' => Queued(t) /\ t # Head(backlog)
         /\ \A i, j \in 1 .. Len(backlog') : backlog'[i] = backlog'[j] => i = j
<1> DEFINE tl == Tail(backlog)
<1>1. /\ Head(backlog) \in Sessions
      /\ \E i \in 1 .. Len(backlog) : backlog[i] = Head(backlog)
      /\ \A i \in 1 .. Len(tl) :
           /\ tl[i] # Head(backlog)
           /\ \E j \in 1 .. Len(backlog) : backlog[j] = tl[i]
      /\ \A i, j \in 1 .. Len(tl) : tl[i] = tl[j] => i = j
  BY QueueHead, Zenon
<1> HIDE DEF tl
<1>2. backlog' = tl
  BY DEF tl
<1>3. ASSUME NEW t \in Sessions, Queued(t)'
      PROVE  Queued(t) /\ t # Head(backlog)
  <2>1. PICK i \in 1 .. Len(tl) : tl[i] = t
    BY <1>2, <1>3 DEF Queued
  <2> QED
    BY <1>1, <2>1 DEF Queued
<1>4. Queued(Head(backlog))
  BY <1>1 DEF Queued
<1> QED
  BY <1>1, <1>2, <1>3, <1>4

(* The same for the step that puts a new connection into the listen queue. *)
LEMMA QueueConnect ==
  ASSUME backlog \in Seq(Sessions), NEW z \in Sessions,
         backlog' = Append(backlog, z), ~Queued(z),
         \A i, j \in 1 .. Len(backlog) : backlog[i] = backlog[j] => i = j
  PROVE  /\ \A t \in Sessions : Queued(t)' => Queued(t) \/ t = z
         /\ \A i, j \in 1 .. Len(backlog') : backlog'[i] = backlog'[j] => i = j
<1>1. \A i \in 1 .. Len(backlog) : backlog[i] # z
  BY Zenon DEF Queued
<1> DEFINE ap == Append(backlog, z)
<1>2. /\ \A i \in 1 .. Len(ap) :
           \/ ap[i] = z
           \/ \E j \in 1 .. Len(backlog) : backlog[j] = ap[i]
      /\ \A i, j \in 1 .. Len(ap) : ap[i] = ap[j] => i = j
  BY <1>1, QueueAppend, Zenon
<1> HIDE DEF ap
<1>3. backlog' = ap
  BY DEF ap
<1>4. ASSUME NEW t \in Sessions, Queued(t)' PROVE Queued(t) \/ t = z
  <2>1. PICK i \in 1 .. Len(ap) : ap[i] = t
    BY <1>3, <1>4 DEF Queued
  <2> QED
    BY <1>2, <2>1 DEF Queued
<1> QED
  BY <1>2, <1>3, <1>4

(* At the start no connection exists.                                      *)
LEMMA ConnInit == Init => ConnInv
  BY StoreServerAssumption, SessionType
  DEF Init, ConnInv, QueueOK, FreshOK, WaitingOK, Queued, Fresh, Waiting,
      ClientAt, BeforeRecv, Before

(* A step that starts no child, leaves the clients alone and accepts and   *)
(* sends nothing keeps ConnInv, even when it resets the queue.             *)
LEMMA ConnQuiet ==
  ASSUME TypeInv, ConnInv, TypeInv',
         UNCHANGED <<backlog, reset>> \/ DropBacklog,
         UNCHANGED <<s2c, clpc, round>>,
         \A t \in Sessions :
           /\ c2s'[t] \in {c2s[t], NoMsg}
           /\ cpc'[t] = "none" <=> cpc[t] = "none"
           /\ cpc'[t] \in BeforeRecv => cpc[t] \in BeforeRecv,
         ppc' = "fork" => ppc = "fork" /\ accepted' = accepted
  PROVE  ConnInv'
<1> USE StoreServerAssumption, SessionType
    DEF TypeInv, TypeOK, ConnInv, QueueOK, FreshOK, WaitingOK, Fresh,
        Waiting, ClientAt, Queued
<1>1. CASE UNCHANGED <<backlog, reset>>
  <2>1. QueueOK'
    <3>1. \A t \in Sessions : Queued(t)' <=> Queued(t)
      BY <1>1
    <3>2. ppc' = "fork" => accepted \in Sessions
      OBVIOUS
    <3> HIDE DEF Queued
    <3> QED
      BY <1>1, <3>1, <3>2
  <2>2. FreshOK'
    BY <1>1
  <2>3. WaitingOK'
    BY <1>1
  <2> QED
    BY <2>1, <2>2, <2>3
<1>2. CASE DropBacklog /\ ~UNCHANGED <<backlog, reset>>
  <2>1. /\ backlog' = <<>> /\ ppc' # "fork"
        /\ reset' = reset \cup {s \in Sessions : Queued(s)}
    BY <1>2 DEF DropBacklog, ListenerOpen, Serving
  <2>2. \A t \in Sessions : ~Queued(t)'
    BY <2>1
  <2>3. QueueOK'
    BY <2>1, <2>2
  <2>4. FreshOK'
    <3> SUFFICES ASSUME NEW t \in Sessions, Fresh(t)
                 PROVE  /\ cpc'[t] = "none" /\ t \notin reset'
                        /\ s2c'[t] = NoMsg /\ c2s'[t] = NoMsg
      BY DEF Fresh
    <3>1. /\ cpc[t] = "none" /\ t \notin reset
          /\ s2c[t] = NoMsg /\ c2s[t] = NoMsg
      OBVIOUS
    <3>2. ~Queued(t)
      <4>1. ASSUME Queued(t) PROVE FALSE
        <5>1. ClientAt(t, {"read", "killed"})
          BY <4>1
        <5> QED
          BY <5>1
      <4> QED
        BY <4>1
    <3> QED
      BY <2>1, <3>1, <3>2
  <2>5. ASSUME NEW t \in Sessions, Waiting(t)'
        PROVE  cpc[t] \in BeforeRecv /\ ~Queued(t)
    BY <2>1, <2>2, <2>5 DEF BeforeRecv, Before
  <2>6. WaitingOK'
    BY <2>1, <2>2, <2>5
  <2> QED
    BY <2>3, <2>4, <2>6
<1> QED
  BY <1>1, <1>2

(* A child that goes from one place to another, and no further back.       *)
LEMMA ChildMoves ==
  ASSUME TypeInv, NEW s \in Sessions, NEW here, NEW there,
         At(s, here), Goto(s, there), here # "none", there # "none",
         there \in BeforeRecv => here \in BeforeRecv
  PROVE  \A t \in Sessions :
           /\ cpc'[t] = "none" <=> cpc[t] = "none"
           /\ cpc'[t] \in BeforeRecv => cpc[t] \in BeforeRecv
  BY DEF TypeInv, TypeOK, At, Goto

(* The steps of a child that neither start it nor send anything.           *)
LEMMA ConnChild ==
  ASSUME TypeInv, ConnInv, TypeInv', NEW s \in Sessions,
         \/ AcquireLock(s) \/ CheckSize(s) \/ SeekLast(s) \/ ReadLast(s)
         \/ Receive(s) \/ ReceiveEof(s) \/ ReceiveReset(s)
         \/ SeekEnd(s) \/ WriteRecord(s) \/ Unlock(s) \/ Exit(s)
  PROVE  ConnInv'
<1> DEFINE Moves == \A t \in Sessions :
                      /\ cpc'[t] = "none" <=> cpc[t] = "none"
                      /\ cpc'[t] \in BeforeRecv => cpc[t] \in BeforeRecv
           Takes == \A t \in Sessions : c2s'[t] \in {c2s[t], NoMsg}
<1>0. ASSUME Moves, Takes, UNCHANGED <<parentVars, clientVars>>,
             UNCHANGED <<backlog, reset, s2c>>
      PROVE  ConnInv'
  BY <1>0, ConnQuiet DEF parentVars, clientVars
<1>1. CASE AcquireLock(s)
  <2>1. Moves
    BY <1>1, ChildMoves DEF AcquireLock, BeforeRecv, Before
  <2>2. Takes
    BY <1>1 DEF AcquireLock, netVars
  <2> HIDE DEF Moves, Takes
  <2> QED
    BY <1>0, <1>1, <2>1, <2>2
    DEF AcquireLock, netVars, parentVars, clientVars
<1>2. CASE CheckSize(s)
  <2>1. Moves
    BY <1>2, ChildMoves DEF CheckSize, BeforeRecv, Before
  <2>2. Takes
    BY <1>2 DEF CheckSize, netVars
  <2> HIDE DEF Moves, Takes
  <2> QED
    BY <1>0, <1>2, <2>1, <2>2
    DEF CheckSize, netVars, parentVars, clientVars
<1>3. CASE SeekLast(s)
  <2>1. Moves
    BY <1>3, ChildMoves DEF SeekLast, BeforeRecv, Before
  <2>2. Takes
    BY <1>3 DEF SeekLast, netVars
  <2> HIDE DEF Moves, Takes
  <2> QED
    BY <1>0, <1>3, <2>1, <2>2
    DEF SeekLast, netVars, parentVars, clientVars
<1>4. CASE ReadLast(s)
  <2>1. Moves
    BY <1>4, ChildMoves DEF ReadLast, BeforeRecv, Before
  <2>2. Takes
    BY <1>4 DEF ReadLast, netVars
  <2> HIDE DEF Moves, Takes
  <2> QED
    BY <1>0, <1>4, <2>1, <2>2
    DEF ReadLast, netVars, parentVars, clientVars
<1>5. CASE Receive(s)
  <2>1. Moves
    BY <1>5, ChildMoves DEF Receive, BeforeRecv, Before
  <2>2. Takes
    BY <1>5 DEF Receive, netVars, TypeInv, TypeOK
  <2> HIDE DEF Moves, Takes
  <2> QED
    BY <1>0, <1>5, <2>1, <2>2
    DEF Receive, netVars, parentVars, clientVars
<1>6. CASE ReceiveEof(s)
  <2>1. Moves
    BY <1>6, ChildMoves DEF ReceiveEof, BeforeRecv, Before
  <2>2. Takes
    BY <1>6 DEF ReceiveEof, netVars
  <2> HIDE DEF Moves, Takes
  <2> QED
    BY <1>0, <1>6, <2>1, <2>2
    DEF ReceiveEof, netVars, parentVars, clientVars
<1>7. CASE SeekEnd(s)
  <2>1. Moves
    BY <1>7, ChildMoves DEF SeekEnd, BeforeRecv, Before
  <2>2. Takes
    BY <1>7 DEF SeekEnd, netVars
  <2> HIDE DEF Moves, Takes
  <2> QED
    BY <1>0, <1>7, <2>1, <2>2
    DEF SeekEnd, netVars, parentVars, clientVars
<1>8. CASE WriteRecord(s)
  <2>1. Moves
    BY <1>8, ChildMoves DEF WriteRecord, BeforeRecv, Before
  <2>2. Takes
    BY <1>8 DEF WriteRecord, netVars
  <2> HIDE DEF Moves, Takes
  <2> QED
    BY <1>0, <1>8, <2>1, <2>2
    DEF WriteRecord, netVars, parentVars, clientVars
<1>9. CASE Unlock(s)
  <2>1. Moves
    BY <1>9, ChildMoves DEF Unlock, BeforeRecv, Before
  <2>2. Takes
    BY <1>9 DEF Unlock, netVars
  <2> HIDE DEF Moves, Takes
  <2> QED
    BY <1>0, <1>9, <2>1, <2>2
    DEF Unlock, netVars, parentVars, clientVars
<1>10. CASE Exit(s)
  <2>1. Moves
    BY <1>10, ChildMoves DEF Exit, ProcessEnds, BeforeRecv, Before
  <2>2. Takes
    BY <1>10 DEF Exit, ProcessEnds, netVars, TypeInv, TypeOK
  <2> HIDE DEF Moves, Takes
  <2> QED
    BY <1>0, <1>10, <2>1, <2>2
    DEF Exit, ProcessEnds, netVars, parentVars, clientVars
<1>11. CASE ReceiveReset(s)
  <2>1. Moves
    BY <1>11, ChildMoves DEF ReceiveReset, ProcessEnds, BeforeRecv, Before
  <2>2. Takes
    BY <1>11 DEF ReceiveReset, ProcessEnds, netVars, TypeInv, TypeOK
  <2> HIDE DEF Moves, Takes
  <2> QED
    BY <1>0, <1>11, <2>1, <2>2
    DEF ReceiveReset, ProcessEnds, netVars, parentVars, clientVars
<1> QED
  BY <1>1, <1>2, <1>3, <1>4, <1>5, <1>6, <1>7, <1>8, <1>9, <1>10, <1>11

(* A step of a client whose connection is not one that waits for its       *)
(* child: it does not concern the ones that do.                            *)
LEMMA WaitingQuiet ==
  ASSUME TypeInv, ConnInv, NEW c \in Clients, ~Waiting(Session(c)),
         UNCHANGED <<ppc, accepted, cpc, backlog>>,
         \A d \in Clients : d # c => clpc'[d] = clpc[d] /\ round'[d] = round[d],
         \A t \in Sessions : t[1] # c => /\ t \in reset' <=> t \in reset
                                         /\ s2c'[t] = s2c[t] /\ c2s'[t] = c2s[t]
  PROVE  WaitingOK'
<1> SUFFICES ASSUME NEW t \in Sessions, Waiting(t)'
             PROVE  /\ ClientAt(t, {"read", "killed"})'
                    /\ t \notin reset'
                    /\ s2c'[t] = NoMsg /\ c2s'[t] = NoMsg
  BY DEF WaitingOK
<1>1. Waiting(t)
  BY DEF Waiting, Queued
<1>2. /\ ClientAt(t, {"read", "killed"}) /\ t \notin reset
      /\ s2c[t] = NoMsg /\ c2s[t] = NoMsg
  BY <1>1 DEF ConnInv, WaitingOK
<1>3. t[1] # c
  <2>1. ASSUME t[1] = c PROVE FALSE
    <3>1. t = Session(c)
      BY <1>2, <2>1, SessionType DEF ClientAt, Session
    <3> QED
      BY <1>1, <3>1
  <2> QED
    BY <2>1
<1>4. t[1] \in Clients
  BY SessionType
<1> QED
  BY <1>2, <1>3, <1>4 DEF ClientAt

(* Every step keeps ConnInv.                                               *)
LEMMA ConnStep == TypeInv /\ ConnInv /\ [Next]_vars => ConnInv'
<1> SUFFICES ASSUME TypeInv, ConnInv, [Next]_vars PROVE ConnInv'
  OBVIOUS
<1>0. TypeInv'
  BY TypeStep
<1> USE StoreServerAssumption, SessionType
    DEF TypeInv, TypeOK, PlaceOK, ConnInv, QueueOK, FreshOK, WaitingOK, Fresh,
        Waiting, ClientAt, BeforeRecv, Before, Queued, Serving, Draining, Dead,
        At, Goto, WaitExit, Session, vars, parentVars, childVars, netVars,
        clientVars
<1>1. CASE Accept
  <2>1. /\ backlog # <<>> /\ ppc' = "fork"
        /\ accepted' = Head(backlog) /\ backlog' = Tail(backlog)
        /\ UNCHANGED <<cpc, s2c, c2s, reset, clpc, round>>
    BY <1>1 DEF Accept
  <2> DEFINE h == Head(backlog)
  <2>2. /\ h \in Sessions /\ Queued(h)
        /\ \A t \in Sessions : Queued(t)' => Queued(t) /\ t # h
        /\ \A i, j \in 1 .. Len(backlog') : backlog'[i] = backlog'[j] => i = j
    BY <2>1, QueueAccept
  <2>3. Waiting(h) /\ cpc[h] = "none"
    BY <2>2
  <2> HIDE DEF Queued, h
  <2>4. QueueOK'
    BY <2>1, <2>2, <2>3 DEF h
  <2>5. FreshOK'
    BY <2>1
  <2>6. WaitingOK'
    BY <2>1, <2>2, <2>3 DEF h
  <2> QED
    BY <2>4, <2>5, <2>6
<1>2. CASE AcceptFails
  BY <1>2, TypeStep, ConnQuiet DEF AcceptFails
<1>3. CASE Fork
  <2>1. /\ ppc = "fork" /\ ppc' = "close" /\ accepted \in Sessions
        /\ cpc' = [cpc EXCEPT ![accepted] = "start"]
        /\ UNCHANGED <<accepted, backlog, s2c, c2s, reset, clpc, round>>
    BY <1>3 DEF Fork
  <2>2. Waiting(accepted) /\ ~Queued(accepted)
    BY <2>1
  <2>3. QueueOK'
    BY <2>1, <2>2
  <2>4. FreshOK'
    <3>1. ClientAt(accepted, {"read", "killed"})
      BY <2>1, <2>2
    <3>2. ~Fresh(accepted)
      BY <2>1, <3>1
    <3> QED
      BY <2>1, <3>2
  <2>5. WaitingOK'
    BY <2>1, <2>2
  <2> QED
    BY <2>3, <2>4, <2>5
<1>4. CASE ForkFails
  BY <1>4, TypeStep, ConnQuiet DEF ForkFails
<1>5. CASE CloseAccepted
  BY <1>5 DEF CloseAccepted
<1>6. CASE Reap
  BY <1>6 DEF Reap
<1>7. CASE ReapDone
  BY <1>7 DEF ReapDone
<1>8. CASE Drain
  BY <1>8 DEF Drain
<1>9. CASE DrainDone
  BY <1>9 DEF DrainDone
<1>10. CASE ServerKilled
  BY <1>10, TypeStep, ConnQuiet DEF ServerKilled
<1>11. CASE Restart
  BY <1>11 DEF Restart
<1>12. ASSUME NEW s \in Sessions, ChildStart(s) PROVE ConnInv'
  BY <1>12, TypeStep, ConnQuiet DEF ChildStart
<1>13. ASSUME NEW s \in Sessions, AcquireLock(s) PROVE ConnInv'
  BY <1>13, <1>0, ConnChild
<1>14. ASSUME NEW s \in Sessions, CheckSize(s) PROVE ConnInv'
  BY <1>14, <1>0, ConnChild
<1>15. ASSUME NEW s \in Sessions, SeekLast(s) PROVE ConnInv'
  BY <1>15, <1>0, ConnChild
<1>16. ASSUME NEW s \in Sessions, ReadLast(s) PROVE ConnInv'
  BY <1>16, <1>0, ConnChild
<1>17. ASSUME NEW s \in Sessions, SendLast(s) PROVE ConnInv'
  <2>1. /\ cpc[s] = "send" /\ cpc' = [cpc EXCEPT ![s] = "recv"]
        /\ \A t \in Sessions : t # s => s2c'[t] = s2c[t]
        /\ UNCHANGED <<ppc, accepted, backlog, c2s, reset, clpc, round>>
    BY <1>17 DEF SendLast
  <2>2. Waiting(s) /\ ~Fresh(s)
    BY <2>1
  <2> HIDE DEF Queued
  <2>3. QueueOK'
    <3>1. \A t : Queued(t)' <=> Queued(t)
      BY <2>1 DEF Queued
    <3> QED
      BY <2>1, <3>1
  <2>4. FreshOK'
    BY <2>1, <2>2
  <2>5. WaitingOK'
    <3> SUFFICES ASSUME NEW t \in Sessions, Waiting(t)'
                 PROVE  /\ ClientAt(t, {"read", "killed"})'
                        /\ t \notin reset'
                        /\ s2c'[t] = NoMsg /\ c2s'[t] = NoMsg
      OBVIOUS
    <3>1. t # s
      <4>1. ~Queued(s) /\ ~(ppc = "fork" /\ accepted = s)
        BY <2>1
      <4>2. ~Queued(s)' /\ cpc'[s] = "recv"
        BY <2>1, <4>1 DEF Queued
      <4> QED
        BY <2>1, <4>1, <4>2
    <3>2. Waiting(t)
      BY <2>1, <3>1 DEF Queued
    <3> QED
      BY <2>1, <3>1, <3>2
  <2> QED
    BY <2>3, <2>4, <2>5
<1>18. ASSUME NEW s \in Sessions, Receive(s) PROVE ConnInv'
  BY <1>18, <1>0, ConnChild
<1>19. ASSUME NEW s \in Sessions, ReceiveEof(s) PROVE ConnInv'
  BY <1>19, <1>0, ConnChild
<1>20. ASSUME NEW s \in Sessions, SeekEnd(s) PROVE ConnInv'
  BY <1>20, <1>0, ConnChild
<1>21. ASSUME NEW s \in Sessions, WriteRecord(s) PROVE ConnInv'
  BY <1>21, <1>0, ConnChild
<1>22. ASSUME NEW s \in Sessions, Unlock(s) PROVE ConnInv'
  BY <1>22, <1>0, ConnChild
<1>23. ASSUME NEW s \in Sessions, Exit(s) PROVE ConnInv'
  BY <1>23, <1>0, ConnChild
<1>24. ASSUME NEW s \in Sessions, ReceiveReset(s) PROVE ConnInv'
  BY <1>24, <1>0, ConnChild
<1>25. ASSUME NEW s \in Sessions, ChildAborts(s) PROVE ConnInv'
  <2>1. \A t \in Sessions :
          /\ c2s'[t] \in {c2s[t], NoMsg}
          /\ cpc'[t] = "none" <=> cpc[t] = "none"
          /\ cpc'[t] \in BeforeRecv => cpc[t] \in BeforeRecv
    BY <1>25 DEF ChildAborts, ProcessEnds, Live, After, Critical
  <2> QED
    BY <1>25, <2>1, TypeStep, ConnQuiet DEF ChildAborts, ProcessEnds
<1>26. ASSUME NEW c \in Clients, Connect(c) PROVE ConnInv'
  <2> DEFINE z == Session(c)
  <2>1. /\ z \in Sessions /\ z[1] = c /\ z[2] = round[c]
        /\ \A t \in Sessions : t # z => t[1] # c \/ t[2] # round[c]
    BY <1>26 DEF Connect
  <2>2. /\ clpc[c] = "connect" /\ clpc' = [clpc EXCEPT ![c] = "read"]
        /\ backlog' = Append(backlog, z)
        /\ UNCHANGED <<ppc, accepted, cpc, s2c, c2s, reset, round>>
    BY <1>26 DEF Connect
  <2>3. ~Waiting(z) /\ Fresh(z)
    BY <2>1, <2>2
  <2>4. /\ \A t \in Sessions : Queued(t)' => Queued(t) \/ t = z
        /\ \A i, j \in 1 .. Len(backlog') : backlog'[i] = backlog'[j] => i = j
    BY <2>1, <2>2, <2>3, QueueConnect
  <2>5. cpc[z] = "none" /\ s2c[z] = NoMsg /\ c2s[z] = NoMsg /\ z \notin reset
    BY <2>1, <2>3
  <2> HIDE DEF Queued
  <2>6. QueueOK'
    BY <2>1, <2>2, <2>3, <2>4, <2>5
  <2>7. FreshOK'
    BY <2>1, <2>2
  <2>8. WaitingOK'
    BY <2>1, <2>2, <2>3, <2>4, <2>5
  <2> QED
    BY <2>6, <2>7, <2>8
<1>27. ASSUME NEW c \in Clients, ConnectRefused(c) PROVE ConnInv'
  <2>1. QueueOK'
    BY <1>27 DEF ConnectRefused
  <2>2. FreshOK'
    BY <1>27 DEF ConnectRefused
  <2>3. WaitingOK'
    <3>1. ~Waiting(Session(c))
      <4>1. Session(c) \in Sessions /\ clpc[c] = "connect"
        BY <1>27 DEF ConnectRefused
      <4> HIDE DEF Waiting
      <4> QED
        BY <4>1
    <3> HIDE DEF Waiting
    <3> QED
      BY <1>27, <3>1, WaitingQuiet DEF ConnectRefused
  <2> QED
    BY <2>1, <2>2, <2>3
<1>28. ASSUME NEW c \in Clients, ReadMessage(c) PROVE ConnInv'
  <2> DEFINE z == Session(c)
  <2>1. /\ z \in Sessions /\ z[1] = c /\ z[2] = round[c]
        /\ \A t \in Sessions : t # z => t[1] # c \/ t[2] # round[c]
    BY <1>28 DEF ReadMessage
  <2>2. QueueOK'
    BY <1>28, <2>1 DEF ReadMessage
  <2>3. FreshOK'
    BY <1>28, <2>1 DEF ReadMessage
  <2>4. WaitingOK'
    <3>1. ~Waiting(z)
      BY <1>28, <2>1 DEF ReadMessage
    <3> HIDE DEF Waiting
    <3> QED
      BY <1>28, <2>1, <3>1, WaitingQuiet DEF ReadMessage
  <2> QED
    BY <2>2, <2>3, <2>4
<1>29. ASSUME NEW c \in Clients, ReadEof(c) PROVE ConnInv'
  <2> DEFINE z == Session(c)
  <2>1. /\ z \in Sessions /\ z[1] = c /\ z[2] = round[c]
        /\ \A t \in Sessions : t # z => t[1] # c \/ t[2] # round[c]
    BY <1>29 DEF ReadEof
  <2>2. QueueOK'
    BY <1>29, <2>1 DEF ReadEof
  <2>3. FreshOK'
    BY <1>29, <2>1 DEF ReadEof
  <2>4. WaitingOK'
    <3>1. ~Waiting(z)
      <4>1. ~Queued(z) /\ accepted # z /\ cpc[z] \notin Live
        BY <1>29, <2>1 DEF ReadEof, ServerEnd
      <4> QED
        BY <4>1 DEF Live, Critical
    <3> HIDE DEF Waiting
    <3> QED
      BY <1>29, <3>1, WaitingQuiet DEF ReadEof
  <2> QED
    BY <2>2, <2>3, <2>4
<1>30. ASSUME NEW c \in Clients, ReadReset(c) PROVE ConnInv'
  <2> DEFINE z == Session(c)
  <2>1. /\ z \in Sessions /\ z[1] = c /\ z[2] = round[c]
        /\ \A t \in Sessions : t # z => t[1] # c \/ t[2] # round[c]
    BY <1>30 DEF ReadReset
  <2>2. QueueOK'
    BY <1>30, <2>1 DEF ReadReset
  <2>3. FreshOK'
    BY <1>30, <2>1 DEF ReadReset
  <2>4. WaitingOK'
    <3>1. ~Waiting(z)
      BY <1>30, <2>1 DEF ReadReset
    <3> HIDE DEF Waiting
    <3> QED
      BY <1>30, <2>1, <3>1, WaitingQuiet DEF ReadReset
  <2> QED
    BY <2>2, <2>3, <2>4
<1>31. ASSUME NEW c \in Clients, SendAnswer(c) PROVE ConnInv'
  <2> DEFINE z == Session(c)
  <2>1. /\ z \in Sessions /\ z[1] = c /\ z[2] = round[c]
        /\ \A t \in Sessions : t # z => t[1] # c \/ t[2] # round[c]
    BY <1>31 DEF SendAnswer
  <2>2. QueueOK'
    BY <1>31, <2>1 DEF SendAnswer
  <2>3. FreshOK'
    BY <1>31, <2>1 DEF SendAnswer
  <2>4. WaitingOK'
    <3>1. ~Waiting(z)
      BY <1>31, <2>1 DEF SendAnswer
    <3> HIDE DEF Waiting
    <3> QED
      BY <1>31, <2>1, <3>1, WaitingQuiet DEF SendAnswer
  <2> QED
    BY <2>2, <2>3, <2>4
<1>32. ASSUME NEW c \in Clients, ClientKilled(c) PROVE ConnInv'
  <2> DEFINE z == Session(c)
  <2>1. /\ z \in Sessions /\ z[1] = c /\ z[2] = round[c]
        /\ \A t \in Sessions : t # z => t[1] # c \/ t[2] # round[c]
    BY <1>32 DEF ClientKilled
  <2>2. QueueOK'
    BY <1>32, <2>1 DEF ClientKilled
  <2>3. FreshOK'
    BY <1>32, <2>1 DEF ClientKilled
  <2>4. WaitingOK'
    <3>1. Waiting(z) => s2c[z] = NoMsg /\ reset' = reset
      BY <1>32, <2>1 DEF ClientKilled
    <3>2. \A t \in Sessions : t # z => (t \in reset' <=> t \in reset)
      BY <1>32 DEF ClientKilled
    <3>3. /\ clpc' = [clpc EXCEPT ![c] = "killed"]
          /\ s2c' = [s2c EXCEPT ![z] = NoMsg]
          /\ UNCHANGED <<ppc, accepted, cpc, backlog, c2s, round>>
      BY <1>32 DEF ClientKilled
    <3> HIDE DEF z
    <3>4. ASSUME NEW t \in Sessions, Waiting(t)' PROVE Waiting(t)
      BY <3>3, <3>4
    <3> HIDE DEF Waiting
    <3> QED
      BY <2>1, <3>1, <3>2, <3>3, <3>4
  <2> QED
    BY <2>2, <2>3, <2>4
<1>33. CASE UNCHANGED vars
  BY <1>33
<1> QED
  BY <1>1, <1>2, <1>3, <1>4, <1>5, <1>6, <1>7, <1>8, <1>9, <1>10, <1>11, <1>12,
     <1>13, <1>14, <1>15, <1>16, <1>17, <1>18, <1>19, <1>20, <1>21, <1>22,
     <1>23, <1>24, <1>25, <1>26, <1>27, <1>28, <1>29, <1>30, <1>31, <1>32,
     <1>33
  DEF Next, ParentStep, ChildStep, ClientStep, Failure, Idle

-----------------------------------------------------------------------------
(* Answers                                                                 *)

(* At the start no child waits for an answer.                              *)
LEMMA AnswerInit == Init => AnswerInv
  BY DEF Init, AnswerInv, Answering

(* Resetting the queue does not concern a session whose child runs.        *)
LEMMA DropReset ==
  ASSUME TypeInv, ConnInv, DropBacklog, NEW t \in Sessions, cpc[t] # "none"
  PROVE  t \in reset' <=> t \in reset
<1>1. ~Queued(t)
  BY DEF ConnInv, QueueOK
<1>2. CASE ListenerOpen'
  BY <1>2 DEF DropBacklog
<1>3. CASE ~ListenerOpen'
  BY <1>1, <1>3 DEF DropBacklog
<1> QED
  BY <1>2, <1>3

(* The session a client is in.                                             *)
LEMMA ClientSession ==
  ASSUME TypeInv, NEW c \in Clients, clpc[c] \in {"connect", "read", "send"}
  PROVE  \E z \in Sessions :
           /\ z = Session(c) /\ z[1] = c /\ z[2] = round[c]
           /\ \A t \in Sessions : t # z => t[1] # c \/ t[2] # round[c]
<1> DEFINE z == <<c, round[c]>>
<1>1. round[c] \in 1 .. LoopMax
  BY StoreServerAssumption DEF TypeInv, TypeOK, PlaceOK
<1>2. z \in Sessions /\ z = Session(c) /\ z[1] = c /\ z[2] = round[c]
  BY <1>1, SessionType DEF Session
<1>3. \A t \in Sessions : t # z => t[1] # c \/ t[2] # round[c]
  BY SessionType
<1> QED
  BY <1>2, <1>3

(* Every step keeps AnswerInv.                                             *)
LEMMA AnswerStep ==
  TypeInv /\ ConnInv /\ AnswerInv /\ [Next]_vars => AnswerInv'
<1> SUFFICES ASSUME TypeInv, ConnInv, AnswerInv, [Next]_vars PROVE AnswerInv'
  OBVIOUS
<1> USE StoreServerAssumption, SessionType
    DEF TypeInv, TypeOK, AnswerInv, Answering, AnswerOK, ToStoreOK, ClientAt, Client,
        At, Goto, Session, vars, parentVars, childVars, netVars, clientVars
<1>1. CASE Accept
  BY <1>1 DEF Accept
<1>2. CASE AcceptFails
  BY <1>2, DropReset DEF AcceptFails
<1>3. CASE Fork
  BY <1>3 DEF Fork
<1>4. CASE ForkFails
  BY <1>4, DropReset DEF ForkFails
<1>5. CASE CloseAccepted
  BY <1>5 DEF CloseAccepted
<1>6. CASE Reap
  BY <1>6 DEF Reap
<1>7. CASE ReapDone
  BY <1>7 DEF ReapDone
<1>8. CASE Drain
  BY <1>8 DEF Drain
<1>9. CASE DrainDone
  BY <1>9 DEF DrainDone
<1>10. CASE ServerKilled
  BY <1>10, DropReset DEF ServerKilled
<1>11. CASE Restart
  BY <1>11 DEF Restart
<1>12. ASSUME NEW s \in Sessions, ChildStart(s) PROVE AnswerInv'
  BY <1>12, DropReset DEF ChildStart
<1>13. ASSUME NEW s \in Sessions, AcquireLock(s) PROVE AnswerInv'
  BY <1>13 DEF AcquireLock
<1>14. ASSUME NEW s \in Sessions, CheckSize(s) PROVE AnswerInv'
  <2>1. /\ \A t \in Sessions : t # s => cpc'[t] = cpc[t] /\ tosend'[t] = tosend[t]
        /\ cpc'[s] \in {"send", "seek"}
        /\ UNCHANGED <<tostore, s2c, c2s, reset, clpc, round, got>>
    BY <1>14 DEF CheckSize
  <2> SUFFICES ASSUME NEW t \in Sessions PROVE Answering(t)'
    OBVIOUS
  <2>2. t = s => Answering(t)'
    BY <2>1
  <2>3. t # s => Answering(t)'
    BY <2>1
  <2> QED
    BY <2>2, <2>3
<1>15. ASSUME NEW s \in Sessions, SeekLast(s) PROVE AnswerInv'
  BY <1>15 DEF SeekLast
<1>16. ASSUME NEW s \in Sessions, ReadLast(s) PROVE AnswerInv'
  BY <1>16 DEF ReadLast
<1>17. ASSUME NEW s \in Sessions, SendLast(s) PROVE AnswerInv'
  <2>1. /\ ClientAt(s, {"read", "killed"}) /\ s \notin reset /\ c2s[s] = NoMsg
    BY <1>17 DEF SendLast, ConnInv, WaitingOK, Waiting, BeforeRecv
  <2>2. AnswerOK(s)'
    BY <1>17, <2>1 DEF SendLast, ClientEnd
  <2>3. cpc'[s] = "recv"
    BY <1>17 DEF SendLast
  <2>4. ASSUME NEW t \in Sessions, t # s
        PROVE  Answering(t)'
    BY <1>17, <2>4 DEF SendLast
  <2> QED
    BY <2>2, <2>3, <2>4
<1>18. ASSUME NEW s \in Sessions, Receive(s) PROVE AnswerInv'
  <2>1. c2s[s] = ClientMessage(s[1], tosend[s])
    BY <1>18 DEF Receive
  <2>2. ToStoreOK(s)' /\ cpc'[s] = "append"
    BY <1>18, <2>1 DEF Receive, Served
  <2>3. ASSUME NEW t \in Sessions, t # s
        PROVE  Answering(t)'
    BY <1>18, <2>3 DEF Receive
  <2> QED
    BY <2>2, <2>3
<1>19. ASSUME NEW s \in Sessions, ReceiveEof(s) PROVE AnswerInv'
  <2>1. ClientMessage(s[1], tosend[s]) # NoMsg
    BY <1>19, MessageTypes DEF ReceiveEof, PlaceOK
  <2>2. clpc[s[1]] = "killed"
    BY <1>19, <2>1 DEF ReceiveEof, ClientEnd
  <2>3. ToStoreOK(s)' /\ cpc'[s] = "append"
    BY <1>19, <2>2 DEF ReceiveEof
  <2>4. ASSUME NEW t \in Sessions, t # s
        PROVE  Answering(t)'
    BY <1>19, <2>4 DEF ReceiveEof
  <2> QED
    BY <2>3, <2>4
<1>20. ASSUME NEW s \in Sessions, SeekEnd(s) PROVE AnswerInv'
  BY <1>20 DEF SeekEnd
<1>21. ASSUME NEW s \in Sessions, WriteRecord(s) PROVE AnswerInv'
  BY <1>21 DEF WriteRecord
<1>22. ASSUME NEW s \in Sessions, Unlock(s) PROVE AnswerInv'
  BY <1>22 DEF Unlock
<1>23. ASSUME NEW s \in Sessions, Exit(s) PROVE AnswerInv'
  BY <1>23 DEF Exit, ProcessEnds
<1>24. ASSUME NEW s \in Sessions, ReceiveReset(s) PROVE AnswerInv'
  BY <1>24 DEF ReceiveReset, ProcessEnds
<1>25. ASSUME NEW s \in Sessions, ChildAborts(s) PROVE AnswerInv'
  BY <1>25, DropReset DEF ChildAborts, ProcessEnds
<1>26. ASSUME NEW c \in Clients, Connect(c) PROVE AnswerInv'
  BY <1>26 DEF Connect
<1>27. ASSUME NEW c \in Clients, ConnectRefused(c) PROVE AnswerInv'
  BY <1>27 DEF ConnectRefused
<1>28. ASSUME NEW c \in Clients, ReadMessage(c) PROVE AnswerInv'
  <2>1. PICK z \in Sessions :
          /\ z = Session(c) /\ z[1] = c /\ z[2] = round[c]
          /\ \A t \in Sessions : t # z => t[1] # c \/ t[2] # round[c]
    BY <1>28, ClientSession DEF ReadMessage
  <2>2. Answering(z)'
    BY <1>28, <2>1 DEF ReadMessage
  <2>3. ASSUME NEW t \in Sessions, t # z
        PROVE  Answering(t)'
    BY <1>28, <2>1, <2>3 DEF ReadMessage
  <2> HIDE DEF Answering
  <2> QED
    BY <2>1, <2>2, <2>3
<1>29. ASSUME NEW c \in Clients, ReadEof(c) PROVE AnswerInv'
  <2>1. PICK z \in Sessions :
          /\ z = Session(c) /\ z[1] = c /\ z[2] = round[c]
          /\ \A t \in Sessions : t # z => t[1] # c \/ t[2] # round[c]
    BY <1>29, ClientSession DEF ReadEof
  <2>2. Answering(z)'
    BY <1>29, <2>1 DEF ReadEof, ServerEnd, Live, Critical
  <2>3. ASSUME NEW t \in Sessions, t # z
        PROVE  Answering(t)'
    BY <1>29, <2>1, <2>3 DEF ReadEof
  <2> HIDE DEF Answering
  <2> QED
    BY <2>1, <2>2, <2>3
<1>30. ASSUME NEW c \in Clients, ReadReset(c) PROVE AnswerInv'
  <2>1. PICK z \in Sessions :
          /\ z = Session(c) /\ z[1] = c /\ z[2] = round[c]
          /\ \A t \in Sessions : t # z => t[1] # c \/ t[2] # round[c]
    BY <1>30, ClientSession DEF ReadReset
  <2>2. Answering(z)'
    BY <1>30, <2>1 DEF ReadReset
  <2>3. ASSUME NEW t \in Sessions, t # z
        PROVE  Answering(t)'
    BY <1>30, <2>1, <2>3 DEF ReadReset
  <2> HIDE DEF Answering
  <2> QED
    BY <2>1, <2>2, <2>3
<1>31. ASSUME NEW c \in Clients, SendAnswer(c) PROVE AnswerInv'
  <2>1. PICK z \in Sessions :
          /\ z = Session(c) /\ z[1] = c /\ z[2] = round[c]
          /\ \A t \in Sessions : t # z => t[1] # c \/ t[2] # round[c]
    BY <1>31, ClientSession DEF SendAnswer
  <2>2. Answering(z)'
    <3>1. /\ clpc[c] = "send" /\ clpc'[c] # "killed"
          /\ round'[c] = round[c] + 1 /\ round[c] \in Nat
          /\ UNCHANGED <<cpc, tosend, tostore, reset>>
      BY <1>31 DEF SendAnswer
    <3>2. CASE cpc[z] = "recv"
      <4>1. got[c] = tosend[z] /\ z \notin reset
        <5>1. AnswerOK(z)
          BY <3>2
        <5>2. ~(z[2] < round[z[1]]) /\ z[1] = c
          BY <2>1, <3>1
        <5> QED
          BY <3>1, <5>1, <5>2
      <4>2. c2s'[z] = ClientMessage(c, got[c])
        BY <1>31, <2>1, <3>2 DEF SendAnswer, Live, Critical
      <4>3. c2s'[z] = ClientMessage(z[1], tosend'[z]) /\ z[2] < round'[z[1]]
        BY <2>1, <3>1, <4>1, <4>2
      <4> QED
        BY <3>1, <3>2, <4>1, <4>3
    <3>3. CASE cpc[z] # "recv"
      BY <2>1, <3>1, <3>3
    <3> QED
      BY <3>2, <3>3
  <2>3. ASSUME NEW t \in Sessions, t # z
        PROVE  Answering(t)'
    BY <1>31, <2>1, <2>3 DEF SendAnswer
  <2> HIDE DEF Answering
  <2> QED
    BY <2>1, <2>2, <2>3
<1>32. ASSUME NEW c \in Clients, ClientKilled(c) PROVE AnswerInv'
  BY <1>32 DEF ClientKilled
<1>33. CASE UNCHANGED vars
  BY <1>33
<1> QED
  BY <1>1, <1>2, <1>3, <1>4, <1>5, <1>6, <1>7, <1>8, <1>9, <1>10, <1>11, <1>12,
     <1>13, <1>14, <1>15, <1>16, <1>17, <1>18, <1>19, <1>20, <1>21, <1>22,
     <1>23, <1>24, <1>25, <1>26, <1>27, <1>28, <1>29, <1>30, <1>31, <1>32,
     <1>33
  DEF Next, ParentStep, ChildStep, ClientStep, Failure, Idle

-----------------------------------------------------------------------------
(* The lock                                                                *)

(* At the start no child works on the store.                               *)
LEMMA LockInit == Init => LockInv
  BY DEF Init, LockInv, Critical

(* Every step keeps LockInv: only the holder of the lock changes the store.*)
LEMMA LockStep ==
  TypeInv /\ ConnInv /\ LockInv /\ [Next]_vars => LockInv'
<1> SUFFICES ASSUME TypeInv, ConnInv, LockInv, [Next]_vars, Exclusive
             PROVE  LockInv'
  BY DEF LockInv
<1> USE StoreServerAssumption, SessionType
    DEF TypeInv, TypeOK, LockInv, Critical, At, Goto, ReleaseLock, vars,
        parentVars, childVars, netVars, clientVars
<1>1. CASE Accept
  BY <1>1 DEF Accept
<1>2. CASE AcceptFails
  BY <1>2 DEF AcceptFails
<1>3. CASE Fork
  BY <1>3 DEF Fork, QueueOK, ConnInv
<1>4. CASE ForkFails
  BY <1>4 DEF ForkFails
<1>5. CASE CloseAccepted
  BY <1>5 DEF CloseAccepted
<1>6. CASE Reap
  BY <1>6 DEF Reap
<1>7. CASE ReapDone
  BY <1>7 DEF ReapDone
<1>8. CASE Drain
  BY <1>8 DEF Drain
<1>9. CASE DrainDone
  BY <1>9 DEF DrainDone
<1>10. CASE ServerKilled
  BY <1>10 DEF ServerKilled
<1>11. CASE Restart
  BY <1>11 DEF Restart
<1>12. ASSUME NEW s \in Sessions, ChildStart(s) PROVE LockInv'
  BY <1>12 DEF ChildStart
<1>13. ASSUME NEW s \in Sessions, AcquireLock(s) PROVE LockInv'
  BY <1>13 DEF AcquireLock
<1>14. ASSUME NEW s \in Sessions, CheckSize(s) PROVE LockInv'
  BY <1>14 DEF CheckSize, LastMessage
<1>15. ASSUME NEW s \in Sessions, SeekLast(s) PROVE LockInv'
  BY <1>15 DEF SeekLast
<1>16. ASSUME NEW s \in Sessions, ReadLast(s) PROVE LockInv'
  BY <1>16 DEF ReadLast, LastMessage
<1>17. ASSUME NEW s \in Sessions, SendLast(s) PROVE LockInv'
  BY <1>17 DEF SendLast
<1>18. ASSUME NEW s \in Sessions, Receive(s) PROVE LockInv'
  BY <1>18 DEF Receive
<1>19. ASSUME NEW s \in Sessions, ReceiveEof(s) PROVE LockInv'
  BY <1>19 DEF ReceiveEof
<1>20. ASSUME NEW s \in Sessions, SeekEnd(s) PROVE LockInv'
  BY <1>20 DEF SeekEnd
<1>21. ASSUME NEW s \in Sessions, WriteRecord(s) PROVE LockInv'
  BY <1>21 DEF WriteRecord
<1>22. ASSUME NEW s \in Sessions, Unlock(s) PROVE LockInv'
  BY <1>22 DEF Unlock
<1>23. ASSUME NEW s \in Sessions, Exit(s) PROVE LockInv'
  BY <1>23 DEF Exit, ProcessEnds
<1>24. ASSUME NEW s \in Sessions, ReceiveReset(s) PROVE LockInv'
  BY <1>24 DEF ReceiveReset, ProcessEnds
<1>25. ASSUME NEW s \in Sessions, ChildAborts(s) PROVE LockInv'
  BY <1>25 DEF ChildAborts, ProcessEnds
<1>26. ASSUME NEW c \in Clients, Connect(c) PROVE LockInv'
  BY <1>26 DEF Connect
<1>27. ASSUME NEW c \in Clients, ConnectRefused(c) PROVE LockInv'
  BY <1>27 DEF ConnectRefused
<1>28. ASSUME NEW c \in Clients, ReadMessage(c) PROVE LockInv'
  BY <1>28 DEF ReadMessage
<1>29. ASSUME NEW c \in Clients, ReadEof(c) PROVE LockInv'
  BY <1>29 DEF ReadEof
<1>30. ASSUME NEW c \in Clients, ReadReset(c) PROVE LockInv'
  BY <1>30 DEF ReadReset
<1>31. ASSUME NEW c \in Clients, SendAnswer(c) PROVE LockInv'
  BY <1>31 DEF SendAnswer
<1>32. ASSUME NEW c \in Clients, ClientKilled(c) PROVE LockInv'
  BY <1>32 DEF ClientKilled
<1>33. CASE UNCHANGED vars
  BY <1>33
<1> QED
  BY <1>1, <1>2, <1>3, <1>4, <1>5, <1>6, <1>7, <1>8, <1>9, <1>10, <1>11, <1>12,
     <1>13, <1>14, <1>15, <1>16, <1>17, <1>18, <1>19, <1>20, <1>21, <1>22,
     <1>23, <1>24, <1>25, <1>26, <1>27, <1>28, <1>29, <1>30, <1>31, <1>32,
     <1>33
  DEF Next, ParentStep, ChildStep, ClientStep, Failure, Idle

-----------------------------------------------------------------------------
(* The theorems                                                            *)

(* IInv, the inductive invariant, holds always.                            *)
THEOREM Invariant == Spec => []IInv
<1>1. Init => IInv
  BY TypeInit, ConnInit, AnswerInit, LockInit DEF IInv
<1>2. IInv /\ [Next]_vars => IInv'
  BY TypeStep, ConnStep, AnswerStep, LockStep DEF IInv
<1> QED
  BY <1>1, <1>2, PTL DEF Spec

(* A session that has recorded stays so, and no other joins, unless a child *)
(* writes: the frame of the refinement for steps of parent and children.   *)
LEMMA RecordedFrame ==
  ASSUME \A s \in Sessions :
           cpc'[s] \in After \cup {"exited"} <=> cpc[s] \in After \cup {"exited"}
  PROVE  Recorded' = Recorded
  BY DEF Recorded

(* The set of killed clients depends on the places of the clients only.    *)
LEMMA GoneFrame ==
  ASSUME \A c \in Clients : clpc'[c] = "killed" <=> clpc[c] = "killed"
  PROVE  Gone' = Gone
  BY DEF Gone

(* AtomicStore speaks of the same messages.                                *)
LEMMA SameMessages ==
  /\ \A m : Abs!ServerBump(m) = ServerBump(m)
  /\ \A c, m : Abs!Served(c, m) = Served(c, m)
  /\ Abs!LastMessage(store) = LastMessage(store)
  BY DEF Abs!ServerBump, ServerBump, Abs!Served, Served, Abs!ClientMessage,
         ClientMessage, Abs!Increment, Increment, Abs!LastMessage, LastMessage,
         Abs!DefaultMessage, DefaultMessage

(* The step that writes is Serve, or AppendIndeterminate when the client   *)
(* was killed.                                                             *)
LEMMA WriteIsServe ==
  ASSUME Exclusive, IInv, NEW s \in Sessions, WriteRecord(s)
  PROVE  Abs!Serve(s) \/ Abs!AppendIndeterminate(s)
<1> USE StoreServerAssumption, SessionType DEF IInv, TypeInv, TypeOK, At, Goto
<1>1. /\ cpc[s] = "write" /\ cpc' = [cpc EXCEPT ![s] = "unlock"]
      /\ store' = PutRecord(store, pos[s], tostore[s]) /\ clpc' = clpc
  BY DEF WriteRecord, clientVars
<1>2. /\ pos[s] = Len(store) /\ tosend[s] = LastMessage(store)
      /\ tostore[s] \in message_t /\ ToStoreOK(s)
  BY <1>1 DEF LockInv, PlaceOK, AnswerInv, Answering
<1>3. store' = Append(store, tostore[s])
  BY <1>1, <1>2, PutRecordAppends
<1>4. s \notin Recorded /\ Recorded' = Recorded \cup {s}
  BY <1>1 DEF Recorded, After
<1>5. Gone' = Gone
  BY <1>1, GoneFrame
<1>6. CASE tostore[s] = Served(s[1], tosend[s])
  BY <1>2, <1>3, <1>4, <1>5, <1>6, SameMessages DEF Abs!Serve
<1>7. CASE /\ clpc[s[1]] = "killed"
           /\ \E m \in StackMessages : tostore[s] = ServerBump(m)
  BY <1>3, <1>4, <1>5, <1>7, SameMessages
  DEF Abs!AppendIndeterminate, Gone
<1> QED
  BY <1>2, <1>6, <1>7 DEF ToStoreOK, Client

(* The refinement, step by step.                                           *)
LEMMA StepRefines ==
  ASSUME Exclusive, IInv, [Next]_vars
  PROVE  [Abs!Next]_(Abs!vars)
<1> DEFINE Stutter == UNCHANGED <<store, Recorded, Gone>>
<1>0. /\ Stutter => [Abs!Next]_(Abs!vars)
      /\ IInv => TypeInv /\ ConnInv
  BY DEF Abs!vars, IInv
<1> USE StoreServerAssumption, SessionType
    DEF TypeInv, TypeOK, At, Goto, vars, parentVars, childVars, netVars,
        clientVars, After
<1>1. CASE Accept
  BY <1>0, <1>1, RecordedFrame, GoneFrame DEF Accept
<1>2. CASE AcceptFails
  BY <1>0, <1>2, RecordedFrame, GoneFrame DEF AcceptFails
<1>3. CASE Fork
  BY <1>0, <1>3, RecordedFrame, GoneFrame DEF Fork, QueueOK, ConnInv
<1>4. CASE ForkFails
  BY <1>0, <1>4, RecordedFrame, GoneFrame DEF ForkFails
<1>5. CASE CloseAccepted
  BY <1>0, <1>5, RecordedFrame, GoneFrame DEF CloseAccepted
<1>6. CASE Reap
  BY <1>0, <1>6, RecordedFrame, GoneFrame DEF Reap
<1>7. CASE ReapDone
  BY <1>0, <1>7, RecordedFrame, GoneFrame DEF ReapDone
<1>8. CASE Drain
  BY <1>0, <1>8, RecordedFrame, GoneFrame DEF Drain
<1>9. CASE DrainDone
  BY <1>0, <1>9, RecordedFrame, GoneFrame DEF DrainDone
<1>10. CASE ServerKilled
  BY <1>0, <1>10, RecordedFrame, GoneFrame DEF ServerKilled
<1>11. CASE Restart
  BY <1>0, <1>11, RecordedFrame, GoneFrame DEF Restart
<1>12. ASSUME NEW s \in Sessions, ChildStart(s) PROVE Stutter
  BY <1>0, <1>12, RecordedFrame, GoneFrame DEF ChildStart
<1>13. ASSUME NEW s \in Sessions, AcquireLock(s) PROVE Stutter
  BY <1>0, <1>13, RecordedFrame, GoneFrame DEF AcquireLock
<1>14. ASSUME NEW s \in Sessions, CheckSize(s) PROVE Stutter
  BY <1>0, <1>14, RecordedFrame, GoneFrame DEF CheckSize
<1>15. ASSUME NEW s \in Sessions, SeekLast(s) PROVE Stutter
  BY <1>0, <1>15, RecordedFrame, GoneFrame DEF SeekLast
<1>16. ASSUME NEW s \in Sessions, ReadLast(s) PROVE Stutter
  BY <1>0, <1>16, RecordedFrame, GoneFrame DEF ReadLast
<1>17. ASSUME NEW s \in Sessions, SendLast(s) PROVE Stutter
  BY <1>0, <1>17, RecordedFrame, GoneFrame DEF SendLast
<1>18. ASSUME NEW s \in Sessions, Receive(s) PROVE Stutter
  BY <1>0, <1>18, RecordedFrame, GoneFrame DEF Receive
<1>19. ASSUME NEW s \in Sessions, ReceiveEof(s) PROVE Stutter
  BY <1>0, <1>19, RecordedFrame, GoneFrame DEF ReceiveEof
<1>20. ASSUME NEW s \in Sessions, SeekEnd(s) PROVE Stutter
  BY <1>0, <1>20, RecordedFrame, GoneFrame DEF SeekEnd
<1>21. ASSUME NEW s \in Sessions, WriteRecord(s) PROVE [Abs!Next]_(Abs!vars)
  BY <1>21, WriteIsServe DEF Abs!Next, Abs!Sessions, Sessions
<1>22. ASSUME NEW s \in Sessions, Unlock(s) PROVE Stutter
  BY <1>0, <1>22, RecordedFrame, GoneFrame DEF Unlock
<1>23. ASSUME NEW s \in Sessions, Exit(s) PROVE Stutter
  BY <1>0, <1>23, RecordedFrame, GoneFrame DEF Exit, ProcessEnds
<1>24. ASSUME NEW s \in Sessions, ReceiveReset(s) PROVE Stutter
  BY <1>0, <1>24, RecordedFrame, GoneFrame DEF ReceiveReset, ProcessEnds
<1>25. ASSUME NEW s \in Sessions, ChildAborts(s) PROVE Stutter
  <2>1. store' = store /\ Gone' = Gone
    BY <1>25, GoneFrame DEF ChildAborts
  <2>2. CASE cpc[s] \in After
    BY <1>0, <1>25, <2>1, <2>2, RecordedFrame DEF ChildAborts, ProcessEnds
  <2>3. CASE cpc[s] \notin After
    BY <1>0, <1>25, <2>1, <2>3, RecordedFrame
    DEF ChildAborts, ProcessEnds, Live, Before, Critical
  <2> QED
    BY <2>2, <2>3
<1>26. ASSUME NEW c \in Clients, Connect(c) PROVE Stutter
  BY <1>0, <1>26, RecordedFrame, GoneFrame DEF Connect
<1>27. ASSUME NEW c \in Clients, ConnectRefused(c) PROVE Stutter
  BY <1>0, <1>27, RecordedFrame, GoneFrame DEF ConnectRefused
<1>28. ASSUME NEW c \in Clients, ReadMessage(c) PROVE Stutter
  BY <1>0, <1>28, RecordedFrame, GoneFrame DEF ReadMessage
<1>29. ASSUME NEW c \in Clients, ReadEof(c) PROVE Stutter
  BY <1>0, <1>29, RecordedFrame, GoneFrame DEF ReadEof
<1>30. ASSUME NEW c \in Clients, ReadReset(c) PROVE Stutter
  BY <1>0, <1>30, RecordedFrame, GoneFrame DEF ReadReset
<1>31. ASSUME NEW c \in Clients, SendAnswer(c) PROVE Stutter
  BY <1>0, <1>31, RecordedFrame, GoneFrame DEF SendAnswer
<1>32. ASSUME NEW c \in Clients, ClientKilled(c) PROVE Abs!Vanish(c)
  <2>1. Gone' = Gone \cup {c}
    BY <1>0, <1>32 DEF ClientKilled, Gone
  <2>2. Recorded' = Recorded /\ store' = store
    BY <1>32, RecordedFrame DEF ClientKilled
  <2> QED
    BY <2>1, <2>2 DEF Abs!Vanish
<1>33. CASE UNCHANGED vars
  BY <1>0, <1>33, RecordedFrame, GoneFrame
<1> QED
  BY <1>0, <1>1, <1>2, <1>3, <1>4, <1>5, <1>6, <1>7, <1>8, <1>9, <1>10, <1>11, <1>12, <1>13, <1>14, <1>15, <1>16, <1>17, <1>18, <1>19, <1>20, <1>21, <1>22, <1>23, <1>24, <1>25, <1>26, <1>27, <1>28, <1>29, <1>30, <1>31, <1>32, <1>33
  DEF Next, ParentStep, ChildStep, ClientStep, Failure, Idle, Abs!Next

(* The exclusive server implements AtomicStore: every session appends one  *)
(* record in one indivisible step, the answer to the record before it.     *)
THEOREM ExclusiveIsAtomic == Exclusive => (Spec => AbsSpec)
<1> SUFFICES ASSUME Exclusive PROVE Spec => AbsSpec
  OBVIOUS
<1>1. Init => Abs!Init
  BY DEF Init, Abs!Init, Recorded, Gone, After
<1>2. IInv /\ [Next]_vars => [Abs!Next]_(Abs!vars)
  BY StepRefines
<1> QED
  BY <1>1, <1>2, Invariant, PTL DEF Spec, AbsSpec, Abs!Spec

-----------------------------------------------------------------------------
(* One record for each session                                             *)

(* A record that is appended leaves the records before it as they were.    *)
LEMMA AppendKeeps ==
  ASSUME NEW S, NEW st \in Seq(S), NEW m \in S
  PROVE  /\ Len(Append(st, m)) = Len(st) + 1 /\ Len(st) \in Nat
         /\ Append(st, m)[Len(st) + 1] = m
         /\ SubSeq(Append(st, m), 1, Len(st)) = st
         /\ \A i \in 1 .. Len(st) :
              /\ Append(st, m)[i] = st[i]
              /\ SubSeq(Append(st, m), 1, i - 1) = SubSeq(st, 1, i - 1)
<1>1. /\ Len(Append(st, m)) = Len(st) + 1 /\ Len(st) \in Nat
      /\ Append(st, m)[Len(st) + 1] = m
      /\ \A i \in 1 .. Len(st) : Append(st, m)[i] = st[i]
      /\ Append(st, m) \in Seq(S)
  OBVIOUS
<1> DEFINE ap == Append(st, m)
<1> HIDE DEF ap
<1>2. /\ Len(ap) = Len(st) + 1 /\ Len(st) \in Nat /\ ap \in Seq(S)
      /\ \A i \in 1 .. Len(st) : ap[i] = st[i]
  BY <1>1 DEF ap
<1>3. ASSUME NEW n \in 0 .. Len(st)
      PROVE  SubSeq(ap, 1, n) = SubSeq(st, 1, n)
  <2>1. /\ SubSeq(ap, 1, n) \in Seq(S) /\ Len(SubSeq(ap, 1, n)) = n
        /\ SubSeq(st, 1, n) \in Seq(S) /\ Len(SubSeq(st, 1, n)) = n
        /\ \A i \in 1 .. n : /\ SubSeq(ap, 1, n)[i] = ap[i]
                             /\ SubSeq(st, 1, n)[i] = st[i]
    BY <1>2
  <2>2. \A i \in 1 .. n : SubSeq(ap, 1, n)[i] = SubSeq(st, 1, n)[i]
    BY <1>2, <2>1
  <2> QED
    BY <2>1, <2>2, SeqEqual
<1>4. SubSeq(st, 1, Len(st)) = st
  <2>1. /\ SubSeq(st, 1, Len(st)) \in Seq(S)
        /\ Len(SubSeq(st, 1, Len(st))) = Len(st)
        /\ \A i \in 1 .. Len(st) : SubSeq(st, 1, Len(st))[i] = st[i]
    BY <1>1
  <2> QED
    BY <2>1, SeqEqual
<1>5. \A i \in 1 .. Len(st) : i - 1 \in 0 .. Len(st)
  BY <1>1
<1>6. /\ SubSeq(ap, 1, Len(st)) = st
      /\ \A i \in 1 .. Len(st) : SubSeq(ap, 1, i - 1) = SubSeq(st, 1, i - 1)
  BY <1>1, <1>3, <1>4, <1>5
<1> QED
  BY <1>1, <1>6 DEF ap

(* The step of AtomicStore that records for a session s: the records that  *)
(* were there answer as before, and the new one answers for s.             *)
LEMMA RecordsOneMore ==
  ASSUME store \in Seq(message_t), NEW m \in message_t,
         store' = Append(store, m), Gone' = Gone,
         NEW s, s \notin Recorded, Recorded' = Recorded \cup {s},
         \/ m = Abs!Served(s[1], Abs!LastMessage(store))
         \/ s[1] \in Gone /\ \E x \in StackMessages : m = Abs!ServerBump(x),
         OneRecordPerSession
  PROVE  OneRecordPerSession'
<1>0. PICK n \in Nat : n = Len(store)
  BY LenProperties
<1>1. /\ Len(store') = n + 1 /\ store'[n + 1] = m
      /\ SubSeq(store', 1, (n + 1) - 1) = store
      /\ \A i \in 1 .. n :
           /\ store'[i] = store[i]
           /\ SubSeq(store', 1, i - 1) = SubSeq(store, 1, i - 1)
  <2>1. (n + 1) - 1 = n
    OBVIOUS
  <2> QED
    BY <1>0, <2>1, AppendKeeps
<1>2. PICK old \in OldStores :
        /\ Len(old) =< n
        /\ \A i \in 1 .. Len(old) : store[i] = old[i]
        /\ \E session \in [Len(old) + 1 .. n -> Recorded] :
             /\ \A t \in Recorded : \E i \in Len(old) + 1 .. n : session[i] = t
             /\ \A i, j \in Len(old) + 1 .. n :
                  session[i] = session[j] => i = j
             /\ \A i \in Len(old) + 1 .. n : Abs!Answers(i, session[i])
  BY <1>0 DEF OneRecordPerSession, Abs!OneRecordPerSession
<1> DEFINE New == Len(old) + 1 .. n
           NewNow == Len(old) + 1 .. n + 1
<1>3. PICK session \in [New -> Recorded] :
        /\ \A t \in Recorded : \E i \in New : session[i] = t
        /\ \A i, j \in New : session[i] = session[j] => i = j
        /\ \A i \in New : Abs!Answers(i, session[i])
  BY <1>2
<1>4. PICK now : now = [i \in NewNow |-> IF i = n + 1 THEN s ELSE session[i]]
  OBVIOUS
<1>5. Len(old) \in Nat
  BY StoreServerAssumption
<1>6. /\ n + 1 \in NewNow /\ n + 1 \notin New /\ NewNow = New \cup {n + 1}
      /\ \A i \in New : i \in 1 .. n
      /\ Len(old) =< n + 1
      /\ \A i \in 1 .. Len(old) : i \in 1 .. n
  BY <1>2, <1>5
<1> HIDE DEF New, NewNow
<1>7. /\ now \in [NewNow -> Recorded'] /\ now[n + 1] = s
      /\ \A i \in New : now[i] = session[i] /\ session[i] \in Recorded
  BY <1>4, <1>6
<1>8. \A t \in Recorded' : \E i \in NewNow : now[i] = t
  BY <1>3, <1>6, <1>7
<1>9. \A i, j \in NewNow : now[i] = now[j] => i = j
  BY <1>3, <1>6, <1>7
<1>10. ASSUME NEW i \in NewNow PROVE Abs!Answers(i, now[i])'
  <2>1. CASE i = n + 1
    BY <1>1, <1>7, <2>1 DEF Abs!Answers
  <2>2. CASE i \in New
    <3>1. Abs!Answers(i, session[i]) /\ now[i] = session[i] /\ i \in 1 .. n
      BY <1>3, <1>6, <1>7, <2>2
    <3> QED
      BY <1>1, <3>1 DEF Abs!Answers
  <2> QED
    BY <1>6, <2>1, <2>2
<1>11. \A i \in 1 .. Len(old) : store'[i] = old[i]
  BY <1>1, <1>2, <1>6
<1> DEFINE R == Len(old) + 1 .. Len(store')
<1>12. R = NewNow /\ Len(old) =< Len(store')
  BY <1>1, <1>6 DEF NewNow
<1> HIDE DEF R
<1>13. \E f \in [R -> Recorded'] :
         /\ \A t \in Recorded' : \E i \in R : f[i] = t
         /\ \A i, j \in R : f[i] = f[j] => i = j
         /\ \A i \in R : Abs!Answers(i, f[i])'
  BY <1>7, <1>8, <1>9, <1>10, <1>12
<1>14. (\E f \in [Len(old) + 1 .. Len(store) -> Recorded] :
          /\ \A t \in Recorded : \E i \in Len(old) + 1 .. Len(store) : f[i] = t
          /\ \A i, j \in Len(old) + 1 .. Len(store) : f[i] = f[j] => i = j
          /\ \A i \in Len(old) + 1 .. Len(store) : Abs!Answers(i, f[i]))'
  BY <1>13 DEF R
<1>15. Abs!OneRecordPerSession'
  BY <1>11, <1>12, <1>14, Zenon DEF Abs!OneRecordPerSession
<1> QED
  BY <1>15 DEF OneRecordPerSession

(* OneRecordPerSession of the exclusive server.                            *)
LEMMA RecordsInit == Init => OneRecordPerSession
<1> SUFFICES ASSUME Init PROVE OneRecordPerSession
  OBVIOUS
<1>1. store \in OldStores /\ Len(store) \in Nat /\ Recorded = {}
  BY StoreServerAssumption DEF Init, Recorded, After
<1>2. Len(store) + 1 .. Len(store) = {}
  BY <1>1
<1>3. \E session \in [Len(store) + 1 .. Len(store) -> Recorded] : TRUE
  <2>1. [i \in {} |-> i] \in [Len(store) + 1 .. Len(store) -> Recorded]
    BY <1>2
  <2> QED
    BY <2>1
<1> QED
  BY <1>1, <1>2, <1>3 DEF OneRecordPerSession, Abs!OneRecordPerSession

LEMMA RecordsStep ==
  ASSUME Exclusive, IInv, [Next]_vars, OneRecordPerSession
  PROVE  OneRecordPerSession'
<1>1. [Abs!Next]_(Abs!vars)
  BY StepRefines
<1>2. TypeInv /\ TypeInv'
  BY TypeStep DEF IInv
<1>3. store \in Seq(message_t) /\ store' \in Seq(message_t)
  BY <1>2 DEF TypeInv, TypeOK
<1>4. ASSUME UNCHANGED <<store, Recorded>>, Gone \subseteq Gone'
      PROVE  OneRecordPerSession'
  <2>1. ASSUME NEW i, NEW s, Abs!Answers(i, s) PROVE Abs!Answers(i, s)'
    BY <1>4, <2>1 DEF Abs!Answers
  <2> QED
    BY <1>4, <2>1 DEF OneRecordPerSession, Abs!OneRecordPerSession
<1>5. ASSUME NEW s \in Sessions, Abs!Serve(s) \/ Abs!AppendIndeterminate(s)
      PROVE  OneRecordPerSession'
  <2>1. /\ s \notin Recorded /\ Recorded' = Recorded \cup {s} /\ Gone' = Gone
        /\ \E m : /\ store' = Append(store, m)
                  /\ \/ m = Abs!Served(s[1], Abs!LastMessage(store))
                     \/ /\ s[1] \in Gone
                        /\ \E x \in StackMessages : m = Abs!ServerBump(x)
    BY <1>5 DEF Abs!Serve, Abs!AppendIndeterminate
  <2>2. PICK m : /\ store' = Append(store, m)
                 /\ \/ m = Abs!Served(s[1], Abs!LastMessage(store))
                    \/ /\ s[1] \in Gone
                       /\ \E x \in StackMessages : m = Abs!ServerBump(x)
    BY <2>1
  <2>3. m \in message_t
    <3>1. CASE m = Abs!Served(s[1], Abs!LastMessage(store))
      <4>1. LastMessage(store) \in message_t
        BY <1>3, MessageTypes, LenProperties, EmptySeq, ElementOfSeq
        DEF LastMessage
      <4> QED
        BY <3>1, <4>1, SameMessages, MessageTypes, SessionType
    <3>2. CASE \E x \in StackMessages : m = Abs!ServerBump(x)
      BY <3>2, SameMessages, MessageTypes, StoreServerAssumption
    <3> QED
      BY <2>2, <3>1, <3>2
  <2> QED
    BY <1>3, <2>1, <2>2, <2>3, RecordsOneMore
<1>6. CASE UNCHANGED Abs!vars
  BY <1>4, <1>6 DEF Abs!vars
<1>7. ASSUME NEW c \in Clients, Abs!Vanish(c) PROVE OneRecordPerSession'
  BY <1>4, <1>7 DEF Abs!Vanish
<1> QED
  BY <1>1, <1>5, <1>6, <1>7 DEF Abs!Next, Abs!Sessions, Sessions

(* The exclusive server never loses, doubles or replaces a record: every   *)
(* session that has recorded has its own record behind the old ones, and   *)
(* it answers the record right before it.                                  *)
THEOREM EachRecordsOnce == Exclusive => (Spec => []OneRecordPerSession)
<1> SUFFICES ASSUME Exclusive PROVE Spec => []OneRecordPerSession
  OBVIOUS
<1>1. IInv /\ OneRecordPerSession /\ [Next]_vars => OneRecordPerSession'
  BY RecordsStep
<1> QED
  BY <1>1, RecordsInit, Invariant, PTL DEF Spec

-----------------------------------------------------------------------------
(* Reading one's own writes                                                *)

(* The exclusive server never sends a client a last message that is older  *)
(* than the client's own previous record.                                  *)
THEOREM ReadsItsWrites == Exclusive => (Spec => []ReadYourWrites)
<1> SUFFICES ASSUME Exclusive PROVE Spec => []ReadYourWrites
  OBVIOUS
<1>1. IInv => ReadYourWrites
  <2> SUFFICES ASSUME IInv, NEW s \in Sessions, NEW t \in Sessions,
                      s[1] = t[1], t[2] < s[2], cpc[s] \in Critical
               PROVE  cpc[t] \notin Before \cup Critical
    BY DEF ReadYourWrites
  <2>1. lock = s /\ s # t
    BY SessionType DEF IInv, LockInv
  <2>2. t[2] < round[t[1]]
    <3>1. ~Fresh(s)
      BY DEF IInv, ConnInv, FreshOK, Critical
    <3> QED
      BY <3>1, SessionType, StoreServerAssumption DEF Fresh, IInv, TypeInv, TypeOK
  <2>3. cpc[t] \notin BeforeRecv
    BY <2>2, SessionType, StoreServerAssumption
    DEF IInv, ConnInv, WaitingOK, Waiting, ClientAt, TypeInv, TypeOK
  <2>4. cpc[t] \notin Critical
    BY <2>1 DEF IInv, LockInv
  <2> QED
    BY <2>3, <2>4 DEF BeforeRecv
<1> QED
  BY <1>1, Invariant, PTL

-----------------------------------------------------------------------------
(* The numbers of the records, with and without the lock                   *)

(* What the numbers are not made from: an old store, and what may be in    *)
(* uninitialised memory.                                                   *)
FitsAtFirst ==
  /\ \A st \in OldStores : \A i \in 1 .. Len(st) : st[i].number =< 2 * i
  /\ \A m \in StackMessages : m.number =< 1

(* What child s has read, counted up and is about to write.                *)
ChildCounts(s) ==
  /\ cpc[s] = "send" => tosend[s].number =< 2 * Len(store)
  /\ cpc[s] = "append" => tostore[s].number =< 2 * Len(store) + 2
  /\ cpc[s] = "write" => tostore[s].number =< 2 * pos[s] + 2

(* What is under way on the connection of s.                               *)
WireCounts(s) ==
  /\ s2c[s] # NoMsg => s2c[s].number =< 2 * Len(store)
  /\ c2s[s] # NoMsg => c2s[s].number =< 2 * Len(store) + 1

(* What client c answers, unless nobody is there to read the answer.       *)
ClientCounts(c) ==
  clpc[c] = "send" =>
    got[c].number =< 2 * Len(store) \/ ~ServerEnd(Session(c))

CountInv ==
  /\ CountFitsPlace
  /\ \A s \in Sessions : ChildCounts(s) /\ WireCounts(s)
  /\ \A c \in Clients : ClientCounts(c)

LEMMA CountInit == FitsAtFirst /\ Init => CountInv
  BY DEF FitsAtFirst, Init, CountInv, CountFitsPlace, ChildCounts, WireCounts,
     ClientCounts

-----------------------------------------------------------------------------
(* What adds one to a number                                               *)

(* A number that wraps falls behind, so that counting adds at most one.    *)
LEMMA CountsOne ==
  ASSUME NEW m \in message_t, NEW k \in Int, m.number =< k
  PROVE  /\ ServerBump(m).number =< k + 1
         /\ \A c \in Clients : ClientMessage(c, m).number =< k + 1
<1>1. m.number \in Ints
  BY DEF message_t
<1>2. Increment(m.number) =< k + 1
  BY <1>1, MessageAssumption DEF Ints, Increment
<1>3. ServerBump(m).number = Increment(m.number)
  BY DEF ServerBump, message_t
<1> QED
  BY <1>2, <1>3 DEF ClientMessage

LEMMA NumberType == \A m \in message_t : m.number \in Int
  BY MessageAssumption DEF message_t, Ints

-----------------------------------------------------------------------------
(* Connections that are closed                                             *)

(* Only the client of a session can open the server's end of it.           *)
LEMMA StaysClosed ==
  ASSUME TypeInv, Next, NEW s \in Sessions, ~ServerEnd(s), clpc[s[1]] # "connect"
  PROVE  ~ServerEnd(s)'
<1>1. ~Queued(s) /\ accepted # s /\ cpc[s] \notin Live
  BY DEF ServerEnd
<1>t. /\ backlog \in Seq(Sessions) /\ accepted \in Sessions \cup {NoSession}
      /\ cpc \in [Sessions -> {"none"} \cup Live \cup Ended] /\ NoSession # s
      /\ ppc = "fork" => accepted \in Sessions
      /\ round \in [Clients -> 1 .. LoopMax + 1]
  BY StoreServerAssumption DEF TypeInv, TypeOK
<1>2. ASSUME \/ backlog' = backlog
             \/ backlog' = <<>>
             \/ backlog # <<>> /\ backlog' = Tail(backlog)
             \/ \E z \in Sessions : z # s /\ backlog' = Append(backlog, z)
      PROVE  ~Queued(s)'
  <2>1. CASE backlog' = backlog
    BY <1>1, <2>1 DEF Queued
  <2>2. CASE backlog' = <<>>
    BY <2>2 DEF Queued
  <2>3. CASE backlog # <<>> /\ backlog' = Tail(backlog)
    <3>1. /\ Len(Tail(backlog)) = Len(backlog) - 1 /\ Len(backlog) \in Nat \ {0}
          /\ \A i \in 1 .. Len(Tail(backlog)) : Tail(backlog)[i] = backlog[i + 1]
      BY <1>t, <2>3, HeadTailProperties, EmptySeq
    <3>2. \A i \in 1 .. Len(Tail(backlog)) : i + 1 \in 1 .. Len(backlog)
      BY <3>1
    <3> QED
      BY <1>1, <2>3, <3>1, <3>2 DEF Queued
  <2>4. CASE \E z \in Sessions : z # s /\ backlog' = Append(backlog, z)
    BY <1>1, <1>t, <2>4 DEF Queued
  <2> QED
    BY <1>2, <2>1, <2>2, <2>3, <2>4
<1>3. CASE Accept
  <2>1. Head(backlog) # s
    BY <1>t, <1>1, <1>3, HeadTailProperties, EmptySeq DEF Accept, Queued
  <2> QED
    BY <1>1, <1>2, <1>3, <2>1 DEF Accept, ServerEnd, childVars
<1>4. CASE Fork
  BY <1>1, <1>2, <1>4, <1>t DEF Fork, ServerEnd, netVars
<1>5. ASSUME NEW c \in Clients, Connect(c) PROVE ~ServerEnd(s)'
  <2>1. PICK z \in Sessions : z = Session(c) /\ z[1] = c
    BY <1>5, ClientSession DEF Connect
  <2>2. z # s
    BY <1>5, <2>1 DEF Connect
  <2> QED
    BY <1>1, <1>2, <1>5, <2>1, <2>2 DEF Connect, ServerEnd, parentVars, childVars
<1>6. CASE \/ backlog' = backlog \/ backlog' = <<>>
  <2>1. SUFFICES ASSUME ~Accept, ~Fork, \A c \in Clients : ~Connect(c)
                 PROVE  (accepted' = s => accepted = s) /\ (cpc'[s] \in Live => cpc[s] \in Live)
    BY <1>1, <1>2, <1>3, <1>4, <1>5, <1>6 DEF ServerEnd
  <2> USE <1>t, <2>1 DEF parentVars, childVars
  <2>2. CASE ParentStep \/ Restart \/ Idle
    BY <2>2 DEF ParentStep, Restart, Idle, CloseAccepted, Reap, ReapDone, Drain,
       DrainDone, vars
  <2>3. CASE Failure
    BY <2>3 DEF Failure, AcceptFails, ForkFails, ServerKilled, ChildAborts,
       ProcessEnds, Goto, Ended, ClientKilled
  <2>4. ASSUME NEW t \in Sessions, ChildStep(t) PROVE
          (accepted' = s => accepted = s) /\ (cpc'[s] \in Live => cpc[s] \in Live)
    <3> USE <2>4 DEF At, Goto, Live, Before, Critical, After, Ended, ProcessEnds
    <3>1. CASE ChildStart(t) \/ AcquireLock(t)
      BY <3>1 DEF ChildStart, AcquireLock
    <3>2. CASE CheckSize(t) \/ SeekLast(t) \/ ReadLast(t) \/ SendLast(t)
      BY <3>2 DEF CheckSize, SeekLast, ReadLast, SendLast
    <3>3. CASE Receive(t) \/ ReceiveEof(t) \/ ReceiveReset(t)
      BY <3>3 DEF Receive, ReceiveEof, ReceiveReset
    <3>4. CASE SeekEnd(t) \/ WriteRecord(t) \/ Unlock(t) \/ Exit(t)
      BY <3>4 DEF SeekEnd, WriteRecord, Unlock, Exit
    <3> QED
      BY <3>1, <3>2, <3>3, <3>4 DEF ChildStep
  <2>5. ASSUME NEW c \in Clients, ClientStep(c) PROVE
          (accepted' = s => accepted = s) /\ (cpc'[s] \in Live => cpc[s] \in Live)
    BY <2>5 DEF ClientStep, ConnectRefused, ReadMessage, ReadEof, ReadReset, SendAnswer
  <2> QED
    BY <2>2, <2>3, <2>4, <2>5 DEF Next
<1>7. \/ Accept \/ (\E c \in Clients : Connect(c))
      \/ backlog' = backlog \/ backlog' = <<>>
  <2> USE DEF netVars
  <2>1. ASSUME NEW t \in Sessions, ChildStep(t) PROVE backlog' = backlog \/ backlog' = <<>>
    BY <2>1 DEF ChildStep, ChildStart, AcquireLock, CheckSize, SeekLast, ReadLast,
       SendLast, Receive, ReceiveEof, ReceiveReset, SeekEnd, WriteRecord, Unlock, Exit,
       DropBacklog
  <2>2. ASSUME NEW c \in Clients, ClientStep(c), ~Connect(c) PROVE backlog' = backlog
    BY <2>2 DEF ClientStep, ConnectRefused, ReadMessage, ReadEof, ReadReset, SendAnswer
  <2>3. CASE Failure
    BY <2>3 DEF Failure, AcceptFails, ForkFails, ServerKilled, ChildAborts,
       ClientKilled, DropBacklog
  <2>4. CASE ParentStep \/ Restart \/ Idle
    BY <2>4 DEF ParentStep, Restart, Idle, Fork, CloseAccepted, Reap, ReapDone, Drain,
       DrainDone, vars
  <2> QED
    BY <2>1, <2>2, <2>3, <2>4 DEF Next
<1> QED
  BY <1>3, <1>5, <1>6, <1>7

-----------------------------------------------------------------------------
(* Steps                                                                   *)

(* The clients' part: a client that goes on to answer has read a message,  *)
(* or its connection is closed and nobody can open it again.               *)
LEMMA ClientCountsStep ==
  ASSUME TypeInv, CountInv, Next, NEW c \in Clients, Len(store) =< Len(store'),
         store' \in Seq(message_t)
  PROVE  ClientCounts(c)'
<1> SUFFICES ASSUME clpc'[c] = "send"
             PROVE  got'[c].number =< 2 * Len(store') \/ ~ServerEnd(Session(c))'
  BY DEF ClientCounts
<1>t. /\ Len(store) \in Nat /\ Len(store') \in Nat
      /\ clpc \in [Clients -> {"connect", "read", "send", "done", "failed", "killed"}]
      /\ got \in [Clients -> MsgOrNone] /\ s2c \in [Sessions -> MsgOrNone]
  BY DEF TypeInv, TypeOK
<1>1. \/ clpc[c] = "send" /\ UNCHANGED <<got[c], round[c]>>
      \/ ReadMessage(c)
      \/ ReadEof(c)
  <2> USE <1>t DEF clientVars
  <2>1. ASSUME NEW t \in Sessions, ChildStep(t) PROVE UNCHANGED clientVars
    BY <2>1 DEF ChildStep, ChildStart, AcquireLock, CheckSize, SeekLast, ReadLast,
       SendLast, Receive, ReceiveEof, ReceiveReset, SeekEnd, WriteRecord, Unlock, Exit
  <2>2. ASSUME NEW d \in Clients, ClientStep(d)
        PROVE  \/ clpc[c] = "send" /\ UNCHANGED <<got[c], round[c]>>
               \/ ReadMessage(c) \/ ReadEof(c)
    BY <2>2 DEF ClientStep, Connect, ConnectRefused, ReadMessage, ReadEof, ReadReset,
       SendAnswer, TypeInv, TypeOK
  <2>3. CASE Failure
    BY <2>3 DEF Failure, AcceptFails, ForkFails, ServerKilled, ChildAborts,
       ClientKilled
  <2>4. CASE ParentStep \/ Restart \/ Idle
    BY <2>4 DEF ParentStep, Restart, Idle, Accept, Fork, CloseAccepted, Reap,
       ReapDone, Drain, DrainDone, vars
  <2> QED
    BY <2>1, <2>2, <2>3, <2>4 DEF Next
<1>2. clpc[c] \in {"read", "send"}
  BY <1>1 DEF ReadMessage, ReadEof
<1>3. PICK s \in Sessions : s = Session(c) /\ s[1] = c
  BY <1>2, ClientSession
<1>4. ASSUME Session(c)' = Session(c), ~ServerEnd(s) PROVE ~ServerEnd(Session(c))'
  BY <1>2, <1>3, <1>4, StaysClosed
<1>5. CASE clpc[c] = "send" /\ UNCHANGED <<got[c], round[c]>>
  <2>1. got[c] \in message_t /\ got'[c] = got[c]
    BY <1>5 DEF TypeInv, PlaceOK
  <2>2. Session(c)' = Session(c)
    BY <1>5 DEF Session
  <2>3. got[c].number =< 2 * Len(store) \/ ~ServerEnd(s)
    BY <1>3, <1>5 DEF CountInv, ClientCounts
  <2>4. got[c].number \in Int
    BY <2>1, NumberType
  <2> QED
    BY <1>t, <1>4, <2>1, <2>2, <2>3, <2>4
<1>6. CASE ReadMessage(c)
  <2>1. s2c[s] \in message_t /\ got'[c] = s2c[s]
    BY <1>t, <1>3, <1>6 DEF ReadMessage, MsgOrNone
  <2>2. s2c[s].number =< 2 * Len(store)
    BY <1>3, <1>6 DEF ReadMessage, CountInv, WireCounts
  <2>3. s2c[s].number \in Int
    BY <2>1, NumberType
  <2> QED
    BY <1>t, <2>1, <2>2, <2>3
<1>7. CASE ReadEof(c)
  <2>1. ~ServerEnd(s) /\ Session(c)' = Session(c)
    BY <1>3, <1>7 DEF ReadEof, Session
  <2> QED
    BY <1>4, <2>1
<1> QED
  BY <1>1, <1>5, <1>6, <1>7

(* The store: a record that is replaced or appended fits its place.        *)
LEMMA StoreCountsStep ==
  ASSUME TypeInv, CountInv, Next
  PROVE  /\ CountFitsPlace' /\ Len(store) =< Len(store') /\ store' \in Seq(message_t)
         /\ (\E s \in Sessions : WriteRecord(s)) \/ UNCHANGED store
<1>1. (\E s \in Sessions : WriteRecord(s)) \/ UNCHANGED store
  <2>1. ASSUME NEW s \in Sessions, ChildStep(s) PROVE WriteRecord(s) \/ UNCHANGED store
    BY <2>1 DEF ChildStep, ChildStart, AcquireLock, CheckSize, SeekLast, ReadLast,
       SendLast, Receive, ReceiveEof, ReceiveReset, SeekEnd, Unlock, Exit
  <2>2. ASSUME NEW c \in Clients, ClientStep(c) PROVE UNCHANGED store
    BY <2>2 DEF ClientStep, Connect, ConnectRefused, ReadMessage, ReadEof, ReadReset,
       SendAnswer
  <2>3. CASE Failure
    BY <2>3 DEF Failure, AcceptFails, ForkFails, ServerKilled, ChildAborts,
       ClientKilled
  <2>4. CASE ParentStep \/ Restart \/ Idle
    BY <2>4 DEF ParentStep, Restart, Idle, Accept, Fork, CloseAccepted, Reap,
       ReapDone, Drain, DrainDone, vars
  <2> QED
    BY <2>1, <2>2, <2>3, <2>4 DEF Next
<1>2. CASE UNCHANGED store
  BY <1>1, <1>2 DEF CountInv, CountFitsPlace, TypeInv, TypeOK
<1>3. ASSUME NEW s \in Sessions, WriteRecord(s)
      PROVE  /\ CountFitsPlace' /\ Len(store) =< Len(store')
             /\ store' \in Seq(message_t)
  <2> DEFINE p == pos[s]
             m == tostore[s]
  <2>1. /\ store \in Seq(message_t) /\ p \in Nat /\ p =< Len(store)
        /\ m \in message_t /\ store' = PutRecord(store, p, m)
    BY <1>3 DEF TypeInv, TypeOK, PlaceOK, WriteRecord, At
  <2>2. m.number =< 2 * p + 2
    BY <1>3 DEF WriteRecord, At, CountInv, ChildCounts
  <2> HIDE DEF p, m
  <2>3. /\ store' \in Seq(message_t)
        /\ Len(store') = IF p < Len(store) THEN Len(store) ELSE p + 1
        /\ \A i \in 1 .. Len(store') : store'[i] = IF i = p + 1 THEN m ELSE store[i]
    BY <2>1, PutRecordType
  <2>4. Len(store) \in Nat /\ Len(store') \in Nat /\ Len(store) =< Len(store')
    BY <2>1, <2>3
  <2>5. ASSUME NEW i \in 1 .. Len(store') PROVE store'[i].number =< 2 * i
    <3>1. CASE i = p + 1
      BY <2>1, <2>2, <2>3, <3>1
    <3>2. CASE i # p + 1
      <4>1. i \in 1 .. Len(store)
        BY <2>1, <2>3, <3>2
      <4> QED
        BY <2>3, <3>2, <4>1 DEF CountInv, CountFitsPlace
    <3> QED
      BY <3>1, <3>2
  <2> QED
    BY <2>3, <2>4, <2>5 DEF CountFitsPlace
<1> QED
  BY <1>1, <1>2, <1>3

(* A session in which nothing is read, counted or sent.                    *)
LEMMA CountQuiet ==
  ASSUME TypeInv, CountInv, NEW s \in Sessions, Len(store) =< Len(store'),
         store' \in Seq(message_t), s2c'[s] \in {s2c[s], NoMsg},
         c2s'[s] \in {c2s[s], NoMsg},
         cpc'[s] \in {"send", "append", "write"} =>
           UNCHANGED <<cpc[s], tosend[s], tostore[s], pos[s]>>
  PROVE  ChildCounts(s)' /\ WireCounts(s)'
<1>1. ChildCounts(s) /\ WireCounts(s) /\ Len(store) \in Nat /\ Len(store') \in Nat
  BY DEF CountInv, TypeInv, TypeOK
<1>2. /\ cpc[s] = "send" => tosend[s].number \in Int
      /\ cpc[s] \in {"append", "write"} => tostore[s].number \in Int
      /\ s2c[s] # NoMsg => s2c[s].number \in Int
      /\ c2s[s] # NoMsg => c2s[s].number \in Int
  BY NumberType DEF TypeInv, TypeOK, PlaceOK, MsgOrNone
<1>3. ChildCounts(s)'
  BY <1>1, <1>2 DEF ChildCounts
<1>4. WireCounts(s)'
  BY <1>1, <1>2 DEF WireCounts
<1> QED
  BY <1>3, <1>4

(* The steps of the session's own child.                                   *)
LEMMA ChildCountsStep ==
  ASSUME FitsAtFirst, TypeInv, CountInv, NEW s \in Sessions, ChildStep(s),
         Len(store) =< Len(store'), store' \in Seq(message_t)
  PROVE  ChildCounts(s)' /\ WireCounts(s)'
<1>t. /\ cpc \in [Sessions -> {"none"} \cup Live \cup Ended]
      /\ tosend \in [Sessions -> MsgOrNone] /\ tostore \in [Sessions -> MsgOrNone]
      /\ pos \in [Sessions -> Nat]
      /\ s2c \in [Sessions -> MsgOrNone] /\ c2s \in [Sessions -> MsgOrNone]
      /\ Len(store) \in Nat /\ Len(store') \in Nat /\ NoMsg \notin message_t
  BY StoreServerAssumption DEF TypeInv, TypeOK
<1>c. ChildCounts(s) /\ WireCounts(s)
  BY DEF CountInv
<1> USE <1>t DEF At, Goto, netVars
<1>1. CASE \/ ChildStart(s) \/ AcquireLock(s) \/ SeekLast(s) \/ ReceiveReset(s)
           \/ WriteRecord(s) \/ Unlock(s) \/ Exit(s)
  BY <1>1, CountQuiet DEF ChildStart, AcquireLock, SeekLast, ReceiveReset,
     WriteRecord, Unlock, Exit, ProcessEnds
<1>2. CASE CheckSize(s)
  <2>1. CASE store = <<>>
    <3>1. cpc'[s] = "send" /\ tosend'[s].number = 0
      BY <1>2, <2>1 DEF CheckSize, DefaultMessage
    <3>2. UNCHANGED <<s2c, c2s>>
      BY <1>2 DEF CheckSize
    <3>3. WireCounts(s)'
      BY <1>1, <1>2, <2>1, <3>2, <1>c DEF WireCounts, CheckSize
    <3> QED
      BY <3>1, <3>3 DEF ChildCounts
  <2>2. CASE store # <<>>
    BY <1>2, <2>2, CountQuiet DEF CheckSize
  <2> QED
    BY <2>1, <2>2
<1>3. CASE ReadLast(s)
  <2>1. /\ pos[s] \in Nat /\ pos[s] < Len(store) /\ cpc'[s] = "send"
        /\ tosend'[s] = store[pos[s] + 1] /\ UNCHANGED <<store, s2c, c2s>>
    BY <1>3 DEF ReadLast, TypeInv, PlaceOK
  <2>2. pos[s] + 1 \in 1 .. Len(store)
    BY <2>1
  <2>3. store[pos[s] + 1].number =< 2 * (pos[s] + 1) /\ store[pos[s] + 1] \in message_t
    BY <2>2 DEF CountInv, CountFitsPlace, TypeInv, TypeOK
  <2>4. store[pos[s] + 1].number =< 2 * Len(store)
    BY <2>1, <2>3, NumberType
  <2>5. WireCounts(s)'
    BY <2>1, <1>c DEF WireCounts
  <2> QED
    BY <2>1, <2>4, <2>5 DEF ChildCounts
<1>4. CASE SendLast(s)
  <2>1. /\ cpc[s] = "send" /\ cpc'[s] = "recv" /\ s2c'[s] \in {tosend[s], NoMsg}
        /\ UNCHANGED <<store, c2s>>
    BY <1>4 DEF SendLast
  <2> QED
    BY <2>1, <1>c DEF ChildCounts, WireCounts
<1>5. CASE Receive(s)
  <2>1. /\ cpc'[s] = "append" /\ tostore'[s] = ServerBump(c2s[s]) /\ c2s[s] # NoMsg
        /\ c2s'[s] = NoMsg /\ UNCHANGED <<store, s2c>>
    BY <1>5 DEF Receive
  <2>2. c2s[s] \in message_t /\ c2s[s].number =< 2 * Len(store) + 1
    BY <2>1, <1>c DEF MsgOrNone, WireCounts
  <2> DEFINE k == 2 * Len(store) + 1
  <2>3. tostore'[s].number =< k + 1
    <3>1. k \in Int /\ c2s[s].number =< k
      BY <2>2
    <3> HIDE DEF k
    <3>2. ServerBump(c2s[s]).number =< k + 1
      BY <2>2, <3>1, CountsOne
    <3> QED
      BY <2>1, <3>2
  <2>4. tostore'[s].number \in Int
    BY <2>1, <2>2, MessageTypes, NumberType
  <2>5. WireCounts(s)'
    BY <2>1, <1>c DEF WireCounts
  <2> QED
    BY <2>1, <2>3, <2>4, <2>5 DEF ChildCounts
<1>6. CASE ReceiveEof(s)
  <2>1. PICK m \in StackMessages : tostore' = [tostore EXCEPT ![s] = ServerBump(m)]
    BY <1>6 DEF ReceiveEof
  <2>2. cpc'[s] = "append" /\ tostore'[s] = ServerBump(m) /\ UNCHANGED <<store, s2c, c2s>>
    BY <1>6, <2>1 DEF ReceiveEof
  <2>3. m \in message_t /\ m.number =< 1
    BY StoreServerAssumption DEF FitsAtFirst
  <2>4. tostore'[s].number =< 1 + 1
    <3> DEFINE k == 1
    <3>1. k \in Int /\ m.number =< k
      BY <2>3
    <3> HIDE DEF k
    <3>2. ServerBump(m).number =< k + 1
      BY <2>3, <3>1, CountsOne
    <3> QED
      BY <2>2, <3>2 DEF k
  <2>5. tostore'[s].number \in Int
    BY <2>2, <2>3, MessageTypes, NumberType
  <2>6. WireCounts(s)'
    BY <2>2, <1>c DEF WireCounts
  <2> QED
    BY <2>2, <2>4, <2>5, <2>6 DEF ChildCounts
<1>7. CASE SeekEnd(s)
  <2>1. /\ cpc[s] = "append" /\ cpc'[s] = "write" /\ pos'[s] = Len(store)
        /\ UNCHANGED <<store, tostore, s2c, c2s>>
    BY <1>7 DEF SeekEnd
  <2>2. WireCounts(s)'
    BY <2>1, <1>c DEF WireCounts
  <2> QED
    BY <2>1, <2>2, <1>c DEF ChildCounts
<1> QED
  BY <1>1, <1>2, <1>3, <1>4, <1>5, <1>6, <1>7 DEF ChildStep

(* The steps of a client.                                                  *)
LEMMA AnswerCountsStep ==
  ASSUME TypeInv, CountInv, NEW s \in Sessions, NEW c \in Clients, ClientStep(c),
         Len(store) =< Len(store'), store' \in Seq(message_t)
  PROVE  ChildCounts(s)' /\ WireCounts(s)'
<1>t. /\ s2c \in [Sessions -> MsgOrNone] /\ c2s \in [Sessions -> MsgOrNone]
      /\ Len(store) \in Nat /\ NoMsg \notin message_t
  BY StoreServerAssumption DEF TypeInv, TypeOK
<1>c. ChildCounts(s) /\ WireCounts(s)
  BY DEF CountInv
<1>1. UNCHANGED <<store, childVars>>
  BY DEF ClientStep, Connect, ConnectRefused, ReadMessage, ReadEof, ReadReset, SendAnswer
<1>2. CASE ~SendAnswer(c)
  <2>1. c2s' = c2s /\ s2c'[s] \in {s2c[s], NoMsg}
    BY <1>2, <1>t DEF ClientStep, Connect, ConnectRefused, ReadMessage, ReadEof,
       ReadReset, netVars
  <2> QED
    BY <1>1, <2>1, CountQuiet DEF childVars
<1>3. CASE SendAnswer(c)
  <2>1. PICK z \in Sessions : z = Session(c)
    BY <1>3, ClientSession DEF SendAnswer
  <2>2. /\ clpc[c] = "send" /\ s2c' = s2c
        /\ c2s' = [c2s EXCEPT ![z] = IF cpc[z] \in Live
                                     THEN ClientMessage(c, got[c]) ELSE NoMsg]
    BY <1>3, <2>1 DEF SendAnswer
  <2>3. CASE s # z \/ cpc[z] \notin Live
    <3>1. c2s'[s] \in {c2s[s], NoMsg}
      BY <1>t, <2>2, <2>3
    <3> QED
      BY <1>1, <2>2, <3>1, CountQuiet DEF childVars
  <2>4. CASE s = z /\ cpc[z] \in Live
    <3>1. c2s'[s] = ClientMessage(c, got[c])
      BY <1>t, <2>2, <2>4
    <3>2. got[c] \in message_t /\ got[c].number =< 2 * Len(store)
      BY <2>1, <2>2, <2>4 DEF CountInv, ClientCounts, ServerEnd, TypeInv, PlaceOK
    <3>3. ClientMessage(c, got[c]).number =< 2 * Len(store) + 1
      BY <1>t, <3>2, CountsOne
    <3>4. ChildCounts(s)'
      BY <1>1, <1>c DEF ChildCounts, childVars
    <3> QED
      BY <1>1, <1>c, <2>2, <3>1, <3>3, <3>4 DEF WireCounts
  <2> QED
    BY <2>3, <2>4
<1> QED
  BY <1>2, <1>3

LEMMA SessionCountsStep ==
  ASSUME FitsAtFirst, TypeInv, CountInv, Next, NEW s \in Sessions,
         Len(store) =< Len(store'), store' \in Seq(message_t)
  PROVE  ChildCounts(s)' /\ WireCounts(s)'
<1>t. /\ cpc \in [Sessions -> {"none"} \cup Live \cup Ended]
      /\ tosend \in [Sessions -> MsgOrNone] /\ tostore \in [Sessions -> MsgOrNone]
      /\ pos \in [Sessions -> Nat]
      /\ s2c \in [Sessions -> MsgOrNone] /\ c2s \in [Sessions -> MsgOrNone]
  BY DEF TypeInv, TypeOK
<1>1. CASE ParentStep \/ Restart \/ Idle
  <2>1. UNCHANGED <<s2c, c2s, tosend, tostore, pos>>
    BY <1>1 DEF ParentStep, Restart, Idle, Accept, Fork, CloseAccepted, Reap,
       ReapDone, Drain, DrainDone, vars, childVars, netVars
  <2>2. cpc'[s] \in {cpc[s], "start"}
    BY <1>1, <1>t DEF ParentStep, Restart, Idle, Accept, Fork, CloseAccepted, Reap,
       ReapDone, Drain, DrainDone, vars, childVars
  <2> QED
    BY <2>1, <2>2, CountQuiet
<1>2. CASE AcceptFails \/ ForkFails \/ ServerKilled
  BY <1>2, CountQuiet DEF AcceptFails, ForkFails, ServerKilled
<1>3. ASSUME NEW t \in Sessions, ChildAborts(t) PROVE ChildCounts(s)' /\ WireCounts(s)'
  BY <1>3, <1>t, CountQuiet DEF ChildAborts, ProcessEnds, Goto
<1>4. ASSUME NEW c \in Clients, ClientKilled(c) PROVE ChildCounts(s)' /\ WireCounts(s)'
  BY <1>4, <1>t, CountQuiet DEF ClientKilled, childVars
<1>5. ASSUME NEW t \in Sessions, t # s, ChildStep(t)
      PROVE  ChildCounts(s)' /\ WireCounts(s)'
  <2>1. UNCHANGED <<cpc[s], tosend[s], tostore[s], pos[s], s2c[s], c2s[s]>>
    BY <1>5, <1>t DEF ChildStep, ChildStart, AcquireLock, CheckSize, SeekLast, ReadLast,
       SendLast, Receive, ReceiveEof, ReceiveReset, SeekEnd, WriteRecord, Unlock, Exit,
       ProcessEnds, Goto, netVars
  <2> QED
    BY <2>1, CountQuiet
<1> QED
  BY <1>1, <1>2, <1>3, <1>4, <1>5, ChildCountsStep, AnswerCountsStep DEF Next, Failure

-----------------------------------------------------------------------------
(* The numbers fit                                                         *)

LEMMA CountStep ==
  ASSUME FitsAtFirst, TypeInv, CountInv, [Next]_vars
  PROVE  CountInv'
<1>1. CASE Next
  <2>1. /\ CountFitsPlace' /\ Len(store) =< Len(store') /\ store' \in Seq(message_t)
    BY <1>1, StoreCountsStep
  <2> QED
    BY <1>1, <2>1, SessionCountsStep, ClientCountsStep DEF CountInv
<1>2. CASE UNCHANGED vars
  BY <1>2 DEF vars, childVars, netVars, clientVars, parentVars, CountInv,
     CountFitsPlace, ChildCounts, WireCounts, ClientCounts, ServerEnd, Queued, Session
<1> QED
  BY <1>1, <1>2

(* CountFitsPlace: without the lock children may number alike and replace  *)
(* each other's records, but no number runs ahead of its place; nor do     *)
(* killed processes, restarts or ends of file make one do so               *)
(* (child_process of server-no-exclusive.c and of server-exclusive.c).     *)
THEOREM CountsFit == FitsAtFirst => (Spec => []CountFitsPlace)
<1> SUFFICES ASSUME FitsAtFirst PROVE Spec => []CountFitsPlace
  OBVIOUS
<1>1. Init => TypeInv /\ CountInv
  BY TypeInit, CountInit
<1>2. TypeInv /\ CountInv /\ [Next]_vars => TypeInv' /\ CountInv'
  BY TypeStep, CountStep
<1>3. CountInv => CountFitsPlace
  BY DEF CountInv
<1> QED
  BY <1>1, <1>2, <1>3, PTL DEF Spec
==============================================================================
