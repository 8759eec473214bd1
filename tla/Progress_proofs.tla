---------------------------- MODULE Progress_proofs ----------------------------
(***************************************************************************)
(* Proofs about how StoreServer goes on: the parent waits for each of its  *)
(* children, nobody waits for a process that is gone or waits for him, and *)
(* every step brings somebody forward.  For any number of clients and      *)
(* sessions, with and without the lock, and any failures and restarts.     *)
(***************************************************************************)
EXTENDS StoreServer_proofs, FiniteSetTheorems

-----------------------------------------------------------------------------
(* Waiting for the children                                                *)

(* The parent takes at most one child from kids: one less to wait for.     *)
LEMMA WaitExitOne ==
  ASSUME IsFiniteSet(kids), WaitExit
  PROVE  /\ IsFiniteSet(kids')
         /\ Cardinality(kids') = Cardinality(kids) - 1
         /\ Cardinality(kids) \in Nat
<1>1. PICK s \in Zombies : kids' = kids \ {s}
  BY DEF WaitExit
<1>2. s \in kids
  BY <1>1 DEF Zombies
<1> QED
  BY <1>1, <1>2, FS_RemoveElement, FS_CardinalityType

(* A set without elements to wait for is empty.                            *)
LEMMA NobodyLeft ==
  ASSUME IsFiniteSet(kids), Cardinality(kids) =< 0
  PROVE  kids = {}
<1>1. Cardinality(kids) = 0
  BY FS_CardinalityType
<1> QED
  BY <1>1, FS_EmptySet

LEMMA KidsInit == Init => ChildrenCounted
  BY FS_EmptySet DEF Init, ChildrenCounted, Serving, Draining, Dead

(* Children and clients do nothing that the parent's bookkeeping depends   *)
(* on, except that a child becomes a zombie.                               *)
LEMMA OthersKeepCount ==
  ASSUME \/ \E s \in Sessions : ChildStep(s) \/ ChildAborts(s)
         \/ \E c \in Clients : ClientStep(c) \/ ClientKilled(c)
         \/ Idle \/ UNCHANGED vars
  PROVE  UNCHANGED <<ppc, counter, left, kids>>
<1>1. ASSUME NEW s \in Sessions, ChildStep(s) \/ ChildAborts(s)
      PROVE  UNCHANGED <<ppc, counter, left, kids>>
  BY <1>1 DEF ChildStep, ChildStart, AcquireLock, CheckSize, SeekLast,
     ReadLast, SendLast, Receive, ReceiveEof, ReceiveReset, SeekEnd,
     WriteRecord, Unlock, Exit, ChildAborts, parentVars
<1>2. ASSUME NEW c \in Clients, ClientStep(c) \/ ClientKilled(c)
      PROVE  UNCHANGED <<ppc, counter, left, kids>>
  BY <1>2 DEF ClientStep, Connect, ConnectRefused, ReadMessage, ReadEof,
     ReadReset, SendAnswer, ClientKilled, parentVars
<1> QED
  BY <1>1, <1>2 DEF Idle, vars, parentVars

LEMMA KidsStep == ChildrenCounted /\ [Next]_vars => ChildrenCounted'
<1> SUFFICES ASSUME ChildrenCounted, [Next]_vars PROVE ChildrenCounted'
  OBVIOUS
<1> USE DEF Serving, Draining, Dead
<1>0. /\ IsFiniteSet(kids) /\ Cardinality(kids) \in Nat
      /\ counter \in Nat /\ left \in Nat
  BY FS_CardinalityType DEF ChildrenCounted
<1>1. CASE Accept
  BY <1>1 DEF Accept, ChildrenCounted
<1>2. CASE Fork
  <2>1. /\ IsFiniteSet(kids') /\ Cardinality(kids') \in Nat
        /\ Cardinality(kids') =< Cardinality(kids) + 1
    <3>1. kids' = kids \cup {accepted}
      BY <1>2 DEF Fork
    <3>2. /\ IsFiniteSet(kids')
          /\ Cardinality(kids') = IF accepted \in kids
                                  THEN Cardinality(kids) ELSE Cardinality(kids) + 1
      BY <1>0, <3>1, FS_AddElement, Zenon
    <3> QED
      BY <1>0, <3>2
  <2> QED
    BY <1>0, <1>2, <2>1 DEF Fork, ChildrenCounted
<1>3. CASE CloseAccepted
  BY <1>0, <1>3 DEF CloseAccepted, ChildrenCounted
<1>4. CASE Reap
  <2>1. /\ IsFiniteSet(kids') /\ Cardinality(kids') = Cardinality(kids) - 1
    BY <1>0, <1>4, WaitExitOne DEF Reap
  <2> QED
    BY <1>0, <1>4, <2>1 DEF Reap, ChildrenCounted
<1>5. CASE ReapDone
  BY <1>0, <1>5 DEF ReapDone, ChildrenCounted
<1>6. CASE Drain
  <2>1. /\ IsFiniteSet(kids') /\ Cardinality(kids') = Cardinality(kids) - 1
    BY <1>0, <1>6, WaitExitOne DEF Drain
  <2> QED
    BY <1>0, <1>6, <2>1 DEF Drain, ChildrenCounted
<1>7. CASE DrainDone
  <2>1. kids = {}
    BY <1>0, <1>7, NobodyLeft DEF DrainDone, ChildrenCounted
  <2> QED
    BY <1>0, <1>7, <2>1 DEF DrainDone, ChildrenCounted
<1>8. CASE AcceptFails
  BY <1>0, <1>8 DEF AcceptFails, ChildrenCounted
<1>9. CASE ForkFails
  BY <1>0, <1>9 DEF ForkFails, ChildrenCounted
<1>10. CASE ServerKilled
  BY <1>0, <1>10, FS_EmptySet DEF ServerKilled, ChildrenCounted
<1>11. CASE Restart
  BY <1>0, <1>11, FS_EmptySet DEF Restart, ChildrenCounted
<1>12. CASE \/ \E s \in Sessions : ChildStep(s) \/ ChildAborts(s)
            \/ \E c \in Clients : ClientStep(c) \/ ClientKilled(c)
            \/ Idle \/ UNCHANGED vars
  <2>1. UNCHANGED <<ppc, counter, left, kids>>
    BY <1>12, OthersKeepCount
  <2> QED
    BY <2>1 DEF ChildrenCounted
<1> QED
  BY <1>1, <1>2, <1>3, <1>4, <1>5, <1>6, <1>7, <1>8, <1>9, <1>10, <1>11,
     <1>12 DEF Next, ParentStep, Failure

(* In every reachable state the counter of run_server covers the children  *)
(* not waited for, however often accept, fork, children or the server fail.*)
THEOREM CountsChildren == Spec => []ChildrenCounted
<1> QED
  BY KidsInit, KidsStep, PTL DEF Spec

(* A call of terminate_exited_processes, whose loop is bounded by the      *)
(* counter, never leaves an exited child behind.                           *)
THEOREM ReapsThemAll == Spec => ReapsAllZombies
<1>1. ASSUME ChildrenCounted, [Next]_vars
      PROVE  [(ppc = "reap" /\ ppc' = "accept") => Zombies = {}]_vars
  <2> SUFFICES ASSUME Next, ppc = "reap", ppc' = "accept"
               PROVE  Zombies = {}
    BY <1>1
  <2>1. ReapDone
    <3>1. CASE \/ \E s \in Sessions : ChildStep(s) \/ ChildAborts(s)
               \/ \E c \in Clients : ClientStep(c) \/ ClientKilled(c)
               \/ Idle
      BY <3>1, OthersKeepCount
    <3> QED
      BY <3>1 DEF Next, ParentStep, Failure, Accept, Fork, CloseAccepted,
         Reap, Drain, DrainDone, AcceptFails, ForkFails, ServerKilled,
         Restart, Draining, Dead
  <2>2. CASE left = 0
    <3>1. kids = {}
      BY <1>1, <2>2, NobodyLeft DEF ChildrenCounted
    <3> QED
      BY <3>1 DEF Zombies
  <2> QED
    BY <2>1, <2>2 DEF ReapDone
<1> QED
  BY <1>1, CountsChildren, PTL DEF Spec, ReapsAllZombies

(* When terminate_all_childlen returns, every child was waited for, the    *)
(* ones that were still at work when accept or fork failed included.       *)
THEOREM DrainsThemAll == Spec => DrainLeavesNoChild
<1>1. ASSUME ChildrenCounted, [Next]_vars
      PROVE  [(ppc \in Draining /\ ppc' \in {"exit", "crash"})
                => kids = {}]_vars
  <2> SUFFICES ASSUME Next, ppc \in Draining, ppc' \in {"exit", "crash"}
               PROVE  kids = {}
    BY <1>1
  <2>1. DrainDone
    <3>1. CASE \/ \E s \in Sessions : ChildStep(s) \/ ChildAborts(s)
               \/ \E c \in Clients : ClientStep(c) \/ ClientKilled(c)
               \/ Idle
      BY <3>1, OthersKeepCount DEF Draining
    <3> QED
      BY <3>1 DEF Next, ParentStep, Failure, Accept, Fork, CloseAccepted,
         Reap, ReapDone, Drain, AcceptFails, ForkFails, ServerKilled,
         Restart, Draining, Dead
  <2> QED
    BY <1>1, <2>1, NobodyLeft DEF DrainDone, ChildrenCounted
<1> QED
  BY <1>1, CountsChildren, PTL DEF Spec, DrainLeavesNoChild

-----------------------------------------------------------------------------
(* Nobody waits in vain                                                    *)

(* What NoMutualWait needs besides IInv: a lock that is held is held by a  *)
(* child that will free it, a connection is queued only while somebody can *)
(* accept it, and a child that has gone on from read() has a client that   *)
(* is done with the connection.                                            *)
LockFreed == lock # NoSession => cpc[lock] \in Critical \cup {"unlock"}
QueueServed == backlog # <<>> => ListenerOpen
AnsweredInv ==
  \A s \in Sessions : cpc[s] \in {"append", "write"} \cup After => ~ClientEnd(s)

LEMMA WaitInit == Init => LockFreed /\ QueueServed /\ AnsweredInv
  BY DEF Init, LockFreed, QueueServed, AnsweredInv, After

(* The child that holds the lock frees it when it leaves the section.      *)
LEMMA LockFreedStep == TypeInv /\ ConnInv /\ LockFreed /\ [Next]_vars => LockFreed'
<1> SUFFICES ASSUME TypeInv, ConnInv, LockFreed, [Next]_vars PROVE LockFreed'
  OBVIOUS
<1>t. /\ lock \in Sessions \cup {NoSession} /\ NoSession \notin Sessions
      /\ cpc \in [Sessions -> {"none"} \cup Live \cup Ended]
      /\ ppc = "fork" => accepted \in Sessions /\ cpc[accepted] = "none"
  BY StoreServerAssumption DEF TypeInv, TypeOK, ConnInv, QueueOK
<1> USE <1>t DEF LockFreed, Critical
<1>1. ASSUME NEW s \in Sessions, ChildStep(s) PROVE LockFreed'
  <2> USE DEF At, Goto, ReleaseLock, ProcessEnds
  <2>1. CASE ChildStart(s) \/ AcquireLock(s)
    BY <2>1 DEF ChildStart, AcquireLock
  <2>2. CASE CheckSize(s) \/ SeekLast(s) \/ ReadLast(s) \/ SendLast(s)
    BY <2>2 DEF CheckSize, SeekLast, ReadLast, SendLast
  <2>3. CASE Receive(s) \/ ReceiveEof(s) \/ SeekEnd(s) \/ WriteRecord(s)
    BY <2>3 DEF Receive, ReceiveEof, SeekEnd, WriteRecord
  <2>4. CASE Unlock(s) \/ Exit(s) \/ ReceiveReset(s)
    BY <2>4 DEF Unlock, Exit, ReceiveReset
  <2> QED
    BY <1>1, <2>1, <2>2, <2>3, <2>4 DEF ChildStep
<1>2. ASSUME NEW s \in Sessions, ChildAborts(s) PROVE LockFreed'
  BY <1>2 DEF ChildAborts, ProcessEnds, ReleaseLock, Goto
<1>3. CASE Fork
  BY <1>3 DEF Fork
<1>4. CASE \/ (ParentStep /\ ~Fork) \/ Restart \/ Idle \/ UNCHANGED vars
           \/ AcceptFails \/ ForkFails \/ ServerKilled
  BY <1>4 DEF ParentStep, Accept, CloseAccepted, Reap, ReapDone, Drain,
     DrainDone, Restart, Idle, AcceptFails, ForkFails, ServerKilled, vars,
     childVars
<1>5. ASSUME NEW c \in Clients, ClientStep(c) \/ ClientKilled(c)
      PROVE  LockFreed'
  BY <1>5 DEF ClientStep, Connect, ConnectRefused, ReadMessage, ReadEof,
     ReadReset, SendAnswer, ClientKilled, childVars
<1> QED
  BY <1>1, <1>2, <1>3, <1>4, <1>5 DEF Next, Failure

(* The step that closes the last listening socket empties the queue.       *)
LEMMA QueueServedStep == TypeInv /\ QueueServed /\ [Next]_vars => QueueServed'
<1> SUFFICES ASSUME TypeInv, QueueServed, [Next]_vars PROVE QueueServed'
  OBVIOUS
<1>t. cpc \in [Sessions -> {"none"} \cup Live \cup Ended]
  BY DEF TypeInv, TypeOK
<1> USE <1>t DEF QueueServed
<1>1. ASSUME DropBacklog PROVE QueueServed'
  BY <1>1 DEF DropBacklog
<1>2. ASSUME UNCHANGED backlog, ListenerOpen => ListenerOpen' PROVE QueueServed'
  BY <1>2
<1>3. ASSUME NEW s \in Sessions, ChildStep(s) PROVE QueueServed'
  <2>1. CASE ChildStart(s)
    BY <1>1, <2>1 DEF ChildStart
  <2>2. CASE ~ChildStart(s)
    <3>1. UNCHANGED <<backlog, ppc>> /\ cpc[s] # "start"
          /\ (\E place : cpc' = [cpc EXCEPT ![s] = place])
      <4> USE DEF At, Goto, ProcessEnds, parentVars, netVars
      <4>1. CASE AcquireLock(s) \/ SeekLast(s) \/ ReadLast(s) \/ SendLast(s)
        BY <4>1 DEF AcquireLock, SeekLast, ReadLast, SendLast
      <4>2. CASE CheckSize(s)
        BY <4>2 DEF CheckSize
      <4>3. CASE Receive(s) \/ ReceiveEof(s) \/ SeekEnd(s) \/ WriteRecord(s)
        BY <4>3 DEF Receive, ReceiveEof, SeekEnd, WriteRecord
      <4>4. CASE Unlock(s) \/ Exit(s) \/ ReceiveReset(s)
        BY <4>4 DEF Unlock, Exit, ReceiveReset
      <4> QED
        BY <1>3, <2>2, <4>1, <4>2, <4>3, <4>4 DEF ChildStep
    <3>2. ListenerOpen => ListenerOpen'
      BY <3>1 DEF ListenerOpen
    <3> QED
      BY <1>2, <3>1, <3>2
  <2> QED
    BY <2>1, <2>2
<1>4. CASE Failure
  <2>1. ASSUME NEW c \in Clients, ClientKilled(c) PROVE QueueServed'
    <3>1. UNCHANGED <<backlog, ppc, cpc>>
      BY <2>1 DEF ClientKilled, parentVars, childVars
    <3> QED
      BY <1>2, <3>1 DEF ListenerOpen
  <2> QED
    BY <1>1, <1>4, <2>1 DEF Failure, AcceptFails, ForkFails, ServerKilled,
       ChildAborts
<1>5. CASE ParentStep
  <2>1. CASE Accept \/ Fork \/ CloseAccepted \/ Reap \/ ReapDone
    BY <2>1 DEF Accept, Fork, CloseAccepted, Reap, ReapDone, ListenerOpen,
       Serving
  <2>2. CASE Drain \/ DrainDone
    <3>1. UNCHANGED <<backlog, cpc>> /\ ppc \notin Serving
      BY <2>2 DEF Drain, DrainDone, Draining, Serving, netVars, childVars
    <3> QED
      BY <1>2, <3>1 DEF ListenerOpen
  <2> QED
    BY <1>5, <2>1, <2>2 DEF ParentStep
<1>6. CASE Restart \/ Idle \/ UNCHANGED vars
  BY <1>6 DEF Restart, Idle, vars, parentVars, childVars, netVars,
     ListenerOpen, Serving
<1>7. ASSUME NEW c \in Clients, ClientStep(c) PROVE QueueServed'
  <2>1. UNCHANGED <<ppc, cpc>> /\ (UNCHANGED backlog \/ ListenerOpen)
    BY <1>7 DEF ClientStep, Connect, ConnectRefused, ReadMessage, ReadEof,
       ReadReset, SendAnswer, parentVars, childVars, netVars
  <2> QED
    BY <2>1 DEF ListenerOpen
<1> QED
  BY <1>3, <1>4, <1>5, <1>6, <1>7 DEF Next

(* A child goes on from read() with the answer, which the client sends     *)
(* last, or at an end of file, which the client has caused.                *)
LEMMA AnsweredStep ==
  TypeInv /\ ConnInv /\ AnswerInv /\ AnsweredInv /\ [Next]_vars => AnsweredInv'
<1> SUFFICES ASSUME TypeInv, ConnInv, AnswerInv, AnsweredInv, [Next]_vars,
                    NEW s \in Sessions,
                    cpc'[s] \in {"append", "write"} \cup After
             PROVE  ~ClientEnd(s)'
  BY DEF AnsweredInv
<1>t. /\ cpc \in [Sessions -> {"none"} \cup Live \cup Ended]
      /\ round \in [Clients -> 1 .. LoopMax + 1]
      /\ clpc \in [Clients -> {"connect", "read", "send", "done", "failed",
                               "killed"}]
      /\ s[1] \in Clients /\ s[2] \in Int
  BY StoreServerAssumption, SessionType DEF TypeInv, TypeOK
<1>a. cpc[s] \in {"append", "write"} \cup After => ~ClientEnd(s)
  BY DEF AnsweredInv
<1> USE <1>t DEF After
<1>1. ASSUME UNCHANGED clientVars, ~ClientEnd(s) PROVE ~ClientEnd(s)'
  BY <1>1 DEF ClientEnd, clientVars
<1>2. ASSUME NEW t \in Sessions, ChildStep(t) PROVE ~ClientEnd(s)'
  <2> USE DEF At, Goto, ProcessEnds
  <2>1. CASE Receive(t) /\ t = s
    <3>1. cpc[s] = "recv" /\ c2s[s] # NoMsg /\ UNCHANGED clientVars
      BY <2>1 DEF Receive
    <3>2. s[2] < round[s[1]]
      BY <3>1 DEF AnswerInv, Answering, AnswerOK, Client
    <3>3. ~ClientEnd(s)
      BY <3>2 DEF ClientEnd
    <3> QED
      BY <1>1, <3>1, <3>3
  <2>2. CASE ReceiveEof(t) /\ t = s
    BY <1>1, <2>2 DEF ReceiveEof
  <2>3. CASE ~(Receive(t) /\ t = s) /\ ~(ReceiveEof(t) /\ t = s)
    <3>1. UNCHANGED clientVars /\ cpc[s] \in {"append", "write"} \cup After
      <4>1. CASE \/ ChildStart(t) \/ AcquireLock(t) \/ SeekLast(t)
                 \/ ReadLast(t) \/ SendLast(t)
        BY <4>1 DEF ChildStart, AcquireLock, SeekLast, ReadLast, SendLast
      <4>2. CASE CheckSize(t)
        BY <4>2 DEF CheckSize
      <4>3. CASE (Receive(t) \/ ReceiveEof(t)) /\ t # s
        BY <4>3 DEF Receive, ReceiveEof
      <4>4. CASE SeekEnd(t) \/ WriteRecord(t)
        BY <4>4 DEF SeekEnd, WriteRecord
      <4>5. CASE Unlock(t) \/ Exit(t) \/ ReceiveReset(t)
        BY <4>5 DEF Unlock, Exit, ReceiveReset
      <4> QED
        BY <1>2, <2>3, <4>1, <4>2, <4>3, <4>4, <4>5 DEF ChildStep
    <3> QED
      BY <1>1, <1>a, <3>1
  <2> QED
    BY <2>1, <2>2, <2>3
<1>3. ASSUME UNCHANGED clientVars, cpc'[s] \in {cpc[s], "start", "exited", "aborted"}
      PROVE  ~ClientEnd(s)'
  BY <1>1, <1>3, <1>a
<1>4. CASE ParentStep \/ Restart \/ Idle \/ UNCHANGED vars
  <2>1. UNCHANGED clientVars /\ cpc'[s] \in {cpc[s], "start"}
    BY <1>4 DEF ParentStep, Accept, Fork, CloseAccepted, Reap, ReapDone, Drain,
       DrainDone, Restart, Idle, vars, childVars
  <2> QED
    BY <1>3, <2>1
<1>5. CASE AcceptFails \/ ForkFails \/ ServerKilled
  BY <1>3, <1>5 DEF AcceptFails, ForkFails, ServerKilled
<1>6. ASSUME NEW t \in Sessions, ChildAborts(t) PROVE ~ClientEnd(s)'
  BY <1>3, <1>6 DEF ChildAborts, ProcessEnds, Goto
<1>7. ASSUME NEW c \in Clients, ClientStep(c) \/ ClientKilled(c)
      PROVE  ~ClientEnd(s)'
  <2>1. cpc'[s] = cpc[s] /\ ~ClientEnd(s)
    BY <1>7, <1>a DEF ClientStep, Connect, ConnectRefused, ReadMessage, ReadEof,
       ReadReset, SendAnswer, ClientKilled, childVars
  <2>2. CASE Connect(c)
    <3>1. ~Fresh(s)
      BY <2>1 DEF ConnInv, FreshOK
    <3>2. ~(s[1] = c /\ s[2] = round[c])
      BY <2>2, <3>1 DEF Connect, Fresh, ClientAt
    <3> QED
      BY <2>1, <2>2, <3>2 DEF Connect, ClientEnd
  <2>3. CASE \/ ConnectRefused(c) \/ ReadMessage(c) \/ ReadEof(c)
             \/ ReadReset(c) \/ ClientKilled(c)
    BY <2>1, <2>3 DEF ConnectRefused, ReadMessage, ReadEof, ReadReset,
       ClientKilled, ClientEnd
  <2>4. CASE SendAnswer(c)
    BY <2>1, <2>4 DEF SendAnswer, ClientEnd
  <2> QED
    BY <1>7, <2>2, <2>3, <2>4 DEF ClientStep
<1> QED
  BY <1>2, <1>4, <1>5, <1>6, <1>7 DEF Next, Failure

(* NoMutualWait: a lock that is held will be freed, a queued connection    *)
(* will be accepted or reset, and a client and its child never both wait   *)
(* for a message from each other, with and without the lock, whatever      *)
(* fails (run_server, child_process and the loop of client.c).             *)
THEOREM NobodyWaitsInVain == Spec => []NoMutualWait
<1> DEFINE WaitInv == LockFreed /\ QueueServed /\ AnsweredInv
<1>1. IInv /\ WaitInv /\ [Next]_vars => WaitInv'
  BY LockFreedStep, QueueServedStep, AnsweredStep DEF IInv
<1>2. IInv /\ WaitInv => NoMutualWait
  <2> SUFFICES ASSUME IInv, WaitInv PROVE NoMutualWait
    OBVIOUS
  <2>1. ASSUME NEW s \in Sessions, cpc[s] = "recv", ClientEnd(s), c2s[s] = NoMsg
        PROVE  clpc[Client(s)] = "send" \/ (clpc[Client(s)] = "read" /\ s2c[s] # NoMsg)
    <3>1. AnswerOK(s) /\ tosend[s] \in message_t
      BY <2>1 DEF IInv, AnswerInv, Answering, TypeInv, PlaceOK
    <3>2. clpc[Client(s)] \in {"read", "send"}
      BY <2>1 DEF ClientEnd, Client
    <3>3. ClientMessage(Client(s), tosend[s]) # NoMsg
      BY <3>1, SessionType, MessageTypes, StoreServerAssumption DEF Client
    <3> QED
      BY <2>1, <3>1, <3>2, <3>3, StoreServerAssumption
      DEF AnswerOK, ClientAt, Client
  <2>2. ASSUME NEW s \in Sessions, ServerEnd(s), s2c[s] = NoMsg,
               ClientAt(s, {"read"})
        PROVE  Waiting(s) \/ ppc = "close"
    <3>1. CASE Queued(s)
      BY <3>1 DEF Waiting
    <3>2. CASE accepted = s
      BY <3>2, StoreServerAssumption DEF Waiting, IInv, TypeInv, TypeOK
    <3>3. CASE cpc[s] \in Live
      <4>1. ClientEnd(s) /\ clpc[s[1]] = "read" /\ round[s[1]] = s[2]
        BY <2>2 DEF ClientAt, ClientEnd
      <4>2. cpc[s] \notin {"append", "write"} \cup After
        BY <4>1 DEF AnsweredInv
      <4>3. cpc[s] # "recv"
        <5>1. ASSUME cpc[s] = "recv" PROVE FALSE
          <6>1. AnswerOK(s)
            BY <5>1 DEF IInv, AnswerInv, Answering
          <6>2. c2s[s] = NoMsg
            BY <4>1, <6>1, SessionType, StoreServerAssumption
            DEF AnswerOK, ClientAt, Client, IInv, TypeInv, TypeOK
          <6> QED
            BY <2>1, <2>2, <4>1, <5>1, <6>2 DEF Client
        <5> QED
          BY <5>1
      <4> QED
        BY <3>3, <4>2, <4>3 DEF Waiting, BeforeRecv, Live, Critical
    <3> QED
      BY <2>2, <3>1, <3>2, <3>3 DEF ServerEnd
  <2> QED
    BY <2>1, <2>2 DEF NoMutualWait, LockFreed, QueueServed
<1>3. Init => WaitInv
  BY WaitInit
<1> HIDE DEF WaitInv
<1> QED
  BY <1>1, <1>2, <1>3, Invariant, PTL DEF Spec

-----------------------------------------------------------------------------
(* Every step advances                                                     *)

(* A child comes forward through its places; the numbers of the places.    *)
LEMMA RankValues ==
  /\ Rank("start") = 3 /\ Rank("lock") = 4 /\ Rank("size") = 5
  /\ Rank("seek") = 6 /\ Rank("read") = 7 /\ Rank("send") = 8
  /\ Rank("recv") = 9 /\ Rank("append") = 10 /\ Rank("write") = 11
  /\ Rank("unlock") = 12 /\ Rank("exit") = 13
  /\ Rank("exited") = 14 /\ Rank("aborted") = 14 /\ Rank("none") = 14
  BY DEF Rank, Ended

LEMMA RankType ==
  /\ \A place \in {"none"} \cup Live \cup Ended : Rank(place) \in 3 .. 14
  /\ \A place \in Live : Rank(place) < 14
  BY RankValues DEF Live, Before, Critical, After, Ended

(* The connection of s was accepted, and its child is not forked yet.      *)
InHand(s) == ppc = "fork" /\ accepted = s

(* A session that is not thrown back on its way does not lose rank.        *)
LEMMA SessionKeeps ==
  ASSUME TypeInv, TypeInv', NEW s \in Sessions,
         Fresh(s)' => Fresh(s),
         Queued(s)' => Queued(s) \/ Fresh(s),
         InHand(s)' => InHand(s) \/ Queued(s) \/ Fresh(s),
         \/ cpc'[s] = cpc[s]
         \/ Rank(cpc'[s]) > Rank(cpc[s])
         \/ Fresh(s) \/ Queued(s) \/ InHand(s)
  PROVE  SessionRank(s)' >= SessionRank(s)
<1>1. Rank(cpc[s]) \in 3 .. 14 /\ Rank(cpc'[s]) \in 3 .. 14
  BY RankType DEF TypeInv, TypeOK
<1>2. /\ SessionRank(s) = IF Fresh(s) THEN 0 ELSE IF Queued(s) THEN 1
                          ELSE IF InHand(s) THEN 2 ELSE Rank(cpc[s])
      /\ SessionRank(s)' = IF Fresh(s)' THEN 0 ELSE IF Queued(s)' THEN 1
                           ELSE IF InHand(s)' THEN 2 ELSE Rank(cpc'[s])
  BY DEF SessionRank, InHand, Rank
<1> QED
  BY <1>1, <1>2

(* Where a session is in one place, it is in no other.                     *)
LEMMA OnePlace ==
  ASSUME TypeInv, ConnInv, NEW s \in Sessions
  PROVE  /\ Queued(s) => ~Fresh(s) /\ ~InHand(s) /\ cpc[s] = "none"
         /\ InHand(s) => ~Fresh(s) /\ ~Queued(s) /\ cpc[s] = "none"
         /\ cpc[s] # "none" => ~Fresh(s) /\ ~Queued(s) /\ ~InHand(s)
         /\ Waiting(s) => ~Fresh(s)
<1>1. Waiting(s) => ~Fresh(s)
  <2>1. round[s[1]] \in Int /\ s[2] \in Int
    BY SessionType, StoreServerAssumption DEF TypeInv, TypeOK
  <2>2. Waiting(s) => round[s[1]] = s[2] /\ clpc[s[1]] \in {"read", "killed"}
    BY DEF ConnInv, WaitingOK, ClientAt
  <2> QED
    BY <2>1, <2>2 DEF Fresh, ClientAt
<1>2. /\ Queued(s) => cpc[s] = "none" /\ Waiting(s)
      /\ InHand(s) => cpc[s] = "none" /\ ~Queued(s) /\ Waiting(s)
      /\ Fresh(s) => cpc[s] = "none"
  BY DEF ConnInv, QueueOK, FreshOK, Waiting, InHand
<1> QED
  BY <1>1, <1>2

(* What a step does that leaves the clients, or the server, alone.         *)
LEMMA ClientsStay ==
  ASSUME TypeInv, UNCHANGED clientVars
  PROVE  /\ \A c \in Clients : ClientRank(c)' = ClientRank(c) /\ ClientRank(c) \in Int
         /\ \A s \in Sessions : Fresh(s)' <=> Fresh(s)
<1>1. ASSUME NEW c \in Clients PROVE ClientRank(c)' = ClientRank(c)
  BY DEF clientVars, ClientRank
<1>2. ASSUME NEW c \in Clients PROVE ClientRank(c) \in Int
  <2>1. round[c] \in Int /\ LoopMax \in Int
    BY StoreServerAssumption DEF TypeInv, TypeOK
  <2>2. clpc[c] \in {"connect", "read", "send", "done", "failed", "killed"}
    BY DEF TypeInv, TypeOK
  <2> QED
    BY <2>1, <2>2 DEF ClientRank
<1> QED
  BY <1>1, <1>2 DEF clientVars, Fresh, ClientAt

LEMMA ServerStays ==
  ASSUME TypeInv, UNCHANGED <<ppc, restarts>>
  PROVE  ServerRank' = ServerRank /\ ServerRank \in Int
<1>1. ServerRank' = ServerRank
  BY DEF ServerRank
<1>2. ServerRank \in Int
  BY StoreServerAssumption DEF ServerRank, TypeInv, TypeOK
<1> QED
  BY <1>1, <1>2

(* The parent's own steps.                                                 *)
LEMMA ParentAdvances ==
  ASSUME TypeInv, ConnInv, TypeInv', ParentStep \/ Restart
  PROVE  NobodyGoesBack /\ SomebodyAdvances
<1>t. /\ counter \in Nat /\ left \in Nat /\ restarts \in Nat
      /\ backlog \in Seq(Sessions)
      /\ accepted \in Sessions \cup {NoSession} /\ NoSession \notin Sessions
      /\ ppc = "fork" => accepted \in Sessions
      /\ cpc \in [Sessions -> {"none"} \cup Live \cup Ended]
  BY StoreServerAssumption DEF TypeInv, TypeOK
<1>u. UNCHANGED clientVars
  BY DEF ParentStep, Restart, Accept, Fork, CloseAccepted, Reap, ReapDone, Drain, DrainDone
<1>c. /\ \A c \in Clients : ClientRank(c)' >= ClientRank(c)
      /\ \A s \in Sessions : Fresh(s)' <=> Fresh(s)
  BY <1>u, ClientsStay
<1>1. CASE Accept
  <2>1. /\ backlog # <<>> /\ backlog' = Tail(backlog) /\ accepted' = Head(backlog)
        /\ ppc = "accept" /\ ppc' = "fork" /\ UNCHANGED <<restarts, cpc>>
    BY <1>1 DEF Accept, childVars
  <2>h. PICK h : h = Head(backlog)
    OBVIOUS
  <2>2. /\ h \in Sessions /\ Queued(h)
        /\ \A t \in Sessions : Queued(t)' => Queued(t) /\ t # h
    BY <1>t, <2>1, <2>h, QueueAccept DEF ConnInv, QueueOK
  <2>3. \A t \in Sessions : ~InHand(t) /\ (InHand(t)' <=> t = h)
    BY <2>1, <2>h DEF InHand
  <2>4. ASSUME NEW t \in Sessions PROVE SessionRank(t)' >= SessionRank(t)
    BY <1>c, <2>1, <2>2, <2>3, SessionKeeps
  <2>5. SessionRank(h)' > SessionRank(h)
    <3>1. ~Fresh(h) /\ ~Fresh(h)' /\ ~Queued(h)' /\ InHand(h)'
      BY <1>c, <2>2, <2>3, OnePlace
    <3> QED
      BY <2>2, <3>1 DEF SessionRank, InHand
  <2>6. ServerRank' >= ServerRank
    BY <1>t, <2>1 DEF ServerRank, Serving, Draining, Dead
  <2> QED
    BY <1>c, <2>2, <2>4, <2>5, <2>6 DEF NobodyGoesBack, SomebodyAdvances
<1>2. CASE Fork
  <2>1. /\ ppc = "fork" /\ ppc' = "close" /\ accepted \in Sessions
        /\ cpc' = [cpc EXCEPT ![accepted] = "start"]
        /\ UNCHANGED <<restarts, accepted, backlog>>
    BY <1>t, <1>2 DEF Fork, netVars
  <2>2. \A t \in Sessions : (Queued(t)' <=> Queued(t)) /\ ~InHand(t)'
                            /\ (InHand(t) <=> t = accepted)
    BY <2>1 DEF Queued, InHand
  <2>3. ASSUME NEW t \in Sessions PROVE SessionRank(t)' >= SessionRank(t)
    <3>1. t # accepted => cpc'[t] = cpc[t]
      BY <1>t, <2>1
    <3> QED
      BY <1>c, <2>2, <3>1, SessionKeeps
  <2>4. SessionRank(accepted)' > SessionRank(accepted)
    <3>1. /\ ~Fresh(accepted) /\ ~Queued(accepted) /\ InHand(accepted)
      BY <2>1, <2>2, OnePlace
    <3>2. PICK s \in Sessions : s = accepted
      BY <2>1
    <3>3. ~Fresh(s)' /\ ~Queued(s)' /\ ~InHand(s)' /\ cpc'[s] = "start"
      BY <1>c, <1>t, <2>1, <2>2, <3>1, <3>2
    <3>4. SessionRank(s)' = 3 /\ SessionRank(s) = 2
      BY <3>1, <3>2, <3>3, RankValues DEF SessionRank, InHand
    <3> QED
      BY <2>1, <3>2, <3>4
  <2>5. ServerRank' >= ServerRank
    BY <1>t, <2>1 DEF ServerRank, Serving, Draining, Dead
  <2> QED
    BY <1>c, <2>1, <2>3, <2>4, <2>5 DEF NobodyGoesBack, SomebodyAdvances
<1>3. ASSUME UNCHANGED <<backlog, cpc>>, ppc # "fork", ppc' # "fork"
      PROVE  \A t \in Sessions : SessionRank(t)' >= SessionRank(t)
  <2> SUFFICES ASSUME NEW t \in Sessions
               PROVE  SessionRank(t)' >= SessionRank(t)
    OBVIOUS
  <2>1. (Queued(t)' <=> Queued(t)) /\ ~InHand(t)'
    BY <1>3 DEF Queued, InHand
  <2> QED
    BY <1>3, <1>c, <2>1, SessionKeeps
<1>4. CASE CloseAccepted
  <2>1. /\ \A t \in Sessions : SessionRank(t)' >= SessionRank(t)
        /\ UNCHANGED restarts /\ ppc = "close" /\ ppc' = "reap"
        /\ left' = counter + 1 /\ counter' = counter + 1
    BY <1>3, <1>4 DEF CloseAccepted, netVars, childVars
  <2>2. ServerRank' >= ServerRank
    BY <1>t, <2>1 DEF ServerRank, Serving, Draining, Dead
  <2>3. ParentWork = counter + 3 /\ ParentWork' = (counter + 1) + 1
    BY <2>1 DEF ParentWork, Draining
  <2>4. ParentWork' < ParentWork
    BY <1>t, <2>3
  <2> QED
    BY <1>c, <2>1, <2>2, <2>4 DEF NobodyGoesBack, SomebodyAdvances
<1>5. CASE Reap \/ Drain
  <2>1. /\ UNCHANGED <<backlog, cpc, ppc, restarts>>
        /\ ppc \in {"reap"} \cup Draining /\ left' = left - 1
    BY <1>5 DEF Reap, Drain, netVars, childVars
  <2>2. \A t \in Sessions : SessionRank(t)' >= SessionRank(t)
    BY <1>3, <2>1 DEF Draining
  <2>3. ServerRank' >= ServerRank
    BY <2>1, ServerStays
  <2>4. ParentWork = left + 1 /\ ParentWork' = (left - 1) + 1
    BY <2>1 DEF ParentWork, Draining
  <2>5. ParentWork' < ParentWork
    BY <1>t, <2>4
  <2> QED
    BY <1>c, <2>2, <2>3, <2>5 DEF NobodyGoesBack, SomebodyAdvances
<1>6. CASE ReapDone
  <2>1. /\ UNCHANGED <<backlog, cpc, restarts>>
        /\ ppc = "reap" /\ ppc' = "accept" /\ left' = 0
    BY <1>6 DEF ReapDone, netVars, childVars
  <2>2. \A t \in Sessions : SessionRank(t)' >= SessionRank(t)
    BY <1>3, <2>1
  <2>3. ServerRank' >= ServerRank
    BY <1>t, <2>1 DEF ServerRank, Serving, Draining, Dead
  <2>4. ParentWork = left + 1 /\ ParentWork' = 0
    BY <2>1 DEF ParentWork, Draining
  <2>5. ParentWork' < ParentWork
    BY <1>t, <2>4
  <2> QED
    BY <1>c, <2>2, <2>3, <2>5 DEF NobodyGoesBack, SomebodyAdvances
<1>7. CASE DrainDone \/ Restart
  <2>1. /\ UNCHANGED <<backlog, cpc>>
        /\ \/ ppc \in Draining /\ ppc' \in Dead /\ restarts' = restarts
           \/ ppc \in Dead /\ ppc' = "accept" /\ restarts' = restarts + 1
    BY <1>7 DEF DrainDone, Restart, netVars, childVars, Dead
  <2>2. \A t \in Sessions : SessionRank(t)' >= SessionRank(t)
    BY <1>3, <2>1 DEF Draining, Dead
  <2>3. ServerRank' > ServerRank
    BY <1>t, <2>1 DEF ServerRank, Serving, Draining, Dead
  <2>4. ServerRank \in Int /\ ServerRank' \in Int
    BY <1>t, <2>1 DEF ServerRank, Serving, Draining, Dead
  <2> QED
    BY <1>c, <2>2, <2>3, <2>4 DEF NobodyGoesBack, SomebodyAdvances
<1> QED
  BY <1>1, <1>2, <1>4, <1>5, <1>6, <1>7 DEF ParentStep

(* What resets the queue lets nobody fall back.                            *)
LEMMA DropKeeps ==
  ASSUME TypeInv, ConnInv, TypeInv', DropBacklog, UNCHANGED clientVars,
         NEW s \in Sessions, ppc' = "fork" => ppc = "fork" /\ accepted' = accepted,
         cpc'[s] = cpc[s]
  PROVE  SessionRank(s)' >= SessionRank(s)
<1>1. Queued(s)' => Queued(s)
  BY DEF DropBacklog, Queued
<1>2. Fresh(s)' <=> Fresh(s)
  BY ClientsStay
<1>3. InHand(s)' => InHand(s)
  BY DEF InHand
<1> QED
  BY <1>1, <1>2, <1>3, SessionKeeps

(* A child's steps, its ends included.                                     *)
LEMMA ChildAdvances ==
  ASSUME TypeInv, ConnInv, TypeInv', NEW s \in Sessions,
         ChildStep(s) \/ ChildAborts(s)
  PROVE  NobodyGoesBack /\ SomebodyAdvances
<1>t. cpc \in [Sessions -> {"none"} \cup Live \cup Ended]
  BY DEF TypeInv, TypeOK
<1>1. /\ UNCHANGED clientVars /\ UNCHANGED <<ppc, restarts, accepted>>
      /\ UNCHANGED backlog \/ DropBacklog
  BY DEF ChildStep, ChildStart, AcquireLock, CheckSize, SeekLast, ReadLast,
     SendLast, Receive, ReceiveEof, ReceiveReset, SeekEnd, WriteRecord,
     Unlock, Exit, ChildAborts, parentVars, netVars
<1>2. /\ cpc[s] # "none" /\ Rank(cpc'[s]) > Rank(cpc[s]) /\ cpc'[s] # "none"
      /\ \A t \in Sessions : t # s => cpc'[t] = cpc[t]
  <2> USE <1>t, RankValues DEF At, Goto, ProcessEnds
  <2>1. CASE \/ ChildStart(s) \/ AcquireLock(s) \/ SeekLast(s)
             \/ ReadLast(s) \/ SendLast(s)
    BY <2>1 DEF ChildStart, AcquireLock, SeekLast, ReadLast, SendLast
  <2>2. CASE CheckSize(s)
    BY <2>2 DEF CheckSize
  <2>3. CASE Receive(s) \/ ReceiveEof(s) \/ SeekEnd(s) \/ WriteRecord(s)
    BY <2>3 DEF Receive, ReceiveEof, SeekEnd, WriteRecord
  <2>4. CASE Unlock(s) \/ Exit(s) \/ ReceiveReset(s)
    BY <2>4 DEF Unlock, Exit, ReceiveReset
  <2>5. CASE ChildAborts(s)
    <3>1. cpc[s] \in Live /\ cpc'[s] \in Ended
      BY <2>5 DEF ChildAborts, Ended
    <3>2. Rank(cpc[s]) < 14 /\ Rank(cpc'[s]) = 14 /\ cpc'[s] # "none"
      BY <3>1, RankType DEF Ended
    <3>3. cpc[s] # "none"
      BY <3>1 DEF Live, Before, Critical, After
    <3> QED
      BY <2>5, <3>2, <3>3 DEF ChildAborts
  <2> QED
    BY <2>1, <2>2, <2>3, <2>4, <2>5 DEF ChildStep
<1>3. /\ \A c \in Clients : ClientRank(c)' >= ClientRank(c)
      /\ \A t \in Sessions : Fresh(t)' <=> Fresh(t)
  BY <1>1, ClientsStay
<1>4. ServerRank' >= ServerRank
  BY <1>1, ServerStays
<1>5. \A t \in Sessions : (Queued(t)' => Queued(t)) /\ (InHand(t)' <=> InHand(t))
  BY <1>1 DEF DropBacklog, Queued, InHand
<1>6. ASSUME NEW t \in Sessions PROVE SessionRank(t)' >= SessionRank(t)
  BY <1>2, <1>3, <1>5, SessionKeeps
<1>7. SessionRank(s)' > SessionRank(s)
  <2>1. ~Fresh(s) /\ ~Queued(s) /\ ~InHand(s)
    BY <1>2, OnePlace
  <2>2. SessionRank(s) = Rank(cpc[s]) /\ SessionRank(s)' = Rank(cpc'[s])
    BY <1>3, <1>5, <2>1 DEF SessionRank, InHand, Rank
  <2> QED
    BY <1>2, <2>2
<1> QED
  BY <1>3, <1>4, <1>6, <1>7 DEF NobodyGoesBack, SomebodyAdvances

(* The failures of the parent.                                             *)
LEMMA FailureAdvances ==
  ASSUME TypeInv, ConnInv, TypeInv', AcceptFails \/ ForkFails \/ ServerKilled
  PROVE  NobodyGoesBack /\ SomebodyAdvances
<1>1. /\ UNCHANGED <<clientVars, cpc, restarts>> /\ DropBacklog
      /\ \/ ppc \in Serving /\ ppc' \in Draining \cup Dead
         \/ ppc \in Draining /\ ppc' \in Dead
  BY DEF AcceptFails, ForkFails, ServerKilled, Serving, Draining, Dead
<1>2. ASSUME NEW t \in Sessions PROVE SessionRank(t)' >= SessionRank(t)
  BY <1>1, DropKeeps DEF Draining, Dead
<1>3. ServerRank' > ServerRank /\ ServerRank' >= ServerRank
  <2>1. restarts \in Nat
    BY StoreServerAssumption DEF TypeInv, TypeOK
  <2> QED
    BY <1>1, <2>1 DEF ServerRank, Serving, Draining, Dead
<1> QED
  BY <1>1, <1>2, <1>3, ClientsStay DEF NobodyGoesBack, SomebodyAdvances

(* A client's steps.                                                       *)
LEMMA ClientAdvances ==
  ASSUME TypeInv, ConnInv, TypeInv', NEW c \in Clients,
         ClientStep(c) \/ ClientKilled(c)
  PROVE  NobodyGoesBack /\ SomebodyAdvances
<1>t. /\ clpc \in [Clients -> {"connect", "read", "send", "done", "failed",
                               "killed"}]
      /\ round \in [Clients -> 1 .. LoopMax + 1] /\ LoopMax \in Nat
      /\ clpc[c] \in {"connect", "read", "send"} => round[c] =< LoopMax
  BY StoreServerAssumption DEF TypeInv, TypeOK, PlaceOK
<1>1. UNCHANGED <<ppc, restarts, accepted, cpc>>
  BY DEF ClientStep, Connect, ConnectRefused, ReadMessage, ReadEof, ReadReset,
     SendAnswer, ClientKilled, parentVars, childVars
<1>2. /\ \A d \in Clients : d # c => clpc'[d] = clpc[d] /\ round'[d] = round[d]
      /\ \/ clpc[c] = "connect" /\ clpc'[c] = "read" /\ round'[c] = round[c]
         \/ clpc[c] = "read" /\ clpc'[c] = "send" /\ round'[c] = round[c]
         \/ /\ clpc[c] \in {"connect", "read", "send"} /\ round'[c] = round[c]
            /\ clpc'[c] \in {"failed", "killed"}
         \/ /\ clpc[c] = "send" /\ round'[c] = round[c] + 1
            /\ \/ clpc'[c] = "connect"
               \/ clpc'[c] = "done" /\ round[c] = LoopMax
  BY <1>t DEF ClientStep, Connect, ConnectRefused, ReadMessage, ReadEof,
     ReadReset, SendAnswer, ClientKilled
<1>3. ClientRank(c)' > ClientRank(c) /\ ClientRank(c)' >= ClientRank(c)
  BY <1>t, <1>2 DEF ClientRank
<1>4. ASSUME NEW d \in Clients PROVE ClientRank(d)' >= ClientRank(d)
  <2>1. CASE d # c
    <3>1. ClientRank(d)' = ClientRank(d) /\ ClientRank(d) \in Int
      BY <1>t, <1>2, <2>1 DEF ClientRank
    <3> QED
      BY <3>1
  <2> QED
    BY <1>3, <2>1
<1>5. ASSUME NEW s \in Sessions PROVE SessionRank(s)' >= SessionRank(s)
  <2>0. s[1] \in Clients /\ s[2] \in Int
    BY SessionType
  <2>1. Fresh(s)' => Fresh(s)
    BY <1>t, <1>2, <2>0 DEF Fresh, ClientAt
  <2>2. Queued(s)' => Queued(s) \/ Fresh(s)
    <3>1. CASE Connect(c)
      <4>1. PICK z \in Sessions : z = Session(c) /\ z[1] = c /\ z[2] = round[c]
        BY <3>1, ClientSession DEF Connect
      <4>2. Fresh(z) /\ backlog' = Append(backlog, z)
        BY <3>1, <4>1 DEF Connect, Fresh, ClientAt
      <4>3. ~Queued(z)
        BY <4>2, OnePlace
      <4> QED
        BY <4>2, <4>3, QueueConnect DEF ConnInv, QueueOK, TypeInv, TypeOK
    <3>2. CASE ~Connect(c)
      <4>1. UNCHANGED backlog
        BY <3>2 DEF ClientStep, ConnectRefused, ReadMessage, ReadEof, ReadReset,
           SendAnswer, ClientKilled, netVars
      <4> QED
        BY <4>1 DEF Queued
    <3> QED
      BY <3>1, <3>2
  <2>3. InHand(s)' <=> InHand(s)
    BY <1>1 DEF InHand
  <2> QED
    BY <1>1, <2>1, <2>2, <2>3, SessionKeeps
<1>6. ServerRank' >= ServerRank
  BY <1>1, ServerStays
<1> QED
  BY <1>3, <1>4, <1>5, <1>6 DEF NobodyGoesBack, SomebodyAdvances

(* EveryStepAdvances: no step of the parent, a child or a client throws    *)
(* anybody back, and each brings somebody forward or leaves the parent     *)
(* less to wait for; the waiting loops of run_server go round only when    *)
(* they have waited for a child.                                           *)
THEOREM EverybodyAdvances == Spec => EveryStepAdvances
<1>1. ASSUME IInv, [Next]_vars
      PROVE  [NobodyGoesBack /\ SomebodyAdvances]_vars
  <2>1. TypeInv /\ ConnInv /\ TypeInv'
    BY <1>1, TypeStep DEF IInv
  <2> QED
    BY <1>1, <2>1, ParentAdvances, ChildAdvances, FailureAdvances, ClientAdvances
    DEF Next, Failure, Idle
<1> QED
  BY <1>1, Invariant, PTL DEF Spec, EveryStepAdvances
=============================================================================
