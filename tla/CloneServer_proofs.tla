-------------------------- MODULE CloneServer_proofs --------------------------
(***************************************************************************)
(* Proofs about CloneServer, for any number of clients and sessions, any   *)
(* number of stacks and any failures.  The store, the lock and the         *)
(* connections need no new argument: the clone server is shown to do what  *)
(* the fork server does, and its theorems are used.  For that every child  *)
(* must have got its own connection from the memory that all share.        *)
(***************************************************************************)
EXTENDS CloneServer, Progress_proofs

(* StoreServer must allow what a failing mmap() leads to, a parent that is *)
(* gone.  No child need be allowed to fail.                                *)
FailuresAllowed == "server" \in Faults

-----------------------------------------------------------------------------
(* The invariants                                                          *)

(* The parent has at most one connection open, so that every connection    *)
(* gets the same number, and args, once written, is never changed by being *)
(* written again; the table that a child got has its connection there.     *)
ArgInv ==
  /\ table = [s \in Sessions |-> table[s]] /\ arg = [s \in Sessions |-> arg[s]]
  /\ ppc \in {"accept", "reap"} => DOMAIN open = {}
  /\ ppc \in {"fork", "close"} =>
       DOMAIN open = {1} /\ open[1] = accepted /\ socket_no = 1
  /\ \A s \in Sessions :
       cpc[s] \in Live => args = 1 /\ 1 \in DOMAIN table[s] /\ table[s][1] = s
  /\ \A s \in Sessions : cpc[s] \in Live \ {"start"} => arg[s] = 1

(* Only a failing call brings a child to error_new: its number is never a  *)
(* bad one.                                                                *)
FailInv ==
  \A s \in failing :
    s \in Sessions /\ "child" \in Faults /\ cpc[s] \in Critical \cup {"lock"}

LEMMA OwnOne ==
  ASSUME ArgInv, NEW s \in Sessions, cpc[s] \in Live \ {"start"}
  PROVE  Connection(s) = s
  BY DEF ArgInv, Connection

LEMMA ArgInit == CloneInit => ArgInv /\ FailInv /\ UndefinedOnlyByErrors
  BY DEF CloneInit, Init, ArgInv, FailInv, UndefinedOnlyByErrors, NoneOpen,
         Live, Before, Critical, After

(* The disjuncts of the next-state relation, without the guard.            *)
LEMMA CloneCases ==
  [CloneNext]_allVars =>
    \/ CloneParentStep
    \/ CloneFails \/ CloneKilled \/ AcceptReported
    \/ \E s \in Sessions : CallFails(s) \/ ChildKilled(s)
    \/ \E s \in Sessions : CloneChildStep(s)
    \/ \E c \in Clients :
         (ClientStep(c) \/ ClientKilled(c)) /\ UNCHANGED cloneVars
    \/ HeapRaced \/ HeapTorn \/ (Idle /\ UNCHANGED cloneVars)
    \/ UNCHANGED allVars
  BY DEF CloneNext, CloneFailure

-----------------------------------------------------------------------------
(* The steps of the children                                               *)

(* On its own connection a child does what a child of the fork server      *)
(* does; that is where the arguments matter.                               *)
LEMMA ChildMaps ==
  ASSUME ArgInv, NEW s \in Sessions, CloneChildStep(s)
  PROVE  \/ TakeArgs(s) \/ ArgsLost(s) \/ ErrorExit(s)
         \/ s \notin failing /\ ~At(s, "start") /\ ChildStep(s) /\ UNCHANGED cloneVars
<1>1. CASE CloneSend(s) /\ s \notin failing
  <2>1. Connection(s) = s /\ s # NoSession
    BY <1>1, OwnOne, StoreServerAssumption DEF CloneSend, At, Live, Critical
  <2>2. SendLast(s) /\ UNCHANGED cloneVars
    BY <1>1, <2>1 DEF CloneSend, SendLast, cloneVars, heapVars
  <2> QED
    BY <1>1, <2>2 DEF ChildStep, CloneSend, At
<1>2. CASE /\ CloneReceive(s) \/ CloneReceiveEof(s) \/ CloneReceiveReset(s)
           /\ s \notin failing
  <2>1. Connection(s) = s /\ At(s, "recv")
    BY <1>2, OwnOne
    DEF CloneReceive, CloneReceiveEof, CloneReceiveReset, At, Live, Critical
  <2>2. /\ Receive(s) \/ ReceiveEof(s) \/ ReceiveReset(s)
        /\ UNCHANGED cloneVars
    BY <1>2, <2>1 DEF CloneReceive, CloneReceiveEof, CloneReceiveReset, Receive,
                      ReceiveEof, ReceiveReset
  <2> QED
    BY <1>2, <2>1, <2>2 DEF ChildStep, At
<1>3. CASE /\ \/ AcquireLock(s) \/ CheckSize(s) \/ SeekLast(s) \/ ReadLast(s)
              \/ SeekEnd(s) \/ WriteRecord(s) \/ Unlock(s) \/ Exit(s)
           /\ s \notin failing /\ UNCHANGED cloneVars
  BY <1>3 DEF ChildStep, AcquireLock, CheckSize, SeekLast, ReadLast, SeekEnd,
              WriteRecord, Unlock, Exit, At
<1> QED
  BY <1>1, <1>2, <1>3 DEF CloneChildStep

(* A child that is past "start" stays past it or ends.                     *)
LEMMA ChildGoesOn ==
  ASSUME NEW s \in Sessions, ChildStep(s), ~At(s, "start")
  PROVE  /\ cpc[s] \in Live \ {"start"}
         /\ \E there : there # "start" /\ Goto(s, there)
         /\ UNCHANGED <<ppc, accepted>>
<1>1. CASE AcquireLock(s) \/ CheckSize(s) \/ SeekLast(s) \/ ReadLast(s)
  BY <1>1 DEF AcquireLock, CheckSize, SeekLast, ReadLast, At, Goto, Live,
              Before, Critical, parentVars
<1>2. CASE SendLast(s) \/ Receive(s) \/ ReceiveEof(s) \/ ReceiveReset(s)
  BY <1>2 DEF SendLast, Receive, ReceiveEof, ReceiveReset, ProcessEnds, At,
              Goto, Live, Critical, parentVars
<1>3. CASE SeekEnd(s) \/ WriteRecord(s) \/ Unlock(s) \/ Exit(s)
  BY <1>3 DEF SeekEnd, WriteRecord, Unlock, Exit, ProcessEnds, At, Goto, Live,
              Critical, After, parentVars
<1>4. ~ChildStart(s)
  BY DEF ChildStart
<1> QED
  BY <1>1, <1>2, <1>3, <1>4 DEF ChildStep

-----------------------------------------------------------------------------
(* The clone server implements the fork server                             *)

(* A parent without a stack is gone like one that was killed.              *)
LEMMA ReturnIsKill == FailuresAllowed /\ ReturnsAtOnce => ServerKilled
  BY DEF FailuresAllowed, ReturnsAtOnce, ServerKilled, Serving

(* A child that reports an error is one that aborts.                       *)
LEMMA ErrorIsAbort ==
  ASSUME FailInv, NEW s \in Sessions, ErrorExit(s)
  PROVE  ChildAborts(s)
<1>1. "child" \in Faults /\ cpc[s] \in Critical \cup {"lock"}
  BY DEF FailInv, ErrorExit
<1>2. cpc[s] \in Live /\ cpc[s] \notin After
  BY <1>1 DEF Live, Before, Critical, After
<1> QED
  BY <1>1, <1>2 DEF ChildAborts, ErrorExit

(* Every step of the clone server is one of the fork server, or changes    *)
(* nothing that the fork server has.                                       *)
LEMMA CloneStep ==
  ASSUME FailuresAllowed, ArgInv, FailInv, [CloneNext]_allVars
  PROVE  [Next]_vars
<1>1. CASE CloneParentStep
  <2>1. CASE CloneAccept \/ Clone \/ CloneClose \/ CloneDrainDone
    BY <2>1 DEF CloneAccept, Clone, CloneClose, CloneDrainDone, Next, ParentStep
  <2>2. CASE ReturnsAtOnce
    BY <2>2, ReturnIsKill DEF Next, Failure
  <2>3. CASE CloneAcceptFails
    BY <2>3 DEF CloneAcceptFails, Next, Failure
  <2>4. CASE (Reap \/ ReapDone \/ Drain) /\ UNCHANGED cloneVars
    BY <2>4 DEF Next, ParentStep
  <2>5. CASE MmapFails
    BY <2>5 DEF MmapFails
  <2> QED
    BY <1>1, <2>1, <2>2, <2>3, <2>4, <2>5 DEF CloneParentStep
<1>2. CASE CloneFails \/ CloneKilled \/ AcceptReported
  BY <1>2 DEF CloneFails, CloneKilled, AcceptReported, Next, Failure
<1>3. ASSUME NEW s \in Sessions, CallFails(s) \/ ChildKilled(s) PROVE [Next]_vars
  BY <1>3 DEF CallFails, ChildKilled, Next, Failure
<1>4. ASSUME NEW c \in Clients, ClientKilled(c) \/ ClientStep(c) PROVE Next
  BY <1>4 DEF Next, Failure
<1>5. CASE HeapRaced \/ HeapTorn \/ UNCHANGED allVars
  BY <1>5 DEF HeapRaced, HeapTorn, allVars
<1>6. CASE Idle
  BY <1>6 DEF Next
<1>7. ASSUME NEW s \in Sessions, CloneChildStep(s) PROVE [Next]_vars
  <2>1. CASE TakeArgs(s)
    BY <2>1 DEF TakeArgs, Next, ChildStep
  <2>2. CASE ArgsLost(s)
    BY <2>2 DEF ArgsLost
  <2>3. CASE ErrorExit(s)
    BY <2>3, ErrorIsAbort DEF Next, Failure
  <2>4. CASE ChildStep(s)
    BY <2>4 DEF Next
  <2> QED
    BY <1>7, <2>1, <2>2, <2>3, <2>4, ChildMaps
<1> QED
  BY <1>1, <1>2, <1>3, <1>4, <1>5, <1>6, <1>7, CloneCases

-----------------------------------------------------------------------------
(* The arguments                                                           *)

(* With no connection open the next one gets the first number.             *)
LEMMA FirstNumber == DOMAIN open = {} => LowestFree = 1
<1> SUFFICES ASSUME DOMAIN open = {} PROVE LowestFree = 1
  OBVIOUS
<1>1. Cardinality(DOMAIN open) = 0
  BY FS_EmptySet
<1>2. 1 .. Cardinality(DOMAIN open) + 1 = {1}
  BY <1>1
<1>3. 1 \notin DOMAIN open /\ 1 .. 1 - 1 \subseteq DOMAIN open
  OBVIOUS
<1> QED
  BY <1>2, <1>3 DEF LowestFree

(* A step that makes no child live and moves none past "start" leaves the  *)
(* children's part of the invariant alone.                                 *)
LEMMA ArgQuiet ==
  ASSUME ArgInv, UNCHANGED <<args, table, arg>>,
         \A s \in Sessions : cpc'[s] \in Live => cpc[s] \in Live,
         \A s \in Sessions : cpc'[s] \in Live \ {"start"} => cpc[s] \in Live \ {"start"},
         ppc' \in {"accept", "reap"} => DOMAIN open' = {},
         ppc' \in {"fork", "close"} =>
           DOMAIN open' = {1} /\ open'[1] = accepted' /\ socket_no' = 1
  PROVE  ArgInv'
  BY DEF ArgInv

(* The child of session s has moved, but not past "start".                 *)
LEMMA ArgOneMoves ==
  ASSUME TypeOK, ArgInv, NEW s \in Sessions, NEW there,
         Goto(s, there), there \in Live => cpc[s] \in Live,
         there \in Live \ {"start"} => cpc[s] \in Live \ {"start"},
         UNCHANGED <<ppc, accepted, argVars>>
  PROVE  ArgInv'
<1>1. cpc \in [Sessions -> {"none"} \cup Live \cup Ended]
  BY DEF TypeOK
<1>2. cpc' = [cpc EXCEPT ![s] = there]
  BY DEF Goto
<1>3. /\ \A t \in Sessions : cpc'[t] \in Live => cpc[t] \in Live
      /\ \A t \in Sessions : cpc'[t] \in Live \ {"start"} => cpc[t] \in Live \ {"start"}
  BY <1>1, <1>2
<1> QED
  BY <1>3, ArgQuiet DEF ArgInv, argVars

LEMMA ArgParent ==
  ASSUME TypeOK, ArgInv, CloneParentStep
  PROVE  ArgInv'
<1>a. cpc \in [Sessions -> {"none"} \cup Live \cup Ended]
  BY DEF TypeOK
<1>1. CASE CloneAccept
  <2>1. DOMAIN open = {} /\ ppc' = "fork" /\ accepted' = Head(backlog)
    BY <1>1 DEF ArgInv, CloneAccept, Accept
  <2>2. LowestFree = 1
    BY <2>1, FirstNumber
  <2>3. socket_no' = 1 /\ DOMAIN open' = {1} /\ open'[1] = accepted'
    BY <1>1, <2>1, <2>2 DEF CloneAccept, Opened
  <2>4. UNCHANGED <<cpc, args, table, arg>>
    BY <1>1 DEF CloneAccept, Accept, childVars
  <2> QED
    BY <2>1, <2>3, <2>4, ArgQuiet
<1>2. CASE Clone
  <2>1. accepted \in Sessions /\ accepted' = accepted
    BY <1>2 DEF TypeOK, Clone, Fork
  <2>2. /\ socket_no = 1 /\ DOMAIN open = {1} /\ open[1] = accepted
        /\ UNCHANGED <<socket_no, open, arg>>
    BY <1>2 DEF ArgInv, Clone, Fork
  <2>3. args' = 1 /\ table' = [table EXCEPT ![accepted] = open] /\ ppc' = "close"
    BY <1>2, <2>2 DEF Clone, Fork
  <2>4. cpc' = [cpc EXCEPT ![accepted] = "start"]
    BY <1>2 DEF Clone, Fork
  <2>5. \A s \in Sessions : table'[s] = IF s = accepted THEN open ELSE table[s]
    BY <2>1, <2>3 DEF ArgInv
  <2>6. \A s \in Sessions :
          cpc'[s] \in Live => 1 \in DOMAIN table'[s] /\ table'[s][1] = s
    BY <1>a, <2>1, <2>2, <2>4, <2>5 DEF ArgInv
  <2>7. \A s \in Sessions : cpc'[s] \in Live \ {"start"} => arg'[s] = 1
    BY <1>a, <2>1, <2>2, <2>4 DEF ArgInv
  <2>8. table' = [s \in Sessions |-> table'[s]] /\ arg' = [s \in Sessions |-> arg'[s]]
    BY <2>1, <2>2, <2>3 DEF ArgInv
  <2> QED
    BY <2>1, <2>2, <2>3, <2>6, <2>7, <2>8 DEF ArgInv
<1>3. CASE CloneAcceptFails
  BY <1>3, ArgQuiet DEF CloneAcceptFails, AcceptFails, argVars
<1>4. CASE MmapFails
  BY <1>4, ArgQuiet DEF MmapFails, ArgInv, vars, argVars, childVars, parentVars
<1>5. CASE ReturnsAtOnce
  BY <1>5, ArgQuiet DEF ReturnsAtOnce
<1>6. CASE CloneClose
  <2>1. DOMAIN open' = {} /\ ppc' = "reap"
    BY <1>6 DEF ArgInv, CloneClose, CloseAccepted, Closed
  <2> QED
    BY <1>6, <2>1, ArgQuiet DEF CloneClose, CloseAccepted, childVars
<1>7. CASE CloneDrainDone
  BY <1>7, ArgQuiet DEF CloneDrainDone, DrainDone, childVars
<1>8. CASE (Reap \/ ReapDone \/ Drain) /\ UNCHANGED cloneVars
  <2>1. UNCHANGED <<cpc, accepted, cloneVars>>
    BY <1>8 DEF Reap, ReapDone, Drain, childVars
  <2>2. ppc' \in {"accept", "reap"} => ppc = "reap"
    BY <1>8 DEF Reap, ReapDone, Drain, Draining
  <2>3. ppc' \notin {"fork", "close"}
    BY <1>8 DEF Reap, ReapDone, Drain, Draining
  <2> QED
    BY <2>1, <2>2, <2>3, ArgQuiet DEF ArgInv, cloneVars, argVars
<1> QED
  BY <1>1, <1>2, <1>3, <1>4, <1>5, <1>6, <1>7, <1>8 DEF CloneParentStep

LEMMA ArgChild ==
  ASSUME TypeOK, ArgInv, NEW s \in Sessions, CloneChildStep(s)
  PROVE  ArgInv'
<1>a. cpc \in [Sessions -> {"none"} \cup Live \cup Ended]
  BY DEF TypeOK
<1>1. CASE TakeArgs(s)
  <2>1. cpc[s] = "start" /\ cpc' = [cpc EXCEPT ![s] = "lock"]
    BY <1>1 DEF TakeArgs, ChildStart, At, Goto
  <2>2. args = 1 /\ arg' = [arg EXCEPT ![s] = 1]
    BY <1>1, <2>1 DEF ArgInv, TakeArgs, Live, Before
  <2>3. \A t \in Sessions : cpc'[t] \in Live => cpc[t] \in Live
    BY <1>a, <2>1 DEF Live, Before
  <2>4. \A t \in Sessions : cpc'[t] \in Live \ {"start"} => arg'[t] = 1
    BY <1>a, <2>1, <2>2 DEF ArgInv
  <2>5. arg' = [t \in Sessions |-> arg'[t]]
    BY <2>2 DEF ArgInv
  <2>6. UNCHANGED <<ppc, accepted, socket_no, open, args, table>>
    BY <1>1 DEF TakeArgs, ChildStart
  <2> QED
    BY <2>3, <2>4, <2>5, <2>6 DEF ArgInv
<1>2. CASE ArgsLost(s)
  BY <1>2, ArgQuiet DEF ArgsLost, ArgInv, vars, argVars, childVars, parentVars
<1>3. CASE ErrorExit(s)
  <2>1. Goto(s, "aborted") /\ UNCHANGED <<ppc, accepted, argVars>>
    BY <1>3 DEF ErrorExit, ProcessEnds
  <2> QED
    BY <2>1, ArgOneMoves DEF Live, Before, Critical, After
<1>4. CASE ~At(s, "start") /\ ChildStep(s) /\ UNCHANGED cloneVars
  <2>1. PICK there : there # "start" /\ Goto(s, there)
    BY <1>4, ChildGoesOn DEF Goto
  <2>2. cpc[s] \in Live \ {"start"} /\ UNCHANGED <<ppc, accepted, argVars>>
    BY <1>4, ChildGoesOn DEF cloneVars
  <2> QED
    BY <2>1, <2>2, ArgOneMoves
<1> QED
  BY <1>1, <1>2, <1>3, <1>4, ChildMaps

LEMMA ArgStep ==
  ASSUME TypeOK, ArgInv, [CloneNext]_allVars
  PROVE  ArgInv'
<1>a. cpc \in [Sessions -> {"none"} \cup Live \cup Ended]
  BY DEF TypeOK
<1>1. CASE CloneParentStep
  BY <1>1, ArgParent
<1>2. ASSUME NEW s \in Sessions, CloneChildStep(s) PROVE ArgInv'
  BY <1>2, ArgChild
<1>3. CASE CloneFails
  <2>1. args' = socket_no /\ socket_no = 1
    BY <1>3 DEF ArgInv, CloneFails, ForkFails
  <2>2. ppc' = "drainFork" /\ UNCHANGED <<cpc, table, arg>>
    BY <1>3 DEF CloneFails, ForkFails
  <2> QED
    BY <2>1, <2>2 DEF ArgInv
<1>4. CASE CloneKilled
  BY <1>4, ArgQuiet DEF CloneKilled, ServerKilled
<1>5. CASE \/ AcceptReported \/ HeapRaced \/ HeapTorn \/ UNCHANGED allVars
           \/ Idle /\ UNCHANGED cloneVars
  <2>1. UNCHANGED <<ppc, accepted, cpc, argVars>>
    BY <1>5 DEF AcceptReported, HeapRaced, HeapTorn, Idle, allVars, vars,
                cloneVars, parentVars, childVars
  <2> QED
    BY <2>1, ArgQuiet DEF ArgInv, argVars
<1>6. ASSUME NEW s \in Sessions, CallFails(s) PROVE ArgInv'
  <2>1. UNCHANGED <<ppc, accepted, cpc, argVars>>
    BY <1>6 DEF CallFails, vars, parentVars, childVars
  <2> QED
    BY <2>1, ArgQuiet DEF ArgInv, argVars
<1>7. ASSUME NEW s \in Sessions, ChildKilled(s) PROVE ArgInv'
  <2>1. PICK how \in Ended : Goto(s, how)
    BY <1>7 DEF ChildKilled, ChildAborts, ProcessEnds, Ended
  <2>2. UNCHANGED <<ppc, accepted, argVars>>
    BY <1>7 DEF ChildKilled, ChildAborts
  <2>3. how \notin Live
    BY DEF Live, Before, Critical, After, Ended
  <2> QED
    BY <2>1, <2>2, <2>3, ArgOneMoves
<1>8. ASSUME NEW c \in Clients,
             ClientStep(c) \/ ClientKilled(c), UNCHANGED cloneVars
      PROVE  ArgInv'
  <2>1. UNCHANGED <<cpc, ppc, accepted>>
    BY <1>8 DEF ClientStep, Connect, ConnectRefused, ReadMessage, ReadEof,
                ReadReset, SendAnswer, ClientKilled, childVars, parentVars
  <2> QED
    BY <1>8, <2>1, ArgQuiet DEF ArgInv, cloneVars, argVars
<1> QED
  BY <1>1, <1>2, <1>3, <1>4, <1>5, <1>6, <1>7, <1>8, CloneCases

-----------------------------------------------------------------------------
(* Failing calls and the heap                                              *)

(* A child that reports an error does nothing else.                        *)
LEMMA FailQuiet ==
  ASSUME FailInv, failing' \subseteq failing, \A s \in failing' : cpc'[s] = cpc[s]
  PROVE  FailInv'
  BY DEF FailInv

LEMMA FailStep ==
  ASSUME IInv, ArgInv, FailInv, [CloneNext]_allVars
  PROVE  FailInv'
<1>a. cpc \in [Sessions -> {"none"} \cup Live \cup Ended]
  BY DEF IInv, TypeInv, TypeOK
<1>1. CASE Clone
  <2>1. accepted \in Sessions /\ cpc[accepted] = "none"
    BY <1>1 DEF IInv, TypeInv, TypeOK, ConnInv, QueueOK, Clone, Fork
  <2>2. cpc' = [cpc EXCEPT ![accepted] = "start"] /\ UNCHANGED failing
    BY <1>1 DEF Clone, Fork, heapVars
  <2>3. accepted \notin failing
    BY <2>1 DEF FailInv, Critical
  <2> QED
    BY <1>a, <2>1, <2>2, <2>3, FailQuiet DEF FailInv
<1>2. CASE CloneAccept \/ CloneAcceptFails \/ MmapFails \/ ReturnsAtOnce \/ CloneClose
  BY <1>2, FailQuiet
  DEF CloneAccept, CloneAcceptFails, MmapFails, ReturnsAtOnce, CloneClose,
      Accept, AcceptFails, CloseAccepted, heapVars, vars, childVars
<1>3. CASE CloneDrainDone \/ ((Reap \/ ReapDone \/ Drain) /\ UNCHANGED cloneVars)
  BY <1>3, FailQuiet
  DEF CloneDrainDone, DrainDone, Reap, ReapDone, Drain, cloneVars, heapVars, childVars
<1>4. CASE CloneFails \/ CloneKilled \/ AcceptReported
  BY <1>4, FailQuiet
  DEF CloneFails, ForkFails, CloneKilled, ServerKilled, AcceptReported, heapVars,
      vars, childVars
<1>5. CASE HeapRaced \/ (Idle /\ UNCHANGED cloneVars) \/ UNCHANGED allVars
  BY <1>5, FailQuiet
  DEF HeapRaced, Idle, allVars, cloneVars, heapVars, vars, childVars
<1>6. CASE HeapTorn
  <2>1. UNCHANGED cpc
    BY <1>6 DEF HeapTorn, vars, childVars
  <2>2. CASE UNCHANGED failing
    BY <2>1, <2>2, FailQuiet
  <2>3. ASSUME "child" \in Faults, NEW s \in InMalloc, failing' = failing \cup {s}
        PROVE  FailInv'
    <3>1. CASE s \in failing
      BY <2>1, <2>3, <3>1, FailQuiet
    <3>2. CASE s \in Sessions /\ NeedsHeap(s)
      BY <2>1, <2>3, <3>2 DEF FailInv, NeedsHeap, Critical
    <3> QED
      BY <3>1, <3>2 DEF InMalloc
  <2> QED
    BY <1>6, <2>2, <2>3 DEF HeapTorn
<1>7. ASSUME NEW s \in Sessions, CallFails(s) PROVE FailInv'
  BY <1>7 DEF CallFails, FailInv, vars, childVars
<1>8. ASSUME NEW s \in Sessions, ChildKilled(s) \/ ErrorExit(s) PROVE FailInv'
  <2>1. failing' = failing \ {s}
    BY <1>8 DEF ChildKilled, ErrorExit
  <2>2. PICK how : cpc' = [cpc EXCEPT ![s] = how]
    BY <1>8 DEF ChildKilled, ChildAborts, ErrorExit, ProcessEnds, Goto
  <2> QED
    BY <1>a, <2>1, <2>2, FailQuiet DEF FailInv
<1>9. ASSUME NEW c \in Clients, ClientStep(c) \/ ClientKilled(c), UNCHANGED cloneVars
      PROVE  FailInv'
  <2>1. UNCHANGED cpc
    BY <1>9 DEF ClientStep, Connect, ConnectRefused, ReadMessage, ReadEof,
                ReadReset, SendAnswer, ClientKilled, childVars
  <2> QED
    BY <1>9, <2>1, FailQuiet DEF cloneVars, heapVars
<1>10. ASSUME NEW s \in Sessions, TakeArgs(s) \/ ArgsLost(s) PROVE FailInv'
  <2>1. s \notin failing /\ UNCHANGED failing
    BY <1>10 DEF FailInv, TakeArgs, ChildStart, ArgsLost, At, Critical, heapVars
  <2>2. (\E how : cpc' = [cpc EXCEPT ![s] = how]) \/ UNCHANGED cpc
    BY <1>10 DEF TakeArgs, ChildStart, Goto, ArgsLost, vars, childVars
  <2> QED
    BY <1>a, <2>1, <2>2, FailQuiet DEF FailInv
<1>11. ASSUME NEW s \in Sessions, s \notin failing, ~At(s, "start"),
              ChildStep(s), UNCHANGED cloneVars
       PROVE  FailInv'
  <2>1. PICK how : cpc' = [cpc EXCEPT ![s] = how]
    BY <1>11, ChildGoesOn DEF Goto
  <2> QED
    BY <1>a, <1>11, <2>1, FailQuiet DEF FailInv, cloneVars, heapVars
<1>12. ASSUME NEW s \in Sessions, CloneChildStep(s) PROVE FailInv'
  BY <1>8, <1>10, <1>11, <1>12, ChildMaps
<1> QED
  BY <1>1, <1>2, <1>3, <1>4, <1>5, <1>6, <1>7, <1>8, <1>9, <1>12, CloneCases
  DEF CloneParentStep

(* A child that is about to call malloc(), but for an error text, holds the *)
(* lock.                                                                   *)
LEMMA HeapUnderLock ==
  IInv => \A s \in Sessions : NeedsHeap(s) => lock = s
  BY CloneServerAssumption DEF IInv, LockInv, NeedsHeap, Critical

LEMMA UndefinedStep ==
  ASSUME IInv, ArgInv, FailInv, UndefinedOnlyByErrors, ~undefined \/ UNCHANGED allVars,
         [CloneNext]_allVars
  PROVE  UndefinedOnlyByErrors'
<1>1. CASE HeapRaced
  <2>1. reporting \/ \E s, t \in InMalloc : s # t
    BY <1>1 DEF HeapRaced
  <2>2. reporting \/ failing # {}
    BY <2>1, HeapUnderLock DEF InMalloc
  <2> QED
    BY <1>1, <2>2 DEF HeapRaced, UndefinedOnlyByErrors
<1>2. CASE HeapTorn
  BY <1>2 DEF HeapTorn, UndefinedOnlyByErrors
<1>3. ASSUME NEW s \in Sessions, ArgsLost(s) PROVE UndefinedOnlyByErrors'
  BY <1>3 DEF ArgsLost, UndefinedOnlyByErrors, argVars
<1>4. CASE UNCHANGED undefined /\ ~undefined
  BY <1>4 DEF UndefinedOnlyByErrors
<1>5. CASE UNCHANGED allVars
  BY <1>5 DEF UndefinedOnlyByErrors, allVars, cloneVars, argVars, heapVars
<1>6. ASSUME \/ CloneParentStep \/ CloneFails \/ CloneKilled \/ AcceptReported
             \/ \E s \in Sessions : CallFails(s) \/ ChildKilled(s)
      PROVE  UNCHANGED undefined
  BY <1>6
  DEF CloneParentStep, CloneAccept, Clone, CloneAcceptFails, MmapFails,
      ReturnsAtOnce, CloneClose, CloneDrainDone, CloneFails, CloneKilled,
      AcceptReported, CallFails, ChildKilled, cloneVars, heapVars
<1>7. ASSUME NEW s \in Sessions, CloneChildStep(s), ~ArgsLost(s)
      PROVE  UNCHANGED undefined
  BY <1>7, ChildMaps DEF TakeArgs, ErrorExit, cloneVars, heapVars
<1>8. UNCHANGED cloneVars => UNCHANGED undefined
  BY DEF cloneVars, heapVars
<1> QED
  BY <1>1, <1>2, <1>3, <1>4, <1>5, <1>6, <1>7, <1>8, CloneCases

-----------------------------------------------------------------------------
(* The theorems                                                            *)

(* The inductive invariant: that of the fork server, which the steps keep  *)
(* because they are steps of the fork server, and what makes them that.    *)
CloneInv == IInv /\ ArgInv /\ FailInv /\ UndefinedOnlyByErrors

LEMMA CloneInvInit == CloneInit => CloneInv
  BY ArgInit, TypeInit, ConnInit, AnswerInit, LockInit DEF CloneInit, IInv, CloneInv

LEMMA CloneInvStep ==
  FailuresAllowed /\ CloneInv /\ [CloneNext]_allVars => CloneInv'
<1> SUFFICES ASSUME FailuresAllowed, CloneInv, [CloneNext]_allVars PROVE CloneInv'
  OBVIOUS
<1>1. IInv'
  BY CloneStep, TypeStep, ConnStep, AnswerStep, LockStep DEF IInv, CloneInv
<1>2. ArgInv'
  BY ArgStep DEF CloneInv, IInv, TypeInv
<1>3. FailInv'
  BY FailStep DEF CloneInv
<1>4. ~undefined \/ UNCHANGED allVars
  BY DEF CloneNext
<1>5. UndefinedOnlyByErrors'
  BY <1>4, UndefinedStep DEF CloneInv
<1> QED
  BY <1>1, <1>2, <1>3, <1>5 DEF CloneInv

LEMMA CloneInvariant == FailuresAllowed => (CloneSpec => []CloneInv)
<1> SUFFICES ASSUME FailuresAllowed PROVE CloneSpec => []CloneInv
  OBVIOUS
<1> QED
  BY CloneInvInit, CloneInvStep, PTL DEF CloneSpec

(* UndefinedOnlyByErrors: children that all use one heap, without a lock   *)
(* for it, need it under the lock of the store file, unless a call fails   *)
(* (child_process and run_server of server-exclusive-clone.c).             *)
THEOREM ErrorsApartDefined ==
  FailuresAllowed => (CloneSpec => []UndefinedOnlyByErrors)
<1> SUFFICES ASSUME FailuresAllowed PROVE CloneSpec => []UndefinedOnlyByErrors
  OBVIOUS
<1>1. CloneInv => UndefinedOnlyByErrors
  BY DEF CloneInv
<1> QED
  BY <1>1, CloneInvariant, PTL

(* OwnConnection: every child works on its own connection, in whatever     *)
(* order the parent's loop and the children run.                           *)
THEOREM ArgumentsArrive == FailuresAllowed => (CloneSpec => []OwnConnection)
<1> SUFFICES ASSUME FailuresAllowed PROVE CloneSpec => []OwnConnection
  OBVIOUS
<1>1. CloneInv => OwnConnection
  BY OwnOne DEF CloneInv, OwnConnection
<1> QED
  BY <1>1, CloneInvariant, PTL

(* ImplementsFork: on another's connection a child would send to a client, *)
(* or take from it, what no child of the fork server does; on its own, and *)
(* wherever the others are, each of its steps is one of theirs             *)
(* (server-exclusive-clone.c against server-exclusive.c).                  *)
THEOREM CloneIsFork == FailuresAllowed => (CloneSpec => ImplementsFork)
<1> SUFFICES ASSUME FailuresAllowed PROVE CloneSpec => ImplementsFork
  OBVIOUS
<1>1. CloneInit => Init
  BY DEF CloneInit
<1>2. CloneInv /\ [CloneNext]_allVars => [undefined \/ Next]_vars
  BY CloneStep DEF CloneInv
<1> QED
  BY <1>1, <1>2, CloneInvariant, PTL DEF CloneSpec, ImplementsFork

(* As long as it is defined, the clone server behaves like the fork server.*)
LEMMA DefinedIsFork == FailuresAllowed => (CloneSpec /\ []~undefined => Spec)
<1> SUFFICES ASSUME FailuresAllowed PROVE CloneSpec /\ []~undefined => Spec
  OBVIOUS
<1>1. ~undefined /\ [undefined \/ Next]_vars => [Next]_vars
  OBVIOUS
<1> QED
  BY <1>1, CloneIsFork, PTL DEF ImplementsFork, Spec

-----------------------------------------------------------------------------
(* What the clone server inherits                                          *)

(* CountFitsPlace: sharing memory does not make a number run ahead of its  *)
(* place either (child_process of server-exclusive-clone.c).               *)
THEOREM CloneCountsFit ==
  FailuresAllowed /\ FitsAtFirst =>
    (CloneSpec /\ []~undefined => []CountFitsPlace)
<1> SUFFICES ASSUME FailuresAllowed, FitsAtFirst
             PROVE  CloneSpec /\ []~undefined => []CountFitsPlace
  OBVIOUS
<1> QED
  BY DefinedIsFork, CountsFit, PTL

(* OneRecordPerSession and ReadYourWrites: children that share one memory, *)
(* each on the connection that its number stands for, append their records *)
(* as AtomicStore does, one for each session, each the answer of the       *)
(* session's own client to the record before it (child_process of          *)
(* server-exclusive-clone.c).                                              *)
THEOREM CloneKeepsRecords ==
  FailuresAllowed =>
    (CloneSpec /\ []~undefined =>
       AbsSpec /\ []OneRecordPerSession /\ []ReadYourWrites)
<1> SUFFICES ASSUME FailuresAllowed
             PROVE  CloneSpec /\ []~undefined =>
                      AbsSpec /\ []OneRecordPerSession /\ []ReadYourWrites
  OBVIOUS
<1>1. Exclusive
  BY CloneServerAssumption
<1> QED
  BY <1>1, DefinedIsFork, ExclusiveIsAtomic, EachRecordsOnce, ReadsItsWrites, PTL

(* NoMutualWait, EveryStepAdvances and the two properties of the waiting   *)
(* loops: the parent and the children of the clone server wait for nobody  *)
(* in vain either (run_server and child_process of                         *)
(* server-exclusive-clone.c); a parent that cannot map a stack is gone.    *)
THEOREM CloneGoesOn ==
  FailuresAllowed =>
    (CloneSpec /\ []~undefined =>
       /\ []NoMutualWait
       /\ EveryStepAdvances
       /\ ReapsAllZombies
       /\ DrainLeavesNoChild)
<1> SUFFICES ASSUME FailuresAllowed
             PROVE  CloneSpec /\ []~undefined => /\ []NoMutualWait
                                                /\ EveryStepAdvances
                                                /\ ReapsAllZombies
                                                /\ DrainLeavesNoChild
  OBVIOUS
<1> QED
  BY DefinedIsFork, NobodyWaitsInVain, EverybodyAdvances, ReapsThemAll,
     DrainsThemAll, PTL
==============================================================================
