-------------------------- MODULE SampleEcho_proofs --------------------------
(***************************************************************************)
(* Proofs about SampleEcho, for any number of clients, any keys, any       *)
(* length of an answer and any size of the buffers.                        *)
(***************************************************************************)
EXTENDS SampleEcho, SequenceTheorems, FiniteSetTheorems, WellFoundedInduction,
        TLAPS

-----------------------------------------------------------------------------
(* Types                                                                   *)

Answer == (Keys \ {NUL, CTRL_A}) \X (1 .. ReplyLen)

(* TypeOK in parts, with what the parent has between accept() and close(). *)
ParentOK ==
  /\ ppc \in Serving \cup {"killed", "failed"}
  /\ accepted \in Clients \cup {NoClient}
  /\ counter \in Nat /\ left \in 0 .. counter
  /\ kids \subseteq Clients
  /\ ppc \in {"fork", "count"} <=> accepted # NoClient

ChildOK ==
  /\ spc \in [Clients -> {"none", "read", "write", "exited", "broken", "killed"}]
  /\ reply \in [Clients -> Seq(Answer)]
  /\ begun \in [Clients -> BOOLEAN]

NetOK ==
  /\ backlog \in Seq(Clients) /\ reset \subseteq Clients
  /\ c2s \in [Clients -> Seq(Keys)] /\ s2c \in [Clients -> Seq(Answer)]

ClientOK ==
  /\ cpc \in [Clients -> Loop \cup {"connect", "ctrl_a", "clean_up", "closed",
                                    "broken", "killed"}]
  /\ sending \in [Clients -> Seq(Keys)] /\ receiving \in [Clients -> Seq(Answer)]
  /\ typed \in [Clients -> Seq(Keys)] /\ printed \in [Clients -> Seq(Answer)]

Typed == ParentOK /\ ChildOK /\ NetOK /\ ClientOK

LEMMA TypedIsTypeOK == Typed => TypeOK
  BY DEF Typed, ParentOK, ChildOK, NetOK, ClientOK, TypeOK, Answer

LEMMA Unchanged ==
  /\ ParentOK /\ UNCHANGED parentVars => ParentOK'
  /\ ChildOK /\ UNCHANGED childVars => ChildOK'
  /\ NetOK /\ UNCHANGED netVars => NetOK'
  /\ ClientOK /\ UNCHANGED clientVars => ClientOK'
  BY DEF ParentOK, ChildOK, NetOK, ClientOK, parentVars, childVars, netVars,
         clientVars

LEMMA UpdateType ==
  ASSUME NEW S, NEW f \in [Clients -> Seq(S)], NEW c, NEW s \in Seq(S)
  PROVE  [f EXCEPT ![c] = s] \in [Clients -> Seq(S)]
<1> DEFINE T == Seq(S)
<1> HIDE DEF T
<1>1. f \in [Clients -> T] /\ s \in T
  BY DEF T
<1>2. [f EXCEPT ![c] = s] \in [Clients -> T]
  BY <1>1
<1> QED
  BY <1>2 DEF T

LEMMA ClearType ==
  ASSUME NEW S, NEW f \in [Clients -> Seq(S)], NEW c
  PROVE  [f EXCEPT ![c] = <<>>] \in [Clients -> Seq(S)]
<1>1. <<>> \in Seq(S)
  OBVIOUS
<1> QED
  BY <1>1, UpdateType, Zenon

LEMMA ReplyType ==
  ASSUME NEW key \in Keys PROVE Reply(key) \in Seq(Answer)
<1>1. CASE key \in {NUL, CTRL_A}
  BY <1>1 DEF Reply
<1>2. CASE key \notin {NUL, CTRL_A}
  <2>1. ReplyLen \in Nat
    BY SampleEchoAssumption
  <2>2. [k \in 1 .. ReplyLen |-> <<key, k>>] \in [1 .. ReplyLen -> Answer]
    BY <1>2 DEF Answer
  <2> QED
    BY <1>2, <2>1, <2>2 DEF Reply
<1> QED
  BY <1>1, <1>2

LEMMA ResetType ==
  ASSUME NetOK, NEW c \in Clients, Reset(c)
  PROVE  reset' \subseteq Clients /\ c2s' \in [Clients -> Seq(Keys)]
<1>1. PICK n \in 0 .. Len(c2s[c]) : c2s' = [c2s EXCEPT ![c] = SubSeq(@, 1, n)]
  BY DEF Reset
<1>2. c2s[c] \in Seq(Keys) /\ n \in Nat
  BY <1>1 DEF NetOK
<1>3. SubSeq(c2s[c], 1, n) \in Seq(Keys)
  BY <1>1, <1>2
<1> QED
  BY <1>1, <1>3 DEF NetOK, Reset

LEMMA TypeInit == Init => Typed
  BY SampleEchoAssumption
  DEF Init, Typed, ParentOK, ChildOK, NetOK, ClientOK, Serving, Loop

(* The end of the server cuts off what was on its way to a client.         *)
LEMMA KillCuts ==
  ASSUME NEW how, KillGroup(how), NEW c \in Clients
  PROVE  \E n \in 0 .. Len(s2c[c]) : s2c'[c] = SubSeq(s2c[c], 1, n)
<1>1. PICK kept \in [Clients -> 0 .. S2CCap] :
         /\ \A d \in Clients : kept[d] =< Len(s2c[d])
         /\ s2c' = [d \in Clients |-> SubSeq(s2c[d], 1, kept[d])]
  BY DEF KillGroup
<1>2. kept[c] \in 0 .. S2CCap /\ kept[c] =< Len(s2c[c])
  BY <1>1
<1>3. kept[c] \in 0 .. Len(s2c[c]) /\ s2c'[c] = SubSeq(s2c[c], 1, kept[c])
  BY <1>1, <1>2, SampleEchoAssumption
<1> QED
  BY <1>3

LEMMA KillType ==
  ASSUME Typed, NEW how \in {"killed", "failed"}, KillGroup(how) PROVE Typed'
<1>1. ChildOK'
  BY DEF KillGroup, Typed, ChildOK
<1>2. NetOK'
  <2>1. ASSUME NEW c \in Clients PROVE s2c'[c] \in Seq(Answer)
    <3>1. PICK n \in 0 .. Len(s2c[c]) : s2c'[c] = SubSeq(s2c[c], 1, n)
      BY KillCuts
    <3>2. s2c[c] \in Seq(Answer)
      BY DEF Typed, NetOK
    <3> QED
      BY <3>1, <3>2
  <2>2. s2c' \in [Clients -> Seq(Answer)]
    <3>1. s2c' = [c \in Clients |-> s2c'[c]]
      BY DEF KillGroup
    <3> QED
      BY <2>1, <3>1
  <2> QED
    BY <2>2 DEF KillGroup, Typed, NetOK
<1>3. ParentOK'
  BY DEF KillGroup, Typed, ParentOK, Serving
<1>4. ClientOK'
  BY Unchanged DEF KillGroup, Typed
<1> QED
  BY <1>1, <1>2, <1>3, <1>4 DEF Typed

LEMMA ParentType ==
  ASSUME Typed, ParentStep \/ AcceptFails \/ ForkFails PROVE Typed'
<1>1. CASE Reap \/ ReapDone \/ Count
  <2>1. ParentOK'
    BY <1>1, SampleEchoAssumption
    DEF Reap, ReapDone, Count, Typed, ParentOK, Serving
  <2> QED
    BY <1>1, <2>1, Unchanged DEF Reap, ReapDone, Count, Typed
<1>2. CASE Accept
  <2>1. Head(backlog) \in Clients /\ Tail(backlog) \in Seq(Clients)
    BY <1>2 DEF Accept, Typed, NetOK
  <2>2. ParentOK'
    BY <1>2, <2>1, SampleEchoAssumption DEF Accept, Typed, ParentOK, Serving
  <2>3. NetOK'
    BY <1>2, <2>1 DEF Accept, Typed, NetOK
  <2> QED
    BY <1>2, <2>2, <2>3, Unchanged DEF Accept, Typed
<1>3. CASE Fork
  <2>1. accepted \in Clients
    BY <1>3 DEF Fork, Typed, ParentOK
  <2>2. ParentOK'
    BY <1>3, <2>1 DEF Fork, Typed, ParentOK, Serving
  <2>3. ChildOK'
    BY <1>3, <2>1 DEF Fork, Typed, ChildOK
  <2> QED
    BY <1>3, <2>2, <2>3, Unchanged DEF Fork, Typed
<1>4. CASE AcceptFails \/ ForkFails
  BY <1>4, KillType DEF AcceptFails, ForkFails
<1> QED
  BY <1>1, <1>2, <1>3, <1>4 DEF ParentStep

LEMMA TurnType ==
  ASSUME ChildOK, NEW c \in Clients, NEW there \in {"read", "exited", "broken"},
         ChildTurns(c, there)
  PROVE  ChildOK'
  BY DEF ChildTurns, ChildOK

LEMMA ChildType ==
  ASSUME Typed, NEW c \in Clients, ChildStep(c) PROVE Typed'
<1>1. CASE ReadKey(c)
  <2>1. c2s[c] \in Seq(Keys) /\ c2s[c] # <<>>
    BY <1>1 DEF ReadKey, Typed, NetOK
  <2>2. Reply(Head(c2s[c])) \in Seq(Answer) /\ Tail(c2s[c]) \in Seq(Keys)
    BY <2>1, ReplyType
  <2>3. UNCHANGED <<parentVars, backlog, s2c, reset, clientVars>>
    BY <1>1 DEF ReadKey
  <2>4. NetOK'
    <3>1. \/ c2s' = [c2s EXCEPT ![c] = <<>>]
          \/ c2s' = [c2s EXCEPT ![c] = Tail(c2s[c])]
      BY <1>1 DEF ReadKey
    <3>2. c2s' \in [Clients -> Seq(Keys)]
      <4>1. c2s \in [Clients -> Seq(Keys)] /\ Tail(c2s[c]) \in Seq(Keys)
        BY <2>2 DEF Typed, NetOK
      <4>2. /\ [c2s EXCEPT ![c] = <<>>] \in [Clients -> Seq(Keys)]
            /\ [c2s EXCEPT ![c] = Tail(c2s[c])] \in [Clients -> Seq(Keys)]
        BY <4>1, UpdateType, ClearType
      <4> QED
        BY <3>1, <4>2, Zenon
    <3> QED
      BY <2>3, <3>2 DEF Typed, NetOK
  <2>5. ChildOK'
    <3>1. CASE ChildTurns(c, "exited")
      BY <3>1, TurnType DEF Typed
    <3>2. CASE /\ spc' = [spc EXCEPT ![c] = "write"]
               /\ reply' = [reply EXCEPT ![c] = Reply(Head(c2s[c]))]
               /\ UNCHANGED begun
      BY <3>2, <2>2 DEF Typed, ChildOK
    <3> QED
      BY <1>1, <3>1, <3>2 DEF ReadKey
  <2> QED
    BY <2>3, <2>4, <2>5, Unchanged DEF Typed
<1>2. CASE ReadFails(c)
  BY <1>2, KillType DEF ReadFails
<1>3. CASE WriteReply(c)
  <2>1. reply[c] \in Seq(Answer) /\ reply[c] # <<>> /\ s2c[c] \in Seq(Answer)
    BY <1>3 DEF WriteReply, Typed, ChildOK, NetOK
  <2>2. Tail(reply[c]) \in Seq(Answer) /\ Append(s2c[c], Head(reply[c])) \in Seq(Answer)
    BY <2>1
  <2>3. NetOK'
    <3>1. /\ s2c' = [s2c EXCEPT ![c] = Append(s2c[c], Head(reply[c]))]
          /\ UNCHANGED <<backlog, c2s, reset>>
      BY <1>3 DEF WriteReply
    <3>2. s2c' \in [Clients -> Seq(Answer)]
      BY <2>2, <3>1 DEF Typed, NetOK
    <3> QED
      BY <3>1, <3>2 DEF Typed, NetOK
  <2>4. ChildOK'
    <3>1. CASE ChildTurns(c, "read")
      BY <3>1, TurnType DEF Typed
    <3>2. CASE /\ reply' = [reply EXCEPT ![c] = Tail(@)]
               /\ begun' = [begun EXCEPT ![c] = TRUE]
               /\ UNCHANGED spc
      BY <3>2, <2>2 DEF Typed, ChildOK
    <3> QED
      BY <1>3, <3>1, <3>2 DEF WriteReply
  <2> QED
    BY <1>3, <2>3, <2>4, Unchanged DEF WriteReply, Typed
<1>4. CASE WriteNothing(c)
  BY <1>4, TurnType, Unchanged DEF WriteNothing, Typed
<1>5. CASE WriteToClosed(c)
  <2>1. NetOK'
    BY <1>5, ResetType DEF WriteToClosed, Typed, NetOK
  <2> QED
    BY <1>5, <2>1, TurnType, Unchanged DEF WriteToClosed, Typed
<1>6. CASE WriteToReset(c)
  <2>1. NetOK'
    <3>1. /\ c2s' = c2s \/ c2s' = [c2s EXCEPT ![c] = <<>>]
          /\ UNCHANGED <<backlog, s2c, reset>>
      BY <1>6 DEF WriteToReset
    <3>2. c2s' \in [Clients -> Seq(Keys)]
      <4>1. c2s \in [Clients -> Seq(Keys)]
        BY DEF Typed, NetOK
      <4>2. [c2s EXCEPT ![c] = <<>>] \in [Clients -> Seq(Keys)]
        BY <4>1, ClearType
      <4> QED
        BY <3>1, <4>1, <4>2, Zenon
    <3> QED
      BY <3>1, <3>2 DEF Typed, NetOK
  <2>2. ChildOK'
    BY <1>6, TurnType DEF WriteToReset, Typed
  <2> QED
    BY <1>6, <2>1, <2>2, Unchanged DEF WriteToReset, Typed
<1> QED
  BY <1>1, <1>2, <1>3, <1>4, <1>5, <1>6 DEF ChildStep

LEMMA ClientType ==
  ASSUME Typed, NEW c \in Clients,
         ClientStep(c) \/ TypeKey(c) \/ ClientKilled(c)
  PROVE  Typed'
<1> USE DEF Loop
<1>1. CASE Connect(c)
  <2>1. NetOK'
    BY <1>1 DEF Connect, Typed, NetOK
  <2>2. ClientOK'
    BY <1>1 DEF Connect, Goto, Typed, ClientOK
  <2> QED
    BY <1>1, <2>1, <2>2, Unchanged DEF Connect, Typed
<1>2. CASE ConnectRefused(c) \/ NoKey(c) \/ NoSend(c) \/ Sigpipe(c)
             \/ NoRecv(c) \/ NoPrint(c)
  <2>1. UNCHANGED <<parentVars, childVars, netVars, sending, receiving, typed, printed>>
    BY <1>2 DEF ConnectRefused, NoKey, NoSend, Sigpipe, NoRecv, NoPrint
  <2>2. ClientOK'
    BY <1>2, <2>1 DEF ConnectRefused, NoKey, NoSend, Sigpipe, NoRecv, NoPrint,
       Goto, Typed, ClientOK
  <2> QED
    BY <2>1, <2>2, Unchanged DEF Typed
<1>3. CASE TypeKey(c)
  <2>1. PICK key \in Keys :
          /\ typed' = [typed EXCEPT ![c] = Append(@, key)]
          /\ sending' = [sending EXCEPT ![c] = <<key>>]
          /\ Goto(c, IF key = CTRL_A THEN "ctrl_a" ELSE "send")
    BY <1>3 DEF TypeKey
  <2>2. Append(typed[c], key) \in Seq(Keys) /\ <<key>> \in Seq(Keys)
    BY DEF Typed, ClientOK
  <2>3. typed' \in [Clients -> Seq(Keys)]
    <3>1. typed' = [typed EXCEPT ![c] = Append(typed[c], key)]
      BY <2>1
    <3> QED
      BY <2>2, <3>1 DEF Typed, ClientOK
  <2>4. sending' \in [Clients -> Seq(Keys)]
    BY <2>1, <2>2, UpdateType DEF Typed, ClientOK
  <2>5. cpc' \in [Clients -> Loop \cup {"connect", "ctrl_a", "clean_up", "closed",
                                       "broken", "killed"}]
    BY <2>1 DEF Goto, Typed, ClientOK
  <2>6. ClientOK'
    <3>1. UNCHANGED <<receiving, printed>>
      BY <1>3 DEF TypeKey
    <3> QED
      BY <2>3, <2>4, <2>5, <3>1 DEF Typed, ClientOK
  <2> QED
    BY <1>3, <2>6, Unchanged DEF TypeKey, Typed
<1>4. CASE SendKey(c) \/ SendCtrlA(c)
  <2>1. c2s[c] \o sending[c] \in Seq(Keys)
    BY DEF Typed, NetOK, ClientOK
  <2>2. Written(c) /\ UNCHANGED <<parentVars, childVars, backlog, s2c, reset>>
    BY <1>4 DEF SendKey, SendCtrlA
  <2>3. NetOK'
    <3>1. c2s' = c2s \/ c2s' = [c2s EXCEPT ![c] = c2s[c] \o sending[c]]
      BY <2>2 DEF Written
    <3>2. c2s' \in [Clients -> Seq(Keys)]
      BY <2>1, <3>1 DEF Typed, NetOK
    <3> QED
      BY <2>2, <3>2 DEF Typed, NetOK
  <2>4. ClientOK'
    <3>1. /\ sending' = [sending EXCEPT ![c] = <<>>]
          /\ Goto(c, "recv") \/ Goto(c, "clean_up")
          /\ UNCHANGED <<receiving, typed, printed>>
      BY <1>4 DEF SendKey, SendCtrlA
    <3>2. sending' \in [Clients -> Seq(Keys)]
      BY <3>1, ClearType DEF Typed, ClientOK
    <3> QED
      BY <3>1, <3>2 DEF Goto, Typed, ClientOK
  <2> QED
    BY <2>2, <2>3, <2>4, Unchanged DEF Typed
<1>5. CASE RecvChar(c)
  <2>1. s2c[c] \in Seq(Answer) /\ s2c[c] # <<>>
    BY <1>5 DEF RecvChar, Typed, NetOK
  <2>2. Tail(s2c[c]) \in Seq(Answer) /\ <<Head(s2c[c])>> \in Seq(Answer)
    BY <2>1
  <2>3. NetOK'
    BY <1>5, <2>2 DEF RecvChar, Typed, NetOK
  <2>4. ClientOK'
    BY <1>5, <2>2 DEF RecvChar, Goto, Typed, ClientOK
  <2> QED
    BY <1>5, <2>3, <2>4, Unchanged DEF RecvChar, Typed
<1>6. CASE PrintChar(c)
  <2>1. printed[c] \o receiving[c] \in Seq(Answer)
    BY DEF Typed, ClientOK
  <2>2. ClientOK'
    BY <1>6, <2>1 DEF PrintChar, Goto, Typed, ClientOK
  <2> QED
    BY <1>6, <2>2, Unchanged DEF PrintChar, Typed
<1>7. CASE CleanUp(c) \/ ClientKilled(c)
  <2>1. PICK how \in {"closed", "killed"} : Closes(c, how)
    BY <1>7 DEF CleanUp, ClientKilled
  <2>2. reset' \subseteq Clients /\ c2s' \in [Clients -> Seq(Keys)]
    BY <2>1, ResetType DEF Closes, Typed, NetOK
  <2>3. NetOK'
    <3>1. s2c' = [s2c EXCEPT ![c] = <<>>] /\ UNCHANGED backlog
      BY <2>1 DEF Closes
    <3>2. s2c' \in [Clients -> Seq(Answer)]
      BY <3>1, ClearType DEF Typed, NetOK
    <3> QED
      BY <2>2, <3>1, <3>2 DEF Typed, NetOK
  <2>4. ClientOK'
    BY <2>1 DEF Closes, Goto, Typed, ClientOK
  <2> QED
    BY <2>1, <2>3, <2>4, Unchanged DEF Closes, Typed
<1> QED
  BY <1>1, <1>2, <1>3, <1>4, <1>5, <1>6, <1>7 DEF ClientStep

LEMMA TypeStep == Typed /\ [Next]_vars => Typed'
<1>1. Typed /\ (Idle \/ UNCHANGED vars) => Typed'
  BY Unchanged DEF Idle, vars, Typed
<1> QED
  BY <1>1, ParentType, ChildType, ClientType DEF Next

(* TypeOK, in particular: the child never sends ^A, on which the client    *)
(* would end (create_return_data, read_socket).                            *)
THEOREM EchoTypes == Spec => []TypeOK
  BY TypedIsTypeOK, TypeInit, TypeStep, PTL DEF Spec

-----------------------------------------------------------------------------
(* Waiting for children                                                    *)

(* The counter covers every child that was not waited for yet.             *)
CountInv ==
  /\ IsFiniteSet(kids)
  /\ ppc \in {"accept", "fork"} => Cardinality(kids) =< counter
  /\ ppc = "count" => Cardinality(kids) =< counter + 1
  /\ ppc = "reap" => Cardinality(kids) =< left

LEMMA CountInit == Init => CountInv
  BY FS_EmptySet DEF Init, CountInv

LEMMA CountStep == Typed /\ CountInv /\ [Next]_vars => CountInv'
<1> SUFFICES ASSUME Typed, CountInv, [Next]_vars PROVE CountInv'
  OBVIOUS
<1>t. /\ IsFiniteSet(kids) /\ Cardinality(kids) \in Nat
      /\ counter \in Nat /\ left \in Nat /\ left =< counter
  BY FS_CardinalityType DEF CountInv, Typed, ParentOK
<1>1. CASE Reap
  <2>1. PICK c \in kids : kids' = kids \ {c}
    BY <1>1 DEF Reap, Zombies
  <2>2. IsFiniteSet(kids') /\ Cardinality(kids') = Cardinality(kids) - 1
    BY <1>t, <2>1, FS_RemoveElement
  <2> QED
    BY <1>t, <1>1, <2>2 DEF Reap, CountInv
<1>2. CASE ReapDone \/ Accept \/ Count
  BY <1>t, <1>2 DEF ReapDone, Accept, Count, CountInv, childVars
<1>3. CASE Fork
  <2>1. /\ IsFiniteSet(kids \cup {accepted})
        /\ Cardinality(kids \cup {accepted}) =< Cardinality(kids) + 1
    <3>1. /\ IsFiniteSet(kids \cup {accepted})
          /\ Cardinality(kids \cup {accepted}) =
               IF accepted \in kids THEN Cardinality(kids)
               ELSE Cardinality(kids) + 1
      BY <1>t, FS_AddElement, Zenon
    <3> QED
      BY <1>t, <3>1
  <2>2. Cardinality(kids \cup {accepted}) \in Nat
    BY <2>1, FS_CardinalityType
  <2> QED
    BY <1>t, <1>3, <2>1, <2>2 DEF Fork, CountInv
<1>4. ASSUME NEW how \in {"killed", "failed"}, KillGroup(how) PROVE CountInv'
  BY <1>4, FS_EmptySet DEF KillGroup, CountInv
<1>5. CASE UNCHANGED parentVars
  BY <1>5 DEF parentVars, CountInv
<1>6. ASSUME NEW c \in Clients, ClientStep(c) \/ TypeKey(c) \/ ClientKilled(c)
      PROVE  UNCHANGED parentVars
  BY <1>6 DEF ClientStep, Connect, ConnectRefused, NoKey, SendKey, NoSend,
     Sigpipe, RecvChar, NoRecv, PrintChar, NoPrint, SendCtrlA, CleanUp, TypeKey,
     ClientKilled, Closes
<1>7. ASSUME NEW c \in Clients, ChildStep(c)
      PROVE  UNCHANGED parentVars \/ KillGroup("killed")
  BY <1>7 DEF ChildStep, ReadKey, ReadFails, WriteReply, WriteNothing,
     WriteToClosed, WriteToReset
<1>8. ASSUME AcceptFails \/ ForkFails PROVE KillGroup("failed")
  BY <1>8 DEF AcceptFails, ForkFails
<1>9. ASSUME Idle \/ UNCHANGED vars PROVE UNCHANGED parentVars
  BY <1>9 DEF Idle, vars
<1> QED
  BY <1>1, <1>2, <1>3, <1>4, <1>5, <1>6, <1>7, <1>8, <1>9 DEF Next, ParentStep

(* ReapsBeforeAccept: main never goes on to accept() with a child that has *)
(* ended and was not waited for (terminate_exited_processes).              *)
THEOREM ReapsFirst == Spec => ReapsBeforeAccept
<1>1. Typed /\ CountInv /\ [Next]_vars =>
        [(ppc = "reap" /\ ppc' = "accept") => Zombies = {}]_vars
  <2> SUFFICES ASSUME Typed, CountInv, Next, ppc = "reap", ppc' = "accept"
               PROVE  Zombies = {}
    OBVIOUS
  <2>1. ReapDone
    <3>1. ASSUME NEW c \in Clients, ClientStep(c) \/ TypeKey(c) \/ ClientKilled(c)
          PROVE  UNCHANGED ppc
      BY <3>1 DEF ClientStep, Connect, ConnectRefused, NoKey, SendKey, NoSend,
         Sigpipe, RecvChar, NoRecv, PrintChar, NoPrint, SendCtrlA, CleanUp,
         TypeKey, ClientKilled, Closes, parentVars
    <3>2. ASSUME NEW c \in Clients, ChildStep(c)
          PROVE  ppc' = ppc \/ ppc' = "killed"
      BY <3>2 DEF ChildStep, ReadKey, ReadFails, WriteReply, WriteNothing,
         WriteToClosed, WriteToReset, KillGroup, parentVars
    <3>3. ~(Reap \/ Accept \/ Fork \/ Count \/ AcceptFails \/ ForkFails \/ Idle)
      BY DEF Reap, Accept, Fork, Count, AcceptFails, ForkFails, KillGroup, Idle,
         vars, parentVars
    <3> QED
      BY <3>1, <3>2, <3>3 DEF Next, ParentStep
  <2>2. ASSUME left = 0 PROVE kids = {}
    BY <2>2, FS_CardinalityType, FS_EmptySet DEF CountInv
  <2> QED
    BY <2>1, <2>2 DEF ReapDone, Zombies
<1> QED
  BY <1>1, TypeInit, TypeStep, CountInit, CountStep, PTL
  DEF Spec, ReapsBeforeAccept
-----------------------------------------------------------------------------
(* Who kills the server                                                    *)

(* A connection that a child reads from, or will.                          *)
Reader(c) ==
  Contains(backlog, c) \/ (ppc = "fork" /\ accepted = c) \/ spc[c] \in {"read", "write"}

(* Every client is in the queue or at accept() at most once, and has no    *)
(* child until then.                                                       *)
QueueInv ==
  /\ \A i \in DOMAIN backlog :
       /\ spc[backlog[i]] = "none" /\ cpc[backlog[i]] # "connect"
       /\ ppc = "fork" => backlog[i] # accepted
       /\ \A j \in DOMAIN backlog : backlog[i] = backlog[j] => i = j
  /\ ppc = "fork" => spc[accepted] = "none" /\ cpc[accepted] # "connect"
  /\ \A c \in Clients : cpc[c] = "connect" => spc[c] = "none"

EndsWithCtrlA(c) == c2s[c] # <<>> /\ c2s[c][Len(c2s[c])] = CTRL_A

(* The child of a client that has ended meets ^A, unless the connection    *)
(* was reset.                                                              *)
ConnInv(c) ==
  /\ spc[c] # "write" => ~begun[c]
  /\ cpc[c] = "ctrl_a" => sending[c] = <<CTRL_A>>
  /\ cpc[c] = "clean_up" /\ Reader(c) => EndsWithCtrlA(c)
  /\ cpc[c] \in {"closed", "broken"} /\ Reader(c) =>
       c \in reset \/ EndsWithCtrlA(c)

KillInv == QueueInv /\ (\A c \in Clients : ConnInv(c)) /\ OnlyLossKills

LEMMA KillInit == Init => KillInv
<1> SUFFICES ASSUME Init PROVE KillInv
  OBVIOUS
<1>1. QueueInv
  BY DEF Init, QueueInv
<1>2. ASSUME NEW c \in Clients PROVE ConnInv(c)
  BY <1>2 DEF Init, ConnInv
<1>3. OnlyLossKills
  BY DEF Init, OnlyLossKills
<1> QED
  BY <1>1, <1>2, <1>3 DEF KillInv

(* Steps that leave the queue alone.                                       *)
LEMMA SameQueue ==
  ASSUME Typed, QueueInv, UNCHANGED <<ppc, accepted, backlog>>,
         \A c \in Clients : spc[c] = "none" => spc'[c] = "none",
         \A c \in Clients : cpc'[c] = "connect" => cpc[c] = "connect"
  PROVE  QueueInv'
<1>1. \A i \in DOMAIN backlog : backlog[i] \in Clients
  BY DEF Typed, NetOK
<1>2. ppc = "fork" => accepted \in Clients
  BY DEF Typed, ParentOK
<1> QED
  BY <1>1, <1>2 DEF QueueInv

(* A step of client or child c, as far as the queue is concerned.          *)
LEMMA ClientMoves ==
  ASSUME Typed, NEW c \in Clients,
         (ClientStep(c) /\ ~Connect(c)) \/ TypeKey(c) \/ ClientKilled(c)
  PROVE  /\ UNCHANGED <<parentVars, childVars, backlog>>
         /\ cpc[c] # cpc'[c] => cpc'[c] # "connect"
         /\ \A d \in Clients \ {c} :
              /\ cpc'[d] = cpc[d] /\ c2s'[d] = c2s[d] /\ sending'[d] = sending[d]
              /\ s2c'[d] = s2c[d] /\ receiving'[d] = receiving[d]
              /\ typed'[d] = typed[d] /\ printed'[d] = printed[d]
              /\ d \in reset' <=> d \in reset
<1>1. cpc \in [Clients -> Loop \cup {"connect", "ctrl_a", "clean_up", "closed",
                                     "broken", "killed"}]
      /\ DOMAIN c2s = Clients /\ DOMAIN sending = Clients
      /\ DOMAIN s2c = Clients /\ DOMAIN receiving = Clients
      /\ DOMAIN typed = Clients /\ DOMAIN printed = Clients
  BY DEF Typed, NetOK, ClientOK
<1>2. CASE CleanUp(c) \/ ClientKilled(c)
  BY <1>1, <1>2 DEF CleanUp, ClientKilled, Closes, Goto, Reset, parentVars,
     childVars
<1>3. CASE ConnectRefused(c) \/ NoKey(c) \/ SendKey(c) \/ NoSend(c) \/ Sigpipe(c)
  BY <1>1, <1>3 DEF ConnectRefused, NoKey, SendKey, NoSend, Sigpipe, Written,
     Goto, parentVars, childVars, netVars
<1>4. CASE RecvChar(c) \/ NoRecv(c) \/ PrintChar(c) \/ NoPrint(c)
  BY <1>1, <1>4 DEF RecvChar, NoRecv, PrintChar, NoPrint, Goto, parentVars,
     childVars, netVars
<1>5. CASE SendCtrlA(c)
  BY <1>1, <1>5 DEF SendCtrlA, Written, Goto, parentVars, childVars
<1>6. CASE TypeKey(c)
  BY <1>1, <1>6 DEF TypeKey, Goto, parentVars, childVars, netVars
<1> QED
  BY <1>2, <1>3, <1>4, <1>5, <1>6 DEF ClientStep

LEMMA ChildMoves ==
  ASSUME Typed, NEW c \in Clients, ChildStep(c), ~ReadFails(c)
  PROVE  /\ spc[c] \in {"read", "write"} /\ UNCHANGED <<parentVars, backlog, clientVars>>
         /\ \A d \in Clients \ {c} :
              /\ spc'[d] = spc[d] /\ begun'[d] = begun[d] /\ c2s'[d] = c2s[d]
              /\ reply'[d] = reply[d] /\ s2c'[d] = s2c[d]
              /\ d \in reset' <=> d \in reset
<1>1. /\ DOMAIN spc = Clients /\ DOMAIN begun = Clients /\ DOMAIN c2s = Clients
      /\ DOMAIN reply = Clients /\ DOMAIN s2c = Clients
  BY DEF Typed, NetOK, ChildOK
<1>2. CASE ReadKey(c)
  BY <1>1, <1>2 DEF ReadKey, ChildTurns
<1>3. CASE WriteReply(c) \/ WriteNothing(c)
  BY <1>1, <1>3 DEF WriteReply, WriteNothing, ChildTurns, netVars
<1>4. CASE WriteToClosed(c) \/ WriteToReset(c)
  BY <1>1, <1>4 DEF WriteToClosed, WriteToReset, ChildTurns, Reset
<1> QED
  BY <1>2, <1>3, <1>4 DEF ChildStep

LEMMA QueueStep == Typed /\ QueueInv /\ Next => QueueInv'
<1> SUFFICES ASSUME Typed, QueueInv, Next PROVE QueueInv'
  OBVIOUS
<1>t. backlog \in Seq(Clients) /\ DOMAIN spc = Clients /\ DOMAIN cpc = Clients
  BY DEF Typed, NetOK, ChildOK, ClientOK
<1>1. CASE Accept
  <2>1. /\ DOMAIN backlog = 1 .. Len(backlog) /\ Len(backlog) \in Nat \ {0}
        /\ DOMAIN backlog' = 1 .. Len(backlog) - 1
        /\ \A i \in DOMAIN backlog' : backlog'[i] = backlog[i + 1]
        /\ accepted' = backlog[1]
    BY <1>t, <1>1 DEF Accept
  <2>2. \A i \in DOMAIN backlog' : i + 1 \in DOMAIN backlog /\ i + 1 # 1
    BY <2>1
  <2>3. UNCHANGED <<spc, cpc>>
    BY <1>1 DEF Accept, childVars, clientVars
  <2>4. \A i, j \in DOMAIN backlog : backlog[i] = backlog[j] => i = j
    BY DEF QueueInv
  <2>5. 1 \in DOMAIN backlog
    BY <2>1
  <2>6. ASSUME NEW i \in DOMAIN backlog'
        PROVE  /\ spc'[backlog'[i]] = "none" /\ cpc'[backlog'[i]] # "connect"
               /\ backlog'[i] # accepted'
    BY <2>1, <2>2, <2>3, <2>4, <2>5 DEF QueueInv
  <2>7. ASSUME NEW i \in DOMAIN backlog', NEW j \in DOMAIN backlog',
               backlog'[i] = backlog'[j]
        PROVE  i = j
    <3>1. i + 1 = j + 1
      BY <2>1, <2>2, <2>4, <2>7
    <3> QED
      BY <2>1, <3>1
  <2>8. spc'[accepted'] = "none" /\ cpc'[accepted'] # "connect"
    BY <2>1, <2>3, <2>5 DEF QueueInv
  <2> QED
    BY <2>3, <2>6, <2>7, <2>8 DEF QueueInv
<1>2. CASE Fork
  <2>1. accepted \in Clients
    BY <1>2 DEF Fork, Typed, ParentOK
  <2>2. /\ \A c \in Clients \ {accepted} : spc'[c] = spc[c]
        /\ UNCHANGED <<backlog, cpc>> /\ ppc' = "count" /\ ppc = "fork"
    BY <1>t, <1>2 DEF Fork, netVars, clientVars
  <2>3. \A i \in DOMAIN backlog : backlog[i] \in Clients \ {accepted}
    BY <1>t, <2>2 DEF QueueInv
  <2> QED
    BY <2>1, <2>2, <2>3 DEF QueueInv
<1>3. CASE Reap \/ ReapDone \/ Count
  <2>1. UNCHANGED <<spc, cpc, backlog>> /\ ppc' # "fork"
    BY <1>3 DEF Reap, ReapDone, Count, childVars, netVars, clientVars
  <2>2. ppc # "fork"
    BY <1>3 DEF Reap, ReapDone, Count
  <2> QED
    BY <2>1, <2>2 DEF QueueInv
<1>4. ASSUME NEW how \in {"killed", "failed"}, KillGroup(how) PROVE QueueInv'
  <2>1. /\ backlog' = <<>> /\ ppc' # "fork" /\ UNCHANGED cpc
        /\ \A c \in Clients : spc[c] = "none" => spc'[c] = "none"
    BY <1>4 DEF KillGroup, clientVars
  <2>2. DOMAIN backlog' = {}
    BY <2>1
  <2> QED
    BY <2>1, <2>2 DEF QueueInv
<1>5. ASSUME NEW c \in Clients, ChildStep(c) PROVE QueueInv'
  <2>1. CASE ReadFails(c)
    BY <1>4, <2>1 DEF ReadFails
  <2>2. CASE ~ReadFails(c)
    BY <1>5, <2>2, ChildMoves, SameQueue DEF parentVars, clientVars
  <2> QED
    BY <2>1, <2>2
<1>6. ASSUME NEW c \in Clients, Connect(c) PROVE QueueInv'
  <2>1. /\ backlog' = Append(backlog, c) /\ UNCHANGED <<ppc, accepted, spc>>
        /\ \A d \in Clients \ {c} : cpc'[d] = cpc[d]
        /\ cpc[c] = "connect" /\ cpc'[c] = "stdin"
    BY <1>t, <1>6 DEF Connect, Goto, parentVars, childVars
  <2>2. /\ DOMAIN backlog = 1 .. Len(backlog) /\ Len(backlog) \in Nat
        /\ DOMAIN backlog' = 1 .. Len(backlog) + 1
        /\ \A i \in DOMAIN backlog : backlog'[i] = backlog[i]
        /\ backlog'[Len(backlog) + 1] = c
    BY <1>t, <2>1
  <2>3. \A i \in DOMAIN backlog : backlog[i] \in Clients \ {c}
    BY <1>t, <2>1 DEF QueueInv
  <2>4. spc[c] = "none" /\ (ppc = "fork" => accepted \in Clients \ {c})
    BY <1>6, <2>1 DEF QueueInv, Typed, ParentOK
  <2>5. \A i \in DOMAIN backlog' : i \in DOMAIN backlog \/ i = Len(backlog) + 1
    BY <2>2
  <2>6. ASSUME NEW i \in DOMAIN backlog'
        PROVE  /\ spc'[backlog'[i]] = "none" /\ cpc'[backlog'[i]] # "connect"
               /\ ppc' = "fork" => backlog'[i] # accepted'
    <3>1. CASE i \in DOMAIN backlog
      BY <2>1, <2>2, <2>3, <3>1 DEF QueueInv
    <3>2. CASE i = Len(backlog) + 1
      BY <2>1, <2>2, <2>4, <3>2
    <3> QED
      BY <2>5, <3>1, <3>2
  <2>7. \A i, j \in DOMAIN backlog' : backlog'[i] = backlog'[j] => i = j
    BY <2>2, <2>3, <2>5 DEF QueueInv
  <2>8. ppc' = "fork" => spc'[accepted'] = "none" /\ cpc'[accepted'] # "connect"
    BY <2>1, <2>4 DEF QueueInv
  <2>9. \A d \in Clients : cpc'[d] = "connect" => spc'[d] = "none"
    BY <2>1 DEF QueueInv
  <2> QED
    BY <2>6, <2>7, <2>8, <2>9 DEF QueueInv
<1>7. ASSUME NEW c \in Clients,
             (ClientStep(c) /\ ~Connect(c)) \/ TypeKey(c) \/ ClientKilled(c)
      PROVE  QueueInv'
  <2>1. \A d \in Clients : cpc'[d] = "connect" => cpc[d] = "connect"
    BY <1>7, ClientMoves
  <2> QED
    BY <1>7, <2>1, ClientMoves, SameQueue DEF parentVars, childVars
<1>8. CASE Idle
  BY <1>8, SameQueue DEF Idle, vars, parentVars, childVars, netVars, clientVars
<1>9. CASE AcceptFails \/ ForkFails
  BY <1>4, <1>9 DEF AcceptFails, ForkFails
<1> QED
  BY <1>1, <1>2, <1>3, <1>5, <1>6, <1>7, <1>8, <1>9 DEF Next, ParentStep, ClientStep

(* What does not touch connection c and brings no reader.                  *)
LEMMA SameConn ==
  ASSUME NEW c, ConnInv(c), Reader(c)' => Reader(c),
         spc'[c] = spc[c], begun'[c] = begun[c], c2s'[c] = c2s[c],
         cpc'[c] = cpc[c], sending'[c] = sending[c], c \in reset' <=> c \in reset
  PROVE  ConnInv(c)'
<1>1. EndsWithCtrlA(c)' <=> EndsWithCtrlA(c)
  BY DEF EndsWithCtrlA
<1> QED
  BY <1>1 DEF ConnInv

LEMMA SameReader ==
  ASSUME NEW c, UNCHANGED <<ppc, accepted, backlog>>, spc'[c] = spc[c]
  PROVE  Reader(c)' <=> Reader(c)
  BY DEF Reader, Contains

LEMMA ReaderIsEnd == \A c : Reader(c) => ServerEnd(c)
  BY DEF Reader, ServerEnd

LEMMA KillConn ==
  ASSUME Typed, QueueInv, NEW how \in {"killed", "failed"}, KillGroup(how),
         NEW c \in Clients, ConnInv(c)
  PROVE  ConnInv(c)'
<1>1. /\ spc'[c] \notin {"read", "write"} /\ ~begun'[c] /\ ppc' # "fork"
      /\ backlog' = <<>> /\ UNCHANGED <<cpc, sending>>
  BY DEF KillGroup, clientVars
<1>2. ~Reader(c)'
  BY <1>1 DEF Reader, Contains
<1> QED
  BY <1>1, <1>2 DEF ConnInv

LEMMA ParentConn ==
  ASSUME Typed, QueueInv, ParentStep, NEW c \in Clients, ConnInv(c)
  PROVE  ConnInv(c)'
<1>t. backlog \in Seq(Clients) /\ DOMAIN spc = Clients
  BY DEF Typed, NetOK, ChildOK
<1>1. /\ UNCHANGED <<begun, c2s, reset, cpc, sending>>
  BY DEF ParentStep, Reap, ReapDone, Accept, Fork, Count, childVars, netVars,
     clientVars
<1>2. CASE Fork /\ c = accepted
  <2>1. /\ Reader(c) /\ spc[c] = "none" /\ spc'[c] = "read"
    BY <1>t, <1>2 DEF Fork, QueueInv, Reader
  <2> QED
    BY <1>1, <2>1 DEF ConnInv, EndsWithCtrlA
<1>3. CASE Accept
  <2>1. spc'[c] = spc[c] /\ ppc' = "fork" /\ accepted' = Head(backlog)
        /\ backlog' = Tail(backlog) /\ backlog # <<>>
    BY <1>3 DEF Accept, childVars
  <2>2. /\ Len(backlog) \in Nat \ {0} /\ Head(backlog) = backlog[1]
        /\ \A i \in 1 .. Len(Tail(backlog)) :
             Tail(backlog)[i] = backlog[i + 1] /\ i + 1 \in 1 .. Len(backlog)
    BY <1>t, <2>1
  <2>3. Reader(c)' => Reader(c)
    BY <2>1, <2>2 DEF Reader, Contains
  <2> QED
    BY <1>1, <2>1, <2>3, SameConn
<1>4. CASE Reap \/ ReapDone \/ Count \/ (Fork /\ c # accepted)
  <2>1. spc'[c] = spc[c] /\ UNCHANGED backlog /\ ppc' # "fork"
    BY <1>t, <1>4 DEF Reap, ReapDone, Count, Fork, childVars, netVars
  <2>2. Reader(c)' => Reader(c)
    BY <2>1 DEF Reader, Contains
  <2> QED
    BY <1>1, <2>1, <2>2, SameConn
<1> QED
  BY <1>2, <1>3, <1>4 DEF ParentStep

(* A child reads on to ^A, unless a write() ends it.                       *)
LEMMA ChildConn ==
  ASSUME Typed, QueueInv, NEW c \in Clients, ConnInv(c), ChildStep(c), ~ReadFails(c)
  PROVE  ConnInv(c)'
<1>t. /\ c2s[c] \in Seq(Keys) /\ c \in DOMAIN spc /\ c \in DOMAIN begun
      /\ c \in DOMAIN c2s /\ begun[c] \in BOOLEAN
  BY DEF Typed, NetOK, ChildOK
<1>1. /\ spc[c] \in {"read", "write"} /\ UNCHANGED <<backlog, cpc, sending>>
      /\ UNCHANGED <<ppc, accepted>>
  BY ChildMoves DEF parentVars, clientVars
<1>2. Reader(c)
  BY <1>1 DEF Reader
<1>3. CASE ReadKey(c)
  <2>1. CASE Head(c2s[c]) = CTRL_A
    <3>1. spc'[c] = "exited" /\ ~begun'[c]
      BY <1>t, <1>3, <2>1 DEF ReadKey, ChildTurns
    <3>2. ~Reader(c)'
      BY <1>1, <3>1 DEF Reader, Contains, QueueInv
    <3> QED
      BY <1>1, <3>1, <3>2 DEF ConnInv
  <2>2. CASE Head(c2s[c]) # CTRL_A
    <3>1. /\ spc'[c] = "write" /\ c2s'[c] = Tail(c2s[c]) /\ begun'[c] = begun[c]
          /\ reset' = reset /\ spc[c] = "read"
      BY <1>t, <1>3, <2>2 DEF ReadKey
    <3>2. EndsWithCtrlA(c) => EndsWithCtrlA(c)'
      <4> SUFFICES ASSUME EndsWithCtrlA(c) PROVE EndsWithCtrlA(c)'
        OBVIOUS
      <4>1. Len(c2s[c]) \in Nat /\ Len(c2s[c]) > 1
        BY <1>t, <2>2 DEF EndsWithCtrlA
      <4>2. /\ Len(Tail(c2s[c])) = Len(c2s[c]) - 1
            /\ Tail(c2s[c])[Len(c2s[c]) - 1] = c2s[c][Len(c2s[c])]
        BY <1>t, <4>1
      <4>3. /\ Len(c2s'[c]) = Len(c2s[c]) - 1 /\ Len(c2s'[c]) > 0
            /\ c2s'[c][Len(c2s[c]) - 1] = CTRL_A
        BY <3>1, <4>1, <4>2 DEF EndsWithCtrlA
      <4> QED
        BY <4>3 DEF EndsWithCtrlA
    <3> QED
      BY <1>1, <1>2, <3>1, <3>2 DEF ConnInv
  <2> QED
    BY <2>1, <2>2
<1>4. CASE WriteReply(c)
  <2>1. /\ UNCHANGED <<c2s, reset>> /\ cpc[c] \notin {"closed", "broken"}
        /\ spc'[c] # "write" => ~begun'[c]
    BY <1>t, <1>4 DEF WriteReply, ChildTurns, ClientEnd, Loop
  <2> QED
    BY <1>1, <1>2, <2>1 DEF ConnInv, EndsWithCtrlA
<1>5. CASE WriteNothing(c)
  <2>1. UNCHANGED <<c2s, reset>> /\ ~begun'[c]
    BY <1>t, <1>5 DEF WriteNothing, ChildTurns, netVars
  <2> QED
    BY <1>1, <1>2, <2>1 DEF ConnInv, EndsWithCtrlA
<1>6. CASE WriteToClosed(c)
  <2>1. /\ ~begun'[c] /\ cpc[c] # "clean_up" /\ c \in reset'
    BY <1>t, <1>6 DEF WriteToClosed, ChildTurns, Reset, ClientEnd
  <2> QED
    BY <1>1, <1>2, <2>1 DEF ConnInv
<1>7. CASE WriteToReset(c)
  <2>1. CASE begun[c]
    <3>1. ~begun'[c] /\ UNCHANGED <<c2s, reset>> /\ c \in reset
      BY <1>t, <1>7, <2>1 DEF WriteToReset, ChildTurns
    <3> QED
      BY <1>1, <1>2, <2>1, <3>1 DEF ConnInv, EndsWithCtrlA
  <2>2. CASE ~begun[c]
    <3>1. spc'[c] = "broken" /\ ~begun'[c]
      BY <1>t, <1>7, <2>2 DEF WriteToReset, ChildTurns
    <3>2. ~Reader(c)'
      BY <1>1, <3>1 DEF Reader, Contains, QueueInv
    <3> QED
      BY <1>1, <3>1, <3>2 DEF ConnInv
  <2> QED
    BY <2>1, <2>2
<1> QED
  BY <1>3, <1>4, <1>5, <1>6, <1>7 DEF ChildStep

(* The client closes its end only after ^A was written.                    *)
LEMMA ClientConn ==
  ASSUME Typed, QueueInv, NEW c \in Clients, ConnInv(c),
         ClientStep(c) \/ TypeKey(c) \/ ClientKilled(c)
  PROVE  ConnInv(c)'
<1>t. /\ c2s[c] \in Seq(Keys) /\ c \in DOMAIN sending /\ c \in DOMAIN cpc
      /\ c \in DOMAIN c2s
  BY DEF Typed, NetOK, ClientOK
<1>1. CASE Connect(c)
  <2>1. UNCHANGED <<spc, begun>> /\ cpc'[c] = "stdin"
    BY <1>t, <1>1 DEF Connect, Goto, childVars
  <2> QED
    BY <2>1 DEF ConnInv
<1>2. CASE ~Connect(c)
  <2>1. UNCHANGED <<ppc, accepted, backlog, spc, begun>>
    BY <1>2, ClientMoves DEF parentVars, childVars
  <2>2. Reader(c)' <=> Reader(c)
    BY <2>1, SameReader
  <2>3. CASE NoKey(c) \/ SendKey(c) \/ NoSend(c) \/ RecvChar(c) \/ NoRecv(c)
             \/ PrintChar(c) \/ NoPrint(c)
    <3>1. cpc'[c] \in Loop
      BY <1>t, <2>3 DEF NoKey, SendKey, NoSend, RecvChar, NoRecv, PrintChar,
         NoPrint, Goto, Loop
    <3> QED
      BY <2>1, <3>1 DEF ConnInv, Loop
  <2>4. CASE TypeKey(c)
    <3>1. PICK key \in Keys :
             /\ sending'[c] = <<key>>
             /\ cpc'[c] = IF key = CTRL_A THEN "ctrl_a" ELSE "send"
      BY <1>t, <2>4 DEF TypeKey, Goto
    <3> QED
      BY <2>1, <3>1 DEF ConnInv
  <2>5. CASE ConnectRefused(c)
    <3>1. ~Reader(c) /\ cpc'[c] = "closed"
      <4>1. cpc[c] = "connect" /\ ppc # "fork" /\ spc[c] = "none"
        BY <2>5 DEF ConnectRefused, Serving, QueueInv
      <4>2. ~Contains(backlog, c)
        <5>1. DOMAIN backlog = 1 .. Len(backlog)
          BY DEF Typed, NetOK
        <5> QED
          BY <4>1, <5>1 DEF QueueInv, Contains
      <4> QED
        BY <1>t, <2>5, <4>1, <4>2 DEF Reader, ConnectRefused, Goto
    <3> QED
      BY <2>1, <2>2, <3>1 DEF ConnInv
  <2>6. CASE Sigpipe(c)
    <3>1. ~Reader(c) /\ cpc'[c] = "broken"
      BY <1>t, <2>6, ReaderIsEnd DEF Sigpipe, Goto
    <3> QED
      BY <2>1, <2>2, <3>1 DEF ConnInv
  <2>7. CASE SendCtrlA(c)
    <3>1. cpc'[c] = "clean_up" /\ sending[c] = <<CTRL_A>>
      BY <1>t, <2>7 DEF SendCtrlA, Goto, ConnInv
    <3>2. Reader(c) => c2s'[c] = c2s[c] \o <<CTRL_A>>
      BY <1>t, <2>7, <3>1, ReaderIsEnd DEF SendCtrlA, Written
    <3>3. CTRL_A \in Keys
      BY SampleEchoAssumption
    <3>4. /\ Len(c2s[c] \o <<CTRL_A>>) = Len(c2s[c]) + 1 /\ Len(c2s[c]) \in Nat
          /\ (c2s[c] \o <<CTRL_A>>)[Len(c2s[c]) + 1] = CTRL_A
      BY <1>t, <3>3
    <3>5. Reader(c) => EndsWithCtrlA(c)'
      BY <3>2, <3>4 DEF EndsWithCtrlA
    <3> QED
      BY <2>1, <2>2, <3>1, <3>5 DEF ConnInv
  <2>8. CASE CleanUp(c)
    <3>1. /\ cpc[c] = "clean_up" /\ cpc'[c] = "closed"
          /\ UNCHANGED <<c2s, reset>> \/ Reset(c)
      BY <1>t, <2>8 DEF CleanUp, Closes, Goto
    <3>2. CASE Reset(c)
      <4>1. c \in reset'
        BY <3>2 DEF Reset
      <4> QED
        BY <2>1, <2>2, <3>1, <4>1 DEF ConnInv
    <3>3. CASE UNCHANGED <<c2s, reset>>
      BY <2>1, <2>2, <3>1, <3>3 DEF ConnInv, EndsWithCtrlA
    <3> QED
      BY <3>1, <3>2, <3>3
  <2>9. CASE ClientKilled(c)
    <3>1. cpc'[c] = "killed"
      BY <1>t, <2>9 DEF ClientKilled, Closes, Goto
    <3> QED
      BY <2>1, <3>1 DEF ConnInv
  <2> QED
    BY <1>2, <2>3, <2>4, <2>5, <2>6, <2>7, <2>8, <2>9 DEF ClientStep
<1> QED
  BY <1>1, <1>2

LEMMA ConnStep ==
  ASSUME Typed, QueueInv, \A c \in Clients : ConnInv(c), Next, NEW c \in Clients
  PROVE  ConnInv(c)'
<1>1. CASE ParentStep
  BY <1>1, ParentConn
<1>2. CASE AcceptFails \/ ForkFails
  BY <1>2, KillConn DEF AcceptFails, ForkFails
<1>3. CASE Idle
  <2>1. UNCHANGED <<ppc, accepted, backlog, spc, begun, c2s, cpc, sending, reset>>
    BY <1>3 DEF Idle, vars, parentVars, childVars, netVars, clientVars
  <2> QED
    BY <2>1, SameReader, SameConn
<1>4. ASSUME NEW d \in Clients, ChildStep(d) PROVE ConnInv(c)'
  <2>1. CASE ReadFails(d)
    BY <2>1, KillConn DEF ReadFails
  <2>2. CASE ~ReadFails(d) /\ c = d
    BY <1>4, <2>2, ChildConn
  <2>3. CASE ~ReadFails(d) /\ c # d
    <3>1. /\ UNCHANGED <<ppc, accepted, backlog, cpc, sending>>
          /\ spc'[c] = spc[c] /\ begun'[c] = begun[c] /\ c2s'[c] = c2s[c]
          /\ c \in reset' <=> c \in reset
      BY <1>4, <2>3, ChildMoves DEF parentVars, clientVars
    <3> QED
      BY <3>1, SameReader, SameConn
  <2> QED
    BY <2>1, <2>2, <2>3
<1>5. ASSUME NEW d \in Clients, ClientStep(d) \/ TypeKey(d) \/ ClientKilled(d)
      PROVE  ConnInv(c)'
  <2>1. CASE c = d
    BY <1>5, <2>1, ClientConn
  <2>2. CASE c # d /\ Connect(d)
    <3>1. /\ backlog' = Append(backlog, d) /\ backlog \in Seq(Clients)
          /\ UNCHANGED <<ppc, accepted, spc, begun, c2s, sending, reset>>
      BY <2>2 DEF Connect, parentVars, childVars, Typed, NetOK
    <3>2. Contains(backlog, c)' => Contains(backlog, c)
      BY <2>2, <3>1 DEF Contains
    <3>3. Reader(c)' => Reader(c)
      BY <3>1, <3>2 DEF Reader
    <3>4. cpc'[c] = cpc[c]
      BY <2>2 DEF Connect, Goto, Typed, ClientOK
    <3> QED
      BY <3>1, <3>3, <3>4, SameConn
  <2>3. CASE c # d /\ ~Connect(d)
    <3>1. /\ UNCHANGED <<ppc, accepted, backlog, spc, begun>>
          /\ cpc'[c] = cpc[c] /\ sending'[c] = sending[c] /\ c2s'[c] = c2s[c]
          /\ c \in reset' <=> c \in reset
      BY <1>5, <2>3, ClientMoves DEF parentVars, childVars
    <3> QED
      BY <3>1, SameReader, SameConn
  <2> QED
    BY <2>1, <2>2, <2>3
<1> QED
  BY <1>1, <1>2, <1>3, <1>4, <1>5 DEF Next

(* A child that kills the server has read to the end of the data of a      *)
(* client that is gone: by ConnInv it was killed, or its connection reset. *)
LEMMA KillStep ==
  ASSUME Typed, KillInv, Next
  PROVE  OnlyLossKills'
<1>0. reset \subseteq reset'
  <2>1. ASSUME NEW d \in Clients, ClientStep(d) \/ TypeKey(d) \/ ClientKilled(d)
        PROVE  reset \subseteq reset'
    BY <2>1 DEF ClientStep, Connect, ConnectRefused, NoKey, SendKey, NoSend,
       Sigpipe, RecvChar, NoRecv, PrintChar, NoPrint, SendCtrlA, CleanUp, TypeKey,
       ClientKilled, Closes, Reset, netVars
  <2>2. ASSUME NEW d \in Clients, ChildStep(d) PROVE reset \subseteq reset'
    BY <2>2 DEF ChildStep, ReadKey, ReadFails, KillGroup, WriteReply, WriteNothing,
       WriteToClosed, WriteToReset, Reset, netVars
  <2>3. ASSUME ParentStep \/ AcceptFails \/ ForkFails \/ Idle
        PROVE  reset \subseteq reset'
    BY <2>3 DEF ParentStep, Reap, ReapDone, Accept, Fork, Count, AcceptFails,
       ForkFails, KillGroup, Idle, vars, netVars
  <2> QED
    BY <2>1, <2>2, <2>3 DEF Next
<1>1. ASSUME NEW c \in Clients, cpc[c] = "killed" PROVE cpc'[c] = "killed"
  <2>1. ASSUME NEW d \in Clients, ClientStep(d) \/ TypeKey(d) \/ ClientKilled(d)
        PROVE  cpc'[c] = "killed"
    <3>1. CASE d = c
      BY <1>1, <2>1, <3>1 DEF ClientStep, Connect, ConnectRefused, NoKey, SendKey,
         NoSend, Sigpipe, RecvChar, NoRecv, PrintChar, NoPrint, SendCtrlA,
         CleanUp, TypeKey, ClientKilled, ClientEnd, Loop
    <3>2. CASE d # c /\ Connect(d)
      BY <1>1, <3>2 DEF Connect, Goto, Typed, ClientOK
    <3>3. CASE d # c /\ ~Connect(d)
      BY <1>1, <2>1, <3>3, ClientMoves
    <3> QED
      BY <3>1, <3>2, <3>3
  <2>2. ASSUME ~\E d \in Clients : ClientStep(d) \/ TypeKey(d) \/ ClientKilled(d)
        PROVE  UNCHANGED cpc
    <3>1. ASSUME NEW d \in Clients, ChildStep(d) PROVE UNCHANGED cpc
      BY <3>1, ChildMoves DEF ReadFails, KillGroup, clientVars
    <3>2. ASSUME ParentStep \/ AcceptFails \/ ForkFails \/ Idle PROVE UNCHANGED cpc
      BY <3>2 DEF ParentStep, Reap, ReapDone, Accept, Fork, Count, AcceptFails,
         ForkFails, KillGroup, Idle, vars, clientVars
    <3> QED
      BY <2>2, <3>1, <3>2 DEF Next
  <2> QED
    BY <1>1, <2>1, <2>2
<1>2. ASSUME ppc = "killed" PROVE OnlyLossKills'
  BY <1>0, <1>1, <1>2 DEF KillInv, OnlyLossKills
<1>3. ASSUME NEW c \in Clients, ReadFails(c) PROVE OnlyLossKills'
  <2>1. spc[c] = "read" /\ c2s[c] = <<>> /\ ~ClientEnd(c) /\ Reader(c)
    BY <1>3 DEF ReadFails, Reader
  <2>2. cpc[c] \in {"connect", "closed", "broken"} => c \in reset
    BY <2>1 DEF KillInv, QueueInv, ConnInv, EndsWithCtrlA
  <2>3. cpc[c] = "killed" \/ c \in reset
    BY <2>1, <2>2 DEF ClientEnd, Typed, ClientOK
  <2> QED
    BY <1>0, <1>1, <2>3 DEF OnlyLossKills
<1>4. ASSUME ppc # "killed", \A c \in Clients : ~ReadFails(c)
      PROVE  ppc' # "killed"
  <2>1. ASSUME NEW c \in Clients, ChildStep(c) PROVE UNCHANGED ppc
    BY <1>4, <2>1, ChildMoves DEF parentVars
  <2>2. ASSUME NEW c \in Clients, ClientStep(c) \/ TypeKey(c) \/ ClientKilled(c)
        PROVE  UNCHANGED ppc
    BY <2>2, ClientMoves DEF parentVars, Connect
  <2>3. ASSUME ParentStep \/ AcceptFails \/ ForkFails \/ Idle
        PROVE  ppc' # "killed"
    BY <1>4, <2>3 DEF ParentStep, Reap, ReapDone, Accept, Fork, Count, AcceptFails,
       ForkFails, KillGroup, Idle, vars, parentVars
  <2> QED
    BY <1>4, <2>1, <2>2, <2>3 DEF Next
<1> QED
  BY <1>2, <1>3, <1>4 DEF OnlyLossKills

LEMMA KillInvStep == Typed /\ KillInv /\ [Next]_vars => KillInv'
<1>1. ASSUME Typed, KillInv, Next PROVE KillInv'
  BY <1>1, QueueStep, ConnStep, KillStep DEF KillInv
<1>2. ASSUME Typed, KillInv, UNCHANGED vars PROVE KillInv'
  <2>1. UNCHANGED <<ppc, accepted, backlog, spc, begun, c2s, cpc, sending, reset>>
    BY <1>2 DEF vars, parentVars, childVars, netVars, clientVars
  <2>2. \A c \in Clients : ConnInv(c)'
    BY <1>2, <2>1, SameReader, SameConn DEF KillInv
  <2>3. QueueInv'
    BY <1>2, <2>1, SameQueue DEF KillInv
  <2> QED
    BY <1>2, <2>1, <2>2, <2>3 DEF KillInv, OnlyLossKills
<1> QED
  BY <1>1, <1>2

(* OnlyLossKills: a child kills the server only after a client was killed  *)
(* or a connection was reset (child_process); a client that reads all its  *)
(* answers before it ends with ^A never brings that about.                 *)
THEOREM KilledByLoss == Spec => []OnlyLossKills
<1>1. KillInv => OnlyLossKills
  BY DEF KillInv
<1> QED
  BY <1>1, TypeInit, TypeStep, KillInit, KillInvStep, PTL DEF Spec
-----------------------------------------------------------------------------
(* Answers to a sequence of keys                                           *)

LEMMA SmallestElement ==
  ASSUME NEW S \in SUBSET Nat, S # {}
  PROVE  \E n \in S : \A m \in S : n =< m
<1> DEFINE R == {p \in Nat \X Nat : p[1] < p[2]}
<1>1. IsWellFoundedOn(R, Nat)
  BY NatLessThanWellFounded, Zenon DEF OpToRel
<1>2. PICK n \in S : \A m \in S : <<m, n>> \notin R
  <2> HIDE DEF R
  <2> QED
    BY <1>1, WFMin
<1>3. \A m \in S : ~(m < n)
  BY <1>2
<1> QED
  BY <1>3

(* What holds of 0, and of n whenever it holds of n - 1, holds up to K.    *)
LEMMA UpTo ==
  ASSUME NEW K \in Nat, NEW P, 0 \in P,
         \A n \in 1 .. K : n - 1 \in P => n \in P
  PROVE  \A n \in 0 .. K : n \in P
<1> DEFINE S == (0 .. K) \ P
<1> SUFFICES ASSUME S # {} PROVE FALSE
  OBVIOUS
<1>1. PICK n \in S : \A m \in S : n =< m
  <2>1. S \in SUBSET Nat
    OBVIOUS
  <2> HIDE DEF S
  <2> QED
    BY <2>1, SmallestElement
<1>2. n \in 1 .. K /\ n \notin P
  BY <1>1
<1>3. n - 1 \in 0 .. K /\ ~(n =< n - 1)
  BY <1>2
<1>4. n - 1 \in P
  BY <1>1, <1>3
<1> QED
  BY <1>2, <1>4

(* f[i] is the first i sequences of ss, joined (FlattenSeq).               *)
Joins(f, ss) ==
  \A i \in DOMAIN ss : f[i] = IF i = 1 THEN ss[i] ELSE f[i - 1] \o ss[i]

LEMMA JoinExists ==
  ASSUME NEW S, NEW ss \in Seq(Seq(S))
  PROVE  \E f \in [1 .. Len(ss) -> Seq(S)] : Joins(f, ss)
<1> DEFINE T == Seq(S)
           J(n, f) == \A i \in 1 .. n : f[i] = IF i = 1 THEN ss[i] ELSE f[i - 1] \o ss[i]
           P == {n \in 0 .. Len(ss) : \E f \in [1 .. n -> T] : J(n, f)}
<1>t. /\ Len(ss) \in Nat /\ DOMAIN ss = 1 .. Len(ss)
      /\ \A i \in 1 .. Len(ss) : ss[i] \in T
  OBVIOUS
<1>0. \A s, t \in T : s \o t \in T
  OBVIOUS
<1> HIDE DEF T
<1>1. 0 \in P
  <2>1. [i \in 1 .. 0 |-> <<>>] \in [1 .. 0 -> T]
    OBVIOUS
  <2>2. J(0, [i \in 1 .. 0 |-> <<>>])
    OBVIOUS
  <2>3. \E f \in [1 .. 0 -> T] : J(0, f)
    BY <2>1, <2>2
  <2>4. 0 \in 0 .. Len(ss)
    BY <1>t
  <2> QED
    BY <2>3, <2>4, Zenon
<1>2. ASSUME NEW n \in 1 .. Len(ss), n - 1 \in P PROVE n \in P
  <2>1. PICK f \in [1 .. n - 1 -> T] : J(n - 1, f)
    BY <1>2
  <2> DEFINE x == IF n = 1 THEN ss[n] ELSE f[n - 1] \o ss[n]
             g == [i \in 1 .. n |-> IF i = n THEN x ELSE f[i]]
  <2>2. x \in T
    <3>1. n # 1 => n - 1 \in 1 .. n - 1
      BY <1>t
    <3> QED
      BY <1>t, <1>0, <2>1, <3>1
  <2>3. g \in [1 .. n -> T]
    <3> HIDE DEF x
    <3>1. \A i \in 1 .. n : i # n => i \in 1 .. n - 1
      BY <1>t
    <3> QED
      BY <2>1, <2>2, <3>1
  <2>4. J(n, g)
    <3> SUFFICES ASSUME NEW i \in 1 .. n
                 PROVE  g[i] = IF i = 1 THEN ss[i] ELSE g[i - 1] \o ss[i]
      OBVIOUS
    <3>1. i # 1 => i - 1 \in 1 .. n /\ i - 1 # n
      BY <1>t
    <3>2. i # 1 => g[i - 1] = f[i - 1]
      BY <3>1
    <3>3. CASE i = n
      BY <3>2, <3>3
    <3>4. CASE i # n
      <4>1. i \in 1 .. n - 1
        BY <1>t, <3>4
      <4>2. g[i] = f[i]
        BY <3>4
      <4>3. f[i] = IF i = 1 THEN ss[i] ELSE f[i - 1] \o ss[i]
        BY <2>1, <4>1
      <4> HIDE DEF g
      <4> QED
        BY <3>2, <4>2, <4>3
    <3> QED
      BY <3>3, <3>4
  <2> HIDE DEF g, J
  <2> QED
    BY <1>t, <2>3, <2>4
<1>3. Len(ss) \in P
  <2> HIDE DEF P
  <2>1. \A n \in 0 .. Len(ss) : n \in P
    BY <1>t, <1>1, <1>2, UpTo
  <2> QED
    BY <1>t, <2>1
<1> QED
  BY <1>t, <1>3 DEF Joins, T

LEMMA JoinIsFlat ==
  ASSUME NEW S, NEW ss \in Seq(Seq(S)), ss # <<>>
  PROVE  \E f : Joins(f, ss) /\ f[Len(ss)] = FlattenSeq(ss)
<1> DEFINE flatten ==
      CHOOSE h : h = [i \in 1 .. Len(ss) |->
                        IF i = 1 THEN ss[i] ELSE h[i - 1] \o ss[i]]
<1>1. Len(ss) # 0
  OBVIOUS
<1>2. FlattenSeq(ss) = flatten[Len(ss)]
  BY <1>1, Zenon DEF FlattenSeq
<1>3. PICK f \in [1 .. Len(ss) -> Seq(S)] : Joins(f, ss)
  BY JoinExists
<1>d. DOMAIN ss = 1 .. Len(ss)
  OBVIOUS
<1>f. \A i \in 1 .. Len(ss) : f[i] = IF i = 1 THEN ss[i] ELSE f[i - 1] \o ss[i]
  BY <1>3, <1>d, Zenon DEF Joins
<1>4. f = [i \in 1 .. Len(ss) |-> IF i = 1 THEN ss[i] ELSE f[i - 1] \o ss[i]]
  BY <1>3, <1>f, Zenon
<1>5. flatten = [i \in 1 .. Len(ss) |->
                   IF i = 1 THEN ss[i] ELSE flatten[i - 1] \o ss[i]]
  BY <1>4, Zenon
<1> HIDE DEF flatten
<1>6. Joins(flatten, ss)
  BY <1>5, <1>d, Zenon DEF Joins
<1> QED
  BY <1>2, <1>6

(* There is only one such f: it depends on the sequences up to i alone.    *)
Same(K, ss, tt) ==
  /\ K \in Nat /\ 1 .. K \subseteq DOMAIN ss /\ 1 .. K \subseteq DOMAIN tt
  /\ \A i \in 1 .. K : ss[i] = tt[i]

LEMMA JoinUnique ==
  ASSUME NEW K, NEW ss, NEW tt, NEW f, NEW g,
         Same(K, ss, tt), Joins(f, ss), Joins(g, tt)
  PROVE  \A i \in 1 .. K : f[i] = g[i]
<1> USE DEF Same
<1> DEFINE P == {n \in 0 .. K : n = 0 \/ f[n] = g[n]}
<1>1. 0 \in P
  OBVIOUS
<1>2. ASSUME NEW n \in 1 .. K, n - 1 \in P PROVE n \in P
  <2>1. n # 1 => f[n - 1] = g[n - 1]
    BY <1>2
  <2>2. /\ f[n] = IF n = 1 THEN ss[n] ELSE f[n - 1] \o ss[n]
        /\ g[n] = IF n = 1 THEN tt[n] ELSE g[n - 1] \o tt[n]
    BY Zenon DEF Joins
  <2>3. f[n] = g[n]
    BY <2>1, <2>2
  <2> QED
    BY <2>3
<1>3. \A n \in 0 .. K : n \in P
  <2> HIDE DEF P
  <2> QED
    BY <1>1, <1>2, UpTo
<1> QED
  BY <1>3

LEMMA FlattenType ==
  ASSUME NEW S, NEW ss \in Seq(Seq(S))
  PROVE  FlattenSeq(ss) \in Seq(S)
<1>1. CASE ss = <<>>
  BY <1>1 DEF FlattenSeq
<1>2. CASE ss # <<>>
  <2>1. PICK f : Joins(f, ss) /\ f[Len(ss)] = FlattenSeq(ss)
    BY <1>2, JoinIsFlat
  <2>2. PICK g \in [1 .. Len(ss) -> Seq(S)] : Joins(g, ss)
    BY JoinExists
  <2>3. Len(ss) \in 1 .. Len(ss)
    BY <1>2
  <2>4. f[Len(ss)] = g[Len(ss)]
    <3>1. Same(Len(ss), ss, ss)
      BY DEF Same
    <3> QED
      BY <2>1, <2>2, <2>3, <3>1, JoinUnique
  <2> QED
    BY <2>1, <2>2, <2>3, <2>4
<1> QED
  BY <1>1, <1>2

LEMMA FlattenAppend ==
  ASSUME NEW S, NEW ss \in Seq(Seq(S)), NEW x \in Seq(S)
  PROVE  FlattenSeq(Append(ss, x)) = FlattenSeq(ss) \o x
<1> DEFINE tt == Append(ss, x)
           n == Len(ss)
<1>t. /\ tt \in Seq(Seq(S)) /\ tt # <<>> /\ Len(tt) = n + 1 /\ n \in Nat
      /\ \A i \in 1 .. n : tt[i] = ss[i]
      /\ tt[n + 1] = x /\ n + 1 \in DOMAIN tt
  BY AppendProperties
<1> HIDE DEF tt
<1>1. PICK g : Joins(g, tt) /\ g[n + 1] = FlattenSeq(tt)
  <2>1. \E g : Joins(g, tt) /\ g[Len(tt)] = FlattenSeq(tt)
    BY <1>t, JoinIsFlat, Zenon
  <2> QED
    BY <1>t, <2>1
<1>2. g[n + 1] = IF n + 1 = 1 THEN x ELSE g[(n + 1) - 1] \o x
  <2>1. g[n + 1] = IF n + 1 = 1 THEN tt[n + 1] ELSE g[(n + 1) - 1] \o tt[n + 1]
    BY <1>t, <1>1, Zenon DEF Joins
  <2> QED
    BY <1>t, <2>1
<1>3. CASE ss = <<>>
  <2>1. n = 0 /\ FlattenSeq(ss) = <<>>
    BY <1>3 DEF FlattenSeq
  <2>2. FlattenSeq(tt) = x
    BY <1>1, <1>2, <2>1
  <2>3. <<>> \o x = x
    OBVIOUS
  <2> QED
    BY <2>1, <2>2, <2>3 DEF tt
<1>4. CASE ss # <<>>
  <2>1. PICK f : Joins(f, ss) /\ f[n] = FlattenSeq(ss)
    BY <1>4, JoinIsFlat, Zenon
  <2>2. n \in 1 .. n /\ n + 1 # 1 /\ (n + 1) - 1 = n /\ n =< n + 1
    BY <1>t, <1>4
  <2>3. \A i \in 1 .. n : f[i] = g[i]
    <3>1. Same(n, ss, tt)
      BY <1>t DEF Same
    <3>2. Joins(f, ss) /\ Joins(g, tt)
      BY <1>1, <2>1
    <3> HIDE DEF n
    <3> QED
      BY <3>1, <3>2, JoinUnique
  <2>4. f[n] = g[n]
    BY <2>2, <2>3
  <2>5. g[n + 1] = g[n] \o x
    BY <1>2, <2>2
  <2> QED
    BY <1>1, <2>1, <2>4, <2>5 DEF tt
<1> QED
  BY <1>3, <1>4

Replies(keys) == [i \in DOMAIN keys |-> Reply(keys[i])]

LEMMA RepliesType ==
  ASSUME NEW keys \in Seq(Keys)
  PROVE  Replies(keys) \in Seq(Seq(Answer)) /\ Len(Replies(keys)) = Len(keys)
<1> DEFINE T == Seq(Answer)
<1>1. \A i \in DOMAIN keys : Reply(keys[i]) \in T
  BY ReplyType
<1>2. DOMAIN keys = 1 .. Len(keys) /\ Len(keys) \in Nat
  OBVIOUS
<1> HIDE DEF T
<1>3. Replies(keys) \in [1 .. Len(keys) -> T]
  BY <1>1, <1>2 DEF Replies
<1>4. Replies(keys) \in Seq(T) /\ Len(Replies(keys)) = Len(keys)
  BY <1>2, <1>3
<1> QED
  BY <1>4 DEF T

LEMMA AnswersType ==
  ASSUME NEW keys \in Seq(Keys) PROVE Answers(keys) \in Seq(Answer)
  BY RepliesType, FlattenType, Zenon DEF Answers, Replies

LEMMA AnswersEmpty == Answers(<<>>) = <<>>
<1>1. Replies(<<>>) = <<>>
  BY DEF Replies
<1>2. FlattenSeq(<<>>) = <<>>
  BY DEF FlattenSeq
<1> QED
  BY <1>1, <1>2, Zenon DEF Answers, Replies

LEMMA AnswersAppend ==
  ASSUME NEW keys \in Seq(Keys), NEW key \in Keys
  PROVE  Answers(Append(keys, key)) = Answers(keys) \o Reply(key)
<1> DEFINE long == Append(keys, key)
           r == Append(Replies(keys), Reply(key))
<1>1. /\ long \in Seq(Keys) /\ Len(long) = Len(keys) + 1 /\ Len(keys) \in Nat
      /\ \A i \in 1 .. Len(keys) : long[i] = keys[i]
      /\ long[Len(keys) + 1] = key
  BY AppendProperties
<1>2. /\ Replies(keys) \in Seq(Seq(Answer)) /\ Len(Replies(keys)) = Len(keys)
      /\ Replies(long) \in Seq(Seq(Answer)) /\ Len(Replies(long)) = Len(keys) + 1
      /\ Reply(key) \in Seq(Answer)
  BY <1>1, RepliesType, ReplyType
<1>3. Replies(long) = r
  <2>1. /\ r \in Seq(Seq(Answer)) /\ Len(r) = Len(keys) + 1
        /\ \A i \in 1 .. Len(keys) : r[i] = Replies(keys)[i]
        /\ r[Len(keys) + 1] = Reply(key)
    BY <1>1, <1>2, AppendProperties
  <2>2. \A i \in 1 .. Len(keys) : Replies(keys)[i] = Reply(keys[i])
    BY DEF Replies
  <2>3. \A i \in 1 .. Len(keys) + 1 : Replies(long)[i] = Reply(long[i])
    <3>1. DOMAIN long = 1 .. Len(keys) + 1
      BY <1>1
    <3> HIDE DEF long
    <3> QED
      BY <3>1 DEF Replies
  <2> HIDE DEF long, r
  <2>4. \A i \in 1 .. Len(keys) + 1 : Replies(long)[i] = r[i]
    <3>1. ASSUME NEW i \in 1 .. Len(keys) PROVE Replies(long)[i] = r[i]
      <4>1. i \in 1 .. Len(keys) + 1
        BY <1>1
      <4> QED
        BY <1>1, <2>1, <2>2, <2>3, <4>1
    <3>2. Len(keys) + 1 \in 1 .. Len(keys) + 1
      BY <1>1
    <3>3. Replies(long)[Len(keys) + 1] = r[Len(keys) + 1]
      BY <1>1, <2>1, <2>3, <3>2
    <3>4. \A i \in 1 .. Len(keys) + 1 : i \in 1 .. Len(keys) \/ i = Len(keys) + 1
      BY <1>1
    <3> QED
      BY <3>1, <3>3, <3>4
  <2> QED
    BY <1>2, <2>1, <2>4, SeqEqual
<1>4. FlattenSeq(r) = FlattenSeq(Replies(keys)) \o Reply(key)
  BY <1>2, FlattenAppend, Zenon
<1> QED
  BY <1>3, <1>4, Zenon DEF Answers, Replies

LEMMA AnswersConcat ==
  ASSUME NEW s \in Seq(Keys), NEW t \in Seq(Keys)
  PROVE  Answers(s \o t) = Answers(s) \o Answers(t)
<1> DEFINE up(n) == SubSeq(t, 1, n)
           P == {n \in 0 .. Len(t) :
                   Answers(s \o up(n)) = Answers(s) \o Answers(up(n))}
<1>1. 0 \in P
  <2>1. up(0) = <<>> /\ s \o <<>> = s /\ 0 \in 0 .. Len(t)
    OBVIOUS
  <2>2. Answers(s) \in Seq(Answer)
    BY AnswersType
  <2>3. Answers(s) \o <<>> = Answers(s)
    BY <2>2, ConcatEmptySeq
  <2>4. Answers(s \o up(0)) = Answers(s) \o Answers(up(0))
    BY <2>1, <2>3, AnswersEmpty, Zenon
  <2> QED
    BY <2>1, <2>4
<1>2. ASSUME NEW n \in 1 .. Len(t), n - 1 \in P PROVE n \in P
  <2>1. /\ up(n - 1) \in Seq(Keys) /\ t[n] \in Keys
        /\ up(n) = Append(up(n - 1), t[n])
    OBVIOUS
  <2> DEFINE u == up(n - 1)
             x == t[n]
  <2>2. Answers(s \o u) = Answers(s) \o Answers(u)
    BY <1>2
  <2>3. u \in Seq(Keys) /\ x \in Keys /\ up(n) = Append(u, x)
    BY <2>1
  <2> HIDE DEF u, x, up
  <2>4. s \o Append(u, x) = Append(s \o u, x) /\ s \o u \in Seq(Keys)
    BY <2>3
  <2>5. /\ Answers(Append(s \o u, x)) = Answers(s \o u) \o Reply(x)
        /\ Answers(Append(u, x)) = Answers(u) \o Reply(x)
    BY <2>3, <2>4, AnswersAppend, Zenon
  <2>6. (Answers(s) \o Answers(u)) \o Reply(x) = Answers(s) \o (Answers(u) \o Reply(x))
    <3>1. /\ Answers(s) \in Seq(Answer) /\ Answers(u) \in Seq(Answer)
          /\ Reply(x) \in Seq(Answer)
      BY <2>3, AnswersType, ReplyType, Zenon
    <3> QED
      BY <3>1, ConcatAssociative
  <2>7. Answers(s \o up(n)) = Answers(s) \o Answers(up(n))
    BY <2>2, <2>3, <2>4, <2>5, <2>6, Zenon
  <2>8. n \in 0 .. Len(t)
    OBVIOUS
  <2> QED
    BY <2>7, <2>8
<1>3. \A n \in 0 .. Len(t) : n \in P
  <2> HIDE DEF P
  <2>1. Len(t) \in Nat
    OBVIOUS
  <2> QED
    BY <1>1, <1>2, <2>1, UpTo
<1>4. Len(t) \in P /\ up(Len(t)) = t
  <2>1. up(Len(t)) = t /\ Len(t) \in 0 .. Len(t)
    OBVIOUS
  <2> HIDE DEF P
  <2> QED
    BY <1>3, <2>1
<1> HIDE DEF up
<1> QED
  BY <1>4

LEMMA AnswersOne ==
  ASSUME NEW key \in Keys PROVE Answers(<<key>>) = Reply(key)
<1>1. <<key>> = Append(<<>>, key) /\ <<>> \in Seq(Keys)
  OBVIOUS
<1>2. Answers(Append(<<>>, key)) = Answers(<<>>) \o Reply(key)
  BY <1>1, AnswersAppend, Zenon
<1>3. <<>> \o Reply(key) = Reply(key)
  BY ReplyType
<1> QED
  BY <1>1, <1>2, <1>3, AnswersEmpty, Zenon

-----------------------------------------------------------------------------
(* What is printed                                                         *)

(* What the client has received of the answers.                            *)
Got(c) == printed[c] \o receiving[c] \o s2c[c]

Partial(c) == \E rest \in Seq(Answer) : Got(c) \o rest = Answers(typed[c])

Whole(c) ==
  ServerEnd(c) /\ ClientEnd(c) =>
    Got(c) \o reply[c] \o Answers(c2s[c] \o sending[c]) = Answers(typed[c])

(* Where nothing is under way, and that ^A is the last thing sent.         *)
Tidy(c) ==
  /\ spc[c] # "write" => reply[c] = <<>>
  /\ c \in reset => ~ClientEnd(c) /\ cpc[c] # "connect"
  /\ cpc[c] = "connect" =>
       /\ typed[c] = <<>> /\ printed[c] = <<>>
       /\ sending[c] = <<>> /\ receiving[c] = <<>>
       /\ c2s[c] = <<>> /\ s2c[c] = <<>>
  /\ cpc[c] = "clean_up" => sending[c] = <<>>
  /\ cpc[c] \in Loop => \A i \in DOMAIN sending[c] : sending[c][i] # CTRL_A
  /\ \A i \in DOMAIN c2s[c] :
       c2s[c][i] = CTRL_A => i = Len(c2s[c]) /\ cpc[c] \notin Loop \cup {"ctrl_a"}

EchoInv(c) == Partial(c) /\ Whole(c) /\ Tidy(c)

LEMMA GotType ==
  ASSUME Typed, NEW c \in Clients
  PROVE  /\ Got(c) \in Seq(Answer) /\ printed[c] \in Seq(Answer)
         /\ receiving[c] \in Seq(Answer) /\ s2c[c] \in Seq(Answer)
         /\ reply[c] \in Seq(Answer) /\ typed[c] \in Seq(Keys)
         /\ c2s[c] \in Seq(Keys) /\ sending[c] \in Seq(Keys)
         /\ Answers(typed[c]) \in Seq(Answer)
         /\ Answers(c2s[c] \o sending[c]) \in Seq(Answer)
<1>1. /\ printed[c] \in Seq(Answer)
      /\ receiving[c] \in Seq(Answer) /\ s2c[c] \in Seq(Answer)
      /\ reply[c] \in Seq(Answer) /\ typed[c] \in Seq(Keys)
      /\ c2s[c] \in Seq(Keys) /\ sending[c] \in Seq(Keys)
  BY DEF Typed, ChildOK, NetOK, ClientOK
<1>2. Got(c) \in Seq(Answer) /\ c2s[c] \o sending[c] \in Seq(Keys)
  BY <1>1 DEF Got
<1> QED
  BY <1>1, <1>2, AnswersType, Zenon

LEMMA PrefixOfConcat ==
  ASSUME NEW S, NEW s \in Seq(S), NEW t \in Seq(S) PROVE IsPrefix(s, s \o t)
<1>1. Len(s) =< Len(s \o t) /\ Len(s) \in Nat
  OBVIOUS
<1>2. SubSeq(s, 1, Len(s)) = s
  OBVIOUS
<1>3. SubSeq(s \o t, 1, Len(s)) = s
  OBVIOUS
<1> QED
  BY <1>1, <1>2, <1>3 DEF IsPrefix

LEMMA InvIsInOrder ==
  Typed /\ (\A c \in Clients : EchoInv(c)) => EchoesInOrder
<1> SUFFICES ASSUME Typed, NEW c \in Clients, EchoInv(c)
             PROVE  /\ IsPrefix(printed[c], Answers(typed[c]))
                    /\ ServerEnd(c) /\ ClientEnd(c) =>
                         printed[c] \o receiving[c] \o s2c[c] \o reply[c]
                           \o Answers(c2s[c] \o sending[c]) = Answers(typed[c])
  BY DEF EchoesInOrder
<1>1. PICK rest \in Seq(Answer) : Got(c) \o rest = Answers(typed[c])
  BY DEF EchoInv, Partial
<1>2. /\ Got(c) \o rest = printed[c] \o (receiving[c] \o s2c[c] \o rest)
      /\ receiving[c] \o s2c[c] \o rest \in Seq(Answer)
  <2> DEFINE p == printed[c]
             r == receiving[c]
             n == s2c[c]
  <2>1. p \in Seq(Answer) /\ r \in Seq(Answer) /\ n \in Seq(Answer)
    BY GotType
  <2>2. Got(c) = p \o r \o n
    BY DEF Got
  <2>3. p \o r \o n \o rest = p \o (r \o n \o rest) /\ r \o n \o rest \in Seq(Answer)
    <3> HIDE DEF p, r, n
    <3> DEFINE w == r \o n
    <3>1. p \o r \o n = p \o w /\ w \in Seq(Answer)
      BY <2>1
    <3>2. p \o w \o rest = p \o (w \o rest) /\ w \o rest \in Seq(Answer)
      <4> HIDE DEF w
      <4> QED
        BY <2>1, <3>1
    <3> QED
      BY <3>1, <3>2, Zenon
  <2> QED
    BY <2>2, <2>3, Zenon
<1>3. IsPrefix(printed[c], Answers(typed[c]))
  BY <1>1, <1>2, GotType, PrefixOfConcat
<1> QED
  BY <1>3 DEF EchoInv, Whole, Got

LEMMA EchoInit == Init => \A c \in Clients : EchoInv(c)
<1> SUFFICES ASSUME Init, NEW c \in Clients PROVE EchoInv(c)
  OBVIOUS
<1>1. Tidy(c)
  BY DEF Init, Tidy, ClientEnd, Loop
<1>2. Whole(c)
  BY DEF Init, Whole, ClientEnd, Loop
<1>3. Got(c) \o <<>> = <<>> /\ Answers(typed[c]) = <<>> /\ <<>> \in Seq(Answer)
  BY AnswersEmpty DEF Init, Got
<1> QED
  BY <1>1, <1>2, <1>3 DEF EchoInv, Partial

(* What touches neither the ends of connection c nor what is under way.    *)
LEMMA SameEcho ==
  ASSUME NEW c, EchoInv(c), ServerEnd(c)' => ServerEnd(c),
         spc'[c] = spc[c], reply'[c] = reply[c], c2s'[c] = c2s[c],
         s2c'[c] = s2c[c], cpc'[c] = cpc[c], sending'[c] = sending[c],
         receiving'[c] = receiving[c], typed'[c] = typed[c],
         printed'[c] = printed[c], c \in reset' <=> c \in reset
  PROVE  EchoInv(c)'
<1>1. /\ Got(c)' = Got(c)
      /\ ClientEnd(c)' <=> ClientEnd(c)
      /\ Answers(typed[c])' = Answers(typed[c])
      /\ Answers(c2s[c] \o sending[c])' = Answers(c2s[c] \o sending[c])
  BY DEF Got, ClientEnd
<1>2. Partial(c)'
  BY <1>1 DEF EchoInv, Partial
<1>3. Whole(c)'
  BY <1>1 DEF EchoInv, Whole
<1>4. Tidy(c)'
  BY <1>1 DEF EchoInv, Tidy
<1> QED
  BY <1>2, <1>3, <1>4 DEF EchoInv

LEMMA SameServerEnd ==
  ASSUME NEW c, UNCHANGED <<accepted, backlog>>, spc'[c] = spc[c]
  PROVE  ServerEnd(c)' <=> ServerEnd(c)
  BY DEF ServerEnd, Contains

LEMMA SplitAt ==
  ASSUME NEW S, NEW s \in Seq(S), NEW n \in 0 .. Len(s)
  PROVE  /\ SubSeq(s, 1, n) \in Seq(S) /\ SubSeq(s, n + 1, Len(s)) \in Seq(S)
         /\ s = SubSeq(s, 1, n) \o SubSeq(s, n + 1, Len(s))
<1> DEFINE head == SubSeq(s, 1, n)
           tail == SubSeq(s, n + 1, Len(s))
<1>1. Len(s) \in Nat /\ n \in Nat /\ n =< Len(s)
  OBVIOUS
<1>2. head \in Seq(S) /\ Len(head) = n /\ \A i \in 1 .. n : head[i] = s[i]
  BY <1>1
<1>3. /\ tail \in Seq(S) /\ Len(tail) = Len(s) - n
      /\ \A i \in 1 .. Len(s) - n : tail[i] = s[i + n]
  BY <1>1
<1>4. head \o tail \in Seq(S) /\ Len(head \o tail) = Len(s)
  <2> HIDE DEF head, tail
  <2> QED
    BY <1>1, <1>2, <1>3
<1>5. ASSUME NEW i \in 1 .. Len(s) PROVE (head \o tail)[i] = s[i]
  <2> HIDE DEF head, tail
  <2>1. CASE i =< n
    <3>1. (head \o tail)[i] = head[i]
      BY <1>1, <1>2, <1>3, <2>1
    <3> QED
      BY <1>1, <1>2, <2>1, <3>1
  <2>2. CASE i > n
    <3>1. (head \o tail)[i] = tail[i - n] /\ i - n \in 1 .. Len(s) - n
      BY <1>1, <1>2, <1>3, <2>2
    <3> QED
      BY <1>1, <1>3, <3>1
  <2>3. i =< n \/ i > n
    BY <1>1
  <2> QED
    BY <2>1, <2>2, <2>3, Zenon
<1>6. head \o tail = s
  <2> DEFINE joined == head \o tail
  <2>1. /\ joined \in Seq(S) /\ Len(joined) = Len(s)
        /\ \A i \in 1 .. Len(joined) : joined[i] = s[i]
    BY <1>4, <1>5
  <2> HIDE DEF joined
  <2>2. joined = s
    BY <2>1, SeqEqual
  <2> QED
    BY <2>2 DEF joined
<1> QED
  BY <1>2, <1>3, <1>6

LEMMA KillEcho ==
  ASSUME Typed, NEW how \in {"killed", "failed"}, KillGroup(how),
         NEW c \in Clients, EchoInv(c)
  PROVE  EchoInv(c)'
<1>1. /\ spc'[c] \notin {"read", "write"} /\ accepted' = NoClient /\ backlog' = <<>>
      /\ reply'[c] = <<>> /\ c2s'[c] = <<>>
      /\ UNCHANGED <<reset, cpc, sending, receiving, typed, printed>>
  BY DEF KillGroup, clientVars
<1>2. ~ServerEnd(c)'
  BY <1>1, SampleEchoAssumption DEF ServerEnd, Contains
<1>3. PICK n \in 0 .. Len(s2c[c]) : s2c'[c] = SubSeq(s2c[c], 1, n)
  BY KillCuts
<1>t. s2c[c] \in Seq(Answer)
  BY DEF Typed, NetOK
<1>4. Partial(c)'
  <2> DEFINE head == printed[c] \o receiving[c]
             kept == SubSeq(s2c[c], 1, n)
             lost == SubSeq(s2c[c], n + 1, Len(s2c[c]))
  <2>1. /\ kept \in Seq(Answer) /\ lost \in Seq(Answer)
        /\ s2c[c] = kept \o lost
    BY <1>t, SplitAt
  <2>2. head \in Seq(Answer)
    BY DEF Typed, ClientOK
  <2>3. PICK rest \in Seq(Answer) : Got(c) \o rest = Answers(typed[c])
    BY DEF EchoInv, Partial
  <2>4. Got(c) = head \o s2c[c] /\ Got(c)' = head \o kept
    BY <1>1, <1>3 DEF Got
  <2>5. /\ lost \o rest \in Seq(Answer)
        /\ (head \o kept) \o (lost \o rest) = (head \o (kept \o lost)) \o rest
    <3> HIDE DEF head, kept, lost
    <3> QED
      BY <2>1, <2>2
  <2>6. Got(c)' \o (lost \o rest) = Answers(typed[c])'
    <3> HIDE DEF head, kept, lost
    <3>1. Answers(typed[c])' = Answers(typed[c])
      BY <1>1
    <3> QED
      BY <2>1, <2>3, <2>4, <2>5, <3>1, Zenon
  <2> QED
    BY <2>5, <2>6 DEF Partial
<1>5. Tidy(c)'
  <2>1. s2c[c] = <<>> => s2c'[c] = <<>>
    BY <1>3, <1>t
  <2> QED
    BY <1>1, <2>1 DEF EchoInv, Tidy, ClientEnd
<1> QED
  BY <1>2, <1>4, <1>5 DEF EchoInv, Whole

LEMMA ParentEcho ==
  ASSUME Typed, QueueInv, ParentStep, NEW c \in Clients, EchoInv(c)
  PROVE  EchoInv(c)'
<1>t. backlog \in Seq(Clients) /\ DOMAIN spc = Clients
  BY DEF Typed, NetOK, ChildOK
<1>1. UNCHANGED <<reply, c2s, s2c, reset, cpc, sending, receiving, typed, printed>>
  BY DEF ParentStep, Reap, ReapDone, Accept, Fork, Count, childVars, netVars,
     clientVars
<1>2. CASE Fork /\ c = accepted
  <2>1. /\ ServerEnd(c) /\ spc[c] = "none" /\ spc'[c] = "read"
    BY <1>t, <1>2 DEF Fork, QueueInv, ServerEnd
  <2>2. Partial(c)'
    BY <1>1 DEF EchoInv, Partial, Got
  <2>3. Whole(c)'
    BY <1>1, <2>1 DEF EchoInv, Whole, Got, ClientEnd
  <2>4. Tidy(c)'
    BY <1>1, <2>1 DEF EchoInv, Tidy, ClientEnd
  <2> QED
    BY <2>2, <2>3, <2>4 DEF EchoInv
<1>3. CASE Accept
  <2>1. /\ spc'[c] = spc[c] /\ accepted' = Head(backlog)
        /\ backlog' = Tail(backlog) /\ backlog # <<>>
    BY <1>3 DEF Accept, childVars
  <2>2. /\ Len(backlog) \in Nat \ {0} /\ Head(backlog) = backlog[1]
        /\ \A i \in 1 .. Len(Tail(backlog)) :
             Tail(backlog)[i] = backlog[i + 1] /\ i + 1 \in 1 .. Len(backlog)
    BY <1>t, <2>1
  <2>3. ServerEnd(c)' => ServerEnd(c)
    BY <2>1, <2>2 DEF ServerEnd, Contains
  <2> QED
    BY <1>1, <2>1, <2>3, SameEcho
<1>4. CASE Reap \/ ReapDone \/ Count \/ (Fork /\ c # accepted)
  <2>1. /\ spc'[c] = spc[c] /\ UNCHANGED backlog
        /\ accepted' = accepted \/ accepted' = NoClient
    BY <1>t, <1>4 DEF Reap, ReapDone, Count, Fork, childVars, netVars
  <2>2. ServerEnd(c)' => ServerEnd(c)
    BY <2>1, SampleEchoAssumption DEF ServerEnd, Contains
  <2> QED
    BY <1>1, <2>1, <2>2, SameEcho
<1> QED
  BY <1>2, <1>3, <1>4 DEF ParentStep

(* The server may close its end of connection c, and what is under way may *)
(* change as long as the client has sent everything.                       *)
LEMMA StillPartial ==
  ASSUME NEW c, Partial(c),
         UNCHANGED <<printed[c], receiving[c], s2c[c], typed[c]>>
  PROVE  Partial(c)'
  BY DEF Partial, Got

(* A child passes on answers in the order of the keys it reads.            *)
LEMMA ChildEcho ==
  ASSUME Typed, QueueInv, NEW c \in Clients, EchoInv(c), ChildStep(c), ~ReadFails(c)
  PROVE  EchoInv(c)'
<1>t. /\ c2s[c] \in Seq(Keys) /\ c \in DOMAIN spc /\ c \in DOMAIN reply
      /\ c \in DOMAIN c2s /\ c \in DOMAIN s2c
  BY DEF Typed, NetOK, ChildOK
<1>1. /\ spc[c] \in {"read", "write"}
      /\ UNCHANGED <<backlog, accepted, cpc, sending, receiving, typed, printed>>
  BY ChildMoves DEF parentVars, clientVars
<1>2. ServerEnd(c) /\ cpc[c] # "connect"
  BY <1>1 DEF ServerEnd, QueueInv
<1>3. ClientEnd(c)' <=> ClientEnd(c)
  BY <1>1 DEF ClientEnd
<1>4. CASE ReadKey(c)
  <2>1. /\ spc[c] = "read" /\ c2s[c] # <<>> /\ UNCHANGED <<s2c, reset>>
        /\ reply[c] = <<>>
    BY <1>4 DEF ReadKey, EchoInv, Tidy
  <2>2. Partial(c)'
    BY <1>1, <2>1, StillPartial DEF EchoInv
  <2> DEFINE k == Head(c2s[c])
             rest == Tail(c2s[c])
  <2>3. /\ k \in Keys /\ rest \in Seq(Keys) /\ c2s[c] = <<k>> \o rest
        /\ sending[c] \in Seq(Keys)
    <3>1. sending[c] \in Seq(Keys)
      BY DEF Typed, ClientOK
    <3> QED
      BY <1>t, <2>1, <3>1
  <2>4. CASE k = CTRL_A
    <3>1. spc'[c] = "exited" /\ reply'[c] = <<>> /\ c2s'[c] = <<>>
      BY <1>t, <1>4, <2>4 DEF ReadKey, ChildTurns
    <3>2. Tidy(c)'
      BY <1>1, <1>3, <2>1, <3>1 DEF EchoInv, Tidy
    <3>3. 1 \in DOMAIN c2s[c] /\ c2s[c][1] = CTRL_A
      BY <1>t, <2>1, <2>4
    <3>4. Len(c2s[c]) = 1 /\ cpc[c] \notin Loop \cup {"ctrl_a"}
      BY <3>3 DEF EchoInv, Tidy
    <3>5. c2s[c] = <<CTRL_A>>
      BY <1>t, <3>3, <3>4
    <3>6. ASSUME ClientEnd(c)
          PROVE  /\ sending[c] = <<>>
                 /\ Got(c) \o reply[c] \o Answers(c2s[c] \o sending[c])
                      = Answers(typed[c])
      BY <1>2, <3>4, <3>6 DEF EchoInv, Tidy, Whole, ClientEnd
    <3>7. Answers(<<CTRL_A>> \o <<>>) = <<>>
      <4>1. <<CTRL_A>> \o <<>> = <<CTRL_A>> /\ CTRL_A \in Keys
        BY SampleEchoAssumption
      <4>2. Reply(CTRL_A) = <<>>
        BY DEF Reply
      <4> QED
        BY <4>1, <4>2, AnswersOne, Zenon
    <3>8. <<>> \o <<>> = <<>>
      OBVIOUS
    <3>9. Whole(c)'
      <4>1. Got(c)' = Got(c)
        BY <1>1, <2>1 DEF Got
      <4>2. ASSUME ClientEnd(c)
            PROVE  Got(c) \o <<>> \o Answers(<<>> \o <<>>) = Answers(typed[c])
        <5>1. Got(c) \o <<>> \o Answers(<<CTRL_A>> \o <<>>) = Answers(typed[c])
          BY <2>1, <3>5, <3>6, <4>2, Zenon
        <5> QED
          BY <3>7, <3>8, <5>1, AnswersEmpty, Zenon
      <4> QED
        BY <1>1, <1>3, <3>1, <3>6, <4>1, <4>2 DEF Whole
    <3> QED
      BY <2>2, <3>2, <3>9 DEF EchoInv
  <2>5. CASE k # CTRL_A
    <3>1. spc'[c] = "write" /\ reply'[c] = Reply(k) /\ c2s'[c] = rest
      BY <1>t, <1>4, <2>5 DEF ReadKey
    <3>2. Tidy(c)'
      <4>1. \A i \in DOMAIN rest :
               i + 1 \in DOMAIN c2s[c] /\ rest[i] = c2s[c][i + 1]
               /\ (i + 1 = Len(c2s[c]) => i = Len(rest))
        <5>1. /\ Len(c2s[c]) \in Nat /\ Len(c2s[c]) # 0 /\ Len(rest) = Len(c2s[c]) - 1
              /\ DOMAIN c2s[c] = 1 .. Len(c2s[c]) /\ DOMAIN rest = 1 .. Len(rest)
          BY <1>t, <2>1
        <5>2. \A i \in 1 .. Len(rest) : rest[i] = c2s[c][i + 1]
          BY <1>t, <2>1
        <5> HIDE DEF rest
        <5> QED
          BY <5>1, <5>2
      <4>2. \A i \in DOMAIN rest :
               rest[i] = CTRL_A => i = Len(rest) /\ cpc[c] \notin Loop \cup {"ctrl_a"}
        BY <4>1 DEF EchoInv, Tidy
      <4> HIDE DEF rest, k
      <4> QED
        BY <1>1, <1>2, <1>3, <2>1, <3>1, <4>2 DEF EchoInv, Tidy
    <3>3. Answers(c2s[c] \o sending[c]) = Reply(k) \o Answers(rest \o sending[c])
      <4> HIDE DEF rest, k
      <4>1. /\ c2s[c] \o sending[c] = <<k>> \o (rest \o sending[c])
            /\ <<k>> \in Seq(Keys) /\ rest \o sending[c] \in Seq(Keys)
        <5> DEFINE snd == sending[c]
        <5>1. k \in Keys /\ rest \in Seq(Keys) /\ snd \in Seq(Keys)
          BY <2>3
        <5>2. c2s[c] \o snd = (<<k>> \o rest) \o snd
          BY <2>3
        <5> HIDE DEF snd
        <5>3. (<<k>> \o rest) \o snd = <<k>> \o (rest \o snd)
          BY <5>1
        <5>4. <<k>> \in Seq(Keys) /\ rest \o snd \in Seq(Keys)
          BY <5>1
        <5> QED
          BY <5>2, <5>3, <5>4 DEF snd
      <4>2. Answers(<<k>> \o (rest \o sending[c]))
              = Answers(<<k>>) \o Answers(rest \o sending[c])
        BY <4>1, AnswersConcat, Zenon
      <4> QED
        BY <2>3, <4>1, <4>2, AnswersOne, Zenon
    <3>4. ASSUME ClientEnd(c)
          PROVE  Got(c) \o Reply(k) \o Answers(rest \o sending[c]) = Answers(typed[c])
      <4> DEFINE g == Got(c)
                 r == Reply(k)
                 x == Answers(rest \o sending[c])
      <4>1. g \o <<>> \o (r \o x) = Answers(typed[c])
        BY <1>2, <2>1, <3>3, <3>4 DEF EchoInv, Whole
      <4>2. g \in Seq(Answer) /\ r \in Seq(Answer) /\ x \in Seq(Answer)
        <5>1. rest \o sending[c] \in Seq(Keys)
          <6> HIDE DEF rest
          <6> QED
            BY <2>3
        <5> HIDE DEF k, rest
        <5> QED
          BY <2>3, <5>1, GotType, ReplyType, AnswersType, Zenon
      <4> HIDE DEF g, r, x
      <4>3. g \o <<>> \o (r \o x) = g \o r \o x
        BY <4>2
      <4>4. g \o r \o x = Answers(typed[c])
        BY <4>1, <4>3, Zenon
      <4> QED
        BY <4>4 DEF g, r, x
    <3>5. Whole(c)'
      <4>1. Got(c)' = Got(c)
        BY <1>1, <2>1 DEF Got
      <4> HIDE DEF rest, k
      <4> QED
        BY <1>1, <1>3, <3>1, <3>4, <4>1 DEF Whole
    <3> QED
      BY <2>2, <3>2, <3>5 DEF EchoInv
  <2> QED
    BY <2>4, <2>5
<1>5. CASE WriteReply(c)
  <2>1. /\ reply[c] # <<>> /\ UNCHANGED <<c2s, reset>> /\ ClientEnd(c)
        /\ s2c'[c] = Append(s2c[c], Head(reply[c])) /\ spc[c] = "write"
    BY <1>t, <1>5 DEF WriteReply
  <2>2. reply[c] \in Seq(Answer) /\ s2c[c] \in Seq(Answer)
    BY GotType
  <2>3. reply'[c] = Tail(reply[c]) /\ (spc'[c] # "write" => Tail(reply[c]) = <<>>)
    <3>1. CASE Len(reply[c]) = 1
      <4>1. reply'[c] = <<>>
        BY <1>t, <1>5, <3>1 DEF WriteReply, ChildTurns
      <4>2. Tail(reply[c]) = <<>>
        <5>1. Tail(reply[c]) \in Seq(Answer) /\ Len(Tail(reply[c])) = 0
          BY <2>1, <2>2, <3>1
        <5> QED
          BY <5>1, EmptySeq
      <4> QED
        BY <4>1, <4>2
    <3>2. CASE Len(reply[c]) # 1
      BY <1>t, <1>5, <3>2 DEF WriteReply
    <3> QED
      BY <3>1, <3>2
  <2>4. Got(c)' \o reply'[c] = Got(c) \o reply[c]
    <3> DEFINE p == printed[c] \o receiving[c]
               n == s2c[c]
               r == reply[c]
    <3>1. p \in Seq(Answer) /\ n \in Seq(Answer) /\ r \in Seq(Answer) /\ r # <<>>
      BY <2>1, GotType
    <3>2. Got(c)' = p \o Append(n, Head(r)) /\ Got(c) = p \o n
      BY <1>1, <2>1 DEF Got
    <3> HIDE DEF p, n, r
    <3>3. (p \o Append(n, Head(r))) \o Tail(r) = (p \o n) \o r
      <4> DEFINE q == p \o n
      <4>1. p \o Append(n, Head(r)) = Append(q, Head(r)) /\ q \in Seq(Answer)
        BY <3>1
      <4>2. Append(q, Head(r)) \o Tail(r) = q \o r
        <5> HIDE DEF q
        <5> QED
          BY <3>1, <4>1
      <4> QED
        BY <4>1, <4>2, Zenon
    <3> QED
      BY <2>3, <3>2, <3>3 DEF r
  <2>5. Got(c) \o reply[c] \o Answers(c2s[c] \o sending[c]) = Answers(typed[c])
    BY <1>2, <2>1 DEF EchoInv, Whole
  <2>6. Whole(c)'
    BY <1>1, <2>1, <2>4, <2>5 DEF Whole
  <2>7. Partial(c)'
    <3> DEFINE g == Got(c)'
               r == Tail(reply[c])
               x == Answers(c2s[c] \o sending[c])
    <3>1. g \o r \o x = Answers(typed[c])
      BY <2>3, <2>4, <2>5
    <3>2. r \in Seq(Answer) /\ x \in Seq(Answer)
      BY <2>1, <2>2, GotType
    <3>3. g \in Seq(Answer)
      BY <1>1, <2>1, <2>2, GotType DEF Got
    <3> HIDE DEF g, r, x
    <3>4. g \o r \o x = g \o (r \o x) /\ r \o x \in Seq(Answer)
      BY <3>2, <3>3
    <3>5. Answers(typed[c])' = Answers(typed[c]) /\ Seq(Answer)' = Seq(Answer)
      BY <1>1
    <3> QED
      BY <3>1, <3>4, <3>5 DEF Partial, g
  <2>8. Tidy(c)'
    BY <1>1, <1>2, <1>3, <2>1, <2>3 DEF EchoInv, Tidy
  <2> QED
    BY <2>6, <2>7, <2>8 DEF EchoInv
<1>6. CASE WriteNothing(c)
  <2>1. /\ UNCHANGED <<c2s, s2c, reset>> /\ reply[c] = <<>> /\ reply'[c] = <<>>
    BY <1>t, <1>6 DEF WriteNothing, ChildTurns, netVars
  <2>2. Partial(c)'
    BY <1>1, <2>1, StillPartial DEF EchoInv
  <2>3. Whole(c)'
    BY <1>1, <1>2, <1>3, <2>1 DEF EchoInv, Whole, Got
  <2>4. Tidy(c)'
    BY <1>1, <1>3, <2>1 DEF EchoInv, Tidy
  <2> QED
    BY <2>2, <2>3, <2>4 DEF EchoInv
<1>7. CASE WriteToClosed(c) \/ WriteToReset(c)
  <2>1. /\ ~ClientEnd(c) /\ reply'[c] = <<>> /\ UNCHANGED s2c
        /\ reset' \subseteq reset \cup {c}
    BY <1>t, <1>7 DEF WriteToClosed, WriteToReset, ChildTurns, Reset, EchoInv, Tidy
  <2>2. Partial(c)'
    BY <1>1, <2>1, StillPartial DEF EchoInv
  <2>3. Whole(c)'
    BY <1>3, <2>1 DEF Whole
  <2>4. PICK n \in 0 .. Len(c2s[c]) : c2s'[c] = SubSeq(c2s[c], 1, n)
    <3>1. CASE WriteToClosed(c)
      <4>1. CASE Reset(c)
        BY <1>t, <4>1 DEF Reset
      <4>2. CASE ~Reset(c)
        <5>1. c2s'[c] = c2s[c] /\ SubSeq(c2s[c], 1, Len(c2s[c])) = c2s[c]
              /\ Len(c2s[c]) \in 0 .. Len(c2s[c])
          BY <1>t, <3>1, <4>2 DEF WriteToClosed
        <5> QED
          BY <5>1
      <4> QED
        BY <4>1, <4>2
    <3>2. CASE WriteToReset(c)
      <4>1. c2s'[c] = c2s[c] \/ c2s'[c] = <<>>
        BY <1>t, <3>2 DEF WriteToReset
      <4>2. /\ SubSeq(c2s[c], 1, Len(c2s[c])) = c2s[c] /\ SubSeq(c2s[c], 1, 0) = <<>>
            /\ Len(c2s[c]) \in 0 .. Len(c2s[c]) /\ 0 \in 0 .. Len(c2s[c])
        BY <1>t
      <4> QED
        BY <4>1, <4>2
    <3> QED
      BY <1>7, <3>1, <3>2
  <2>5. Tidy(c)'
    <3>1. \A i \in DOMAIN c2s'[c] :
             /\ i \in DOMAIN c2s[c] /\ c2s'[c][i] = c2s[c][i]
             /\ i = Len(c2s[c]) => i = Len(c2s'[c])
      BY <1>t, <2>4
    <3>2. \A i \in DOMAIN c2s'[c] :
            c2s'[c][i] = CTRL_A => i = Len(c2s'[c]) /\ cpc[c] \notin Loop \cup {"ctrl_a"}
      BY <3>1 DEF EchoInv, Tidy
    <3> QED
      BY <1>1, <1>2, <1>3, <2>1, <3>2 DEF EchoInv, Tidy
  <2> QED
    BY <2>2, <2>3, <2>5 DEF EchoInv
<1> QED
  BY <1>4, <1>5, <1>6, <1>7 DEF ChildStep

(* A client hands on the keys and the characters in their order.           *)
LEMMA ClientEcho ==
  ASSUME Typed, QueueInv, NEW c \in Clients, ConnInv(c), EchoInv(c),
         ClientStep(c) \/ TypeKey(c) \/ ClientKilled(c)
  PROVE  EchoInv(c)'
<1>t. /\ c2s[c] \in Seq(Keys) /\ sending[c] \in Seq(Keys) /\ typed[c] \in Seq(Keys)
      /\ c \in DOMAIN cpc /\ c \in DOMAIN c2s /\ c \in DOMAIN s2c
      /\ c \in DOMAIN sending /\ c \in DOMAIN receiving
      /\ c \in DOMAIN typed /\ c \in DOMAIN printed
  BY DEF Typed, NetOK, ClientOK
<1>1. CASE Connect(c)
  <2>1. /\ UNCHANGED <<spc, reply, c2s, s2c, reset, sending, receiving, typed, printed>>
        /\ cpc[c] = "connect" /\ cpc'[c] = "stdin"
    BY <1>t, <1>1 DEF Connect, Goto, childVars
  <2>2. /\ typed[c] = <<>> /\ printed[c] = <<>> /\ sending[c] = <<>>
        /\ receiving[c] = <<>> /\ c2s[c] = <<>> /\ s2c[c] = <<>> /\ reply[c] = <<>>
        /\ c \notin reset /\ spc[c] = "none"
    BY <2>1 DEF EchoInv, Tidy, QueueInv
  <2>3. Partial(c)'
    BY <2>1, StillPartial DEF EchoInv
  <2>4. Whole(c)'
    <3>1. <<>> \o <<>> = <<>>
      OBVIOUS
    <3>2. Answers(<<>> \o <<>>) = <<>>
      BY <3>1, AnswersEmpty, Zenon
    <3> QED
      BY <2>1, <2>2, <3>1, <3>2, AnswersEmpty DEF Whole, Got
  <2>5. Tidy(c)'
    BY <2>1, <2>2 DEF Tidy
  <2> QED
    BY <2>3, <2>4, <2>5 DEF EchoInv
<1>2. CASE ~Connect(c)
  <2>0. UNCHANGED <<accepted, backlog, spc, reply>>
    BY <1>2, ClientMoves DEF parentVars, childVars
  <2>e. ServerEnd(c)' <=> ServerEnd(c)
    BY <2>0, SameServerEnd
  <2>1. CASE \/ ConnectRefused(c) \/ NoKey(c) \/ NoSend(c) \/ Sigpipe(c)
             \/ NoRecv(c) \/ NoPrint(c)
    <3>1. UNCHANGED <<c2s, s2c, reset, sending, receiving, typed, printed>>
      BY <2>1 DEF ConnectRefused, NoKey, NoSend, Sigpipe, NoRecv, NoPrint, netVars
    <3>2. \/ cpc[c] \in Loop /\ cpc'[c] \in Loop
          \/ cpc'[c] \in {"closed", "broken"}
      BY <1>t, <2>1 DEF ConnectRefused, NoKey, NoSend, Sigpipe, NoRecv, NoPrint,
         Goto, Loop
    <3>3. Partial(c)'
      BY <3>1, StillPartial DEF EchoInv
    <3>4. Whole(c)'
      BY <2>0, <2>e, <3>1, <3>2 DEF EchoInv, Whole, Got, ClientEnd, Loop
    <3>5. Tidy(c)'
      BY <2>0, <3>1, <3>2 DEF EchoInv, Tidy, ClientEnd, Loop
    <3> QED
      BY <3>3, <3>4, <3>5 DEF EchoInv
  <2>2. CASE TypeKey(c)
    <3>1. PICK key \in Keys :
            /\ typed'[c] = Append(typed[c], key) /\ sending'[c] = <<key>>
            /\ cpc'[c] = IF key = CTRL_A THEN "ctrl_a" ELSE "send"
      BY <1>t, <2>2 DEF TypeKey, Goto
    <3>2. /\ UNCHANGED <<c2s, s2c, reset, receiving, printed>>
          /\ cpc[c] = "stdin" /\ sending[c] = <<>>
      BY <2>2 DEF TypeKey, netVars
    <3>3. Answers(Append(typed[c], key)) = Answers(typed[c]) \o Reply(key)
      BY <1>t, AnswersAppend, Zenon
    <3>4. Got(c)' = Got(c) /\ Seq(Answer)' = Seq(Answer)
      BY <3>2 DEF Got
    <3> DEFINE g == Got(c)
               a == Answers(typed[c])
               r == Reply(key)
    <3>5. g \in Seq(Answer) /\ a \in Seq(Answer) /\ r \in Seq(Answer)
      BY GotType, ReplyType, Zenon
    <3>6. Partial(c)'
      <4>1. PICK rest \in Seq(Answer) : g \o rest = a
        BY DEF EchoInv, Partial
      <4> HIDE DEF g, a, r
      <4>2. g \o (rest \o r) = (g \o rest) \o r /\ rest \o r \in Seq(Answer)
        BY <3>5
      <4>3. \E s \in Seq(Answer) : g \o s = a \o r
        BY <4>1, <4>2
      <4>4. Answers(typed'[c]) = a \o r
        BY <3>1, <3>3, Zenon DEF a, r
      <4> QED
        BY <3>4, <4>3, <4>4 DEF Partial, g
    <3>7. Whole(c)'
      <4>1. SUFFICES ASSUME ServerEnd(c)
                     PROVE  g \o reply[c] \o Answers(c2s[c] \o <<key>>) = a \o r
        <5>1. Answers(typed'[c]) = a \o r
          BY <3>1, <3>3, Zenon
        <5> HIDE DEF a, r
        <5> QED
          BY <2>0, <2>e, <3>1, <3>2, <3>4, <5>1 DEF Whole
      <4> DEFINE w == reply[c]
                 x == Answers(c2s[c])
      <4>2. g \o w \o x = a
        <5>1. c2s[c] \o <<>> = c2s[c]
          BY <1>t
        <5>2. g \o w \o Answers(c2s[c] \o <<>>) = a
          BY <3>2, <4>1 DEF EchoInv, Whole, ClientEnd, Loop
        <5> QED
          BY <5>1, <5>2, Zenon
      <4>3. Answers(c2s[c] \o <<key>>) = x \o r
        <5>1. <<key>> \in Seq(Keys)
          OBVIOUS
        <5> QED
          BY <1>t, <5>1, AnswersConcat, AnswersOne, Zenon
      <4>4. w \in Seq(Answer) /\ x \in Seq(Answer)
        BY <1>t, GotType, AnswersType, Zenon
      <4> HIDE DEF g, a, r, w, x
      <4>5. g \o w \o (x \o r) = (g \o w \o x) \o r
        BY <3>5, <4>4
      <4>6. g \o w \o (x \o r) = a \o r
        BY <4>2, <4>5, Zenon
      <4> QED
        BY <4>3, <4>6, Zenon DEF w
    <3>8. Tidy(c)'
      <4>1. \A i \in DOMAIN c2s[c] : c2s[c][i] # CTRL_A
        BY <3>2 DEF EchoInv, Tidy, Loop
      <4>2. key # CTRL_A => \A i \in DOMAIN sending'[c] : sending'[c][i] # CTRL_A
        BY <3>1
      <4> QED
        BY <2>0, <3>1, <3>2, <4>1, <4>2 DEF EchoInv, Tidy, ClientEnd, Loop
    <3> QED
      BY <3>6, <3>7, <3>8 DEF EchoInv
  <2>3. CASE SendKey(c) \/ SendCtrlA(c)
    <3>1. /\ UNCHANGED <<s2c, reset, receiving, typed, printed>>
          /\ sending'[c] = <<>> /\ Written(c)
          /\ \/ cpc[c] = "send" /\ cpc'[c] = "recv"
             \/ cpc[c] = "ctrl_a" /\ cpc'[c] = "clean_up"
      BY <1>t, <2>3 DEF SendKey, SendCtrlA, Goto
    <3>2. /\ ServerEnd(c) => c2s'[c] = c2s[c] \o sending[c]
          /\ ~ServerEnd(c) => c2s'[c] = c2s[c]
      BY <1>t, <3>1 DEF Written
    <3>3. Partial(c)'
      BY <3>1, StillPartial DEF EchoInv
    <3>4. Whole(c)'
      <4>1. (c2s[c] \o sending[c]) \o <<>> = c2s[c] \o sending[c]
        BY <1>t
      <4>2. SUFFICES ASSUME ServerEnd(c)
                     PROVE  Got(c) \o reply[c] \o Answers(c2s'[c] \o sending'[c])
                              = Answers(typed[c])
        BY <2>0, <2>e, <3>1 DEF Whole, Got
      <4>3. c2s'[c] \o sending'[c] = c2s[c] \o sending[c]
        BY <3>1, <3>2, <4>1, <4>2, Zenon
      <4>4. Got(c) \o reply[c] \o Answers(c2s[c] \o sending[c]) = Answers(typed[c])
        BY <3>1, <4>2 DEF EchoInv, Whole, ClientEnd, Loop
      <4> QED
        BY <4>3, <4>4, Zenon
    <3>5. Tidy(c)'
      <4>1. \A i \in DOMAIN c2s[c] : c2s[c][i] # CTRL_A
        BY <3>1 DEF EchoInv, Tidy, Loop
      <4>2. CASE cpc[c] = "send" /\ cpc'[c] = "recv"
        <5>1. \A i \in DOMAIN sending[c] : sending[c][i] # CTRL_A
          BY <4>2 DEF EchoInv, Tidy, Loop
        <5>2. \A i \in DOMAIN (c2s[c] \o sending[c]) :
                 (c2s[c] \o sending[c])[i] # CTRL_A
          BY <1>t, <4>1, <5>1
        <5>3. \A i \in DOMAIN c2s'[c] : c2s'[c][i] # CTRL_A
          BY <3>2, <4>1, <5>2, Zenon
        <5> QED
          BY <2>0, <3>1, <4>2, <5>3 DEF EchoInv, Tidy, ClientEnd, Loop
      <4>3. CASE cpc[c] = "ctrl_a" /\ cpc'[c] = "clean_up"
        <5>1. sending[c] = <<CTRL_A>>
          BY <4>3 DEF ConnInv
        <5>2. /\ DOMAIN (c2s[c] \o <<CTRL_A>>) = 1 .. Len(c2s[c]) + 1
              /\ Len(c2s[c] \o <<CTRL_A>>) = Len(c2s[c]) + 1 /\ Len(c2s[c]) \in Nat
              /\ DOMAIN c2s[c] = 1 .. Len(c2s[c])
              /\ \A i \in 1 .. Len(c2s[c]) : (c2s[c] \o <<CTRL_A>>)[i] = c2s[c][i]
          BY <1>t, SampleEchoAssumption
        <5>3. \A i \in DOMAIN (c2s[c] \o <<CTRL_A>>) :
                 (c2s[c] \o <<CTRL_A>>)[i] = CTRL_A => i = Len(c2s[c] \o <<CTRL_A>>)
          BY <4>1, <5>2
        <5>4. \A i \in DOMAIN c2s'[c] : c2s'[c][i] = CTRL_A => i = Len(c2s'[c])
          BY <3>2, <4>1, <5>1, <5>3, Zenon
        <5> QED
          BY <2>0, <3>1, <4>3, <5>4 DEF EchoInv, Tidy, ClientEnd, Loop
      <4> QED
        BY <3>1, <4>2, <4>3
    <3> QED
      BY <3>3, <3>4, <3>5 DEF EchoInv
  <2>4. CASE RecvChar(c) \/ PrintChar(c)
    <3>1. /\ UNCHANGED <<c2s, reset, sending, typed>>
          /\ cpc[c] \in Loop /\ cpc'[c] \in Loop
      BY <1>t, <2>4 DEF RecvChar, PrintChar, Goto, Loop, netVars
    <3>2. Got(c)' = Got(c)
      <4> DEFINE p == printed[c]
                 r == receiving[c]
                 n == s2c[c]
      <4>1. p \in Seq(Answer) /\ r \in Seq(Answer) /\ n \in Seq(Answer)
        BY GotType
      <4>2. Got(c) = p \o r \o n
        BY DEF Got
      <4>3. CASE RecvChar(c)
        <5>1. /\ r = <<>> /\ n # <<>> /\ UNCHANGED printed
              /\ receiving'[c] = <<Head(n)>> /\ s2c'[c] = Tail(n)
          BY <1>t, <4>3 DEF RecvChar
        <5>2. Got(c)' = p \o <<Head(n)>> \o Tail(n)
          BY <5>1 DEF Got
        <5> HIDE DEF p, r, n
        <5>3. p \o <<Head(n)>> \o Tail(n) = p \o <<>> \o n
          BY <4>1, <5>1
        <5> QED
          BY <4>2, <5>1, <5>2, <5>3, Zenon
      <4>4. CASE PrintChar(c)
        <5>1. printed'[c] = p \o r /\ receiving'[c] = <<>> /\ UNCHANGED s2c
          BY <1>t, <4>4 DEF PrintChar, netVars
        <5>2. Got(c)' = (p \o r) \o <<>> \o n
          BY <5>1 DEF Got
        <5> HIDE DEF p, r, n
        <5>3. (p \o r) \o <<>> \o n = p \o r \o n
          BY <4>1
        <5> QED
          BY <4>2, <5>2, <5>3, Zenon
      <4> QED
        BY <2>4, <4>3, <4>4
    <3>3. Partial(c)'
      BY <3>1, <3>2 DEF EchoInv, Partial
    <3>4. Whole(c)'
      BY <2>0, <2>e, <3>1, <3>2 DEF EchoInv, Whole, ClientEnd
    <3>5. Tidy(c)'
      BY <2>0, <3>1 DEF EchoInv, Tidy, ClientEnd, Loop
    <3> QED
      BY <3>3, <3>4, <3>5 DEF EchoInv
  <2>5. CASE CleanUp(c) \/ ClientKilled(c)
    <3>1. PICK how \in {"closed", "killed"} : Closes(c, how)
      BY <2>5 DEF CleanUp, ClientKilled
    <3>2. /\ UNCHANGED <<typed, printed>> /\ cpc'[c] \in {"closed", "killed"}
          /\ s2c'[c] = <<>> /\ receiving'[c] = <<>>
          /\ c2s'[c] = c2s[c] \/ \E n \in 0 .. Len(c2s[c]) :
                                    c2s'[c] = SubSeq(c2s[c], 1, n)
      BY <1>t, <3>1 DEF Closes, Goto, Reset
    <3>3. ~ClientEnd(c)'
      BY <3>2 DEF ClientEnd, Loop
    <3>4. Partial(c)'
      <4>1. PICK rest \in Seq(Answer) : Got(c) \o rest = Answers(typed[c])
        BY DEF EchoInv, Partial
      <4> DEFINE p == printed[c]
                 r == receiving[c]
                 n == s2c[c]
      <4>2. p \in Seq(Answer) /\ r \in Seq(Answer) /\ n \in Seq(Answer)
        BY GotType
      <4>3. Got(c) = p \o r \o n /\ Got(c)' = p \o <<>> \o <<>>
        BY <3>2 DEF Got
      <4> HIDE DEF p, r, n
      <4>4. /\ p \o <<>> \o <<>> \o (r \o n \o rest) = p \o r \o n \o rest
            /\ r \o n \o rest \in Seq(Answer)
        BY <4>2
      <4>5. Got(c)' \o (r \o n \o rest) = Answers(typed[c])
        BY <4>1, <4>3, <4>4, Zenon
      <4>6. Answers(typed[c])' = Answers(typed[c]) /\ Seq(Answer)' = Seq(Answer)
        BY <3>2
      <4> QED
        BY <4>4, <4>5, <4>6 DEF Partial
    <3>5. Tidy(c)'
      <4>1. \A i \in DOMAIN c2s'[c] :
               /\ i \in DOMAIN c2s[c] /\ c2s'[c][i] = c2s[c][i]
               /\ i = Len(c2s[c]) => i = Len(c2s'[c])
        BY <1>t, <3>2
      <4>2. \A i \in DOMAIN c2s'[c] : c2s'[c][i] = CTRL_A => i = Len(c2s'[c])
        BY <4>1 DEF EchoInv, Tidy
      <4> QED
        BY <2>0, <3>2, <3>3, <4>2 DEF EchoInv, Tidy, Loop
    <3> QED
      BY <3>3, <3>4, <3>5 DEF EchoInv, Whole
  <2> QED
    BY <1>2, <2>1, <2>2, <2>3, <2>4, <2>5 DEF ClientStep
<1> QED
  BY <1>1, <1>2

LEMMA EchoStep ==
  ASSUME Typed, KillInv, \A c \in Clients : EchoInv(c), Next, NEW c \in Clients
  PROVE  EchoInv(c)'
<1> USE DEF KillInv
<1>1. CASE ParentStep
  BY <1>1, ParentEcho
<1>2. CASE AcceptFails \/ ForkFails
  BY <1>2, KillEcho DEF AcceptFails, ForkFails
<1>3. CASE Idle
  <2>1. UNCHANGED <<accepted, backlog, spc, reply, c2s, s2c, reset, cpc, sending,
                    receiving, typed, printed>>
    BY <1>3 DEF Idle, vars, parentVars, childVars, netVars, clientVars
  <2> QED
    BY <2>1, SameServerEnd, SameEcho
<1>4. ASSUME NEW d \in Clients, ChildStep(d) PROVE EchoInv(c)'
  <2>1. CASE ReadFails(d)
    BY <2>1, KillEcho DEF ReadFails
  <2>2. CASE ~ReadFails(d) /\ c = d
    BY <1>4, <2>2, ChildEcho
  <2>3. CASE ~ReadFails(d) /\ c # d
    <3>1. /\ UNCHANGED <<accepted, backlog, cpc, sending, receiving, typed, printed>>
          /\ spc'[c] = spc[c] /\ reply'[c] = reply[c] /\ c2s'[c] = c2s[c]
          /\ s2c'[c] = s2c[c]
          /\ c \in reset' <=> c \in reset
      BY <1>4, <2>3, ChildMoves DEF parentVars, clientVars
    <3> QED
      BY <3>1, SameServerEnd, SameEcho
  <2> QED
    BY <2>1, <2>2, <2>3
<1>5. ASSUME NEW d \in Clients, ClientStep(d) \/ TypeKey(d) \/ ClientKilled(d)
      PROVE  EchoInv(c)'
  <2>1. CASE c = d
    BY <1>5, <2>1, ClientEcho
  <2>2. CASE c # d /\ Connect(d)
    <3>1. /\ backlog' = Append(backlog, d) /\ backlog \in Seq(Clients)
          /\ UNCHANGED <<accepted, spc, reply, c2s, s2c, reset, sending, receiving,
                         typed, printed>>
      BY <2>2 DEF Connect, parentVars, childVars, Typed, NetOK
    <3>2. Contains(backlog, c)' => Contains(backlog, c)
      BY <2>2, <3>1 DEF Contains
    <3>3. ServerEnd(c)' => ServerEnd(c)
      BY <3>1, <3>2 DEF ServerEnd
    <3>4. cpc'[c] = cpc[c]
      BY <2>2 DEF Connect, Goto, Typed, ClientOK
    <3> QED
      BY <3>1, <3>3, <3>4, SameEcho
  <2>3. CASE c # d /\ ~Connect(d)
    <3>1. /\ UNCHANGED <<accepted, backlog, spc, reply>>
          /\ cpc'[c] = cpc[c] /\ sending'[c] = sending[c] /\ c2s'[c] = c2s[c]
          /\ s2c'[c] = s2c[c] /\ receiving'[c] = receiving[c]
          /\ typed'[c] = typed[c] /\ printed'[c] = printed[c]
          /\ c \in reset' <=> c \in reset
      BY <1>5, <2>3, ClientMoves DEF parentVars, childVars
    <3> QED
      BY <3>1, SameServerEnd, SameEcho
  <2> QED
    BY <2>1, <2>2, <2>3
<1> QED
  BY <1>1, <1>2, <1>3, <1>4, <1>5 DEF Next

(* EchoesInOrder: no character of an answer is lost, doubled or overtaken  *)
(* between create_return_data and the terminal, whatever of the client's   *)
(* reads and writes fails, and nothing but answers is ever printed.        *)
THEOREM EchoInOrder == Spec => []EchoesInOrder
<1> DEFINE Inv == Typed /\ KillInv /\ \A c \in Clients : EchoInv(c)
<1>1. Init => Inv
  BY TypeInit, KillInit, EchoInit
<1>2. Inv /\ [Next]_vars => Inv'
  <2> SUFFICES ASSUME Inv, [Next]_vars PROVE Inv'
    OBVIOUS
  <2>1. Typed' /\ KillInv'
    BY TypeStep, KillInvStep
  <2>2. CASE Next
    <3>1. \A c \in Clients : EchoInv(c)'
      BY <2>2, EchoStep
    <3> QED
      BY <2>1, <3>1
  <2>3. CASE UNCHANGED vars
    <3>1. UNCHANGED <<accepted, backlog, spc, reply, c2s, s2c, reset, cpc, sending,
                      receiving, typed, printed>>
      BY <2>3 DEF vars, parentVars, childVars, netVars, clientVars
    <3>2. \A c \in Clients : EchoInv(c)'
      BY <3>1, SameServerEnd, SameEcho
    <3> QED
      BY <2>1, <3>2
  <2> QED
    BY <2>2, <2>3
<1>3. Inv => EchoesInOrder
  BY InvIsInOrder
<1> QED
  BY <1>1, <1>2, <1>3, PTL DEF Spec
==============================================================================
