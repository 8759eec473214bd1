---------------------------- MODULE StoreServerInv ----------------------------
(***************************************************************************)
(* The inductive invariant of StoreServer: what is true between any two    *)
(* steps of parent, children and clients, and why a record answers the     *)
(* record before it.                                                       *)
(***************************************************************************)
EXTENDS StoreServer

Client(s) == s[1]

(* Client of session s is in the loop turn of s, at the given place.       *)
ClientAt(s, places) == round[s[1]] = s[2] /\ clpc[s[1]] \in places

(* The turn of session s has not come yet.                                 *)
Fresh(s) ==
  \/ s[2] > round[s[1]]
  \/ ClientAt(s, {"connect"})

(* Session s is open on the server's side and its child has not sent yet.  *)
BeforeRecv == Before \cup {"size", "seek", "read", "send"}
Waiting(s) ==
  \/ Queued(s)
  \/ ppc = "fork" /\ accepted = s
  \/ cpc[s] \in BeforeRecv

(* Ranges that depend on the place of a process.                           *)
PlaceOK ==
  /\ \A s \in Sessions :
       /\ cpc[s] = "seek" => Len(store) > 0
       /\ cpc[s] = "read" => pos[s] < Len(store)
       /\ cpc[s] = "write" => pos[s] =< Len(store)
       /\ cpc[s] \in {"send", "recv", "append", "write"} => tosend[s] \in message_t
       /\ cpc[s] \in {"append", "write"} => tostore[s] \in message_t
  /\ \A c \in Clients :
       /\ clpc[c] = "send" => got[c] \in message_t
       /\ clpc[c] \in {"connect", "read", "send"} => round[c] =< LoopMax

TypeInv == TypeOK /\ PlaceOK

(* A connection is in one place at a time.                                 *)
QueueOK ==
  /\ \A i, j \in 1 .. Len(backlog) : backlog[i] = backlog[j] => i = j
  /\ \A s \in Sessions : Queued(s) => cpc[s] = "none"
  /\ ppc = "fork" => (cpc[accepted] = "none" /\ ~Queued(accepted))

(* Before its turn comes a session has left no trace.                      *)
FreshOK ==
  \A s \in Sessions :
    Fresh(s) => /\ cpc[s] = "none" /\ s \notin reset
                /\ s2c[s] = NoMsg /\ c2s[s] = NoMsg

(* Until the child has sent, its client waits, or was killed waiting.      *)
WaitingOK ==
  \A s \in Sessions :
    Waiting(s) => /\ ClientAt(s, {"read", "killed"})
                  /\ s \notin reset
                  /\ s2c[s] = NoMsg /\ c2s[s] = NoMsg

ConnInv == QueueOK /\ FreshOK /\ WaitingOK

(* While the child of s waits for the answer: the message it sent is under *)
(* way, or the client works on it, or the answer to it is under way, or    *)
(* the client was killed.                                                  *)
AnswerOK(s) ==
  LET answer == ClientMessage(Client(s), tosend[s]) IN
  /\ \/ ClientAt(s, {"read"}) /\ s2c[s] = tosend[s] /\ c2s[s] = NoMsg
     \/ ClientAt(s, {"send"}) /\ got[Client(s)] = tosend[s] /\ c2s[s] = NoMsg
     \/ c2s[s] = answer /\ s[2] < round[Client(s)]
     \/ c2s[s] = NoMsg /\ clpc[Client(s)] = "killed"
  /\ s \in reset => clpc[Client(s)] = "killed"

(* What the child of s is about to store.                                  *)
ToStoreOK(s) ==
  \/ tostore[s] = Served(Client(s), tosend[s])
  \/ /\ clpc[Client(s)] = "killed"
     /\ \E m \in StackMessages : tostore[s] = ServerBump(m)

Answering(s) ==
  /\ cpc[s] = "recv" => AnswerOK(s)
  /\ cpc[s] \in {"append", "write"} => ToStoreOK(s)

AnswerInv == \A s \in Sessions : Answering(s)

(* The child that works on the store has the lock, and what it read there  *)
(* is still the last message.                                              *)
LockInv ==
  Exclusive =>
    \A s \in Sessions :
      /\ cpc[s] \in Critical \cup {"unlock"} => lock = s
      /\ cpc[s] = "read" => pos[s] = Len(store) - 1
      /\ cpc[s] = "write" => pos[s] = Len(store)
      /\ cpc[s] \in {"send", "recv", "append", "write"}
           => tosend[s] = LastMessage(store)

(* The inductive invariant: none of its parts is implied by the others,    *)
(* and together they give the refinement of AtomicStore and ReadYourWrites.*)
IInv == TypeInv /\ ConnInv /\ AnswerInv /\ LockInv

(* No child is lost count of: the counter that bounds the two waiting loops *)
(* covers every child that was not waited for yet, although run_server      *)
(* never counts down.                                                       *)
ChildrenCounted ==
  /\ ppc \in Serving \cup Draining \cup Dead
  /\ counter \in Nat /\ left \in Nat
  /\ IsFiniteSet(kids)
  /\ ppc \in {"accept", "fork", "reap"} => Cardinality(kids) =< counter
  /\ ppc = "close" => Cardinality(kids) =< counter + 1
  /\ ppc \in {"reap"} \cup Draining => Cardinality(kids) =< left
  /\ ppc \in Dead => kids = {}

-----------------------------------------------------------------------------
(* Why everything comes to an end                                          *)

(* Nobody waits for a process that is gone, or that waits for him: a lock  *)
(* that is held will be released, a queued connection has somebody who     *)
(* accepts or resets it, a client whose answer is awaited has what it      *)
(* answers, and a client that waits has a child that has not sent yet (or  *)
(* is gone, and the parent is about to close its copy of the connection).  *)
NoMutualWait ==
  /\ lock # NoSession => cpc[lock] \in Critical \cup {"unlock"}
  /\ backlog # <<>> => ListenerOpen
  /\ \A s \in Sessions :
       cpc[s] = "recv" /\ c2s[s] = NoMsg /\ ClientEnd(s) =>
         clpc[Client(s)] = "send" \/ s2c[s] # NoMsg
  /\ \A s \in Sessions :
       ServerEnd(s) /\ s2c[s] = NoMsg /\ ClientAt(s, {"read"}) =>
         Waiting(s) \/ ppc = "close"

(* How far a child, a session, a client and the server have come.          *)
Rank(place) ==
  CASE place = "start" -> 3  [] place = "lock" -> 4  [] place = "size" -> 5
    [] place = "seek" -> 6   [] place = "read" -> 7  [] place = "send" -> 8
    [] place = "recv" -> 9   [] place = "append" -> 10
    [] place = "write" -> 11 [] place = "unlock" -> 12
    [] place = "exit" -> 13  [] place \in Ended \cup {"none"} -> 14

SessionRank(s) ==
  IF Fresh(s) THEN 0
  ELSE IF Queued(s) THEN 1
  ELSE IF ppc = "fork" /\ accepted = s THEN 2
  ELSE Rank(cpc[s])

ClientRank(c) ==
  CASE clpc[c] = "connect" -> 3 * round[c]
    [] clpc[c] = "read" -> 3 * round[c] + 1
    [] clpc[c] = "send" -> 3 * round[c] + 2
    [] clpc[c] \in {"done", "failed", "killed"} -> 3 * (LoopMax + 1)

ServerRank ==
  CASE ppc \in Serving -> 3 * restarts
    [] ppc \in Draining -> 3 * restarts + 1
    [] ppc \in Dead -> 3 * restarts + 2

(* What the parent has still to do on its own.                             *)
ParentWork ==
  CASE ppc = "close" -> counter + 3
    [] ppc \in {"reap"} \cup Draining -> left + 1
    [] ppc \notin {"close", "reap"} \cup Draining -> 0

NobodyGoesBack ==
  /\ \A s \in Sessions : SessionRank(s)' >= SessionRank(s)
  /\ \A c \in Clients : ClientRank(c)' >= ClientRank(c)
  /\ ServerRank' >= ServerRank

SomebodyAdvances ==
  \/ \E s \in Sessions : SessionRank(s)' > SessionRank(s)
  \/ \E c \in Clients : ClientRank(c)' > ClientRank(c)
  \/ ServerRank' > ServerRank
  \/ ParentWork' < ParentWork

(* No step takes anybody back, and every step brings somebody forward or   *)
(* shortens what the parent does on its own: no behaviour goes on for ever,*)
(* whatever fails and restarts.                                            *)
EveryStepAdvances == [][NobodyGoesBack /\ SomebodyAdvances]_vars
==============================================================================
