----------------------------- MODULE StoreServer -----------------------------
(***************************************************************************)
(* The store server (src/server-exclusive.c, and src/server-no-exclusive.c *)
(* when Exclusive = FALSE) together with the client program src/client.c.  *)
(*                                                                         *)
(* The parent process accepts connections and forks one child for each.    *)
(* The child locks the store file, sends the last record to its client,    *)
(* waits for the answer, appends it and unlocks.  The clients connect      *)
(* LoopMax times each.  A session <<c, i>> is the i-th connection of       *)
(* client c; its name also stands for the child process that serves it.    *)
(*                                                                         *)
(* External parts, modelled from how the code uses them: the kernel's      *)
(* listen queue and TCP connections, fork/waitid, flock and the file.      *)
(***************************************************************************)
EXTENDS Message, FiniteSets

CONSTANTS
  LoopMax,        \* loop_max of every client
  Exclusive,      \* TRUE: server-exclusive, FALSE: server-no-exclusive
  Backlog,        \* second argument of listen()
  OldStores,      \* contents the store file may have at the first start
  StackMessages,  \* messages that uninitialised memory may be parsed as
  Faults,         \* the failures that may happen in a run, see AllFaults
  MaxRestarts,    \* bound on how often a dead server is started again
  Stalling,       \* clients that may be suspended for ever by their users
  NoMsg, NoSession

(* "accept": accept() fails; "fork": fork() fails; "child": a child takes  *)
(* one of its error returns or is killed; "client": a client is killed     *)
(* while connected; "server": the parent is killed.                        *)
AllFaults == {"accept", "fork", "child", "client", "server"}

Sessions == Clients \X (1 .. LoopMax)

ASSUME StoreServerAssumption ==
  /\ LoopMax \in Nat
  /\ Exclusive \in BOOLEAN
  /\ Backlog \in Nat
  /\ OldStores \subseteq Seq(message_t)
  /\ StackMessages \subseteq message_t
  /\ Faults \subseteq AllFaults
  /\ MaxRestarts \in Nat
  /\ Stalling \subseteq Clients
  /\ NoMsg \notin message_t
  /\ NoSession \notin Sessions

VARIABLES
  (* the store file *)
  store,      \* its records, MESSAGE_MAXSIZE bytes each
  lock,       \* the child that holds the flock, or NoSession
  (* the parent process, run_server *)
  ppc,        \* where it is
  accepted,   \* accepted_socket while the parent has it open, or NoSession
  counter,    \* child_process_counter of run_server
  left,       \* child_process_counter inside the two terminate_ functions
  kids,       \* the children forked by this parent and not yet waited for
  restarts,   \* how often the server was started again
  (* the child processes, child_process *)
  cpc,        \* where each is
  tosend,     \* message_string_tosend
  tostore,    \* message_string_tostore
  pos,        \* offset of the store descriptor, in records
  (* the network *)
  backlog,    \* connections in the listen queue, oldest first
  s2c,        \* data under way or unread from child to client, or NoMsg
  c2s,        \* the same from client to child
  reset,      \* connections that were reset rather than closed
  (* the client processes, main of client.c *)
  clpc,       \* where each is
  round,      \* number of the current connection, i + 1
  got         \* the extracted message_struct_recv, or NoMsg

parentVars == <<ppc, accepted, counter, left, kids, restarts>>
childVars  == <<cpc, tosend, tostore, pos>>
netVars    == <<backlog, s2c, c2s, reset>>
clientVars == <<clpc, round, got>>
vars == <<store, lock, parentVars, childVars, netVars, clientVars>>

-----------------------------------------------------------------------------
(* Control points                                                          *)

Serving  == {"accept", "fork", "close", "reap"}   \* the loop of run_server
Draining == {"drainAccept", "drainFork"}          \* terminate_all_childlen
Dead     == {"exit", "crash", "killed"}           \* no server process

Before   == {"start", "lock"}
Critical == {"size", "seek", "read", "send", "recv", "append", "write"}
After    == {"unlock", "exit"}
Live     == Before \cup Critical \cup After
(* "exited" ended after its record was written, "aborted" before; nobody   *)
(* looks at the exit status.                                               *)
Ended    == {"exited", "aborted"}

(* Some process holds the listening socket: the parent while it serves, a  *)
(* forked child until its close(listening_socket).                         *)
ListenerOpen ==
  ppc \in Serving \/ \E s \in Sessions : cpc[s] = "start"

Queued(s) == \E i \in 1 .. Len(backlog) : backlog[i] = s

(* The server's end of a connection is open in some process.               *)
ServerEnd(s) == Queued(s) \/ accepted = s \/ cpc[s] \in Live

(* The client's end is open: its owner is inside the loop body.            *)
ClientEnd(s) == round[s[1]] = s[2] /\ clpc[s[1]] \in {"read", "send"}

(* When a step closes the last descriptor of the listening socket, the     *)
(* kernel resets the connections that nobody accepted.                     *)
DropBacklog ==
  IF ListenerOpen' THEN UNCHANGED <<backlog, reset>>
  ELSE /\ backlog' = <<>>
       /\ reset' = reset \cup {s \in Sessions : Queued(s)}

Init ==
  /\ store \in OldStores
  /\ lock = NoSession
  /\ ppc = "accept" /\ accepted = NoSession
  /\ counter = 0 /\ left = 0 /\ kids = {} /\ restarts = 0
  /\ cpc = [s \in Sessions |-> "none"]
  /\ tosend = [s \in Sessions |-> NoMsg]
  /\ tostore = [s \in Sessions |-> NoMsg]
  /\ pos = [s \in Sessions |-> 0]
  /\ backlog = <<>> /\ reset = {}
  /\ s2c = [s \in Sessions |-> NoMsg]
  /\ c2s = [s \in Sessions |-> NoMsg]
  /\ clpc = [c \in Clients |-> IF LoopMax = 0 THEN "done" ELSE "connect"]
  /\ round = [c \in Clients |-> 1]
  /\ got = [c \in Clients |-> NoMsg]

-----------------------------------------------------------------------------
(* The parent process                                                      *)

Accept ==
  /\ ppc = "accept" /\ backlog # <<>>
  /\ accepted' = Head(backlog)
  /\ backlog' = Tail(backlog)
  /\ ppc' = "fork"
  /\ UNCHANGED <<store, lock, counter, left, kids, restarts, childVars,
                 s2c, c2s, reset, clientVars>>

(* accept() fails: the listening socket is closed and run_server goes on   *)
(* in terminate_all_childlen(child_process_counter).                       *)
AcceptFails ==
  /\ "accept" \in Faults
  /\ ppc = "accept"
  /\ ppc' = "drainAccept" /\ left' = counter
  /\ UNCHANGED cpc /\ DropBacklog
  /\ UNCHANGED <<store, lock, accepted, counter, kids, restarts, tosend,
                 tostore, pos, s2c, c2s, clientVars>>

Fork ==
  /\ ppc = "fork"
  /\ cpc' = [cpc EXCEPT ![accepted] = "start"]
  /\ kids' = kids \cup {accepted}
  /\ ppc' = "close"
  /\ UNCHANGED <<store, lock, accepted, counter, left, restarts, tosend,
                 tostore, pos, netVars, clientVars>>

ForkFails ==
  /\ "fork" \in Faults
  /\ ppc = "fork"
  /\ accepted' = NoSession
  /\ ppc' = "drainFork" /\ left' = counter
  /\ UNCHANGED cpc /\ DropBacklog
  /\ UNCHANGED <<store, lock, counter, kids, restarts, tosend, tostore, pos,
                 s2c, c2s, clientVars>>

(* A mutation of CloseAccepted: reap first, count the child afterwards.    *)
Mutant_CloseAccepted ==
  /\ ppc = "close"
  /\ counter' = counter + 1
  /\ accepted' = NoSession
  /\ left' = counter
  /\ ppc' = "reap"
  /\ UNCHANGED <<store, lock, kids, restarts, childVars, netVars, clientVars>>

(* After fork() the parent counts the child, closes its copy of the        *)
(* connection and calls terminate_exited_processes, which works on a copy  *)
(* of the counter: nothing ever decrements the counter of run_server.      *)
CloseAccepted ==
  /\ ppc = "close"
  /\ counter' = counter + 1
  /\ accepted' = NoSession
  /\ left' = counter'
  /\ ppc' = "reap"
  /\ UNCHANGED <<store, lock, kids, restarts, childVars, netVars, clientVars>>

(* waitid(P_ALL, WEXITED | WNOHANG): the children it can return.           *)
Zombies == {s \in kids : cpc[s] \in Ended}

(* wait_exit() > 0: one exited child is taken away.  It returns 0 or -1    *)
(* exactly when Zombies = {}.                                              *)
WaitExit == \E s \in Zombies : kids' = kids \ {s}

(* A mutation of Reap: the child that was waited for is not counted down.  *)
Mutant_Reap ==
  /\ ppc = "reap" /\ left > 0
  /\ WaitExit
  /\ UNCHANGED <<store, lock, ppc, accepted, counter, left, restarts, childVars,
                 netVars, clientVars>>

Reap ==
  /\ ppc = "reap" /\ left > 0
  /\ WaitExit
  /\ left' = left - 1
  /\ UNCHANGED <<store, lock, ppc, accepted, counter, restarts, childVars,
                 netVars, clientVars>>

ReapDone ==
  /\ ppc = "reap"
  /\ left = 0 \/ Zombies = {}
  /\ ppc' = "accept"
  /\ left' = 0
  /\ UNCHANGED <<store, lock, accepted, counter, kids, restarts, childVars,
                 netVars, clientVars>>

(* A mutation of Drain: every call of wait_exit is counted as a child.     *)
Mutant_Drain ==
  /\ ppc \in Draining /\ left > 0
  /\ IF Zombies = {} THEN UNCHANGED kids ELSE WaitExit
  /\ left' = left - 1
  /\ UNCHANGED <<store, lock, ppc, accepted, counter, restarts, childVars,
                 netVars, clientVars>>

(* The loop of terminate_all_childlen.  A call of wait_exit that returns   *)
(* no child changes nothing: the parent spins.                             *)
Drain ==
  /\ ppc \in Draining /\ left > 0
  /\ WaitExit
  /\ left' = left - 1
  /\ UNCHANGED <<store, lock, ppc, accepted, counter, restarts, childVars,
                 netVars, clientVars>>

(* A mutation of DrainDone: stop when no child can be waited for just now. *)
Mutant_DrainDone ==
  /\ ppc \in Draining /\ (left = 0 \/ Zombies = {})
  /\ ppc' = IF ppc = "drainAccept" THEN "crash" ELSE "exit"
  /\ UNCHANGED <<store, lock, accepted, counter, left, kids, restarts,
                 childVars, netVars, clientVars>>

(* After a failed accept() the error was overwritten by the NULL that      *)
(* terminate_all_childlen returns: error_new(NULL) takes strlen(NULL).     *)
(* After a failed fork() main prints the error and exits.                  *)
DrainDone ==
  /\ ppc \in Draining /\ left = 0
  /\ ppc' = IF ppc = "drainAccept" THEN "crash" ELSE "exit"
  /\ UNCHANGED <<store, lock, accepted, counter, left, kids, restarts,
                 childVars, netVars, clientVars>>

(* The parent alone dies: its descriptors are closed and its children are  *)
(* adopted, so a later server cannot wait for them.                        *)
ServerKilled ==
  /\ "server" \in Faults
  /\ ppc \in Serving \cup Draining
  /\ ppc' = "killed"
  /\ accepted' = NoSession /\ kids' = {} /\ left' = 0
  /\ UNCHANGED cpc /\ DropBacklog
  /\ UNCHANGED <<store, lock, counter, restarts, tosend, tostore, pos,
                 s2c, c2s, clientVars>>

(* The server is started again on the same store file, which it neither    *)
(* creates nor truncates.  bind() needs the old listening socket closed.   *)
Restart ==
  /\ ppc \in Dead /\ ~ListenerOpen
  /\ restarts < MaxRestarts
  /\ restarts' = restarts + 1
  /\ ppc' = "accept"
  /\ counter' = 0 /\ left' = 0
  /\ UNCHANGED <<store, lock, accepted, kids, childVars, netVars, clientVars>>

-----------------------------------------------------------------------------
(* A child process                                                         *)

At(s, here) == cpc[s] = here
Goto(s, there) == cpc' = [cpc EXCEPT ![s] = there]

(* close(listening_socket), then open the store.                           *)
ChildStart(s) ==
  /\ At(s, "start") /\ Goto(s, "lock")
  /\ UNCHANGED ppc /\ DropBacklog
  /\ UNCHANGED <<store, lock, accepted, counter, left, kids, restarts,
                 tosend, tostore, pos, s2c, c2s, clientVars>>

(* Two mutations of AcquireLock: it does not wait; it always locks.        *)
Mutant_AcquireNoWait(s) ==
  /\ At(s, "lock") /\ Goto(s, "size")
  /\ lock' = s
  /\ UNCHANGED <<store, parentVars, tosend, tostore, pos, netVars, clientVars>>

Mutant_AcquireAlways(s) ==
  /\ At(s, "lock") /\ Goto(s, "size")
  /\ lock = NoSession /\ lock' = s
  /\ UNCHANGED <<store, parentVars, tosend, tostore, pos, netVars, clientVars>>

(* flock(LOCK_EX) blocks until nobody holds the lock; server-no-exclusive  *)
(* has no such call.                                                       *)
AcquireLock(s) ==
  /\ At(s, "lock") /\ Goto(s, "size")
  /\ IF Exclusive THEN lock = NoSession /\ lock' = s ELSE UNCHANGED lock
  /\ UNCHANGED <<store, parentVars, tosend, tostore, pos, netVars, clientVars>>

(* A mutation of CheckSize: nothing is sent when the store is empty.       *)
Mutant_CheckSize(s) ==
  /\ At(s, "size")
  /\ Goto(s, IF store = <<>> THEN "recv" ELSE "seek")
  /\ UNCHANGED <<store, lock, parentVars, tosend, tostore, pos, netVars,
                 clientVars>>

CheckSize(s) ==
  /\ At(s, "size")
  /\ IF store = <<>>
     THEN /\ tosend' = [tosend EXCEPT ![s] = DefaultMessage]
          /\ Goto(s, "send")
     ELSE /\ Goto(s, "seek")
          /\ UNCHANGED tosend
  /\ UNCHANGED <<store, lock, parentVars, tostore, pos, netVars, clientVars>>

(* message_store_read(-1): lseek to the last record, then read it.         *)
SeekLast(s) ==
  /\ At(s, "seek") /\ Goto(s, "read")
  /\ pos' = [pos EXCEPT ![s] = Len(store) - 1]
  /\ UNCHANGED <<store, lock, parentVars, tosend, tostore, netVars, clientVars>>

ReadLast(s) ==
  /\ At(s, "read") /\ Goto(s, "send")
  /\ tosend' = [tosend EXCEPT ![s] = store[pos[s] + 1]]
  /\ UNCHANGED <<store, lock, parentVars, tostore, pos, netVars, clientVars>>

(* The write succeeds whether or not the client is still there.            *)
SendLast(s) ==
  /\ At(s, "send") /\ Goto(s, "recv")
  /\ s2c' = [s2c EXCEPT ![s] = IF ClientEnd(s) THEN tosend[s] ELSE NoMsg]
  /\ UNCHANGED <<store, lock, parentVars, tosend, tostore, pos, backlog, c2s,
                 reset, clientVars>>

(* A mutation of Receive: the child does not count.                        *)
Mutant_Receive(s) ==
  /\ At(s, "recv") /\ Goto(s, "append")
  /\ c2s[s] # NoMsg
  /\ tostore' = [tostore EXCEPT ![s] = c2s[s]]
  /\ c2s' = [c2s EXCEPT ![s] = NoMsg]
  /\ UNCHANGED <<store, lock, parentVars, tosend, pos, backlog, s2c, reset,
                 clientVars>>

(* One read() takes the whole message, which the child counts up.          *)
Receive(s) ==
  /\ At(s, "recv") /\ Goto(s, "append")
  /\ c2s[s] # NoMsg
  /\ tostore' = [tostore EXCEPT ![s] = ServerBump(c2s[s])]
  /\ c2s' = [c2s EXCEPT ![s] = NoMsg]
  /\ UNCHANGED <<store, lock, parentVars, tosend, pos, backlog, s2c, reset,
                 clientVars>>

(* read() returns 0, which the code does not tell from a message: it       *)
(* extracts one from the uninitialised buffer message_string_torecv.       *)
ReceiveEof(s) ==
  /\ At(s, "recv") /\ Goto(s, "append")
  /\ c2s[s] = NoMsg /\ ~ClientEnd(s) /\ s \notin reset
  /\ \E m \in StackMessages :
       tostore' = [tostore EXCEPT ![s] = ServerBump(m)]
  /\ UNCHANGED <<store, lock, parentVars, tosend, pos, netVars, clientVars>>

(* A mutation of SeekEnd: message_store_write(-1) in place of (0), which   *)
(* replaces the last record of a store that is not blank.                  *)
Mutant_SeekEnd(s) ==
  /\ At(s, "append") /\ Goto(s, "write")
  /\ pos' = [pos EXCEPT ![s] = IF store = <<>> THEN 0 ELSE Len(store) - 1]
  /\ UNCHANGED <<store, lock, parentVars, tosend, tostore, netVars, clientVars>>

(* message_store_write(0): lseek to the end, then write.                   *)
SeekEnd(s) ==
  /\ At(s, "append") /\ Goto(s, "write")
  /\ pos' = [pos EXCEPT ![s] = Len(store)]
  /\ UNCHANGED <<store, lock, parentVars, tosend, tostore, netVars, clientVars>>

WriteRecord(s) ==
  /\ At(s, "write") /\ Goto(s, "unlock")
  /\ store' = PutRecord(store, pos[s], tostore[s])
  /\ UNCHANGED <<lock, parentVars, tosend, tostore, pos, netVars, clientVars>>

(* Two mutations of ReleaseLock: anybody's lock is freed; none ever is.    *)
Mutant_ReleaseAny(s) == lock' = NoSession
Mutant_ReleaseNone(s) == UNCHANGED lock

(* LOCK_UN, or the end of the process, which closes store_fd.              *)
ReleaseLock(s) == lock' = IF lock = s THEN NoSession ELSE lock

Unlock(s) ==
  /\ At(s, "unlock") /\ Goto(s, "exit")
  /\ ReleaseLock(s)
  /\ UNCHANGED <<store, parentVars, tosend, tostore, pos, netVars, clientVars>>

(* The process ends in the way given: its variables are gone, the kernel   *)
(* closes its sockets and drops its lock.                                  *)
ProcessEnds(s, how) ==
  /\ Goto(s, how)
  /\ ReleaseLock(s)
  /\ tosend' = [tosend EXCEPT ![s] = NoMsg]
  /\ tostore' = [tostore EXCEPT ![s] = NoMsg]
  /\ pos' = [pos EXCEPT ![s] = 0]
  /\ c2s' = [c2s EXCEPT ![s] = NoMsg]

Exit(s) ==
  /\ At(s, "exit")
  /\ ProcessEnds(s, "exited")
  /\ UNCHANGED <<store, parentVars, backlog, s2c, reset, clientVars>>

(* read() returns -1: the child returns an error before it stores.         *)
ReceiveReset(s) ==
  /\ At(s, "recv") /\ c2s[s] = NoMsg /\ s \in reset
  /\ ProcessEnds(s, "aborted")
  /\ UNCHANGED <<store, parentVars, backlog, s2c, reset, clientVars>>

(* Any of the error returns of child_process, or a signal.                 *)
ChildAborts(s) ==
  /\ "child" \in Faults
  /\ cpc[s] \in Live
  /\ ProcessEnds(s, IF cpc[s] \in After THEN "exited" ELSE "aborted")
  /\ UNCHANGED ppc /\ DropBacklog
  /\ UNCHANGED <<store, accepted, counter, left, kids, restarts, s2c,
                 clientVars>>

-----------------------------------------------------------------------------
(* A client process                                                        *)

Session(c) == <<c, round[c]>>

(* connect() completes as soon as the listen queue takes the connection.   *)
Connect(c) ==
  /\ clpc[c] = "connect"
  /\ ListenerOpen /\ Len(backlog) =< Backlog
  /\ backlog' = Append(backlog, Session(c))
  /\ clpc' = [clpc EXCEPT ![c] = "read"]
  /\ UNCHANGED <<store, lock, parentVars, childVars, s2c, c2s, reset, round,
                 got>>

ConnectRefused(c) ==
  /\ clpc[c] = "connect" /\ ~ListenerOpen
  /\ clpc' = [clpc EXCEPT ![c] = "failed"]
  /\ UNCHANGED <<store, lock, parentVars, childVars, netVars, round, got>>

(* read_socket and message_extract.                                        *)
ReadMessage(c) ==
  /\ clpc[c] = "read" /\ s2c[Session(c)] # NoMsg
  /\ got' = [got EXCEPT ![c] = s2c[Session(c)]]
  /\ s2c' = [s2c EXCEPT ![Session(c)] = NoMsg]
  /\ clpc' = [clpc EXCEPT ![c] = "send"]
  /\ UNCHANGED <<store, lock, parentVars, childVars, backlog, c2s, reset,
                 round>>

(* read() returns 0: the empty text leaves the variables that              *)
(* message_extract scans into uninitialised.                               *)
ReadEof(c) ==
  /\ clpc[c] = "read" /\ s2c[Session(c)] = NoMsg
  /\ ~ServerEnd(Session(c)) /\ Session(c) \notin reset
  /\ \E m \in StackMessages : got' = [got EXCEPT ![c] = m]
  /\ clpc' = [clpc EXCEPT ![c] = "send"]
  /\ UNCHANGED <<store, lock, parentVars, childVars, netVars, round>>

ReadReset(c) ==
  /\ clpc[c] = "read" /\ Session(c) \in reset
  /\ clpc' = [clpc EXCEPT ![c] = "failed"]
  /\ UNCHANGED <<store, lock, parentVars, childVars, netVars, round, got>>

(* The answer is written and the connection closed; data for a child that  *)
(* is gone is discarded.  Then the next turn of the loop begins.           *)
SendAnswer(c) ==
  /\ clpc[c] = "send"
  /\ c2s' = [c2s EXCEPT ![Session(c)] =
               IF cpc[Session(c)] \in Live THEN ClientMessage(c, got[c])
               ELSE NoMsg]
  /\ round' = [round EXCEPT ![c] = @ + 1]
  /\ clpc' = [clpc EXCEPT ![c] =
                IF round[c] < LoopMax THEN "connect" ELSE "done"]
  /\ got' = [got EXCEPT ![c] = NoMsg]
  /\ UNCHANGED <<store, lock, parentVars, childVars, backlog, s2c, reset>>

(* A client that dies with unread data resets the connection, otherwise    *)
(* the child sees end of file.                                             *)
ClientKilled(c) ==
  /\ "client" \in Faults
  /\ clpc[c] \in {"read", "send"}
  /\ clpc' = [clpc EXCEPT ![c] = "killed"]
  /\ reset' = IF s2c[Session(c)] = NoMsg THEN reset
              ELSE reset \cup {Session(c)}
  /\ s2c' = [s2c EXCEPT ![Session(c)] = NoMsg]
  /\ got' = [got EXCEPT ![c] = NoMsg]
  /\ UNCHANGED <<store, lock, parentVars, childVars, backlog, c2s, round>>

-----------------------------------------------------------------------------
(* The system                                                              *)

ParentStep ==
  Accept \/ Fork \/ CloseAccepted \/ Reap \/ ReapDone \/ Drain \/ DrainDone

ChildStep(s) ==
  \/ ChildStart(s) \/ AcquireLock(s)
  \/ CheckSize(s) \/ SeekLast(s) \/ ReadLast(s) \/ SendLast(s)
  \/ Receive(s) \/ ReceiveEof(s) \/ ReceiveReset(s)
  \/ SeekEnd(s) \/ WriteRecord(s) \/ Unlock(s) \/ Exit(s)

ClientStep(c) ==
  \/ Connect(c) \/ ConnectRefused(c)
  \/ ReadMessage(c) \/ ReadEof(c) \/ ReadReset(c) \/ SendAnswer(c)

Failure ==
  \/ AcceptFails \/ ForkFails \/ ServerKilled
  \/ \E s \in Sessions : ChildAborts(s)
  \/ \E c \in Clients : ClientKilled(c)

ClientsEnded == \A c \in Clients : clpc[c] \in {"done", "failed", "killed"}
ChildrenEnded == \A s \in Sessions : cpc[s] \notin Live

(* Nothing is left to do: the parent blocks in accept(), spins or is gone. *)
Idle ==
  /\ ClientsEnded /\ ChildrenEnded
  /\ backlog = <<>> /\ ppc \notin {"fork", "close", "reap"}
  /\ UNCHANGED vars

Next ==
  \/ ParentStep \/ Restart \/ Failure \/ Idle
  \/ \E s \in Sessions : ChildStep(s)
  \/ \E c \in Clients : ClientStep(c)

Spec == Init /\ [][Next]_vars

(* Every process is scheduled, but for the clients whose users may suspend *)
(* them; failures and restarts need not happen.                            *)
Fairness ==
  /\ WF_vars(ParentStep)
  /\ \A s \in Sessions : WF_vars(ChildStep(s))
  /\ \A c \in Clients \ Stalling : WF_vars(ClientStep(c))

FairSpec == Spec /\ Fairness

-----------------------------------------------------------------------------
(* Properties                                                              *)

MsgOrNone == message_t \cup {NoMsg}

(* The type invariant; in particular the number of every message that is   *)
(* sent or stored stays a C int.                                           *)
TypeOK ==
  /\ store \in Seq(message_t)
  /\ lock \in Sessions \cup {NoSession}
  /\ ppc \in Serving \cup Draining \cup Dead
  /\ accepted \in Sessions \cup {NoSession}
  /\ (ppc \in {"fork", "close"}) <=> (accepted # NoSession)
  /\ counter \in Nat /\ left \in Nat
  /\ kids \subseteq Sessions
  /\ restarts \in 0 .. MaxRestarts
  /\ cpc \in [Sessions -> {"none"} \cup Live \cup Ended]
  /\ tosend \in [Sessions -> MsgOrNone]
  /\ tostore \in [Sessions -> MsgOrNone]
  /\ pos \in [Sessions -> Nat]
  /\ backlog \in Seq(Sessions)
  /\ s2c \in [Sessions -> MsgOrNone]
  /\ c2s \in [Sessions -> MsgOrNone]
  /\ reset \subseteq Sessions
  /\ clpc \in [Clients -> {"connect", "read", "send", "done", "failed", "killed"}]
  /\ round \in [Clients -> 1 .. LoopMax + 1]
  /\ got \in [Clients -> MsgOrNone]

(* The exclusive server implements AtomicStore: whatever the interleaving  *)
(* of the children, aborted children, killed clients and restarts do, a    *)
(* session appends one record, and the record answers the one before it.   *)
Recorded == {s \in Sessions : cpc[s] \in After \cup {"exited"}}
Gone == {c \in Clients : clpc[c] = "killed"}
Abs == INSTANCE AtomicStore WITH recorded <- Recorded, gone <- Gone
AbsSpec == Abs!Spec
OneRecordPerSession == Abs!OneRecordPerSession

(* A child that reads the store for its client finds every earlier session *)
(* of the same client finished with it: a client never gets a last message *)
(* that is older than its own previous record.                             *)
ReadYourWrites ==
  \A s, t \in Sessions :
    (s[1] = t[1] /\ t[2] < s[2] /\ cpc[s] \in Critical)
      => cpc[t] \notin Before \cup Critical

(* When terminate_exited_processes returns, no exited child is left.       *)
ReapsAllZombies == [][(ppc = "reap" /\ ppc' = "accept") => Zombies = {}]_vars

(* terminate_all_childlen returns only when every child was waited for.    *)
DrainLeavesNoChild ==
  [][(ppc \in Draining /\ ppc' \in {"exit", "crash"}) => kids = {}]_vars

(* Whatever fails, no client and no child stays blocked for ever: a lock,  *)
(* a connection or a listening socket that a dead process held is freed.   *)
EverythingEnds == <>[](ClientsEnded /\ ChildrenEnded)

(* As long as nothing fails, every session of every client is served to   *)
(* the end: nobody waits for ever for the parent, the lock or each other.  *)
NothingFailed ==
  /\ ppc \in Serving
  /\ \A c \in Clients : clpc[c] # "killed"
  /\ \A s \in Sessions : cpc[s] # "aborted"

AllServed ==
  []NothingFailed =>
    <>[](/\ \A c \in Clients : clpc[c] = "done"
        /\ \A s \in Sessions : cpc[s] = "exited")

(* Without the lock, a client that stalls in the middle of its session     *)
(* keeps nobody else waiting.                                              *)
OthersFinish ==
  \A c \in Clients \ Stalling : <>(clpc[c] \in {"done", "failed"})

(* Without the lock two children may read the same last record, append at  *)
(* the same offset, and one record replaces the other.  Numbers repeat     *)
(* then, but they never run ahead: a session counts two up and replaces no *)
(* record that was there when it read, so the number of record i is at     *)
(* most 2 * i (if it began that way).  A number that wraps falls behind.   *)
CountFitsPlace == \A i \in 1 .. Len(store) : store[i].number =< 2 * i

-----------------------------------------------------------------------------
(* Statements of the documentation that the code does not keep             *)

(* "continue waiting until all child processes exited" (comment of         *)
(* terminate_all_childlen): the waiting comes to an end.                   *)
DrainEnds == (ppc \in Draining) ~> (ppc \notin Draining)
=============================================================================
