----------------------------- MODULE CloneServer -----------------------------
(***************************************************************************)
(* The store server whose children share its memory                        *)
(* (src/server-exclusive-clone.c): clone(CLONE_VM) in place of fork().     *)
(*                                                                         *)
(* A child has a copy of the parent's descriptor table, but one address    *)
(* space with parent and siblings.  It takes its arguments from a variable *)
(* of the parent's loop, which the next turn of the loop writes again; its *)
(* stack is mapped by the parent and never unmapped; all use one heap.     *)
(* Every other step is that of StoreServer with Exclusive = TRUE.          *)
(*                                                                         *)
(* Where the shared memory makes the behaviour undefined, the model stops  *)
(* and says so in a variable: what is claimed is claimed as long as it is  *)
(* defined.  One life of the server: a server that is started again has a  *)
(* memory of its own.                                                      *)
(***************************************************************************)
EXTENDS StoreServer

CONSTANT StackLimit   \* how many stacks of STACK_SIZE can be mapped

ASSUME CloneServerAssumption == Exclusive /\ StackLimit \in Nat

VARIABLES
  (* descriptors and arguments *)
  socket_no,  \* the number of the parent's descriptor accepted_socket
  open,       \* the parent's open connections, by their numbers
  args,       \* args.accepted_socket of run_server
  returned,   \* run_server has returned: args is no longer there
  stacks,     \* how many stacks were mapped
  table,      \* open, as each child got it
  arg,        \* the local variable accepted_socket of each child
  (* the heap *)
  failing,    \* children in error_new or error_exit after a call has failed
  reporting,  \* the parent is in error_new
  undefined   \* the behaviour is undefined from here on

argVars == <<socket_no, open, args, returned, stacks, table, arg>>
heapVars == <<failing, reporting, undefined>>
cloneVars == <<argVars, heapVars>>
allVars == <<vars, cloneVars>>

NoneOpen == [n \in {} |-> NoSession]

(* Descriptors that a program has open anyway are not counted: the numbers *)
(* start with 1, and 0 is no descriptor.                                   *)
CloneInit ==
  /\ Init
  /\ socket_no = 0 /\ open = NoneOpen /\ args = 0 /\ returned = FALSE /\ stacks = 0
  /\ table = [s \in Sessions |-> NoneOpen]
  /\ arg = [s \in Sessions |-> 0]
  /\ failing = {} /\ reporting = FALSE /\ undefined = FALSE

-----------------------------------------------------------------------------
(* The parent                                                              *)

(* The kernel hands out the lowest number that is free.                    *)
LowestFree ==
  CHOOSE n \in 1 .. Cardinality(DOMAIN open) + 1 :
    n \notin DOMAIN open /\ 1 .. n - 1 \subseteq DOMAIN open

Opened(n, s) == [m \in DOMAIN open \cup {n} |-> IF m = n THEN s ELSE open[m]]
Closed(n) == [m \in DOMAIN open \ {n} |-> open[m]]

CloneAccept ==
  /\ ~reporting /\ Accept
  /\ socket_no' = LowestFree
  /\ open' = Opened(LowestFree, Head(backlog))
  /\ UNCHANGED <<args, returned, stacks, table, arg, heapVars>>

(* mmap() a stack, fill in args and clone(): the child starts with a copy  *)
(* of the descriptor table.                                                *)
Clone ==
  /\ stacks < StackLimit
  /\ Fork
  /\ stacks' = stacks + 1
  /\ args' = socket_no
  /\ table' = [table EXCEPT ![accepted] = open]
  /\ UNCHANGED <<socket_no, open, returned, arg, heapVars>>

(* The error text of a failed clone() is made when no child is left.       *)
CloneFails ==
  /\ stacks < StackLimit
  /\ ForkFails
  /\ stacks' = stacks + 1
  /\ args' = socket_no
  /\ open' = Closed(socket_no)
  /\ UNCHANGED <<socket_no, returned, table, arg, heapVars>>

(* A failed accept() or mmap(), though, is reported while there may be     *)
(* children.                                                               *)
AcceptReported ==
  /\ "accept" \in Faults
  /\ ppc = "accept" /\ ~reporting /\ reporting' = TRUE
  /\ UNCHANGED <<vars, argVars, failing, undefined>>

CloneAcceptFails ==
  /\ reporting /\ AcceptFails /\ reporting' = FALSE
  /\ UNCHANGED <<argVars, failing, undefined>>

(* A mutation of MmapFails: the parent goes on with the next client and    *)
(* keeps this one's connection open.                                       *)
Mutant_MmapFails ==
  /\ stacks = StackLimit /\ ppc = "fork"
  /\ ppc' = "accept"
  /\ UNCHANGED <<store, lock, accepted, counter, left, kids, restarts,
                 childVars, netVars, clientVars, cloneVars>>

MmapFails ==
  /\ stacks = StackLimit /\ ppc = "fork" /\ ~reporting
  /\ reporting' = TRUE
  /\ UNCHANGED <<vars, argVars, failing, undefined>>

(* No stack: run_server returns at once and main calls exit().  The        *)
(* children go on without a parent, as after a kill.                       *)
ReturnsAtOnce ==
  /\ ppc = "fork" /\ reporting /\ reporting' = FALSE
  /\ ppc' = "killed" /\ returned' = TRUE
  /\ accepted' = NoSession /\ kids' = {} /\ left' = 0 /\ open' = NoneOpen
  /\ UNCHANGED cpc /\ DropBacklog
  /\ UNCHANGED <<store, lock, counter, restarts, tosend, tostore, pos, s2c,
                 c2s, clientVars, socket_no, args, stacks, table, arg,
                 failing, undefined>>

(* A mutation of CloneClose: the parent forgets to close its copy.         *)
Mutant_CloneClose == CloseAccepted /\ UNCHANGED cloneVars

CloneClose ==
  /\ CloseAccepted
  /\ open' = Closed(socket_no)
  /\ UNCHANGED <<socket_no, args, returned, stacks, table, arg, heapVars>>

CloneDrainDone ==
  /\ DrainDone
  /\ returned' = (returned \/ ppc = "drainFork")
  /\ UNCHANGED <<socket_no, open, args, stacks, table, arg, heapVars>>

CloneKilled ==
  /\ ServerKilled
  /\ open' = NoneOpen /\ reporting' = FALSE
  /\ UNCHANGED <<socket_no, args, returned, stacks, table, arg, failing,
                 undefined>>

CloneParentStep ==
  \/ CloneAccept \/ Clone \/ CloneAcceptFails \/ MmapFails \/ ReturnsAtOnce
  \/ CloneClose \/ CloneDrainDone
  \/ (Reap \/ ReapDone \/ Drain) /\ UNCHANGED cloneVars

-----------------------------------------------------------------------------
(* The children                                                            *)

(* child_process takes its arguments before it closes the listening        *)
(* socket.  After run_server has returned they may still be there.         *)
TakeArgs(s) ==
  /\ ChildStart(s)
  /\ arg' = [arg EXCEPT ![s] = args]
  /\ UNCHANGED <<socket_no, open, args, returned, stacks, table, heapVars>>

(* Or the parent's last calls have written over some of them: the child    *)
(* may take anything for a descriptor, or for the name of the store.       *)
ArgsLost(s) ==
  /\ returned /\ At(s, "start")
  /\ undefined' = TRUE
  /\ UNCHANGED <<vars, argVars, failing, reporting>>

(* A mutation of Connection: the child shares the table instead (as with   *)
(* CLONE_FILES), so that the parent closes and opens its descriptors.      *)
Mutant_Connection(s) ==
  IF arg[s] \in DOMAIN open THEN open[arg[s]] ELSE NoSession

(* The connection that the child's number stands for.                      *)
Connection(s) ==
  IF arg[s] \in DOMAIN table[s] THEN table[s][arg[s]] ELSE NoSession

(* SendLast and the three outcomes of the read(), on that connection.  On  *)
(* a number that stands for none, write() fails.                           *)
CloneSend(s) ==
  /\ At(s, "send")
  /\ LET t == Connection(s)
     IN  IF t = NoSession THEN failing' = failing \cup {s} /\ UNCHANGED <<cpc, s2c>>
         ELSE /\ Goto(s, "recv") /\ UNCHANGED failing
              /\ s2c' = [s2c EXCEPT ![t] = IF ClientEnd(t) THEN tosend[s] ELSE NoMsg]
  /\ UNCHANGED <<store, lock, parentVars, tosend, tostore, pos, backlog, c2s,
                 reset, clientVars, argVars, reporting, undefined>>

CloneReceive(s) ==
  /\ At(s, "recv") /\ Goto(s, "append")
  /\ LET t == Connection(s)
     IN  /\ t # NoSession /\ c2s[t] # NoMsg
         /\ tostore' = [tostore EXCEPT ![s] = ServerBump(c2s[t])]
         /\ c2s' = [c2s EXCEPT ![t] = NoMsg]
  /\ UNCHANGED <<store, lock, parentVars, tosend, pos, backlog, s2c, reset,
                 clientVars, cloneVars>>

CloneReceiveEof(s) ==
  /\ At(s, "recv") /\ Goto(s, "append")
  /\ LET t == Connection(s)
     IN  t # NoSession /\ c2s[t] = NoMsg /\ ~ClientEnd(t) /\ t \notin reset
  /\ \E m \in StackMessages :
       tostore' = [tostore EXCEPT ![s] = ServerBump(m)]
  /\ UNCHANGED <<store, lock, parentVars, tosend, pos, netVars, clientVars,
                 cloneVars>>

CloneReceiveReset(s) ==
  /\ At(s, "recv")
  /\ LET t == Connection(s) IN t # NoSession /\ c2s[t] = NoMsg /\ t \in reset
  /\ ProcessEnds(s, "aborted")
  /\ UNCHANGED <<store, parentVars, backlog, s2c, reset, clientVars, cloneVars>>

(* Any other call fails, or open() does.                                   *)
CallFails(s) ==
  /\ "child" \in Faults
  /\ cpc[s] \in Critical \cup {"lock"} /\ s \notin failing
  /\ failing' = failing \cup {s}
  /\ UNCHANGED <<vars, argVars, reporting, undefined>>

ErrorExit(s) ==
  /\ s \in failing /\ failing' = failing \ {s}
  /\ ProcessEnds(s, "aborted")
  /\ UNCHANGED ppc /\ DropBacklog
  /\ UNCHANGED <<store, accepted, counter, left, kids, restarts, s2c,
                 clientVars, argVars, reporting, undefined>>

ChildKilled(s) ==
  /\ ChildAborts(s) /\ failing' = failing \ {s}
  /\ UNCHANGED <<argVars, reporting, undefined>>

CloneChildStep(s) ==
  \/ TakeArgs(s) \/ ArgsLost(s) \/ ErrorExit(s)
  \/ /\ s \notin failing
     /\ \/ CloneSend(s)
        \/ CloneReceive(s) \/ CloneReceiveEof(s) \/ CloneReceiveReset(s)
        \/ /\ \/ AcquireLock(s) \/ CheckSize(s) \/ SeekLast(s) \/ ReadLast(s)
              \/ SeekEnd(s) \/ WriteRecord(s) \/ Unlock(s) \/ Exit(s)
           /\ UNCHANGED cloneVars

-----------------------------------------------------------------------------
(* The heap                                                                *)

(* The children that are about to call malloc(), in message_t_init or      *)
(* message_extract (or in error_new, if the read() failed).                *)
NeedsHeap(s) ==
  \/ cpc[s] = "size" /\ store = <<>>
  \/ /\ cpc[s] = "recv"
     /\ LET t == Connection(s)
        IN  t # NoSession => c2s[t] # NoMsg \/ ~ClientEnd(t)

InMalloc == failing \cup {s \in Sessions : NeedsHeap(s)}

(* malloc() does not know that its heap is shared: two processes may be in *)
(* it at once, the parent being one of them or not.                        *)
HeapRaced ==
  /\ \/ reporting /\ InMalloc # {}
     \/ \E s, t \in InMalloc : s # t
  /\ undefined' = TRUE
  /\ UNCHANGED <<vars, argVars, failing, reporting>>

(* Nor does it know that a process may be killed in it and the others live.*)
HeapTorn ==
  /\ \/ "server" \in Faults /\ reporting /\ UNCHANGED failing
     \/ "child" \in Faults /\ \E s \in InMalloc : failing' = failing \cup {s}
  /\ undefined' = TRUE
  /\ UNCHANGED <<vars, argVars, reporting>>

-----------------------------------------------------------------------------
(* The system                                                              *)

CloneFailure ==
  \/ CloneFails \/ CloneKilled \/ AcceptReported
  \/ \E s \in Sessions : CallFails(s) \/ ChildKilled(s)
  \/ \E c \in Clients : ClientKilled(c) /\ UNCHANGED cloneVars

CloneNext ==
  \/ /\ ~undefined
     /\ \/ CloneParentStep \/ CloneFailure \/ HeapRaced \/ HeapTorn
        \/ Idle /\ UNCHANGED cloneVars
        \/ \E s \in Sessions : CloneChildStep(s)
        \/ \E c \in Clients : ClientStep(c) /\ UNCHANGED cloneVars
  \/ undefined /\ UNCHANGED allVars

CloneSpec == CloneInit /\ [][CloneNext]_allVars

CloneFairness ==
  /\ WF_allVars(~undefined /\ CloneParentStep)
  /\ \A s \in Sessions : WF_allVars(~undefined /\ CloneChildStep(s))
  /\ \A c \in Clients :
       WF_allVars(~undefined /\ ClientStep(c) /\ UNCHANGED cloneVars)

CloneFairSpec == CloneSpec /\ CloneFairness

-----------------------------------------------------------------------------
(* Properties                                                              *)

(* As long as no call of the parent or of a child fails, no process is     *)
(* killed in malloc() and run_server does not return, the behaviour is     *)
(* defined: the children that need the heap do so with the lock of the     *)
(* store file, and args is there for those that are about to take it.      *)
UndefinedOnlyByErrors == undefined => returned \/ reporting \/ failing # {}

(* A child works on the connection it was made for, although the variable  *)
(* it takes the number from is written again by the next turn of the       *)
(* parent's loop, which may come first: the parent has closed its copy by  *)
(* then, so that the next connection has the same number, and the child's  *)
(* own table has its own connection there.                                 *)
OwnConnection ==
  ~undefined =>
    \A s \in Sessions : cpc[s] \in Live \ {"start"} => Connection(s) = s

(* Until the behaviour is undefined, sharing the memory changes nothing    *)
(* that the fork server promises: each step, also a child's on whatever    *)
(* connection its number stands for, is one of StoreServer, where a parent *)
(* without a stack counts as killed.                                       *)
ImplementsFork == Init /\ [][undefined \/ Next]_vars

(* As EverythingEnds: no client and no child stays blocked for ever.       *)
DefinedEnds == [](~undefined) => EverythingEnds
==============================================================================
