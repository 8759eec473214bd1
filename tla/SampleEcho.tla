------------------------------ MODULE SampleEcho ------------------------------
(***************************************************************************)
(* The echo server src/sample-server.c and its client src/sample-client.c. *)
(*                                                                         *)
(* The client sends every character it reads from the terminal and prints  *)
(* every character it receives, in one loop over non-blocking descriptors; *)
(* ^A ends it.  The server forks a child per connection, which answers one *)
(* character at a time, with several.  ^A ends the child; a connection     *)
(* that ends without it makes the child kill the whole server.             *)
(*                                                                         *)
(* A client connects once: its name also stands for its connection and for *)
(* the child that serves it.                                               *)
(*                                                                         *)
(* External: the kernel's TCP connections, signals, fork and waitid.       *)
(***************************************************************************)
EXTENDS Integers, FiniteSets, SequencesExt

CONSTANTS
  Clients,
  Keys,       \* the characters that are typed
  NUL,        \* the character '\0'
  CTRL_A,     \* the character '\001'
  ReplyLen,   \* strlen("a [61] "), 7 in the code
  C2SCap,     \* how many bytes the kernels buffer from client to server,
  S2CCap,     \* and from server to client
  Backlog,    \* second argument of listen()
  Faults,     \* "accept", "fork": the call fails; "client": a client is killed
  MaxKeys,    \* bound on how much the user of each client types
  NoClient

ASSUME SampleEchoAssumption ==
  /\ {NUL, CTRL_A} \subseteq Keys /\ NUL # CTRL_A
  /\ {ReplyLen, C2SCap, S2CCap} \subseteq Nat \ {0}
  /\ Backlog \in Nat
  /\ MaxKeys \in [Clients -> Nat]
  /\ Faults \subseteq {"accept", "fork", "client"}
  /\ NoClient \notin Clients

VARIABLES
  (* the parent process, main of sample-server.c *)
  ppc,        \* where it is
  accepted,   \* the client of accepted_socket while it is open, or NoClient
  counter,    \* child_process_counter of main
  left,       \* child_process_counter in terminate_exited_processes
  kids,       \* the children forked and not yet waited for
  (* the children *)
  spc,        \* where each is
  reply,      \* what is left to write of return_data
  begun,      \* some of return_data was written
  (* the network *)
  backlog,    \* connections in the listen queue, oldest first
  c2s, s2c,   \* bytes under way or unread
  reset,      \* connections that were reset
  (* the clients, main of sample-client.c *)
  cpc,        \* where each is
  sending,    \* <<sending_char>> when not ready_to_read, or <<>>
  receiving,  \* <<receiving_char>> when ready_to_write, or <<>>
  typed,      \* history: what was read from the terminal
  printed     \* history: what was written to it

parentVars == <<ppc, accepted, counter, left, kids>>
childVars  == <<spc, reply, begun>>
netVars    == <<backlog, c2s, s2c, reset>>
clientVars == <<cpc, sending, receiving, typed, printed>>
vars == <<parentVars, childVars, netVars, clientVars>>

Serving == {"reap", "accept", "fork", "count"}
Loop == {"stdin", "send", "recv", "print"}

Init ==
  /\ ppc = "reap" /\ accepted = NoClient
  /\ counter = 0 /\ left = 0 /\ kids = {}
  /\ spc = [c \in Clients |-> "none"]
  /\ reply = [c \in Clients |-> <<>>]
  /\ begun = [c \in Clients |-> FALSE]
  /\ backlog = <<>> /\ reset = {}
  /\ c2s = [c \in Clients |-> <<>>]
  /\ s2c = [c \in Clients |-> <<>>]
  /\ cpc = [c \in Clients |-> "connect"]
  /\ sending = [c \in Clients |-> <<>>]
  /\ receiving = [c \in Clients |-> <<>>]
  /\ typed = [c \in Clients |-> <<>>]
  /\ printed = [c \in Clients |-> <<>>]

(* create_return_data: the character and its code; a C string, so that the *)
(* answer to '\0' is empty.                                                *)
Reply(key) ==
  IF key \in {NUL, CTRL_A} THEN <<>> ELSE [k \in 1 .. ReplyLen |-> <<key, k>>]

Answers(keys) == FlattenSeq([i \in DOMAIN keys |-> Reply(keys[i])])

(* Ends of connection c.                                                   *)
ServerEnd(c) == Contains(backlog, c) \/ accepted = c \/ spc[c] \in {"read", "write"}
ClientEnd(c) == cpc[c] \in Loop \cup {"ctrl_a", "clean_up"}

(* Connection c is reset by the client's end: the server can read what its *)
(* kernel has received, however little that is, and nothing of what the    *)
(* client's kernel still held back, because the server's buffer was full,  *)
(* because an earlier byte was not yet acknowledged (nobody sets           *)
(* TCP_NODELAY), or because it was to be sent again.  The reset reaches    *)
(* the server's end at some later time (see WriteToClosed).                *)
Reset(c) ==
  /\ reset' = reset \cup {c}
  /\ \E n \in 0 .. Len(c2s[c]) : c2s' = [c2s EXCEPT ![c] = SubSeq(@, 1, n)]

-----------------------------------------------------------------------------
(* The parent                                                              *)

Zombies == {c \in kids : spc[c] \in {"exited", "broken"}}

Reap ==
  /\ ppc = "reap" /\ left > 0
  /\ \E c \in Zombies : kids' = kids \ {c}
  /\ left' = left - 1
  /\ UNCHANGED <<ppc, accepted, counter, childVars, netVars, clientVars>>

ReapDone ==
  /\ ppc = "reap" /\ (left = 0 \/ Zombies = {})
  /\ ppc' = "accept" /\ left' = 0
  /\ UNCHANGED <<accepted, counter, kids, childVars, netVars, clientVars>>

Accept ==
  /\ ppc = "accept" /\ backlog # <<>>
  /\ accepted' = Head(backlog) /\ backlog' = Tail(backlog)
  /\ ppc' = "fork"
  /\ UNCHANGED <<counter, left, kids, childVars, c2s, s2c, reset, clientVars>>

Fork ==
  /\ ppc = "fork"
  /\ spc' = [spc EXCEPT ![accepted] = "read"]
  /\ kids' = kids \cup {accepted}
  /\ ppc' = "count"
  /\ UNCHANGED <<accepted, counter, left, reply, begun, netVars, clientVars>>

(* A mutation of Count: the child is not counted.                          *)
Mutant_Count ==
  /\ ppc = "count"
  /\ accepted' = NoClient
  /\ left' = counter /\ UNCHANGED counter
  /\ ppc' = "reap"
  /\ UNCHANGED <<kids, childVars, netVars, clientVars>>

(* The parent closes its copy, counts, and starts the next turn, in which  *)
(* terminate_exited_processes works on a copy of the counter.              *)
Count ==
  /\ ppc = "count"
  /\ accepted' = NoClient
  /\ counter' = counter + 1 /\ left' = counter'
  /\ ppc' = "reap"
  /\ UNCHANGED <<kids, childVars, netVars, clientVars>>

(* terminate_all_childlen: kill(0, 9) reaches every process of the server, *)
(* the caller included, so that its loop of waits is never entered.  The   *)
(* kernel closes all their sockets; some of what was on its way to the     *)
(* clients is lost.                                                        *)
KillGroup(how) ==
  /\ ppc' = how
  /\ accepted' = NoClient /\ kids' = {} /\ left' = 0
  /\ spc' = [c \in Clients |-> IF spc[c] \in {"read", "write"} THEN "killed"
                               ELSE spc[c]]
  /\ reply' = [c \in Clients |-> <<>>] /\ begun' = [c \in Clients |-> FALSE]
  /\ backlog' = <<>> /\ c2s' = [c \in Clients |-> <<>>]
  /\ \E kept \in [Clients -> 0 .. S2CCap] :
       /\ \A c \in Clients : kept[c] =< Len(s2c[c])
       /\ s2c' = [c \in Clients |-> SubSeq(s2c[c], 1, kept[c])]
  /\ UNCHANGED <<counter, reset, clientVars>>

AcceptFails == "accept" \in Faults /\ ppc = "accept" /\ KillGroup("failed")
ForkFails   == "fork" \in Faults /\ ppc = "fork" /\ KillGroup("failed")

-----------------------------------------------------------------------------
(* A child, child_process                                                  *)

(* The child is done with an answer, and goes on or ends.                  *)
ChildTurns(c, there) ==
  /\ spc' = [spc EXCEPT ![c] = there]
  /\ reply' = [reply EXCEPT ![c] = <<>>] /\ begun' = [begun EXCEPT ![c] = FALSE]

(* A mutation of ReadKey: ^A is answered like every other character.       *)
Mutant_ReadKey(c) ==
  /\ spc[c] = "read" /\ c2s[c] # <<>>
  /\ c2s' = [c2s EXCEPT ![c] = Tail(@)]
  /\ spc' = [spc EXCEPT ![c] = "write"]
  /\ reply' = [reply EXCEPT ![c] = [k \in 1 .. ReplyLen |-> <<Head(c2s[c]), k>>]]
  /\ UNCHANGED <<parentVars, begun, backlog, s2c, reset, clientVars>>

(* read() of one byte; ^A ends the child.                                  *)
ReadKey(c) ==
  /\ spc[c] = "read" /\ c2s[c] # <<>>
  /\ IF Head(c2s[c]) = CTRL_A
     THEN ChildTurns(c, "exited") /\ c2s' = [c2s EXCEPT ![c] = <<>>]
     ELSE /\ c2s' = [c2s EXCEPT ![c] = Tail(@)]
          /\ spc' = [spc EXCEPT ![c] = "write"]
          /\ reply' = [reply EXCEPT ![c] = Reply(Head(c2s[c]))]
          /\ UNCHANGED begun
  /\ UNCHANGED <<parentVars, backlog, s2c, reset, clientVars>>

(* read() returns 0 or -1: "Illegal termination" of the connection.        *)
ReadFails(c) ==
  /\ spc[c] = "read" /\ c2s[c] = <<>> /\ ~ClientEnd(c)
  /\ KillGroup("killed")

(* A mutation of WriteReply: it waits until the whole answer fits.         *)
Mutant_WriteReply(c) ==
  /\ spc[c] = "write" /\ reply[c] # <<>> /\ ClientEnd(c)
  /\ Len(s2c[c]) + ReplyLen =< S2CCap
  /\ s2c' = [s2c EXCEPT ![c] = @ \o reply[c]]
  /\ ChildTurns(c, "read")
  /\ UNCHANGED <<parentVars, backlog, c2s, reset, clientVars>>

(* write() of the answer blocks while the buffer is full, and returns with *)
(* the last byte.                                                          *)
WriteReply(c) ==
  /\ spc[c] = "write" /\ reply[c] # <<>> /\ ClientEnd(c)
  /\ Len(s2c[c]) < S2CCap
  /\ s2c' = [s2c EXCEPT ![c] = Append(@, Head(reply[c]))]
  /\ IF Len(reply[c]) = 1 THEN ChildTurns(c, "read")
     ELSE /\ reply' = [reply EXCEPT ![c] = Tail(@)]
          /\ begun' = [begun EXCEPT ![c] = TRUE]
          /\ UNCHANGED spc
  /\ UNCHANGED <<parentVars, backlog, c2s, reset, clientVars>>

(* The answer to '\0' has no bytes.                                        *)
WriteNothing(c) ==
  /\ spc[c] = "write" /\ reply[c] = <<>>
  /\ ChildTurns(c, "read")
  /\ UNCHANGED <<parentVars, netVars, clientVars>>

(* The client has closed the connection.  When it did so in order, its     *)
(* kernel answers the data with a reset, but this write() succeeds; so     *)
(* does one before a reset that is under way arrives.                      *)
WriteToClosed(c) ==
  /\ spc[c] = "write" /\ reply[c] # <<>> /\ ~ClientEnd(c)
  /\ ChildTurns(c, "read")
  /\ IF c \in reset THEN UNCHANGED <<reset, c2s>> ELSE Reset(c)
  /\ UNCHANGED <<parentVars, backlog, s2c, clientVars>>

(* write() on a connection that was reset: error_exit or SIGPIPE ends this *)
(* child alone.  Cut off in the middle, write() returns what it has        *)
(* written, which is no error.                                             *)
WriteToReset(c) ==
  /\ spc[c] = "write" /\ c \in reset
  /\ IF begun[c] THEN ChildTurns(c, "read") /\ UNCHANGED c2s
     ELSE ChildTurns(c, "broken") /\ c2s' = [c2s EXCEPT ![c] = <<>>]
  /\ UNCHANGED <<parentVars, backlog, s2c, reset, clientVars>>

-----------------------------------------------------------------------------
(* A client                                                                *)

Goto(c, there) == cpc' = [cpc EXCEPT ![c] = there]

(* Once connected, the client goes round a loop of four phases.            *)
Connect(c) ==
  /\ cpc[c] = "connect" /\ ppc \in Serving /\ Len(backlog) =< Backlog
  /\ backlog' = Append(backlog, c)
  /\ Goto(c, "stdin")
  /\ UNCHANGED <<parentVars, childVars, c2s, s2c, reset, sending, receiving,
                 typed, printed>>

ConnectRefused(c) ==
  /\ cpc[c] = "connect" /\ ppc \notin Serving
  /\ Goto(c, "closed")
  /\ UNCHANGED <<parentVars, childVars, netVars, sending, receiving, typed,
                 printed>>

(* read_stdin, when ready_to_read and a character was typed: ^A leads into *)
(* a loop of its own.                                                      *)
TypeKey(c) ==
  /\ cpc[c] = "stdin" /\ sending[c] = <<>> /\ Len(typed[c]) < MaxKeys[c]
  /\ \E key \in Keys :
       /\ typed' = [typed EXCEPT ![c] = Append(@, key)]
       /\ sending' = [sending EXCEPT ![c] = <<key>>]
       /\ Goto(c, IF key = CTRL_A THEN "ctrl_a" ELSE "send")
  /\ UNCHANGED <<parentVars, childVars, netVars, receiving, printed>>

(* Not ready_to_read, or nothing to read: no input, or its end, which the  *)
(* client does not tell from no input.                                     *)
NoKey(c) ==
  /\ cpc[c] = "stdin"
  /\ Goto(c, "send")
  /\ UNCHANGED <<parentVars, childVars, netVars, sending, receiving, typed,
                 printed>>

(* write() of sending_char: it is buffered, or discarded when the server   *)
(* has closed the connection.                                              *)
Written(c) ==
  IF ServerEnd(c) THEN /\ Len(c2s[c]) < C2SCap
                       /\ c2s' = [c2s EXCEPT ![c] = @ \o sending[c]]
  ELSE UNCHANGED c2s

SendKey(c) ==
  /\ cpc[c] = "send" /\ sending[c] # <<>>
  /\ Written(c)
  /\ sending' = [sending EXCEPT ![c] = <<>>]
  /\ Goto(c, "recv")
  /\ UNCHANGED <<parentVars, childVars, backlog, s2c, reset, receiving, typed,
                 printed>>

(* Nothing to send, or write() fails: the buffer is full, or the server    *)
(* has reset the connection.                                               *)
NoSend(c) ==
  /\ cpc[c] = "send"
  /\ sending[c] = <<>> \/ Len(c2s[c]) = C2SCap \/ ~ServerEnd(c)
  /\ Goto(c, "recv")
  /\ UNCHANGED <<parentVars, childVars, netVars, sending, receiving, typed,
                 printed>>

(* The first write() after the server has closed resets the connection;    *)
(* SIGPIPE ends the client in a later one.                                 *)
Sigpipe(c) ==
  /\ cpc[c] \in {"send", "ctrl_a"} /\ sending[c] # <<>> /\ ~ServerEnd(c)
  /\ Goto(c, "broken")
  /\ UNCHANGED <<parentVars, childVars, netVars, sending, receiving, typed,
                 printed>>

(* Two mutations of RecvChar: it does not look at ready_to_write; it only  *)
(* reads when nothing is left to send.                                     *)
Mutant_RecvChar(c) ==
  /\ cpc[c] = "recv" /\ s2c[c] # <<>>
  /\ receiving' = [receiving EXCEPT ![c] = <<Head(s2c[c])>>]
  /\ s2c' = [s2c EXCEPT ![c] = Tail(@)]
  /\ Goto(c, "print")
  /\ UNCHANGED <<parentVars, childVars, backlog, c2s, reset, sending, typed,
                 printed>>

Mutant_RecvCharTurns(c) ==
  /\ cpc[c] = "recv" /\ receiving[c] = <<>> /\ s2c[c] # <<>>
  /\ sending[c] = <<>>
  /\ receiving' = [receiving EXCEPT ![c] = <<Head(s2c[c])>>]
  /\ s2c' = [s2c EXCEPT ![c] = Tail(@)]
  /\ Goto(c, "print")
  /\ UNCHANGED <<parentVars, childVars, backlog, c2s, reset, sending, typed,
                 printed>>

RecvChar(c) ==
  /\ cpc[c] = "recv" /\ receiving[c] = <<>> /\ s2c[c] # <<>>
  /\ receiving' = [receiving EXCEPT ![c] = <<Head(s2c[c])>>]
  /\ s2c' = [s2c EXCEPT ![c] = Tail(@)]
  /\ Goto(c, "print")
  /\ UNCHANGED <<parentVars, childVars, backlog, c2s, reset, sending, typed,
                 printed>>

(* ready_to_write already, or nothing to receive.                          *)
NoRecv(c) ==
  /\ cpc[c] = "recv" /\ (receiving[c] # <<>> \/ s2c[c] = <<>>)
  /\ Goto(c, "print")
  /\ UNCHANGED <<parentVars, childVars, netVars, sending, receiving, typed,
                 printed>>

PrintChar(c) ==
  /\ cpc[c] = "print" /\ receiving[c] # <<>>
  /\ printed' = [printed EXCEPT ![c] = @ \o receiving[c]]
  /\ receiving' = [receiving EXCEPT ![c] = <<>>]
  /\ Goto(c, "stdin")
  /\ UNCHANGED <<parentVars, childVars, netVars, sending, typed>>

(* Nothing to print, or the terminal takes nothing just now.               *)
NoPrint(c) ==
  /\ cpc[c] = "print"
  /\ Goto(c, "stdin")
  /\ UNCHANGED <<parentVars, childVars, netVars, sending, receiving, typed,
                 printed>>

(* A mutation of SendCtrlA: write() is called once.                        *)
Mutant_SendCtrlA(c) ==
  /\ cpc[c] = "ctrl_a"
  /\ c2s' = IF ServerEnd(c) /\ Len(c2s[c]) < C2SCap
            THEN [c2s EXCEPT ![c] = @ \o sending[c]] ELSE c2s
  /\ sending' = [sending EXCEPT ![c] = <<>>]
  /\ Goto(c, "clean_up")
  /\ UNCHANGED <<parentVars, childVars, backlog, s2c, reset, receiving, typed,
                 printed>>

(* The loop that only tries to write ^A.                                   *)
SendCtrlA(c) ==
  /\ cpc[c] = "ctrl_a"
  /\ Written(c)
  /\ sending' = [sending EXCEPT ![c] = <<>>]
  /\ Goto(c, "clean_up")
  /\ UNCHANGED <<parentVars, childVars, backlog, s2c, reset, receiving, typed,
                 printed>>

(* The process ends, and the kernel closes its connection: in order, or    *)
(* with a reset when it has data that nobody has read.                     *)
Closes(c, how) ==
  /\ Goto(c, how)
  /\ IF s2c[c] # <<>> /\ ServerEnd(c) THEN Reset(c) ELSE UNCHANGED <<c2s, reset>>
  /\ s2c' = [s2c EXCEPT ![c] = <<>>]
  /\ sending' = [sending EXCEPT ![c] = <<>>]
  /\ receiving' = [receiving EXCEPT ![c] = <<>>]
  /\ UNCHANGED <<parentVars, childVars, backlog, typed, printed>>

CleanUp(c) == cpc[c] = "clean_up" /\ Closes(c, "closed")

ClientKilled(c) == "client" \in Faults /\ ClientEnd(c) /\ Closes(c, "killed")

-----------------------------------------------------------------------------
(* The system                                                              *)

ParentStep == Reap \/ ReapDone \/ Accept \/ Fork \/ Count

ChildStep(c) ==
  \/ ReadKey(c) \/ ReadFails(c)
  \/ WriteReply(c) \/ WriteNothing(c) \/ WriteToClosed(c) \/ WriteToReset(c)

ClientStep(c) ==
  \/ Connect(c) \/ ConnectRefused(c)
  \/ NoKey(c) \/ SendKey(c) \/ NoSend(c) \/ Sigpipe(c)
  \/ RecvChar(c) \/ NoRecv(c) \/ PrintChar(c) \/ NoPrint(c)
  \/ SendCtrlA(c) \/ CleanUp(c)

(* The clients are gone, or wait for ever (see Jammed).                    *)
Idle ==
  /\ \A c \in Clients : cpc[c] \notin Loop \cup {"connect", "clean_up"}
  /\ UNCHANGED vars

Next ==
  \/ ParentStep \/ AcceptFails \/ ForkFails \/ Idle
  \/ \E c \in Clients :
       ChildStep(c) \/ ClientStep(c) \/ TypeKey(c) \/ ClientKilled(c)

Spec == Init /\ [][Next]_vars

(* Every process is scheduled.  The terminal takes output again and again; *)
(* nobody has to type.                                                     *)
FairSpec ==
  /\ Spec
  /\ WF_vars(ParentStep)
  /\ \A c \in Clients :
       WF_vars(ChildStep(c)) /\ WF_vars(ClientStep(c)) /\ SF_vars(PrintChar(c))

-----------------------------------------------------------------------------
(* Properties                                                              *)

(* The type invariant.  In particular no ^A is ever sent to a client,      *)
(* whose read_socket would end the program on it.                          *)
TypeOK ==
  LET Answer == (Keys \ {NUL, CTRL_A}) \X (1 .. ReplyLen) IN
  /\ ppc \in Serving \cup {"killed", "failed"}
  /\ accepted \in Clients \cup {NoClient}
  /\ counter \in Nat /\ left \in 0 .. counter
  /\ kids \subseteq Clients
  /\ spc \in [Clients -> {"none", "read", "write", "exited", "broken", "killed"}]
  /\ reply \in [Clients -> Seq(Answer)] /\ begun \in [Clients -> BOOLEAN]
  /\ backlog \in Seq(Clients) /\ reset \subseteq Clients
  /\ c2s \in [Clients -> Seq(Keys)] /\ s2c \in [Clients -> Seq(Answer)]
  /\ cpc \in [Clients -> Loop \cup {"connect", "ctrl_a", "clean_up", "closed",
                                    "broken", "killed"}]
  /\ sending \in [Clients -> Seq(Keys)] /\ receiving \in [Clients -> Seq(Answer)]
  /\ typed \in [Clients -> Seq(Keys)] /\ printed \in [Clients -> Seq(Answer)]

(* What is printed are the answers to what was typed, in their order, and  *)
(* nothing else; as long as both ends of the connection are open, what is  *)
(* not yet printed is in the two variables of the client, in the child or  *)
(* under way: no character is lost, doubled or overtaken although every    *)
(* read and write of the client may fail.                                  *)
EchoesInOrder ==
  \A c \in Clients :
    /\ IsPrefix(printed[c], Answers(typed[c]))
    /\ ServerEnd(c) /\ ClientEnd(c) =>
         printed[c] \o receiving[c] \o s2c[c] \o reply[c]
           \o Answers(c2s[c] \o sending[c]) = Answers(typed[c])

(* A client that ends with ^A reaches its own child and nothing else as    *)
(* long as its connection is closed in order, that is, as long as it has   *)
(* read all answers before it closes and none comes after: a child kills   *)
(* the server only after a client was killed or a connection was reset.    *)
OnlyLossKills ==
  ppc = "killed" => \E c \in Clients : cpc[c] = "killed" \/ c \in reset

(* What src/memo.md:4 says of ^A without that condition, that it makes the *)
(* child "defunct" in good order: the server is only killed after some     *)
(* client was killed.  It fails: when the client closes with answers to    *)
(* earlier keys unread or still to come, the reset may take ^A with it.    *)
CtrlAEndsOneChild ==
  ppc = "killed" => \E c \in Clients : cpc[c] = "killed"

(* When the parent blocks in accept(), every child that had ended before   *)
(* it began to reap has been waited for.                                   *)
ReapsBeforeAccept ==
  [][(ppc = "reap" /\ ppc' = "accept") => Zombies = {}]_vars

(* A client whose user never types ^A sees the answers to everything, as   *)
(* long as nothing fails: the two buffers never block both sides, however  *)
(* small they are, because its loop reads in every turn.                   *)
AllAnswered ==
  \A c \in Clients :
    [](ppc \in Serving /\ cpc[c] \in Loop \cup {"connect"}) =>
      <>[](printed[c] = Answers(typed[c]))

(* The loop that writes ^A does not read.  It comes to an end unless both  *)
(* buffers are full with the child in the middle of an answer: client and  *)
(* child then wait for each other for ever.                                *)
Jammed(c) ==
  /\ spc[c] = "write" /\ reply[c] # <<>>
  /\ Len(c2s[c]) = C2SCap /\ Len(s2c[c]) = S2CCap

CtrlAIsSent ==
  \A c \in Clients : (cpc[c] = "ctrl_a") ~> (cpc[c] # "ctrl_a" \/ Jammed(c))
==============================================================================
