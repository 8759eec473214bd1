------------------------------- MODULE Message -------------------------------
(***************************************************************************)
(* The messages that the store server and its clients exchange             *)
(* (message_t of include/messageutil.h): a C int and two identifiers.      *)
(* The text form "<number> <id_1> <id_2>" is abstracted: an identifier is  *)
(* a member of Ids, and the number keeps the width of an int.              *)
(***************************************************************************)
EXTENDS Integers, Sequences

CONSTANTS
  Clients,   \* the client processes; a client's <id> argument is its name here
  Ids,       \* every identifier a message can carry
  NONE,      \* the identifier "NONE" of the default message
  IntMax     \* INT_MAX of the C int that holds the number

ASSUME MessageAssumption ==
  /\ Clients \subseteq Ids
  /\ NONE \in Ids \ Clients
  /\ IntMax \in Nat

Ints == -(IntMax + 1) .. IntMax

message_t == [number : Ints, id_1 : Ids, id_2 : Ids]

(* A mutation of Increment, for a property it must break: no wrap.         *)
Mutant_Increment(n) == n + 1

(* Two's complement: what `+ 1` on an int does in the compiled program.    *)
Increment(n) == IF n = IntMax THEN -(IntMax + 1) ELSE n + 1

(* "0 NONE NONE", what a child sends when the store is blank.              *)
DefaultMessage == [number |-> 0, id_1 |-> NONE, id_2 |-> NONE]

(* The client's answer to m: number + 1, its own id, and id_2 of m.        *)
ClientMessage(c, m) ==
  [number |-> Increment(m.number), id_1 |-> c, id_2 |-> m.id_2]

(* The server child counts once more before it stores the message.         *)
ServerBump(m) == [m EXCEPT !.number = Increment(@)]

(* What one complete session of client c stores after it was sent m.       *)
Served(c, m) == ServerBump(ClientMessage(c, m))

(* What a child sends to its client: the last record, or the default.      *)
LastMessage(store) ==
  IF store = <<>> THEN DefaultMessage ELSE store[Len(store)]

(* message_store_write at record offset pos: it replaces the record there, *)
(* or extends the store when pos is its end.                               *)
PutRecord(store, pos, m) ==
  [i \in 1 .. (IF pos < Len(store) THEN Len(store) ELSE pos + 1) |->
     IF i = pos + 1 THEN m ELSE store[i]]
==============================================================================
