-------------------------------- MODULE Janken --------------------------------
(***************************************************************************)
(* Rock, paper, scissors between a parent process, which plays for the     *)
(* user, and child processes (src/proc-janken.c), over two System V        *)
(* message queues (lib/qutil.c).  In every round the parent reads the      *)
(* user's card, pushes one command, pops one card per child and shows the  *)
(* results.  A child pops a command, draws a card and pushes it.           *)
(*                                                                         *)
(* main spawns one child; the functions take their number as a parameter   *)
(* (child_counter), and so does this module.                               *)
(*                                                                         *)
(* External: the kernel's message queues, fork, waitid, and the terminal.  *)
(***************************************************************************)
EXTENDS Integers, Sequences, FiniteSets

CONSTANTS
  Children,   \* the child processes
  Rounds,     \* 5 in both loops
  Faults      \* "child": a child takes an error return or is killed;
              \* "input": the user's input is no card

ASSUME JankenAssumption ==
  /\ IsFiniteSet(Children) /\ Children # {}
  /\ Rounds \in Nat \ {0}
  /\ Faults \subseteq {"child", "input"}

(* The enum JankenCard.                                                    *)
Rock == 0
Paper == 1
Scissors == 2
Cards == {Rock, Paper, Scissors}

VARIABLES
  commandq,   \* the texts in the command queue, oldest first
  q,          \* the texts in the queue of cards
  ppc,        \* where the parent is
  round,      \* _loop_counter of the parent
  user_card,  \* the user's card
  cards,      \* child_cards[0 .. child_idx - 1] of this round
  left,       \* child_process_counter of wait_terminate_all_childlen
  kids,       \* children not yet waited for
  cpc,        \* where each child is
  cround,     \* _loop_counter of each child
  card,       \* the card each child has drawn
  shown,      \* history: the user's card and the child cards of each round
  drawn       \* history: the cards each child has drawn

queueVars  == <<commandq, q>>
parentVars == <<ppc, round, user_card, cards, left, kids, shown>>
childVars  == <<cpc, cround, card, drawn>>
vars == <<queueVars, parentVars, childVars>>

N == Cardinality(Children)   \* child_counter

-----------------------------------------------------------------------------
(* Queue texts                                                             *)

(* q_push copies a C string.  The caller passes the address of an int (a   *)
(* card) or of a char (0, the command): the text is what its bytes are up  *)
(* to the first zero byte.  Little endian: the low byte comes first.       *)
Text(n) == IF n = 0 THEN <<>> ELSE <<n>>

(* Two mutations of FirstChar: an empty text leaves the char as it was;    *)
(* cards are sent as digits, which nobody converts.                        *)
Mutant_FirstChar(text) == IF text = <<>> THEN Paper ELSE text[1]
Mutant_FirstCharDigit(text) == IF text = <<>> THEN 48 ELSE 48 + text[1]

(* q_pop copies the string with its terminator to the caller's char; the   *)
(* first byte is what that char then holds.                                *)
FirstChar(text) == IF text = <<>> THEN 0 ELSE text[1]

Init ==
  /\ commandq = <<>> /\ q = <<>>
  /\ ppc = "input" /\ round = 1 /\ user_card = Rock /\ cards = <<>>
  /\ left = 0 /\ kids = Children
  /\ cpc = [k \in Children |-> "seed"]
  /\ cround = [k \in Children |-> 1]
  /\ card = [k \in Children |-> Rock]
  /\ shown = <<>>
  /\ drawn = [k \in Children |-> <<>>]

-----------------------------------------------------------------------------
(* The parent                                                              *)

(* A number that is a card.  Input that is no number leaves card_in        *)
(* uninitialised, so it also counts as one of the cards, or as none.       *)
InputCard ==
  /\ ppc = "input"
  /\ user_card' \in Cards
  /\ ppc' = "command"
  /\ UNCHANGED <<queueVars, round, cards, left, kids, shown, childVars>>

(* End of input or no card: main calls error_exit.  Nobody tells the       *)
(* children, and the queues stay in the kernel.                            *)
InputFails ==
  /\ "input" \in Faults
  /\ ppc = "input"
  /\ ppc' = "failed"
  /\ UNCHANGED <<queueVars, round, user_card, cards, left, kids, shown,
                 childVars>>

(* send_janken_card_determine_command_to_child: one command per round.     *)
SendCommand ==
  /\ ppc = "command"
  /\ commandq' = Append(commandq, Text(0))
  /\ cards' = <<>>
  /\ ppc' = "recv"
  /\ UNCHANGED <<q, round, user_card, left, kids, shown, childVars>>

(* recv_janken_card, once for each child.                                  *)
RecvCard ==
  /\ ppc = "recv" /\ Len(cards) < N
  /\ q # <<>>
  /\ cards' = Append(cards, FirstChar(Head(q)))
  /\ q' = Tail(q)
  /\ UNCHANGED <<commandq, ppc, round, user_card, left, kids, shown, childVars>>

(* A mutation of ShowCards: the results are shown without all the cards.   *)
Mutant_ShowCards ==
  /\ ppc = "recv"
  /\ shown' = Append(shown, [user |-> user_card, cards |-> cards])
  /\ round' = round + 1
  /\ ppc' = IF round < Rounds THEN "input" ELSE "wait"
  /\ left' = N
  /\ UNCHANGED <<queueVars, user_card, cards, kids, childVars>>

(* show_card, and the end of the round; after the last one the parent      *)
(* goes on in wait_terminate_all_childlen.                                 *)
ShowCards ==
  /\ ppc = "recv" /\ Len(cards) = N
  /\ shown' = Append(shown, [user |-> user_card, cards |-> cards])
  /\ round' = round + 1
  /\ ppc' = IF round < Rounds THEN "input" ELSE "wait"
  /\ left' = N
  /\ UNCHANGED <<queueVars, user_card, cards, kids, childVars>>

Zombies == {k \in kids : cpc[k] \in {"exited", "failed"}}

(* wait_exit() > 0; when it returns no child the parent spins.             *)
Wait ==
  /\ ppc = "wait" /\ left > 0
  /\ \E k \in Zombies : kids' = kids \ {k}
  /\ left' = left - 1
  /\ UNCHANGED <<queueVars, ppc, round, user_card, cards, shown, childVars>>

WaitDone ==
  /\ ppc = "wait" /\ left = 0
  /\ ppc' = "exit"
  /\ UNCHANGED <<queueVars, round, user_card, cards, left, kids, shown,
                 childVars>>

-----------------------------------------------------------------------------
(* A child                                                                 *)

At(k, here) == cpc[k] = here
Goto(k, there) == cpc' = [cpc EXCEPT ![k] = there]

InitSeed(k) ==
  /\ At(k, "seed") /\ Goto(k, "recv")
  /\ UNCHANGED <<queueVars, parentVars, cround, card, drawn>>

(* A mutation of RecvCommand: the command stays in the queue.              *)
Mutant_RecvCommand(k) ==
  /\ At(k, "recv") /\ Goto(k, "rand")
  /\ commandq # <<>>
  /\ UNCHANGED <<queueVars, parentVars, cround, card, drawn>>

(* recv_parent_command blocks until there is a command, and consumes it.   *)
RecvCommand(k) ==
  /\ At(k, "recv") /\ Goto(k, "rand")
  /\ commandq # <<>>
  /\ commandq' = Tail(commandq)
  /\ UNCHANGED <<q, parentVars, cround, card, drawn>>

RandCard(k) ==
  /\ At(k, "rand") /\ Goto(k, "send")
  /\ \E c \in Cards :
       /\ card' = [card EXCEPT ![k] = c]
       /\ drawn' = [drawn EXCEPT ![k] = Append(@, c)]
  /\ UNCHANGED <<queueVars, parentVars, cround>>

(* A mutation of SendCard: the child plays one round more than the parent. *)
Mutant_SendCard(k) ==
  /\ At(k, "send")
  /\ q' = Append(q, Text(card[k]))
  /\ cround' = [cround EXCEPT ![k] = @ + 1]
  /\ Goto(k, IF cround[k] =< Rounds THEN "recv" ELSE "exited")
  /\ UNCHANGED <<commandq, parentVars, card, drawn>>

(* send_card_to_parent, and the end of the child's turn of the loop.       *)
SendCard(k) ==
  /\ At(k, "send")
  /\ q' = Append(q, Text(card[k]))
  /\ cround' = [cround EXCEPT ![k] = @ + 1]
  /\ Goto(k, IF cround[k] < Rounds THEN "recv" ELSE "exited")
  /\ UNCHANGED <<commandq, parentVars, card, drawn>>

(* An error return of child_process, which ends in error_exit, or a kill.  *)
ChildFails(k) ==
  /\ "child" \in Faults
  /\ cpc[k] \in {"seed", "recv", "rand", "send"}
  /\ Goto(k, "failed")
  /\ UNCHANGED <<queueVars, parentVars, cround, card, drawn>>

-----------------------------------------------------------------------------
(* The game                                                                *)

ParentStep ==
  InputCard \/ SendCommand \/ RecvCard \/ ShowCards \/ Wait \/ WaitDone

ChildStep(k) == InitSeed(k) \/ RecvCommand(k) \/ RandCard(k) \/ SendCard(k)

Next ==
  \/ ParentStep \/ InputFails
  \/ \E k \in Children : ChildStep(k) \/ ChildFails(k)

Spec == Init /\ [][Next]_vars

(* Both processes are scheduled, and the user answers.                     *)
FairSpec ==
  Spec /\ WF_vars(ParentStep) /\ \A k \in Children : WF_vars(ChildStep(k))

-----------------------------------------------------------------------------
(* Properties                                                              *)

TypeOK ==
  /\ commandq \in Seq({Text(0)})
  /\ q \in Seq({Text(c) : c \in Cards})
  /\ ppc \in {"input", "command", "recv", "wait", "exit", "failed"}
  /\ round \in 1 .. Rounds + 1
  /\ user_card \in Cards
  /\ cards \in Seq(Cards)
  /\ left \in 0 .. N
  /\ kids \subseteq Children
  /\ cpc \in [Children -> {"seed", "recv", "rand", "send", "exited", "failed"}]
  /\ cround \in [Children -> 1 .. Rounds + 1]
  /\ card \in [Children -> Cards]
  /\ shown \in Seq([user : Cards, cards : Seq(Cards)])
  /\ drawn \in [Children -> Seq(Cards)]

(* The cards the parent shows in a round are the ones the children drew in *)
(* that round: none is left over from an earlier one, changed on its way   *)
(* through the queue, or shown twice.                                      *)
ShowsTheRound ==
  \A r \in 1 .. Len(shown) :
    /\ Len(shown[r].cards) = N
    /\ \A i \in 1 .. N : \E k \in Children :
         Len(drawn[k]) >= r /\ drawn[k][r] = shown[r].cards[i]

(* No child draws the card of a round before the user's card is fixed.     *)
DrawsAfterTheUser ==
  \A k \in Children :
    Len(drawn[k]) =< Len(shown) + (IF ppc = "recv" THEN 1 ELSE 0)

(* A parent that exits normally has shown every round, has waited for      *)
(* every child and leaves both queues empty, whichever child fails when.   *)
CleanExit ==
  ppc = "exit" => /\ Len(shown) = Rounds
                  /\ kids = {}
                  /\ commandq = <<>> /\ q = <<>>

(* A game of one child in which nothing fails comes to its end: neither    *)
(* process waits for a message that the other one will never send.         *)
NothingFailed == ppc # "failed" /\ \A k \in Children : cpc[k] # "failed"
GameEnds == (N = 1 /\ []NothingFailed) => <>(ppc = "exit")
=============================================================================
