---------------------------- MODULE Janken_proofs ----------------------------
(***************************************************************************)
(* Proofs about Janken, for any number of children and rounds, whatever    *)
(* fails.                                                                  *)
(***************************************************************************)
EXTENDS Janken, SequenceTheorems, FiniteSetTheorems, TLAPS

LEMMA ChildrenCount == N \in Nat \ {0}
  BY JankenAssumption, FS_CardinalityType, FS_EmptySet DEF N

(* A card comes out of a queue as it went in, although Rock is an empty    *)
(* text.                                                                   *)
LEMMA CardText ==
  ASSUME NEW c \in Cards PROVE FirstChar(Text(c)) = c
  BY DEF Cards, Rock, Paper, Scissors, FirstChar, Text

-----------------------------------------------------------------------------
(* Types                                                                   *)

(* A loop that is not left has a round to play.                            *)
LoopOK ==
  /\ ppc \in {"input", "command", "recv"} => round =< Rounds
  /\ \A k \in Children :
       cpc[k] \in {"seed", "recv", "rand", "send"} => cround[k] =< Rounds

Typed == TypeOK /\ LoopOK

LEMMA TypeInit == Init => Typed
  BY JankenAssumption, ChildrenCount
  DEF Init, Typed, TypeOK, LoopOK, Cards, Rock

LEMMA TypeStep == Typed /\ [Next]_vars => Typed'
<1> SUFFICES ASSUME Typed, [Next]_vars PROVE Typed'
  OBVIOUS
<1> USE JankenAssumption, ChildrenCount DEF Typed, TypeOK, LoopOK
<1>1. CASE InputCard \/ InputFails
  BY <1>1 DEF InputCard, InputFails, queueVars, childVars
<1>2. CASE SendCommand
  <2>1. commandq' \in Seq({Text(0)}) /\ cards' \in Seq(Cards)
    BY <1>2 DEF SendCommand
  <2> QED
    BY <1>2, <2>1 DEF SendCommand, childVars
<1>3. CASE RecvCard
  <2>1. q' \in Seq({Text(c) : c \in Cards}) /\ Head(q) \in {Text(c) : c \in Cards}
    BY <1>3 DEF RecvCard
  <2>2. PICK c \in Cards : Head(q) = Text(c)
    BY <2>1
  <2>3. cards' \in Seq(Cards)
    BY <1>3, <2>2, CardText DEF RecvCard
  <2> QED
    BY <1>3, <2>1, <2>3 DEF RecvCard, childVars
<1>4. CASE ShowCards
  <2>1. shown' \in Seq([user : Cards, cards : Seq(Cards)])
    BY <1>4 DEF ShowCards
  <2> QED
    BY <1>4, <2>1 DEF ShowCards, queueVars, childVars
<1>5. CASE Wait \/ WaitDone
  BY <1>5 DEF Wait, WaitDone, queueVars, childVars
<1>6. ASSUME NEW k \in Children, InitSeed(k) \/ ChildFails(k) PROVE Typed'
  BY <1>6 DEF InitSeed, ChildFails, At, Goto, queueVars, parentVars
<1>7. ASSUME NEW k \in Children, RecvCommand(k) PROVE Typed'
  <2>1. commandq' \in Seq({Text(0)})
    BY <1>7 DEF RecvCommand
  <2> QED
    BY <1>7, <2>1 DEF RecvCommand, At, Goto, parentVars
<1>8. ASSUME NEW k \in Children, RandCard(k) PROVE Typed'
  <2>1. PICK c \in Cards : /\ card' = [card EXCEPT ![k] = c]
                           /\ drawn' = [drawn EXCEPT ![k] = Append(@, c)]
    BY <1>8 DEF RandCard
  <2>2. Append(drawn[k], c) \in Seq(Cards)
    BY <2>1
  <2>3. drawn' \in [Children -> Seq(Cards)] /\ card' \in [Children -> Cards]
    BY <2>1, <2>2
  <2> QED
    BY <1>8, <2>3 DEF RandCard, At, Goto, queueVars, parentVars
<1>9. ASSUME NEW k \in Children, SendCard(k) PROVE Typed'
  <2>1. q' \in Seq({Text(c) : c \in Cards})
    BY <1>9 DEF SendCard
  <2>2. cround[k] =< Rounds
    BY <1>9 DEF SendCard, At
  <2>3. /\ cround' \in [Children -> 1 .. Rounds + 1]
        /\ cpc' \in [Children -> {"seed", "recv", "rand", "send", "exited", "failed"}]
    BY <1>9, <2>2 DEF SendCard, Goto
  <2>4. \A j \in Children :
          cpc'[j] \in {"seed", "recv", "rand", "send"} => cround'[j] =< Rounds
    BY <1>9, <2>2 DEF SendCard, Goto
  <2> QED
    BY <1>9, <2>1, <2>3, <2>4 DEF SendCard, parentVars
<1>10. CASE UNCHANGED vars
  BY <1>10 DEF vars, queueVars, parentVars, childVars
<1> QED
  BY <1>1, <1>2, <1>3, <1>4, <1>5, <1>6, <1>7, <1>8, <1>9, <1>10
  DEF Next, ParentStep, ChildStep

(* TypeOK, in particular the bounds of both loops (parent_janken_loop and  *)
(* child_janken_loop).                                                     *)
THEOREM GameTypes == Spec => []TypeOK
<1>1. Typed => TypeOK
  BY DEF Typed
<1> QED
  BY <1>1, TypeInit, TypeStep, PTL DEF Spec

-----------------------------------------------------------------------------
(* Nobody draws early                                                      *)

(* What a child has drawn or been told to draw, and what it may still be   *)
(* told, is covered by the rounds in which the user has chosen.            *)
Covered(n) ==
  \A k \in Children :
    /\ Len(drawn[k]) + Len(commandq) =< n
    /\ cpc[k] = "rand" => Len(drawn[k]) + Len(commandq) < n

DrawInv ==
  /\ ppc = "recv" => Covered(Len(shown) + 1)
  /\ ppc # "recv" => Covered(Len(shown))

LEMMA OneMore ==
  ASSUME NEW a \in Nat, NEW b \in Nat, NEW n \in Nat
  PROVE  /\ a + b =< n => a + (b + 1) =< n + 1
         /\ a + b < n => a + (b + 1) < n + 1
  OBVIOUS

LEMMA DrawInit == Init => DrawInv
  BY DEF Init, DrawInv, Covered

LEMMA DrawStep == Typed /\ DrawInv /\ [Next]_vars => DrawInv'
<1> SUFFICES ASSUME Typed, DrawInv, [Next]_vars PROVE DrawInv'
  OBVIOUS
<1>t. /\ commandq \in Seq({Text(0)}) /\ drawn \in [Children -> Seq(Cards)]
      /\ shown \in Seq([user : Cards, cards : Seq(Cards)])
      /\ cpc \in [Children -> {"seed", "recv", "rand", "send", "exited", "failed"}]
  BY DEF Typed, TypeOK
<1>l. Len(commandq) \in Nat /\ Len(shown) \in Nat
      /\ \A k \in Children : Len(drawn[k]) \in Nat
  BY <1>t
<1>1. CASE InputCard \/ InputFails \/ RecvCard \/ Wait \/ WaitDone
  BY <1>1, <1>l DEF InputCard, InputFails, RecvCard, Wait, WaitDone, DrawInv, Covered,
                    queueVars, childVars
<1>2. CASE SendCommand
  <2>1. Len(commandq') = Len(commandq) + 1
    BY <1>2, <1>t DEF SendCommand
  <2>2. Covered(Len(shown)) /\ ppc' = "recv" /\ UNCHANGED <<drawn, cpc, shown>>
    BY <1>2 DEF SendCommand, DrawInv, childVars
  <2>3. ASSUME NEW k \in Children
        PROVE  /\ Len(drawn[k]) + Len(commandq') =< Len(shown) + 1
               /\ cpc[k] = "rand" => Len(drawn[k]) + Len(commandq') < Len(shown) + 1
    <3>1. /\ Len(drawn[k]) + Len(commandq) =< Len(shown)
          /\ cpc[k] = "rand" => Len(drawn[k]) + Len(commandq) < Len(shown)
      BY <2>2 DEF Covered
    <3>2. Len(drawn[k]) \in Nat /\ Len(commandq) \in Nat /\ Len(shown) \in Nat
      BY <1>l
    <3> QED
      BY <2>1, <3>1, <3>2, OneMore
  <2> QED
    BY <2>2, <2>3 DEF DrawInv, Covered
<1>3. CASE ShowCards
  <2>1. Len(shown') = Len(shown) + 1
    BY <1>3, <1>t DEF ShowCards
  <2>2. /\ Covered(Len(shown) + 1) /\ ppc' # "recv"
        /\ UNCHANGED <<drawn, cpc, commandq>>
    BY <1>3 DEF ShowCards, DrawInv, queueVars, childVars
  <2>3. Covered(Len(shown))'
    BY <2>1, <2>2, <1>l DEF Covered
  <2> QED
    BY <2>2, <2>3 DEF DrawInv
<1>4. ASSUME NEW k \in Children, InitSeed(k) \/ ChildFails(k) PROVE DrawInv'
  BY <1>4, <1>t, <1>l DEF InitSeed, ChildFails, At, Goto, DrawInv, Covered, queueVars,
                          parentVars
<1>5. ASSUME NEW k \in Children, RecvCommand(k) PROVE DrawInv'
  <2>1. Len(commandq') = Len(commandq) - 1
    BY <1>5, <1>t DEF RecvCommand
  <2> QED
    BY <1>5, <2>1, <1>t, <1>l DEF RecvCommand, At, Goto, DrawInv, Covered, parentVars
<1>6. ASSUME NEW k \in Children, RandCard(k) PROVE DrawInv'
  <2>1. PICK c \in Cards : drawn' = [drawn EXCEPT ![k] = Append(@, c)]
    BY <1>6 DEF RandCard
  <2>2. Len(drawn'[k]) = Len(drawn[k]) + 1
    BY <2>1, <1>t
  <2>3. \A j \in Children \ {k} : drawn'[j] = drawn[j] /\ cpc'[j] = cpc[j]
    BY <1>6, <2>1, <1>t DEF RandCard, Goto
  <2>4. cpc[k] = "rand" /\ cpc'[k] = "send"
    BY <1>6, <1>t DEF RandCard, At, Goto
  <2> QED
    BY <1>6, <2>2, <2>3, <2>4, <1>l
    DEF RandCard, DrawInv, Covered, queueVars, parentVars
<1>7. ASSUME NEW k \in Children, SendCard(k) PROVE DrawInv'
  BY <1>7, <1>t, <1>l DEF SendCard, At, Goto, DrawInv, Covered, parentVars
<1>8. CASE UNCHANGED vars
  BY <1>8 DEF vars, queueVars, parentVars, childVars, DrawInv, Covered
<1> QED
  BY <1>1, <1>2, <1>3, <1>4, <1>5, <1>6, <1>7, <1>8
  DEF Next, ParentStep, ChildStep

(* DrawsAfterTheUser: no child draws the card of a round before the user's *)
(* card is fixed (parent_janken_loop sends the command after input_card).  *)
THEOREM NobodyDrawsEarly == Spec => []DrawsAfterTheUser
<1>1. Typed /\ DrawInv => DrawsAfterTheUser
  <2> SUFFICES ASSUME Typed, DrawInv, NEW k \in Children
               PROVE  Len(drawn[k]) =< Len(shown) + (IF ppc = "recv" THEN 1 ELSE 0)
    BY DEF DrawsAfterTheUser
  <2>1. Len(commandq) \in Nat /\ Len(shown) \in Nat /\ Len(drawn[k]) \in Nat
    BY DEF Typed, TypeOK
  <2> QED
    BY <2>1 DEF DrawInv, Covered
<1> QED
  BY <1>1, TypeInit, TypeStep, DrawInit, DrawStep, PTL DEF Spec

-----------------------------------------------------------------------------
(* One card at a time                                                      *)

Busy == {k \in Children : cpc[k] \in {"rand", "send"}}

(* Every child has drawn once for each round that is over.                 *)
Undrawn == \A k \in Children : Len(drawn[k]) = Len(shown)

(* Child k has drawn card c in this round.                                 *)
Drew(k, c) ==
  /\ Len(drawn[k]) = Len(shown) + 1
  /\ drawn[k][Len(shown) + 1] = c

(* Where the one command of a round, and the card it leads to, may be.     *)
Nowhere == commandq = <<>> /\ q = <<>> /\ Busy = {}

Commanded == commandq = <<Text(0)>> /\ q = <<>> /\ cards = <<>> /\ Busy = {} /\ Undrawn

Drawing ==
  /\ commandq = <<>> /\ q = <<>> /\ cards = <<>>
  /\ \E k \in Children : /\ Busy = {k}
                         /\ cpc[k] = "rand" => Undrawn
                         /\ cpc[k] = "send" => Drew(k, card[k])

Queued ==
  /\ commandq = <<>> /\ cards = <<>> /\ Busy = {}
  /\ \E k \in Children, c \in Cards : q = <<Text(c)>> /\ Drew(k, c)

Received ==
  /\ Nowhere
  /\ \E k \in Children, c \in Cards : cards = <<c>> /\ Drew(k, c)

Lost == Nowhere /\ cards = <<>>

(* With more than one child no round is ever shown.                        *)
RoundInv ==
  /\ round = Len(shown) + 1
  /\ N # 1 => shown = <<>>
  /\ ppc # "recv" => Nowhere
  /\ ppc \in {"input", "command"} => Undrawn
  /\ ppc = "recv" => Commanded \/ Drawing \/ Queued \/ Received \/ Lost
  /\ ppc \in {"wait", "exit"} => round = Rounds + 1
  /\ ShowsTheRound

LEMMA RoundInit == Init => RoundInv
  BY DEF Init, RoundInv, Nowhere, Busy, Undrawn, ShowsTheRound

(* Only ShowCards changes what was shown, and draws are never forgotten.   *)
LEMMA ShownStays ==
  ASSUME TypeOK, ShowsTheRound, UNCHANGED shown,
         \A k \in Children : \/ drawn'[k] = drawn[k]
                             \/ \E c \in Cards : drawn'[k] = Append(drawn[k], c)
  PROVE  ShowsTheRound'
<1> SUFFICES ASSUME NEW r \in 1 .. Len(shown)
             PROVE  /\ Len(shown[r].cards) = N
                    /\ \A i \in 1 .. N : \E k \in Children :
                         Len(drawn'[k]) >= r /\ drawn'[k][r] = shown[r].cards[i]
  BY DEF ShowsTheRound
<1>1. ASSUME NEW k \in Children, Len(drawn[k]) >= r
      PROVE  Len(drawn'[k]) >= r /\ drawn'[k][r] = drawn[k][r]
  <2>1. drawn[k] \in Seq(Cards) /\ r \in 1 .. Len(drawn[k])
    BY <1>1 DEF TypeOK
  <2> QED
    BY <2>1
<1> QED
  BY <1>1 DEF ShowsTheRound

LEMMA RoundStep == Typed /\ RoundInv /\ [Next]_vars => RoundInv'
<1> SUFFICES ASSUME Typed, RoundInv, [Next]_vars PROVE RoundInv'
  OBVIOUS
<1>t. /\ TypeOK /\ drawn \in [Children -> Seq(Cards)]
      /\ shown \in Seq([user : Cards, cards : Seq(Cards)])
      /\ cpc \in [Children -> {"seed", "recv", "rand", "send", "exited", "failed"}]
      /\ card \in [Children -> Cards]
  BY DEF Typed, TypeOK
<1>1. CASE InputCard \/ InputFails \/ Wait \/ WaitDone
  <2>1. UNCHANGED <<commandq, q, cpc, drawn, shown, round>>
    BY <1>1 DEF InputCard, InputFails, Wait, WaitDone, queueVars, childVars
  <2>2. ShowsTheRound'
    BY <2>1 DEF RoundInv, ShowsTheRound
  <2>3. /\ ppc # "recv" /\ ppc' # "recv"
        /\ ppc' \in {"input", "command"} => ppc \in {"input", "command"}
        /\ ppc' \in {"wait", "exit"} => ppc \in {"wait", "exit"}
    BY <1>1 DEF InputCard, InputFails, Wait, WaitDone
  <2> QED
    BY <2>1, <2>2, <2>3 DEF RoundInv, Nowhere, Busy, Undrawn
<1>2. CASE SendCommand
  <2>1. UNCHANGED <<q, cpc, drawn, shown, round>> /\ ppc' = "recv" /\ cards' = <<>>
    BY <1>2 DEF SendCommand, childVars
  <2>2. Nowhere /\ Undrawn
    BY <1>2 DEF SendCommand, RoundInv
  <2>3. commandq' = <<Text(0)>>
    BY <1>2, <2>2 DEF SendCommand, Nowhere
  <2>4. ShowsTheRound'
    BY <2>1 DEF RoundInv, ShowsTheRound
  <2>5. Commanded'
    BY <2>1, <2>2, <2>3 DEF Commanded, Nowhere, Busy, Undrawn
  <2> QED
    BY <2>1, <2>4, <2>5 DEF RoundInv
<1>3. CASE RecvCard
  <2>1. UNCHANGED <<commandq, cpc, drawn, shown, round, ppc>> /\ ppc = "recv"
    BY <1>3 DEF RecvCard, childVars
  <2>2. Queued
    BY <1>3, <2>1 DEF RecvCard, RoundInv, Commanded, Drawing, Received, Lost, Nowhere
  <2>3. PICK k \in Children, c \in Cards : q = <<Text(c)>> /\ Drew(k, c)
    BY <2>2 DEF Queued
  <2>4. q' = <<>> /\ cards' = <<c>>
    BY <1>3, <2>2, <2>3, CardText DEF RecvCard, Queued
  <2>5. Received'
    BY <2>1, <2>2, <2>3, <2>4 DEF Received, Nowhere, Queued, Busy, Drew
  <2>6. ShowsTheRound'
    BY <2>1 DEF RoundInv, ShowsTheRound
  <2> QED
    BY <2>1, <2>5, <2>6 DEF RoundInv
<1>4. CASE ShowCards
  <2>1. /\ UNCHANGED <<commandq, q, cpc, drawn>> /\ ppc = "recv" /\ ppc' # "recv"
        /\ shown' = Append(shown, [user |-> user_card, cards |-> cards])
        /\ round' = round + 1 /\ Len(cards) = N
        /\ ppc' \in {"input", "wait"}
        /\ ppc' = "wait" => ~(round < Rounds)
    BY <1>4 DEF ShowCards, queueVars, childVars
  <2>2. Received
    BY <2>1, ChildrenCount DEF RoundInv, Commanded, Drawing, Queued, Lost
  <2>3. PICK k \in Children, c \in Cards : cards = <<c>> /\ Drew(k, c)
    BY <2>2 DEF Received
  <2>4. N = 1
    BY <2>1, <2>3
  <2>5. Children = {k}
    BY <2>4, JankenAssumption, FS_Singleton DEF N
  <2>6. /\ Len(shown') = Len(shown) + 1
        /\ shown'[Len(shown) + 1].cards = <<c>>
        /\ \A r \in 1 .. Len(shown) : shown'[r] = shown[r]
    BY <1>t, <2>1, <2>3
  <2>7. round \in Nat /\ round =< Rounds /\ Rounds \in Nat /\ Len(shown) \in Nat
    BY <2>1, <1>t, JankenAssumption DEF Typed, TypeOK, LoopOK
  <2>8. Nowhere'
    BY <2>1, <2>2 DEF Received, Nowhere, Busy
  <2>9. Undrawn'
    BY <2>1, <2>3, <2>5, <2>6 DEF Undrawn, Drew
  <2>10. ShowsTheRound'
    <3> SUFFICES ASSUME NEW r \in 1 .. Len(shown) + 1
                 PROVE  /\ Len(shown'[r].cards) = N
                        /\ \A i \in 1 .. N : \E j \in Children :
                             Len(drawn[j]) >= r /\ drawn[j][r] = shown'[r].cards[i]
      BY <2>1, <2>6 DEF ShowsTheRound
    <3>1. CASE r = Len(shown) + 1
      BY <3>1, <2>3, <2>4, <2>6, <2>7 DEF Drew
    <3>2. CASE r \in 1 .. Len(shown)
      BY <3>2, <2>6 DEF RoundInv, ShowsTheRound
    <3> QED
      BY <3>1, <3>2, <2>7
  <2>11. round' = Len(shown') + 1 /\ (ppc' = "wait" => round' = Rounds + 1)
    BY <2>1, <2>6, <2>7 DEF RoundInv
  <2> QED
    BY <2>1, <2>4, <2>8, <2>9, <2>10, <2>11 DEF RoundInv
<1>5. ASSUME NEW k \in Children, InitSeed(k) \/ ChildFails(k) PROVE RoundInv'
  <2>1. UNCHANGED <<commandq, q, cards, card, drawn, shown, round, ppc>>
    BY <1>5 DEF InitSeed, ChildFails, queueVars, parentVars
  <2>2. /\ cpc'[k] \notin {"rand", "send"}
        /\ \A j \in Children \ {k} : cpc'[j] = cpc[j]
    BY <1>5, <1>t DEF InitSeed, ChildFails, Goto
  <2>3. Busy' = Busy \ {k}
    BY <2>2 DEF Busy
  <2>4. ShowsTheRound'
    BY <2>1 DEF RoundInv, ShowsTheRound
  <2>5. Nowhere => Nowhere'
    BY <2>1, <2>3 DEF Nowhere
  <2>6. Undrawn => Undrawn'
    BY <2>1 DEF Undrawn
  <2>7. Commanded => Commanded'
    BY <2>1, <2>3, <2>6 DEF Commanded
  <2>8. Queued => Queued'
    BY <2>1, <2>3 DEF Queued, Drew
  <2>9. Received => Received'
    BY <2>1, <2>5 DEF Received, Drew
  <2>10. Lost => Lost'
    BY <2>1, <2>5 DEF Lost
  <2>11. ASSUME Drawing PROVE Drawing' \/ Lost'
    <3>1. PICK j \in Children : /\ Busy = {j}
                                /\ cpc[j] = "rand" => Undrawn
                                /\ cpc[j] = "send" => Drew(j, card[j])
      BY <2>11 DEF Drawing
    <3>2. CASE j = k
      <4>1. Busy = {k}
        BY <3>1, <3>2
      <4>2. Busy' = {}
        BY <2>3, <4>1
      <4> QED
        BY <2>1, <2>11, <4>2 DEF Drawing, Lost, Nowhere
    <3>3. CASE j # k
      <4>1. Busy = {j}
        BY <3>1
      <4>2. Busy' = {j}
        BY <2>3, <3>3, <4>1
      <4>3. cpc'[j] = cpc[j]
        BY <2>2, <3>3
      <4>4. (cpc[j] = "send" => Drew(j, card[j]))'
        BY <2>1, <3>1, <4>3 DEF Drew
      <4> QED
        BY <2>1, <2>6, <2>11, <3>1, <4>2, <4>3, <4>4 DEF Drawing
    <3> QED
      BY <3>2, <3>3
  <2> QED
    BY <2>1, <2>4, <2>5, <2>6, <2>7, <2>8, <2>9, <2>10, <2>11 DEF RoundInv
<1>6. ASSUME NEW k \in Children, RecvCommand(k) PROVE RoundInv'
  <2>1. UNCHANGED <<q, cards, card, drawn, shown, round, ppc>>
    BY <1>6 DEF RecvCommand, parentVars
  <2>2. Commanded /\ ppc = "recv"
    BY <1>6 DEF RecvCommand, RoundInv, Drawing, Queued, Received, Lost, Nowhere
  <2>3. commandq' = <<>>
    BY <1>6, <2>2 DEF RecvCommand, Commanded
  <2>4. cpc'[k] = "rand" /\ \A j \in Children \ {k} : cpc'[j] = cpc[j]
    BY <1>6, <1>t DEF RecvCommand, Goto
  <2>5. Busy' = {k}
    BY <2>2, <2>4 DEF Commanded, Busy
  <2>6. Drawing'
    BY <2>1, <2>2, <2>3, <2>4, <2>5 DEF Drawing, Commanded, Undrawn
  <2>7. ShowsTheRound'
    BY <2>1 DEF RoundInv, ShowsTheRound
  <2> QED
    BY <2>1, <2>2, <2>6, <2>7 DEF RoundInv
<1>7. ASSUME NEW k \in Children, RandCard(k) PROVE RoundInv'
  <2>1. UNCHANGED <<commandq, q, cards, shown, round, ppc>>
    BY <1>7 DEF RandCard, queueVars, parentVars
  <2>2. k \in Busy /\ cpc[k] = "rand"
    BY <1>7 DEF RandCard, At, Busy
  <2>3. Drawing /\ ppc = "recv"
    BY <2>2 DEF RoundInv, Commanded, Queued, Received, Lost, Nowhere
  <2>4. Busy = {k} /\ Undrawn
    BY <2>2, <2>3 DEF Drawing
  <2>5. PICK c \in Cards : /\ card' = [card EXCEPT ![k] = c]
                           /\ drawn' = [drawn EXCEPT ![k] = Append(@, c)]
    BY <1>7 DEF RandCard
  <2>6. cpc'[k] = "send" /\ \A j \in Children \ {k} : cpc'[j] = cpc[j]
    BY <1>7, <1>t DEF RandCard, Goto
  <2>7. Busy' = {k}
    BY <2>4, <2>6 DEF Busy
  <2>8. card'[k] = c /\ drawn'[k] = Append(drawn[k], c)
    BY <2>5, <1>t
  <2>9. Drew(k, card[k])'
    <3>1. drawn[k] \in Seq(Cards) /\ Len(drawn[k]) = Len(shown)
      BY <1>t, <2>4 DEF Undrawn
    <3> QED
      BY <2>1, <2>8, <3>1 DEF Drew
  <2>10. Drawing'
    BY <2>1, <2>3, <2>6, <2>7, <2>9 DEF Drawing
  <2>11. \A j \in Children : drawn'[j] = drawn[j] \/ drawn'[j] = Append(drawn[j], c)
    BY <2>5, <2>8, <1>t
  <2>12. ShowsTheRound'
    BY <1>t, <2>1, <2>11, ShownStays DEF RoundInv
  <2> QED
    BY <2>1, <2>3, <2>10, <2>12 DEF RoundInv
<1>8. ASSUME NEW k \in Children, SendCard(k) PROVE RoundInv'
  <2>1. UNCHANGED <<commandq, cards, drawn, shown, round, ppc>>
    BY <1>8 DEF SendCard, parentVars
  <2>2. k \in Busy /\ cpc[k] = "send"
    BY <1>8 DEF SendCard, At, Busy
  <2>3. Drawing /\ ppc = "recv"
    BY <2>2 DEF RoundInv, Commanded, Queued, Received, Lost, Nowhere
  <2>4. Busy = {k} /\ Drew(k, card[k])
    BY <2>2, <2>3 DEF Drawing
  <2>5. q' = <<Text(card[k])>> /\ card[k] \in Cards
    BY <1>8, <1>t, <2>3 DEF SendCard, Drawing
  <2>6. cpc'[k] \in {"recv", "exited"} /\ \A j \in Children \ {k} : cpc'[j] = cpc[j]
    BY <1>8, <1>t DEF SendCard, Goto
  <2>7. Busy' = {}
    BY <2>4, <2>6 DEF Busy
  <2>8. Queued'
    BY <2>1, <2>3, <2>4, <2>5, <2>7 DEF Queued, Drawing, Drew
  <2>9. ShowsTheRound'
    BY <2>1 DEF RoundInv, ShowsTheRound
  <2> QED
    BY <2>1, <2>3, <2>8, <2>9 DEF RoundInv
<1>9. CASE UNCHANGED vars
  <2>1. UNCHANGED <<commandq, q, cpc, card, cards, drawn, shown, round, ppc>>
    BY <1>9 DEF vars, queueVars, parentVars, childVars
  <2> QED
    BY <2>1 DEF RoundInv, Nowhere, Commanded, Drawing, Queued, Received, Lost,
                Busy, Undrawn, Drew, ShowsTheRound
<1> QED
  BY <1>1, <1>2, <1>3, <1>4, <1>5, <1>6, <1>7, <1>8, <1>9
  DEF Next, ParentStep, ChildStep

(* ShowsTheRound: the cards the parent shows in a round were drawn in that *)
(* round (recv_janken_card and show_card, proc-janken.c), although the     *)
(* queues carry no number of a round.                                      *)
THEOREM ShowsThisRound == Spec => []ShowsTheRound
<1>1. RoundInv => ShowsTheRound
  BY DEF RoundInv
<1> QED
  BY <1>1, TypeInit, TypeStep, RoundInit, RoundStep, PTL DEF Spec

(* One command is pushed per round, however many children there are        *)
(* (send_janken_card_determine_command_to_child, proc-janken.c), and it is *)
(* consumed by the first child that pops it: with more than one child the  *)
(* parent never has the cards of all, shows no round and does not get to   *)
(* the end.  The game that main plays, with one child, is the only one.    *)
THEOREM OneCommandIsForOneChild ==
  N > 1 => (Spec => [](shown = <<>> /\ ppc \notin {"wait", "exit"}))
<1> SUFFICES ASSUME N > 1
             PROVE  Spec => [](shown = <<>> /\ ppc \notin {"wait", "exit"})
  OBVIOUS
<1>1. RoundInv => shown = <<>> /\ ppc \notin {"wait", "exit"}
  <2> SUFFICES ASSUME RoundInv
               PROVE  shown = <<>> /\ ppc \notin {"wait", "exit"}
    OBVIOUS
  <2>1. shown = <<>>
    BY ChildrenCount DEF RoundInv
  <2>2. round = 1
    BY <2>1 DEF RoundInv
  <2> QED
    BY <2>1, <2>2, JankenAssumption DEF RoundInv
<1> QED
  BY <1>1, TypeInit, TypeStep, RoundInit, RoundStep, PTL DEF Spec

-----------------------------------------------------------------------------
(* The end of the game                                                     *)

(* The parent waits exactly as often as it has children.                   *)
WaitInv ==
  /\ ppc \in {"input", "command", "recv", "failed"} => kids = Children
  /\ ppc = "wait" => IsFiniteSet(kids) /\ Cardinality(kids) = left
  /\ ppc = "exit" => kids = {}

LEMMA WaitStep == Typed /\ WaitInv /\ [Next]_vars => WaitInv'
<1> SUFFICES ASSUME Typed, WaitInv, [Next]_vars PROVE WaitInv'
  OBVIOUS
<1>1. CASE InputCard \/ InputFails \/ SendCommand \/ RecvCard
  BY <1>1 DEF InputCard, InputFails, SendCommand, RecvCard, WaitInv
<1>2. CASE ShowCards
  <2>1. kids' = Children /\ ppc' \in {"input", "wait"} /\ left' = N
    BY <1>2 DEF ShowCards, WaitInv
  <2> QED
    BY <2>1, JankenAssumption DEF WaitInv, N
<1>3. CASE Wait
  <2>1. PICK k \in kids : kids' = kids \ {k}
    BY <1>3 DEF Wait, Zombies
  <2>2. IsFiniteSet(kids) /\ Cardinality(kids) = left /\ ppc' = "wait"
    BY <1>3 DEF Wait, WaitInv
  <2>3. IsFiniteSet(kids') /\ Cardinality(kids') = left - 1
    BY <2>1, <2>2, FS_RemoveElement
  <2> QED
    BY <1>3, <2>2, <2>3 DEF Wait, WaitInv
<1>4. CASE WaitDone
  <2>1. kids = {}
    BY <1>4, FS_EmptySet DEF WaitDone, WaitInv
  <2> QED
    BY <1>4, <2>1 DEF WaitDone, WaitInv
<1>5. ASSUME NEW k \in Children, ChildStep(k) \/ ChildFails(k) PROVE WaitInv'
  BY <1>5 DEF ChildStep, InitSeed, RecvCommand, RandCard, SendCard, ChildFails,
              parentVars, WaitInv
<1>6. CASE UNCHANGED vars
  BY <1>6 DEF vars, parentVars, WaitInv
<1> QED
  BY <1>1, <1>2, <1>3, <1>4, <1>5, <1>6 DEF Next, ParentStep

(* CleanExit: a parent that exits has shown all rounds, has waited for all *)
(* children (wait_terminate_all_childlen) and leaves nothing in a queue.   *)
THEOREM ExitsCleanly == Spec => []CleanExit
<1>1. Init => WaitInv
  BY DEF Init, WaitInv
<1>2. Typed /\ RoundInv /\ WaitInv => CleanExit
  <2> SUFFICES ASSUME Typed, RoundInv, WaitInv, ppc = "exit"
               PROVE  Len(shown) = Rounds /\ kids = {} /\ commandq = <<>> /\ q = <<>>
    BY DEF CleanExit
  <2>1. Len(shown) \in Nat /\ Rounds \in Nat
    BY JankenAssumption DEF Typed, TypeOK
  <2> QED
    BY <2>1 DEF RoundInv, WaitInv, Nowhere
<1> QED
  BY <1>1, <1>2, TypeInit, TypeStep, RoundInit, RoundStep, WaitStep, PTL DEF Spec
===============================================================================
