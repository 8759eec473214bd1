---------------------------- MODULE MCMessageText ----------------------------
(* Instances of MessageText for TLC.                                       *)
EXTENDS MessageText, TLC

CONSTANTS short, long, longer, blank, empty, stray

(* One name is short, one is the longest that is accepted, one is longer;  *)
(* one has white space in it, one has no characters.                       *)
MCLength ==
  (short :> 2) @@ (long :> ID_MAXSIZE) @@ (longer :> ID_MAXSIZE + 1)
    @@ (blank :> 3) @@ (empty :> 0) @@ (NONE :> 4)

(* Stray characters may be none, one, as many as fit with white space      *)
(* among them, and one too many.                                           *)
MCWord ==
  [name \in DOMAIN MCLength |-> IF name = blank THEN 1 ELSE MCLength[name]]
    @@ (stray :> 1)

MCJunkIds == [name : {stray}, len : {0, 1, ID_MAXSIZE - 1, ID_MAXSIZE}]

(* Around every number of digits, on both sides of zero.                   *)
MCOldNumbers == {-128, -127, -101, -100, -99, -11, -10, -9, -3, -1, 1, 7, 8, 9,
                 96, 97, 98, 99, 124, 125, 126, 127}

MCJunkNumbers == {-128, 0}
=============================================================================
