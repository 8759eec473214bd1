---------------------------- MODULE MCStoreServer ----------------------------
(* Instances of StoreServer for TLC.                                       *)
EXTENDS StoreServerInv, TLC

CONSTANTS c1, c2, c3, Junk

MCIds == Clients \cup {NONE, Junk}

(* A blank store, and one left by an earlier server.                       *)
Blank == {<<>>}
BlankOrOld == {<<>>, <<[number |-> 2, id_1 |-> NONE, id_2 |-> NONE]>>}

(* What the uninitialised buffers may be parsed as.                        *)
JunkMessages == {[number |-> 1, id_1 |-> Junk, id_2 |-> Junk]}

Symmetry == Permutations(Clients)
==============================================================================
