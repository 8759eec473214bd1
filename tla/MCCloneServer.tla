---------------------------- MODULE MCCloneServer ----------------------------
(* Instances of CloneServer for TLC.                                       *)
EXTENDS CloneServer, TLC

CONSTANTS c1, c2, c3, Junk

MCIds == Clients \cup {NONE, Junk}

Blank == {<<>>}

JunkMessages == {[number |-> 1, id_1 |-> Junk, id_2 |-> Junk]}
==============================================================================
