------------------------------- MODULE MCJanken -------------------------------
(* Instances of Janken for TLC.                                            *)
EXTENDS Janken, TLC

CONSTANT k1
=============================================================================
