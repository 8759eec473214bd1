---------------------------- MODULE MCSampleEcho ----------------------------
(* Instances of SampleEcho for TLC.                                        *)
EXTENDS SampleEcho, TLC

CONSTANTS c1, c2, a

(* One user types enough to fill both buffers before ^A.                   *)
MCMaxKeys == (c1 :> 4) @@ (c2 :> 0)
=============================================================================
