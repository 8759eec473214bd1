----------------------------- MODULE MCStoreFile -----------------------------
(* Instances of StoreFile for TLC.                                         *)
EXTENDS StoreFile

(* The texts of one and of several characters, the longest that fits.      *)
MCTexts == {<<1>>, <<2>>, <<1, 2>>, <<1, 2, 1>>}

(* The same for what is written in pieces: a short one and the longest.    *)
MCTextsInPieces == {<<2>>, <<1, 2, 1>>}

(* One character or none before the next zero.                             *)
MCGarbage == {<<>>, <<3>>}

MCIndices == -3 .. 3

(* Two records, and one beyond them from the beginning.                    *)
MCIndicesInPieces == -2 .. 3
=============================================================================
