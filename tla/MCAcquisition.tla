--------------------------- MODULE MCAcquisition ---------------------------
(***************************************************************************)
(* A bounded instance of Acquisition.  With two blocks to a batch and      *)
(* blocks of 1 and 2 bytes, the images below are empty, shorter than a     *)
(* block, end inside a batch, at a batch boundary and in a partial block   *)
(* of the second or third batch.  All bytes of the longest image differ,   *)
(* so any byte lost, repeated, reordered or stale is seen.                 *)
(***************************************************************************)
EXTENDS Acquisition

MCByte == 0 .. 6
MCImages == {<<>>, <<1>>, <<6, 2, 3>>, <<1, 2, 3, 4>>, <<1, 2, 3, 4, 5>>}
MCBlockSizes == {0, 1, 2}
============================================================================
