------------------------------- MODULE Blocks -------------------------------
(***************************************************************************)
(* How a string of bytes is cut into blocks, and what a manifest says of   *)
(* it.  A digest stands for its preimage: SHA-256, MD5 and BLAKE3 are      *)
(* modelled as injective functions, so two digests are equal exactly when  *)
(* the byte strings they were computed from are.                           *)
(***************************************************************************)
EXTENDS Integers, Sequences

\* Number of blocks of size b that n bytes fill, the last one perhaps partly.
BlockCount(n, b) == (n + b - 1) \div b

\* Positions of the first and of the last byte of block k among n bytes.
BlockStart(k, b)  == (k - 1) * b + 1
BlockEnd(n, k, b) == IF k * b <= n THEN k * b ELSE n

\* slice::chunks(b): consecutive blocks of b bytes, the last one perhaps short.
BlocksOf(s, b) ==
  [k \in 1 .. BlockCount(Len(s), b) |->
     SubSeq(s, BlockStart(k, b), BlockEnd(Len(s), k, b))]

\* AcquisitionManifest of the byte string s acquired in blocks of size b.
ManifestOf(s, b) ==
  [total_bytes  |-> Len(s),
   whole_image  |-> s,
   block_size   |-> b,
   block_count  |-> BlockCount(Len(s), b),
   block_hashes |-> BlocksOf(s, b)]
=============================================================================
