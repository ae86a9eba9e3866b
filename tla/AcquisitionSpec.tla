-------------------------- MODULE AcquisitionSpec --------------------------
(***************************************************************************)
(* What an acquisition promises, with no word about how it is done: the    *)
(* case directory holds either no usable manifest or one that is the       *)
(* chunked digest of ONE string of bytes, and that string is the evidence  *)
(* whenever the evidence stood still from the opening of the source to the *)
(* recording.                                                              *)
(***************************************************************************)
EXTENDS Blocks

CONSTANTS
  Byte,         \* the values of a byte
  Images,       \* the contents the evidence source can have
  BlockSizes    \* the block sizes an examiner may ask for

VARIABLES
  image,        \* content of the evidence source
  changed,      \* the source changed since the last acquisition opened it
  record        \* the manifest of the case directory, or NoRecord

vars == <<image, changed, record>>

NoRecord == [present |-> FALSE]

\* m is the manifest of some byte string, in a block size an examiner asked for.
Describes(m) ==
  /\ m.whole_image \in Seq(Byte)
  /\ m.block_size \in BlockSizes \ {0}
  /\ m = ManifestOf(m.whole_image, m.block_size)

Init ==
  /\ image \in Images
  /\ changed = FALSE
  /\ record = NoRecord

\* The medium is written by somebody else (a recorder still running).
Touch ==
  /\ image' \in Images
  /\ changed' = TRUE
  /\ UNCHANGED record

\* An acquisition opens the source.
Open ==
  /\ changed' = FALSE
  /\ UNCHANGED <<image, record>>

\* The previous manifest, if any, is given up before the new one is there.
Forget ==
  /\ record' = NoRecord
  /\ UNCHANGED <<image, changed>>

\* The manifest of one string of bytes is recorded: of the evidence itself if
\* it stood still, never over another manifest.
Record ==
  /\ record = NoRecord
  /\ record'.present
  /\ Describes(record'.manifest)
  /\ ~changed => record'.manifest.whole_image = image
  /\ UNCHANGED <<image, changed>>

Next == Touch \/ Open \/ Forget \/ Record

Spec == Init /\ [][Next]_vars
=============================================================================
