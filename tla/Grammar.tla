------------------------------- MODULE Grammar -------------------------------
(***************************************************************************)
(* What a grammar makes of bytes: ast.rs, detect.rs and interpreter.rs of  *)
(* the parser crate.  A grammar file is a record of                        *)
(*   id, tier          its name and validation tier                        *)
(*   plugin            does it name a descrambling plugin                  *)
(*   rules             a sequence of [offset, bytes, weight]               *)
(*   superblock        } the magic [offset, bytes] of these blocks, a set  *)
(*   partition_table   } with no element where the file leaves it out      *)
(*   header            [size, magic, fields] of a video block              *)
(*   payload           [offset, default_length]                            *)
(* A field is [role, type, offset, endian, masks].  Numbers keep the width *)
(* they have in the code: they are byte strings, the highest byte first.   *)
(***************************************************************************)
EXTENDS Integers, SequencesExt

CONSTANT Undecodable   \* a signature that is no hexadecimal number, or missing

Byte == 0 .. 255

\* What serde checks of a grammar file.
IsGrammar(g) ==
  /\ g.tier \in Nat /\ g.plugin \in BOOLEAN
  /\ Len(g.rules) \in Nat /\ DOMAIN g.rules = 1 .. Len(g.rules)
  /\ \A k \in DOMAIN g.rules :
       g.rules[k].weight \subseteq Int /\ \A v, w \in g.rules[k].weight : v = w
  /\ g.payload.offset \in Nat /\ g.payload.default_length \in Nat
  /\ Len(g.header.fields) \in Nat /\ DOMAIN g.header.fields = 1 .. Len(g.header.fields)
  /\ \A k \in DOMAIN g.header.fields : g.header.fields[k].offset \in Nat

Zeros(n) == [k \in 1 .. n |-> 0]

\* The n lowest bytes of a number: `as u32`, `as u16`.
Low(number, n) == SubSeq(number, Len(number) - n + 1, Len(number))

\* The number n in w bytes.
InBytes(n, w) ==
  LET shifted[k \in 0 .. w] == IF k = 0 THEN n ELSE shifted[k - 1] \div 256
  IN  [k \in 1 .. w |-> shifted[w - k] % 256]

\* Of two bytes.
ValueOf(number) == 256 * number[1] + number[2]

\* The bit that counts p in n.
BitIsSet(n, p) == (n \div p) % 2 = 1

\* m & n is not zero, for numbers of two bytes.
ShareABit(m, n) == \E k \in 0 .. 15 : BitIsSet(m, 2 ^ k) /\ BitIsSet(n, 2 ^ k)

\* &data[offset..offset + len] is the signature; data may be too short.
HasBytes(data, magic) ==
  /\ magic.bytes # Undecodable
  /\ magic.offset + Len(magic.bytes) <= Len(data)
  /\ SubSeq(data, magic.offset + 1, magic.offset + Len(magic.bytes)) = magic.bytes

----------------------------------------------------------------------------
\* detect.rs

MatchesGrammar(grammar, probe) ==
  /\ Len(grammar.rules) > 0
  /\ \A k \in DOMAIN grammar.rules : HasBytes(probe, grammar.rules[k])

\* The order the matches are sorted by: highest tier, then most rules.
Outranks(g, h) ==
  \/ g.tier > h.tier
  \/ g.tier = h.tier /\ Len(g.rules) > Len(h.rules)

\* The grammar chosen from a directory, in the order it is listed in; none
\* if nothing matches.  The sort is stable.
DetectGrammar(directory, probe) ==
  LET matching == {k \in DOMAIN directory : MatchesGrammar(directory[k], probe)}
      Precedes(k, l) ==
        \/ Outranks(directory[k], directory[l])
        \/ ~Outranks(directory[l], directory[k]) /\ k < l
  IN  {directory[k] : k \in {k \in matching : \A l \in matching \ {k} : Precedes(k, l)}}

----------------------------------------------------------------------------
\* interpreter.rs, read_field_value

Width == [u8 |-> 1, u16 |-> 2, u32 |-> 4, u64 |-> 8]

\* Mutant: numbers of more than one byte are read as they lie.
AsItLies(block, field) ==
  LET width == IF field.type \in DOMAIN Width THEN Width[field.type] ELSE 0
  IN  IF field.offset + width > Len(block)
      THEN Zeros(8)
      ELSE Zeros(8 - width) \o SubSeq(block, field.offset + 1, field.offset + width)

\* A u64.  A type that is not known and a field out of the block read as 0;
\* only "big" is big-endian.
ReadFieldValue(block, field) ==
  LET width == IF field.type \in DOMAIN Width THEN Width[field.type] ELSE 0
      bytes == SubSeq(block, field.offset + 1, field.offset + width)
  IN  IF field.offset + width > Len(block)
      THEN Zeros(8)
      ELSE Zeros(8 - width) \o (IF field.endian = "big" THEN bytes ELSE Reverse(bytes))

\* The loop over the fields overwrites what it found: the value of the last
\* field that counts.
OfLast(fields, Counts(_), Value(_), default) ==
  LET counting == {k \in DOMAIN fields : Counts(fields[k])}
  IN  IF counting = {} THEN default ELSE Value(fields[Max(counting)])

DefaultMask == [scrambled |-> 2, corrupted |-> 4]

\* The mask a flags field has for a flag, if it has one.  Masks that are
\* given replace the defaults, also for a flag they do not name.
MaskFor(field, flag) ==
  IF field.masks = {} THEN {DefaultMask[flag]}
  ELSE {masks[flag] : masks \in {m \in field.masks : flag \in DOMAIN m}}

\* Mutant: the number is kept as it was read.
ReadWidth(block, fields, role, width) ==
  OfLast(fields, LAMBDA f : f.role = role,
         LAMBDA f : ReadFieldValue(block, f), Zeros(width))

Number(block, fields, role, width) ==
  OfLast(fields, LAMBDA f : f.role = role,
         LAMBDA f : Low(ReadFieldValue(block, f), width), Zeros(width))

HasFlag(block, fields, flag) ==
  OfLast(fields, LAMBDA f : f.role = "flags" /\ MaskFor(f, flag) # {},
         LAMBDA f : \E mask \in MaskFor(f, flag) :
                      ShareABit(ValueOf(Low(ReadFieldValue(block, f), 2)), mask),
         FALSE)

\* A length counts if it is not zero and no more than the block.
PayloadLength(block, fields, default) ==
  LET Claims(f, n) == ReadFieldValue(block, f) = InBytes(n, 8)
  IN  OfLast(fields,
             LAMBDA f : f.role = "payload_length" /\ \E n \in 1 .. Len(block) : Claims(f, n),
             LAMBDA f : CHOOSE n \in 1 .. Len(block) : Claims(f, n),
             default)

----------------------------------------------------------------------------
\* interpreter.rs, interpret_block

\* A record of a block without a video header.
PlainRecord(index, offset, type, payload_offset, payload_len) ==
  [block_index    |-> index,
   byte_offset    |-> offset,
   channel_id     |-> Zeros(4),
   timestamp      |-> Zeros(8),
   sequence_num   |-> Zeros(4),
   payload_offset |-> payload_offset,
   payload_len    |-> payload_len,
   flags          |-> Zeros(2),
   is_scrambled   |-> FALSE,
   is_corrupted   |-> type = "unallocated_or_corrupted",
   block_type     |-> type,
   descrambled    |-> {}]

ParseVideoBlock(grammar, index, offset, block) ==
  LET fields == grammar.header.fields
  IN  [block_index    |-> index,
       byte_offset    |-> offset,
       channel_id     |-> Number(block, fields, "channel_id", 4),
       timestamp      |-> Number(block, fields, "timestamp", 8),
       sequence_num   |-> Number(block, fields, "sequence_num", 4),
       payload_offset |-> offset + grammar.payload.offset,
       payload_len    |-> PayloadLength(block, fields, grammar.payload.default_length),
       flags          |-> Number(block, fields, "flags", 2),
       is_scrambled   |-> HasFlag(block, fields, "scrambled"),
       is_corrupted   |-> HasFlag(block, fields, "corrupted"),
       block_type     |-> "video_frame",
       descrambled    |-> {}]

\* The record of a block; none is an error.  The places of a superblock and
\* a partition table are not looked at, only their magic, in every block.
InterpretBlock(grammar, index, offset, block) ==
  LET Shows(magics) == \E magic \in magics : HasBytes(block, magic)
      Whole(type) == PlainRecord(index, offset, type, offset, Len(block))
      Corrupted == PlainRecord(index, offset, "unallocated_or_corrupted",
                               offset + grammar.payload.offset,
                               grammar.payload.default_length)
  IN  IF \/ Len(block) < grammar.header.size
         \/ grammar.header.magic.bytes = Undecodable
      THEN {}
      ELSE {IF HasBytes(block, grammar.header.magic)
            THEN ParseVideoBlock(grammar, index, offset, block)
            ELSE IF Shows(grammar.superblock) THEN Whole("superblock")
            ELSE IF Shows(grammar.partition_table) THEN Whole("partition_table")
            ELSE Corrupted}
==============================================================================
