------------------------------- MODULE Identify -------------------------------
(***************************************************************************)
(* identify/src/lib.rs: which device an image comes from, by its first     *)
(* bytes.  Confidences are in hundredths.  `marks` names the signatures    *)
(* and texts of other formats those bytes show, a vendor's texts by the    *)
(* vendor; the start codes of bare video streams are looked for in the     *)
(* bytes.  Names, models and chipsets are left out.                        *)
(***************************************************************************)
EXTENDS Grammar

CONSTANT HeadSize   \* how far bare streams are looked for

Capped(confidence) == Min({99, confidence})

Candidate(grammar, tier, confidence) ==
  [grammar |-> {grammar}, tier |-> tier, confidence |-> confidence]

Unrecognized == [grammar |-> {}, tier |-> -1, confidence |-> 0]

----------------------------------------------------------------------------
\* Grammars: any rule that matches counts.

\* A rule's weight, a set with no element where the file gives none.
WeightOf(rule) == Max(IF rule.weight = {} THEN {80} ELSE rule.weight)

\* max_rule_weight and the bonus for more than one rule; a magic of the
\* superblock is tried at its offset in the image.
GrammarCandidate(grammar, probe) ==
  LET matched  == {k \in DOMAIN grammar.rules : HasBytes(probe, grammar.rules[k])}
      weight   == Max({WeightOf(grammar.rules[k]) : k \in matched} \cup {0})
      by_rules == Capped(weight + Min({8, 4 * (Cardinality(matched) - 1)}))
      has_superblock == \E magic \in grammar.superblock : HasBytes(probe, magic)
  IN  IF matched = {} THEN <<>>
      ELSE <<Candidate(grammar.id, grammar.tier,
                       IF has_superblock THEN Capped(by_rules + 2) ELSE by_rules)>>

\* The vendor registry: the first signature of a vendor that matches.  No
\* grammar belongs to it.
VendorCandidate(signatures, probe) ==
  LET matched == SelectSeq(signatures, LAMBDA s : HasBytes(probe, s))
  IN  IF matched = <<>> THEN <<>>
      ELSE <<[grammar |-> {}, tier |-> 0, confidence |-> matched[1].weight]>>

----------------------------------------------------------------------------
\* detect_video_container_or_stream: the first that fits, in this order.

\* Vendors in the order their texts are looked for.
Vendors == <<"Hikvision", "CP PLUS", "Dahua", "Uniview", "Tiandy",
             "Hanwha", "Xiongmai", "Axis", "Bosch">>

Mp4Of(vendor) ==
  CASE vendor = "Hikvision" -> "hikvision-mp4"
    [] vendor = "Dahua"     -> "dahua-mp4"
    [] OTHER                -> "cctv-mp4"

Mp4(marks) ==
  LET named == SelectSeq(Vendors, LAMBDA v : v \in marks)
  IN  IF "ftyp" \notin marks THEN <<>>
      ELSE IF "hikv" \in marks THEN <<Candidate("hikvision-mp4", 2, 95)>>
      ELSE IF "dhav" \in marks THEN <<Candidate("dahua-mp4", 2, 95)>>
      ELSE IF named # <<>> THEN <<Candidate(Mp4Of(named[1]), 2, 96)>>
      ELSE <<Candidate("cctv-mp4", 3, 92)>>

\* The byte behind the first long start code or, without one, the first
\* short one; its place is 0 if there is none.
StreamHeader(probe) ==
  LET head == SubSeq(probe, 1, Min({HeadSize, Len(probe)}))
      At(code) == {i \in DOMAIN head : HasBytes(head, [offset |-> i - 1, bytes |-> code])}
      code == IF At(<<0, 0, 0, 1>>) # {} THEN <<0, 0, 0, 1>> ELSE <<0, 0, 1>>
      next == Min(At(code)) + Len(code)
  IN  IF At(code) = {} \/ next > Len(probe) THEN 0 ELSE next

Stream(probe) ==
  LET place == StreamHeader(probe)
      byte  == probe[place]
      hevc_type == (byte \div 2) % 64
  IN  IF place = 0 \/ byte >= 128 THEN <<>>
      ELSE IF hevc_type \in 32 .. 34 /\ place < Len(probe)
           THEN <<Candidate("h265-stream", 3, 92)>>
      ELSE IF byte % 32 \in {1, 5, 6, 7, 8, 9}
           THEN <<Candidate("h264-stream", 3, 92)>>
      ELSE <<>>

\* A format known by one signature.
Known(marks, mark, id, confidence) ==
  IF mark \in marks THEN <<Candidate(id, 3, confidence)>> ELSE <<>>

Filesystem(marks) ==
  Known(marks, "NTFS", "standard-ntfs", 85) \o
  Known(marks, "FAT32", "standard-fat32", 85) \o
  Known(marks, "ext4", "standard-ext4", 85)

Picture(marks) ==
  Known(marks, "PNG", "image-png", 99) \o Known(marks, "JPEG", "image-jpeg", 99)

ContainerCandidate(marks, probe) ==
  LET found == Mp4(marks)
               \o Known(marks, "DHAV", "dahua-v1", 90)
               \o Known(marks, "AVI", "cctv-avi", 92)
               \o Known(marks, "EBML", "cctv-mkv", 92)
               \o Stream(probe)
               \o Known(marks, "MPEG-TS", "mpegts-stream", 88)
               \o Filesystem(marks)
               \o Picture(marks)
  IN  IF Len(probe) < 12 \/ found = <<>> THEN <<>> ELSE <<found[1]>>

----------------------------------------------------------------------------
\* identify_device

\* Mutant: the tier does not count.
ByConfidence(candidate) == candidate.confidence

Score(candidate) ==
  candidate.confidence + (CASE candidate.tier = 1 -> 20
                            [] candidate.tier = 2 -> 15
                            [] candidate.tier = 0 -> 8
                            [] OTHER              -> 0)

\* The first of the highest score.  Equal sums of different terms may differ
\* in the last digit of their floating-point numbers: either may be first.
Best(candidates) ==
  LET Alike(k, l) == /\ candidates[k].tier = candidates[l].tier
                     /\ candidates[k].confidence = candidates[l].confidence
  IN  {candidates[k] : k \in {k \in DOMAIN candidates :
        \A l \in DOMAIN candidates :
          /\ Score(candidates[l]) <= Score(candidates[k])
          /\ Alike(k, l) => k <= l}}

\* What identify_device may answer.  Only the best candidate is held against
\* MIN_CONFIDENCE_THRESHOLD.
IdentifyDevice(directory, registry, marks, probe) ==
  LET candidates ==
        FlattenSeq([k \in DOMAIN directory |-> GrammarCandidate(directory[k], probe)])
        \o FlattenSeq([k \in DOMAIN registry |-> VendorCandidate(registry[k], probe)])
        \o ContainerCandidate(marks, probe)
  IN  IF probe = <<>> \/ candidates = <<>>
      THEN {Unrecognized}
      ELSE {IF best.confidence >= 50 THEN best ELSE Unrecognized :
              best \in Best(candidates)}
===============================================================================
