------------------------------ MODULE Analytics ------------------------------
(***************************************************************************)
(* analytics/src/lib.rs: what analyze makes of the payload of a record,    *)
(* and of the analyses of all of them.  Scores are in ten-thousandths and  *)
(* rounded down.  The sides of a box are whole numbers of 1/25500 of the   *)
(* picture.  Attributes are left out.                                      *)
(***************************************************************************)
EXTENDS Ordering, SequencesExt

CONSTANT Digest(_)   \* the first four bytes of BLAKE3 (external)

One  == 10000
Side == 25500

\* The mean change from byte to byte, of 128.
MotionEnergy(payload) ==
  LET Larger(k)  == Max({payload[k], payload[k + 1]})
      Smaller(k) == Min({payload[k], payload[k + 1]})
      pairs == Len(payload) - 1
      total_gradient[k \in 0 .. pairs] ==
        IF k = 0 THEN 0 ELSE total_gradient[k - 1] + (Larger(k) - Smaller(k))
  IN  IF pairs < 3 THEN 0 ELSE Min({One, (One * total_gradient[pairs]) \div (128 * pairs)})

\* Mutant: the box begins where the digest says.
BoxFrom(d) ==
  LET width  == 3825 + 25 * d[3]
      height == 6375 + 40 * d[4]
  IN  [x_min |-> 100 * d[1], y_min |-> 100 * d[2],
       x_max |-> Min({100 * d[1] + width, Side}), y_max |-> Min({100 * d[2] + height, Side})]

\* The box proposed for a digest.
Box(d) ==
  LET width  == 3825 + 25 * d[3]
      height == 6375 + 40 * d[4]
      x_min  == Min({100 * d[1], Side - width})
      y_min  == Min({100 * d[2], Side - height})
  IN  [x_min |-> x_min, y_min |-> y_min,
       x_max |-> Min({x_min + width, Side}), y_max |-> Min({y_min + height, Side})]

\* The box of a second entity, across from the first.
BoxAcross(box) ==
  LET x_min == Max({Side - box.x_max, 0})
      y_min == Min({box.y_min + 2550, 15300})
  IN  [x_min |-> x_min, y_min |-> y_min,
       x_max |-> Min({x_min + 5100, Side}), y_max |-> Min({y_min + 6375, Side})]

\* The class of a box by its aspect ratio, 1.4 and 0.9, and what it counts.
Classes == [person |-> 8800, vehicle |-> 8500, face |-> 8000]

ClassOf(box) ==
  LET height == 100 * (box.y_max - box.y_min)
      Width(percent) == (percent * (10 * (box.x_max - box.x_min) + 255)) \div 10
  IN  IF height > Width(140) THEN "person"
      ELSE IF height < Width(90) THEN "vehicle"
      ELSE "face"

Entities(payload, is_keyframe, motion) ==
  LET box   == Box(Digest(payload))
      class == ClassOf(box)
      first ==
        [class_label |-> class, bbox |-> box,
         confidence |-> Min({9800, Max({6000, Classes[class] + motion \div 10})})]
      second ==
        [class_label |-> "motion_cluster", bbox |-> BoxAcross(box), confidence |-> 7800]
  IN  IF Len(payload) < 32 \/ (~is_keyframe /\ motion <= 3500) THEN <<>>
      ELSE IF is_keyframe /\ motion > 4000 THEN <<first, second>>
      ELSE <<first>>

\* Mutant: a keyframe counts half.
HalfBoost(motion, entities, is_keyframe) ==
  LET top == Max({entities[k].confidence : k \in DOMAIN entities} \cup {0})
  IN  Min({One, (4 * motion + 4 * top) \div 10 + (IF is_keyframe THEN 1000 ELSE 0)})

Relevance(motion, entities, is_keyframe) ==
  LET top == Max({entities[k].confidence : k \in DOMAIN entities} \cup {0})
  IN  Min({One, (4 * motion + 4 * top) \div 10 + (IF is_keyframe THEN 2000 ELSE 0)})

AnalyzeFrame(record, payload, is_keyframe) ==
  LET motion   == MotionEnergy(payload)
      entities == Entities(payload, is_keyframe, motion)
  IN  [block_index     |-> record.block_index,
       channel_id      |-> record.channel_id,
       timestamp       |-> record.timestamp,
       motion_energy   |-> motion,
       relevance_score |-> Relevance(motion, entities, is_keyframe),
       entities        |-> entities]

\* The highest scores first; the sort is stable.
ByRelevance(analyses) ==
  {p \in (DOMAIN analyses) \X (DOMAIN analyses) :
     LET a == analyses[p[1]].relevance_score
         b == analyses[p[2]].relevance_score
     IN  a > b \/ (a = b /\ p[1] < p[2])}

\* Of the analyses, as many as asked for are shown.
SummarizeAnalytics(analyses, min_relevance, limit_leads) ==
  LET ranked == Arranged(analyses, DOMAIN analyses, ByRelevance(analyses))
      found  == FlattenSeq([k \in DOMAIN analyses |-> analyses[k].entities])
      Relevant == {k \in DOMAIN analyses : analyses[k].relevance_score >= min_relevance}
      OfClass(class) == {k \in DOMAIN found : found[k].class_label = class}
  IN  [total_frames_analyzed   |-> Len(analyses),
       total_entities_detected |-> Len(found),
       high_relevance_frames   |-> Cardinality(Relevant),
       entity_counts           |->
         [class \in {found[k].class_label : k \in DOMAIN found} |->
            Cardinality(OfClass(class))],
       top_leads               |-> SubSeq(ranked, 1, Min({limit_leads, Len(ranked)}))]
==============================================================================
