----------------------------- MODULE MCPipeline -----------------------------
EXTENDS Pipeline, TLC

CONSTANTS o1, o2, b1, b2, w1, w2

Message(object, revision, epochs, occurredAt) ==
  [topic |-> CandidateTopic, key |-> object, parses |-> TRUE, texts |-> TRUE,
   type |-> "UPDATED", object |-> object, candidateRevision |-> revision,
   revision |-> revision, epochs |-> epochs, occurredAt |-> occurredAt]

(* Three revisions of one object around the boundary of the coarse mode, a *)
(* message under the key of another object, a candidate that declares more *)
(* epochs than its light curve has, and one whose time blocks the topic.   *)
MessagesOfTwoObjects ==
  << Message(o1, 1, 20, "later"),
     Message(o1, 2, 21, "later"),
     [Message(o2, 1, 3, "later") EXCEPT !.key = o1],
     Message(o2, 1, 4, "later"),
     Message(o1, 3, 1024, "later"),
     Message(o2, 2, 21, "zero") >>

LightCurve(object, revision) ==
  LET count == << 20, 21, 1024 >>[revision]
  IN  [status |-> 200, complete |-> TRUE, object |-> object, revision |-> revision,
       eligible |-> count, count |-> count, usable |-> TRUE, distinctTimes |-> TRUE]

(* The first light curve of o2 comes late. *)
LateCurves == {<<o2, 1>>}

LightCurves == [k \in {o1, o2} \X (1 .. 3) |-> LightCurve(k[1], k[2])]

BundleOf == [w \in {w1, w2} |-> IF w = w1 THEN b1 ELSE b2]
=============================================================================
