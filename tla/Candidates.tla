----------------------------- MODULE Candidates -----------------------------
(***************************************************************************)
(* What candidate-orchestrator computes for one message of the candidate   *)
(* topic (internal/application): whether it is a candidate, whether to     *)
(* classify it, and the ClassificationCommand it becomes.                  *)
(*                                                                         *)
(* A message is a record                                                   *)
(*   [topic, key, parses, texts, type, object, candidateRevision,          *)
(*    revision, epochs, occurredAt]                                        *)
(* where parses says that the value is a CandidateEvent, texts that its    *)
(* required strings are not empty, trimmed and free of NUL, and occurredAt *)
(* is "missing", "invalid", "zero" (the zero time of Go) or "later".       *)
(***************************************************************************)
EXTENDS Integers, Sequences, FiniteSets

MinimumEligibleEpochCount == 3

CandidateTopic == "candidates"

(* DecodeCandidateEventMessage returns no permanent error. *)
IsCandidate(m) ==
  /\ m.topic = CandidateTopic
  /\ m.parses
  /\ m.type \in {"CREATED", "UPDATED"}
  /\ m.texts
  /\ m.candidateRevision > 0
  /\ m.revision > 0
  /\ m.epochs >= MinimumEligibleEpochCount
  /\ m.key = m.object
  /\ m.occurredAt \in {"zero", "later"}

(* ClassificationPolicyV1: every candidate that decodes. *)
ShouldClassify(m) ==
  /\ m.type \in {"CREATED", "UPDATED"}
  /\ m.epochs >= MinimumEligibleEpochCount

(* BuildClassificationCommandMessage returns no error for a message that   *)
(* decoded.                                                                *)
CanBuildCommand(m) ==
  /\ ShouldClassify(m)
  /\ m.candidateRevision > 0
  /\ m.occurredAt # "zero"

(* The identity of a job: a name-based UUID of these four, which is taken  *)
(* to collide for no two of them.                                          *)
JobOf(object, revision, bundle, mode) ==
  [object |-> object, revision |-> revision, bundle |-> bundle, mode |-> mode]

(* The command for a candidate under the policy of a deployed bundle. *)
CommandFor(m, bundle) ==
  [key |-> m.object,
   job |-> JobOf(m.object, m.revision, bundle, "PRODUCTION"),
   object |-> m.object,
   candidateRevision |-> m.candidateRevision,
   revision |-> m.revision,
   declaredEpochs |-> m.epochs,
   bundle |-> bundle,
   mode |-> "PRODUCTION",
   priority |-> "REALTIME",
   createdAt |-> m.occurredAt]
=============================================================================
