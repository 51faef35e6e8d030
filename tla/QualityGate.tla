------------------------------ MODULE QualityGate ------------------------------
(***************************************************************************)
(* The extraction quality gate (kernel/sidecar/quality_gate.py) and the    *)
(* correction lookup it consults (kernel/sidecar/memory_store.py).         *)
(*                                                                         *)
(* Confidences are hundredths, 0..100: every constant of the code          *)
(* (0.5, 0.2, 0.15, 0.01) is a whole number of them, so the comparisons    *)
(* come out as in the code up to its floating point rounding.              *)
(***************************************************************************)
EXTENDS Integers, FiniteSets

CONSTANTS
  FlagThreshold,   \* _FLAG_THRESHOLD: below it a value is flagged
  BlockThreshold,  \* _BLOCK_THRESHOLD: below it a value is blocked
  Penalty,         \* penalty_per_correction
  Window,          \* k: how many corrections the gate looks at
  NoChunk          \* an empty chunk_id, and the anchor of a value without one

\* LocalQualityGate.__init__ rejects block_threshold >= flag_threshold; a
\* positive block threshold is what makes the ungrounded penalty bite.
ASSUME GateAssumption ==
  /\ FlagThreshold \in 1..100
  /\ BlockThreshold \in 1..100
  /\ BlockThreshold < FlagThreshold
  /\ Penalty \in Nat
  /\ Window \in Nat

Confidence == 0..100
Methods == {"exact", "fuzzy", "semantic", "visual", "block"}
Verdicts == {"pass", "flag", "block"}

-----------------------------------------------------------------------------
(* MemoryStoreImpl.search_similar_corrections.  history lists the           *)
(* corrections oldest first; fieldOf[i] is the field of the extraction the  *)
(* i-th one joins with, or no field when that extraction is not stored.     *)
(* The query keeps the Window most recent ones of the field; the similarity *)
(* score computed afterwards only reorders those.                           *)

OfField(fieldOf, field) == {i \in DOMAIN fieldOf : fieldOf[i] = field}

SimilarCorrections(fieldOf, field) ==
  LET matching == OfField(fieldOf, field)
  IN  {i \in matching : Cardinality({j \in matching : j > i}) < Window}

\* LocalQualityGate._calibrate_with_corrections counts the corrections that
\* changed the field to something else than value.
Contradicting(history, fieldOf, field, value) ==
  {i \in SimilarCorrections(fieldOf, field) : history[i].corrected # value}

-----------------------------------------------------------------------------
(* LocalQualityGate.check *)

\* Mutant of Ungrounded: only the chunk_id is looked at.
UngroundedByChunkOnly(ext) == ext.chunk = NoChunk

Ungrounded(ext) ==
  \/ ext.chunk = NoChunk
  \/ ext.method = "block"
  \/ ext.anchor = NoChunk

\* Mutant of GroundedConfidence: the penalty ends at the threshold itself.
GroundedConfidenceAtThreshold(ext) ==
  IF Ungrounded(ext) /\ ext.conf >= BlockThreshold THEN BlockThreshold
  ELSE ext.conf

\* The confidence after the grounding check.
GroundedConfidence(ext) ==
  IF Ungrounded(ext) /\ ext.conf >= BlockThreshold
    THEN BlockThreshold - 1
    ELSE ext.conf

Clamp(c) == IF c < 0 THEN 0 ELSE IF c > 100 THEN 100 ELSE c

\* n is the number of contradicting corrections.
Calibrated(ext, n) == Clamp(GroundedConfidence(ext) - n * Penalty)

RouteVerdict(c) ==
  IF c < BlockThreshold THEN "block"
  ELSE IF c < FlagThreshold THEN "flag"
  ELSE "pass"
=============================================================================
