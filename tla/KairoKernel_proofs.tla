-------------------------- MODULE KairoKernel_proofs --------------------------
(***************************************************************************)
(* Proofs about the document kernel, for every number of runs, chunks and  *)
(* corrections, every document and every pack.                             *)
(***************************************************************************)
EXTENDS KairoKernel, FiniteSetTheorems, TLAPS

-----------------------------------------------------------------------------
(* The gate *)

\* Whatever the corrections, the calibrated confidence is a confidence.
LEMMA CalibratedType ==
  ASSUME NEW ext, ext.conf \in Confidence, NEW n \in Nat
  PROVE  Calibrated(ext, n) \in Confidence
<1>1. GroundedConfidence(ext) \in Int
  BY GateAssumption DEF GateAssumption, GroundedConfidence, Confidence
<1>2. n * Penalty \in Int
  BY GateAssumption DEF GateAssumption
<1>3. GroundedConfidence(ext) - n * Penalty \in Int
  BY <1>1, <1>2
<1> QED
  BY <1>3 DEF Calibrated, Clamp, Confidence

\* The penalty of a value without a citation brings it below the block
\* threshold, and corrections only ever lower it further.
LEMMA UngroundedBlocks ==
  ASSUME NEW ext, ext.conf \in Confidence, NEW n \in Nat, Ungrounded(ext)
  PROVE  RouteVerdict(Calibrated(ext, n)) = "block"
<1>1. GroundedConfidence(ext) \in Int /\ GroundedConfidence(ext) < BlockThreshold
  BY GateAssumption DEF GateAssumption, GroundedConfidence, Confidence
<1>2. n * Penalty \in Nat
  BY GateAssumption DEF GateAssumption
<1>3. GroundedConfidence(ext) - n * Penalty < BlockThreshold
  BY <1>1, <1>2, GateAssumption DEF GateAssumption
<1>4. Calibrated(ext, n) < BlockThreshold
  BY <1>1, <1>2, <1>3, GateAssumption DEF GateAssumption, Calibrated, Clamp
<1> QED
  BY <1>4 DEF RouteVerdict

\* A value that passes kept the flag threshold of confidence.
LEMMA PassKeepsThreshold ==
  ASSUME NEW c \in Int, RouteVerdict(c) = "pass"
  PROVE  c >= FlagThreshold
BY GateAssumption DEF GateAssumption, RouteVerdict

\* The lookup returns finitely many corrections.
LEMMA ContradictionsFinite ==
  ASSUME NEW f \in Fields, corrections \in Seq(Correction)
  PROVE  /\ IsFiniteSet(Contradictions(f))
         /\ Cardinality(Contradictions(f)) \in Nat
<1>1. DOMAIN CorrectedField = 1..Len(corrections) /\ Len(corrections) \in Nat
  BY DEF CorrectedField
<1>2. IsFiniteSet(1..Len(corrections))
  BY <1>1, FS_Interval
<1>3. Contradictions(f) \subseteq 1..Len(corrections)
  BY <1>1 DEF Contradictions, Contradicting, SimilarCorrections, OfField
<1> QED
  BY <1>2, <1>3, FS_Subset, FS_CardinalityType

-----------------------------------------------------------------------------
(* Types *)

LEMMA RowOfType ==
  ASSUME NEW ext \in Extraction
  PROVE  RowOf(ext) \in Row
BY DEF RowOf, Row, Extraction

LEMMA FromPackType ==
  ASSUME run \in Runs, NEW out \in PackOutputs
  PROVE  /\ FromPack(out) \in Extraction
         /\ FromPack(out).chunk \in ChunksOf(run) \cup {NoChunk}
<1>1. out \in [value : Values, span : Values \cup {NoText},
               conf : Confidence, at : 0..NChunks]
  BY KernelAssumption DEF KernelAssumption
<1>2. out.at # 0 => <<run, out.at>> \in ChunksOf(run)
  BY <1>1, KernelAssumption DEF ChunksOf, KernelAssumption
<1>3. ChunksOf(run) \subseteq ChunkIds
  BY DEF ChunksOf, ChunkIds
<1> QED
  BY <1>1, <1>2, <1>3 DEF FromPack, Extraction, Methods

\* Grounding keeps the type.
LEMMA GroundedKeepsType ==
  ASSUME run \in Runs, NEW ext \in Extraction, NEW g \in Groundings(ext)
  PROVE  Grounded(ext, g) \in Extraction
<1>1. ChunksOf(run) \subseteq ChunkIds
  BY DEF ChunksOf, ChunkIds
<1>2. g.method \in Methods /\ g.anchor \in ChunkIds \cup {NoChunk}
  BY <1>1 DEF Groundings, FirstContaining, Containing, ChunksOf, Methods
<1> QED
  BY <1>2 DEF Grounded, Extraction

\* Grounding keeps the type, cites a chunk of the run's own document, and
\* makes the extraction resolved.
LEMMA GroundedType ==
  ASSUME run \in Runs,
         NEW ext \in Extraction, ext.chunk \in ChunksOf(run) \cup {NoChunk},
         NEW g \in Groundings(ext)
  PROVE  /\ Grounded(ext, g) \in Extraction
         /\ Grounded(ext, g).chunk \in ChunksOf(run) \cup {NoChunk}
         /\ Resolved(Grounded(ext, g))
<1>0. ChunksOf(run) \subseteq ChunkIds /\ NoChunk \notin ChunksOf(run)
  BY KernelAssumption DEF ChunksOf, ChunkIds, KernelAssumption
<1>1. CASE Containing(ext) # {}
  <2>1. /\ g.method = "exact" /\ g.anchor \in ChunksOf(run)
        /\ Target(ext) \in text[g.anchor[2]]
    BY <1>1 DEF Groundings, FirstContaining, Containing, ChunksOf
  <2>2. Grounded(ext, g) = [ext EXCEPT !.method = "exact", !.anchor = g.anchor,
                                       !.chunk = g.anchor]
    BY <2>1, <1>0 DEF Grounded
  <2>3. Target(Grounded(ext, g)) = Target(ext)
    BY <2>2 DEF Target, Extraction
  <2> QED
    BY <2>1, <2>2, <2>3, <1>0 DEF Extraction, Methods, Resolved
<1>2. CASE Containing(ext) = {}
  <2>1. \/ g.method \in {"fuzzy", "semantic", "visual"} /\ g.anchor \in ChunksOf(run)
        \/ g.method = "block" /\ g.anchor = NoChunk
    BY <1>2 DEF Groundings, ChunksOf
  <2>2. Grounded(ext, g) =
          [ext EXCEPT !.method = g.method, !.anchor = g.anchor,
                      !.chunk = IF g.anchor = NoChunk THEN @ ELSE g.anchor]
    BY DEF Grounded
  <2> QED
    BY <2>1, <2>2, <1>0 DEF Extraction, Methods, Resolved
<1> QED
  BY <1>1, <1>2

\* The gate keeps the type; it changes nothing but confidence and status.
LEMMA GatedType ==
  ASSUME NEW f \in Fields, corrections \in Seq(Correction),
         pending[f] \in Extraction
  PROVE  /\ Gated(f) \in Extraction
         /\ \A fld \in {"value", "span", "chunk", "method", "anchor"} :
              Gated(f)[fld] = pending[f][fld]
         /\ Gated(f).conf = GateConfidence(f)
         /\ GateConfidence(f) \in Confidence
<1>1. pending[f].conf \in Confidence
  BY DEF Extraction
<1>2. GateConfidence(f) \in Confidence
  BY <1>1, ContradictionsFinite, CalibratedType DEF GateConfidence
<1> QED
  BY <1>2 DEF Gated, Extraction

LEMMA InitType == Init => TypeOK
<1> SUFFICES ASSUME Init PROVE TypeOK
  OBVIOUS
<1>1. MaxRuns \in Nat
  BY KernelAssumption DEF KernelAssumption
<1>2. corrections \in Seq(Correction)
  BY DEF Init
<1> QED
  BY <1>1, <1>2 DEF Init, TypeOK, Phases, Outcomes, NoTrace, NoExts, Unregistered

\* Every step of the kernel preserves the types.
LEMMA NextType == TypeOK /\ [Next]_vars => TypeOK'
<1> SUFFICES ASSUME TypeOK, [Next]_vars PROVE TypeOK'
  OBVIOUS
<1> USE DEF TypeOK
<1>1. CASE CaptureContext
  <2>1. run' \in Runs /\ run' \in 0..MaxRuns
    BY <1>1, KernelAssumption DEF CaptureContext, Runs, KernelAssumption
  <2>2. text' \in [1..NChunks -> SUBSET Values]
    BY <1>1, KernelAssumption DEF CaptureContext, KernelAssumption
  <2> QED
    BY <1>1, <2>1, <2>2 DEF CaptureContext, Raise, Finish, Phases, Outcomes,
       NoTrace, NoExts, provVars, storeVars, historyVars
<1>2. CASE RegisterDocument
  BY <1>2 DEF RegisterDocument, Raise, Finish, Phases, Outcomes, NoExts, historyVars
<1>3. ASSUME NEW k \in 1..NChunks, RegisterChunk(k) PROVE TypeOK'
  <2>1. <<run, k>> \in ChunkIds
    BY <1>3 DEF RegisterChunk, ChunkIds
  <2> QED
    BY <1>3, <2>1 DEF RegisterChunk, Raise, Finish, Phases, Outcomes, NoExts, historyVars
<1>4. CASE Screen
  BY <1>4 DEF Screen, Raise, Finish, Phases, Outcomes, NoExts, provVars, storeVars, historyVars
<1>5. CASE Compress
  BY <1>5 DEF Compress, Raise, Finish, Phases, Outcomes, NoExts, provVars, storeVars, historyVars
<1>6. CASE Extract
  <2>1. pending' \in [Fields -> Extraction \cup {NoExt}]
    <3>1. CASE UNCHANGED pending
      BY <3>1
    <3>2. ASSUME NEW found \in SUBSET Fields, NEW out \in [found -> PackOutputs],
                 pending' = [f \in Fields |->
                               IF f \in found THEN FromPack(out[f]) ELSE NoExt]
          PROVE  pending' \in [Fields -> Extraction \cup {NoExt}]
      <4>1. \A f \in found : FromPack(out[f]) \in Extraction
        BY <1>6, FromPackType DEF Extract
      <4> QED
        BY <3>2, <4>1
    <3> QED
      BY <1>6, <3>1, <3>2 DEF Extract
  <2> QED
    BY <1>6, <2>1 DEF Extract, Raise, Finish, Phases, Outcomes, NoExts, provVars,
       storeVars, historyVars
<1>7. CASE Ground
  <2>1. PICK g \in [Found -> UNION {Groundings(pending[f]) : f \in Found}] :
          /\ \A f \in Found : g[f] \in Groundings(pending[f])
          /\ pending' = [f \in Fields |-> IF f \in Found THEN Grounded(pending[f], g[f])
                                          ELSE NoExt]
    BY <1>7 DEF Ground
  <2>2. \A f \in Found : Grounded(pending[f], g[f]) \in Extraction
    BY <1>7, <2>1, GroundedKeepsType DEF Ground, Found
  <2>3. pending' \in [Fields -> Extraction \cup {NoExt}]
    BY <2>1, <2>2
  <2> QED
    BY <1>7, <2>3 DEF Ground, Phases, provVars, storeVars, historyVars
<1>8. ASSUME NEW f \in Fields, RecordExtraction(f) PROVE TypeOK'
  <2>1. pending[f] \in Extraction /\ <<run, f>> \in ExtIds
    BY <1>8 DEF RecordExtraction, Found, ExtIds
  <2>2. provExts' \in [ExtIds -> Extraction \cup {NoExt}]
    BY <1>8, <2>1 DEF RecordExtraction
  <2>3. storeExts' \in [ExtIds -> Row \cup {NoExt}]
    BY <1>8, <2>1, RowOfType DEF RecordExtraction
  <2> QED
    BY <1>8, <2>2, <2>3 DEF RecordExtraction, Raise, Finish, Phases, Outcomes, NoExts,
       historyVars
<1>9. CASE Gate
  <2>1. \A f \in Found : Gated(f) \in Extraction
    BY GatedType DEF Found
  <2>2. [f \in Fields |-> IF f \in Found THEN Gated(f) ELSE NoExt]
          \in [Fields -> Extraction \cup {NoExt}]
    BY <2>1
  <2>3. trace' \in [outcome : Outcomes, exts : [Fields -> Extraction \cup {NoExt}],
                    suggest : SUBSET Fields]
    BY <1>9, <2>2 DEF Gate, Raise, Finish, Outcomes, NoExts, Found
  <2> QED
    BY <1>9, <2>3 DEF Gate, Raise, Finish, Phases, provVars, storeVars, historyVars
<1>10. CASE Respond
  <2>1. \A f \in Listed : trace.exts[f] \in Extraction /\ <<run, f>> \in ExtIds
    BY <1>10 DEF Respond, Listed, ExtIds
  <2>2. \A f \in Listed : Suggestion(f) \in Shown /\ Proposal(f) \in Valued
    BY <2>1 DEF Suggestion, Proposal, Shown, Valued, Extraction
  <2> QED
    BY <1>10, <2>2 DEF Respond, Phases, storeVars
<1>11. ASSUME NEW s \in shown, NEW accept \in BOOLEAN, Apply(s, accept) PROVE TypeOK'
  <2>1. [ext |-> s.ext, value |-> s.value] \in Valued
    BY DEF Shown, Valued
  <2> QED
    BY <1>11, <2>1 DEF Apply, jobVars, provVars, storeVars
<1>12. ASSUME NEW s \in shown, NEW v \in Values \cup {NoText}, Correct(s, v) PROVE TypeOK'
  <2>1. [ext |-> s.ext, original |-> s.value, corrected |-> v] \in Correction
    BY DEF Shown, Correction
  <2>2. corrections' \in Seq(Correction)
    BY <1>12, <2>1 DEF Correct
  <2> QED
    BY <1>12, <2>2 DEF Correct, jobVars, provVars, historyVars
<1>13. CASE Crash
  BY <1>13 DEF Crash, Phases, Outcomes, NoTrace, NoExts, Unregistered, storeVars, historyVars
<1>14. CASE UNCHANGED vars
  BY <1>14 DEF vars, jobVars, provVars, storeVars, historyVars
<1> QED
  BY <1>1, <1>2, <1>3, <1>4, <1>5, <1>6, <1>7, <1>8, <1>9, <1>10, <1>11, <1>12,
     <1>13, <1>14 DEF Next, RunStep

\* TypeOK holds in every reachable state.
THEOREM TypeCorrect == Spec => []TypeOK
BY InitType, NextType, PTL DEF Spec

-----------------------------------------------------------------------------
(* The bookkeeping of a run, and the safety properties it carries *)

\* A step that moves the phase on or ends the run, and records nothing, keeps
\* everything that is about the graph, the store and the clients.
LEMMA QuietStep ==
  ASSUME IInv, UNCHANGED <<run, provVars, storeVars, historyVars>>,
         phase # "idle"
  PROVE  /\ IdsFresh' /\ ShownStored' /\ StoredChainsResolve'
         /\ ActionsBacked' /\ AppliedAsConfirmed'
<1> USE DEF IInv, Bookkeeping, TypeOK, provVars, storeVars, historyVars
<1>1. IdsFresh'
  BY DEF IdsFresh
<1>2. ShownStored'
  BY DEF ShownStored
<1>3. StoredChainsResolve'
  BY DEF StoredChainsResolve
<1>4. ActionsBacked'
  BY DEF ActionsBacked, Verified, ChainComplete
<1>5. AppliedAsConfirmed'
  BY DEF AppliedAsConfirmed
<1> QED
  BY <1>1, <1>2, <1>3, <1>4, <1>5

\* A run that ends by an exception or a halt leaves no extraction behind.
LEMMA RaiseClean ==
  ASSUME NEW o \in Outcomes, o # "ok", Raise(o)
  PROVE  /\ RegisteredSoFar' /\ PendingGrounded' /\ PendingRecorded'
         /\ TraceRecorded' /\ UngroundedHaltsRun'
<1>1. phase' = "respond" /\ trace' = [outcome |-> o, exts |-> NoExts, suggest |-> {}]
  BY DEF Raise, Finish
<1>2. \A f \in Fields : trace'.exts[f] = NoExt
  BY <1>1 DEF NoExts
<1> QED
  BY <1>1, <1>2 DEF RegisteredSoFar, PendingGrounded, PendingRecorded, TraceRecorded,
     UngroundedHaltsRun, Stages

\* While a run is in progress its trace is empty.
LEMMA NoTraceYet ==
  ASSUME IInv, phase \notin {"idle", "respond"}
  PROVE  /\ \A f \in Fields : trace.exts[f] = NoExt
         /\ trace.suggest = {}
BY DEF IInv, TypeOK, Bookkeeping, TraceRecorded

\* A step that stays inside the run keeps the trace as it is, empty.
LEMMA TraceStillEmpty ==
  ASSUME IInv, phase \notin {"idle", "respond"}, UNCHANGED trace
  PROVE  TraceRecorded' /\ UngroundedHaltsRun'
BY NoTraceYet DEF TraceRecorded, UngroundedHaltsRun

LEMMA InitInv == Init => IInv
<1> SUFFICES ASSUME Init PROVE IInv
  OBVIOUS
<1>1. TypeOK
  BY InitType
<1>2. \A f \in Fields : trace.exts[f] = NoExt
  BY DEF Init, NoTrace, NoExts
<1>3. Bookkeeping
  BY <1>2 DEF Init, Bookkeeping, RegisteredSoFar, IdsFresh, PendingGrounded, PendingRecorded,
     TraceRecorded, ShownStored, Stages, NoTrace
<1>4. StoredChainsResolve /\ ActionsBacked /\ UngroundedHaltsRun /\ AppliedAsConfirmed
  BY <1>2 DEF Init, StoredChainsResolve, ActionsBacked, UngroundedHaltsRun,
     AppliedAsConfirmed, Unregistered
<1> QED
  BY <1>1, <1>3, <1>4 DEF IInv

LEMMA CaptureContextInv == IInv /\ TypeOK' /\ CaptureContext => IInv'
<1> SUFFICES ASSUME IInv, TypeOK', CaptureContext PROVE IInv'
  OBVIOUS
<1> USE DEF IInv, Bookkeeping, TypeOK, provVars, storeVars, historyVars
<1>0. /\ phase = "idle" /\ run' = run + 1 /\ run \in Nat
      /\ UNCHANGED <<provVars, storeVars, historyVars>>
  BY DEF CaptureContext
<1>1. IdsFresh'
  BY <1>0 DEF IdsFresh, ChunkIds, Runs, Shown, Valued, ExtIds
<1>2. ShownStored' /\ StoredChainsResolve' /\ AppliedAsConfirmed'
  BY <1>0 DEF ShownStored, StoredChainsResolve, AppliedAsConfirmed
<1>3. ActionsBacked'
  BY <1>0 DEF ActionsBacked, Verified, ChainComplete
<1>4. CASE Raise("halted")
  BY <1>1, <1>2, <1>3, <1>4, RaiseClean DEF Outcomes
<1>5. CASE phase' = "document" /\ trace' = NoTrace
  <2>1. \A c \in ChunksOf(run') : c \notin provChunks
    BY <1>0 DEF IdsFresh, ChunksOf
  <2>2. RegisteredSoFar'
    BY <1>0, <1>5, <2>1 DEF RegisteredSoFar, Stages, ChunksOf
  <2>3. PendingGrounded' /\ PendingRecorded'
    BY <1>5 DEF CaptureContext, PendingGrounded, PendingRecorded
  <2>4. TraceRecorded' /\ UngroundedHaltsRun'
    BY <1>5 DEF TraceRecorded, UngroundedHaltsRun, NoTrace, NoExts
  <2> QED
    BY <1>1, <1>2, <1>3, <2>2, <2>3, <2>4
<1> QED
  BY <1>4, <1>5 DEF CaptureContext

LEMMA RegisterDocumentInv == IInv /\ TypeOK' /\ RegisterDocument => IInv'
<1> SUFFICES ASSUME IInv, TypeOK', RegisterDocument PROVE IInv'
  OBVIOUS
<1> USE DEF IInv, Bookkeeping, TypeOK, historyVars
<1>0. /\ phase = "document" /\ provDocs' = provDocs \cup {run}
      /\ storeDocs \subseteq storeDocs'
      /\ UNCHANGED <<run, text, pending, recorded, provChunks, provExts, actions,
                     storeChunks, storeExts, corrections, historyVars>>
  BY DEF RegisterDocument
<1>1. IdsFresh' /\ ShownStored' /\ StoredChainsResolve' /\ AppliedAsConfirmed'
  BY <1>0 DEF IdsFresh, ShownStored, StoredChainsResolve, AppliedAsConfirmed
<1>2. ActionsBacked'
  BY <1>0 DEF ActionsBacked, Verified, ChainComplete
<1>3. CASE Raise("error")
  BY <1>1, <1>2, <1>3, RaiseClean DEF Outcomes
<1>4. CASE storeDocs' = storeDocs \cup {run} /\ phase' = "chunks" /\ UNCHANGED trace
  <2>1. RegisteredSoFar'
    BY <1>0, <1>4 DEF RegisteredSoFar, Stages, ChunksOf
  <2>2. PendingGrounded' /\ PendingRecorded'
    BY <1>0, <1>4 DEF PendingGrounded, PendingRecorded
  <2>3. TraceRecorded' /\ UngroundedHaltsRun'
    BY <1>0, <1>4, TraceStillEmpty
  <2> QED
    BY <1>1, <1>2, <2>1, <2>2, <2>3
<1> QED
  BY <1>3, <1>4 DEF RegisterDocument

LEMMA RegisterChunkInv ==
  ASSUME NEW k \in 1..NChunks, IInv, TypeOK', RegisterChunk(k)
  PROVE  IInv'
<1> USE DEF IInv, Bookkeeping, TypeOK, historyVars
<1>0. /\ phase = "chunks" /\ provChunks' = provChunks \cup {<<run, k>>}
      /\ storeChunks' \in {storeChunks, storeChunks \cup {<<run, k>>}}
      /\ UNCHANGED <<run, text, pending, recorded, provDocs, provExts, actions,
                     storeDocs, storeExts, corrections, historyVars>>
      /\ \A l \in 1..NChunks : l < k => <<run, l>> \in provChunks
  BY DEF RegisterChunk
<1>1. IdsFresh' /\ ShownStored' /\ AppliedAsConfirmed'
  BY <1>0 DEF IdsFresh, ShownStored, AppliedAsConfirmed
<1>2. StoredChainsResolve'
  BY <1>0 DEF StoredChainsResolve, RegisteredSoFar, Stages
<1>3. ActionsBacked'
  BY <1>0 DEF ActionsBacked, Verified, ChainComplete
<1>4. CASE Raise("error")
  BY <1>1, <1>2, <1>3, <1>4, RaiseClean DEF Outcomes
<1>5. CASE /\ storeChunks' = storeChunks \cup {<<run, k>>}
           /\ phase' = IF k = NChunks THEN "screen" ELSE "chunks"
           /\ UNCHANGED trace
  <2>1. \A c \in ChunksOf(run) : c \in provChunks' => c \in storeChunks'
    BY <1>0, <1>5 DEF RegisteredSoFar
  <2>2. k = NChunks => ChunksOf(run) \subseteq provChunks'
    BY <1>0, KernelAssumption DEF KernelAssumption, ChunksOf
  <2>3. RegisteredSoFar'
    BY <1>0, <1>5, <2>1, <2>2 DEF RegisteredSoFar, Stages, ChunksOf
  <2>4. PendingGrounded' /\ PendingRecorded'
    BY <1>0, <1>5 DEF PendingGrounded, PendingRecorded
  <2>5. TraceRecorded' /\ UngroundedHaltsRun'
    BY <1>0, <1>5, TraceStillEmpty
  <2> QED
    BY <1>1, <1>2, <1>3, <2>3, <2>4, <2>5
<1> QED
  BY <1>4, <1>5 DEF RegisterChunk

LEMMA ScreenInv == IInv /\ TypeOK' /\ (Screen \/ Compress) => IInv'
<1> SUFFICES ASSUME IInv, TypeOK', Screen \/ Compress PROVE IInv'
  OBVIOUS
<1> USE DEF IInv, Bookkeeping
<1>0. /\ phase \in {"screen", "compress"}
      /\ UNCHANGED <<run, text, pending, recorded, provVars, storeVars, historyVars>>
      /\ \/ Raise("blocked") \/ Raise("engine_error")
         \/ phase' \in {"compress", "extract"} /\ UNCHANGED trace
  BY DEF Screen, Compress
<1>1. IdsFresh' /\ ShownStored' /\ StoredChainsResolve' /\ ActionsBacked' /\ AppliedAsConfirmed'
  BY <1>0, QuietStep
<1>2. CASE Raise("blocked") \/ Raise("engine_error")
  BY <1>1, <1>2, RaiseClean DEF Outcomes
<1>3. CASE phase' \in {"compress", "extract"} /\ UNCHANGED trace
  <2>1. RegisteredSoFar' /\ PendingGrounded' /\ PendingRecorded'
    BY <1>0, <1>3 DEF RegisteredSoFar, PendingGrounded, PendingRecorded, Stages, ChunksOf,
       provVars, storeVars
  <2>2. TraceRecorded' /\ UngroundedHaltsRun'
    BY <1>0, <1>3, TraceStillEmpty
  <2> QED
    BY <1>1, <2>1, <2>2
<1> QED
  BY <1>0, <1>2, <1>3

LEMMA ExtractInv == IInv /\ TypeOK' /\ Extract => IInv'
<1> SUFFICES ASSUME IInv, TypeOK', Extract PROVE IInv'
  OBVIOUS
<1> USE DEF IInv, Bookkeeping
<1>0. /\ phase = "extract"
      /\ UNCHANGED <<run, text, recorded, provVars, storeVars, historyVars>>
  BY DEF Extract
<1>1. IdsFresh' /\ ShownStored' /\ StoredChainsResolve' /\ ActionsBacked' /\ AppliedAsConfirmed'
  BY <1>0, QuietStep
<1>2. CASE Raise("halted")
  BY <1>1, <1>2, RaiseClean DEF Outcomes
<1>3. ASSUME NEW found \in SUBSET Fields, NEW out \in [found -> PackOutputs],
             pending' = [f \in Fields |->
                           IF f \in found THEN FromPack(out[f]) ELSE NoExt],
             phase' = "ground", UNCHANGED trace
      PROVE  IInv'
  <2>1. run \in Runs
    BY <1>0 DEF TypeOK
  <2>2. \A f \in found : FromPack(out[f]).chunk \in ChunksOf(run) \cup {NoChunk}
    BY <2>1, FromPackType
  <2>3. \A f \in Found' : pending'[f].chunk \in ChunksOf(run) \cup {NoChunk}
    BY <1>3, <2>2 DEF Found
  <2>4. PendingGrounded'
    BY <1>0, <1>3, <2>3 DEF PendingGrounded, ChunksOf
  <2>5. RegisteredSoFar' /\ PendingRecorded'
    BY <1>0, <1>3 DEF RegisteredSoFar, PendingRecorded, Stages, ChunksOf, provVars, storeVars
  <2>6. TraceRecorded' /\ UngroundedHaltsRun'
    BY <1>0, <1>3, TraceStillEmpty
  <2> QED
    BY <1>1, <2>4, <2>5, <2>6
<1> QED
  BY <1>2, <1>3 DEF Extract

LEMMA GroundInv == IInv /\ TypeOK' /\ Ground => IInv'
<1> SUFFICES ASSUME IInv, TypeOK', Ground PROVE IInv'
  OBVIOUS
<1> USE DEF IInv, Bookkeeping
<1>0. /\ phase = "ground" /\ phase' = IF Found = {} THEN "gate" ELSE "record"
      /\ UNCHANGED <<run, text, recorded, trace, provVars, storeVars, historyVars>>
  BY DEF Ground
<1>1. IdsFresh' /\ ShownStored' /\ StoredChainsResolve' /\ ActionsBacked' /\ AppliedAsConfirmed'
  BY <1>0, QuietStep
<1>2. PICK g \in [Found -> UNION {Groundings(pending[f]) : f \in Found}] :
        /\ \A f \in Found : g[f] \in Groundings(pending[f])
        /\ pending' = [f \in Fields |-> IF f \in Found THEN Grounded(pending[f], g[f])
                                        ELSE NoExt]
  BY DEF Ground
<1>3. \A f \in Found :
        /\ Grounded(pending[f], g[f]) \in Extraction
        /\ Grounded(pending[f], g[f]).chunk \in ChunksOf(run) \cup {NoChunk}
        /\ Resolved(Grounded(pending[f], g[f]))
  BY <1>0, <1>2, GroundedType DEF Found, PendingGrounded, TypeOK
<1>4. Found' = Found
  BY <1>2, <1>3, NoExtAssumption DEF Found, NoExtAssumption
<1>5. \A f \in Found' : /\ pending'[f].chunk \in ChunksOf(run)' \cup {NoChunk}
                        /\ Resolved(pending[f])'
  BY <1>0, <1>2, <1>3, <1>4 DEF Found, Resolved, Target, ChunksOf
<1>6. PendingGrounded'
  BY <1>5 DEF PendingGrounded
<1>7. RegisteredSoFar' /\ PendingRecorded'
  BY <1>0, <1>4 DEF RegisteredSoFar, PendingRecorded, Stages, ChunksOf, provVars, storeVars
<1>8. TraceRecorded' /\ UngroundedHaltsRun'
  BY <1>0, TraceStillEmpty
<1> QED
  BY <1>1, <1>6, <1>7, <1>8

LEMMA RecordExtractionInv ==
  ASSUME NEW f \in Fields, IInv, TypeOK', RecordExtraction(f)
  PROVE  IInv'
<1> USE DEF IInv, Bookkeeping, TypeOK, historyVars
<1> DEFINE x == <<run, f>>
<1>0. /\ phase = "record" /\ f \in Found \ recorded
      /\ provExts' = [provExts EXCEPT ![x] = pending[f]]
      /\ recorded' = recorded \cup {f}
      /\ storeExts' \in {storeExts, [storeExts EXCEPT ![x] = RowOf(pending[f])]}
      /\ UNCHANGED <<run, text, pending, provDocs, provChunks, actions, storeDocs,
                     storeChunks, corrections, historyVars>>
  BY DEF RecordExtraction
<1>a. x \in ExtIds /\ pending[f] \in Extraction /\ RowOf(pending[f]) \in Row
  BY <1>0, RowOfType DEF ExtIds, Found
<1>b. RowOf(pending[f]) # NoExt /\ RowOf(pending[f]).chunk = pending[f].chunk
  BY <1>a, NoExtAssumption DEF NoExtAssumption, RowOf
<1>c. \A s \in shown \cup actions : s.ext # x
  BY <1>0 DEF IdsFresh, Runs
<1>1. IdsFresh' /\ AppliedAsConfirmed'
  BY <1>0 DEF IdsFresh, AppliedAsConfirmed, RecordExtraction
<1>2. ShownStored'
  BY <1>0, <1>a, <1>c DEF ShownStored, Shown
<1>3. StoredChainsResolve'
  <2>1. pending[f].chunk # NoChunk => pending[f].chunk \in storeChunks
    BY <1>0 DEF PendingGrounded, RegisteredSoFar, Stages
  <2>2. \A y \in ExtIds : storeExts'[y] \in {storeExts[y], RowOf(pending[f])}
    BY <1>0, <1>a
  <2>3. \A y \in ExtIds : storeExts'[y] # NoExt /\ storeExts'[y].chunk # NoChunk
                            => storeExts'[y].chunk \in storeChunks'
    BY <1>0, <1>b, <2>1, <2>2 DEF StoredChainsResolve
  <2>4. \A y \in ExtIds : storeExts[y] # NoExt => storeExts'[y] # NoExt
    BY <1>b, <2>2
  <2>5. \A i \in DOMAIN corrections : corrections[i].ext \in ExtIds
    <3>1. \A i \in DOMAIN corrections : corrections[i] \in Correction
      OBVIOUS
    <3> QED
      BY <3>1 DEF Correction
  <2> QED
    BY <1>0, <2>3, <2>4, <2>5 DEF StoredChainsResolve
<1>4. ActionsBacked'
  BY <1>0, <1>a, <1>c DEF ActionsBacked, Verified, ChainComplete, Valued
<1>5. CASE Raise("error")
  BY <1>1, <1>2, <1>3, <1>4, <1>5, RaiseClean DEF Outcomes
<1>6. CASE /\ storeExts' = [storeExts EXCEPT ![x] = RowOf(pending[f])]
           /\ phase' = IF recorded' = Found THEN "gate" ELSE "record"
           /\ UNCHANGED trace
  <2>1. RegisteredSoFar' /\ PendingGrounded'
    BY <1>0, <1>6 DEF RegisteredSoFar, PendingGrounded, Stages, ChunksOf, Found, Resolved,
       Target
  <2>2. \A g \in recorded' : /\ provExts'[<<run, g>>] = pending[g]
                             /\ storeExts'[<<run, g>>] = RowOf(pending[g])
    BY <1>0, <1>6, <1>a DEF PendingRecorded, ExtIds
  <2>3. PendingRecorded'
    BY <1>0, <1>6, <2>2 DEF PendingRecorded, Found, RowOf
  <2>4. TraceRecorded' /\ UngroundedHaltsRun'
    BY <1>0, <1>6, TraceStillEmpty
  <2> QED
    BY <1>1, <1>2, <1>3, <1>4, <2>1, <2>3, <2>4
<1> QED
  BY <1>5, <1>6 DEF RecordExtraction

\* The gate cannot pass a value without a citation, nor flag it.
LEMMA VerdictGrounded ==
  ASSUME TypeOK, NEW f \in Found
  PROVE  /\ GateVerdict(f) # "block" => ~Ungrounded(Gated(f))
         /\ GateVerdict(f) = "pass" => Gated(f).conf >= FlagThreshold
<1>1. pending[f] \in Extraction /\ f \in Fields
  BY DEF TypeOK, Found
<1>2. Ungrounded(Gated(f)) => Ungrounded(pending[f])
  BY <1>1 DEF Gated, Ungrounded, Extraction
<1>3. Cardinality(Contradictions(f)) \in Nat
  BY <1>1, ContradictionsFinite DEF TypeOK
<1>4. Ungrounded(pending[f]) => GateVerdict(f) = "block"
  BY <1>1, <1>3, UngroundedBlocks DEF GateVerdict, GateConfidence, Extraction
<1>5. GateVerdict(f) = "pass" => Gated(f).conf >= FlagThreshold
  <2>1. Gated(f).conf = GateConfidence(f) /\ GateConfidence(f) \in Int
    <3>1. corrections \in Seq(Correction)
      BY DEF TypeOK
    <3>2. Gated(f).conf = GateConfidence(f) /\ GateConfidence(f) \in Confidence
      BY <1>1, <3>1, GatedType
    <3> QED
      BY <3>2 DEF Confidence
  <2> QED
    BY <2>1, PassKeepsThreshold DEF GateVerdict
<1> QED
  BY <1>2, <1>4, <1>5

LEMMA GateInv == IInv /\ TypeOK' /\ Gate => IInv'
<1> SUFFICES ASSUME IInv, TypeOK', Gate PROVE IInv'
  OBVIOUS
<1> USE DEF IInv, Bookkeeping
<1> DEFINE exts == [f \in Fields |-> IF f \in Found THEN Gated(f) ELSE NoExt]
<1>0. /\ phase = "gate"
      /\ UNCHANGED <<run, text, pending, recorded, provVars, storeVars, historyVars>>
  BY DEF Gate
<1>1. IdsFresh' /\ ShownStored' /\ StoredChainsResolve' /\ ActionsBacked' /\ AppliedAsConfirmed'
  BY <1>0, QuietStep
<1>2. CASE Raise("error")
  BY <1>1, <1>2, RaiseClean DEF Outcomes
<1>3. CASE \/ /\ \E f \in Found : GateVerdict(f) = "block"
              /\ Finish("halted", exts, {})
           \/ /\ \A f \in Found : GateVerdict(f) # "block"
              /\ Finish("ok", exts, {f \in Found : GateVerdict(f) = "pass"})
  <2>1. phase' = "respond" /\ trace'.exts = exts
    BY <1>3 DEF Finish
  <2>2. RegisteredSoFar' /\ PendingGrounded' /\ PendingRecorded'
    BY <2>1 DEF RegisteredSoFar, PendingGrounded, PendingRecorded, Stages
  <2>3. \A f \in Found :
          /\ pending[f] \in Extraction /\ Resolved(pending[f])
          /\ provExts[<<run, f>>] = pending[f]
          /\ storeExts[<<run, f>>] = RowOf(pending[f])
          /\ pending[f].chunk \in ChunksOf(run) \cup {NoChunk}
    BY <1>0 DEF PendingRecorded, PendingGrounded, TypeOK, Found
  <2>4. \A f \in Found :
          /\ Gated(f).value = pending[f].value /\ Gated(f).chunk = pending[f].chunk
          /\ Gated(f).anchor = pending[f].anchor /\ Resolved(Gated(f))
          /\ Gated(f) # NoExt
    <3> SUFFICES ASSUME NEW f \in Found
                 PROVE  /\ Gated(f).value = pending[f].value
                        /\ Gated(f).chunk = pending[f].chunk
                        /\ Gated(f).anchor = pending[f].anchor
                        /\ Resolved(Gated(f)) /\ Gated(f) # NoExt
      OBVIOUS
    <3>1. /\ Gated(f) \in Extraction
          /\ \A fld \in {"value", "span", "chunk", "method", "anchor"} :
               Gated(f)[fld] = pending[f][fld]
      BY <2>3, GatedType DEF Found, TypeOK
    <3>2. /\ Gated(f).value = pending[f].value /\ Gated(f).span = pending[f].span
          /\ Gated(f).chunk = pending[f].chunk /\ Gated(f).method = pending[f].method
          /\ Gated(f).anchor = pending[f].anchor
      BY <3>1
    <3> QED
      BY <2>3, <3>1, <3>2, NoExtAssumption DEF NoExtAssumption, Resolved, Target
  <2>5. \A f \in Found : RowOf(pending[f]) # NoExt /\ RowOf(pending[f]).value = pending[f].value
    BY <2>3, RowOfType, NoExtAssumption DEF NoExtAssumption, RowOf
  <2>6. run \in provDocs /\ ChunksOf(run) \subseteq provChunks \cap storeChunks
    BY <1>0 DEF RegisteredSoFar, Stages
  <2>7. \A f \in Fields : trace'.exts[f] # NoExt => f \in Found /\ trace'.exts[f] = Gated(f)
    BY <2>1
  <2>8. \A f \in trace'.suggest : /\ trace'.exts[f] # NoExt
                                  /\ ~Ungrounded(trace'.exts[f])
                                  /\ trace'.exts[f].conf >= FlagThreshold
    <3> SUFFICES ASSUME NEW f \in trace'.suggest
                 PROVE  /\ trace'.exts[f] # NoExt
                        /\ ~Ungrounded(trace'.exts[f])
                        /\ trace'.exts[f].conf >= FlagThreshold
      OBVIOUS
    <3>1. f \in Found /\ GateVerdict(f) = "pass"
      BY <1>3 DEF Finish
    <3>2. trace'.exts[f] = Gated(f) /\ Gated(f) # NoExt
      BY <2>1, <2>4, <3>1 DEF Found
    <3> QED
      BY <3>1, <3>2, VerdictGrounded
  <2>9. TraceRecorded'
    <3> SUFFICES ASSUME NEW f \in Fields, trace'.exts[f] # NoExt
                 PROVE  LET e == trace'.exts[f]
                            p == provExts'[<<run', f>>]
                        IN  /\ phase' \in {"respond", "idle"}
                            /\ p # NoExt /\ p.value = e.value /\ p.chunk = e.chunk
                            /\ p.anchor = e.anchor
                            /\ storeExts'[<<run', f>>] # NoExt
                            /\ storeExts'[<<run', f>>].value = e.value
                            /\ Resolved(trace.exts[f])'
                            /\ e.chunk # NoChunk => /\ e.chunk \in (provChunks \cap storeChunks)'
                                                    /\ e.chunk[1] \in provDocs'
      BY <2>8 DEF TraceRecorded
    <3>1. f \in Found /\ trace'.exts[f] = Gated(f)
      BY <2>7
    <3>2. Resolved(Gated(f)) /\ Resolved(trace.exts[f])' = Resolved(Gated(f))
      BY <1>0, <2>4, <3>1 DEF Resolved, Target
    <3>3. Gated(f).chunk # NoChunk => Gated(f).chunk[1] = run
      BY <2>3, <2>4, <3>1 DEF ChunksOf
    <3> QED
      BY <1>0, <2>1, <2>3, <2>4, <2>5, <2>6, <3>1, <3>2, <3>3, NoExtAssumption
      DEF NoExtAssumption, provVars, storeVars
  <2>10. UngroundedHaltsRun'
    <3> SUFFICES ASSUME trace'.outcome = "ok", NEW f \in Fields, trace'.exts[f] # NoExt
                 PROVE  ~Ungrounded(trace'.exts[f])
      BY DEF UngroundedHaltsRun, Ungrounded
    <3>1. \A h \in Found : GateVerdict(h) # "block"
      BY <1>3 DEF Finish
    <3> QED
      BY <2>7, <3>1, VerdictGrounded
  <2> QED
    BY <1>1, <2>2, <2>9, <2>10
<1> QED
  BY <1>2, <1>3 DEF Gate

LEMMA RespondInv == IInv /\ TypeOK' /\ Respond => IInv'
<1> SUFFICES ASSUME IInv, TypeOK', Respond PROVE IInv'
  OBVIOUS
<1> USE DEF IInv, Bookkeeping
<1>0. /\ phase = "respond" /\ phase' = "idle" /\ run \in Runs
      /\ shown' \subseteq shown \cup {Suggestion(f) : f \in Listed}
      /\ actions' \subseteq actions \cup {Proposal(f) : f \in Listed}
      /\ UNCHANGED <<run, text, pending, recorded, trace, provDocs, provChunks,
                     provExts, storeVars, accepted, applied>>
  BY DEF Respond, TypeOK
<1>1. \A f \in Listed :
        /\ Suggestion(f).ext = <<run, f>> /\ Proposal(f).ext = <<run, f>>
        /\ Suggestion(f).value = trace.exts[f].value
        /\ Proposal(f).value = trace.exts[f].value
        /\ provExts[<<run, f>>].value = trace.exts[f].value
        /\ storeExts[<<run, f>>] # NoExt
        /\ storeExts[<<run, f>>].value = trace.exts[f].value
        /\ ChainComplete(<<run, f>>)
  BY DEF Listed, Suggestion, Proposal, TraceRecorded
<1>2. RegisteredSoFar' /\ PendingGrounded' /\ PendingRecorded'
  BY <1>0 DEF RegisteredSoFar, PendingGrounded, PendingRecorded, Stages
<1>a. \A s \in shown' : s \in shown \/ \E f \in Listed : s = Suggestion(f)
  BY <1>0, Zenon
<1>b. \A a \in actions' : a \in actions \/ \E f \in Listed : a = Proposal(f)
  BY <1>0, Zenon
<1>c. ASSUME NEW f \in Listed, NEW s, s = Suggestion(f)
      PROVE  /\ s.ext[1] = run
             /\ storeExts[s.ext] # NoExt /\ storeExts[s.ext].value = s.value
  <2>1. s.ext = <<run, f>> /\ s.value = trace.exts[f].value
    BY <1>1, <1>c
  <2> QED
    BY <1>1, <2>1
<1>d. ASSUME NEW f \in Listed, NEW a, a = Proposal(f)
      PROVE  /\ a.ext[1] = run
             /\ ChainComplete(a.ext) /\ provExts[a.ext].value = a.value
             /\ storeExts[a.ext] # NoExt /\ storeExts[a.ext].value = a.value
  <2>1. a.ext = <<run, f>> /\ a.value = trace.exts[f].value
    BY <1>1, <1>d
  <2> QED
    BY <1>1, <2>1
<1>3. IdsFresh'
  <2>1. \A s \in shown' \cup actions' : s \in shown \cup actions \/ s.ext[1] = run
    BY <1>a, <1>b, <1>c, <1>d, Zenon
  <2> QED
    BY <1>0, <2>1 DEF IdsFresh, Runs
<1>4. TraceRecorded' /\ UngroundedHaltsRun'
  BY <1>0 DEF TraceRecorded, UngroundedHaltsRun, storeVars, Resolved, Target
<1>5. ShownStored'
  <2>1. \A s \in shown' : storeExts[s.ext] # NoExt /\ storeExts[s.ext].value = s.value
    BY <1>a, <1>c DEF ShownStored
  <2> QED
    BY <1>0, <2>1 DEF ShownStored, storeVars
<1>6. StoredChainsResolve' /\ AppliedAsConfirmed'
  BY <1>0 DEF StoredChainsResolve, AppliedAsConfirmed, storeVars
<1>7. ActionsBacked'
  <2>1. \A a \in actions' :
          /\ ChainComplete(a.ext) /\ provExts[a.ext].value = a.value
          /\ storeExts[a.ext] # NoExt /\ storeExts[a.ext].value = a.value
    BY <1>b, <1>d DEF ActionsBacked, Verified
  <2> QED
    BY <1>0, <2>1 DEF ActionsBacked, Verified, ChainComplete, storeVars
<1> QED
  BY <1>2, <1>3, <1>4, <1>5, <1>6, <1>7

\* A confirmation is for the value the client was shown, the action it finds
\* carries the value that was stored, and these are the same.
LEMMA ApplyInv ==
  ASSUME NEW s \in shown, NEW accept \in BOOLEAN, IInv, TypeOK', Apply(s, accept)
  PROVE  IInv'
<1> USE DEF IInv, Bookkeeping
<1>0. UNCHANGED <<phase, run, text, pending, recorded, trace, provDocs, provChunks, provExts,
                  actions, storeDocs, storeChunks, storeExts, corrections, shown>>
  BY DEF Apply, jobVars, provVars, storeVars
<1>1. RegisteredSoFar' /\ IdsFresh' /\ ShownStored' /\ StoredChainsResolve'
  BY <1>0 DEF RegisteredSoFar, IdsFresh, ShownStored, StoredChainsResolve, ChunksOf
<1>2. PendingGrounded' /\ PendingRecorded'
  BY <1>0 DEF PendingGrounded, PendingRecorded, Found, ChunksOf, Resolved, Target
<1>3. TraceRecorded' /\ UngroundedHaltsRun'
  BY <1>0 DEF TraceRecorded, UngroundedHaltsRun, Resolved, Target
<1>4. ActionsBacked'
  BY <1>0 DEF ActionsBacked, Verified, ChainComplete
<1>5. AppliedAsConfirmed'
  <2>1. \A a \in actions :
          a.ext = s.ext => a \in Valued /\ a.value = s.value
    BY DEF ActionsBacked, ShownStored, TypeOK
  <2>2. \A a \in actions : a.ext = s.ext => a = [ext |-> s.ext, value |-> s.value]
    BY <2>1 DEF Valued
  <2> QED
    BY <2>2 DEF Apply, AppliedAsConfirmed
<1> QED
  BY <1>1, <1>2, <1>3, <1>4, <1>5

LEMMA CorrectInv ==
  ASSUME NEW s \in shown, NEW v \in Values \cup {NoText}, IInv, TypeOK', Correct(s, v)
  PROVE  IInv'
<1> USE DEF IInv, Bookkeeping
<1>0. /\ UNCHANGED <<phase, run, text, pending, recorded, trace, provDocs, provChunks, provExts,
                     actions, storeDocs, storeChunks, storeExts, shown, accepted, applied>>
      /\ corrections' = Append(corrections, [ext |-> s.ext, original |-> s.value,
                                             corrected |-> v])
  BY DEF Correct, jobVars, provVars, historyVars
<1>1. RegisteredSoFar' /\ IdsFresh' /\ ShownStored' /\ AppliedAsConfirmed'
  BY <1>0 DEF RegisteredSoFar, IdsFresh, ShownStored, AppliedAsConfirmed, ChunksOf
<1>2. PendingGrounded' /\ PendingRecorded'
  BY <1>0 DEF PendingGrounded, PendingRecorded, Found, ChunksOf, Resolved, Target
<1>3. TraceRecorded' /\ UngroundedHaltsRun'
  BY <1>0 DEF TraceRecorded, UngroundedHaltsRun, Resolved, Target
<1>4. ActionsBacked'
  BY <1>0 DEF ActionsBacked, Verified, ChainComplete
<1>5. StoredChainsResolve'
  <2>1. corrections \in Seq(Correction) /\ storeExts[s.ext] # NoExt
    BY DEF TypeOK, ShownStored
  <2>2. \A i \in DOMAIN corrections' :
          \/ i \in DOMAIN corrections /\ corrections'[i] = corrections[i]
          \/ corrections'[i].ext = s.ext
    BY <1>0, <2>1
  <2>3. \A i \in DOMAIN corrections' : storeExts[corrections'[i].ext] # NoExt
    BY <2>1, <2>2 DEF StoredChainsResolve
  <2> QED
    BY <1>0, <2>3 DEF StoredChainsResolve
<1> QED
  BY <1>1, <1>2, <1>3, <1>4, <1>5

\* A crash forgets the run and the graph, and everything that spoke of them.
LEMMA CrashInv == IInv /\ TypeOK' /\ Crash => IInv'
<1> SUFFICES ASSUME IInv, TypeOK', Crash PROVE IInv'
  OBVIOUS
<1> USE DEF IInv, Bookkeeping
<1>0. /\ phase' = "idle" /\ trace' = NoTrace /\ provChunks' = {} /\ actions' = {}
      /\ UNCHANGED <<run, storeDocs, storeChunks, storeExts, corrections, shown,
                     accepted, applied>>
  BY DEF Crash, storeVars, historyVars
<1>1. \A f \in Fields : trace'.exts[f] = NoExt
  BY <1>0 DEF NoTrace, NoExts
<1>2. RegisteredSoFar' /\ PendingGrounded' /\ PendingRecorded'
  BY <1>0 DEF RegisteredSoFar, PendingGrounded, PendingRecorded, Stages
<1>3. IdsFresh' /\ ShownStored' /\ StoredChainsResolve' /\ AppliedAsConfirmed' /\ ActionsBacked'
  BY <1>0 DEF IdsFresh, ShownStored, StoredChainsResolve, AppliedAsConfirmed, ActionsBacked
<1>4. TraceRecorded' /\ UngroundedHaltsRun'
  BY <1>0, <1>1 DEF TraceRecorded, UngroundedHaltsRun, NoTrace
<1> QED
  BY <1>2, <1>3, <1>4

LEMMA StutterInv == IInv /\ UNCHANGED vars => IInv'
<1> SUFFICES ASSUME IInv, UNCHANGED vars PROVE IInv'
  OBVIOUS
<1> USE DEF IInv, Bookkeeping, vars, jobVars, provVars, storeVars, historyVars
<1>1. TypeOK'
  BY NextType
<1>2. RegisteredSoFar' /\ IdsFresh' /\ ShownStored' /\ StoredChainsResolve'
  BY DEF RegisteredSoFar, IdsFresh, ShownStored, StoredChainsResolve, ChunksOf
<1>3. PendingGrounded' /\ PendingRecorded'
  BY DEF PendingGrounded, PendingRecorded, Found, ChunksOf, Resolved, Target
<1>4. TraceRecorded' /\ UngroundedHaltsRun'
  BY DEF TraceRecorded, UngroundedHaltsRun, Resolved, Target
<1>5. ActionsBacked' /\ AppliedAsConfirmed'
  BY DEF ActionsBacked, Verified, ChainComplete, AppliedAsConfirmed
<1> QED
  BY <1>1, <1>2, <1>3, <1>4, <1>5

LEMMA NextInv == IInv /\ [Next]_vars => IInv'
<1> SUFFICES ASSUME IInv, [Next]_vars PROVE IInv'
  OBVIOUS
<1>1. TypeOK'
  BY NextType DEF IInv
<1>2. CASE CaptureContext
  BY <1>1, <1>2, CaptureContextInv
<1>3. CASE RunStep
  BY <1>1, <1>3, RegisterDocumentInv, RegisterChunkInv, ScreenInv, ExtractInv, GroundInv,
     RecordExtractionInv, GateInv, RespondInv DEF RunStep
<1>4. ASSUME NEW s \in shown, NEW accept \in BOOLEAN, Apply(s, accept) PROVE IInv'
  BY <1>1, <1>4, ApplyInv
<1>5. ASSUME NEW s \in shown, NEW v \in Values \cup {NoText}, Correct(s, v) PROVE IInv'
  BY <1>1, <1>5, CorrectInv
<1>6. CASE Crash
  BY <1>1, <1>6, CrashInv
<1>7. CASE UNCHANGED vars
  BY <1>7, StutterInv
<1> QED
  BY <1>2, <1>3, <1>4, <1>5, <1>6, <1>7 DEF Next

-----------------------------------------------------------------------------
(* The theorems *)

\* The inductive invariant holds in every reachable state.
LEMMA Inductive == Spec => []IInv
BY InitInv, NextInv, PTL DEF Spec

\* The stages of a run hand each other what they should: ids are fresh, and
\* the trace, the graph and the store agree on every extraction.
THEOREM BookkeepingHolds == Spec => []Bookkeeping
<1>1. IInv => Bookkeeping
  BY DEF IInv
<1> QED
  BY <1>1, Inductive, PTL

\* Refuse or cite: everything the suggest stage holds passed the gate with a
\* citation that resolves.
THEOREM SuggestionsAreCited == Spec => []SuggestStageCited
<1>1. IInv => SuggestStageCited
  <2> SUFFICES ASSUME IInv, NEW f \in trace.suggest
               PROVE  LET e == trace.exts[f]
                      IN  /\ e.method # "block" /\ e.anchor # NoChunk
                          /\ e.conf >= FlagThreshold
                          /\ e.chunk = e.anchor /\ e.anchor \in storeChunks
                          /\ ChainComplete(<<run, f>>)
                          /\ provExts[<<run, f>>].anchor = e.anchor
                          /\ e.method = "exact" => Target(e) \in text[e.anchor[2]]
    BY DEF SuggestStageCited
  <2> USE DEF IInv, Bookkeeping
  <2>1. f \in Fields
    BY DEF TypeOK
  <2>2. /\ trace.exts[f] # NoExt /\ ~Ungrounded(trace.exts[f])
        /\ trace.exts[f].conf >= FlagThreshold
    BY DEF TraceRecorded
  <2> QED
    BY <2>1, <2>2 DEF TraceRecorded, Ungrounded, Resolved, ChainComplete
<1> QED
  BY <1>1, Inductive, PTL

\* A value the verifier refused never gets a run past the gate, whatever the
\* pack's confidence in it and whatever the corrections.
THEOREM UngroundedHalts == Spec => []UngroundedHaltsRun
<1>1. IInv => UngroundedHaltsRun
  BY DEF IInv
<1> QED
  BY <1>1, Inductive, PTL

\* The store never refers to a row it does not hold, wherever it crashed.
THEOREM StoreIsClosed == Spec => []StoredChainsResolve
<1>1. IInv => StoredChainsResolve
  BY DEF IInv
<1> QED
  BY <1>1, Inductive, PTL

\* Every registered action has a complete chain and carries the stored value.
THEOREM ActionsAreBacked == Spec => []ActionsBacked
<1>1. IInv => ActionsBacked
  BY DEF IInv
<1> QED
  BY <1>1, Inductive, PTL

\* Only values a person confirmed are ever applied.
THEOREM OnlyConfirmedIsApplied == Spec => []AppliedAsConfirmed
<1>1. IInv => AppliedAsConfirmed
  BY DEF IInv
<1> QED
  BY <1>1, Inductive, PTL

-----------------------------------------------------------------------------
(* The flywheel: a saturated field never passes *)

\* Window contradictions cost even a fully confident value its pass, when the
\* penalty is large enough (the code's 5 * 0.15 > 1 - 0.5).
LEMMA PenaltyOfWindow ==
  ASSUME Window * Penalty > 100 - FlagThreshold,
         NEW ext, ext.conf \in Confidence, NEW n \in Nat, n >= Window
  PROVE  Calibrated(ext, n) < FlagThreshold
<1>1. GroundedConfidence(ext) \in Int /\ GroundedConfidence(ext) <= 100
  BY GateAssumption DEF GateAssumption, GroundedConfidence, Confidence
<1>2. PICK d \in Nat : n = Window + d
  BY GateAssumption DEF GateAssumption
<1>3. n * Penalty = Window * Penalty + d * Penalty
  BY <1>2, GateAssumption DEF GateAssumption
<1>4. d * Penalty \in Nat /\ Window * Penalty \in Nat
  BY GateAssumption DEF GateAssumption
<1>5. GroundedConfidence(ext) - n * Penalty < FlagThreshold
  BY <1>1, <1>3, <1>4, GateAssumption DEF GateAssumption
<1> QED
  BY <1>1, <1>3, <1>4, <1>5, GateAssumption DEF GateAssumption, Calibrated, Clamp

\* The lookup does return the most recent Window corrections of a field.
LEMMA SaturatedCounts ==
  ASSUME TypeOK, StoredChainsResolve, NEW f \in Fields, Saturated(f)
  PROVE  Cardinality(Contradictions(f)) >= Window
<1>1. PICK S \in SUBSET DOMAIN corrections :
        /\ Cardinality(S) = Window
        /\ \A i \in S : corrections[i].ext[2] = f /\ corrections[i].corrected # pending[f].value
        /\ \A i \in DOMAIN corrections \ S :
             corrections[i].ext[2] = f => \A j \in S : i < j
  BY DEF Saturated
<1>2. DOMAIN corrections = 1..Len(corrections) /\ Len(corrections) \in Nat
  BY DEF TypeOK
<1>3. IsFiniteSet(S)
  <2>1. IsFiniteSet(1..Len(corrections))
    BY <1>2, FS_Interval
  <2>2. S \subseteq 1..Len(corrections)
    BY <1>2
  <2> QED
    BY <2>1, <2>2, FS_Subset
<1>4. \A i \in DOMAIN corrections : CorrectedField[i] = corrections[i].ext[2]
  BY DEF CorrectedField, StoredChainsResolve
<1>5. DOMAIN CorrectedField = DOMAIN corrections
  BY DEF CorrectedField
<1> DEFINE matching == OfField(CorrectedField, f)
<1>6. ASSUME NEW i \in S PROVE i \in Contradictions(f)
  <2>1. i \in matching
    BY <1>1, <1>4, <1>5 DEF OfField
  <2>2. {j \in matching : j > i} \subseteq S \ {i}
    BY <1>1, <1>2, <1>4, <1>5 DEF OfField
  <2>3. IsFiniteSet(S \ {i}) /\ Cardinality(S \ {i}) = Window - 1
    BY <1>1, <1>3, FS_RemoveElement
  <2>4. Cardinality({j \in matching : j > i}) <= Window - 1
    BY <2>2, <2>3, FS_Subset
  <2>5. Cardinality({j \in matching : j > i}) \in Nat
    BY <2>2, <2>3, FS_Subset, FS_CardinalityType
  <2>6. i \in SimilarCorrections(CorrectedField, f)
    BY <2>1, <2>4, <2>5, GateAssumption DEF GateAssumption, SimilarCorrections
  <2> QED
    BY <1>1, <2>6 DEF Contradictions, Contradicting
<1>7. IsFiniteSet(Contradictions(f)) /\ Cardinality(Contradictions(f)) \in Nat
  BY ContradictionsFinite DEF TypeOK
<1>8. Cardinality(S) <= Cardinality(Contradictions(f))
  BY <1>6, <1>7, FS_Subset
<1> QED
  BY <1>1, <1>7, <1>8, GateAssumption DEF GateAssumption

\* A field whose last Window corrections all contradict the value is never
\* suggested.
THEOREM SaturatedFieldNeverSuggested ==
  ASSUME Window * Penalty > 100 - FlagThreshold
  PROVE  Spec => SaturatedFieldNeverPasses
<1> DEFINE Step == phase = "gate" => \A f \in trace'.suggest : ~Saturated(f)
<1>1. IInv /\ [Next]_vars => [Step]_vars
  <2> SUFFICES ASSUME IInv, Next, phase = "gate", NEW f \in trace'.suggest, Saturated(f)
               PROVE  FALSE
    OBVIOUS
  <2>1. CASE Gate
    <3>1. f \in Found /\ GateVerdict(f) = "pass"
      BY <2>1 DEF Gate, Raise, Finish
    <3>2. /\ f \in Fields /\ pending[f] \in Extraction /\ pending[f].conf \in Confidence
          /\ corrections \in Seq(Correction)
      BY <3>1 DEF IInv, TypeOK, Found, Extraction
    <3>3. Cardinality(Contradictions(f)) \in Nat /\ Cardinality(Contradictions(f)) >= Window
      BY <3>2, ContradictionsFinite, SaturatedCounts DEF IInv
    <3>4. GateConfidence(f) < FlagThreshold
      BY <3>2, <3>3, PenaltyOfWindow DEF GateConfidence
    <3>5. GateConfidence(f) \in Int
      <4>1. GateConfidence(f) \in Confidence
        BY <3>2, GatedType
      <4> QED
        BY <4>1 DEF Confidence
    <3>6. GateConfidence(f) >= FlagThreshold
      BY <3>1, <3>5, PassKeepsThreshold DEF GateVerdict
    <3> QED
      BY <3>4, <3>5, <3>6, GateAssumption DEF GateAssumption
  <2>2. CASE Crash
    BY <2>2 DEF Crash, NoTrace
  <2> QED
    BY <2>1, <2>2 DEF Next, RunStep, CaptureContext, RegisterDocument, RegisterChunk, Screen,
       Compress, Extract, Ground, RecordExtraction, Respond, Apply, Correct
<1>2. SaturatedFieldNeverPasses <=> [][Step]_vars
  BY DEF SaturatedFieldNeverPasses
<1> QED
  BY <1>1, <1>2, Inductive, PTL DEF Spec
=============================================================================
