------------------------------ MODULE KairoKernel ------------------------------
(***************************************************************************)
(* The document kernel behind the web overlay: one process that runs       *)
(* orchestrator.run stage by stage (kernel/sidecar/orchestrator.py),       *)
(* records what it finds in an in-memory provenance graph                  *)
(* (kernel/core/provenance.py) and in a SQLite store                       *)
(* (kernel/sidecar/memory_store.py), and answers /demo, /apply and         *)
(* /correct (overlay/server.py, kernel/sidecar/action_executor.py).        *)
(*                                                                         *)
(* The endpoints are coroutines without an await, so a request runs to its *)
(* end before the next one starts.  What can come in between is a crash    *)
(* (or the --reload of the documented uvicorn command): it loses the       *)
(* provenance graph and the run, and keeps every committed row.            *)
(*                                                                         *)
(* Every id of the code is a fresh uuid.  Here a run has a number, its     *)
(* chunks are <<run, k>> and its extractions <<run, field>>.               *)
(***************************************************************************)
EXTENDS QualityGate, Sequences

CONSTANTS
  MaxRuns,         \* bound on the number of /demo requests
  MaxCorrections,  \* bound on the number of recorded corrections
  NChunks,         \* chunks in a document
  Fields,          \* pack.fields
  Values,          \* the texts a value or a source span can be
  NoText,          \* the empty string
  Texts,           \* the documents: which values occur in which chunk
  PackOutputs,     \* what a pack may return for one field
  NoExt            \* no extraction

Runs == 1..MaxRuns
ChunkIds == Runs \X (1..NChunks)
ExtIds == Runs \X Fields

ASSUME KernelAssumption ==
  /\ MaxRuns \in Nat
  /\ MaxCorrections \in Nat
  /\ NChunks \in Nat
  /\ NChunks > 0
  /\ NoText \notin Values
  /\ NoChunk \notin ChunkIds
  /\ Texts \subseteq [1..NChunks -> SUBSET Values]
  /\ PackOutputs \subseteq [value : Values, span : Values \cup {NoText},
                            conf : Confidence, at : 0..NChunks]

\* data_model.Extraction; verify returns at most one anchor, so the tuple of
\* anchors is the chunk of that anchor or NoChunk.
Extraction ==
  [value : Values, span : Values \cup {NoText}, conf : Confidence,
   chunk : ChunkIds \cup {NoChunk}, method : Methods,
   anchor : ChunkIds \cup {NoChunk}, status : {"suggested", "pending_review", "blocked"}]

\* A row of the extractions table; it has no columns for method and anchors.
Row ==
  [value : Values, conf : Confidence, chunk : ChunkIds \cup {NoChunk},
   status : {"suggested", "pending_review", "blocked"}]

ASSUME NoExtAssumption == NoExt \notin Extraction \cup Row

\* The field of an extraction id that no row has.
NoField == "no such row"
ASSUME NoFieldAssumption == NoField \notin Fields

VARIABLES
  phase,        \* the stage orchestrator.run is in, or "idle"
  run,          \* number of the last run started
  text,         \* the chunk texts of that run's document
  pending,      \* the extractions of the current run, by field
  recorded,     \* the fields of pending already registered
  trace,        \* the Trace of the current or last run
  provDocs, provChunks, provExts, actions,       \* ProvenanceLogImpl
  storeDocs, storeChunks, storeExts, corrections, \* MemoryStoreImpl (on disk)
  shown,        \* history: every suggestion a client was sent
  accepted,     \* history: every suggestion a client confirmed
  applied       \* history: every value apply() reported as applied

jobVars == <<phase, run, text, pending, recorded, trace>>
provVars == <<provDocs, provChunks, provExts, actions>>
storeVars == <<storeDocs, storeChunks, storeExts, corrections>>
historyVars == <<shown, accepted, applied>>
vars == <<jobVars, provVars, storeVars, historyVars>>

NoExts == [f \in Fields |-> NoExt]
Unregistered == [x \in ExtIds |-> NoExt]
NoTrace == [outcome |-> "none", exts |-> NoExts, suggest |-> {}]

Phases == {"idle", "document", "chunks", "screen", "compress", "extract",
           "ground", "record", "gate", "respond"}
Outcomes == {"none", "ok", "halted", "blocked", "error", "engine_error"}

Init ==
  /\ phase = "idle" /\ run = 0
  /\ text = [k \in 1..NChunks |-> {}]
  /\ pending = NoExts /\ recorded = {} /\ trace = NoTrace
  /\ provDocs = {} /\ provChunks = {} /\ provExts = Unregistered
  /\ actions = {}
  /\ storeDocs = {} /\ storeChunks = {} /\ storeExts = Unregistered
  /\ corrections = <<>>
  /\ shown = {} /\ accepted = {} /\ applied = {}

-----------------------------------------------------------------------------
(* Provenance chains: ProvenanceLogImpl.get_provenance, Chain.is_complete *)

\* A chunk <<r, k>> carries doc_id r, and every registered chunk has a bbox.
ChainComplete(x) ==
  /\ provExts[x] # NoExt
  /\ provExts[x].chunk \in provChunks
  /\ provExts[x].chunk[1] \in provDocs

-----------------------------------------------------------------------------
(* GroundingVerifierImpl.verify, up to the thresholds: an exact match takes *)
(* the first chunk that contains the target; otherwise a later stage may    *)
(* anchor any chunk, or the value is blocked without anchors.  The target   *)
(* is the source span when the pack gave one.                               *)

Target(ext) == IF ext.span = NoText THEN ext.value ELSE ext.span

Containing(ext) == {k \in 1..NChunks : Target(ext) \in text[k]}

FirstContaining(ext) ==
  {k \in Containing(ext) : \A l \in Containing(ext) : k <= l}

Groundings(ext) ==
  IF Containing(ext) # {}
    THEN [method : {"exact"}, anchor : {run} \X FirstContaining(ext)]
    ELSE [method : {"fuzzy", "semantic", "visual"},
          anchor : {run} \X (1..NChunks)]
         \cup {[method |-> "block", anchor |-> NoChunk]}

\* Mutant of Grounded: the chunk_id stays the one the pack named.
GroundedKeepingChunk(ext, g) ==
  [ext EXCEPT !.method = g.method, !.anchor = g.anchor]

\* The extraction with its grounding; without an anchor it keeps the chunk
\* the pack named.
Grounded(ext, g) ==
  [ext EXCEPT !.method = g.method, !.anchor = g.anchor,
              !.chunk = IF g.anchor = NoChunk THEN @ ELSE g.anchor]

-----------------------------------------------------------------------------
(* orchestrator.run *)

\* The run ends with this trace; the endpoint then answers.
Finish(outcome, exts, suggest) ==
  /\ phase' = "respond"
  /\ trace' = [outcome |-> outcome, exts |-> exts, suggest |-> suggest]

\* An exception leaves run(): the endpoint answers {"success": False}.
Raise(outcome) == Finish(outcome, NoExts, {})

\* Stage 1: the file is read.  A file that cannot be ingested halts the run
\* before anything is registered.
CaptureContext ==
  /\ phase = "idle" /\ run < MaxRuns
  /\ run' = run + 1
  /\ pending' = NoExts /\ recorded' = {}
  /\ \/ /\ text' \in Texts
        /\ phase' = "document" /\ trace' = NoTrace
     \/ UNCHANGED text /\ Raise("halted")
  /\ UNCHANGED <<provVars, storeVars, historyVars>>

\* register_document, then upsert_document and upsert_page for every page;
\* each commits, and each may raise.
RegisterDocument ==
  /\ phase = "document"
  /\ provDocs' = provDocs \cup {run}
  /\ \/ /\ storeDocs' = storeDocs \cup {run}
        /\ phase' = "chunks" /\ UNCHANGED trace
     \/ /\ storeDocs' \in {storeDocs, storeDocs \cup {run}}
        /\ Raise("error")
  /\ UNCHANGED <<run, text, pending, recorded, provChunks, provExts, actions,
                 storeChunks, storeExts, corrections, historyVars>>

\* Mutant of RegisterChunk: a failed write is swallowed.
RegisterChunkIgnoringErrors(k) ==
  /\ phase = "chunks"
  /\ <<run, k>> \notin provChunks
  /\ \A l \in 1..NChunks : l < k => <<run, l>> \in provChunks
  /\ provChunks' = provChunks \cup {<<run, k>>}
  /\ storeChunks' \in {storeChunks, storeChunks \cup {<<run, k>>}}
  /\ phase' = IF k = NChunks THEN "screen" ELSE "chunks"
  /\ UNCHANGED <<run, text, pending, recorded, trace, provDocs, provExts, actions,
                 storeDocs, storeExts, corrections, historyVars>>

\* One turn of the loop over chunks: register_chunk, then upsert_chunk.
RegisterChunk(k) ==
  /\ phase = "chunks"
  /\ <<run, k>> \notin provChunks
  /\ \A l \in 1..NChunks : l < k => <<run, l>> \in provChunks
  /\ provChunks' = provChunks \cup {<<run, k>>}
  /\ \/ /\ storeChunks' = storeChunks \cup {<<run, k>>}
        /\ phase' = IF k = NChunks THEN "screen" ELSE "chunks"
        /\ UNCHANGED trace
     \/ UNCHANGED storeChunks /\ Raise("error")
  /\ UNCHANGED <<run, text, pending, recorded, provDocs, provExts, actions,
                 storeDocs, storeExts, corrections, historyVars>>

\* Stage 2: the security filter reads the text that is already registered.
Screen ==
  /\ phase = "screen"
  /\ \/ phase' = "compress" /\ UNCHANGED trace
     \/ Raise("blocked")
  /\ UNCHANGED <<run, text, pending, recorded, provVars, storeVars,
                 historyVars>>

\* Stage 4.5: compress_document_chunks keeps ids and bboxes.  An engine that
\* fails on a chunk leaves the rest uncompressed; an engine that cannot be
\* imported makes the fallback read a variable that was never assigned.
Compress ==
  /\ phase = "compress"
  /\ \/ phase' = "extract" /\ UNCHANGED trace
     \/ Raise("engine_error")
  /\ UNCHANGED <<run, text, pending, recorded, provVars, storeVars,
                 historyVars>>

\* Mutant of FromPack: a value found nowhere is given the chunk with index 0.
FromPackAtZero(out) ==
  [value |-> out.value, span |-> out.span, conf |-> out.conf,
   chunk |-> <<run, out.at>>, method |-> "block", anchor |-> NoChunk,
   status |-> "suggested"]

\* What the pack returns, before grounding.
FromPack(out) ==
  [value |-> out.value, span |-> out.span, conf |-> out.conf,
   chunk |-> IF out.at = 0 THEN NoChunk ELSE <<run, out.at>>,
   method |-> "block", anchor |-> NoChunk, status |-> "suggested"]

\* Stage 5: the pack sees the compressed text, so what it returns is not
\* tied to the original one.
Extract ==
  /\ phase = "extract"
  /\ \/ /\ \E found \in SUBSET Fields : \E out \in [found -> PackOutputs] :
             pending' = [f \in Fields |->
                           IF f \in found THEN FromPack(out[f]) ELSE NoExt]
        /\ phase' = "ground" /\ UNCHANGED trace
     \/ UNCHANGED pending /\ Raise("halted")
  /\ UNCHANGED <<run, text, recorded, provVars, storeVars, historyVars>>

Found == {f \in Fields : pending[f] # NoExt}

\* Stage 5.5: every value is verified against the original chunks.
Ground ==
  /\ phase = "ground"
  /\ \E g \in [Found -> UNION {Groundings(pending[f]) : f \in Found}] :
       /\ \A f \in Found : g[f] \in Groundings(pending[f])
       /\ pending' = [f \in Fields |->
                        IF f \in Found THEN Grounded(pending[f], g[f])
                        ELSE NoExt]
  /\ phase' = IF Found = {} THEN "gate" ELSE "record"
  /\ UNCHANGED <<run, text, recorded, trace, provVars, storeVars,
                 historyVars>>

RowOf(ext) ==
  [value |-> ext.value, conf |-> ext.conf, chunk |-> ext.chunk,
   status |-> ext.status]

\* One turn of the loop over extractions: register_extraction, then
\* record_extraction; the gate has not seen the value yet.
RecordExtraction(f) ==
  /\ phase = "record"
  /\ f \in Found \ recorded
  /\ provExts' = [provExts EXCEPT ![<<run, f>>] = pending[f]]
  /\ recorded' = recorded \cup {f}
  /\ \/ /\ storeExts' = [storeExts EXCEPT ![<<run, f>>] = RowOf(pending[f])]
        /\ phase' = IF recorded' = Found THEN "gate" ELSE "record"
        /\ UNCHANGED trace
     \/ UNCHANGED storeExts /\ Raise("error")
  /\ UNCHANGED <<run, text, pending, provDocs, provChunks, actions,
                 storeDocs, storeChunks, corrections, historyVars>>

\* Mutant of CorrectedField: only corrections of the current document count.
CorrectedFieldOfThisRun ==
  [i \in DOMAIN corrections |->
     IF corrections[i].ext[1] = run THEN corrections[i].ext[2] ELSE NoField]

\* The JOIN of the lookup: the field of the extraction each correction is for.
CorrectedField ==
  [i \in DOMAIN corrections |->
     IF storeExts[corrections[i].ext] # NoExt THEN corrections[i].ext[2]
     ELSE NoField]

Contradictions(f) ==
  Contradicting(corrections, CorrectedField, f, pending[f].value)

GateConfidence(f) == Calibrated(pending[f], Cardinality(Contradictions(f)))
GateVerdict(f) == RouteVerdict(GateConfidence(f))

\* The extraction as the trace carries it after the gate.
Gated(f) ==
  [pending[f] EXCEPT
     !.conf = GateConfidence(f),
     !.status = IF GateVerdict(f) = "pass" THEN @ ELSE "pending_review"]

\* Stages 6 and 7: one blocked value halts the run to human_review, otherwise
\* the values that passed are suggested.  The gate's query may raise.
Gate ==
  /\ phase = "gate"
  /\ LET exts == [f \in Fields |-> IF f \in Found THEN Gated(f) ELSE NoExt]
     IN  \/ /\ \E f \in Found : GateVerdict(f) = "block"
            /\ Finish("halted", exts, {})
         \/ /\ \A f \in Found : GateVerdict(f) # "block"
            /\ Finish("ok", exts, {f \in Found : GateVerdict(f) = "pass"})
         \/ Raise("error")
  /\ UNCHANGED <<run, text, pending, recorded, provVars, storeVars,
                 historyVars>>

-----------------------------------------------------------------------------
(* The overlay's endpoints *)

\* Mutant of Listed: the chain is not asked for.
ListedUnchecked == {f \in Fields : trace.exts[f] # NoExt}

\* What run_demo lists: every extraction of the trace, halted or not, that is
\* not BLOCKED and has a complete chain.
Listed ==
  {f \in Fields : /\ trace.exts[f] # NoExt
                  /\ trace.exts[f].status # "blocked"
                  /\ ChainComplete(<<run, f>>)}

Suggestion(f) == [ext |-> <<run, f>>, value |-> trace.exts[f].value,
                  anchor |-> trace.exts[f].anchor,
                  status |-> trace.exts[f].status]

Proposal(f) == [ext |-> <<run, f>>, value |-> trace.exts[f].value]

\* /demo answers with the suggestions and registers an action for each, or
\* fails before, when the file cannot be read again for the page.
Respond ==
  /\ phase = "respond"
  /\ phase' = "idle"
  /\ \/ /\ shown' = shown \cup {Suggestion(f) : f \in Listed}
        /\ actions' = actions \cup {Proposal(f) : f \in Listed}
     \/ UNCHANGED <<shown, actions>>
  /\ UNCHANGED <<run, text, pending, recorded, trace, provDocs, provChunks,
                 provExts, storeVars, accepted, applied>>

\* ActionExecutorImpl.apply once confirmed; the target app of every action of
\* the overlay is on the allowlist.
Verified(a) == ChainComplete(a.ext) /\ provExts[a.ext].value = a.value

\* Mutant of Apply: the action is looked up by field, so a page of an earlier
\* run finds the action of a later one.
ApplyByField(s, accept) ==
  /\ phase = "idle"
  /\ accepted' = IF accept
                   THEN accepted \cup {[ext |-> s.ext, value |-> s.value]}
                   ELSE accepted
  /\ applied' = IF accept
                  THEN applied \cup {a \in actions : a.ext[2] = s.ext[2] /\ Verified(a)}
                  ELSE applied
  /\ UNCHANGED <<jobVars, provVars, storeVars, shown>>

\* /apply for a suggestion the client was sent; accept is the client's answer.
\* The action stays registered and pending.
Apply(s, accept) ==
  /\ phase = "idle"
  /\ accepted' = IF accept
                   THEN accepted \cup {[ext |-> s.ext, value |-> s.value]}
                   ELSE accepted
  /\ applied' = IF accept
                  THEN applied \cup {a \in actions : a.ext = s.ext /\ Verified(a)}
                  ELSE applied
  /\ UNCHANGED <<jobVars, provVars, storeVars, shown>>

\* /correct: an edit, or a rejection when corrected is empty.  Neither the
\* extraction nor its action changes.
Correct(s, corrected) ==
  /\ phase = "idle" /\ Len(corrections) < MaxCorrections
  /\ corrections' = Append(corrections, [ext |-> s.ext, original |-> s.value,
                                         corrected |-> corrected])
  /\ UNCHANGED <<jobVars, provVars, storeDocs, storeChunks, storeExts,
                 historyVars>>

\* The process stops, at any point of a run, and is started again.
Crash ==
  /\ phase' = "idle"
  /\ pending' = NoExts /\ recorded' = {} /\ trace' = NoTrace
  /\ provDocs' = {} /\ provChunks' = {} /\ provExts' = Unregistered
  /\ actions' = {}
  /\ UNCHANGED <<run, text, storeVars, historyVars>>

\* One step of a request that is being served.
RunStep ==
  \/ RegisterDocument
  \/ \E k \in 1..NChunks : RegisterChunk(k)
  \/ Screen \/ Compress \/ Extract \/ Ground
  \/ \E f \in Fields : RecordExtraction(f)
  \/ Gate \/ Respond

Next ==
  \/ CaptureContext
  \/ RunStep
  \/ \E s \in shown, accept \in BOOLEAN : Apply(s, accept)
  \/ \E s \in shown, v \in Values \cup {NoText} : Correct(s, v)
  \/ Crash

Spec == Init /\ [][Next]_vars
-----------------------------------------------------------------------------
(* Properties *)

Correction == [ext : ExtIds, original : Values, corrected : Values \cup {NoText}]
Shown == [ext : ExtIds, value : Values, anchor : ChunkIds \cup {NoChunk},
          status : {"suggested", "pending_review", "blocked"}]
Valued == [ext : ExtIds, value : Values]

\* Every variable has the type its comment above gives it, and a request that
\* is being served has a run number.
TypeOK ==
  /\ phase \in Phases
  /\ run \in 0..MaxRuns
  /\ phase # "idle" => run \in Runs
  /\ text \in [1..NChunks -> SUBSET Values]
  /\ pending \in [Fields -> Extraction \cup {NoExt}]
  /\ recorded \subseteq Fields
  /\ trace \in [outcome : Outcomes, exts : [Fields -> Extraction \cup {NoExt}],
                suggest : SUBSET Fields]
  /\ provDocs \subseteq Runs /\ provChunks \subseteq ChunkIds
  /\ provExts \in [ExtIds -> Extraction \cup {NoExt}]
  /\ actions \subseteq Valued
  /\ storeDocs \subseteq Runs /\ storeChunks \subseteq ChunkIds
  /\ storeExts \in [ExtIds -> Row \cup {NoExt}]
  /\ corrections \in Seq(Correction)
  /\ shown \subseteq Shown /\ accepted \subseteq Valued /\ applied \subseteq Valued

\* Refuse or cite: whatever the suggest stage of a finished run holds was not
\* refused by the verifier, kept at least the flag threshold of confidence,
\* and resolves action -> extraction -> chunk -> document both in the
\* provenance graph and on disk; an exact grounding really has the target in
\* the cited chunk.
SuggestStageCited ==
  \A f \in trace.suggest :
    LET e == trace.exts[f]
    IN  /\ e.method # "block" /\ e.anchor # NoChunk
        /\ e.conf >= FlagThreshold
        /\ e.chunk = e.anchor /\ e.anchor \in storeChunks
        /\ ChainComplete(<<run, f>>)
        /\ provExts[<<run, f>>].anchor = e.anchor
        /\ e.method = "exact" => Target(e) \in text[e.anchor[2]]

\* A single value the verifier refused takes the whole run to human_review:
\* a run that ends well carries no such value, not even one to be reviewed.
UngroundedHaltsRun ==
  trace.outcome = "ok" =>
    \A f \in Fields : trace.exts[f] # NoExt => ~Ungrounded(trace.exts[f])

\* At every instant, so after a crash between any two commits or a failed
\* write, what is on disk refers only to what is on disk: an extraction to its
\* chunk, a chunk to its document, a correction to its extraction (or the
\* gate's JOIN would drop it).
StoredChainsResolve ==
  /\ \A c \in storeChunks : c[1] \in storeDocs
  /\ \A x \in ExtIds :
       storeExts[x] # NoExt /\ storeExts[x].chunk # NoChunk
         => storeExts[x].chunk \in storeChunks
  /\ \A i \in DOMAIN corrections : storeExts[corrections[i].ext] # NoExt

\* An action the executor can find was proposed for an extraction whose chain
\* is complete and whose value is the proposed one, in memory and on disk.
ActionsBacked ==
  \A a \in actions :
    /\ Verified(a)
    /\ storeExts[a.ext] # NoExt /\ storeExts[a.ext].value = a.value

\* Nothing is written without a person's confirmation of that very value,
\* however old the page it was confirmed on and whatever was run or restarted
\* in between.
AppliedAsConfirmed == applied \subseteq accepted

\* The most recent Window corrections of field f all changed it to something
\* else than the value at hand.
Saturated(f) ==
  \E S \in SUBSET DOMAIN corrections :
    /\ Cardinality(S) = Window
    /\ \A i \in S : /\ corrections[i].ext[2] = f
                    /\ corrections[i].corrected # pending[f].value
    /\ \A i \in DOMAIN corrections \ S :
         corrections[i].ext[2] = f => \A j \in S : i < j

\* The flywheel wins over the pack: a field people keep correcting away from
\* the value at hand is never suggested, however sure the pack is of it and
\* however well it is grounded.
SaturatedFieldNeverPasses ==
  [][phase = "gate" => \A f \in trace'.suggest : ~Saturated(f)]_vars

-----------------------------------------------------------------------------
(* Why the properties hold: what each stage leaves to the next.  Together   *)
(* with TypeOK and the properties this is inductive.                        *)

Stages == {"chunks", "screen", "compress", "extract", "ground", "record", "gate"}
ChunksOf(r) == {r} \X (1..NChunks)

\* The run's document, then its chunks, are in memory and on disk before any
\* later stage starts.
RegisteredSoFar ==
  /\ phase \in Stages => run \in provDocs /\ run \in storeDocs
  /\ phase \in {"document", "chunks"} =>
       \A c \in ChunksOf(run) : c \in provChunks => c \in storeChunks
  /\ phase \in Stages \ {"chunks"} =>
       ChunksOf(run) \subseteq provChunks \cap storeChunks

\* No id is ever used for a second thing.
IdsFresh ==
  /\ \A c \in provChunks : c[1] <= run
  /\ \A s \in shown \cup actions :
       s.ext[1] <= run /\ (phase # "idle" => s.ext[1] < run)

\* What grounding leaves in an extraction of the current run.
Resolved(ext) ==
  /\ ext.anchor # NoChunk => ext.chunk = ext.anchor
  /\ ext.anchor = NoChunk => ext.method = "block"
  /\ ext.method = "exact" => Target(ext) \in text[ext.anchor[2]]

PendingGrounded ==
  /\ phase \in {"ground", "record", "gate"} =>
       \A f \in Found : pending[f].chunk \in ChunksOf(run) \cup {NoChunk}
  /\ phase \in {"record", "gate"} => \A f \in Found : Resolved(pending[f])

PendingRecorded ==
  /\ phase \in {"document", "chunks", "screen", "compress", "extract", "ground"}
       => recorded = {}
  /\ phase \in {"record", "gate"} =>
       /\ recorded \subseteq Found
       /\ \A f \in recorded : /\ provExts[<<run, f>>] = pending[f]
                              /\ storeExts[<<run, f>>] = RowOf(pending[f])
  /\ phase = "gate" => recorded = Found

\* What the trace holds agrees with the graph and the store in all but the
\* confidence and the status, which the gate changes afterwards.
TraceRecorded ==
  /\ \A f \in Fields : trace.exts[f] # NoExt =>
       LET e == trace.exts[f]
           p == provExts[<<run, f>>]
       IN  /\ phase \in {"respond", "idle"}
           /\ p # NoExt /\ p.value = e.value /\ p.chunk = e.chunk /\ p.anchor = e.anchor
           /\ storeExts[<<run, f>>] # NoExt /\ storeExts[<<run, f>>].value = e.value
           /\ Resolved(e)
           /\ e.chunk # NoChunk => /\ e.chunk \in provChunks \cap storeChunks
                                   /\ e.chunk[1] \in provDocs
  /\ \A f \in trace.suggest : /\ trace.exts[f] # NoExt
                              /\ ~Ungrounded(trace.exts[f])
                              /\ trace.exts[f].conf >= FlagThreshold

\* A client can only hold a suggestion whose row was committed.
ShownStored ==
  \A s \in shown : storeExts[s.ext] # NoExt /\ storeExts[s.ext].value = s.value

Bookkeeping ==
  /\ RegisteredSoFar /\ IdsFresh /\ PendingGrounded /\ PendingRecorded
  /\ TraceRecorded /\ ShownStored

IInv ==
  /\ TypeOK /\ Bookkeeping /\ StoredChainsResolve /\ ActionsBacked
  /\ UngroundedHaltsRun /\ AppliedAsConfirmed
=============================================================================
