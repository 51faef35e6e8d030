# Kairo Phantom: a verification project

TLA+ modules that model the state-changing core of Kairo Phantom, TLC configurations that check them on small
instances, and TLAPS proofs for every value of their constants. Paths below are relative to `src/`; line numbers
refer to the commit the models were written from.

Kairo Phantom is three programs with one purpose, writing into people's documents only what can be answered for:

* the **document kernel** (Python, `kernel/`, `overlay/`, parts of `kairo/`): extracts values from a document, grounds
  each in the text, gates it, and lets a person apply or correct it through a web overlay;
* the **desktop daemon** (Rust, `phantom-core/`): listens to hotkeys, writes answers of a language model into the
  document in front ("ghost-writing"), and carries out approved plans of clicks and keys ("computer use", CUA);
* the **document sidecar** (Python, `kairo-sidecar/`): reads and writes Word, Excel and PowerPoint documents for the
  daemon, open or not, and fetches the vision model that computer use looks with.

## 1. Inventory

### Document kernel

| component | state it keeps | operations | talks to | what is hard |
|---|---|---|---|---|
| Orchestrator (`kernel/sidecar/orchestrator.py`) | the run being served: extractions, trace | `run`: capture, register, screen, compress, extract, ground, record, gate, finish | all of the below, by calls | many ways out, each leaving a prefix of the writes behind |
| Provenance log (`kernel/core/provenance.py`) | documents, chunks, extractions, actions, in memory | `register_*`, `get_provenance` | orchestrator, overlay, executor | lost at a restart while the store is kept |
| Memory store (`kernel/sidecar/memory_store.py`) | the same things and corrections, in SQLite | `upsert_*`, `record_extraction`, `record_correction`, correction lookup | orchestrator, gate, overlay | every call commits for itself; foreign keys are not enforced |
| Grounding verifier (`kernel/core/grounding.py`) | none | `verify` | orchestrator | may move a value to another chunk than the pack named |
| Quality gate (`kernel/sidecar/quality_gate.py`) | none (reads corrections) | `check` | store | arithmetic at thresholds; window of five corrections |
| Compressor (`kairo/context/compressor.py`) | none | `compress_document_chunks` | orchestrator | optional engine, fallback |
| Action executor (`kernel/sidecar/action_executor.py`) | none | `apply` | provenance log | asked with old pages |
| Web overlay (`overlay/server.py`) | the last trace; what clients hold | `/demo`, `/apply`, `/correct` | all of the above | requests about earlier runs and earlier processes |
| Audit log, sync manager, knowledge graph, packs, ingestor, security filter, gateway | see `components` in PROJECT.json | | | not modelled, section 8 |

Correct means: a value that reaches the suggest stage is cited; one value the verifier refuses stops the run; what is
on disk refers only to what is on disk; only what a person confirmed is applied; repeated corrections win over a
confident pack.

### Desktop daemon

| component | state it keeps | operations | talks to | what is hard |
|---|---|---|---|---|
| Keyboard hook (`hotkey.rs`) | `CUA_PENDING`, `SKILL_SAVE_PENDING`, `CAPTURED_HWND` | `low_level_keyboard_proc` | event channel (64) | own thread, between any two steps of the loop; waits when the channel is full |
| Event loop (`main.rs`) | `pending_plan`, `pending_cua_plan`, the session's locals | one arm per `PhantomEvent` | everything | one handler at a time, minutes long, awaiting in the middle |
| CUA timeout guard (`main.rs:1959`) | the flag it shares with all others | wakes, reads, clears | hook, loop | not tied to its plan |
| CUA gate and limiter (`cua/cua_gate.rs`) | timestamps of a sliding window | `validate_action`, `check_and_increment` | executor | lock held across a model call |
| CUA executor (`cua/cua_executor.rs`) | rollback stack, audit log | `execute`, fallback, verification, rollback | gate, backends | several plans at once; failure in the middle of an action |
| Ghost session (`main.rs:951-3812`) | answer, target window, tries | capture, guard, plan, stream, screen, write or paste | model, sidecar, clipboard, focus | answers from five places; chain of writers; the user goes on working |
| Injector (`injector.rs`) | `UNDO_BUFFER` (10) | record, undo | session | knows a length and a window, not the text |
| Paste checks (`main.rs:3555`) | one task per paste | look, paste again | clipboard, focus | run beside the next session |

Correct means: the first key after a plan is shown settles it; no plan runs twice; the flag never stays up; no window
of time holds more admitted actions than the limit; a plan is sent in order, confirmed action by confirmed action; the
log tells the truth; no answer and no plan for review reaches a document unscanned (reports do, section 6); an answer
written to the file is not pasted as well; a session has one outcome; the loop comes back, unless it waits for its own
channel or for a sidecar that never replies.

### Document sidecar

| component | state it keeps | operations | talks to | what is hard |
|---|---|---|---|---|
| Paragraph edits (`writers/docx_writer.py`, `masters/word_master.py`) | the document being edited, cached paragraphs, shifted indices | insert, replace, append, delete, by the index the document had when it was read | python-docx, Word (COM) | every edit moves the paragraphs of the later ones; three implementations |
| Document writers (`docx_writer`, `word_master`, `xlsx_writer`, `pptx_writer`, `excel_master`, `xlsx_parser`) | the file, its backup, its temporary file | back up, load, apply, save, rename, restore, tidy | file system, Office | each step may fail, the application locks what it has open, the process may die |
| Workbook lease (`parsers/excelmcp_bridge.py`) | whether it closed the user's workbook | close, write, reopen | Excel | must reopen on every way out |
| Parse caches (`parsers/cache.py`, `docling_parser.py`) | parsed documents, on disk and in memory, by modification time | look up, parse, store, evict | file system | the file changes during a parse; restored backups have old times |
| Model download (`cua/vlm_download_manager.py`) | partial file, model file, progress, lock | start, resume, rename, register | network, disk, Ollama | requests in threads, interrupted and resumed transfers, restarts |
| Routing, masters, other parsers and exporters | none beyond a request | one request, one answer | models, file system | not modelled, section 8 |

Correct means: an edit reaches the paragraph it names, and the document is the same whichever way it was written, if it
does not end in a prompt or a blank paragraph; an answer of success means that the operations are in the document, if
none of them failed, one of failure that it is as it was; no crash loses both the document and its backup; nothing the
user typed is taken; a closed workbook comes back; what is read is what the file was; a model file is a whole model, if
the server kept to the ranges it was asked for, and a failed download can be tried again. What the code does in the
cases excepted here is in section 6.

### How the parts interact

    keyboard --hook--> channel --loop--> Alt+Ctrl+M handler --+--> model, sidecar, clipboard, document
        |                 ^                                   +--> pending_cua_plan, CUA_PENDING, guard timer
        +-- CUA_PENDING --+-- CuaApproved / CuaCancelled ----> task of the plan --> limiter --> executor --> backends
    ghost session --read, write, start download--> sidecar --> parse caches, writers, downloader --> files, Office, network
    client --/demo--> orchestrator --> provenance log (memory) + store (disk) --> gate --> answer
           --/apply, /correct--> executor / store

Hook and loop share flags and the channel; tasks of plans share the limiter; paste checks share clipboard and focus
with the session; the overlay's requests share the provenance log and the store, and run one after the other (their
handlers are coroutines without an `await`), so that only a restart comes in between. The sidecar serves its requests
one after the other too (`handle_request` is synchronous), but the user's applications use the same files meanwhile, and
the download runs in threads of its own.

## 2. Modules

| module | models | checked by |
|---|---|---|
| `QualityGate` | the gate's arithmetic and the correction lookup as operators, in hundredths | as part of `KairoKernel` |
| `KairoKernel` | one kernel process: orchestrator, provenance log, store, endpoints, crashes | `MCKairoKernel` |
| `KairoKernel_proofs` | its theorems | TLAPS |
| `CuaApproval` | hook, flag, slot, channel, loop, timeout guards, overlay | directly |
| `PlanLifecycle` | what the approval of plans promises, abstractly | refined by `CuaApproval` |
| `CuaApproval_proofs` | its theorems, the refinement among them | TLAPS |
| `CuaExecutor` | limiter, gate, backends, verification, audit, rollback of approved plans | `MCCuaExecutor` |
| `CuaExecutor_proofs` | its theorems | TLAPS |
| `GhostWriter` | the Alt+Ctrl+M session, undo, dictation, skill offers, paste checks, the user | `MCGhostWriter` |
| `GhostWriter_proofs` | its theorems | TLAPS |
| `ParagraphEdits` | the three ways of applying a plan of edits to a Word document | directly |
| `ParagraphEdits_proofs` | its theorems | TLAPS |
| `DocumentWrites` | six writers, their files and failures, the user at the same document | directly |
| `DocumentWrites_proofs` | its theorems | TLAPS |
| `ParseCache` | reading a document through the two caches | directly |
| `ParseCache_proofs` | its theorems | TLAPS |
| `ModelDownload` | the downloader, its threads, files, failures and restarts | directly |
| `ModelCache` | what the files of the download promise, abstractly | refined by `ModelDownload` |
| `ModelDownload_proofs` | its theorems, the refinement among them | TLAPS |

`CuaApproval` and `CuaExecutor` meet at `running`: a plan enters it when it is approved, and what happens until it
leaves is `CuaExecutor`. `GhostWriter` meets `CuaApproval` where a session escalates, which ends the session, and the
modules of the sidecar where `WriteNatively` takes the outcome of a call: its outcomes "ok", "failed" and "lost" are the
answers and crashes of `DocumentWrites`.

### KairoKernel

`phase` is the place `orchestrator.run` has reached; each action is what happens between two commits or two possible
exceptions. `provDocs`, `provChunks`, `provExts`, `actions` are the provenance log; `storeDocs`, `storeChunks`,
`storeExts`, `corrections` the tables; `trace` the returned `Trace`. `shown`, `accepted`, `applied` are history: what
clients were sent, confirmed, and what `apply` reported. `Crash` may come at any point, empties the memory and keeps
the tables. Every id of the code is a fresh uuid; here chunks are `<<run, k>>` and extractions `<<run, field>>`.
A text is the set of values that occur in it. Exact grounding is decided by that; the similarity measures behind
fuzzy, semantic and visual grounding are left open (any of them may find any chunk when the exact match fails). What
a pack returns is arbitrary, because it reads the compressed text. `register_*` and its commit are one action that may
fail between the two. Left out: pages (nothing modelled reads them), texts of messages, tracing counters.

### CuaApproval

Every access of the hook to `CUA_PENDING` is a step: read (`Intercept`), clear (`ClearFlag`), send (`SendEvent`, which
waits for room). The loop's handler is `HandleHotkey`, then `StorePlan`, `RaiseFlag`, `ShowPlan` or `NoEscalation`. A
guard reads the flag (`TimerWakes`) and clears it (`TimerClears`) in two steps. Of time only the order is kept: a
plan's guard (10.5 s) wakes after its overlay (10 s). `answer`, `overtaken`, `executed` are history. The keys of an
executing plan go through the hook like the user's. The model is of the Windows hook; the modifier tracking and the
rdev listener of other systems are left out. `PlanLifecycle` knows only a status and an answer per plan; `Status`
computes it from slot, running tasks and history, and `LifecycleKept` says that hook, flag, slot, channel, loop and
timers together take only its steps.

### CuaExecutor

Each task runs through `pc`: lock, gate, settle, verify per action, rollback or done. `admitted` keeps all admissions
and `front` marks what the limiter still remembers, so that the window property can speak of forgotten ones. One
refusal stands for all rules of the gate. A backend may fail with its action partly done. The cancellation token is
created for the task and shared with nobody, so its branches are never taken and are not modelled.

### GhostWriter

Each action is what the handler does between two awaits. `ses` holds its locals, `docs` what was written to each window
(by which session, by which way, whether the sentinel and the validator would accept it), `clip` the clipboard, `line`
the `//` line in front of the cursor, `checks` the spawned tasks. An answer is a record of three attributes: passes the
sentinel, passes the validator, and what can be parsed from it. What a report pastes is an answer nobody looked at
(`// think`, a summary and a formula are streamed, and `stream_complete` does not scan) or a text of the program's own
(`Empty`); what a plan for review pastes comes from `complete`, which scans (`ai.rs:92`), or is the program's own plan
(`Drafted`). `WriteNatively` has one disjunct per outcome of a call; `After` is who is tried next. "lost" is a write
whose reply did not arrive. `SetClip` and reads of the screen may fail, as their errors are logged and ignored. Windows
in `Shared` are collaborative editors: their answer goes into the handler's own CRDT documents instead of the clipboard
(`LeaveToPeers`). Left out: prompts, memory and statistics, the counters that only word toasts, screen capture (the
same send as dictation).

### ParagraphEdits

One step applies one edit, to python-docx's document (`file`) and to Word's (`word`) side by side, so that the two
paths are compared after every prefix of every plan. Any of the paragraphs read may be blank (`blanks`): COM's append
and its insertion at the end write into a blank last paragraph, python-docx adds one after it. `indices` is
`current_indices` with its shifts, `cached` the list of paragraphs python-docx began with. The third way, `WordWriter`,
sorts the whole plan first, so it is no behaviour but a function of the plan: `Sorted` gives each index its turn, the
highest first (`SortedIndex`), and in a turn `AtIndex` applies the edits of that index in the order of the plan, which
is what a stable sort makes of them. Both are recursive functions, so that they can be proved about. A paragraph is its
identity and the edits that wrote its text; the paragraphs that begin with `//` are removed before the first edit. Word
never removes its last paragraph mark, which is external and `Blank`. Left out: tables, headings, tracked changes and
formats.

### DocumentWrites

A writer is a record of its steps and, for each step, the steps its handler runs when it fails; `todo` is what it still
has to do. `Fails`, `Failed` and `Ignored` are the three things the code does with an error of a step. An operation
that fails is left out and counted (`errs`), and the next one is tried: `Applied` has what such a write may leave,
which is some of its operations or none. A file is the sequence of changes it holds, or torn, or absent, so that
properties can speak of lost operations and lost edits. The application locks a file it has open, and the user opens,
types, saves and closes between any two steps; closing without saving, which loses edits by intention, is left out, as
are the two outputs of tracked changes.

### ParseCache

A number is the content of a file and the time it was saved, which `shutil.copy2` keeps: `Save` makes a new one,
`Restore` brings back an old one, both at any moment. `read_docx` asks the open document, then `DocumentCache`, which
survives a restart; the Word master's context uses the memory cache, whose order and entries are two variables as in the
code. `seen` is what the document was since the request came. Look-ups and stores may fail, which the code swallows.

### ModelDownload

Each request that passes the test of `start()` has a thread with an event loop of its own, and they share one
`asyncio.Lock`: the first to find it taken binds it to its loop, later ones are refused. A file is the sequence of the
parts written to it. The server may send the rest, refuse, or ignore the range and send the whole file
(`RespondWhole`), which the downloader appends to what it has; a restart may lose what was not flushed. `ModelCache` has
only a number of parts, whether the file is published, and whether its parts may be others than the first ones in their
order (`mixed`): then they are only counted. Left out: notifications, and `setup_vlm.py` run by hand beside the sidecar.

## 3. Runs

| run | question | bounds |
|---|---|---|
| `kernel_store` | do graph, store, actions and applied values agree, whatever fails or crashes where? | 2 requests, 2 chunks, 4 documents, 5 pack answers, 1 field, 1 correction |
| `kernel_fields` | how do the verdicts of several values combine? | 1 request, 2 fields, 1 correction |
| `kernel_flywheel` | does a saturated correction window always win? | 2 requests, 6 corrections (window 5 and one more) |
| `approval_keys` | who settles a plan, is its life the promised one, does the flag come down? | 3 plans, channel of 2; fair |
| `executor_plans` | does the window hold across tasks, is a plan sent in order, logged truly, and ended? | 2 tasks of 2 actions, limit 2 per unit, 3 instants; fair |
| `ghost_answers` | what reaches a document in every format, by every writer, from every source? | 8 windows (one of each format and a shared one), 3 commands, 5 answers, 3 user acts |
| `ghost_session` | plans, undo and offers across sessions; does the loop come back? | 2 windows, all keys, undo buffer of 1, channel of 2, 4 user acts; fair |
| `paragraph_edits` | does every edit reach its paragraph, do the three ways agree, does the rest stay? | 3 paragraphs, 4 edits, any paragraphs prompts or blank |
| `document_writes` | what do answer, failure, death and the user at the same document leave behind? | 6 writers, 2 writes, 2 user edits, 2 failing steps per write, 1 death |
| `parse_cache` | is what is read what the file was, does eviction keep the cache in step? | 2 documents, memory cache of 2, 4 requests, 3 saves or restorations, 1 restart |
| `model_download` | one download at a time, a whole model (or one no shorter, when ranges are ignored) or none, does each end? | 3 threads, 3 parts, 2 failures, 2 restarts; fair |
| `doc_auto_executes` | a statement of the repository that the code does not keep (section 6) | 2 plans, channel of 3 |

What each property says stands above its definition. The properties that carry the project:

* `SuggestStageCited`, `UngroundedHaltsRun`: the "refuse or cite" promise as the code keeps it: what is *suggested* is
  cited, resolves in memory and on disk, and one refused value halts the run.
* `StoredChainsResolve`, `ActionsBacked`, `AppliedAsConfirmed`: after a crash or a failed write anywhere, the disk is
  closed under its references, and an old page can only apply what was confirmed on it.
* `SaturatedFieldNeverPasses`: five corrections against a value cost more than the distance to the threshold.
* `FirstKeyDecides`, `LifecycleKept`, `FlagComesDown`: the approval protocol between hook, loop and guards. Plans an
  approval was overtaken by are excepted from the first, and are what `doc_auto_executes` is about.
* `WindowBound`, `DispatchDiscipline`, `AuditIsTrue`, `DispatchedIsAudited`, `PlanEnds`: the executor.
* `Screened`, `NativeOrPasted`, `OneOutcome`, `PlansTakenInOrder`, `LoopComesBack`: the session. `Screened` is about
  answers and plans, because reports are not scanned (section 6).
* `IndicesTrack`, `PathsAgree`, `SortedAgrees`, `UntouchedStays`: edits by index. The last three have preconditions
  (prompts, a blank last paragraph, insertions after a deleted paragraph), outside which the code does differ; section 6
  says how.
* `OkMeansWritten`, `ErrorMeansUnchanged`, `LastCopyKept`, `ClosedIsReopened`, `WorkKept`: the writers. Each names
  the failed steps for which it says nothing, because the code has no further fallback there; `OkMeansWritten` promises
  the operations only of a write in which none failed (section 6).
* `AnswersTrue`, `EvictionKept`: the caches.
* `OneDownload`, `ActiveMeansWorking`, `CacheKept`, `DownloadEnds`: the download.

### Why the bounds are enough to see the hard cases

* Two requests let a client confirm on a page of the first what the second changed, with a crash between any two
  commits of either; two chunks let the verifier move a value; the four documents have the value in either, both and
  neither chunk; the five pack answers are sure with and without a chunk, doubtful, quoted from a span that reads
  otherwise, and a value most documents lack. The thresholds 0.50 and 0.20, the penalty 0.15 and the window of five
  are the code's own.
* Three plans give one that is answered, one that overtakes it and one after; a channel of two fills behind a planning
  loop (the hook waits) and holds an approval and a cancellation at once.
* Two tasks with four actions between them exceed the limit of two; three instants let a window end while an action
  waits in the gate. One plan alone stays within the limit, so plans end confirmed, refused and rolled back.
* Three user acts in `ghost_answers` are: write the command, press the hotkey, press it again. That is all a single
  answer needs; the variety is in formats, answers and outcomes. Four acts in `ghost_session` give several presses
  behind one running session, a stored plan with three more presses, and undo of more pastes than the buffer holds.
* Three paragraphs have a first, a middle and a last one; four edits allow an insertion before, a deletion of and two
  edits after the same paragraph. All 13 edits (four kinds at three places, and an append) may follow each other, in
  each of the 27 documents whose paragraphs are prompts, blank or neither.
* Two writes show what one leaves for the next (stale backups and temporary files); two failing steps are a step and
  its handler; one death may fall between or into any two steps. A third writer adds nothing: a document has one.
* Three saves or restorations are: save during a parse, restore the older file, save again; a memory cache of two with
  two documents evicts on the third parse; a fourth request reads what the others left.
* Three threads are one at work, one that binds the lock and one that is refused; three parts can be interrupted at the
  start, in the middle and before the rename; two restarts allow a resumed download to be interrupted again.
* The channel of 64, the undo buffer of 10 and the caches of 32 and 16 are constants, small in the runs, so that they
  fill.

Deadlock is checked except where the system may stop: executor plans end, downloads end, edits, writes and requests are
bounded, and the user of `GhostWriter` stops acting after `MaxActs`.

## 4. Fairness

* Kernel, edits, writes, caches: none. These modules have safety properties only.
* Approval: the hook's thread, the loop and tokio's timers are scheduled and the overlay's window timer fires. Nothing
  is assumed of the keyboard: `FlagComesDown` holds without any key.
* Executor: every task is run and tokio's mutex is fair; backends and the vision model return.
* Session: the loop takes the next event when there is one, and its handler goes on (`WF(~AwaitsReply /\ Session)`)
  except where it waits for a line from another process: `call_sidecar` awaits its pipe with no timeout
  (`sidecar_client.rs:240-265`), and so does the request to the Tolaria server. Nothing is assumed of those, of the
  user, or of the end of an answer's stream (`StreamEnds`, `StreamFails`): the loop depends on its 90 s timer there.
  Calls to the model return because their HTTP clients have limits, which is also what ends the cloud fallback, outside
  the 90 s. `LoopComesBack` therefore has two exceptions: a call that is never answered (`[]AwaitsReply`), and the
  state in which the loop waits for room in its own channel (section 6).
* Download: each thread goes on, because each of its waits has a time limit (the request's, the registration's). The
  wake-up of a thread whose lock is released in another event loop (`Awake`) has no fairness: it may never notice.

## 5. Proofs

All are for every value of the constants, from the constants' named assumptions (`GateAssumption` and the like, which
say only that bounds are natural numbers, thresholds ordered, model values distinct, and, for `GhostWriter`, that the
response validator rejects an empty answer). Each module proves `Init => IInv` and `IInv /\ [Next]_vars => IInv'`, one
step per action.

* **KairoKernel_proofs.** `IInv` is `TypeOK`, `Bookkeeping` and the properties it implies. None of those is inductive
  alone: that an action is backed rests on what was registered for the run, that on what was recorded stage by stage,
  and all of it on ids being fresh (otherwise a later run could replace what an earlier page refers to). `Bookkeeping`
  names these facts (`RegisteredSoFar`, `IdsFresh`, `PendingGrounded`, `PendingRecorded`, `TraceRecorded`,
  `ShownStored`). Theorems: `TypeCorrect`, `BookkeepingHolds`, `SuggestionsAreCited`, `UngroundedHalts`,
  `StoreIsClosed`, `ActionsAreBacked`, `OnlyConfirmedIsApplied`, and `SaturatedFieldNeverSuggested`, which assumes that
  a full window costs more than the distance from certainty to the flag threshold
  (`Window * Penalty > 100 - FlagThreshold`; 75 > 50 in the code).
* **CuaApproval_proofs.** `FirstKeyDecides` and `EachPlanRunsOnce` follow from `AnswersInOrder` (an approval still under
  way finds its own plan, an overtaken one, or nothing) and `PlansInOrder` (the slot holds the last plan made, and
  nothing executed is in it). `LifecycleImplemented` is the refinement of `PlanLifecycle`: a step on slot or tasks is
  `Make`, `Execute`, `Drop` or `End`, an intercepted key is `Decide` or nothing, everything else stutters.
  Theorems: `TypeCorrect`, `BookkeepingHolds`, `FirstKeyDecidesHolds`, `PlansRunOnce`, `LifecycleImplemented`.
* **CuaExecutor_proofs.** `WindowBound` needs `LimiterInv`: admissions are in order of time, what was forgotten is older
  than a window, what is remembered never exceeds the limit. When an action is admitted there is room, so the
  admission `MaxPerWindow` places before was forgotten and is a window old; every other pair was compared before. For
  `DispatchDiscipline`, `Progress` ties each task's place to what it sent last. The log's properties rest on
  `AuditPlace`: whatever was confirmed, logged or sent is behind the action the task is at, or is that action.
  Theorems: `TypeCorrect`, `BookkeepingHolds`, `WindowBoundHolds`, `DispatchDisciplineHolds`, `AuditIsTrueHolds`,
  `DispatchedIsAuditedHolds`.
* **GhostWriter_proofs.** `Screened` needs `ScreenedInv`: an answer on its way is in the handler's variables (clean
  from the moment it passed to the paste), on the clipboard, in a task that may paste it again, or in a document, and
  each place is filled from another that is clean, if it is an answer or a plan. `PlansTakenInOrder` needs that what
  was taken and what is stored come from earlier sessions than the one that captures (`TakenEarlier`, `StoredEarlier`),
  `OneOutcome` that a session has no entry before it starts and its start as the last entry until it ends
  (`AuditPlace`). `NativeOrPasted` needs `NativeInv`: after a confirmed write the session's steps lead away from
  clipboard and paste, and no clipboard content or check task is the session's. Theorems: `TypeCorrect`,
  `AnswersAreScreened`, `PlansAreTakenInOrder`, `OneOutcomeHolds`, `NativeOrPastedHolds`.
* **ParagraphEdits_proofs.** Lemmas say where an insertion into and a removal from a sequence leave each element; with
  them every shift of `current_indices` follows the paragraph it stands for, and a deleted one is marked before another
  takes its place (`IInv`). What an operation does is then one of three opaque facts (`Grown`, `Shrunk`, `Rewritten`),
  and four invariants build on each other. `AgreeInv` puts the two documents side by side. `IndexedAlike` holds for
  every document: an index leads to the paragraph that python-docx has cached, in the same place of both, or to none in
  both, and no identity is in the file twice. For documents that do not end in a prompt or a blank paragraph, the
  file's texts are Word's without the blank paragraph Word may keep at its end (`SideBySide`); Word's
  document ends with the last original or with something written (`WordEnds`). `PathsAgree` alone is not inductive:
  with equal texts the two paths could still name different paragraphs next. `TouchInv` adds that the originals no edit names are
  in the file and in Word as they were and in order (`Orderly`). `CanonInv` answers why the order of the edits does not
  matter: the edits, as a set, decide the document (`Canon`). It has the originals no edit deletes and one paragraph
  per insertion; each paragraph belongs to the original of its index (`Host`) and has a rank there (of two insertions
  after one paragraph the later comes first); its text is the edits from its last replacement on. Two documents that
  are what the same edits make are equal (`CanonDecides`), and an edit that follows those of its own index takes the
  document of a set to that of the larger set (`CanonEffect`). The file meets the edits in the plan's order, `Sorted`
  from the highest index down, and both times the next edit follows those of its own index; for `Sorted` the lower
  originals also are at their own place still, which is why its insertions by position are right (`LowPlaces`).
  `Sorted` is proved about by induction on its steps: the recursive functions exist (`AtIndexExists`, `SortedExists`)
  and keep what each of their steps keeps (`AtIndexStays`, `SortedStays`). The library's induction theorems cannot be
  used, because they take a predicate, so `Induction` is stated for a set of numbers and follows from the least number
  outside it. Theorems: `TypeCorrect`, `IndicesTrackTheirParagraphs`, `PathsAgreeAlways`, `UntouchedStaysAlways`,
  `SortedAgreesAlways`: all properties of `paragraph_edits`, for documents and plans of any length.
* **DocumentWrites_proofs.** What is left to do is the end of the writer's list of steps, or one of the lists that undo
  (`OnPath`); `LineStep`, `UndoingStep` and `FailedStep` draw from the lists whose step each one is and what follows
  it, in order or after a failure. The rest of the invariant says of each step which files it may meet: `LoadedHas`
  (the document held and written has what was found, and the operations if none failed; the lemma `AppliedHas` says
  what `Applied` leaves), `CopyKept` (one whole copy while a step may destroy the other), `Unchanged` (up to the rename
  the file is as found, after it the backup is) and `EditsKept` (nothing the user has typed is only in what a step
  overwrites). It assumes of the constants only that Torn and Absent are two, and no versions. Theorems: `TypeCorrect`,
  `SuccessIsWritten`, `FailureIsUndone`, `DocumentIsKept`, `LeaseEnds`, `EditsAreKept`: all properties of
  `document_writes`, for any number of requests, edits, failures and deaths.
* **ParseCache_proofs.** `CopiesTrue` says that each stored copy was stamped with its own content or in a race, and
  `ReadTrue` the same of what the request has read so far; `Shift` is the lemma about a queue that loses entries in
  front and gains one at the end. Theorems: `TypeCorrect`, `AnswersAreTrue`, `EvictionIsKept`.
* **ModelDownload_proofs.** The invariant is the conjunction of the run's: who works holds the lock, and the partial
  file is the beginning of the model up to what the worker received, or no shorter if a range was ignored.
  `CacheImplemented` maps a received part to `Gain`, the rename to `Publish`, a lost part to `Unflushed`, an ignored
  range to `Mix`; the lemma `Counted` says that both ways of counting the parts agree while the file is a beginning of
  the model. `NeverStuck` is about `start()`: what it refuses is in progress or there. A thread it let through may
  still be refused by the lock. Theorems: `TypeCorrect`, `DownloadsAlone`, `NeverStuck`, `CacheImplemented`.

Only model-checked: the liveness properties (`FlagComesDown`, `PlanEnds`, `LoopComesBack`, `DownloadEnds`), which are
outside what the prover supports. Every other property of the passing runs is the statement of a theorem, so the runs'
bounds matter for liveness alone, and elsewhere serve to show that the interesting cases occur. Only proved, and not
part of a run: `EachPlanRunsOnce`, and the type invariants of `ParagraphEdits`, `DocumentWrites`, `ParseCache` and
`ModelDownload`.

## 6. Where the code and its statements disagree

Kept as a run, with its finding in PROJECT.json:

* `doc_auto_executes`: an approval carries no plan, so one queued behind another hotkey executes the plan made for that
  hotkey, which nobody saw and whose first key was not Tab (`grp_cua_plan.rs:10` "NEVER auto-executes").

Met in the same way (each was stated as a property and TLC gave the behaviour), described here only:

* What the properties had to leave out. The model's output of `// think`, the section summary and the formula is
  streamed and pasted with no scan and no validation (`main.rs:1619-1634`, 1660-1672, 1779-1800; `main.rs:2564` "Every
  LLM response MUST pass sentinel scan and response validation before reaching the injector"). An operation that fails
  is counted and left out (`docx_writer.py:115-134` and the other writers alike), so a write none of whose operations is
  in the document answers without an error, which the session takes for success; only PowerPoint files are read back
  (`main.rs:3260-3263`, "after every write, READ BACK the file", against silent success). When a server ignores the
  range, the whole file is appended to the part that was there and renamed (`vlm_download_manager.py:248`;
  `PREMORTEM.md:22`, the rename "is executed only after the full byte length is successfully written").
* Kernel. A value without anchors is listed to the client and gets an action, when the pack named a chunk itself
  (`data_model.py:152`). A flagged value is annotated and the run goes on (`orchestrator.py:7` "never
  annotate-and-continue"). Without the compression engine the fallback reads a variable that only the engine's loop
  assigns, and every request fails (`compressor.py:196`; line 194 "using text truncation fallback"). A value that occurs
  nowhere is grounded EXACT through its source span (`NETWORK_AUDIT.md:68`). The lookup keeps the most recent corrections and only then scores them
  (`memory_store.py:321` "most relevant").
* CUA. The rollback sends Ctrl+Z for a keystroke the gate refused (`cua/mod.rs:253`). A Tab typed by an executing plan
  approves the pending one (`hotkey.rs:297`). A guard of an answered plan clears the flag of the plan on display
  (`main.rs:1966`). The limiter counts admissions, and actions are sent later, so an interval can hold more
  (`cua_gate.rs:124`). A refusal of the gate is not logged (`cua_executor.rs:6`). No key stops an executing plan
  (`cua/mod.rs:17` "Esc cancels everything within 100ms").
* Session. The target window is read again after the stream, so a hotkey in another window redirects the answer of the
  running session (`main.rs:969`). The hotkey on a plan written for review reads the plan's own `//` line as another
  command and discards the plan (`main.rs:2079`). A plan followed inline stays in the slot and is executed again as
  "approved" (`main.rs:2088`). Esc never cancels a stream (`main.rs:931`). Regenerated and schema-retry answers are not
  validated before they are written (`main.rs:2564`). A response blocked after its retries leaves no audit event
  (`SOC2_READINESS.md:59`). Undo after a report or a native write takes the record of an earlier answer
  (`hotkey.rs:328`). An answer that is in the document is pasted again when the user has turned to another window
  (`main.rs:3548`). Dictation's event is dropped (`main.rs:4090`). When setting the clipboard fails, whatever it holds
  is pasted (`main.rs:3507`). In a collaborative editor the session ends as completed although its answer reached no
  document but the handler's own (`yrs_peer.rs:13` "syncs with all other peers via WebSocket").
* Writers. `WordAgent` answers False after it has applied the operations, because it looks for a key "ok" that
  `_try_com_write` never returns (`word_master.py:405`, `docx_writer.py:399`), and `WordWriter` applies them a second
  time to the same open document (`word_master.py:457`); the message beside it (`word_master.py:425`) is for a failure.
  A backup of a Word document that was torn while being copied is restored over the document (`word_master.py:633`, 485;
  `ORIGINAL_REQUEST.md:125` "with a backup copy before saving"). With prompts to remove, the indices of `write_docx` no
  longer name the paragraphs that were read (`docx_writer.py:220` "relative to original document"). A document that ends
  in a blank paragraph comes out differently: an insertion at the end is written into that paragraph when Word is open
  (`docx_writer.py:443-447`) and after it when not (`docx_writer.py:210-216`).
* Caches. A document saved while it is parsed is stored with its old content under its new time and served until the
  next save (`cache.py:17`, "if it exists and the file's mtime hasn't changed"). The memory cache called LRU evicts the
  oldest entry, used or not (`docling_parser.py:64`).
* Download. A whole partial file, left by a death before the rename, is asked to be resumed at its end, and the
  server's refusal is a failure each time again (`PREMORTEM.md:23`). The lock is shared by event loops, so a second
  waiter is refused with an exception, and the first may never wake: later threads are then refused although nobody
  downloads. A registration that times out leaves the progress at "downloading" (which `ActiveMeansWorking` shows to be
  harmless: the model is there).

Noticed while reading, not stated by any line of the repository: a sidecar that never replies holds the event loop for
ever, since `call_sidecar` has no timeout; the dictation and screen handlers await room in the
channel that only their own loop empties; a declined skill offer still queued clears a newer one; native writes end
without an outcome in the audit log; a lost reply of the sidecar leads to a second write; the rollback writes back
whole files over what was saved meanwhile; after an edit or a rejection the page says that the value was updated or
removed, while `/correct` only records a correction; `was_cancelled` is never true.

## 7. What was planned and what is left

Done, in the order of importance they were planned in: the kernel (`QualityGate`, `KairoKernel`), the approval protocol
with its abstract life of a plan (`CuaApproval`, `PlanLifecycle`), the executor (`CuaExecutor`), the session
(`GhostWriter`), the sidecar's writes (`ParagraphEdits`, `DocumentWrites`), its reads (`ParseCache`) and the model
download with its abstract cache (`ModelDownload`, `ModelCache`).

Worth doing next: tables and headings as further edits of `ParagraphEdits`; and the file snapshots of a plan's rollback
as a fourth actor of `DocumentWrites`.

Considered and not done: a model of the audit log's hash chain would take an ideal hash, with which its promise
holds by construction; the merge functions of the sync manager have no transport yet (`INFRA-PENDING`) that could
reorder anything; `lan_sync.rs` inserts rows with new ids only, so any prefix and any repetition give the same end; a
refinement of the kernel towards "cited or refused" would restate `SuggestStageCited`.

## 8. Not modelled, and why

PROJECT.json lists every component with its status and reason. In short:

* *Data without protocol*: parsing and OCR, the similarity measures of grounding, packs, classifiers, prompts, personas
  and memory, the patterns of sentinel and validator. The models take what they return as arbitrary, or as an attribute.
* *Forwarders*: MCP servers, the SDK, plugins and the overlay's web view; the gateway and the CUA planner are single
  calls of a model whose answer is left open; a skill is one call and one file.
* *Not running*: `interrupts.rs`, `retry_policy.rs`, the preloader of `kairo_eye` and most of `ghost_session.rs` are
  called by nothing.
* *Not the program*: benchmarks, scripts, training, tests, installers, samples.

These are also most of the repository by size: the largest files are masters and parsers that turn one document format
into text, exporters, benchmark and training scripts. They keep no state between two calls, so there is no order of
steps for a model to explore, and only a small part of all lines belongs to code that a state machine can be faithful
to.
