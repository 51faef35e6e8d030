---------------------------- MODULE GhostWriter ----------------------------
(* The ghost-writing session of the desktop program: the loop of           *)
(* phantom-core/src/main.rs that receives the keyboard hook's events, its   *)
(* handler of Alt+Ctrl+M from the capture of the text to the paste, and     *)
(* what runs beside it: the user, the hook that moves CAPTURED_HWND, and    *)
(* the tasks that check a paste 600 ms later.                               *)
(*                                                                          *)
(* The handler is one long async function.  Each action is what it does     *)
(* between two awaits, so that the user and the tasks act in between.  The  *)
(* loop itself receives no event while a handler runs.                      *)
(*                                                                          *)
(* Left out: prompts and their redaction, the counters behind the           *)
(* regeneration toasts, memory and statistics, which decide nothing here;   *)
(* CUA plans, a session that escalates only ends (CuaApproval takes over).  *)
EXTENDS Integers, Sequences

CONSTANTS
    Windows,    \* the windows the user works in
    Kind,       \* the format of the document in each window
    Shared,     \* the windows whose title names a collaborative editor
    Cmds,       \* the "//" commands the user may type
    Mode,       \* what a command asks for: "write", "track" or "report"
    Keys,       \* the keys the user presses besides typing
    Answers,    \* what the language model may answer
    Results,    \* how a call that writes a document may end
    QueueCap,   \* capacity of the event channel (64 in the code)
    UndoLimit,  \* UNDO_BUFFER_LIMIT (10 in the code)
    MaxActs     \* bound on what the user does

Kinds == {"plain", "code", "txt", "md", "docx", "xlsx", "pptx"}

\* A text: whether the sentinel lets it through, whether the response
\* validator accepts it, and whether operations can be parsed from it.
Texts == [clean : BOOLEAN, valid : BOOLEAN,
          form : {"ops", "json", "prose", "empty"}]

Hotkeys == {"hotkey", "undo", "voice"}

ASSUME ConstantsAssumption ==
    /\ Windows # {}
    /\ Kind \in [Windows -> Kinds] /\ Shared \subseteq Windows
    /\ Mode \in [Cmds -> {"write", "track", "report"}]
    /\ Keys \subseteq Hotkeys \cup {"tab", "esc"}
    /\ Answers \subseteq {t \in Texts : t.form = "empty" => ~t.valid}
    /\ Results \subseteq {"ok", "refused", "unavailable", "failed", "lost"}
    /\ QueueCap \in Nat \ {0} /\ UndoLimit \in Nat \ {0}
    /\ MaxActs \in Nat

VARIABLES
    focus,      \* the window with the keyboard
    hwnd,       \* CAPTURED_HWND
    line,       \* the last "//" line of each document
    docs,       \* what was written to each document, in order
    clip,       \* the clipboard
    events,     \* the channel from the hook (and the loop) to the loop
    pc,         \* where the loop's handler is
    ses,        \* the handler's local variables
    pending,    \* pending_plan
    audit,      \* the audit log of the sessions
    undo,       \* UNDO_BUFFER
    checks,     \* the tasks that check a paste
    skill,      \* SKILL_SAVE_PENDING and the workflow on offer
    taken,      \* the plans that were executed as approved, with their order
    acts        \* what the user has done so far

keyboard == <<focus, hwnd, acts>>
store == <<pending, audit, skill, taken>>
screen == <<docs, line, clip, undo, checks>>
vars == <<focus, hwnd, line, docs, clip, events, pc, ses, pending, audit,
          undo, checks, skill, taken, acts>>

Ids == Nat       \* sessions, in their order; 0 is none

NoLine == <<"", "">>
CommandLines == {<<"//", c>> : c \in Cmds}
\* A plan written to the document ends in a "//" line of its own.
PlanLine == <<"//", "[Press Alt+Ctrl+M to execute this plan]">>
Lines == CommandLines \cup {PlanLine, NoLine}
\* from_prompt strips the slashes: no command equals its own line.
Clean(l) == <<"", l[2]>>

Empty == [clean |-> TRUE, valid |-> FALSE, form |-> "empty"]
NoPlan == [n |-> 0, prompt |-> NoLine, shown |-> FALSE]
Plans == [n : Ids, prompt : {Clean(l) : l \in Lines}, shown : BOOLEAN]
\* What was written: by which session, as what, and its text.
Contents == [s : Ids, what : {"own", "report", "plan", "response"}, text : Texts]
UsersClip == [s |-> 0, what |-> "own", text |-> Empty]
Marks == [s : Ids, what : {"own", "report", "plan", "response", "alert"},
          via : {"paste", "file", "unconfirmed", "again", "typed"}, text : Texts]
Mark(c, via) == [s |-> c.s, what |-> c.what, via |-> via, text |-> c.text]

SomeWindow == CHOOSE w \in Windows : TRUE
Idle(n) ==
    [n |-> n, target |-> SomeWindow, prompt |-> NoLine,
     mode |-> "write", plan |-> NoPlan, native |-> FALSE, text |-> Empty,
     job |-> Empty, writer |-> "none", tries |-> 0]

Init ==
    /\ focus \in Windows
    /\ hwnd = focus
    /\ line = [w \in Windows |-> NoLine]
    /\ docs = [w \in Windows |-> << >>]
    /\ clip = UsersClip
    /\ events = << >>
    /\ pc = "idle"
    /\ ses = Idle(0)
    /\ pending = NoPlan
    /\ audit = << >>
    /\ undo = << >>
    /\ checks = {}
    /\ skill = [offered |-> FALSE, history |-> 0]
    /\ taken = << >>
    /\ acts = 0

-----------------------------------------------------------------------------
(* The user and the keyboard hook                                           *)

\* A key that is not a modifier answers the offer to save a skill, whatever
\* else it is; the hotkeys send an event of their own.
Sent(k) ==
    (IF skill.offered THEN <<IF k = "tab" THEN "skillYes" ELSE "skillNo">>
                      ELSE << >>)
    \o (IF k \in Hotkeys THEN <<k>> ELSE << >>)

Strike(k) ==
    /\ Len(events) + Len(Sent(k)) <= QueueCap     \* blocking_send
    /\ events' = events \o Sent(k)
    /\ skill' = [skill EXCEPT !.offered = FALSE]
    /\ acts < MaxActs
    /\ acts' = acts + 1

Press(k) ==
    /\ Strike(k)
    /\ hwnd' = IF k \in Hotkeys THEN focus ELSE hwnd
    /\ UNCHANGED <<focus, line, docs, clip, pc, ses, pending, audit, undo, checks,
                   taken>>

Type(l) ==
    /\ line[focus] # l
    /\ Strike("letter")
    /\ line' = [line EXCEPT ![focus] = l]
    /\ UNCHANGED <<focus, hwnd, docs, clip, pc, ses, pending, audit, undo,
                   checks, taken>>

Switch(w) ==
    /\ w # focus
    /\ acts < MaxActs
    /\ acts' = acts + 1
    /\ focus' = w
    /\ UNCHANGED <<hwnd, events, pc, ses, screen, store>>

User ==
    \/ \E k \in Keys : Press(k)
    \/ \E l \in CommandLines \cup {NoLine} : Type(l)
    \/ \E w \in Windows : Switch(w)

-----------------------------------------------------------------------------
(* The loop: one event at a time                                            *)

Goto(p) == pc' = p
Done == pc' = "idle" /\ ses' = Idle(ses.n)

\* What pasting, or typing, adds to the window that has the keyboard.
Write(w, m) == docs' = [docs EXCEPT ![w] = Append(@, m)]

\* perform_undo selects as many characters as the newest record holds and
\* pastes the text it recorded, which is always empty, over them: what was
\* written last in that window goes.
PerformUndo ==
    /\ undo # << >>
    /\ LET w == undo[Len(undo)].w IN
       /\ undo' = SubSeq(undo, 1, Len(undo) - 1)
       /\ focus' = w
       /\ docs' = IF docs[w] = << >> THEN docs
                  ELSE [docs EXCEPT ![w] = SubSeq(@, 1, Len(@) - 1)]

Receive ==
    /\ pc = "idle"
    /\ events # << >>
    /\ events' = Tail(events)
    /\ LET e == Head(events) IN
       \/ /\ e = "hotkey"
          /\ Goto("capture")
          /\ ses' = Idle(ses.n + 1)
          /\ UNCHANGED <<keyboard, screen, store>>
       \/ /\ e = "voice"
          /\ Goto("voice")
          /\ UNCHANGED <<ses, keyboard, screen, store>>
       \/ /\ e = "undo"
          /\ PerformUndo
          /\ UNCHANGED <<hwnd, acts, line, clip, checks, pc, ses, store>>
       \/ /\ e = "skillNo"
          /\ skill' = [skill EXCEPT !.history = 0]
          /\ UNCHANGED <<pc, ses, keyboard, screen, pending, audit, taken>>
       \/ /\ \/ e \in {"skillYes", "context"}      \* context: _ => {}
             \/ e = "undo" /\ undo = << >>
          /\ UNCHANGED <<pc, ses, keyboard, screen, store>>

\* Dictation ends with nothing, or sends its prompt to the loop's own channel
\* (tx.send().await: the loop waits for room that only the loop can make).
Dictate ==
    /\ pc = "voice"
    /\ Goto("idle") \/ Goto("voice captured")
    /\ UNCHANGED <<events, ses, keyboard, screen, store>>

SendVoice ==
    /\ pc = "voice captured"
    /\ Len(events) < QueueCap
    /\ events' = Append(events, "context")
    /\ Goto("idle")
    /\ UNCHANGED <<ses, keyboard, screen, store>>

-----------------------------------------------------------------------------
(* Alt+Ctrl+M: capture, pending plan, commands, plan                        *)

SetClip(c) == clip' \in {c, clip}       \* a failure is logged and ignored

\* Home, Shift+End, Ctrl+V: the line with the cursor, which is the one with
\* the command, is replaced by whatever the clipboard holds.
PasteLine(via) ==
    /\ Write(focus, Mark(clip, via))
    /\ line' = [line EXCEPT ![focus] =
                    IF clip.what = "plan" THEN PlanLine ELSE NoLine]

NothingCaptured ==
    /\ Done
    /\ UNCHANGED <<pending, taken>>

\* Mutant of Remaining: the plan is cloned out of the slot.
RemainingCloned(active) == active

\* lock.take(), or None
Remaining(active) == NoPlan

\* The stored plan is taken when no other command was read.  Either way it
\* is gone.
Decide(target, raw) ==
    LET stale == raw # NoLine /\ raw # pending.prompt
        active == IF stale THEN NoPlan ELSE pending
        mode == IF active = NoPlan /\ raw \in CommandLines
                THEN Mode[raw[2]] ELSE "write"
    IN  /\ pending' = Remaining(active)
        /\ taken' = IF active = NoPlan THEN taken ELSE Append(taken, active.n)
        /\ IF raw = NoLine /\ active = NoPlan
           THEN Done
           ELSE /\ ses' = [ses EXCEPT
                     !.target = target, !.mode = mode, !.plan = active,
                     !.prompt = IF active = NoPlan THEN raw ELSE active.prompt]
                /\ Goto(IF mode = "report" THEN "report" ELSE "route")

CaptureFocused ==
    /\ pc = "capture"
    /\ Decide(hwnd, line[focus]) \/ NothingCaptured
    /\ UNCHANGED <<keyboard, screen, events, audit, skill>>

CaptureByClipboard ==
    /\ pc = "capture"
    /\ focus' = hwnd
    /\ ses' = [ses EXCEPT !.target = hwnd]
    /\ Goto("copy")
    /\ UNCHANGED <<hwnd, acts, screen, events, store>>

\* What is on the clipboard 100 ms after Ctrl+C: the line, or what was there.
CopySelection ==
    /\ pc = "copy"
    /\ \/ \E raw \in {line[focus], NoLine} : Decide(ses.target, raw)
       \/ NothingCaptured
    /\ clip' \in {UsersClip, clip}
    /\ UNCHANGED <<keyboard, docs, line, undo, checks, events, audit, skill>>

\* Health, query, export, think, summary, contract review, formula: a text is
\* computed (Empty stands for the program's own texts) or streamed from the
\* model, put on the clipboard, and the window brought to the front.  Nothing
\* looks at a streamed text.
ReportReady ==
    /\ pc = "report"
    /\ \E t \in Answers \cup {Empty} :
         SetClip([s |-> ses.n, what |-> "report", text |-> t])
    /\ focus' = hwnd
    /\ Goto("paste line")
    /\ UNCHANGED <<hwnd, acts, docs, line, undo, checks, events, ses, store>>

InjectReplaceLine ==
    /\ pc = "paste line"
    /\ PasteLine("paste")
    /\ Done
    /\ UNCHANGED <<keyboard, clip, undo, checks, events, store>>

Log(e) == audit' = Append(audit, [e |-> e, s |-> ses.n])

\* No permission; or, without an approved plan: blocked, unclear, escalated.
Refuse ==
    /\ pc = "route"
    /\ Done
    /\ UNCHANGED <<keyboard, screen, events, store>>

GuardBlocks ==
    /\ pc = "route"
    /\ Log("Blocked")
    /\ Done
    /\ UNCHANGED <<keyboard, screen, events, pending, skill, taken>>

Proceed ==
    /\ pc = "route"
    /\ Goto(IF ses.plan = NoPlan /\ ses.mode # "track" THEN "planning" ELSE "prepare")
    /\ UNCHANGED <<ses, keyboard, screen, events, store>>

NewPlan(shown) == [n |-> ses.n, prompt |-> Clean(ses.prompt), shown |-> shown]

NoPlanNeeded ==         \* confidence above 0.85, or an unknown intent
    /\ pc = "planning"
    /\ Goto("prepare")
    /\ UNCHANGED <<ses, keyboard, screen, events, store>>

InlinePlan ==           \* 0.50 to 0.85: stored, and followed at once
    /\ pc = "planning"
    /\ pending' = NewPlan(FALSE)
    /\ Goto("prepare")
    /\ UNCHANGED <<ses, keyboard, screen, events, audit, skill, taken>>

\* A plan is asked for with complete(), which scans what it returns; when that
\* fails, comes too late or is no plan, the program's own plan (Empty) is used.
Drafted == {t \in Answers : t.clean} \cup {Empty}

DraftPlan ==            \* below 0.50: stored, and written for review
    /\ pc = "planning"
    /\ pending' = NewPlan(TRUE)
    /\ \E t \in Drafted : SetClip([s |-> ses.n, what |-> "plan", text |-> t])
    /\ focus' = hwnd
    /\ Goto("paste line")
    /\ UNCHANGED <<hwnd, acts, docs, line, undo, checks, events, ses,
                   audit, skill, taken>>

-----------------------------------------------------------------------------
(* The answer: stream, screening, review                                    *)

NativeKinds == {"txt", "md", "docx", "xlsx", "pptx"}

\* The sidecar is asked again for every session; a failed read of the document
\* changes the prompt and nothing else.
Prepare ==
    /\ pc = "prepare"
    /\ \E live \in BOOLEAN :
           ses' = [ses EXCEPT !.native = live /\ Kind[ses.target] \in NativeKinds]
    /\ Log("Started")
    /\ Goto("stream")
    /\ UNCHANGED <<keyboard, screen, events, pending, skill, taken>>

\* The stream and the quality review, whose output replaces the answer, come
\* to an end.
Answered ==
    \E t \in Answers : /\ ses' = [ses EXCEPT !.text = t]
                      /\ Goto(IF t.form = "empty" THEN "finish" ELSE "screen")

StreamEnds ==
    /\ pc = "stream"
    /\ Answered
    /\ UNCHANGED <<keyboard, screen, events, store>>

\* The cloud fallback takes over outside the 90 s; its client has a time limit
\* of its own.
StreamFails ==
    /\ pc = "stream"
    /\ Goto("fallback")
    /\ UNCHANGED <<ses, keyboard, screen, events, store>>

FallbackEnds ==
    /\ pc = "fallback"
    /\ Answered
    /\ UNCHANGED <<keyboard, screen, events, store>>

Apology == [clean |-> TRUE, valid |-> TRUE, form |-> "prose"]
\* Mutant of StreamTimesOut: the sentence is sent and the channel stays open.
StreamTimesOutOpen ==
    /\ pc = "stream"
    /\ ses' = [ses EXCEPT !.text = Apology]
    /\ UNCHANGED <<pc, keyboard, screen, events, store>>

StreamTimesOut ==       \* after 90 s the answer is a sentence that says so
    /\ pc = "stream"
    /\ ses' = [ses EXCEPT !.text = Apology]
    /\ Goto("screen")
    /\ UNCHANGED <<keyboard, screen, events, store>>

Passes(t) == t.clean /\ t.valid

Screen ==
    /\ pc = "screen"
    /\ Goto(IF Passes(ses.text) THEN "verify" ELSE "retry")
    /\ UNCHANGED <<ses, keyboard, screen, events, store>>

\* Mutant of GiveUp: the block is logged, and the session goes on.
GiveUpLogging ==
    Log("Blocked") /\ Goto("finish") /\ UNCHANGED ses

GiveUp == Done /\ UNCHANGED audit

\* Two more answers are asked for; then the session is given up.
Retry ==
    /\ pc = "retry"
    /\ \E t \in Answers :
         \/ /\ Passes(t)
            /\ Goto("verify")
            /\ ses' = [ses EXCEPT !.text = t, !.tries = 0]
            /\ UNCHANGED audit
         \/ /\ ~Passes(t) /\ ses.tries = 0
            /\ ses' = [ses EXCEPT !.tries = 1]
            /\ UNCHANGED <<pc, audit>>
         \/ /\ ~Passes(t) /\ ses.tries = 1
            /\ GiveUp
    /\ UNCHANGED <<keyboard, screen, events, pending, skill, taken>>

FirstWriter(k, mode) ==
    CASE k = "docx" -> IF mode = "track" THEN "adeu" ELSE "docx"
      [] k = "xlsx" -> "chart"
      [] k \in {"pptx", "md", "code"} -> k
      [] OTHER -> "none"

ToWrite(t) ==
    /\ ses' = [ses EXCEPT
         !.text = t, !.job = t,
         !.writer = IF ses.native \/ Kind[ses.target] = "code"
                    THEN FirstWriter(Kind[ses.target], ses.mode) ELSE "none"]
    /\ Goto(IF t.form = "empty" THEN "finish" ELSE "write")

\* Mutant of Regenerated: the new answer is not scanned.
RegeneratedUnscanned(t) == t

Regenerated(t) == IF t.clean THEN t ELSE ses.text

\* The Feynman agent: the answer stands, or is generated again; only the
\* sentinel looks at the new one.
Feynman ==
    /\ pc = "verify"
    /\ ToWrite(ses.text) \/ \E t \in Answers : ToWrite(Regenerated(t))
    /\ UNCHANGED <<keyboard, screen, events, store>>

-----------------------------------------------------------------------------
(* Writing natively: the sidecar's writers, one after the other             *)

NeedsOps == {"adeu", "chart", "docx", "xlsx", "pptx", "legacy"}
Outcomes ==
    [adeu |-> {"ok", "lost", "failed", "refused", "unavailable"},
     safedocx |-> {"ok", "lost", "failed"},
     chart |-> {"ok", "lost", "failed"},
     docx |-> {"ok", "lost", "failed", "refused"},
     xlsx |-> {"ok", "lost", "failed", "refused"},
     legacy |-> {"ok", "lost", "failed", "refused"},
     pptx |-> {"ok", "lost", "failed", "refused"},
     md |-> {"ok", "failed"},
     code |-> {"ok", "failed"}]

\* Who is tried next when a call did not succeed.
After(writer, result) ==
    CASE writer = "adeu" /\ result = "unavailable" -> "safedocx"
      [] writer \in {"adeu", "safedocx"} /\ result # "unavailable" -> "docx"
      [] writer = "chart" -> "xlsx"
      [] writer = "xlsx" /\ result # "refused" -> "legacy"
      [] OTHER -> "none"

\* An answer without operations: tracked changes and charts are tried the
\* plain way, the legacy writer and tracked changes' plain one give up.
SkipWriter ==
    /\ pc = "write"
    /\ ses.writer \in NeedsOps
    /\ \/ ses.writer = "chart"                       \* not a chart
       \/ /\ ses.job.form # "ops"
          /\ \/ ses.writer \in {"adeu", "legacy"}
             \/ ses.writer = "docx" /\ ses.mode = "track"
    /\ ses' = [ses EXCEPT !.writer = IF @ = "docx" THEN "none"
                                     ELSE After(@, "failed")]
    /\ UNCHANGED <<pc, keyboard, screen, events, store>>

\* Up to two more answers are asked for; only the sentinel looks at them.
SchemaRetry ==
    /\ pc = "write"
    /\ ses.writer \in {"docx", "xlsx", "pptx"}
    /\ ses.job.form # "ops"
    /\ ses.mode # "track" \/ ses.writer # "docx"
    /\ IF ses.tries = 2
       THEN ses' = [ses EXCEPT !.writer = "none"]
       ELSE \E t \in Answers :
              ses' = [ses EXCEPT !.tries = @ + 1,
                                 !.job = IF t.clean THEN t ELSE @]
    /\ UNCHANGED <<pc, keyboard, screen, events, store>>

\* Mutant of Written: the handler goes on to the clipboard.
WrittenGoingOn ==
    ses' = [ses EXCEPT !.writer = "none"] /\ UNCHANGED pc

Written == Done     \* continue: no outcome in the audit log, no undo record

\* "lost": the sidecar wrote, and its reply did not arrive.
WriteNatively ==
    /\ pc = "write"
    /\ ses.writer # "none"
    /\ ses.writer \in NeedsOps => ses.job.form = "ops"
    /\ \E result \in Results \cap Outcomes[ses.writer] :
         /\ IF result \in {"ok", "lost"}
            THEN Write(ses.target, [s |-> ses.n, what |-> "response",
                                    via |-> IF result = "ok" THEN "file"
                                            ELSE "unconfirmed",
                                    text |-> ses.job])
            ELSE UNCHANGED docs
         /\ IF result = "ok"
            THEN Written
            ELSE LET next == After(ses.writer, result) IN
                 /\ ses' = [ses EXCEPT !.writer = next,
                              !.job = IF next = "legacy" THEN ses.text ELSE @]
                 /\ UNCHANGED pc
    /\ UNCHANGED <<keyboard, line, clip, undo, checks, events, store>>

-----------------------------------------------------------------------------
(* Pasting, and the end of the session                                      *)

\* JSON that cannot be made into text is kept out of a native document, and
\* an answer that names editor internals out of every one.
KeepOut ==
    /\ pc = "write"
    /\ ses.writer = "none"
    /\ Done
    /\ UNCHANGED <<keyboard, screen, events, store>>

\* In a collaborative editor the answer goes into the two CRDT documents of
\* the handler, which nothing connects to another peer, and is not pasted.
LeaveToPeers ==
    /\ pc = "write"
    /\ ses.writer = "none" /\ ses.target \in Shared
    /\ Goto("finish")
    /\ UNCHANGED <<keyboard, screen, events, ses, store>>

PrepareClipboard ==
    /\ pc = "write"
    /\ ses.writer = "none" /\ ses.target \notin Shared
    /\ SetClip([s |-> ses.n, what |-> "response", text |-> ses.text])
    /\ Goto("focus")
    /\ UNCHANGED <<keyboard, docs, line, undo, checks, events, ses, store>>

\* Alt has been released; the window is brought to the front, and once more
\* when something else is there half a second later.
FocusTarget ==
    /\ pc = "focus"
    /\ focus' = hwnd
    /\ ses' = [ses EXCEPT !.target = hwnd]
    /\ Goto("settle")
    /\ UNCHANGED <<hwnd, acts, screen, events, store>>

Settle ==
    /\ pc = "settle"
    /\ focus' = ses.target
    /\ Goto("paste")
    /\ UNCHANGED <<hwnd, acts, screen, events, ses, store>>

\* Mutant of Recorded: the oldest record stays.
RecordedUnbounded(r) == Append(undo, r)

Recorded(r) ==
    LET all == Append(undo, r) IN
    IF Len(all) > UndoLimit THEN Tail(all) ELSE all

Paste ==
    /\ pc = "paste"
    /\ undo' = Recorded([s |-> ses.n, w |-> ses.target])
    /\ PasteLine("paste")
    /\ checks' = checks \cup
         {[c |-> [s |-> ses.n, what |-> "response", text |-> ses.text],
           w |-> ses.target, again |-> FALSE]}
    /\ Goto("finish")
    /\ UNCHANGED <<keyboard, clip, events, ses, store>>

\* The answer is validated once more, after the paste.
Finish ==
    /\ pc = "finish"
    /\ IF Passes(ses.text)
       THEN /\ Log("Completed")
            /\ skill' = IF ses.plan = NoPlan THEN skill
                        ELSE [offered |-> TRUE, history |-> ses.n]
            /\ UNCHANGED docs
       ELSE /\ Log("Blocked")
            /\ Write(focus, [s |-> ses.n, what |-> "alert", via |-> "typed",
                             text |-> Empty])
            /\ UNCHANGED skill
    /\ Done
    /\ UNCHANGED <<keyboard, line, clip, undo, checks, events, pending, taken>>

-----------------------------------------------------------------------------
(* The tasks that look for the answer after a paste                         *)

Shows(w, s) == \E i \in 1 .. Len(docs[w]) : docs[w][i].s = s

\* The element with the keyboard is read; a failed read counts as found.  For
\* Notepad WM_SETTEXT is sent to the window itself and ends the task.
CheckPaste(k) ==
    /\ ~k.again
    /\ \/ checks' = checks \ {k} /\ UNCHANGED <<focus, docs, clip>>
       \/ /\ ~Shows(focus, k.c.s)
          /\ SetClip(k.c)
          /\ focus' = k.w
          /\ checks' = (checks \ {k}) \cup {[k EXCEPT !.again = TRUE]}
          /\ UNCHANGED docs
    /\ UNCHANGED <<hwnd, line, events, pc, ses, undo, store, acts>>

PasteAgain(k) ==
    /\ k.again
    /\ Write(focus, Mark(clip, "again"))
    /\ checks' = checks \ {k}
    /\ UNCHANGED <<keyboard, line, clip, events, pc, ses, undo, store>>

Task == \E k \in checks : CheckPaste(k) \/ PasteAgain(k)

-----------------------------------------------------------------------------

Session ==
    \/ CaptureFocused \/ CaptureByClipboard \/ CopySelection
    \/ ReportReady \/ InjectReplaceLine
    \/ Refuse \/ GuardBlocks \/ Proceed
    \/ NoPlanNeeded \/ InlinePlan \/ DraftPlan
    \/ Prepare \/ StreamTimesOut \/ FallbackEnds \/ Screen \/ Retry \/ Feynman
    \/ SkipWriter \/ SchemaRetry \/ WriteNatively
    \/ KeepOut \/ LeaveToPeers
    \/ PrepareClipboard \/ FocusTarget \/ Settle \/ Paste \/ Finish

Loop == Receive \/ Dictate \/ SendVoice \/ Session

Next == User \/ Loop \/ StreamEnds \/ StreamFails \/ Task

Spec == Init /\ [][Next]_vars

\* The handler waits for a line from another process, and no timer runs: from
\* the sidecar for what was said, an export or a contract review, the document,
\* a write (a workbook's schema retries may ask for a chart at once), or from
\* the Tolaria server while the prompt is prepared.
SidecarWriters == {"adeu", "safedocx", "chart", "docx", "xlsx", "legacy", "pptx"}
AwaitsReply ==
    \/ pc \in {"voice", "report", "prepare"}
    \/ /\ pc = "write" /\ ses.writer \in SidecarWriters
       /\ ses.job.form = "ops" \/ ses.writer = "xlsx"

\* The loop is a task of the runtime and runs whenever it can.  A call to the
\* model comes back, because of the stream's own timer or because the HTTP
\* client has a limit; nothing is assumed of the sidecar, the Tolaria server,
\* the end of the stream, or the user.
FairSpec ==
    /\ Spec
    /\ WF_vars(Receive \/ SendVoice)
    /\ WF_vars(~AwaitsReply /\ Session)

-----------------------------------------------------------------------------
(* Properties                                                               *)

Events == Hotkeys \cup {"skillYes", "skillNo", "context"}
Places == {"idle", "voice", "voice captured", "capture", "copy", "report",
           "paste line", "route", "planning", "prepare", "stream", "screen",
           "fallback", "retry", "verify", "write", "focus", "settle", "paste",
           "finish"}
Writers == {"none", "safedocx", "md", "code"} \cup NeedsOps
Locals == [n : Ids, target : Windows, prompt : Lines \cup {Clean(l) : l \in Lines},
           mode : {"write", "track", "report"}, plan : Plans, native : BOOLEAN,
           text : Texts, job : Texts, writer : Writers, tries : 0 .. 2]
Entries == [e : {"Blocked", "Started", "Completed"}, s : Ids]
Records == [s : Ids, w : Windows]
Checks == [c : Contents, w : Windows, again : BOOLEAN]

Deliveries(w) == {docs[w][i] : i \in DOMAIN docs[w]}
Responses == {m \in UNION {Deliveries(w) : w \in Windows} : m.what = "response"}

\* Every variable has the type its comment gives it; the channel and the undo
\* buffer stay within their limits.
TypeOK ==
    /\ focus \in Windows /\ hwnd \in Windows
    /\ line \in [Windows -> Lines]
    /\ docs \in [Windows -> Seq(Marks)]
    /\ clip \in Contents
    /\ events \in Seq(Events)
    /\ Len(events) <= QueueCap
    /\ pc \in Places /\ ses \in Locals
    /\ pending \in Plans
    /\ audit \in Seq(Entries)
    /\ undo \in Seq(Records) /\ Len(undo) <= UndoLimit
    /\ checks \subseteq Checks
    /\ skill \in [offered : BOOLEAN, history : Ids]
    /\ taken \in Seq(Ids)
    /\ acts \in 0 .. MaxActs

\* An answer to a writing or track-changes command was scanned, whatever way it
\* takes into a document (stream, fallback, retries, regeneration, schema
\* retries, native writers, clipboard, a paste repeated by a task), and so was a
\* plan that is written for review.  Reports are not scanned: what // think,
\* a summary and a formula stream is pasted as it is.
Screened ==
    \A w \in Windows : \A m \in Deliveries(w) :
        m.what \in {"response", "plan"} => m.text.clean

\* The audit log of a session: at most one outcome, none before the start of
\* the session unless the guard stopped it there, and sessions in their order.
OneOutcome ==
    /\ \A i, j \in DOMAIN audit :
         i < j => /\ audit[i].s <= audit[j].s
                  /\ audit[i].s = audit[j].s =>
                        audit[i].e = "Started" /\ audit[j].e # "Started"
    /\ \A j \in DOMAIN audit :
         audit[j].e = "Completed" =>
             j > 1 /\ audit[j - 1] = [e |-> "Started", s |-> audit[j].s]

\* A confirmed write to the file is the last that is heard of its session: no
\* other writer repeats the answer and no paste, by the handler or by a task,
\* puts it into a window as well.  (A write whose reply was lost is repeated.)
NativeOrPasted ==
    \A w \in Windows : \A i \in DOMAIN docs[w] :
        docs[w][i].via = "file" =>
            /\ \A j \in (i + 1) .. Len(docs[w]) : docs[w][j].s # docs[w][i].s
            /\ \A m \in Responses :
                 m.s = docs[w][i].s => m.via \in {"file", "unconfirmed"}

\* A stored plan is executed as approved at most once, and never after a newer
\* one was: the slot is emptied when it is read.
PlansTakenInOrder ==
    /\ \A i, j \in DOMAIN taken : i < j => taken[i] < taken[j]
    /\ pending # NoPlan => \A i \in DOMAIN taken : taken[i] < pending.n

\* Whatever the model and the user do, the loop comes back for its next event,
\* with two exceptions: dictation waits for room in the loop's own channel, and
\* a call to the sidecar or the Tolaria server that is never answered is never
\* given up (call_sidecar awaits its line with no timeout).  No retry, fallback,
\* chain of writers or refused answer keeps it otherwise.
LoopComesBack ==
    pc # "idle" ~> (pc \in {"idle", "voice captured"} \/ []AwaitsReply)
=============================================================================
