---------------------------- MODULE DocumentWrites ----------------------------
(***************************************************************************)
(* How the sidecar writes one document that the user may have open: the    *)
(* writers for Word, Excel and PowerPoint files, their backup and temporary *)
(* files, what they do when a step fails, when the application locks the   *)
(* file, and when the sidecar dies in the middle.                          *)
(*                                                                         *)
(* A version of the document is the sequence of changes it holds: a        *)
(* positive number is what a write of the sidecar did (all of its          *)
(* operations, or those that did not fail), a negative one an edit of the  *)
(* user.  A file is a version, Torn (its bytes were written in part) or    *)
(* Absent.                                                                 *)
(***************************************************************************)
EXTENDS Integers, Sequences, FiniteSets, Functions

CONSTANTS
  Writers,    \* the writers in use, of those in Steps
  MaxWrites,  \* write requests
  MaxTyped,   \* edits of the user
  MaxFaults,  \* steps of one write that fail
  MaxCrashes, \* deaths of the sidecar
  Torn, Absent

VARIABLES
  writer,   \* the writer that serves the document
  disk,     \* the document's file
  backup,   \* <file>.kairo_backup
  tmp,      \* <file>.kairo_tmp
  app,      \* the document as the application has it, Absent if not open
  todo,     \* the steps the writer has left
  loaded,   \* the document it holds, with its operations applied
  errs,     \* some operations of the write it answers for failed
  wasOpen,  \* excel_com_lease closed the workbook
  reply,    \* what it will answer: "none" so far, "ok", "error"
  writes, typed, crashes, \* counters
  found,    \* history: the file when the request came
  moved,    \* history: the application opened, saved or closed it meanwhile
  faulted   \* history: the steps that failed

files == <<disk, backup, tmp>>
vars == <<writer, files, app, todo, loaded, errs, wasOpen, reply, writes,
          typed, crashes, found, moved, faulted>>
unchanging == <<writer, writes, typed, crashes, found, moved>>

-----------------------------------------------------------------------------
\* Each writer: its steps, and the ones that remain when a step fails.
docx == [steps |-> <<"com", "copy", "load", "save", "replace", "tidy">>,
         undo |-> [s \in {"load", "save", "replace"} |->
                     <<"restore", "unback", "untmp">>]]
\* Mutant of word: the backup is not restored when the rename fails.
wordRestoringLess ==
  [steps |-> <<"agent", "com", "clean", "copy", "load", "save", "replace",
               "drop">>,
   undo |-> [s \in {"copy", "load", "save", "replace"} |->
               <<"restore", "untmp">>]]
word == [steps |-> <<"agent", "com", "clean", "copy", "load", "save",
                     "replace", "drop">>,
         undo |-> [s \in {"copy", "load", "save", "replace", "drop"} |->
                     <<"restore", "untmp">>]]
xlsx == [steps |-> <<"copy", "load", "save", "replace", "tidy">>,
         undo |-> [s \in {"load", "save", "replace"} |->
                     IF s = "load" THEN <<"restore">>
                                   ELSE <<"untmp", "restore">>]]
pptx == [steps |-> <<"copy", "load", "save", "replace", "tidy">>,
         undo |-> [s \in {"save", "replace"} |->
                     <<"restore", "unback", "untmp">>]]
excel == [steps |-> <<"com", "load", "save", "replace">>,
          undo |-> [s \in {} |-> <<>>]]
\* Mutant of leased: the workbook is reopened only after a success.
leasedOneWay == [steps |-> <<"lease", "load", "put", "reopen">>,
                 undo |-> [s \in {} |-> <<>>]]
leased == [steps |-> <<"lease", "load", "put", "reopen">>,
           undo |-> [s \in {"load", "put"} |-> <<"reopen">>]]
Kinds == {"docx", "word", "xlsx", "pptx", "excel", "leased"}
Of(w) == CASE w = "docx" -> docx [] w = "word" -> word [] w = "xlsx" -> xlsx
           [] w = "pptx" -> pptx [] w = "excel" -> excel
           [] w = "leased" -> leased
Undo(s) == IF s \in DOMAIN Of(writer).undo THEN Of(writer).undo[s] ELSE <<>>

ASSUME WritesAssumption ==
  /\ Writers \subseteq Kinds
  /\ {MaxWrites, MaxTyped, MaxFaults, MaxCrashes} \subseteq Nat
  /\ Torn # Absent /\ {Torn, Absent} \cap Seq(Int) = {}

Whole(f) == f \notin {Torn, Absent}
Open == app # Absent

Init ==
  /\ writer \in Writers
  /\ disk = <<>> /\ backup = Absent /\ tmp = Absent /\ app = Absent
  /\ todo = <<>> /\ loaded = <<>> /\ reply = "none"
  /\ errs = FALSE /\ wasOpen = FALSE
  /\ writes = 0 /\ typed = 0 /\ crashes = 0
  /\ found = <<>> /\ moved = FALSE /\ faulted = {}

-----------------------------------------------------------------------------
\* A request; how a step ends.
Receive ==
  /\ todo = <<>> /\ writes < MaxWrites
  /\ writes' = writes + 1
  /\ todo' = Of(writer).steps /\ reply' = "none"
  /\ found' = disk /\ moved' = FALSE /\ faulted' = {}
  /\ errs' = FALSE /\ wasOpen' = FALSE
  /\ UNCHANGED <<writer, files, app, loaded, typed, crashes>>

At(s) == todo # <<>> /\ Head(todo) = s
Go(rest) ==
  /\ todo' = rest
  /\ reply' = IF rest = <<>> /\ reply = "none" THEN "ok" ELSE reply
Done == Go(Tail(todo)) /\ UNCHANGED <<unchanging, faulted>>
Give(answer) ==
  /\ todo' = <<>> /\ reply' = answer /\ UNCHANGED <<unchanging, faulted>>
\* The step fails, by a lock or by one of the faults: its handler runs, or,
\* where the code goes on regardless, the next step.
Fails(rest, answer) ==
  /\ todo' = rest /\ reply' = answer
  /\ faulted' = faulted \cup {Head(todo)}
  /\ UNCHANGED unchanging
Fault == Cardinality(faulted) < MaxFaults
Failed == Fails(Undo(Head(todo)), "error")
Ignored ==
  /\ Fault /\ Go(Tail(todo))
  /\ faulted' = faulted \cup {Head(todo)} /\ UNCHANGED unchanging

\* The operations applied to a version: one that fails is left out and the
\* next is tried, so of a write with failing operations some are there or none.
Applied(version, failing) ==
  {Append(version, writes)} \cup IF failing THEN {version} ELSE {}

\* WordAgent, which answers False even when it succeeded; _try_com_write.
Agent ==
  /\ At("agent")
  /\ \/ /\ Open /\ app' \in Applied(app, TRUE)
        /\ disk' \in {disk, app'} /\ Done
     \/ ~Open /\ Done /\ UNCHANGED <<app, disk>>
     \/ Open /\ Ignored /\ UNCHANGED <<app, disk>>
  /\ UNCHANGED <<backup, tmp, loaded, errs, wasOpen>>
Com ==
  /\ At("com")
  /\ \/ /\ Open /\ errs' \in IF writer = "excel" THEN {FALSE} ELSE BOOLEAN
        /\ app' \in Applied(app, errs')
        /\ disk' \in IF writer = "excel" THEN {disk} ELSE {disk, app'}
        /\ Give("ok")
     \/ ~Open /\ Done /\ UNCHANGED <<app, disk, errs>>
     \/ /\ Open /\ Fault /\ UNCHANGED <<disk, errs>>
        /\ IF writer = "docx"
             THEN Failed /\ UNCHANGED app
             ELSE /\ Ignored
                  /\ app' \in IF writer = "excel"
                                THEN Applied(app, TRUE) ELSE {app}
  /\ UNCHANGED <<backup, tmp, loaded, wasOpen>>

Clean ==
  /\ At("clean")
  /\ \/ backup' = Absent /\ tmp' = Absent /\ Done
     \/ backup' = backup /\ tmp' = Absent /\ Ignored
  /\ UNCHANGED <<disk, app, loaded, errs, wasOpen>>
Copy ==
  /\ At("copy")
  /\ \/ backup' = disk /\ Done
     \/ Fault /\ backup' \in {backup, Torn} /\ Failed
  /\ UNCHANGED <<disk, tmp, app, loaded, errs, wasOpen>>
Load ==
  /\ At("load")
  /\ \/ /\ Whole(disk) /\ errs' \in BOOLEAN
        /\ loaded' \in Applied(disk, errs')
        /\ IF errs' /\ writer = "excel" THEN Give("errors") ELSE Done
     \/ (Fault \/ ~Whole(disk)) /\ Failed /\ UNCHANGED <<loaded, errs>>
  /\ UNCHANGED <<files, app, wasOpen>>
Save ==
  /\ At("save")
  /\ \/ tmp' = loaded /\ Done
     \/ Fault /\ tmp' \in {tmp, Torn} /\ Failed
  /\ UNCHANGED <<disk, backup, app, loaded, errs, wasOpen>>
\* Mutant of Replace: a rename that fails is only logged.
ReplaceLogged ==
  /\ At("replace")
  /\ \/ ~Open /\ disk' = tmp /\ tmp' = Absent /\ Done
     \/ Ignored /\ UNCHANGED <<disk, tmp>>
  /\ UNCHANGED <<backup, app, loaded, errs, wasOpen>>
Replace ==
  /\ At("replace")
  /\ \/ ~Open /\ disk' = tmp /\ tmp' = Absent /\ Done
     \/ (Fault \/ Open) /\ Failed /\ UNCHANGED <<disk, tmp>>
  /\ UNCHANGED <<backup, app, loaded, errs, wasOpen>>
\* word removes the backup inside the try; the others when no operation
\* failed, and whether the removal succeeds or not.
Drop ==
  /\ At("drop")
  /\ \/ backup' = Absent /\ Done
     \/ Fault /\ Failed /\ UNCHANGED backup
  /\ UNCHANGED <<disk, tmp, app, loaded, errs, wasOpen>>
Tidy ==
  /\ At("tidy")
  /\ \/ backup' = (IF errs THEN backup ELSE Absent) /\ Done
     \/ Ignored /\ UNCHANGED backup
  /\ UNCHANGED <<disk, tmp, app, loaded, errs, wasOpen>>

\* Mutant of Restore: the removal of the backup is outside the try.
RestoreAndDrop ==
  /\ At("restore")
  /\ \/ /\ backup # Absent /\ ~Open /\ disk' = backup /\ Done
     \/ (backup = Absent \/ Open) /\ Done /\ UNCHANGED disk
     \/ backup # Absent /\ ~Open /\ disk' \in {disk, backup, Torn} /\ Ignored
  /\ backup' = Absent
  /\ UNCHANGED <<tmp, app, loaded, errs, wasOpen>>
Restore ==
  /\ At("restore")
  /\ \/ /\ backup # Absent /\ ~Open /\ disk' = backup
        /\ backup' = (IF writer = "word" THEN Absent ELSE backup) /\ Done
     \/ (backup = Absent \/ Open) /\ Done /\ UNCHANGED <<disk, backup>>
     \/ /\ backup # Absent /\ ~Open /\ disk' \in {disk, backup, Torn}
        /\ Ignored /\ UNCHANGED backup
  /\ UNCHANGED <<tmp, app, loaded, errs, wasOpen>>
Unback ==
  /\ At("unback")
  /\ (backup' = Absent /\ Done) \/ (Ignored /\ UNCHANGED backup)
  /\ UNCHANGED <<disk, tmp, app, loaded, errs, wasOpen>>
Untmp ==
  /\ At("untmp")
  /\ (tmp' = Absent /\ Done) \/ (Ignored /\ UNCHANGED tmp)
  /\ UNCHANGED <<disk, backup, app, loaded, errs, wasOpen>>

\* excel_com_lease, save_workbook_safely (which kills Excel when the file is
\* locked) and the reopening.
\* Mutant of Lease: the workbook is closed without being saved.
LeaseUnsaved ==
  /\ At("lease")
  /\ wasOpen' = Open
  /\ \/ Open /\ app' = Absent /\ Done
     \/ ~Open /\ Done /\ UNCHANGED app
     \/ Open /\ Ignored /\ UNCHANGED app
  /\ UNCHANGED <<files, loaded, errs>>
Lease ==
  /\ At("lease")
  /\ wasOpen' = Open
  /\ \/ Open /\ disk' = app /\ app' = Absent /\ Done
     \/ ~Open /\ Done /\ UNCHANGED <<disk, app>>
     \/ Open /\ Ignored /\ disk' \in {disk, app} /\ UNCHANGED app
  /\ UNCHANGED <<backup, tmp, loaded, errs>>
Put ==
  /\ At("put")
  /\ app' = Absent
  /\ \/ disk' = loaded /\ Done
     \/ Fault /\ disk' \in {disk, Torn} /\ Failed
  /\ UNCHANGED <<backup, tmp, loaded, errs, wasOpen>>
Reopen ==
  /\ At("reopen")
  /\ \/ Done /\ app' = IF wasOpen /\ ~Open /\ Whole(disk) THEN disk ELSE app
     \/ Ignored /\ UNCHANGED app
  /\ UNCHANGED <<files, loaded, errs, wasOpen>>

Step ==
  \/ Agent \/ Com \/ Clean \/ Copy \/ Load \/ Save \/ Replace \/ Drop \/ Tidy
  \/ Restore \/ Unback \/ Untmp \/ Lease \/ Put \/ Reopen

\* The sidecar dies: a file it was writing may be torn.
Crash ==
  /\ todo # <<>> /\ crashes < MaxCrashes
  /\ crashes' = crashes + 1
  /\ todo' = <<>> /\ reply' = "none"
  /\ \/ UNCHANGED <<disk, app>>
     \/ At("put") /\ disk' = Torn /\ app' = Absent
     \/ At("restore") /\ backup # Absent /\ ~Open /\ disk' = Torn /\ app' = app
  /\ backup' \in IF At("copy") THEN {backup, Torn} ELSE {backup}
  /\ tmp' \in IF At("save") THEN {tmp, Torn} ELSE {tmp}
  /\ UNCHANGED <<writer, loaded, errs, wasOpen, writes, typed, found, moved,
                 faulted>>

\* The application, which locks the file it has open.
Uses(new, saved) ==
  /\ app' = new /\ disk' = saved /\ moved' = TRUE
  /\ UNCHANGED <<writer, backup, tmp, todo, loaded, errs, wasOpen, reply,
                 writes, typed, crashes, found, faulted>>
UserOpens == ~Open /\ Whole(disk) /\ Uses(disk, disk)
UserSaves == Open /\ app # disk /\ Uses(app, app)
UserCloses == Open /\ app = disk /\ Uses(Absent, disk)
UserTypes ==
  /\ Open /\ typed < MaxTyped
  /\ typed' = typed + 1 /\ app' = Append(app, -typed')
  /\ UNCHANGED <<writer, files, todo, loaded, errs, wasOpen, reply, writes,
                 crashes, found, moved, faulted>>

Next ==
  \/ Receive \/ Step \/ Crash
  \/ UserOpens \/ UserSaves \/ UserCloses \/ UserTypes

Spec == Init /\ [][Next]_vars

-----------------------------------------------------------------------------
Shown == IF Open THEN app ELSE disk
Answered(answer) == todo = <<>> /\ reply = answer

\* An answer of success means that the user still has all that was in the file
\* when the request came, and has the operations if none failed, whatever the
\* application did meanwhile.  A write with failing operations answers success
\* all the same, even when none is applied: they are only counted.
OkMeansWritten ==
  Answered("ok") /\ Whole(found) =>
    /\ Whole(Shown) /\ Range(found) \subseteq Range(Shown)
    /\ ~errs => writes \in Range(Shown)

\* An answer of failure means that the file is as it was, if the restoration
\* did not fail and a Word backup was copied whole; leased has no backup.
ErrorMeansUnchanged ==
  /\ Answered("error") /\ ~moved /\ writer # "leased"
  /\ faulted \cap {"restore", "com"} = {}
  /\ ~(writer = "word" /\ "copy" \in faulted)
  => disk = found

\* Whatever fails, and wherever the sidecar dies, a document found whole is
\* not lost with its backup: for Word if the backup was copied whole, for the
\* writers that remove the backup after the restoration if that succeeded.
LastCopyKept ==
  /\ Whole(found)
  /\ \/ writer = "xlsx"
     \/ writer = "word" /\ "copy" \notin faulted
     \/ writer \in {"docx", "pptx"} /\ "restore" \notin faulted
  => Whole(disk) \/ Whole(backup)

\* No step of the sidecar takes from the user an edit that the application or
\* the file has, unless the application saved or closed the document during
\* the write, the lease could not close it, or Word's stale backup could be
\* neither removed nor replaced.
Edits(f) == IF Whole(f) THEN { c \in Range(f) : c < 0 } ELSE {}
WorkKept ==
  [][/\ ~moved' /\ "lease" \notin faulted' /\ ~({"clean", "copy"} \subseteq faulted')
     /\ Whole(Shown')
     => Edits(Shown) \subseteq Edits(Shown')]_vars

\* The workbook that the lease closed is open again when the answer comes,
\* whether the write succeeded or not.
ClosedIsReopened ==
  /\ todo = <<>> /\ reply # "none" /\ wasOpen /\ ~moved
  /\ "reopen" \notin faulted /\ Whole(disk)
  => Open

=============================================================================
