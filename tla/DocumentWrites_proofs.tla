------------------------ MODULE DocumentWrites_proofs ------------------------
(***************************************************************************)
(* The properties of DocumentWrites, proved for any number of requests, of *)
(* edits of the user, of failing steps and of crashes.                     *)
(***************************************************************************)
EXTENDS DocumentWrites, SequenceTheorems, TLAPS

-----------------------------------------------------------------------------
\* Where the writer stands: its next step, or "end".
First(steps) == IF steps = <<>> THEN "end" ELSE Head(steps)
Now == First(todo)
Doing == reply = "none" /\ todo # <<>>
Undoing == reply = "error" /\ todo # <<>>
Copying == writer \in {"docx", "word", "xlsx", "pptx"}

\* The writers that have a step, the step that follows it, the one that follows
\* its failure, and the order of the steps that undo.
Doers(s) ==
  CASE s \in {"agent", "clean", "drop"} -> {"word"}
    [] s = "com" -> {"docx", "word", "excel"}
    [] s = "copy" -> {"docx", "word", "xlsx", "pptx"}
    [] s = "load" -> Kinds
    [] s \in {"save", "replace"} -> Kinds \ {"leased"}
    [] s = "tidy" -> {"docx", "xlsx", "pptx"}
    [] s \in {"lease", "put", "reopen"} -> {"leased"}
    [] OTHER -> {}
Follows(s) ==
  CASE s = "agent" -> "com"
    [] s = "com" -> IF writer = "word" THEN "clean"
                    ELSE IF writer = "docx" THEN "copy" ELSE "load"
    [] s = "clean" -> "copy"
    [] s \in {"copy", "lease"} -> "load"
    [] s = "load" -> IF writer = "leased" THEN "put" ELSE "save"
    [] s = "put" -> "reopen"
    [] s = "save" -> "replace"
    [] s = "replace" -> IF writer = "word" THEN "drop"
                        ELSE IF writer = "excel" THEN "end" ELSE "tidy"
    [] OTHER -> "end"
Backs(s) ==
  CASE writer = "docx" -> IF s \in {"load", "save", "replace"}
                            THEN "restore" ELSE "end"
    [] writer = "word" -> IF s \in {"copy", "load", "save", "replace", "drop"}
                            THEN "restore" ELSE "end"
    [] writer = "xlsx" -> IF s = "load" THEN "restore"
                          ELSE IF s \in {"save", "replace"}
                            THEN "untmp" ELSE "end"
    [] writer = "pptx" -> IF s \in {"save", "replace"} THEN "restore" ELSE "end"
    [] writer = "leased" -> IF s \in {"load", "put"} THEN "reopen" ELSE "end"
    [] OTHER -> "end"
Undoers(s) ==
  CASE s \in {"restore", "untmp"} -> {"docx", "word", "xlsx", "pptx"}
    [] s = "unback" -> {"docx", "pptx"}
    [] s = "reopen" -> {"leased"}
    [] OTHER -> {}
FollowsUndoing(s) ==
  CASE s = "restore" -> IF writer = "word" THEN "untmp"
                        ELSE IF writer = "xlsx" THEN "end" ELSE "unback"
    [] s = "unback" -> "untmp"
    [] s = "untmp" -> IF writer = "xlsx" THEN "restore" ELSE "end"
    [] OTHER -> "end"

\* What is left of the line of a writer, and of what it undoes; a writer at
\* work has one of these left.
Suffixes(w) ==
  { SubSeq(Of(w).steps, k, Len(Of(w).steps)) : k \in DOMAIN Of(w).steps }
Undoings ==
  CASE writer \in {"docx", "pptx"} ->
         {<<"restore", "unback", "untmp">>, <<"unback", "untmp">>, <<"untmp">>}
    [] writer = "word" -> {<<"restore", "untmp">>, <<"untmp">>}
    [] writer = "xlsx" -> {<<"untmp", "restore">>, <<"restore">>}
    [] writer = "leased" -> {<<"reopen">>}
    [] writer = "excel" -> {}
OnPath ==
  /\ Doing => todo \in Suffixes(writer)
  /\ Undoing => todo \in Undoings
  /\ reply \notin {"none", "error"} => todo = <<>>
  /\ Doing => "copy" \notin faulted
  /\ wasOpen => writer = "leased"
\* The file will still be replaced by its backup.
Restoring == Undoing /\ (Now = "restore" \/ (writer = "xlsx" /\ Now = "untmp"))

\* A document is whole or torn, never absent; the application has a whole one.
TypeOK ==
  /\ writer \in Writers
  /\ disk \in Seq(Int) \cup {Torn} /\ found \in Seq(Int) \cup {Torn}
  /\ app \in Seq(Int) \cup {Absent}
  /\ backup \in Seq(Int) \cup {Torn, Absent}
  /\ tmp \in Seq(Int) \cup {Torn, Absent}
  /\ loaded \in Seq(Int)
  /\ reply \in {"none", "ok", "error", "errors"}
  /\ errs \in BOOLEAN /\ wasOpen \in BOOLEAN /\ moved \in BOOLEAN
  /\ writes \in Nat /\ typed \in Nat /\ crashes \in Nat

\* What the application has open is in a whole file, and has all it holds.
AppHolds ==
  Open => /\ Whole(app) /\ Whole(disk)
          /\ Range(disk) \subseteq Range(app)

\* The document keeps what was found, and has the operations once written.
Has(f) ==
  Whole(f) /\ Range(found) \subseteq Range(f) /\ (~errs => writes \in Range(f))
LoadedHas ==
  /\ Doing /\ Now = "replace" => tmp = loaded
  /\ Whole(found) =>
       /\ Doing => Whole(disk) /\ Range(found) \subseteq Range(disk)
       /\ Doing /\ Now \in {"save", "replace", "put"} => Has(loaded)
       /\ Doing /\ Now \in {"tidy", "drop", "reopen"} => Has(disk)
       /\ Answered("ok") => Has(Shown)

\* While a step may destroy the file or the backup, the other one is whole.
Copied == Now \in {"load", "save", "replace", "tidy", "drop"}
CopyKept ==
  Whole(found) /\ Copying /\ ~(writer = "word" /\ "copy" \in faulted) =>
    /\ Doing => Whole(disk)
    /\ (Doing /\ Copied) => Whole(backup)
    /\ Restoring => Whole(disk) /\ Whole(backup)
    /\ (writer \in {"docx", "pptx"} /\ "restore" \notin faulted) =>
         /\ Whole(disk) \/ Whole(backup)
         /\ (Undoing /\ Now \in {"unback", "untmp"}) => Whole(disk)
    /\ writer \in {"word", "xlsx"} => (Whole(disk) \/ Whole(backup))

\* The file is as found until the rename, and the backup is until the end.
Unchanged ==
  /\ ~moved /\ writer # "leased"
  /\ faulted \cap {"restore", "com"} = {}
  /\ ~(writer = "word" /\ "copy" \in faulted)
  =>
    /\ Doing /\ Now \in {"agent", "com"} => Open \/ disk = found
    /\ Doing /\ Now \in {"clean", "copy", "load", "save", "replace"}
         => disk = found
    /\ Doing /\ writer = "word" /\ Now = "drop" => ~Open
    /\ Doing /\ Copying /\ Copied => backup = found
    /\ Restoring => backup = found /\ (disk = found \/ ~Open)
    /\ reply = "error" => disk = found \/ Restoring

\* No edit of the user is only in what a step of the writer overwrites.
EditsKept ==
  ~moved /\ "lease" \notin faulted /\ ~({"clean", "copy"} \subseteq faulted) =>
    /\ Doing /\ Now \in {"save", "replace", "put"}
         => Whole(disk) /\ loaded \in Applied(disk, TRUE)
    /\ writer = "leased" /\ todo # <<>> /\ Now # "lease" => ~Open
    /\ ((Doing /\ Copying /\ Copied) \/ Restoring) /\ Whole(backup) =>
         Edits(disk) \subseteq Edits(backup)
    /\ writer = "word" /\ Doing /\ Now = "copy"
         => backup = Absent \/ "clean" \in faulted
    /\ writer = "word" /\ "copy" \in faulted => ~Whole(backup)

Reopens == ClosedIsReopened

IInv ==
  /\ TypeOK /\ OnPath /\ AppHolds
  /\ LoadedHas /\ CopyKept /\ Unchanged /\ EditsKept /\ Reopens

-----------------------------------------------------------------------------
(* The path of a writer. *)

\* The rest of a suffix is a suffix, and starts with the step after.
LEMMA SuffixRest ==
  ASSUME NEW S, NEW s \in Seq(S), NEW k \in 1..Len(s)
  PROVE  LET t == SubSeq(s, k, Len(s))
         IN /\ t # <<>> /\ Head(t) = s[k]
            /\ Tail(t) = SubSeq(s, k + 1, Len(s))
            /\ k = Len(s) => Tail(t) = <<>>
            /\ k < Len(s) => Tail(t) # <<>> /\ Head(Tail(t)) = s[k + 1]
<1>1. /\ Head(SubSeq(s, k, Len(s))) = s[k]
      /\ Tail(SubSeq(s, k, Len(s))) = SubSeq(s, k + 1, Len(s))
  BY HeadTailOfSubSeq
<1>2. SubSeq(s, k, Len(s)) # <<>>
  <2>1. \A i \in k..Len(s) : s[i] \in S
    OBVIOUS
  <2>2. Len(SubSeq(s, k, Len(s))) = Len(s) - k + 1
    BY <2>1, SubSeqProperties
  <2>3. Len(SubSeq(s, k, Len(s))) # Len(<<>>)
    BY <2>2
  <2> QED
    BY <2>3, Zenon
<1>3. CASE k = Len(s)
  BY <1>1, <1>2, <1>3, SubSeqEmpty
<1>4. CASE k < Len(s)
  <2>1. k + 1 \in 1..Len(s)
    BY <1>4
  <2>2. Len(SubSeq(s, k + 1, Len(s))) # 0
    <3>1. \A i \in (k + 1)..Len(s) : s[i] \in S
      OBVIOUS
    <3>2. Len(SubSeq(s, k + 1, Len(s))) = Len(s) - (k + 1) + 1
      BY <2>1, <3>1, SubSeqProperties
    <3> QED
      BY <3>2, <1>4
  <2>3. Head(SubSeq(s, k + 1, Len(s))) = s[k + 1]
    BY <2>1, HeadTailOfSubSeq
  <2>4. SubSeq(s, k + 1, Len(s)) # <<>>
    <3>1. Len(SubSeq(s, k + 1, Len(s))) # Len(<<>>)
      BY <2>2
    <3> QED
      BY <3>1, Zenon
  <2> QED
    BY <1>1, <1>2, <1>4, <2>3, <2>4
<1> QED
  BY <1>3, <1>4

\* What is left to do, and the step it starts with.
Goes(rest, s) ==
  /\ First(rest) = s
  /\ rest = <<>> <=> s = "end"

Steps == {"agent", "com", "clean", "copy", "load", "save", "replace", "drop",
          "tidy", "lease", "put", "reopen"}

LEMMA LineIs ==
  ASSUME writer \in Kinds
  PROVE  Of(writer).steps \in Seq(Steps)
<1>1. docx.steps \in Seq(Steps)
  BY DEF docx, Steps
<1>2. word.steps \in Seq(Steps)
  BY DEF word, Steps
<1>3. xlsx.steps \in Seq(Steps)
  BY DEF xlsx, Steps
<1>4. pptx.steps \in Seq(Steps)
  BY DEF pptx, Steps
<1>5. excel.steps \in Seq(Steps)
  BY DEF excel, Steps
<1>6. leased.steps \in Seq(Steps)
  BY DEF leased, Steps
<1> QED
  BY <1>1, <1>2, <1>3, <1>4, <1>5, <1>6 DEF Of, Kinds

LEMMA Tails ==
  ASSUME NEW a, NEW b, NEW c
  PROVE  /\ Head(<<a>>) = a /\ Tail(<<a>>) = <<>>
         /\ Head(<<a, b>>) = a /\ Tail(<<a, b>>) = <<b>>
         /\ Head(<<a, b, c>>) = a /\ Tail(<<a, b, c>>) = <<b, c>>
         /\ <<a>> # <<>> /\ <<a, b>> # <<>> /\ <<a, b, c>> # <<>>
OBVIOUS

\* A step of the line: who has it, and what comes after it.
LEMMA LineStep ==
  ASSUME TypeOK, OnPath, Doing
  PROVE  /\ writer \in Doers(Now)
         /\ Goes(Tail(todo), Follows(Now))
         /\ Tail(todo) # <<>> => Tail(todo) \in Suffixes(writer)
<1> DEFINE s == Of(writer).steps
           n == Len(s)
<1>1. PICK k \in DOMAIN s : todo = SubSeq(s, k, n)
  BY DEF OnPath, Suffixes
<1>2. writer \in Kinds
  BY WritesAssumption DEF TypeOK
<1>3. s \in Seq(Steps)
  BY <1>2, LineIs
<1>4. k \in 1..n
  OBVIOUS
<1>5. /\ Head(todo) = s[k] /\ Tail(todo) = SubSeq(s, k + 1, n)
      /\ k = n => Tail(todo) = <<>>
      /\ k < n => Tail(todo) # <<>> /\ Head(Tail(todo)) = s[k + 1]
  BY <1>1, <1>3, <1>4, SuffixRest
<1>6. Now = s[k] /\ First(Tail(todo)) = (IF k = n THEN "end" ELSE s[k + 1])
  BY <1>5 DEF Now, First, Doing
<1>7. Tail(todo) # <<>> => Tail(todo) \in Suffixes(writer)
  <2> SUFFICES ASSUME Tail(todo) # <<>> PROVE k + 1 \in DOMAIN s
    BY <1>5 DEF Suffixes
  <2> QED
    BY <1>5
<1>8. /\ writer \in Doers(s[k])
      /\ Follows(s[k]) = (IF k = n THEN "end" ELSE s[k + 1])
      /\ k < n => s[k + 1] # "end"
  <2>1. CASE writer = "docx"
    <3>1. /\ n = 6
          /\ s[1] = "com" /\ s[2] = "copy" /\ s[3] = "load"
          /\ s[4] = "save" /\ s[5] = "replace" /\ s[6] = "tidy"
      BY <2>1 DEF Of, docx
    <3>2. k \in 1..6
      BY <3>1
    <3> HIDE DEF s, n
    <3> QED
      BY <2>1, <3>1, <3>2 DEF Doers, Follows, Kinds
  <2>2. CASE writer = "word"
    <3>1. /\ n = 8
          /\ s[1] = "agent" /\ s[2] = "com" /\ s[3] = "clean" /\ s[4] = "copy"
          /\ s[5] = "load" /\ s[6] = "save" /\ s[7] = "replace" /\ s[8] = "drop"
      BY <2>2 DEF Of, word
    <3>2. k \in 1..8
      BY <3>1
    <3> HIDE DEF s, n
    <3> QED
      BY <2>2, <3>1, <3>2 DEF Doers, Follows, Kinds
  <2>3. CASE writer = "xlsx"
    <3>1. /\ n = 5
          /\ s[1] = "copy" /\ s[2] = "load" /\ s[3] = "save"
          /\ s[4] = "replace" /\ s[5] = "tidy"
      BY <2>3 DEF Of, xlsx
    <3>2. k \in 1..5
      BY <3>1
    <3> HIDE DEF s, n
    <3> QED
      BY <2>3, <3>1, <3>2 DEF Doers, Follows, Kinds
  <2>4. CASE writer = "pptx"
    <3>1. /\ n = 5
          /\ s[1] = "copy" /\ s[2] = "load" /\ s[3] = "save"
          /\ s[4] = "replace" /\ s[5] = "tidy"
      BY <2>4 DEF Of, pptx
    <3>2. k \in 1..5
      BY <3>1
    <3> HIDE DEF s, n
    <3> QED
      BY <2>4, <3>1, <3>2 DEF Doers, Follows, Kinds
  <2>5. CASE writer = "excel"
    <3>1. /\ n = 4
          /\ s[1] = "com" /\ s[2] = "load"
          /\ s[3] = "save" /\ s[4] = "replace"
      BY <2>5 DEF Of, excel
    <3>2. k \in 1..4
      BY <3>1
    <3> HIDE DEF s, n
    <3> QED
      BY <2>5, <3>1, <3>2 DEF Doers, Follows, Kinds
  <2>6. CASE writer = "leased"
    <3>1. /\ n = 4
          /\ s[1] = "lease" /\ s[2] = "load"
          /\ s[3] = "put" /\ s[4] = "reopen"
      BY <2>6 DEF Of, leased
    <3>2. k \in 1..4
      BY <3>1
    <3> HIDE DEF s, n
    <3> QED
      BY <2>6, <3>1, <3>2 DEF Doers, Follows, Kinds
  <2> QED
    BY <1>2, <2>1, <2>2, <2>3, <2>4, <2>5, <2>6 DEF Kinds
<1> QED
  BY <1>5, <1>6, <1>7, <1>8 DEF Goes

\* The same of a step that undoes.
LEMMA UndoingStep ==
  ASSUME TypeOK, OnPath, Undoing
  PROVE  /\ writer \in Undoers(Now)
         /\ Goes(Tail(todo), FollowsUndoing(Now))
         /\ Tail(todo) # <<>> => Tail(todo) \in Undoings
<1>1. todo \in Undoings /\ writer \in Kinds
  BY WritesAssumption DEF OnPath, TypeOK
<1>2. CASE writer \in {"docx", "pptx"}
  <2>1. CASE todo = <<"restore", "unback", "untmp">>
    <3>1. /\ Head(todo) = "restore" /\ Tail(todo) = <<"unback", "untmp">>
          /\ Tail(todo) # <<>> /\ Head(Tail(todo)) = "unback"
      BY <2>1
    <3> QED
      BY <1>2, <3>1 DEF Undoings, Undoers, Goes, FollowsUndoing, Now, First
  <2>2. CASE todo = <<"unback", "untmp">>
    <3>1. /\ Head(todo) = "unback" /\ Tail(todo) = <<"untmp">>
          /\ Tail(todo) # <<>> /\ Head(Tail(todo)) = "untmp"
      BY <2>2
    <3> QED
      BY <1>2, <3>1 DEF Undoings, Undoers, Goes, FollowsUndoing, Now, First
  <2>3. CASE todo = <<"untmp">>
    <3>1. /\ Head(todo) = "untmp" /\ Tail(todo) = <<>>
      BY <2>3
    <3> QED
      BY <1>2, <3>1 DEF Undoers, Goes, FollowsUndoing, Now, First, Undoing
  <2> QED
    BY <1>1, <1>2, <2>1, <2>2, <2>3 DEF Undoings
<1>3. CASE writer = "word"
  <2>1. CASE todo = <<"restore", "untmp">>
    <3>1. /\ Head(todo) = "restore" /\ Tail(todo) = <<"untmp">>
          /\ Tail(todo) # <<>> /\ Head(Tail(todo)) = "untmp"
      BY <2>1
    <3> QED
      BY <1>3, <3>1 DEF Undoings, Undoers, Goes, FollowsUndoing, Now, First
  <2>2. CASE todo = <<"untmp">>
    <3>1. /\ Head(todo) = "untmp" /\ Tail(todo) = <<>>
      BY <2>2
    <3> QED
      BY <1>3, <3>1 DEF Undoers, Goes, FollowsUndoing, Now, First, Undoing
  <2> QED
    BY <1>1, <1>3, <2>1, <2>2 DEF Undoings
<1>4. CASE writer = "xlsx"
  <2>1. CASE todo = <<"untmp", "restore">>
    <3>1. /\ Head(todo) = "untmp" /\ Tail(todo) = <<"restore">>
          /\ Tail(todo) # <<>> /\ Head(Tail(todo)) = "restore"
      BY <2>1
    <3> QED
      BY <1>4, <3>1 DEF Undoings, Undoers, Goes, FollowsUndoing, Now, First
  <2>2. CASE todo = <<"restore">>
    <3>1. /\ Head(todo) = "restore" /\ Tail(todo) = <<>>
      BY <2>2
    <3> QED
      BY <1>4, <3>1 DEF Undoers, Goes, FollowsUndoing, Now, First, Undoing
  <2> QED
    BY <1>1, <1>4, <2>1, <2>2 DEF Undoings
<1>5. CASE writer = "leased"
  <2>1. CASE todo = <<"reopen">>
    <3>1. /\ Head(todo) = "reopen" /\ Tail(todo) = <<>>
      BY <2>1
    <3> QED
      BY <1>5, <3>1 DEF Undoers, Goes, FollowsUndoing, Now, First, Undoing
  <2> QED
    BY <1>1, <1>5, <2>1 DEF Undoings
<1>6. CASE writer = "excel"
  BY <1>1, <1>6 DEF Undoings
<1> QED
  BY <1>1, <1>2, <1>3, <1>4, <1>5, <1>6 DEF Kinds

\* What a writer does after a step has failed.
LEMMA FailedStep ==
  ASSUME TypeOK, NEW s
  PROVE  /\ Goes(Undo(s), Backs(s))
         /\ Undo(s) # <<>> => Undo(s) \in Undoings
<1>1. writer \in Kinds
  BY WritesAssumption DEF TypeOK
<1>2. CASE writer = "docx"
  BY <1>2 DEF Undo, Of, docx, Undoings, Goes, Backs, First
<1>3. CASE writer = "word"
  BY <1>3 DEF Undo, Of, word, Undoings, Goes, Backs, First
<1>4. CASE writer = "xlsx"
  BY <1>4 DEF Undo, Of, xlsx, Undoings, Goes, Backs, First
<1>5. CASE writer = "pptx"
  BY <1>5 DEF Undo, Of, pptx, Undoings, Goes, Backs, First
<1>6. CASE writer = "excel"
  BY <1>6 DEF Undo, Of, excel, Goes, Backs, First
<1>7. CASE writer = "leased"
  BY <1>7 DEF Undo, Of, leased, Undoings, Goes, Backs, First
<1> QED
  BY <1>1, <1>2, <1>3, <1>4, <1>5, <1>6, <1>7 DEF Kinds

-----------------------------------------------------------------------------
(* How a step moves the writer. *)

\* To the next step, in order or after a failure.
Proceeds ==
  /\ todo' = <<>> <=> Now' = "end"
  /\ Doing => /\ Now' = Follows(Now)
            /\ reply' = (IF Now' = "end" THEN "ok" ELSE "none")
  /\ Undoing => Now' = FollowsUndoing(Now) /\ reply' = "error"
Retreats ==
  /\ todo' = <<>> <=> Now' = "end"
  /\ Now' = Backs(Now) /\ reply' = "error"

\* A writer with steps left is in its line or undoing, and which says who.
LEMMA Stands ==
  ASSUME TypeOK, OnPath
  PROVE  /\ todo = <<>> <=> Now = "end"
         /\ Now # "end" => Doing \/ Undoing
         /\ Doing => writer \in Doers(Now)
         /\ Undoing => writer \in Undoers(Now)
<1>1. todo # <<>> => Doing \/ Undoing
  BY DEF OnPath, Doing, Undoing
<1>2. /\ Doing => writer \in Doers(Now)
      /\ Undoing => writer \in Undoers(Now)
  BY LineStep, UndoingStep
<1>3. Now # "end" => todo # <<>>
  BY DEF Now, First
<1>4. Doers("end") = {} /\ Undoers("end") = {}
  BY DEF Doers, Undoers
<1> QED
  BY <1>1, <1>2, <1>3, <1>4

\* The three ways a step ends, and that they stay on the path.
LEMMA StepEnds ==
  ASSUME TypeOK, OnPath, todo # <<>>
  PROVE  /\ Done => /\ Proceeds /\ faulted' = faulted
                    /\ UNCHANGED unchanging
         /\ Ignored => /\ Proceeds /\ faulted' = faulted \cup {Now}
                       /\ UNCHANGED unchanging
         /\ Failed => /\ Retreats /\ faulted' = faulted \cup {Now}
                      /\ UNCHANGED unchanging
         /\ Done \/ Ignored \/ Failed =>
              /\ Doing' => todo' \in Suffixes(writer)'
              /\ Undoing' => todo' \in Undoings'
              /\ reply' \notin {"none", "error"} => todo' = <<>>
<1>1. Now = Head(todo) /\ (Doing \/ Undoing)
  BY Stands DEF Now, First
<1>2. ASSUME Go(Tail(todo)), writer' = writer
      PROVE  /\ Proceeds
             /\ Doing' => todo' \in Suffixes(writer)'
             /\ Undoing' => todo' \in Undoings'
             /\ reply' \notin {"none", "error"} => todo' = <<>>
  <2>1. Now' = First(Tail(todo)) /\ todo' = Tail(todo)
    BY <1>2 DEF Go, Now
  <2>2. CASE Doing
    <3>1. /\ Goes(Tail(todo), Follows(Now))
          /\ Tail(todo) # <<>> => Tail(todo) \in Suffixes(writer)
      BY <2>2, LineStep
    <3>2. reply = "none" /\ ~Undoing
      BY <2>2 DEF Doing, Undoing
    <3>3. /\ Now' = Follows(Now)
          /\ reply' = IF todo' = <<>> THEN "ok" ELSE "none"
          /\ todo' = <<>> <=> Now' = "end"
      BY <1>2, <2>1, <3>1, <3>2 DEF Go, Goes
    <3>4. Suffixes(writer)' = Suffixes(writer)
      BY <1>2
    <3> QED
      BY <2>1, <2>2, <3>1, <3>3, <3>4 DEF Proceeds, Doing, Undoing
  <2>3. CASE Undoing
    <3>1. /\ Goes(Tail(todo), FollowsUndoing(Now))
          /\ Tail(todo) # <<>> => Tail(todo) \in Undoings
      BY <2>3, UndoingStep
    <3>2. reply = "error" /\ ~Doing
      BY <2>3 DEF Doing, Undoing
    <3>3. /\ Now' = FollowsUndoing(Now) /\ reply' = "error"
          /\ todo' = <<>> <=> Now' = "end"
      BY <1>2, <2>1, <3>1, <3>2 DEF Go, Goes
    <3>4. Undoings' = Undoings
      BY <1>2 DEF Undoings
    <3> QED
      BY <2>1, <2>3, <3>1, <3>3, <3>4 DEF Proceeds, Doing, Undoing
  <2> QED
    BY <1>1, <2>2, <2>3
<1>3. ASSUME Failed
      PROVE  /\ Retreats
             /\ Doing' => todo' \in Suffixes(writer)'
             /\ Undoing' => todo' \in Undoings'
             /\ reply' \notin {"none", "error"} => todo' = <<>>
  <2>1. /\ todo' = Undo(Now) /\ reply' = "error" /\ writer' = writer
        /\ Goes(Undo(Now), Backs(Now))
        /\ Undo(Now) # <<>> => Undo(Now) \in Undoings
    BY <1>1, <1>3, FailedStep DEF Failed, Fails, unchanging
  <2>2. Now' = First(Undo(Now))
    BY <2>1 DEF Now
  <2>3. Undoings' = Undoings
    BY <2>1 DEF Undoings
  <2> QED
    BY <2>1, <2>2, <2>3 DEF Retreats, Goes, Doing, Undoing
<1> QED
  BY <1>1, <1>2, <1>3 DEF Done, Ignored, Failed, Fails, unchanging

-----------------------------------------------------------------------------
(* Versions. *)

\* What one more change adds to a version.
LEMMA Appends ==
  ASSUME NEW v \in Seq(Int), NEW x \in Int
  PROVE  /\ Append(v, x) \in Seq(Int)
         /\ Range(Append(v, x)) = Range(v) \cup {x}
         /\ Edits(v) \subseteq Edits(Append(v, x))
         /\ x >= 0 => Edits(Append(v, x)) = Edits(v)
<1>1. /\ Append(v, x) \in Seq(Int) /\ Len(Append(v, x)) = Len(v) + 1
      /\ \A i \in 1..Len(v) : Append(v, x)[i] = v[i]
      /\ Append(v, x)[Len(v) + 1] = x
  OBVIOUS
<1>2. Range(Append(v, x)) \subseteq Range(v) \cup {x}
  BY DEF Range
<1>3. Range(v) \cup {x} \subseteq Range(Append(v, x))
  <2>1. ASSUME NEW c \in Range(v) PROVE c \in Range(Append(v, x))
    <3>1. PICK i \in 1..Len(v) : c = v[i]
      BY DEF Range
    <3> QED
      BY DEF Range
  <2>2. x \in Range(Append(v, x))
    BY DEF Range
  <2> QED
    BY <2>1, <2>2
<1>4. Whole(v) /\ Whole(Append(v, x))
  BY <1>1, WritesAssumption DEF Whole
<1> QED
  BY <1>2, <1>3, <1>4 DEF Edits

\* The values files have are told apart.
LEMMA Files ==
  ASSUME TypeOK
  PROVE  /\ disk # Absent /\ found # Absent /\ app # Torn /\ Torn # Absent
         /\ ~Whole(Torn) /\ ~Whole(Absent) /\ Whole(loaded)
         /\ app # Absent => Whole(app) /\ app \in Seq(Int)
         /\ Whole(disk) => disk \in Seq(Int)
BY WritesAssumption DEF TypeOK, Whole

\* What a write adds to a version.
LEMMA Written ==
  ASSUME TypeOK, NEW v, v \in {app, disk}, Whole(v)
  PROVE  /\ Append(v, writes) \in Seq(Int) /\ Whole(Append(v, writes))
         /\ Append(v, writes) # Absent
         /\ Range(Append(v, writes)) = Range(v) \cup {writes}
         /\ Edits(Append(v, writes)) = Edits(v)
<1>1. v \in Seq(Int) /\ writes \in Int /\ writes >= 0
  BY DEF TypeOK, Whole
<1>2. /\ Append(v, writes) \in Seq(Int)
      /\ Range(Append(v, writes)) = Range(v) \cup {writes}
      /\ Edits(Append(v, writes)) = Edits(v)
  BY <1>1, Appends
<1> QED
  BY <1>2, WritesAssumption DEF Whole

\* What the operations that did not fail add to a version.
LEMMA AppliedHas ==
  ASSUME TypeOK, NEW v, v \in {app, disk}, Whole(v), NEW failing,
         NEW r \in Applied(v, failing)
  PROVE  /\ r \in Seq(Int) /\ Whole(r) /\ r # Absent
         /\ Range(v) \subseteq Range(r) /\ (~failing => writes \in Range(r))
         /\ Edits(r) = Edits(v) /\ r \in Applied(v, TRUE)
<1>1. CASE r = Append(v, writes)
  BY <1>1, Written DEF Applied
<1>2. CASE failing /\ r = v
  BY <1>2 DEF Applied, TypeOK, Whole
<1> QED
  BY <1>1, <1>2 DEF Applied

-----------------------------------------------------------------------------
(* Every step keeps the invariant. *)

USE DEF Doing, Undoing, Copying, Copied, Restoring, Open, unchanging, files

\* A failure of a step before the rename leaves what the restoration needs.
LEMMA FailureKeeps ==
  ASSUME IInv, Doing, Now \in {"load", "save", "replace"},
         UNCHANGED <<disk, backup, app, unchanging>>,
         faulted' = faulted \cup {Now}, reply' = "error",
         Restoring' => Copying
  PROVE  Unchanged' /\ EditsKept'
<1>1. Unchanged'
  <2> SUFFICES ASSUME ~moved, writer # "leased",
                      faulted' \cap {"restore", "com"} = {},
                      ~(writer = "word" /\ "copy" \in faulted')
               PROVE  disk = found /\ (Copying => backup = found)
    BY DEF Unchanged
  <2> QED
    BY DEF IInv, Unchanged
<1>2. EditsKept'
  <2> SUFFICES ASSUME ~moved, "lease" \notin faulted',
                      ~({"clean", "copy"} \subseteq faulted')
               PROVE  /\ writer = "leased" => app = Absent
                      /\ (Copying /\ Whole(backup)) =>
                            Edits(disk) \subseteq Edits(backup)
                      /\ ~(writer = "word" /\ "copy" \in faulted')
    BY DEF EditsKept
  <2>1. "copy" \notin faulted'
    BY DEF IInv, OnPath
  <2> QED
    BY <2>1 DEF IInv, EditsKept
<1> QED
  BY <1>1, <1>2

LEMMA AgentKeeps ==
  ASSUME IInv, Agent PROVE IInv'
<1>1. Now = "agent" /\ todo # <<>> /\ Doing /\ writer = "word"
  BY Stands DEF IInv, Agent, At, Now, First, Doers, Undoers
<1>2. Follows(Now) = "com"
  BY <1>1 DEF Follows
<1>3. /\ UNCHANGED unchanging /\ (todo' = <<>> <=> Now' = "end")
      /\ UNCHANGED <<backup, tmp, loaded, errs, wasOpen>>
      /\ Now' = "com" /\ reply' = "none"
      /\ faulted' \in {faulted, faulted \cup {"agent"}}
      /\ \/ Open /\ app' \in Applied(app, TRUE) /\ disk' \in {disk, app'}
         \/ UNCHANGED <<app, disk>>
  BY <1>1, <1>2, StepEnds DEF IInv, Agent, Proceeds
<1>4. TypeOK'
  BY <1>3, Files, AppliedHas DEF IInv, TypeOK
<1>5. OnPath'
  BY <1>1, StepEnds DEF IInv, Agent, OnPath
<1>6. AppHolds'
  BY <1>3, AppliedHas DEF IInv, AppHolds
<1>7. LoadedHas'
  BY <1>1, <1>3, AppliedHas DEF IInv, LoadedHas, AppHolds, Answered
<1>8. CopyKept'
  BY <1>1, <1>3, Files, AppliedHas DEF IInv, CopyKept
<1>9. Unchanged'
  BY <1>1, <1>3, Files, AppliedHas DEF IInv, Unchanged
<1>10. EditsKept'
  BY <1>1, <1>3 DEF IInv, EditsKept
<1>11. Reopens'
  BY <1>3 DEF Reopens, ClosedIsReopened
<1> QED
  BY <1>4, <1>5, <1>6, <1>7, <1>8, <1>9, <1>10, <1>11 DEF IInv

LEMMA ComKeeps ==
  ASSUME IInv, Com PROVE IInv'
<1>1. /\ Now = "com" /\ todo # <<>> /\ Doing
      /\ writer \in {"docx", "word", "excel"}
  BY Stands DEF IInv, Com, At, Now, First, Doers, Undoers
<1>2. /\ Follows(Now) = (IF writer = "word" THEN "clean"
                         ELSE IF writer = "docx" THEN "copy" ELSE "load")
      /\ Backs(Now) = "end"
  BY <1>1 DEF Follows, Backs
<1>3. /\ UNCHANGED unchanging /\ (todo' = <<>> <=> Now' = "end")
      /\ UNCHANGED <<backup, tmp, loaded, wasOpen>> /\ errs' \in BOOLEAN
      /\ \/ /\ Open /\ app' \in Applied(app, errs') /\ disk' \in {disk, app'}
            /\ faulted' = faulted /\ Now' = "end" /\ reply' = "ok"
         \/ /\ ~Open /\ UNCHANGED <<app, disk>> /\ faulted' = faulted
            /\ Now' = Follows(Now) /\ reply' = "none"
         \/ /\ UNCHANGED <<app, disk>> /\ faulted' = faulted \cup {"com"}
            /\ Now' = "end" /\ reply' = "error"
         \/ /\ Open /\ app' \in {app} \cup Applied(app, TRUE) /\ disk' = disk
            /\ faulted' = faulted \cup {"com"}
            /\ Now' = Follows(Now) /\ reply' = "none"
  BY <1>1, <1>2, StepEnds DEF IInv, TypeOK, Com, Applied,
     Proceeds, Retreats, Give, Now, First
<1>4. TypeOK'
  BY <1>3, Files, AppliedHas DEF IInv, TypeOK
<1>5. OnPath'
  BY <1>1, StepEnds DEF IInv, Com, OnPath, Give
<1>6. AppHolds'
  BY <1>3, AppliedHas DEF IInv, AppHolds
<1>7. LoadedHas'
  BY <1>1, <1>2, <1>3, AppliedHas DEF IInv, LoadedHas, AppHolds, Has, Shown,
     Answered
<1>8. CopyKept'
  BY <1>1, <1>2, <1>3, Files, AppliedHas DEF IInv, CopyKept
<1>9. Unchanged'
  BY <1>1, <1>2, <1>3 DEF IInv, Unchanged
<1>10. EditsKept'
  BY <1>1, <1>2, <1>3 DEF IInv, EditsKept
<1>11. Reopens'
  BY <1>1, <1>3 DEF IInv, Reopens, OnPath, ClosedIsReopened
<1> QED
  BY <1>4, <1>5, <1>6, <1>7, <1>8, <1>9, <1>10, <1>11 DEF IInv

LEMMA CleanKeeps ==
  ASSUME IInv, Clean PROVE IInv'
<1>1. Now = "clean" /\ todo # <<>> /\ Doing /\ writer = "word"
  BY Stands DEF IInv, Clean, At, Now, First, Doers, Undoers
<1>2. Follows(Now) = "copy"
  BY <1>1 DEF Follows
<1>3. /\ UNCHANGED unchanging /\ (todo' = <<>> <=> Now' = "end")
      /\ UNCHANGED <<disk, app, loaded, errs, wasOpen>> /\ tmp' = Absent
      /\ Now' = "copy" /\ reply' = "none"
      /\ \/ backup' = Absent /\ faulted' = faulted
         \/ backup' = backup /\ faulted' = faulted \cup {"clean"}
  BY <1>1, <1>2, StepEnds DEF IInv, Clean, Proceeds
<1>4. TypeOK'
  BY <1>3 DEF IInv, TypeOK
<1>5. OnPath'
  BY <1>1, StepEnds DEF IInv, Clean, OnPath
<1>6. AppHolds'
  BY <1>3 DEF IInv, AppHolds
<1>7. LoadedHas'
  BY <1>1, <1>3 DEF IInv, LoadedHas, Answered
<1>8. CopyKept'
  BY <1>1, <1>3 DEF IInv, CopyKept
<1>9. Unchanged'
  BY <1>1, <1>3 DEF IInv, Unchanged
<1>10. EditsKept'
  BY <1>1, <1>3, Files DEF IInv, EditsKept
<1>11. Reopens'
  BY <1>3 DEF Reopens, ClosedIsReopened
<1> QED
  BY <1>4, <1>5, <1>6, <1>7, <1>8, <1>9, <1>10, <1>11 DEF IInv

LEMMA CopyKeeps ==
  ASSUME IInv, Copy PROVE IInv'
<1>1. /\ Now = "copy" /\ todo # <<>> /\ Doing
      /\ writer \in {"docx", "word", "xlsx", "pptx"}
  BY Stands DEF IInv, Copy, At, Now, First, Doers, Undoers
<1>2. /\ Follows(Now) = "load"
      /\ Backs(Now) = IF writer = "word" THEN "restore" ELSE "end"
  BY <1>1 DEF Follows, Backs
<1>3. /\ UNCHANGED unchanging /\ (todo' = <<>> <=> Now' = "end")
      /\ UNCHANGED <<disk, tmp, app, loaded, errs, wasOpen>>
      /\ \/ /\ backup' = disk /\ faulted' = faulted
            /\ Now' = "load" /\ reply' = "none"
         \/ /\ backup' \in {backup, Torn} /\ faulted' = faulted \cup {"copy"}
            /\ Now' = (IF writer = "word" THEN "restore" ELSE "end")
            /\ reply' = "error"
  BY <1>1, <1>2, StepEnds DEF IInv, Copy, Proceeds, Retreats
<1>4. TypeOK'
  BY <1>3 DEF IInv, TypeOK
<1>5. OnPath'
  BY <1>1, <1>3, StepEnds DEF IInv, Copy, OnPath
<1>6. AppHolds'
  BY <1>3 DEF IInv, AppHolds
<1>7. LoadedHas'
  BY <1>1, <1>3 DEF IInv, LoadedHas, Answered
<1>8. CopyKept'
  BY <1>1, <1>3 DEF IInv, CopyKept
<1>9. Unchanged'
  BY <1>1, <1>3 DEF IInv, Unchanged
<1>10. EditsKept'
  BY <1>1, <1>3, Files DEF IInv, EditsKept, OnPath
<1>11. Reopens'
  BY <1>1, <1>3 DEF IInv, Reopens, OnPath, ClosedIsReopened
<1> QED
  BY <1>4, <1>5, <1>6, <1>7, <1>8, <1>9, <1>10, <1>11 DEF IInv

LEMMA LoadKeeps ==
  ASSUME IInv, Load PROVE IInv'
<1>1. Now = "load" /\ todo # <<>> /\ Doing /\ writer \in Kinds
  BY Stands DEF IInv, Load, At, Now, First, Doers, Undoers
<1>2. /\ Follows(Now) = IF writer = "leased" THEN "put" ELSE "save"
      /\ Backs(Now) = (IF writer = "leased" THEN "reopen"
                         ELSE IF writer \in {"pptx", "excel"} THEN "end"
                         ELSE "restore")
  BY <1>1 DEF Follows, Backs, Kinds
<1>3. /\ UNCHANGED unchanging /\ (todo' = <<>> <=> Now' = "end")
      /\ UNCHANGED <<disk, backup, tmp, app, wasOpen>>
      /\ errs' \in BOOLEAN
      /\ \/ /\ Whole(disk) /\ loaded' \in Applied(disk, errs')
            /\ faulted' = faulted
            /\ \/ writer = "excel" /\ Now' = "end" /\ reply' = "errors"
               \/ Now' = Follows(Now) /\ reply' = "none"
         \/ /\ loaded' = loaded /\ faulted' = faulted \cup {"load"}
            /\ Now' = Backs(Now) /\ reply' = "error"
  BY <1>1, <1>2, StepEnds DEF IInv, Load, Proceeds, Retreats, Give, Now, First,
     TypeOK
<1>4. TypeOK'
  BY <1>3, AppliedHas DEF IInv, TypeOK
<1>5. OnPath'
  BY <1>1, StepEnds DEF IInv, Load, OnPath, Give
<1>6. AppHolds'
  BY <1>3 DEF IInv, AppHolds
<1>7. LoadedHas'
  BY <1>1, <1>2, <1>3, AppliedHas DEF IInv, LoadedHas, Has, Answered
<1>8. CopyKept'
  BY <1>1, <1>3 DEF IInv, CopyKept
<1>9. Unchanged'
  <2>1. CASE faulted' = faulted /\ reply' # "error"
    BY <1>1, <1>2, <1>3, <2>1 DEF IInv, Unchanged
  <2>2. CASE reply' = "error"
    BY <1>1, <1>2, <1>3, <2>2, FailureKeeps DEF Kinds
  <2> QED
    BY <1>3, <2>1, <2>2
<1>10. EditsKept'
  <2>1. CASE faulted' = faulted /\ reply' # "error"
    BY <1>1, <1>2, <1>3, <2>1, AppliedHas DEF IInv, EditsKept,
       Applied
  <2>2. CASE reply' = "error"
    BY <1>1, <1>2, <1>3, <2>2, FailureKeeps DEF Kinds
  <2> QED
    BY <1>3, <2>1, <2>2
<1>11. Reopens'
  BY <1>2, <1>3 DEF IInv, Reopens, OnPath, ClosedIsReopened
<1> QED
  BY <1>4, <1>5, <1>6, <1>7, <1>8, <1>9, <1>10, <1>11 DEF IInv

LEMMA SaveKeeps ==
  ASSUME IInv, Save PROVE IInv'
<1>1. Now = "save" /\ todo # <<>> /\ Doing /\ writer \in Kinds \ {"leased"}
  BY Stands DEF IInv, Save, At, Now, First, Doers, Undoers
<1>2. /\ Follows(Now) = "replace"
      /\ Backs(Now) = (IF writer = "xlsx" THEN "untmp"
                         ELSE IF writer = "excel" THEN "end" ELSE "restore")
  BY <1>1 DEF Follows, Backs, Kinds
<1>3. /\ UNCHANGED unchanging /\ (todo' = <<>> <=> Now' = "end")
      /\ UNCHANGED <<disk, backup, app, loaded, errs, wasOpen>>
      /\ \/ /\ tmp' = loaded /\ faulted' = faulted
            /\ Now' = "replace" /\ reply' = "none"
         \/ /\ tmp' \in {tmp, Torn} /\ faulted' = faulted \cup {"save"}
            /\ Now' = Backs(Now) /\ reply' = "error"
  BY <1>1, <1>2, StepEnds DEF IInv, Save, Proceeds, Retreats
<1>4. TypeOK'
  BY <1>3 DEF IInv, TypeOK
<1>5. OnPath'
  BY <1>1, StepEnds DEF IInv, Save, OnPath
<1>6. AppHolds'
  BY <1>3 DEF IInv, AppHolds
<1>7. LoadedHas'
  BY <1>1, <1>3 DEF IInv, LoadedHas, Has, Answered
<1>8. CopyKept'
  BY <1>1, <1>3 DEF IInv, CopyKept
<1>9. Unchanged'
  <2>1. CASE faulted' = faulted /\ reply' # "error"
    BY <1>1, <1>3, <2>1 DEF IInv, Unchanged
  <2>2. CASE reply' = "error"
    BY <1>1, <1>2, <1>3, <2>2, FailureKeeps DEF Kinds
  <2> QED
    BY <1>3, <2>1, <2>2
<1>10. EditsKept'
  <2>1. CASE faulted' = faulted /\ reply' # "error"
    BY <1>1, <1>3, <2>1 DEF IInv, EditsKept, Applied
  <2>2. CASE reply' = "error"
    BY <1>1, <1>2, <1>3, <2>2, FailureKeeps DEF Kinds
  <2> QED
    BY <1>3, <2>1, <2>2
<1>11. Reopens'
  BY <1>1, <1>3 DEF IInv, Reopens, OnPath, ClosedIsReopened
<1> QED
  BY <1>4, <1>5, <1>6, <1>7, <1>8, <1>9, <1>10, <1>11 DEF IInv

LEMMA ReplaceKeeps ==
  ASSUME IInv, Replace PROVE IInv'
<1>1. Now = "replace" /\ todo # <<>> /\ Doing /\ writer \in Kinds \ {"leased"}
  BY Stands DEF IInv, Replace, At, Now, First, Doers, Undoers
<1>2. /\ Follows(Now) = (IF writer = "word" THEN "drop"
                           ELSE IF writer = "excel" THEN "end" ELSE "tidy")
      /\ Backs(Now) = (IF writer = "xlsx" THEN "untmp"
                         ELSE IF writer = "excel" THEN "end" ELSE "restore")
  BY <1>1 DEF Follows, Backs, Kinds
<1>3. /\ UNCHANGED unchanging /\ (todo' = <<>> <=> Now' = "end")
      /\ UNCHANGED <<backup, app, loaded, errs, wasOpen>>
      /\ \/ /\ ~Open /\ disk' = tmp /\ tmp' = Absent /\ faulted' = faulted
            /\ Now' = Follows(Now)
            /\ reply' = IF writer = "excel" THEN "ok" ELSE "none"
         \/ /\ UNCHANGED <<disk, tmp>> /\ faulted' = faulted \cup {"replace"}
            /\ Now' = Backs(Now) /\ reply' = "error"
  BY <1>1, <1>2, StepEnds DEF IInv, Replace, Proceeds, Retreats
<1>4. TypeOK'
  BY <1>1, <1>3 DEF IInv, TypeOK, LoadedHas
<1>5. OnPath'
  BY <1>1, StepEnds DEF IInv, Replace, OnPath
<1>6. AppHolds'
  BY <1>3 DEF IInv, AppHolds
<1>7. LoadedHas'
  BY <1>1, <1>2, <1>3 DEF IInv, LoadedHas, Has, Shown, Answered
<1>8. CopyKept'
  BY <1>1, <1>3, Files DEF IInv, CopyKept, LoadedHas
<1>9. Unchanged'
  <2>1. CASE faulted' = faulted /\ reply' # "error"
    BY <1>1, <1>2, <1>3, <2>1 DEF IInv, Unchanged
  <2>2. CASE reply' = "error"
    BY <1>1, <1>2, <1>3, <2>2, FailureKeeps DEF Kinds
  <2> QED
    BY <1>3, <2>1, <2>2
<1>10. EditsKept'
  <2>1. CASE faulted' = faulted /\ reply' # "error"
    BY <1>1, <1>2, <1>3, <2>1, AppliedHas DEF IInv, EditsKept, LoadedHas,
       Applied
  <2>2. CASE reply' = "error"
    BY <1>1, <1>2, <1>3, <2>2, FailureKeeps DEF Kinds
  <2> QED
    BY <1>3, <2>1, <2>2
<1>11. Reopens'
  BY <1>1, <1>3 DEF IInv, Reopens, OnPath, ClosedIsReopened
<1> QED
  BY <1>4, <1>5, <1>6, <1>7, <1>8, <1>9, <1>10, <1>11 DEF IInv

LEMMA DropKeeps ==
  ASSUME IInv, Drop PROVE IInv'
<1>1. Now = "drop" /\ todo # <<>> /\ Doing /\ writer = "word"
  BY Stands DEF IInv, Drop, At, Now, First, Doers, Undoers
<1>2. Follows(Now) = "end" /\ Backs(Now) = "restore"
  BY <1>1 DEF Follows, Backs
<1>3. /\ UNCHANGED unchanging /\ (todo' = <<>> <=> Now' = "end")
      /\ UNCHANGED <<disk, tmp, app, loaded, errs, wasOpen>>
      /\ \/ /\ backup' = Absent /\ faulted' = faulted
            /\ Now' = "end" /\ reply' = "ok"
         \/ /\ backup' = backup /\ faulted' = faulted \cup {"drop"}
            /\ Now' = "restore" /\ reply' = "error"
  BY <1>1, <1>2, StepEnds DEF IInv, Drop, Proceeds, Retreats
<1>4. TypeOK'
  BY <1>3 DEF IInv, TypeOK
<1>5. OnPath'
  BY <1>1, StepEnds DEF IInv, Drop, OnPath
<1>6. AppHolds'
  BY <1>3 DEF IInv, AppHolds
<1>7. LoadedHas'
  BY <1>1, <1>3 DEF IInv, LoadedHas, AppHolds, Has, Shown
<1>8. CopyKept'
  BY <1>1, <1>3 DEF IInv, CopyKept
<1>9. Unchanged'
  BY <1>1, <1>3 DEF IInv, Unchanged
<1>10. EditsKept'
  BY <1>1, <1>3, Files DEF IInv, EditsKept
<1>11. Reopens'
  BY <1>1, <1>3 DEF IInv, Reopens, OnPath, ClosedIsReopened
<1> QED
  BY <1>4, <1>5, <1>6, <1>7, <1>8, <1>9, <1>10, <1>11 DEF IInv

LEMMA TidyKeeps ==
  ASSUME IInv, Tidy PROVE IInv'
<1>1. /\ Now = "tidy" /\ todo # <<>> /\ Doing
      /\ writer \in {"docx", "xlsx", "pptx"}
  BY Stands DEF IInv, Tidy, At, Now, First, Doers, Undoers
<1>2. Follows(Now) = "end"
  BY <1>1 DEF Follows
<1>3. /\ UNCHANGED unchanging /\ (todo' = <<>> <=> Now' = "end")
      /\ UNCHANGED <<disk, tmp, app, loaded, errs, wasOpen>>
      /\ backup' \in {backup, Absent}
      /\ faulted' \in {faulted, faulted \cup {"tidy"}}
      /\ Now' = "end" /\ reply' = "ok"
  BY <1>1, <1>2, StepEnds DEF IInv, Tidy, Proceeds
<1>4. TypeOK'
  BY <1>3 DEF IInv, TypeOK
<1>5. OnPath'
  BY <1>3 DEF IInv, OnPath
<1>6. AppHolds'
  BY <1>3 DEF IInv, AppHolds
<1>7. LoadedHas'
  BY <1>1, <1>3 DEF IInv, LoadedHas, AppHolds, Has, Shown
<1>8. CopyKept'
  BY <1>1, <1>3 DEF IInv, CopyKept
<1>9. Unchanged'
  BY <1>3 DEF Unchanged
<1>10. EditsKept'
  BY <1>1, <1>3 DEF EditsKept
<1>11. Reopens'
  BY <1>1, <1>3 DEF IInv, Reopens, OnPath, ClosedIsReopened
<1> QED
  BY <1>4, <1>5, <1>6, <1>7, <1>8, <1>9, <1>10, <1>11 DEF IInv

LEMMA RestoreKeeps ==
  ASSUME IInv, Restore PROVE IInv'
<1>1. /\ Now = "restore" /\ todo # <<>> /\ Undoing
      /\ writer \in {"docx", "word", "xlsx", "pptx"}
  BY Stands DEF IInv, Restore, At, Now, First, Doers, Undoers
<1>2. FollowsUndoing(Now) = (IF writer = "word" THEN "untmp"
                              ELSE IF writer = "xlsx" THEN "end" ELSE "unback")
  BY <1>1 DEF FollowsUndoing
<1>3. /\ UNCHANGED unchanging /\ (todo' = <<>> <=> Now' = "end")
      /\ UNCHANGED <<tmp, app, loaded, errs, wasOpen>>
      /\ reply' = "error" /\ Now' = FollowsUndoing(Now)
      /\ \/ /\ backup # Absent /\ ~Open /\ disk' = backup /\ faulted' = faulted
            /\ backup' = (IF writer = "word" THEN Absent ELSE backup)
         \/ /\ (backup = Absent \/ Open) /\ faulted' = faulted
            /\ UNCHANGED <<disk, backup>>
         \/ /\ backup # Absent /\ ~Open /\ disk' \in {disk, backup, Torn}
            /\ faulted' = faulted \cup {"restore"} /\ backup' = backup
  BY <1>1, StepEnds DEF IInv, Restore, Proceeds
<1>4. TypeOK'
  BY <1>3 DEF IInv, TypeOK
<1>5. OnPath'
  BY <1>1, <1>3, StepEnds DEF IInv, Restore, OnPath
<1>6. AppHolds'
  BY <1>3 DEF IInv, AppHolds
<1>7. LoadedHas'
  BY <1>3 DEF LoadedHas, Answered
<1>8. CopyKept'
  BY <1>1, <1>2, <1>3 DEF IInv, CopyKept
<1>9. Unchanged'
  BY <1>1, <1>2, <1>3, Files DEF IInv, Unchanged
<1>10. EditsKept'
  BY <1>1, <1>2, <1>3, Files DEF IInv, EditsKept
<1>11. Reopens'
  BY <1>1, <1>3 DEF IInv, Reopens, OnPath, ClosedIsReopened
<1> QED
  BY <1>4, <1>5, <1>6, <1>7, <1>8, <1>9, <1>10, <1>11 DEF IInv

LEMMA UnbackKeeps ==
  ASSUME IInv, Unback PROVE IInv'
<1>1. Now = "unback" /\ todo # <<>> /\ Undoing /\ writer \in {"docx", "pptx"}
  BY Stands DEF IInv, Unback, At, Now, First, Doers, Undoers
<1>2. FollowsUndoing(Now) = "untmp"
  BY <1>1 DEF FollowsUndoing
<1>3. /\ UNCHANGED unchanging /\ (todo' = <<>> <=> Now' = "end")
      /\ UNCHANGED <<disk, tmp, app, loaded, errs, wasOpen>>
      /\ reply' = "error" /\ Now' = "untmp"
      /\ backup' \in {backup, Absent}
      /\ faulted' \in {faulted, faulted \cup {"unback"}}
  BY <1>1, <1>2, StepEnds DEF IInv, Unback, Proceeds
<1>4. TypeOK'
  BY <1>3 DEF IInv, TypeOK
<1>5. OnPath'
  BY <1>1, <1>3, StepEnds DEF IInv, Unback, OnPath
<1>6. AppHolds'
  BY <1>3 DEF IInv, AppHolds
<1>7. LoadedHas'
  BY <1>3 DEF LoadedHas, Answered
<1>8. CopyKept'
  BY <1>1, <1>3 DEF IInv, CopyKept
<1>9. Unchanged'
  BY <1>1, <1>3 DEF IInv, Unchanged
<1>10. EditsKept'
  BY <1>1, <1>3 DEF EditsKept
<1>11. Reopens'
  BY <1>3 DEF Reopens, ClosedIsReopened
<1> QED
  BY <1>4, <1>5, <1>6, <1>7, <1>8, <1>9, <1>10, <1>11 DEF IInv

LEMMA UntmpKeeps ==
  ASSUME IInv, Untmp PROVE IInv'
<1>1. /\ Now = "untmp" /\ todo # <<>> /\ Undoing
      /\ writer \in {"docx", "word", "xlsx", "pptx"}
  BY Stands DEF IInv, Untmp, At, Now, First, Doers, Undoers
<1>2. FollowsUndoing(Now) = IF writer = "xlsx" THEN "restore" ELSE "end"
  BY <1>1 DEF FollowsUndoing
<1>3. /\ UNCHANGED unchanging /\ (todo' = <<>> <=> Now' = "end")
      /\ UNCHANGED <<disk, backup, app, loaded, errs, wasOpen>>
      /\ reply' = "error" /\ Now' = FollowsUndoing(Now)
      /\ tmp' \in {tmp, Absent}
      /\ faulted' \in {faulted, faulted \cup {"untmp"}}
  BY <1>1, StepEnds DEF IInv, Untmp, Proceeds
<1>4. TypeOK'
  BY <1>3 DEF IInv, TypeOK
<1>5. OnPath'
  BY <1>1, <1>3, StepEnds DEF IInv, Untmp, OnPath
<1>6. AppHolds'
  BY <1>3 DEF IInv, AppHolds
<1>7. LoadedHas'
  BY <1>3 DEF LoadedHas, Answered
<1>8. CopyKept'
  BY <1>1, <1>2, <1>3 DEF IInv, CopyKept
<1>9. Unchanged'
  BY <1>1, <1>2, <1>3 DEF IInv, Unchanged
<1>10. EditsKept'
  BY <1>1, <1>2, <1>3 DEF IInv, EditsKept
<1>11. Reopens'
  BY <1>1, <1>3 DEF IInv, Reopens, OnPath, ClosedIsReopened
<1> QED
  BY <1>4, <1>5, <1>6, <1>7, <1>8, <1>9, <1>10, <1>11 DEF IInv

LEMMA LeaseKeeps ==
  ASSUME IInv, Lease PROVE IInv'
<1>1. Now = "lease" /\ todo # <<>> /\ Doing /\ writer = "leased"
  BY Stands DEF IInv, Lease, At, Now, First, Doers, Undoers
<1>2. Follows(Now) = "load"
  BY <1>1 DEF Follows
<1>3. /\ UNCHANGED unchanging /\ (todo' = <<>> <=> Now' = "end")
      /\ UNCHANGED <<backup, tmp, loaded, errs>>
      /\ wasOpen' = Open /\ Now' = "load" /\ reply' = "none"
      /\ \/ Open /\ disk' = app /\ app' = Absent /\ faulted' = faulted
         \/ ~Open /\ UNCHANGED <<disk, app>> /\ faulted' = faulted
         \/ /\ Open /\ disk' \in {disk, app} /\ app' = app
            /\ faulted' = faulted \cup {"lease"}
  BY <1>1, <1>2, StepEnds DEF IInv, Lease, Proceeds
<1>4. TypeOK'
  BY <1>3 DEF IInv, TypeOK
<1>5. OnPath'
  BY <1>1, StepEnds DEF IInv, Lease, OnPath
<1>6. AppHolds'
  BY <1>3 DEF IInv, AppHolds
<1>7. LoadedHas'
  BY <1>1, <1>3 DEF IInv, LoadedHas, AppHolds, Answered
<1>8. CopyKept'
  BY <1>1, <1>3 DEF CopyKept
<1>9. Unchanged'
  BY <1>1, <1>3 DEF Unchanged
<1>10. EditsKept'
  BY <1>1, <1>3 DEF EditsKept
<1>11. Reopens'
  BY <1>3 DEF Reopens, ClosedIsReopened
<1> QED
  BY <1>4, <1>5, <1>6, <1>7, <1>8, <1>9, <1>10, <1>11 DEF IInv

LEMMA PutKeeps ==
  ASSUME IInv, Put PROVE IInv'
<1>1. Now = "put" /\ todo # <<>> /\ Doing /\ writer = "leased"
  BY Stands DEF IInv, Put, At, Now, First, Doers, Undoers
<1>2. Follows(Now) = "reopen" /\ Backs(Now) = "reopen"
  BY <1>1 DEF Follows, Backs
<1>3. /\ UNCHANGED unchanging /\ (todo' = <<>> <=> Now' = "end")
      /\ UNCHANGED <<backup, tmp, loaded, errs, wasOpen>>
      /\ app' = Absent /\ Now' = "reopen"
      /\ \/ disk' = loaded /\ faulted' = faulted /\ reply' = "none"
         \/ /\ disk' \in {disk, Torn} /\ faulted' = faulted \cup {"put"}
            /\ reply' = "error"
  BY <1>1, <1>2, StepEnds DEF IInv, Put, Proceeds, Retreats
<1>4. TypeOK'
  BY <1>3 DEF IInv, TypeOK
<1>5. OnPath'
  BY <1>1, StepEnds DEF IInv, Put, OnPath
<1>6. AppHolds'
  BY <1>3 DEF AppHolds
<1>7. LoadedHas'
  BY <1>1, <1>3 DEF IInv, LoadedHas, Has, Answered
<1>8. CopyKept'
  BY <1>1, <1>3 DEF CopyKept
<1>9. Unchanged'
  BY <1>1, <1>3 DEF Unchanged
<1>10. EditsKept'
  BY <1>1, <1>3 DEF EditsKept
<1>11. Reopens'
  BY <1>3 DEF Reopens, ClosedIsReopened
<1> QED
  BY <1>4, <1>5, <1>6, <1>7, <1>8, <1>9, <1>10, <1>11 DEF IInv

LEMMA ReopenKeeps ==
  ASSUME IInv, Reopen PROVE IInv'
<1>1. Now = "reopen" /\ todo # <<>> /\ (Doing \/ Undoing) /\ writer = "leased"
  BY Stands DEF IInv, Reopen, At, Now, First, Doers, Undoers
<1>2. Follows(Now) = "end" /\ FollowsUndoing(Now) = "end"
  BY <1>1 DEF Follows, FollowsUndoing
<1>3. /\ UNCHANGED unchanging /\ (todo' = <<>> <=> Now' = "end")
      /\ UNCHANGED <<files, loaded, errs, wasOpen>>
      /\ Now' = "end" /\ reply' = (IF reply = "none" THEN "ok" ELSE reply)
      /\ \/ /\ app' = (IF wasOpen /\ ~Open /\ Whole(disk) THEN disk ELSE app)
            /\ faulted' = faulted
         \/ app' = app /\ faulted' = faulted \cup {"reopen"}
  BY <1>1, <1>2, StepEnds DEF IInv, Reopen, Proceeds
<1>4. TypeOK'
  BY <1>3, Files DEF IInv, TypeOK
<1>5. OnPath'
  BY <1>1, <1>3 DEF OnPath
<1>6. AppHolds'
  BY <1>3 DEF IInv, AppHolds
<1>7. LoadedHas'
  BY <1>1, <1>3 DEF IInv, LoadedHas, AppHolds, Has, Shown, Answered
<1>8. CopyKept'
  BY <1>1, <1>3 DEF CopyKept
<1>9. Unchanged'
  BY <1>1, <1>3 DEF Unchanged
<1>10. EditsKept'
  BY <1>1, <1>3 DEF EditsKept
<1>11. Reopens'
  BY <1>3, Files DEF IInv, Reopens, ClosedIsReopened
<1> QED
  BY <1>4, <1>5, <1>6, <1>7, <1>8, <1>9, <1>10, <1>11 DEF IInv

\* The first step of every writer.
LEMMA Starts ==
  ASSUME TypeOK
  PROVE  LET s == Of(writer).steps
         IN /\ s # <<>> /\ s \in Suffixes(writer)
            /\ Head(s) = CASE writer = "word" -> "agent"
                           [] writer \in {"docx", "excel"} -> "com"
                           [] writer = "leased" -> "lease"
                           [] OTHER -> "copy"
<1> DEFINE s == Of(writer).steps
<1>1. writer \in Kinds
  BY WritesAssumption DEF TypeOK
<1>2. s \in Seq(Steps)
  BY <1>1, LineIs
<1>3. Len(s) >= 1 /\ s[1] = CASE writer = "word" -> "agent"
                              [] writer \in {"docx", "excel"} -> "com"
                              [] writer = "leased" -> "lease"
                              [] OTHER -> "copy"
  <2>1. CASE writer = "docx"
    BY <2>1 DEF Of, docx
  <2>2. CASE writer = "word"
    BY <2>2 DEF Of, word
  <2>3. CASE writer = "xlsx"
    BY <2>3 DEF Of, xlsx
  <2>4. CASE writer = "pptx"
    BY <2>4 DEF Of, pptx
  <2>5. CASE writer = "excel"
    BY <2>5 DEF Of, excel
  <2>6. CASE writer = "leased"
    BY <2>6 DEF Of, leased
  <2> QED
    BY <1>1, <2>1, <2>2, <2>3, <2>4, <2>5, <2>6 DEF Kinds
<1>4. s = SubSeq(s, 1, Len(s)) /\ 1 \in DOMAIN s
  BY <1>2, <1>3
<1> QED
  BY <1>3, <1>4 DEF Suffixes

LEMMA ReceiveKeeps ==
  ASSUME IInv, Receive PROVE IInv'
<1>1. /\ todo' # <<>> /\ todo' \in Suffixes(writer) /\ reply' = "none"
      /\ Now' = CASE writer = "word" -> "agent"
                  [] writer \in {"docx", "excel"} -> "com"
                  [] writer = "leased" -> "lease"
                  [] OTHER -> "copy"
  BY Starts DEF IInv, Receive, Now, First
<1>2. /\ writer' = writer /\ faulted' = {} /\ wasOpen' = FALSE
      /\ found' = disk /\ moved' = FALSE /\ errs' = FALSE
      /\ UNCHANGED <<disk, backup, tmp, app, loaded, typed, crashes>>
      /\ writes' = writes + 1
  BY DEF Receive
<1>3. TypeOK'
  <2>1. errs' \in BOOLEAN /\ wasOpen' \in BOOLEAN /\ moved' \in BOOLEAN
    BY <1>2, Zenon
  <2> QED
    BY <1>1, <1>2, <2>1 DEF IInv, TypeOK
<1>4. OnPath'
  <2> QED
    BY <1>1, <1>2 DEF OnPath
<1>5. AppHolds'
  BY <1>2 DEF IInv, AppHolds
<1>6. LoadedHas'
  BY <1>1, <1>2 DEF LoadedHas, Answered
<1>7. CopyKept'
  BY <1>1, <1>2 DEF CopyKept
<1>8. Unchanged'
  BY <1>1, <1>2 DEF Unchanged
<1>9. EditsKept'
  BY <1>1, <1>2 DEF EditsKept
<1>10. Reopens'
  BY <1>1 DEF Reopens, ClosedIsReopened
<1> QED
  BY <1>3, <1>4, <1>5, <1>6, <1>7, <1>8, <1>9, <1>10 DEF IInv

LEMMA CrashKeeps ==
  ASSUME IInv, Crash PROVE IInv'
<1>1. /\ todo' = <<>> /\ reply' = "none" /\ todo # <<>>
      /\ UNCHANGED <<writer, loaded, errs, wasOpen, writes, typed, found, moved,
                     faulted>>
      /\ crashes' = crashes + 1
      /\ tmp' \in {tmp, Torn}
  BY DEF Crash
<1>2. Now = Head(todo) /\ (Doing \/ Undoing)
  BY <1>1, Stands DEF IInv, Now, First
<1>3. \/ UNCHANGED <<disk, app, backup>>
      \/ UNCHANGED <<disk, app>> /\ Now = "copy" /\ backup' = Torn
      \/ Now = "put" /\ disk' = Torn /\ app' = Absent /\ backup' = backup
      \/ /\ Now = "restore" /\ ~Open /\ disk' = Torn
         /\ UNCHANGED <<app, backup>>
  BY <1>2 DEF Crash, At
<1>4. TypeOK'
  BY <1>1, <1>3 DEF IInv, TypeOK
<1>5. OnPath'
  BY <1>1 DEF IInv, OnPath
<1>6. AppHolds'
  BY <1>3 DEF IInv, AppHolds
<1>7. LoadedHas'
  BY <1>1 DEF LoadedHas, Answered
<1>8. CopyKept'
  <2>1. Now = "put" => writer = "leased"
    BY Stands DEF IInv, Doers, Undoers
  <2>2. Now = "copy" => Doing
    BY Stands DEF IInv, Undoers
  <2>3. Now = "restore" => Undoing
    BY Stands DEF IInv, Doers
  <2> QED
    BY <1>1, <1>3, <2>1, <2>2, <2>3 DEF IInv, CopyKept
<1>9. Unchanged'
  BY <1>1 DEF Unchanged
<1>10. EditsKept'
  <2> QED
    BY <1>1, <1>3, Files DEF IInv, EditsKept
<1>11. Reopens'
  BY <1>1 DEF Reopens, ClosedIsReopened
<1> QED
  BY <1>4, <1>5, <1>6, <1>7, <1>8, <1>9, <1>10, <1>11 DEF IInv

\* The application opens, saves or closes the document.
LEMMA UserKeeps ==
  ASSUME IInv, UserOpens \/ UserSaves \/ UserCloses PROVE IInv'
<1>1. /\ moved' = TRUE
      /\ UNCHANGED <<writer, backup, tmp, todo, loaded, errs, wasOpen, reply,
                     writes, typed, crashes, found, faulted>>
      /\ \/ ~Open /\ Whole(disk) /\ app' = disk /\ disk' = disk
         \/ Open /\ app' = app /\ disk' = app
         \/ Open /\ app = disk /\ app' = Absent /\ disk' = disk
  BY DEF UserOpens, UserSaves, UserCloses, Uses
<1>2. Now' = Now /\ Suffixes(writer)' = Suffixes(writer) /\ Undoings' = Undoings
  BY <1>1 DEF Now, Undoings
<1>3. TypeOK'
  BY <1>1, Files DEF IInv, TypeOK
<1>4. OnPath'
  BY <1>1, <1>2 DEF IInv, OnPath
<1>5. AppHolds'
  BY <1>1 DEF IInv, AppHolds
<1>6. LoadedHas'
  BY <1>1, <1>2 DEF IInv, LoadedHas, AppHolds, Has, Shown, Answered
<1>7. CopyKept'
  BY <1>1, <1>2, Files DEF IInv, CopyKept
<1>8. Unchanged' /\ EditsKept' /\ Reopens'
  BY <1>1 DEF Unchanged, EditsKept, Reopens, ClosedIsReopened
<1> QED
  BY <1>3, <1>4, <1>5, <1>6, <1>7, <1>8 DEF IInv

LEMMA TypesKeeps ==
  ASSUME IInv, UserTypes PROVE IInv'
<1>1. /\ Open /\ typed' = typed + 1 /\ app' = Append(app, -typed')
      /\ UNCHANGED <<writer, disk, backup, tmp, todo, loaded, errs, wasOpen,
                     reply, writes, crashes, found, moved, faulted>>
  BY DEF UserTypes
<1>2. Now' = Now /\ Suffixes(writer)' = Suffixes(writer) /\ Undoings' = Undoings
  BY <1>1 DEF Now, Undoings
<1>3. /\ app' \in Seq(Int) /\ Range(app) \subseteq Range(app')
      /\ app' # Absent /\ Whole(app')
  <2>1. app \in Seq(Int) /\ typed + 1 \in Nat /\ -(typed + 1) \in Int
    BY <1>1 DEF IInv, TypeOK
  <2>2. /\ app' \in Seq(Int)
        /\ Range(app') = Range(app) \cup {-(typed + 1)}
    BY <1>1, <2>1, Appends
  <2> QED
    BY <2>2, WritesAssumption DEF Whole
<1>4. TypeOK'
  BY <1>1 DEF IInv, TypeOK
<1>5. OnPath'
  BY <1>1, <1>2 DEF IInv, OnPath
<1>6. AppHolds'
  BY <1>1, <1>3 DEF IInv, AppHolds
<1>7. LoadedHas'
  BY <1>1, <1>2, <1>3 DEF IInv, LoadedHas, Has, Shown, Answered
<1>8. CopyKept'
  BY <1>1, <1>2 DEF IInv, CopyKept
<1>9. Unchanged'
  BY <1>1, <1>2, <1>3 DEF IInv, Unchanged
<1>10. EditsKept'
  BY <1>1, <1>2 DEF IInv, EditsKept, Applied
<1>11. Reopens'
  BY <1>3 DEF Reopens, ClosedIsReopened
<1> QED
  BY <1>4, <1>5, <1>6, <1>7, <1>8, <1>9, <1>10, <1>11 DEF IInv

-----------------------------------------------------------------------------
(* The theorems. *)

LEMMA InitKeeps == Init => IInv
<1> SUFFICES ASSUME Init PROVE IInv
  OBVIOUS
<1>1. TypeOK
  <2>1. errs \in BOOLEAN /\ wasOpen \in BOOLEAN /\ moved \in BOOLEAN
    BY Zenon DEF Init
  <2> QED
    BY <2>1 DEF Init, TypeOK
<1>2. OnPath /\ AppHolds
  BY DEF Init, OnPath, AppHolds
<1>3. LoadedHas
  BY DEF Init, LoadedHas, Answered
<1>4. CopyKept /\ Unchanged /\ EditsKept /\ Reopens
  BY DEF Init, CopyKept, Unchanged, EditsKept, Reopens, ClosedIsReopened
<1> QED
  BY <1>1, <1>2, <1>3, <1>4 DEF IInv

LEMMA NextKeeps == IInv /\ [Next]_vars => IInv'
<1> SUFFICES ASSUME IInv, [Next]_vars PROVE IInv'
  OBVIOUS
<1>1. CASE Receive
  BY <1>1, ReceiveKeeps
<1>2. CASE Step
  BY <1>2, AgentKeeps, ComKeeps, CleanKeeps, CopyKeeps, LoadKeeps, SaveKeeps,
     ReplaceKeeps, DropKeeps, TidyKeeps, RestoreKeeps, UnbackKeeps, UntmpKeeps,
     LeaseKeeps, PutKeeps, ReopenKeeps DEF Step
<1>3. CASE Crash
  BY <1>3, CrashKeeps
<1>4. CASE UserOpens \/ UserSaves \/ UserCloses
  BY <1>4, UserKeeps
<1>5. CASE UserTypes
  BY <1>5, TypesKeeps
<1>6. CASE UNCHANGED vars
  <2>1. UNCHANGED <<writer, disk, backup, tmp, app, todo, loaded, errs, wasOpen,
                    reply, writes, typed, crashes, found, moved, faulted>>
    BY <1>6 DEF vars
  <2>2. /\ Now' = Now /\ Undoings' = Undoings
        /\ Suffixes(writer)' = Suffixes(writer)
    BY <2>1 DEF Now, Undoings
  <2>3. TypeOK' /\ OnPath' /\ AppHolds'
    BY <2>1, <2>2 DEF IInv, TypeOK, OnPath, AppHolds
  <2>4. LoadedHas' /\ CopyKept'
    BY <2>1, <2>2 DEF IInv, LoadedHas, CopyKept, Has, Shown, Answered
  <2>5. Unchanged' /\ EditsKept' /\ Reopens'
    BY <2>1, <2>2 DEF IInv, Unchanged, EditsKept, Reopens, Applied,
       ClosedIsReopened
  <2> QED
    BY <2>3, <2>4, <2>5 DEF IInv
<1> QED
  BY <1>1, <1>2, <1>3, <1>4, <1>5, <1>6 DEF Next

\* The invariant holds in every state that can be reached.
LEMMA InvariantHolds == Spec => []IInv
BY InitKeeps, NextKeeps, PTL DEF Spec

\* Type correctness: whatever fails, a document is a version or torn, and what
\* the application has is a version.
THEOREM TypeCorrect == Spec => []TypeOK
<1>1. IInv => TypeOK
  BY DEF IInv
<1> QED
  BY <1>1, InvariantHolds, PTL

\* An answer of success means that the document has all that was in the file
\* when the request came, and the operations if none failed.
THEOREM SuccessIsWritten == Spec => []OkMeansWritten
<1>1. IInv => OkMeansWritten
  BY DEF IInv, LoadedHas, Has, OkMeansWritten
<1> QED
  BY <1>1, InvariantHolds, PTL

\* An answer of failure means that the file is as it was, when nothing else
\* touched the document and the restoration worked.
THEOREM FailureIsUndone == Spec => []ErrorMeansUnchanged
<1>1. IInv => ErrorMeansUnchanged
  BY DEF IInv, Unchanged, ErrorMeansUnchanged, Answered
<1> QED
  BY <1>1, InvariantHolds, PTL

\* Whatever fails and wherever the sidecar dies, a document found whole
\* remains, in its file or in the backup.
THEOREM DocumentIsKept == Spec => []LastCopyKept
<1>1. IInv => LastCopyKept
  BY DEF IInv, CopyKept, LastCopyKept
<1> QED
  BY <1>1, InvariantHolds, PTL

\* The workbook that the lease closed is open again when the answer comes.
THEOREM LeaseEnds == Spec => []ClosedIsReopened
<1>1. IInv => ClosedIsReopened
  BY DEF IInv, Reopens
<1> QED
  BY <1>1, InvariantHolds, PTL

\* What WorkKept says of a step.
WorkStep ==
  /\ ~moved' /\ "lease" \notin faulted'
  /\ ~({"clean", "copy"} \subseteq faulted') /\ Whole(Shown')
  => Edits(Shown) \subseteq Edits(Shown')

\* What the invariant gives of it before a step of the writer.
LEMMA WorkBefore ==
  ASSUME IInv, Step, ~moved', "lease" \notin faulted',
         ~({"clean", "copy"} \subseteq faulted')
  PROVE  /\ ~moved /\ "lease" \notin faulted
         /\ ~({"clean", "copy"} \subseteq faulted)
         /\ todo # <<>> /\ Now = Head(todo)
<1>1. moved' = moved /\ faulted \subseteq faulted' /\ todo # <<>>
  BY DEF Step, Agent, Com, Clean, Copy, Load, Save, Replace, Drop, Tidy,
     Restore, Unback, Untmp, Lease, Put, Reopen, At, Done, Give, Failed, Fails,
     Ignored
<1> QED
  BY <1>1 DEF Now, First

LEMMA NextKeepsWork == IInv /\ [Next]_vars => [WorkStep]_vars
<1> SUFFICES ASSUME IInv, Next, ~moved', "lease" \notin faulted',
                    ~({"clean", "copy"} \subseteq faulted'), Whole(Shown')
             PROVE  Edits(Shown) \subseteq Edits(Shown')
  BY DEF WorkStep
<1>1. CASE UNCHANGED <<disk, app>>
  BY <1>1 DEF Shown
<1>2. CASE Receive
  BY <1>1, <1>2 DEF Receive
<1>3. CASE Clean \/ Copy \/ Load \/ Save \/ Drop \/ Tidy \/ Unback \/ Untmp
  BY <1>1, <1>3 DEF Clean, Copy, Load, Save, Drop, Tidy, Unback, Untmp
<1>4. CASE Agent \/ Com
  <2>1. \/ UNCHANGED app /\ Open
        \/ Open /\ app' \in Applied(app, TRUE)
        \/ UNCHANGED <<disk, app>>
    BY <1>4 DEF Agent, Com, Applied
  <2>2. CASE UNCHANGED app /\ Open
    BY <2>2 DEF Shown
  <2>3. CASE Open /\ app' \in Applied(app, TRUE)
    BY <2>3, Files, AppliedHas DEF IInv, Shown
  <2> QED
    BY <1>1, <2>1, <2>2, <2>3
<1>5. CASE Replace
  <2>1. CASE ~Open /\ disk' = tmp /\ app' = app
    <3>1. Now = "replace" /\ Doing
      BY <1>5, WorkBefore, Stands DEF IInv, Step, Replace, At, Undoers
    <3>2. /\ tmp = loaded /\ Whole(disk) /\ loaded \in Applied(disk, TRUE)
      BY <1>5, <3>1, WorkBefore DEF IInv, LoadedHas, EditsKept, Step
    <3> QED
      BY <2>1, <3>2, AppliedHas DEF IInv, Shown
  <2> QED
    BY <1>1, <1>5, <2>1 DEF Replace
<1>6. CASE Restore
  <2>1. CASE ~Open /\ disk' \in {disk, backup, Torn} /\ app' = app
    <3>1. Now = "restore" /\ Undoing
      BY <1>6, WorkBefore, Stands DEF IInv, Step, Restore, At, Doers
    <3>2. Whole(backup) => Edits(disk) \subseteq Edits(backup)
      BY <1>6, <3>1, WorkBefore DEF IInv, EditsKept, Step
    <3> QED
      BY <2>1, <3>2, Files DEF IInv, Shown
  <2> QED
    BY <1>1, <1>6, <2>1 DEF Restore
<1>7. CASE Lease
  <2>1. CASE Open /\ disk' = app /\ app' = Absent
    BY <2>1 DEF Shown
  <2>2. CASE Ignored
    BY <1>7, <2>2 DEF Lease, At, Ignored
  <2> QED
    BY <1>1, <1>7, <2>1, <2>2 DEF Lease
<1>8. CASE Put
  <2>1. Now = "put" /\ Doing /\ writer = "leased"
    BY <1>8, WorkBefore, Stands DEF IInv, Step, Put, At, Undoers, Doers
  <2>2. ~Open /\ Whole(disk) /\ loaded \in Applied(disk, TRUE)
    BY <1>8, <2>1, WorkBefore DEF IInv, EditsKept, Step
  <2>3. app' = Absent /\ disk' \in {disk, loaded, Torn}
    BY <1>8 DEF Put
  <2> QED
    BY <2>2, <2>3, Files, AppliedHas DEF IInv, Shown
<1>9. CASE Reopen
  <2>1. UNCHANGED disk /\ (app' = app \/ (~Open /\ app' = disk))
    BY <1>9 DEF Reopen
  <2> QED
    BY <2>1 DEF Shown
<1>10. CASE Crash
  <2>1. CASE app' = Absent /\ disk' = Torn
    BY <2>1, Files DEF IInv, Shown
  <2> QED
    BY <1>1, <1>10, <2>1 DEF Crash
<1>11. CASE UserOpens \/ UserSaves \/ UserCloses
  BY <1>11 DEF UserOpens, UserSaves, UserCloses, Uses
<1>12. CASE UserTypes
  <2>1. Open /\ app' = Append(app, -typed') /\ typed' = typed + 1
    BY <1>12 DEF UserTypes
  <2>2. app \in Seq(Int) /\ -(typed + 1) \in Int
    BY <2>1, Files DEF IInv, TypeOK
  <2>3. app' \in Seq(Int) /\ Edits(app) \subseteq Edits(app')
    BY <2>1, <2>2, Appends
  <2>4. app' # Absent
    BY <2>3, WritesAssumption
  <2> QED
    BY <2>1, <2>3, <2>4 DEF Shown
<1> QED
  BY <1>2, <1>3, <1>4, <1>5, <1>6, <1>7, <1>8, <1>9, <1>10, <1>11, <1>12 DEF
     Next, Step

\* No step of the sidecar takes an edit of the user away, but for the cases
\* that WorkKept names.
THEOREM EditsAreKept == Spec => WorkKept
<1>1. IInv /\ [Next]_vars => [WorkStep]_vars
  BY NextKeepsWork
<1> QED
  BY <1>1, InvariantHolds, PTL DEF Spec, WorkKept, WorkStep
==============================================================================
