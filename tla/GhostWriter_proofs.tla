-------------------------- MODULE GhostWriter_proofs --------------------------
(***************************************************************************)
(* Proofs about the ghost-writing session, for every set of windows,       *)
(* commands and answers, and every bound.                                  *)
(***************************************************************************)
EXTENDS GhostWriter, SequenceTheorems, TLAPS

-----------------------------------------------------------------------------
(* Types *)

LEMMA NoPlanTyped == NoPlan \in Plans
<1>1. NoLine \in Lines /\ Clean(NoLine) = NoLine
  BY DEF Lines, NoLine, Clean
<1> QED
  BY <1>1 DEF NoPlan, Plans, Ids

LEMMA IdleTyped == ASSUME NEW n \in Ids PROVE Idle(n) \in Locals
<1>1. SomeWindow \in Windows
  BY ConstantsAssumption DEF SomeWindow, ConstantsAssumption
<1>2. NoLine \in Lines
  BY DEF Lines
<1>3. NoPlan \in Plans
  BY NoPlanTyped
<1>4. Empty \in Texts
  BY DEF Empty, Texts
<1> QED
  BY <1>1, <1>2, <1>3, <1>4 DEF Idle, Locals, Writers

\* Slashes are stripped once and for all.
LEMMA CleanTyped ==
  ASSUME NEW p \in Lines \cup {Clean(l) : l \in Lines}
  PROVE  Clean(p) \in {Clean(l) : l \in Lines}
<1>1. CASE p \in Lines
  BY <1>1
<1>2. ASSUME NEW l \in Lines, p = Clean(l)
      PROVE  Clean(p) = Clean(l)
  BY <1>2 DEF Clean
<1> QED
  BY <1>1, <1>2

LEMMA WriteTyped ==
  ASSUME docs \in [Windows -> Seq(Marks)], NEW w \in Windows, NEW m \in Marks,
         Write(w, m)
  PROVE  docs' \in [Windows -> Seq(Marks)]
<1>1. Append(docs[w], m) \in Seq(Marks)
  BY AppendProperties
<1> QED
  BY <1>1 DEF Write

LEMMA MarkTyped ==
  ASSUME NEW c \in Contents, NEW via \in {"paste", "file", "again"}
  PROVE  Mark(c, via) \in Marks
BY DEF Contents, Marks, Mark

LEMMA SetClipTyped ==
  ASSUME clip \in Contents, NEW c \in Contents, SetClip(c)
  PROVE  clip' \in Contents
BY DEF SetClip

LEMMA UsersClipTyped == UsersClip \in Contents
BY DEF UsersClip, Contents, Empty, Texts, Ids

LEMMA LogTyped ==
  ASSUME TypeOK, NEW e \in {"Blocked", "Started", "Completed"}, Log(e)
  PROVE  audit' \in Seq(Entries)
<1>1. [e |-> e, s |-> ses.n] \in Entries
  BY DEF TypeOK, Locals, Entries
<1> QED
  BY <1>1, AppendProperties DEF TypeOK, Log

LEMMA DoneTyped ==
  ASSUME TypeOK, Done
  PROVE  pc' \in Places /\ ses' \in Locals
<1>1. ses.n \in Ids
  BY DEF TypeOK, Locals
<1> QED
  BY <1>1, IdleTyped DEF Done, Places

LEMMA PasteLineTyped ==
  ASSUME TypeOK, PasteLine("paste")
  PROVE  docs' \in [Windows -> Seq(Marks)] /\ line' \in [Windows -> Lines]
<1>1. Mark(clip, "paste") \in Marks
  BY MarkTyped DEF TypeOK
<1>2. docs' \in [Windows -> Seq(Marks)]
  BY <1>1, WriteTyped DEF TypeOK, PasteLine
<1>3. PlanLine \in Lines /\ NoLine \in Lines
  BY DEF Lines
<1> QED
  BY <1>2, <1>3 DEF TypeOK, PasteLine

LEMMA DecideTyped ==
  ASSUME TypeOK, NEW target \in Windows, NEW raw \in Lines, Decide(target, raw)
  PROVE  /\ pc' \in Places /\ ses' \in Locals
         /\ pending' \in Plans /\ taken' \in Seq(Ids)
<1> DEFINE stale == raw # NoLine /\ raw # pending.prompt
           active == IF stale THEN NoPlan ELSE pending
           mode == IF active = NoPlan /\ raw \in CommandLines
                   THEN Mode[raw[2]] ELSE "write"
<1>1. NoPlan \in Plans
  BY NoPlanTyped
<1>2. active \in Plans /\ active.n \in Ids
        /\ active.prompt \in {Clean(l) : l \in Lines}
  BY <1>1 DEF TypeOK, Plans
<1>3. mode \in {"write", "track", "report"}
  <2>1. ASSUME NEW c \in Cmds, raw = <<"//", c>>
        PROVE  Mode[raw[2]] \in {"write", "track", "report"}
    BY <2>1, ConstantsAssumption DEF ConstantsAssumption
  <2> QED
    BY <2>1 DEF CommandLines
<1>4. pending' \in Plans
  BY <1>1 DEF Decide, Remaining
<1>5. taken' \in Seq(Ids)
  <2>1. Append(taken, active.n) \in Seq(Ids)
    BY <1>2, AppendProperties DEF TypeOK
  <2> QED
    BY <2>1 DEF Decide, TypeOK
<1>6. ASSUME raw = NoLine /\ active = NoPlan
      PROVE  pc' \in Places /\ ses' \in Locals
  BY <1>6, DoneTyped DEF Decide
<1>7. ASSUME ~(raw = NoLine /\ active = NoPlan)
      PROVE  pc' \in Places /\ ses' \in Locals
  <2>1. ses' = [ses EXCEPT !.target = target, !.mode = mode, !.plan = active,
                  !.prompt = IF active = NoPlan THEN raw ELSE active.prompt]
    BY <1>7 DEF Decide
  <2>2. pc' \in Places
    BY <1>7 DEF Decide, Goto, Places
  <2>3. (IF active = NoPlan THEN raw ELSE active.prompt)
          \in Lines \cup {Clean(l) : l \in Lines}
    BY <1>2
  <2> HIDE DEF active, mode
  <2>4. ses' \in Locals
    BY <1>2, <1>3, <2>1, <2>3 DEF TypeOK, Locals
  <2> QED
    BY <2>2, <2>4
<1> QED
  BY <1>4, <1>5, <1>6, <1>7

LEMMA StrikeTyped ==
  ASSUME TypeOK, NEW k \in Hotkeys \cup {"tab", "esc", "letter"}, Strike(k)
  PROVE  /\ events' \in Seq(Events) /\ Len(events') <= QueueCap
         /\ skill' \in [offered : BOOLEAN, history : Ids]
         /\ acts' \in 0 .. MaxActs
<1> DEFINE s1 == IF skill.offered
                 THEN <<IF k = "tab" THEN "skillYes" ELSE "skillNo">> ELSE << >>
           s2 == IF k \in Hotkeys THEN <<k>> ELSE << >>
<1>1. s1 \in Seq(Events) /\ s2 \in Seq(Events)
  <2>1. \A e \in Events : <<e>> \in Seq(Events)
    OBVIOUS
  <2>2. "skillYes" \in Events /\ "skillNo" \in Events /\ Hotkeys \subseteq Events
    BY DEF Events
  <2>3. << >> \in Seq(Events)
    OBVIOUS
  <2> HIDE DEF Events
  <2> QED
    BY <2>1, <2>2, <2>3
<1>2. Sent(k) = s1 \o s2
  BY DEF Sent
<1> HIDE DEF s1, s2
<1>3. Sent(k) \in Seq(Events)
  BY <1>1, <1>2, ConcatProperties
<1>4. /\ events \o Sent(k) \in Seq(Events)
      /\ Len(events \o Sent(k)) = Len(events) + Len(Sent(k))
  BY <1>3, ConcatProperties DEF TypeOK
<1>5. acts + 1 \in 0 .. MaxActs
  BY ConstantsAssumption DEF ConstantsAssumption, TypeOK, Strike
<1> QED
  BY <1>4, <1>5 DEF Strike, TypeOK

LEMMA TypeInit == Init => TypeOK
<1> SUFFICES ASSUME Init
             PROVE  TypeOK
  OBVIOUS
<1>1. NoLine \in Lines /\ UsersClip \in Contents
  BY UsersClipTyped DEF Lines
<1>2. ses \in Locals /\ pending \in Plans
  BY IdleTyped, NoPlanTyped DEF Init, Ids
<1>3. [offered |-> FALSE, history |-> 0] \in [offered : BOOLEAN, history : Ids]
  BY DEF Ids
<1>4. 0 \in 0 .. MaxActs /\ 0 <= QueueCap /\ 0 <= UndoLimit
  BY ConstantsAssumption DEF ConstantsAssumption
<1> QED
  BY <1>1, <1>2, <1>3, <1>4 DEF Init, TypeOK, Places

-----------------------------------------------------------------------------
(* The user, and the loop between sessions *)

LEMMA UserTyped == TypeOK /\ User => TypeOK'
<1> SUFFICES ASSUME TypeOK, User
             PROVE  TypeOK'
  OBVIOUS
<1>1. ASSUME NEW k \in Keys, Press(k)
      PROVE  TypeOK'
  <2>1. k \in Hotkeys \cup {"tab", "esc", "letter"}
    BY ConstantsAssumption DEF ConstantsAssumption
  <2>2. Strike(k)
    BY <1>1 DEF Press
  <2>3. hwnd' \in Windows
    BY <1>1 DEF Press, TypeOK
  <2> QED
    BY <1>1, <2>1, <2>2, <2>3, StrikeTyped DEF Press, TypeOK
<1>2. ASSUME NEW l \in CommandLines \cup {NoLine}, Type(l)
      PROVE  TypeOK'
  <2>1. Strike("letter") /\ line' \in [Windows -> Lines]
    BY <1>2 DEF Type, Lines, TypeOK
  <2> QED
    BY <1>2, <2>1, StrikeTyped DEF Type, TypeOK
<1>3. ASSUME NEW w \in Windows, Switch(w)
      PROVE  TypeOK'
  <2>1. acts' \in 0 .. MaxActs
    BY <1>3, ConstantsAssumption DEF ConstantsAssumption, Switch, TypeOK
  <2> QED
    BY <1>3, <2>1 DEF Switch, screen, store, TypeOK
<1> QED
  BY <1>1, <1>2, <1>3 DEF User

LEMMA WithoutLast ==
  ASSUME NEW S, NEW s \in Seq(S), s # << >>
  PROVE  /\ SubSeq(s, 1, Len(s) - 1) \in Seq(S)
         /\ Len(SubSeq(s, 1, Len(s) - 1)) = Len(s) - 1
         /\ \A i \in 1 .. (Len(s) - 1) : SubSeq(s, 1, Len(s) - 1)[i] = s[i]
<1>1. Len(s) \in Nat \ {0}
  BY EmptySeq
<1> DEFINE m == Len(s) - 1
<1>2. m \in Nat
  BY <1>1
<1>3. \A i \in 1 .. m : s[i] \in S
  BY <1>1
<1> HIDE DEF m
<1>4. SubSeq(s, 1, m) \in Seq(S)
  BY <1>2, <1>3
<1>5. Len(SubSeq(s, 1, m)) = m
  BY <1>2, <1>3
<1>6. \A i \in 1 .. m : SubSeq(s, 1, m)[i] = s[i]
  BY <1>2, <1>3
<1> QED
  BY <1>4, <1>5, <1>6 DEF m

LEMMA UndoTyped ==
  ASSUME TypeOK, PerformUndo
  PROVE  /\ undo' \in Seq(Records) /\ Len(undo') <= UndoLimit
         /\ focus' \in Windows /\ docs' \in [Windows -> Seq(Marks)]
<1> DEFINE n == Len(undo)
           w == undo[n].w
<1>1. n \in Nat \ {0} /\ undo[n] \in Records
  <2>1. undo \in Seq(Records) /\ undo # << >>
    BY DEF TypeOK, PerformUndo
  <2>2. n # 0 /\ n \in Nat
    BY <2>1, EmptySeq
  <2> QED
    BY <2>1, <2>2, ElementOfSeq
<1>2. w \in Windows
  BY <1>1 DEF Records
<1>3. undo' \in Seq(Records) /\ Len(undo') = n - 1
  <2>1. undo \in Seq(Records) /\ undo # << >>
    BY DEF TypeOK, PerformUndo
  <2> HIDE DEF Records
  <2> QED
    BY <2>1, WithoutLast DEF PerformUndo
<1>4. Len(undo') <= UndoLimit
  BY <1>1, <1>3, ConstantsAssumption DEF ConstantsAssumption, TypeOK
<1>5. docs' \in [Windows -> Seq(Marks)]
  <2>1. CASE docs[w] = << >>
    BY <2>1 DEF PerformUndo, TypeOK
  <2>2. CASE docs[w] # << >>
    <3>1. docs[w] \in Seq(Marks)
      BY <1>2 DEF TypeOK
    <3>2. SubSeq(docs[w], 1, Len(docs[w]) - 1) \in Seq(Marks)
      BY <2>2, <3>1, WithoutLast
    <3> QED
      BY <2>2, <3>2 DEF PerformUndo, TypeOK
  <2> QED
    BY <2>1, <2>2
<1> QED
  BY <1>2, <1>3, <1>4, <1>5 DEF PerformUndo

LEMMA LoopTyped == TypeOK /\ (Receive \/ Dictate \/ SendVoice) => TypeOK'
<1> SUFFICES ASSUME TypeOK, Receive \/ Dictate \/ SendVoice
             PROVE  TypeOK'
  OBVIOUS
<1> USE DEF keyboard, screen, store, Goto
<1>1. CASE Receive
  <2>1. events # << >> /\ events' = Tail(events)
    BY <1>1 DEF Receive
  <2>2. /\ Head(events) \in Events /\ events' \in Seq(Events)
        /\ Len(events') = Len(events) - 1 /\ Len(events) \in Nat
    BY <2>1, HeadTailProperties, LenProperties DEF TypeOK
  <2>3. Len(events') <= QueueCap
    BY <2>2, ConstantsAssumption DEF ConstantsAssumption, TypeOK
  <2>4. CASE Head(events) = "hotkey" /\ UNCHANGED <<keyboard, screen, store>>
             /\ Goto("capture") /\ ses' = Idle(ses.n + 1)
    <3>1. ses.n + 1 \in Ids
      BY DEF TypeOK, Locals, Ids
    <3>2. ses' \in Locals
      BY <2>4, <3>1, IdleTyped
    <3> QED
      BY <2>2, <2>3, <2>4, <3>2 DEF TypeOK, Places
  <2>5. CASE Goto("voice") /\ UNCHANGED <<ses, keyboard, screen, store>>
    BY <2>2, <2>3, <2>5 DEF TypeOK, Places
  <2>6. CASE PerformUndo /\ UNCHANGED <<hwnd, acts, line, clip, checks, pc, ses, store>>
    BY <2>2, <2>3, <2>6, UndoTyped DEF TypeOK
  <2>7. CASE /\ skill' = [skill EXCEPT !.history = 0]
             /\ UNCHANGED <<pc, ses, keyboard, screen, pending, audit, taken>>
    <3>1. skill' \in [offered : BOOLEAN, history : Ids]
      BY <2>7 DEF TypeOK, Ids
    <3> QED
      BY <2>2, <2>3, <2>7, <3>1 DEF TypeOK
  <2>8. CASE UNCHANGED <<pc, ses, keyboard, screen, store>>
    BY <2>2, <2>3, <2>8 DEF TypeOK
  <2> QED
    BY <1>1, <2>4, <2>5, <2>6, <2>7, <2>8 DEF Receive
<1>2. CASE Dictate
  BY <1>2 DEF Dictate, TypeOK, Places
<1>3. CASE SendVoice
  <2>1. "context" \in Events /\ events \in Seq(Events)
    BY DEF TypeOK, Events
  <2>2. /\ events' \in Seq(Events) /\ Len(events') = Len(events) + 1
        /\ Len(events) \in Nat
    <3>1. events' = Append(events, "context")
      BY <1>3 DEF SendVoice
    <3> HIDE DEF Events
    <3>2. Append(events, "context") \in Seq(Events)
      BY <2>1
    <3>3. Len(Append(events, "context")) = Len(events) + 1
      BY <2>1
    <3>4. Len(events) \in Nat
      BY <2>1
    <3> QED
      BY <3>1, <3>2, <3>3, <3>4
  <2>3. Len(events') <= QueueCap
    <3>1. Len(events) < QueueCap
      BY <1>3 DEF SendVoice
    <3>2. QueueCap \in Nat
      BY ConstantsAssumption DEF ConstantsAssumption
    <3> QED
      BY <2>2, <3>1, <3>2
  <2> QED
    BY <1>3, <2>2, <2>3 DEF SendVoice, TypeOK, Places
<1> QED
  BY <1>1, <1>2, <1>3

-----------------------------------------------------------------------------
(* The session *)

LEMMA AnswerTyped == ASSUME NEW t \in Answers PROVE t \in Texts
BY ConstantsAssumption DEF ConstantsAssumption

LEMMA EmptyTyped == Empty \in Texts
BY DEF Empty, Texts

\* From the capture to the end of the planning.
LEMMA CaptureTyped ==
  ASSUME TypeOK,
         CaptureFocused \/ CaptureByClipboard \/ CopySelection \/ ReportReady
         \/ InjectReplaceLine
  PROVE  TypeOK'
<1> USE DEF keyboard, screen, store, Goto
<1>1. ASSUME NothingCaptured
      PROVE  /\ pc' \in Places /\ ses' \in Locals
             /\ pending' \in Plans /\ taken' \in Seq(Ids)
  BY <1>1, DoneTyped DEF NothingCaptured, TypeOK
<1>2. NoLine \in Lines
  BY DEF Lines
<1>3. CASE CaptureFocused
  <2>1. hwnd \in Windows /\ line[focus] \in Lines
    BY DEF TypeOK
  <2>2. /\ pc' \in Places /\ ses' \in Locals
        /\ pending' \in Plans /\ taken' \in Seq(Ids)
    BY <1>1, <1>3, <2>1, DecideTyped DEF CaptureFocused
  <2> QED
    BY <1>3, <2>2 DEF CaptureFocused, TypeOK
<1>4. CASE CaptureByClipboard
  <2>1. ses' \in Locals
    BY <1>4 DEF CaptureByClipboard, TypeOK, Locals
  <2> QED
    BY <1>4, <2>1 DEF CaptureByClipboard, TypeOK, Places
<1>5. CASE CopySelection
  <2>1. ses.target \in Windows /\ line[focus] \in Lines
    BY DEF TypeOK, Locals
  <2>2. /\ pc' \in Places /\ ses' \in Locals
        /\ pending' \in Plans /\ taken' \in Seq(Ids)
    <3>1. CASE NothingCaptured
      BY <1>1, <3>1
    <3>2. ASSUME NEW raw \in {line[focus], NoLine}, Decide(ses.target, raw)
          PROVE  /\ pc' \in Places /\ ses' \in Locals
                 /\ pending' \in Plans /\ taken' \in Seq(Ids)
      <4>1. raw \in Lines
        BY <1>2, <2>1
      <4> QED
        BY <2>1, <3>2, <4>1, DecideTyped
    <3> QED
      BY <1>5, <3>1, <3>2 DEF CopySelection
  <2>3. clip' \in Contents
    BY <1>5, UsersClipTyped DEF CopySelection, TypeOK
  <2> QED
    BY <1>5, <2>2, <2>3 DEF CopySelection, TypeOK
<1>6. CASE ReportReady
  <2>1. ASSUME NEW t \in Answers \cup {Empty}
        PROVE  [s |-> ses.n, what |-> "report", text |-> t] \in Contents
    <3>1. t \in Texts
      BY AnswerTyped, EmptyTyped
    <3> QED
      BY <3>1 DEF TypeOK, Locals, Contents
  <2>2. clip' \in Contents
    BY <1>6, <2>1, SetClipTyped DEF ReportReady, TypeOK
  <2> QED
    BY <1>6, <2>2 DEF ReportReady, TypeOK, Places
<1>7. CASE InjectReplaceLine
  BY <1>7, PasteLineTyped, DoneTyped DEF InjectReplaceLine, PasteLine, Write, TypeOK
<1> QED
  BY <1>3, <1>4, <1>5, <1>6, <1>7

LEMMA PlanningTyped ==
  ASSUME TypeOK,
         Refuse \/ GuardBlocks \/ Proceed \/ NoPlanNeeded \/ InlinePlan \/ DraftPlan
         \/ Prepare
  PROVE  TypeOK'
<1> USE DEF keyboard, screen, store, Goto
<1>1. ASSUME NEW shown \in BOOLEAN
      PROVE  NewPlan(shown) \in Plans
  <2>1. Clean(ses.prompt) \in {Clean(l) : l \in Lines} /\ ses.n \in Ids
    BY CleanTyped DEF TypeOK, Locals
  <2> QED
    BY <2>1 DEF NewPlan, Plans
<1>2. CASE Refuse
  BY <1>2, DoneTyped DEF Refuse, TypeOK
<1>3. CASE GuardBlocks
  BY <1>3, DoneTyped, LogTyped DEF GuardBlocks, TypeOK
<1>4. CASE Proceed \/ NoPlanNeeded
  BY <1>4 DEF Proceed, NoPlanNeeded, TypeOK, Places
<1>5. CASE InlinePlan
  BY <1>1, <1>5 DEF InlinePlan, TypeOK, Places
<1>6. CASE DraftPlan
  <2>1. ASSUME NEW t \in Drafted
        PROVE  [s |-> ses.n, what |-> "plan", text |-> t] \in Contents
    <3>1. t \in Texts
      BY AnswerTyped, EmptyTyped DEF Drafted
    <3> QED
      BY <3>1 DEF TypeOK, Locals, Contents
  <2>2. clip' \in Contents
    BY <1>6, <2>1, SetClipTyped DEF DraftPlan, TypeOK
  <2> QED
    BY <1>1, <1>6, <2>2 DEF DraftPlan, TypeOK, Places
<1>7. CASE Prepare
  <2>1. ses' \in Locals
    BY <1>7 DEF Prepare, TypeOK, Locals
  <2>2. audit' \in Seq(Entries)
    BY <1>7, LogTyped DEF Prepare
  <2> QED
    BY <1>7, <2>1, <2>2 DEF Prepare, TypeOK, Places
<1> QED
  BY <1>2, <1>3, <1>4, <1>5, <1>6, <1>7

LEMMA ToWriteTyped ==
  ASSUME TypeOK, NEW t \in Texts, ToWrite(t)
  PROVE  pc' \in Places /\ ses' \in Locals
<1>1. FirstWriter(Kind[ses.target], ses.mode) \in Writers
  <2>1. Kind[ses.target] \in Kinds
    BY ConstantsAssumption DEF ConstantsAssumption, TypeOK, Locals
  <2> QED
    BY <2>1 DEF FirstWriter, Writers, NeedsOps, Kinds
<1>2. (IF ses.native \/ Kind[ses.target] = "code"
       THEN FirstWriter(Kind[ses.target], ses.mode) ELSE "none") \in Writers
  BY <1>1 DEF Writers
<1>3. ses' \in Locals
  BY <1>2 DEF ToWrite, TypeOK, Locals
<1> QED
  BY <1>3 DEF ToWrite, Goto, Places

\* From the stream to the choice of a writer.
LEMMA AnsweringTyped ==
  ASSUME TypeOK,
         StreamEnds \/ StreamFails \/ FallbackEnds
         \/ StreamTimesOut \/ Screen \/ Retry \/ Feynman
  PROVE  TypeOK'
<1> USE DEF keyboard, screen, store, Goto
<1>1. Apology \in Texts
  BY DEF Apology, Texts
<1>2. CASE StreamEnds \/ FallbackEnds
  <2>1. ses' \in Locals
    BY <1>2, AnswerTyped DEF StreamEnds, FallbackEnds, Answered, TypeOK, Locals
  <2> QED
    BY <1>2, <2>1 DEF StreamEnds, FallbackEnds, Answered, TypeOK, Places
<1>3. CASE StreamTimesOut
  <2>1. ses' \in Locals
    BY <1>1, <1>3 DEF StreamTimesOut, TypeOK, Locals
  <2> QED
    BY <1>3, <2>1 DEF StreamTimesOut, TypeOK, Places
<1>4. CASE Screen
  BY <1>4 DEF Screen, TypeOK, Places
<1>5. CASE Retry
  <2>1. PICK t \in Answers :
          \/ /\ Goto("verify") /\ ses' = [ses EXCEPT !.text = t, !.tries = 0]
             /\ UNCHANGED audit
          \/ ses' = [ses EXCEPT !.tries = 1] /\ UNCHANGED <<pc, audit>>
          \/ GiveUp
    BY <1>5 DEF Retry
  <2>2. pc' \in Places /\ ses' \in Locals /\ audit' \in Seq(Entries)
    <3>1. CASE Goto("verify") /\ ses' = [ses EXCEPT !.text = t, !.tries = 0]
               /\ UNCHANGED audit
      <4>1. t \in Texts /\ 0 \in 0 .. 2
        BY AnswerTyped
      <4>2. ses' \in Locals
        BY <3>1, <4>1 DEF TypeOK, Locals
      <4>3. pc' \in Places
        BY <3>1 DEF Places
      <4> QED
        BY <3>1, <4>2, <4>3 DEF TypeOK
    <3>2. CASE ses' = [ses EXCEPT !.tries = 1] /\ UNCHANGED <<pc, audit>>
      <4>1. 1 \in 0 .. 2
        OBVIOUS
      <4>2. ses' \in Locals
        BY <3>2, <4>1 DEF TypeOK, Locals
      <4> QED
        BY <3>2, <4>2 DEF TypeOK
    <3>3. CASE GiveUp
      BY <3>3, DoneTyped DEF GiveUp, TypeOK
    <3> QED
      BY <2>1, <3>1, <3>2, <3>3
  <2> QED
    BY <1>5, <2>2 DEF Retry, TypeOK
<1>6. CASE StreamFails
  BY <1>6 DEF StreamFails, TypeOK, Places
<1>7. CASE Feynman
  <2>1. ses.text \in Texts
    BY DEF TypeOK, Locals
  <2>2. \A t \in Answers : Regenerated(t) \in Texts
    BY <2>1, AnswerTyped DEF Regenerated
  <2>3. pc' \in Places /\ ses' \in Locals
    BY <1>7, <2>1, <2>2, ToWriteTyped DEF Feynman
  <2> QED
    BY <1>7, <2>3 DEF Feynman, TypeOK
<1> QED
  BY <1>2, <1>3, <1>4, <1>5, <1>6, <1>7

\* The writers of a file.
LEMMA NativeTyped ==
  ASSUME TypeOK,
         SkipWriter \/ SchemaRetry \/ WriteNatively
  PROVE  TypeOK'
<1> USE DEF keyboard, screen, store, Goto
<1>1. ASSUME NEW x, NEW r PROVE After(x, r) \in Writers
  BY DEF After, Writers, NeedsOps
<1>2. "none" \in Writers
  BY DEF Writers
<1>3. CASE SkipWriter
  <2>1. PICK x \in Writers : ses' = [ses EXCEPT !.writer = x]
    BY <1>1, <1>2, <1>3 DEF SkipWriter
  <2>2. ses' \in Locals
    BY <2>1 DEF TypeOK, Locals
  <2> QED
    BY <1>3, <2>2 DEF SkipWriter, TypeOK
<1>4. CASE SchemaRetry
  <2>1. CASE ses.tries = 2
    <3>1. ses' \in Locals
      BY <1>2, <1>4, <2>1 DEF SchemaRetry, TypeOK, Locals
    <3> QED
      BY <1>4, <3>1 DEF SchemaRetry, TypeOK
  <2>2. CASE ses.tries # 2
    <3>1. ses.tries + 1 \in 0 .. 2
      BY <2>2 DEF TypeOK, Locals
    <3>2. PICK t \in Answers :
            ses' = [ses EXCEPT !.tries = @ + 1, !.job = IF t.clean THEN t ELSE @]
      BY <1>4, <2>2 DEF SchemaRetry
    <3>3. ses' \in Locals
      BY <3>1, <3>2, AnswerTyped DEF TypeOK, Locals
    <3> QED
      BY <1>4, <3>3 DEF SchemaRetry, TypeOK
  <2> QED
    BY <2>1, <2>2
<1>5. CASE WriteNatively
  <2>1. PICK result \in Results :
          /\ \/ \E via \in {"file", "unconfirmed"} :
                   Write(ses.target, [s |-> ses.n, what |-> "response",
                                      via |-> via, text |-> ses.job])
             \/ UNCHANGED docs
          /\ \/ Done
             \/ /\ ses' = [ses EXCEPT !.writer = After(ses.writer, result),
                              !.job = IF After(ses.writer, result) = "legacy"
                                      THEN ses.text ELSE @]
                /\ UNCHANGED pc
    BY <1>5 DEF WriteNatively, Written
  <2>2. docs' \in [Windows -> Seq(Marks)]
    <3>1. ASSUME NEW via \in {"file", "unconfirmed"}
          PROVE  [s |-> ses.n, what |-> "response", via |-> via, text |-> ses.job]
                   \in Marks
      BY DEF TypeOK, Locals, Marks
    <3>2. docs \in [Windows -> Seq(Marks)] /\ ses.target \in Windows
      BY DEF TypeOK, Locals
    <3> QED
      BY <2>1, <3>1, <3>2, WriteTyped
  <2>3. pc' \in Places /\ ses' \in Locals
    <3>1. CASE Done
      BY <3>1, DoneTyped
    <3>2. CASE /\ ses' = [ses EXCEPT !.writer = After(ses.writer, result),
                              !.job = IF After(ses.writer, result) = "legacy"
                                      THEN ses.text ELSE @]
               /\ UNCHANGED pc
      BY <1>1, <3>2 DEF TypeOK, Locals
    <3> QED
      BY <2>1, <3>1, <3>2
  <2> QED
    BY <1>5, <2>2, <2>3 DEF WriteNatively, TypeOK
<1> QED
  BY <1>3, <1>4, <1>5

\* The undo buffer drops its oldest record when it is full.
LEMMA RecordedTyped ==
  ASSUME undo \in Seq(Records), Len(undo) <= UndoLimit, NEW r \in Records
  PROVE  Recorded(r) \in Seq(Records) /\ Len(Recorded(r)) <= UndoLimit
<1> DEFINE all == Append(undo, r)
<1>1. all \in Seq(Records)
  OBVIOUS
<1>2. Len(all) = Len(undo) + 1 /\ Len(undo) \in Nat
  OBVIOUS
<1>3. UndoLimit \in Nat
  BY ConstantsAssumption DEF ConstantsAssumption
<1>4. CASE Len(all) > UndoLimit
  <2>1. all # << >>
    BY <1>2
  <2>2. Tail(all) \in Seq(Records) /\ Len(Tail(all)) = Len(all) - 1
    <3> HIDE DEF all
    <3> QED
      BY <1>1, <2>1, HeadTailProperties
  <2>3. Recorded(r) = Tail(all)
    BY <1>4 DEF Recorded
  <2> QED
    BY <1>2, <1>3, <1>4, <2>2, <2>3
<1>5. CASE ~(Len(all) > UndoLimit)
  <2>1. Recorded(r) = all
    BY <1>5 DEF Recorded
  <2> QED
    BY <1>1, <1>2, <1>3, <1>5, <2>1
<1> QED
  BY <1>4, <1>5

\* From the clipboard to the end of the session.
LEMMA PastingTyped ==
  ASSUME TypeOK,
         \/ KeepOut \/ LeaveToPeers
         \/ PrepareClipboard \/ FocusTarget \/ Settle \/ Paste \/ Finish
  PROVE  TypeOK'
<1> USE DEF keyboard, screen, store, Goto
<1>1. [s |-> ses.n, what |-> "response", text |-> ses.text] \in Contents
  BY DEF TypeOK, Locals, Contents
<1>2. CASE KeepOut
  BY <1>2, DoneTyped DEF KeepOut, TypeOK
<1>3. CASE PrepareClipboard
  <2>1. clip' \in Contents
    BY <1>1, <1>3, SetClipTyped DEF PrepareClipboard, TypeOK
  <2> QED
    BY <1>3, <2>1 DEF PrepareClipboard, TypeOK, Places
<1>4. CASE FocusTarget
  <2>1. ses' \in Locals
    BY <1>4 DEF FocusTarget, TypeOK, Locals
  <2> QED
    BY <1>4, <2>1 DEF FocusTarget, TypeOK, Places
<1>5. CASE Settle
  <2>1. focus' \in Windows
    BY <1>5 DEF Settle, TypeOK, Locals
  <2> QED
    BY <1>5, <2>1 DEF Settle, TypeOK, Places
<1>6. CASE Paste
  <2>1. undo' \in Seq(Records) /\ Len(undo') <= UndoLimit
    <3>1. [s |-> ses.n, w |-> ses.target] \in Records
      BY DEF TypeOK, Locals, Records
    <3>2. undo \in Seq(Records) /\ Len(undo) <= UndoLimit
      BY DEF TypeOK
    <3> QED
      BY <1>6, <3>1, <3>2, RecordedTyped DEF Paste
  <2>2. checks' \subseteq Checks
    <3>1. [c |-> [s |-> ses.n, what |-> "response", text |-> ses.text],
           w |-> ses.target, again |-> FALSE] \in Checks
      BY <1>1 DEF TypeOK, Locals, Checks
    <3> QED
      BY <1>6, <3>1 DEF Paste, TypeOK
  <2>3. docs' \in [Windows -> Seq(Marks)] /\ line' \in [Windows -> Lines]
    BY <1>6, PasteLineTyped DEF Paste, TypeOK
  <2> QED
    BY <1>6, <2>1, <2>2, <2>3 DEF Paste, TypeOK, Places
<1>7. CASE Finish
  <2>1. pc' \in Places /\ ses' \in Locals
    BY <1>7, DoneTyped DEF Finish
  <2>2. audit' \in Seq(Entries)
    BY <1>7, LogTyped DEF Finish
  <2>3. skill' \in [offered : BOOLEAN, history : Ids]
    <3>1. /\ [offered |-> TRUE, history |-> ses.n] \in [offered : BOOLEAN, history : Ids]
          /\ skill \in [offered : BOOLEAN, history : Ids]
      BY DEF TypeOK, Locals
    <3>2. skill' \in {skill, [offered |-> TRUE, history |-> ses.n]}
      BY <1>7 DEF Finish
    <3> QED
      BY <3>1, <3>2
  <2>4. docs' \in [Windows -> Seq(Marks)]
    <3>1. [s |-> ses.n, what |-> "alert", via |-> "typed", text |-> Empty] \in Marks
      BY DEF TypeOK, Locals, Marks, Texts, Empty
    <3>2. docs \in [Windows -> Seq(Marks)] /\ focus \in Windows
      BY DEF TypeOK
    <3> QED
      BY <1>7, <3>1, <3>2, WriteTyped DEF Finish
  <2> QED
    BY <1>7, <2>1, <2>2, <2>3, <2>4 DEF Finish, TypeOK
<1>8. CASE LeaveToPeers
  BY <1>8 DEF LeaveToPeers, TypeOK, Places
<1> QED
  BY <1>2, <1>3, <1>4, <1>5, <1>6, <1>7, <1>8

\* The tasks that check a paste.
LEMMA TaskTyped == ASSUME TypeOK, Task PROVE TypeOK'
<1> USE DEF keyboard, store
<1>1. PICK k \in checks : CheckPaste(k) \/ PasteAgain(k)
  BY DEF Task
<1>2. k \in Checks
  BY DEF TypeOK
<1>3. CASE CheckPaste(k)
  <2>1. CASE checks' = checks \ {k} /\ UNCHANGED <<focus, docs, clip>>
    BY <1>3, <2>1 DEF CheckPaste, TypeOK
  <2>2. CASE /\ SetClip(k.c) /\ focus' = k.w /\ UNCHANGED docs
             /\ checks' = (checks \ {k}) \cup {[k EXCEPT !.again = TRUE]}
    <3>1. k.c \in Contents /\ k.w \in Windows /\ [k EXCEPT !.again = TRUE] \in Checks
      BY <1>2 DEF Checks
    <3>2. clip' \in Contents
      BY <2>2, <3>1, SetClipTyped DEF TypeOK
    <3>3. checks' \subseteq Checks
      BY <2>2, <3>1 DEF TypeOK
    <3> QED
      BY <1>3, <2>2, <3>1, <3>2, <3>3 DEF CheckPaste, TypeOK
  <2> QED
    BY <1>3, <2>1, <2>2 DEF CheckPaste
<1>4. CASE PasteAgain(k)
  <2>1. docs' \in [Windows -> Seq(Marks)]
    <3>1. docs \in [Windows -> Seq(Marks)] /\ focus \in Windows /\ clip \in Contents
      BY DEF TypeOK
    <3>2. Mark(clip, "again") \in Marks
      BY <3>1, MarkTyped
    <3> QED
      BY <1>4, <3>1, <3>2, WriteTyped DEF PasteAgain
  <2> QED
    BY <1>4, <2>1 DEF PasteAgain, TypeOK
<1> QED
  BY <1>1, <1>3, <1>4

LEMMA TypeStep == ASSUME TypeOK, [Next]_vars PROVE TypeOK'
<1>1. CASE User
  BY <1>1, UserTyped
<1>2. CASE Receive \/ Dictate \/ SendVoice
  BY <1>2, LoopTyped
<1>3. CASE Session \/ StreamEnds \/ StreamFails
  BY <1>3, CaptureTyped, PlanningTyped, AnsweringTyped, NativeTyped, PastingTyped
     DEF Session
<1>4. CASE Task
  BY <1>4, TaskTyped
<1>5. CASE UNCHANGED vars
  BY <1>5 DEF vars, TypeOK
<1> QED
  BY <1>1, <1>2, <1>3, <1>4, <1>5 DEF Next, Loop

\* Every variable keeps its type; the channel never holds more than its
\* capacity and the undo buffer never more than its limit.
THEOREM TypeCorrect == Spec => []TypeOK
<1>1. Init => TypeOK
  BY TypeInit
<1>2. TypeOK /\ [Next]_vars => TypeOK'
  BY TypeStep
<1> QED
  BY <1>1, <1>2, PTL DEF Spec

-----------------------------------------------------------------------------
(* Every answer that reaches a document was scanned (a report is none, and a *)
(* plan is scanned where it is drafted).  The answer is in four places on    *)
(* its way: the handler's variables once it has passed, the clipboard, a     *)
(* task that may paste it again, and the documents.                          *)

CleanContent(c) == c.what \in {"response", "plan"} => c.text.clean

CleanDocs == \A w \in Windows : \A i \in DOMAIN docs[w] : CleanContent(docs[w][i])
CleanClip == CleanContent(clip)
CleanChecks == \A k \in checks : CleanContent(k.c)
CleanSes ==
    /\ pc \in {"verify", "write", "focus", "settle", "paste"} => ses.text.clean
    /\ pc = "write" => ses.job.clean

ScreenedInv == TypeOK /\ CleanDocs /\ CleanClip /\ CleanChecks /\ CleanSes

LEMMA ScreenedInit == Init => ScreenedInv
<1> SUFFICES ASSUME Init
             PROVE  ScreenedInv
  OBVIOUS
<1>1. CleanDocs
  <2>1. ASSUME NEW w \in Windows
        PROVE  docs[w] = << >>
    BY DEF Init
  <2> QED
    BY <2>1 DEF CleanDocs
<1>2. CleanClip /\ CleanChecks /\ CleanSes
  BY DEF Init, CleanClip, CleanContent, UsersClip, CleanChecks, CleanSes
<1> QED
  BY <1>1, <1>2, TypeInit DEF ScreenedInv

\* The handler: only what passed gets beyond "retry", and every later change
\* of the answer is scanned.
LEMMA SesStaysClean == ASSUME ScreenedInv, [Next]_vars PROVE CleanSes'
<1> USE DEF Goto
<1>1. CleanSes
  BY DEF ScreenedInv
<1>2. CASE User \/ Task \/ UNCHANGED vars
  <2>1. UNCHANGED <<pc, ses>>
    BY <1>2 DEF User, Press, Type, Switch, Strike, Task, CheckPaste, PasteAgain, vars
  <2> QED
    BY <1>1, <2>1 DEF CleanSes
<1>3. CASE Receive \/ Dictate \/ SendVoice
  <2>1. pc' \notin {"verify", "write", "focus", "settle", "paste"}
    BY <1>3 DEF Receive, Dictate, SendVoice, store
  <2> QED
    BY <2>1 DEF CleanSes
<1>4. CASE \/ CaptureFocused \/ CaptureByClipboard \/ CopySelection \/ ReportReady
           \/ InjectReplaceLine \/ Refuse \/ GuardBlocks \/ Proceed \/ NoPlanNeeded
           \/ InlinePlan \/ DraftPlan \/ Prepare \/ StreamEnds \/ StreamFails \/ FallbackEnds
           \/ StreamTimesOut
           \/ KeepOut \/ LeaveToPeers \/ Paste \/ Finish
  <2>1. pc' \notin {"verify", "write", "focus", "settle", "paste"}
    BY <1>4 DEF CaptureFocused, CaptureByClipboard, CopySelection, Decide,
       NothingCaptured, Done, ReportReady, InjectReplaceLine, Refuse, GuardBlocks,
       Proceed, NoPlanNeeded, InlinePlan, DraftPlan, Prepare, StreamEnds,
       StreamFails, FallbackEnds, Answered,
       StreamTimesOut, KeepOut, LeaveToPeers, Paste, Finish
  <2> QED
    BY <2>1 DEF CleanSes
<1>5. CASE Screen
  BY <1>5 DEF Screen, Passes, CleanSes
<1>6. CASE Retry
  <2>1. PICK t \in Answers :
          \/ Passes(t) /\ Goto("verify") /\ ses' = [ses EXCEPT !.text = t, !.tries = 0]
          \/ pc' = "retry"
          \/ pc' = "idle"
    BY <1>6 DEF Retry, GiveUp, Done
  <2>2. CASE Passes(t) /\ Goto("verify") /\ ses' = [ses EXCEPT !.text = t, !.tries = 0]
    <3>1. ses'.text = t
      BY <2>2 DEF ScreenedInv, TypeOK, Locals
    <3> QED
      BY <2>2, <3>1 DEF CleanSes, Passes
  <2> QED
    BY <2>1, <2>2 DEF CleanSes
<1>7. CASE Feynman
  <2>1. ses.text.clean
    BY <1>1, <1>7 DEF Feynman, CleanSes
  <2>2. PICK t : t.clean /\ ToWrite(t)
    BY <1>7, <2>1 DEF Feynman, Regenerated
  <2>3. ses'.text = t /\ ses'.job = t
    BY <2>2 DEF ToWrite, ScreenedInv, TypeOK, Locals
  <2> QED
    BY <2>2, <2>3 DEF CleanSes
<1>8. CASE SkipWriter \/ SchemaRetry \/ WriteNatively
  <2>1. pc = "write" /\ ses.text.clean /\ ses.job.clean
    BY <1>1, <1>8 DEF CleanSes, SkipWriter, SchemaRetry, WriteNatively
  <2>2. CASE pc' = "idle"
    BY <2>2 DEF CleanSes
  <2>3. CASE SkipWriter
    <3>1. ses'.text = ses.text /\ ses'.job = ses.job
      BY <2>3 DEF SkipWriter, ScreenedInv, TypeOK, Locals
    <3> QED
      BY <2>1, <2>3, <3>1 DEF SkipWriter, CleanSes
  <2>4. CASE SchemaRetry
    <3>1. ses'.text = ses.text /\ ses'.job.clean
      BY <2>1, <2>4 DEF SchemaRetry, ScreenedInv, TypeOK, Locals
    <3> QED
      BY <2>1, <3>1 DEF CleanSes
  <2>5. CASE WriteNatively
    <3>1. \/ pc' = "idle"
          \/ ses'.text = ses.text /\ ses'.job \in {ses.text, ses.job}
      BY <2>5 DEF WriteNatively, Written, Done, ScreenedInv, TypeOK, Locals
    <3> QED
      BY <2>1, <2>2, <3>1 DEF CleanSes
  <2> QED
    BY <1>8, <2>3, <2>4, <2>5
<1>9. CASE PrepareClipboard \/ FocusTarget \/ Settle
  <2>1. /\ pc \in {"write", "focus", "settle"} /\ pc' \in {"focus", "settle", "paste"}
        /\ ses'.text = ses.text
    BY <1>9 DEF PrepareClipboard, FocusTarget, Settle, ScreenedInv, TypeOK, Locals
  <2> QED
    BY <1>1, <2>1 DEF CleanSes
<1> QED
  BY <1>2, <1>3, <1>4, <1>5, <1>6, <1>7, <1>8, <1>9 DEF Next, Loop, Session

\* What the handler or a task puts on the clipboard was scanned.
LEMMA ClipStaysClean == ASSUME ScreenedInv, [Next]_vars PROVE CleanClip'
<1> USE DEF Goto
<1>1. CleanClip /\ CleanSes /\ CleanChecks
  BY DEF ScreenedInv
<1>2. CASE UNCHANGED clip
  BY <1>1, <1>2 DEF CleanClip
<1>3. ASSUME NEW c, SetClip(c), CleanContent(c)
      PROVE  CleanClip'
  BY <1>1, <1>3 DEF SetClip, CleanClip
<1>4. CASE CopySelection
  BY <1>1, <1>4 DEF CopySelection, CleanClip, CleanContent, UsersClip
<1>5. CASE ReportReady \/ DraftPlan
  <2>1. ASSUME NEW t, t \in Drafted
        PROVE  CleanContent([s |-> ses.n, what |-> "plan", text |-> t])
    BY <2>1 DEF CleanContent, Drafted, Empty
  <2>2. ASSUME NEW t
        PROVE  CleanContent([s |-> ses.n, what |-> "report", text |-> t])
    BY DEF CleanContent
  <2> QED
    BY <1>3, <1>5, <2>1, <2>2 DEF ReportReady, DraftPlan
<1>6. CASE PrepareClipboard
  <2>1. CleanContent([s |-> ses.n, what |-> "response", text |-> ses.text])
    BY <1>1, <1>6 DEF PrepareClipboard, CleanSes, CleanContent
  <2> QED
    BY <1>3, <1>6, <2>1 DEF PrepareClipboard
<1>7. CASE Task
  <2>1. PICK k \in checks : CheckPaste(k) \/ PasteAgain(k)
    BY <1>7 DEF Task
  <2>2. CleanContent(k.c)
    BY <1>1 DEF CleanChecks
  <2>3. UNCHANGED clip \/ SetClip(k.c)
    BY <2>1 DEF CheckPaste, PasteAgain
  <2> QED
    BY <1>2, <1>3, <2>2, <2>3
<1>8. CASE User \/ Receive \/ Dictate \/ SendVoice \/ UNCHANGED vars
  <2>1. UNCHANGED clip
    BY <1>8 DEF User, Press, Type, Switch, Receive, Dictate, SendVoice, screen, vars
  <2> QED
    BY <1>2, <2>1
<1>9. CASE \/ CaptureFocused \/ CaptureByClipboard \/ InjectReplaceLine
           \/ Refuse \/ GuardBlocks \/ Proceed \/ NoPlanNeeded \/ InlinePlan
           \/ Prepare \/ StreamEnds \/ StreamFails \/ FallbackEnds
           \/ StreamTimesOut \/ Screen \/ Retry \/ Feynman
           \/ SkipWriter \/ SchemaRetry \/ WriteNatively
           \/ KeepOut \/ LeaveToPeers \/ FocusTarget \/ Settle \/ Paste \/ Finish
  <2>1. UNCHANGED clip
    BY <1>9 DEF CaptureFocused, CaptureByClipboard, InjectReplaceLine, Refuse,
       GuardBlocks, Proceed, NoPlanNeeded, InlinePlan, Prepare, StreamEnds,
       StreamFails, FallbackEnds, Answered,
       StreamTimesOut, Screen, Retry, Feynman, SkipWriter, SchemaRetry,
       WriteNatively, KeepOut, LeaveToPeers, FocusTarget, Settle, Paste, Finish, screen
  <2> QED
    BY <1>2, <2>1
<1> QED
  BY <1>4, <1>5, <1>6, <1>7, <1>8, <1>9 DEF Next, Loop, Session

\* A task is started with the text that is pasted.
LEMMA ChecksStayClean == ASSUME ScreenedInv, [Next]_vars PROVE CleanChecks'
<1> USE DEF Goto
<1>1. CleanSes /\ CleanChecks
  BY DEF ScreenedInv
<1>2. CASE UNCHANGED checks
  BY <1>1, <1>2 DEF CleanChecks
<1>3. CASE Paste
  <2>1. CleanContent([s |-> ses.n, what |-> "response", text |-> ses.text])
    BY <1>1, <1>3 DEF Paste, CleanSes, CleanContent
  <2> QED
    BY <1>1, <1>3, <2>1 DEF Paste, CleanChecks
<1>4. CASE Task
  <2>1. PICK k \in checks : CheckPaste(k) \/ PasteAgain(k)
    BY <1>4 DEF Task
  <2>2. checks' \subseteq checks \cup {[k EXCEPT !.again = TRUE]}
    BY <2>1 DEF CheckPaste, PasteAgain
  <2>3. [k EXCEPT !.again = TRUE].c = k.c
    BY DEF ScreenedInv, TypeOK, Checks
  <2> QED
    BY <1>1, <2>2, <2>3 DEF CleanChecks
<1>5. CASE User \/ Receive \/ Dictate \/ SendVoice \/ UNCHANGED vars
  <2>1. UNCHANGED checks
    BY <1>5 DEF User, Press, Type, Switch, Receive, Dictate, SendVoice, screen, vars
  <2> QED
    BY <1>2, <2>1
<1>6. CASE \/ CaptureFocused \/ CaptureByClipboard \/ CopySelection \/ ReportReady
           \/ InjectReplaceLine \/ Refuse \/ GuardBlocks \/ Proceed \/ NoPlanNeeded
           \/ InlinePlan \/ DraftPlan
           \/ Prepare \/ StreamEnds \/ StreamFails \/ FallbackEnds
           \/ StreamTimesOut \/ Screen \/ Retry \/ Feynman
           \/ SkipWriter \/ SchemaRetry \/ WriteNatively
           \/ KeepOut \/ LeaveToPeers \/ PrepareClipboard \/ FocusTarget \/ Settle \/ Finish
  <2>1. UNCHANGED checks
    BY <1>6 DEF CaptureFocused, CaptureByClipboard, CopySelection, ReportReady,
       InjectReplaceLine, Refuse, GuardBlocks, Proceed, NoPlanNeeded, InlinePlan,
       DraftPlan, Prepare, StreamEnds, StreamFails, FallbackEnds, Answered,
       StreamTimesOut, Screen, Retry, Feynman,
       SkipWriter, SchemaRetry, WriteNatively, KeepOut, LeaveToPeers, PrepareClipboard,
       FocusTarget, Settle, Finish, screen
  <2> QED
    BY <1>2, <2>1
<1> QED
  BY <1>3, <1>4, <1>5, <1>6 DEF Next, Loop, Session

LEMMA WriteClean ==
  ASSUME TypeOK, CleanDocs, NEW w \in Windows, NEW m \in Marks, CleanContent(m),
         Write(w, m)
  PROVE  CleanDocs'
<1>1. docs' = [docs EXCEPT ![w] = Append(docs[w], m)]
  BY DEF Write
<1>2. docs \in [Windows -> Seq(Marks)]
  BY DEF TypeOK
<1>3. ASSUME NEW v \in Windows, NEW i \in DOMAIN docs'[v]
      PROVE  CleanContent(docs'[v][i])
  <2>1. CASE v # w
    <3>1. docs'[v] = docs[v]
      BY <1>1, <1>2, <2>1
    <3> QED
      BY <1>3, <3>1 DEF CleanDocs
  <2>2. CASE v = w
    <3>1. docs'[w] = Append(docs[w], m) /\ docs[w] \in Seq(Marks)
      BY <1>1, <1>2
    <3>2. DOMAIN Append(docs[w], m) = 1 .. (Len(docs[w]) + 1)
      BY <3>1
    <3>3. CASE i = Len(docs[w]) + 1
      <4>1. Append(docs[w], m)[i] = m
        BY <3>1, <3>3
      <4> QED
        BY <2>2, <3>1, <4>1
    <3>4. CASE i # Len(docs[w]) + 1
      <4>1. i \in 1 .. Len(docs[w])
        BY <1>3, <2>2, <3>1, <3>2, <3>4
      <4>2. Append(docs[w], m)[i] = docs[w][i] /\ DOMAIN docs[w] = 1 .. Len(docs[w])
        BY <3>1, <4>1
      <4> QED
        BY <2>2, <3>1, <4>1, <4>2 DEF CleanDocs
    <3> QED
      BY <3>3, <3>4
  <2> QED
    BY <2>1, <2>2
<1> QED
  BY <1>3 DEF CleanDocs

\* Taking away what was written last leaves the rest.
LEMMA UndoClean == ASSUME TypeOK, CleanDocs, PerformUndo PROVE CleanDocs'
<1> DEFINE w == undo[Len(undo)].w
<1>1. docs' = IF docs[w] = << >> THEN docs
              ELSE [docs EXCEPT ![w] = SubSeq(docs[w], 1, Len(docs[w]) - 1)]
  BY DEF PerformUndo
<1>2. docs \in [Windows -> Seq(Marks)]
  BY DEF TypeOK
<1> HIDE DEF w
<1>3. ASSUME NEW v \in Windows, NEW i \in DOMAIN docs'[v]
      PROVE  CleanContent(docs'[v][i])
  <2>1. CASE docs[w] = << >> \/ v # w
    <3>1. docs'[v] = docs[v]
      BY <1>1, <1>2, <2>1
    <3> QED
      BY <1>3, <3>1 DEF CleanDocs
  <2>2. CASE docs[w] # << >> /\ v = w
    <3> DEFINE d == docs[v]
    <3>1. d \in Seq(Marks) /\ d # << >>
      BY <1>2, <2>2
    <3>2. docs'[v] = SubSeq(d, 1, Len(d) - 1)
      BY <1>1, <1>2, <2>2
    <3>3. DOMAIN d = 1 .. Len(d) /\ Len(d) \in Nat
      BY <3>1
    <3>4. /\ SubSeq(d, 1, Len(d) - 1) \in Seq(Marks)
          /\ Len(SubSeq(d, 1, Len(d) - 1)) = Len(d) - 1
          /\ \A j \in 1 .. (Len(d) - 1) : SubSeq(d, 1, Len(d) - 1)[j] = d[j]
      <4> HIDE DEF d
      <4> QED
        BY <3>1, WithoutLast
    <3>5. i \in 1 .. (Len(d) - 1)
      <4>1. DOMAIN SubSeq(d, 1, Len(d) - 1) = 1 .. Len(SubSeq(d, 1, Len(d) - 1))
        BY <3>4
      <4> QED
        BY <1>3, <3>2, <3>4, <4>1
    <3>6. i \in DOMAIN d /\ docs'[v][i] = d[i]
      BY <3>2, <3>3, <3>4, <3>5
    <3> QED
      BY <3>6 DEF CleanDocs
  <2> QED
    BY <2>1, <2>2
<1> QED
  BY <1>3 DEF CleanDocs

\* What is written is what the handler or the clipboard holds.
LEMMA DocsStayClean == ASSUME ScreenedInv, [Next]_vars PROVE CleanDocs'
<1> USE DEF Goto
<1>1. TypeOK /\ CleanDocs /\ CleanClip /\ CleanSes
  BY DEF ScreenedInv
<1>2. focus \in Windows /\ clip \in Contents /\ ses \in Locals
  BY <1>1 DEF TypeOK
<1>3. CASE UNCHANGED docs
  BY <1>1, <1>3 DEF CleanDocs
<1>4. ASSUME NEW via \in {"paste", "again"}, Write(focus, Mark(clip, via))
      PROVE  CleanDocs'
  <2>1. Mark(clip, via) \in Marks /\ CleanContent(Mark(clip, via))
    BY <1>1, <1>2, MarkTyped DEF Mark, CleanClip, CleanContent
  <2> QED
    BY <1>1, <1>2, <1>4, <2>1, WriteClean
<1>5. CASE InjectReplaceLine \/ Paste
  BY <1>4, <1>5 DEF InjectReplaceLine, Paste, PasteLine
<1>6. CASE WriteNatively
  <2>1. CASE \E via \in {"file", "unconfirmed"} :
                Write(ses.target, [s |-> ses.n, what |-> "response",
                                   via |-> via, text |-> ses.job])
    <3>1. ASSUME NEW via \in {"file", "unconfirmed"}
          PROVE  LET m == [s |-> ses.n, what |-> "response", via |-> via,
                           text |-> ses.job]
                 IN  m \in Marks /\ CleanContent(m)
      BY <1>1, <1>2, <1>6 DEF WriteNatively, CleanSes, CleanContent, Locals, Marks
    <3>2. ses.target \in Windows
      BY <1>2 DEF Locals
    <3> QED
      BY <1>1, <2>1, <3>1, <3>2, WriteClean
  <2> QED
    BY <1>3, <1>6, <2>1 DEF WriteNatively
<1>7. CASE Finish
  <2>1. CASE Write(focus, [s |-> ses.n, what |-> "alert", via |-> "typed", text |-> Empty])
    <3>1. LET m == [s |-> ses.n, what |-> "alert", via |-> "typed", text |-> Empty]
          IN  m \in Marks /\ CleanContent(m)
      BY <1>2 DEF CleanContent, Locals, Marks, Texts, Empty
    <3> QED
      BY <1>1, <1>2, <2>1, <3>1, WriteClean
  <2> QED
    BY <1>3, <1>7, <2>1 DEF Finish
<1>8. CASE Receive
  <2>1. UNCHANGED docs \/ PerformUndo
    BY <1>8 DEF Receive, screen
  <2> QED
    BY <1>1, <1>3, <2>1, UndoClean
<1>9. CASE Task
  <2>1. PICK k \in checks : CheckPaste(k) \/ PasteAgain(k)
    BY <1>9 DEF Task
  <2>2. UNCHANGED docs \/ Write(focus, Mark(clip, "again"))
    BY <2>1 DEF CheckPaste, PasteAgain
  <2> QED
    BY <1>3, <1>4, <2>2
<1>10. CASE User \/ Dictate \/ SendVoice \/ UNCHANGED vars
  <2>1. UNCHANGED docs
    BY <1>10 DEF User, Press, Type, Switch, Dictate, SendVoice, screen, vars
  <2> QED
    BY <1>3, <2>1
<1>11. CASE \/ CaptureFocused \/ CaptureByClipboard \/ CopySelection \/ ReportReady
            \/ Refuse \/ GuardBlocks \/ Proceed \/ NoPlanNeeded
            \/ InlinePlan \/ DraftPlan
            \/ Prepare \/ StreamEnds \/ StreamFails \/ FallbackEnds
            \/ StreamTimesOut \/ Screen \/ Retry \/ Feynman
            \/ SkipWriter \/ SchemaRetry
            \/ KeepOut \/ LeaveToPeers \/ PrepareClipboard \/ FocusTarget \/ Settle
  <2>1. UNCHANGED docs
    BY <1>11 DEF CaptureFocused, CaptureByClipboard, CopySelection, ReportReady,
       Refuse, GuardBlocks, Proceed, NoPlanNeeded, InlinePlan,
       DraftPlan, Prepare, StreamEnds, StreamFails, FallbackEnds, Answered,
       StreamTimesOut, Screen, Retry, Feynman,
       SkipWriter, SchemaRetry, KeepOut, LeaveToPeers, PrepareClipboard, FocusTarget,
       Settle, screen
  <2> QED
    BY <1>3, <2>1
<1> QED
  BY <1>5, <1>6, <1>7, <1>8, <1>9, <1>10, <1>11 DEF Next, Loop, Session

LEMMA CleanDocsScreened == CleanDocs => Screened
<1> SUFFICES ASSUME CleanDocs, NEW w \in Windows, NEW m \in Deliveries(w),
                    m.what \in {"response", "plan"}
             PROVE  m.text.clean
  BY DEF Screened
<1>1. PICK i \in DOMAIN docs[w] : m = docs[w][i]
  BY DEF Deliveries
<1> QED
  BY <1>1 DEF CleanDocs, CleanContent

\* Neither an answer nor a drafted plan reaches a document without a scan,
\* whatever way it takes; reports are outside it.
THEOREM AnswersAreScreened == Spec => []Screened
<1>1. Init => ScreenedInv
  BY ScreenedInit
<1>2. ScreenedInv /\ [Next]_vars => ScreenedInv'
  BY TypeStep, SesStaysClean, ClipStaysClean, ChecksStayClean, DocsStayClean
     DEF ScreenedInv
<1>3. ScreenedInv => Screened
  BY CleanDocsScreened DEF ScreenedInv
<1> QED
  BY <1>1, <1>2, <1>3, PTL DEF Spec

-----------------------------------------------------------------------------
(* Sessions are numbered as they begin.                                     *)

LEMMA DecideNumber ==
  ASSUME ses \in Locals, NEW target, NEW raw, Decide(target, raw)
  PROVE  ses'.n = ses.n
<1>1. CASE Done
  BY <1>1 DEF Done, Idle
<1>2. CASE ~Done
  <2> DEFINE active == IF raw # NoLine /\ raw # pending.prompt THEN NoPlan ELSE pending
             mode == IF active = NoPlan /\ raw \in CommandLines
                     THEN Mode[raw[2]] ELSE "write"
             prompt == IF active = NoPlan THEN raw ELSE active.prompt
  <2>1. ses' = [ses EXCEPT !.target = target, !.mode = mode, !.plan = active,
                           !.prompt = prompt]
    BY <1>2 DEF Decide
  <2> HIDE DEF active, mode, prompt
  <2> QED
    BY <2>1 DEF Locals
<1> QED
  BY <1>1, <1>2

\* A new number is only given when the loop receives the hotkey.
LEMMA SessionNumber ==
  ASSUME TypeOK, [Next]_vars
  PROVE  \/ ses'.n = ses.n
         \/ /\ pc = "idle" /\ pc' = "capture" /\ ses'.n = ses.n + 1
            /\ UNCHANGED store
<1> USE DEF Goto
<1>1. ses \in Locals
  BY DEF TypeOK
<1>2. ASSUME Done PROVE ses'.n = ses.n
  BY <1>2 DEF Done, Idle
<1>3. CASE User \/ Task \/ Dictate \/ SendVoice \/ UNCHANGED vars
  BY <1>3 DEF User, Press, Type, Switch, Task, CheckPaste, PasteAgain, Dictate,
     SendVoice, vars
<1>4. CASE Receive
  <2>1. CASE UNCHANGED ses
    BY <2>1
  <2>2. CASE pc' = "capture" /\ ses' = Idle(ses.n + 1) /\ UNCHANGED store
    BY <1>4, <2>2 DEF Receive, Idle
  <2> QED
    BY <1>4, <2>1, <2>2 DEF Receive
<1>5. CASE CaptureFocused \/ CopySelection
  <2>1. CASE NothingCaptured
    BY <1>2, <2>1 DEF NothingCaptured
  <2>2. CASE \E target, raw : Decide(target, raw)
    BY <1>1, <2>2, DecideNumber
  <2> QED
    BY <1>5, <2>1, <2>2 DEF CaptureFocused, CopySelection
<1>6. CASE \/ CaptureByClipboard \/ ReportReady \/ InjectReplaceLine \/ Refuse
           \/ GuardBlocks \/ Proceed \/ NoPlanNeeded \/ InlinePlan \/ DraftPlan
           \/ Prepare \/ StreamEnds \/ StreamFails \/ FallbackEnds
           \/ StreamTimesOut \/ Screen \/ Feynman
  BY <1>1, <1>2, <1>6 DEF CaptureByClipboard, ReportReady, InjectReplaceLine, Refuse,
     GuardBlocks, Proceed, NoPlanNeeded, InlinePlan, DraftPlan, Prepare, StreamEnds,
       StreamFails, FallbackEnds, Answered,
       StreamTimesOut, Screen, Feynman, ToWrite, Locals
<1>7. CASE Retry
  BY <1>1, <1>2, <1>7 DEF Retry, GiveUp, Locals
<1>8. CASE SkipWriter \/ SchemaRetry \/ WriteNatively
  BY <1>1, <1>2, <1>8 DEF SkipWriter, SchemaRetry, WriteNatively, Written, Locals
<1>9. CASE \/ KeepOut \/ LeaveToPeers \/ PrepareClipboard
           \/ FocusTarget \/ Settle \/ Paste \/ Finish
  BY <1>1, <1>2, <1>9 DEF KeepOut, LeaveToPeers, PrepareClipboard,
     FocusTarget, Settle, Paste, Finish, Locals
<1> QED
  BY <1>3, <1>4, <1>5, <1>6, <1>7, <1>8, <1>9 DEF Next, Loop, Session

-----------------------------------------------------------------------------
(* Plans are taken in their order.  A plan carries the number of the        *)
(* session that stored it, and what was taken comes from earlier sessions   *)
(* than the one in progress.                                                *)

TakenEarlier == \A i \in DOMAIN taken : taken[i] < ses.n
StoredEarlier ==
    /\ pending.n <= ses.n
    /\ pc \in {"capture", "copy"} => pending.n < ses.n

PlansInv == TypeOK /\ PlansTakenInOrder /\ TakenEarlier /\ StoredEarlier

LEMMA PlansInit == Init => PlansInv
<1> SUFFICES ASSUME Init
             PROVE  PlansInv
  OBVIOUS
<1>1. taken = << >> /\ DOMAIN taken = {} /\ pending = NoPlan
  BY DEF Init
<1>2. pc = "idle" /\ ses.n = 0 /\ pending.n = 0
  BY <1>1 DEF Init, Idle, NoPlan
<1> QED
  BY <1>1, <1>2, TypeInit
     DEF PlansInv, PlansTakenInOrder, TakenEarlier, StoredEarlier

\* A step that neither stores nor takes a plan, nor starts a session.
LEMMA PlansFrame ==
  ASSUME PlansInv, UNCHANGED <<pending, taken>>, ses'.n = ses.n,
         pc' \in {"capture", "copy"} => pc \in {"capture", "copy"}
  PROVE  PlansTakenInOrder' /\ TakenEarlier' /\ StoredEarlier'
BY DEF PlansInv, PlansTakenInOrder, TakenEarlier, StoredEarlier

\* The plan that is taken is newer than what was taken, and older than the
\* session that takes it.
LEMMA DecideInOrder ==
  ASSUME PlansInv, pc \in {"capture", "copy"}, NEW target, NEW raw,
         Decide(target, raw)
  PROVE  PlansTakenInOrder' /\ TakenEarlier' /\ StoredEarlier'
<1>1. /\ TypeOK /\ PlansTakenInOrder /\ TakenEarlier
      /\ pending.n < ses.n /\ pending.n \in Nat /\ ses.n \in Nat
  BY DEF PlansInv, StoredEarlier, TypeOK, Plans, Locals, Ids
<1>2. pending' = NoPlan /\ pc' \notin {"capture", "copy"}
  BY DEF Decide, Remaining, Done, Goto
<1>3. ses'.n = ses.n
  BY <1>1, DecideNumber DEF TypeOK
<1>4. StoredEarlier'
  BY <1>1, <1>2, <1>3 DEF StoredEarlier, NoPlan
<1>5. taken' = taken \/ (pending # NoPlan /\ taken' = Append(taken, pending.n))
  BY DEF Decide
<1>6. CASE taken' = taken
  BY <1>1, <1>2, <1>3, <1>4, <1>6 DEF PlansTakenInOrder, TakenEarlier
<1>7. CASE pending # NoPlan /\ taken' = Append(taken, pending.n)
  <2>1. \A i \in DOMAIN taken : taken[i] < pending.n
    BY <1>1, <1>7 DEF PlansTakenInOrder
  <2>2. taken \in Seq(Nat) /\ DOMAIN taken = 1 .. Len(taken) /\ Len(taken) \in Nat
    BY <1>1 DEF TypeOK, Ids
  <2>3. DOMAIN taken' = 1 .. (Len(taken) + 1)
    BY <1>1, <1>7, <2>2
  <2>4. taken'[Len(taken) + 1] = pending.n
    BY <1>1, <1>7, <2>2
  <2>5. \A i \in 1 .. Len(taken) : taken'[i] = taken[i]
    BY <1>1, <1>7, <2>2
  <2>6. TakenEarlier'
    BY <1>1, <1>3, <2>2, <2>3, <2>4, <2>5 DEF TakenEarlier
  <2>7. ASSUME NEW i \in DOMAIN taken', NEW j \in DOMAIN taken', i < j
        PROVE  taken'[i] < taken'[j]
    <3>1. i \in 1 .. Len(taken)
      BY <2>2, <2>3, <2>7
    <3>2. CASE j = Len(taken) + 1
      BY <2>1, <2>2, <2>4, <2>5, <3>1, <3>2
    <3>3. CASE j # Len(taken) + 1
      <4>1. j \in 1 .. Len(taken)
        BY <2>2, <2>3, <3>3
      <4> QED
        BY <1>1, <2>2, <2>5, <2>7, <3>1, <4>1 DEF PlansTakenInOrder
    <3> QED
      BY <3>2, <3>3
  <2> QED
    BY <1>2, <1>4, <2>6, <2>7 DEF PlansTakenInOrder
<1> QED
  BY <1>5, <1>6, <1>7

LEMMA PlansStep ==
  ASSUME PlansInv, [Next]_vars
  PROVE  PlansTakenInOrder' /\ TakenEarlier' /\ StoredEarlier'
<1> USE DEF Goto, store
<1>1. TypeOK /\ ses \in Locals /\ ses.n \in Nat
  BY DEF PlansInv, TypeOK, Locals, Ids
<1>2. ses'.n = ses.n \/ (pc = "idle" /\ pc' = "capture")
  BY <1>1, SessionNumber
<1>3. CASE User \/ Task \/ Dictate \/ SendVoice \/ UNCHANGED vars
  <2>1. /\ UNCHANGED <<pending, taken, ses>>
        /\ UNCHANGED pc \/ pc' \notin {"capture", "copy"}
    BY <1>3 DEF User, Press, Type, Switch, Strike, Task, CheckPaste, PasteAgain,
       Dictate, SendVoice, vars
  <2> QED
    BY <2>1, PlansFrame
<1>4. CASE Receive
  <2>1. UNCHANGED <<pending, taken>>
    BY <1>4 DEF Receive
  <2>2. CASE ses' = Idle(ses.n + 1)
    <3>1. ses'.n = ses.n + 1
      BY <2>2 DEF Idle
    <3>2. pending.n \in Nat /\ pending.n <= ses.n
      BY <1>1 DEF PlansInv, StoredEarlier, TypeOK, Plans, Ids
    <3>3. \A i \in DOMAIN taken : taken[i] \in Nat
      BY <1>1 DEF TypeOK, Ids
    <3>4. TakenEarlier'
      BY <1>1, <2>1, <3>1, <3>3 DEF PlansInv, TakenEarlier
    <3>5. StoredEarlier'
      BY <1>1, <2>1, <3>1, <3>2 DEF StoredEarlier
    <3> QED
      BY <2>1, <3>4, <3>5 DEF PlansInv, PlansTakenInOrder
  <2>3. CASE UNCHANGED ses /\ (UNCHANGED pc \/ pc' = "voice")
    BY <2>1, <2>3, PlansFrame
  <2> QED
    BY <1>4, <2>2, <2>3 DEF Receive
<1>5. CASE CaptureFocused \/ CopySelection
  <2>1. CASE NothingCaptured
    <3>1. UNCHANGED <<pending, taken>> /\ pc' = "idle"
      BY <2>1 DEF NothingCaptured, Done
    <3> QED
      BY <1>2, <3>1, PlansFrame
  <2>2. CASE \E target, raw : Decide(target, raw)
    <3>1. pc \in {"capture", "copy"}
      BY <1>5 DEF CaptureFocused, CopySelection
    <3> QED
      BY <2>2, <3>1, DecideInOrder
  <2> QED
    BY <1>5, <2>1, <2>2 DEF CaptureFocused, CopySelection
<1>6. CASE CaptureByClipboard
  <2>1. ses'.n = ses.n /\ pc = "capture" /\ UNCHANGED <<pending, taken>>
    BY <1>1, <1>6 DEF CaptureByClipboard, Locals
  <2> QED
    BY <2>1, PlansFrame
<1>7. CASE InlinePlan \/ DraftPlan
  <2>1. /\ pending'.n = ses.n /\ UNCHANGED <<taken, ses>>
        /\ pc' \notin {"capture", "copy"}
    <3>1. PICK shown \in BOOLEAN : pending' = NewPlan(shown)
      BY <1>7 DEF InlinePlan, DraftPlan
    <3>2. NewPlan(shown).n = ses.n
      BY DEF NewPlan
    <3>3. UNCHANGED <<taken, ses>> /\ pc' \in {"prepare", "paste line"}
      BY <1>7 DEF InlinePlan, DraftPlan
    <3> QED
      BY <3>1, <3>2, <3>3
  <2>2. TakenEarlier'
    BY <2>1 DEF PlansInv, TakenEarlier
  <2>3. StoredEarlier'
    <3>1. pending'.n = ses.n /\ ses'.n = ses.n /\ pc' \notin {"capture", "copy"}
      BY <2>1
    <3> QED
      BY <1>1, <3>1 DEF StoredEarlier
  <2> QED
    BY <2>1, <2>2, <2>3 DEF PlansInv, PlansTakenInOrder, TakenEarlier
<1>8. CASE \/ ReportReady \/ InjectReplaceLine \/ Refuse \/ GuardBlocks \/ Proceed
           \/ NoPlanNeeded \/ Prepare \/ StreamEnds \/ StreamFails \/ FallbackEnds
           \/ StreamTimesOut \/ Screen
           \/ Feynman
  <2>1. UNCHANGED <<pending, taken>> /\ pc' \notin {"capture", "copy"}
    BY <1>8 DEF ReportReady, InjectReplaceLine, Done, Refuse, GuardBlocks, Proceed,
       NoPlanNeeded, Prepare, StreamEnds, StreamFails, FallbackEnds, Answered,
       StreamTimesOut, Screen, Feynman, ToWrite
  <2>2. ses'.n = ses.n
    BY <1>2, <2>1
  <2> QED
    BY <2>1, <2>2, PlansFrame
<1>9. CASE Retry
  <2>1. UNCHANGED <<pending, taken>> /\ pc' \notin {"capture", "copy"}
    BY <1>9 DEF Retry, GiveUp, Done
  <2>2. ses'.n = ses.n
    BY <1>2, <2>1
  <2> QED
    BY <2>1, <2>2, PlansFrame
<1>10. CASE SkipWriter \/ SchemaRetry \/ WriteNatively
  <2>1. UNCHANGED <<pending, taken>> /\ pc' \notin {"capture", "copy"}
    BY <1>10 DEF SkipWriter, SchemaRetry, WriteNatively, Written, Done
  <2>2. ses'.n = ses.n
    BY <1>2, <2>1
  <2> QED
    BY <2>1, <2>2, PlansFrame
<1>11. CASE \/ KeepOut \/ LeaveToPeers \/ PrepareClipboard
            \/ FocusTarget \/ Settle \/ Paste \/ Finish
  <2>1. UNCHANGED <<pending, taken>> /\ pc' \notin {"capture", "copy"}
    BY <1>11 DEF KeepOut, LeaveToPeers, PrepareClipboard, FocusTarget, Settle,
       Paste, Finish, Done
  <2>2. ses'.n = ses.n
    BY <1>2, <2>1
  <2> QED
    BY <2>1, <2>2, PlansFrame
<1> QED
  BY <1>3, <1>4, <1>5, <1>6, <1>7, <1>8, <1>9, <1>10, <1>11 DEF Next, Loop, Session

\* No plan is executed as approved twice, and none after a newer one, however
\* sessions, other commands and plans that are never approved follow each other.
THEOREM PlansAreTakenInOrder == Spec => []PlansTakenInOrder
<1>1. Init => PlansInv
  BY PlansInit
<1>2. PlansInv /\ [Next]_vars => PlansInv'
  BY TypeStep, PlansStep DEF PlansInv
<1>3. PlansInv => PlansTakenInOrder
  BY DEF PlansInv
<1> QED
  BY <1>1, <1>2, <1>3, PTL DEF Spec

-----------------------------------------------------------------------------
(* The audit log of a session.  Before it starts, a session has no entry;   *)
(* from the stream to the end, the last entry is its start.                 *)

Early == {"capture", "copy", "route", "planning", "prepare"}
Late == {"stream", "fallback", "screen", "retry", "verify", "write", "focus", "settle",
         "paste", "finish"}

NotAudited == \A i \in DOMAIN audit : audit[i].s < ses.n
Started ==
    /\ audit # << >>
    /\ audit[Len(audit)] = [e |-> "Started", s |-> ses.n]

AuditPlace ==
    /\ \A i \in DOMAIN audit : audit[i].s <= ses.n
    /\ pc \in Early => NotAudited
    /\ pc \in Late => Started

AuditInv == TypeOK /\ OneOutcome /\ AuditPlace

LEMMA AuditInit == Init => AuditInv
<1> SUFFICES ASSUME Init
             PROVE  AuditInv
  OBVIOUS
<1>1. audit = << >> /\ DOMAIN audit = {} /\ pc = "idle"
  BY DEF Init
<1> QED
  BY <1>1, TypeInit DEF AuditInv, AuditPlace, OneOutcome, Early, Late

\* The entries of a log after one more.
LEMMA Logged ==
  ASSUME TypeOK, NEW e \in {"Blocked", "Started", "Completed"}, Log(e)
  PROVE  /\ audit' \in Seq(Entries) /\ Len(audit) \in Nat
         /\ DOMAIN audit = 1 .. Len(audit) /\ DOMAIN audit' = 1 .. (Len(audit) + 1)
         /\ audit'[Len(audit) + 1] = [e |-> e, s |-> ses.n]
         /\ \A i \in 1 .. Len(audit) : audit'[i] = audit[i]
         /\ \A i \in 1 .. Len(audit) : audit[i].s \in Nat
         /\ ses.n \in Nat /\ Len(audit') = Len(audit) + 1
<1> DEFINE new == [e |-> e, s |-> ses.n]
<1>1. audit \in Seq(Entries) /\ ses.n \in Nat
  BY DEF TypeOK, Locals, Ids
<1>2. new \in Entries
  BY <1>1 DEF Entries, Ids
<1>3. audit' = Append(audit, new)
  BY DEF Log
<1>4. ASSUME NEW i \in 1 .. Len(audit)
      PROVE  audit[i].s \in Nat
  <2>1. audit[i] \in Entries
    BY <1>1
  <2> QED
    BY <2>1 DEF Entries, Ids
<1> HIDE DEF new
<1>5. Len(audit) \in Nat /\ DOMAIN audit = 1 .. Len(audit)
  BY <1>1
<1>6. Append(audit, new) \in Seq(Entries) /\ Len(Append(audit, new)) = Len(audit) + 1
  BY <1>1, <1>2
<1>7. DOMAIN Append(audit, new) = 1 .. (Len(audit) + 1)
  BY <1>1, <1>2
<1>8. Append(audit, new)[Len(audit) + 1] = new
  BY <1>1, <1>2
<1>9. \A i \in 1 .. Len(audit) : Append(audit, new)[i] = audit[i]
  BY <1>1, <1>2
<1> QED
  BY <1>1, <1>3, <1>4, <1>5, <1>6, <1>7, <1>8, <1>9 DEF new

\* The first entry of a session, which says that it started or was blocked.
LEMMA FirstEntry ==
  ASSUME TypeOK, OneOutcome, NotAudited, NEW e \in {"Blocked", "Started"}, Log(e)
  PROVE  OneOutcome' /\ \A i \in DOMAIN audit' : audit'[i].s <= ses.n
<1> DEFINE n == Len(audit)
<1>1. /\ n \in Nat /\ DOMAIN audit = 1 .. n /\ DOMAIN audit' = 1 .. (n + 1)
      /\ audit'[n + 1] = [e |-> e, s |-> ses.n]
      /\ \A i \in 1 .. n : audit'[i] = audit[i]
      /\ \A i \in 1 .. n : audit[i].s \in Nat
      /\ ses.n \in Nat
  BY Logged
<1> HIDE DEF n
<1>2. \A i \in 1 .. n : audit'[i].s < ses.n
  BY <1>1 DEF NotAudited
<1>3. ASSUME NEW i \in DOMAIN audit', NEW j \in DOMAIN audit', i < j
      PROVE  /\ audit'[i].s <= audit'[j].s
             /\ audit'[i].s = audit'[j].s =>
                  audit'[i].e = "Started" /\ audit'[j].e # "Started"
  <2>1. i \in 1 .. n
    BY <1>1, <1>3
  <2>2. CASE j = n + 1
    BY <1>1, <1>2, <2>1, <2>2
  <2>3. CASE j # n + 1
    <3>1. j \in 1 .. n
      BY <1>1, <2>3
    <3> QED
      BY <1>1, <1>3, <2>1, <3>1 DEF OneOutcome
  <2> QED
    BY <2>2, <2>3
<1>4. ASSUME NEW j \in DOMAIN audit', audit'[j].e = "Completed"
      PROVE  j > 1 /\ audit'[j - 1] = [e |-> "Started", s |-> audit'[j].s]
  <2>1. j # n + 1
    BY <1>1, <1>4
  <2>2. j \in 1 .. n
    BY <1>1, <2>1
  <2>3. j > 1 /\ audit[j - 1] = [e |-> "Started", s |-> audit[j].s]
    BY <1>1, <1>4, <2>2 DEF OneOutcome
  <2>4. j - 1 \in 1 .. n
    BY <1>1, <2>2, <2>3
  <2> QED
    BY <1>1, <2>2, <2>3, <2>4
<1>5. \A i \in DOMAIN audit' : audit'[i].s <= ses.n
  <2>1. ASSUME NEW i \in 1 .. (n + 1)
        PROVE  audit'[i].s <= ses.n
    <3>1. CASE i \in 1 .. n
      BY <1>1, <1>2, <3>1
    <3>2. CASE i = n + 1
      BY <1>1, <3>2
    <3> QED
      BY <1>1, <3>1, <3>2
  <2> QED
    BY <1>1, <2>1
<1> QED
  BY <1>3, <1>4, <1>5 DEF OneOutcome

\* Its outcome, right after its start.
LEMMA OutcomeEntry ==
  ASSUME AuditInv, Started, NEW e \in {"Blocked", "Completed"}, Log(e)
  PROVE  OneOutcome' /\ \A i \in DOMAIN audit' : audit'[i].s <= ses.n
<1> DEFINE n == Len(audit)
<1>1. /\ n \in Nat /\ DOMAIN audit = 1 .. n /\ DOMAIN audit' = 1 .. (n + 1)
      /\ audit'[n + 1] = [e |-> e, s |-> ses.n]
      /\ \A i \in 1 .. n : audit'[i] = audit[i]
      /\ \A i \in 1 .. n : audit[i].s \in Nat
      /\ ses.n \in Nat
  BY Logged DEF AuditInv
<1>2. n \in 1 .. n /\ audit[n] = [e |-> "Started", s |-> ses.n]
  <2>1. audit \in Seq(Entries) /\ audit # << >>
    BY DEF AuditInv, TypeOK, Started
  <2>2. Len(audit) # 0
    BY <2>1
  <2> QED
    BY <1>1, <2>2 DEF Started
<1>3. OneOutcome /\ \A i \in 1 .. n : audit[i].s <= ses.n
  BY <1>1 DEF AuditInv, AuditPlace
<1> HIDE DEF n
\* A session starts once, so what is before belongs to earlier ones.
<1>4. ASSUME NEW i \in 1 .. n, i < n
      PROVE  audit[i].s < ses.n
  <2>1. i \in DOMAIN audit /\ n \in DOMAIN audit
    BY <1>1, <1>2
  <2>2. audit[i].s # audit[n].s
    BY <1>2, <1>3, <1>4, <2>1 DEF OneOutcome
  <2> QED
    BY <1>1, <1>2, <1>3, <2>2
<1>5. ASSUME NEW i \in DOMAIN audit', NEW j \in DOMAIN audit', i < j
      PROVE  /\ audit'[i].s <= audit'[j].s
             /\ audit'[i].s = audit'[j].s =>
                  audit'[i].e = "Started" /\ audit'[j].e # "Started"
  <2>1. i \in 1 .. n
    BY <1>1, <1>5
  <2>2. CASE j = n + 1
    <3>1. CASE i = n
      BY <1>1, <1>2, <2>1, <2>2, <3>1
    <3>2. CASE i # n
      <4>1. audit[i].s < ses.n /\ audit[i].s \in Nat /\ audit'[i] = audit[i]
        BY <1>1, <1>4, <2>1, <3>2
      <4>2. audit'[j].s = ses.n
        BY <1>1, <2>2
      <4> QED
        BY <1>1, <4>1, <4>2
    <3> QED
      BY <3>1, <3>2
  <2>3. CASE j # n + 1
    <3>1. j \in 1 .. n
      BY <1>1, <2>3
    <3> QED
      BY <1>1, <1>3, <1>5, <2>1, <3>1 DEF OneOutcome
  <2> QED
    BY <2>2, <2>3
<1>6. ASSUME NEW j \in DOMAIN audit', audit'[j].e = "Completed"
      PROVE  j > 1 /\ audit'[j - 1] = [e |-> "Started", s |-> audit'[j].s]
  <2>1. CASE j = n + 1
    <3>1. j > 1 /\ j - 1 = n
      BY <1>1, <1>2, <2>1
    <3> QED
      BY <1>1, <1>2, <2>1, <3>1
  <2>2. CASE j # n + 1
    <3>1. j \in 1 .. n
      BY <1>1, <2>2
    <3>2. j > 1 /\ audit[j - 1] = [e |-> "Started", s |-> audit[j].s]
      BY <1>1, <1>3, <1>6, <3>1 DEF OneOutcome
    <3>3. j - 1 \in 1 .. n
      BY <1>1, <3>1, <3>2
    <3> QED
      BY <1>1, <3>1, <3>2, <3>3
  <2> QED
    BY <2>1, <2>2
<1>7. \A i \in DOMAIN audit' : audit'[i].s <= ses.n
  <2>1. ASSUME NEW i \in 1 .. (n + 1)
        PROVE  audit'[i].s <= ses.n
    <3>1. CASE i \in 1 .. n
      BY <1>1, <1>3, <3>1
    <3>2. CASE i = n + 1
      BY <1>1, <3>2
    <3> QED
      BY <1>1, <3>1, <3>2
  <2> QED
    BY <1>1, <2>1
<1> QED
  BY <1>5, <1>6, <1>7 DEF OneOutcome

\* A step that writes no entry and stays on its side of the start.
LEMMA AuditFrame ==
  ASSUME AuditInv, UNCHANGED audit, ses'.n = ses.n,
         pc' \in Early => pc \in Early, pc' \in Late => pc \in Late
  PROVE  OneOutcome' /\ AuditPlace'
BY DEF AuditInv, AuditPlace, OneOutcome, NotAudited, Started

LEMMA AuditStep ==
  ASSUME AuditInv, [Next]_vars
  PROVE  OneOutcome' /\ AuditPlace'
<1> USE DEF Goto, store
<1>1. TypeOK /\ OneOutcome /\ AuditPlace
  BY DEF AuditInv
<1>2. \/ ses'.n = ses.n
      \/ /\ pc = "idle" /\ pc' = "capture" /\ ses'.n = ses.n + 1
         /\ UNCHANGED audit
  BY <1>1, SessionNumber
<1>3. CASE pc = "idle" /\ pc' = "capture" /\ ses'.n = ses.n + 1 /\ UNCHANGED audit
  <2>1. ses.n \in Nat /\ \A i \in DOMAIN audit : audit[i].s \in Nat
    <3>1. audit \in Seq(Entries) /\ ses.n \in Nat
      BY <1>1 DEF TypeOK, Locals, Ids
    <3>2. \A i \in DOMAIN audit : audit[i] \in Entries
      BY <3>1
    <3> QED
      BY <3>1, <3>2 DEF Entries, Ids
  <2>2. \A i \in DOMAIN audit : audit[i].s <= ses.n
    BY <1>1 DEF AuditPlace
  <2>3. NotAudited' /\ \A i \in DOMAIN audit' : audit'[i].s <= ses'.n
    BY <1>3, <2>1, <2>2 DEF NotAudited
  <2> QED
    BY <1>1, <1>3, <2>3 DEF AuditPlace, OneOutcome, Late
<1>4. ASSUME UNCHANGED audit, pc' \in Early => pc \in Early, pc' \in Late => pc \in Late
      PROVE  OneOutcome' /\ AuditPlace'
  BY <1>2, <1>3, <1>4, AuditFrame
<1>5. CASE User \/ Task \/ Dictate \/ SendVoice \/ Receive \/ UNCHANGED vars
  <2>1. UNCHANGED audit
    BY <1>5 DEF User, Press, Type, Switch, Task, CheckPaste, PasteAgain,
       Dictate, SendVoice, Receive, vars
  <2>2. \/ UNCHANGED pc
        \/ pc' \in {"idle", "voice", "voice captured"}
        \/ pc = "idle" /\ pc' = "capture" /\ ses' = Idle(ses.n + 1)
    BY <1>5 DEF User, Press, Type, Switch, Task, CheckPaste, PasteAgain,
       Dictate, SendVoice, Receive, vars
  <2>3. CASE pc = "idle" /\ pc' = "capture" /\ ses' = Idle(ses.n + 1)
    <3>1. ses'.n = ses.n + 1
      BY <2>3 DEF Idle
    <3> QED
      BY <1>3, <2>1, <2>3, <3>1
  <2>4. CASE UNCHANGED pc \/ pc' \in {"idle", "voice", "voice captured"}
    BY <1>4, <2>1, <2>4 DEF Early, Late
  <2> QED
    BY <2>2, <2>3, <2>4
<1>6. CASE \/ CaptureFocused \/ CopySelection \/ CaptureByClipboard \/ ReportReady
           \/ InjectReplaceLine \/ Refuse \/ Proceed \/ NoPlanNeeded \/ InlinePlan
           \/ DraftPlan
  <2>1. UNCHANGED audit /\ pc' \notin Late
    BY <1>6 DEF CaptureFocused, CopySelection, Decide, NothingCaptured,
       CaptureByClipboard, ReportReady, InjectReplaceLine, Refuse, Proceed,
       NoPlanNeeded, InlinePlan, DraftPlan, Done, Late
  <2>2. pc \in Early \/ pc' \in {"idle", "paste line"}
    BY <1>6 DEF CaptureFocused, CopySelection, CaptureByClipboard, ReportReady,
       InjectReplaceLine, Refuse, Proceed, NoPlanNeeded, InlinePlan, DraftPlan,
       Done, Early
  <2> QED
    BY <1>4, <2>1, <2>2 DEF Early
<1>7. CASE \/ StreamEnds \/ StreamFails \/ FallbackEnds
           \/ StreamTimesOut \/ Screen \/ Retry \/ Feynman
           \/ SkipWriter \/ SchemaRetry \/ WriteNatively
           \/ KeepOut \/ LeaveToPeers \/ PrepareClipboard \/ FocusTarget \/ Settle \/ Paste
  <2>1. UNCHANGED audit
    BY <1>7 DEF StreamEnds, StreamFails, FallbackEnds, Answered,
       StreamTimesOut, Screen, Retry, GiveUp, Feynman,
       SkipWriter, SchemaRetry, WriteNatively, KeepOut, LeaveToPeers, PrepareClipboard,
       FocusTarget, Settle, Paste
  <2>2. pc \in Late
    BY <1>7 DEF StreamEnds, StreamFails, FallbackEnds, Answered,
       StreamTimesOut, Screen, Retry, Feynman,
       SkipWriter, SchemaRetry, WriteNatively, KeepOut, LeaveToPeers, PrepareClipboard,
       FocusTarget, Settle, Paste, Late
  <2>3. pc' = pc \/ pc' \notin Early
    BY <1>7 DEF StreamEnds, StreamFails, FallbackEnds, Answered,
       StreamTimesOut, Screen, Retry, GiveUp, Feynman, ToWrite,
       SkipWriter, SchemaRetry, WriteNatively, Written, KeepOut, LeaveToPeers,
       PrepareClipboard, FocusTarget, Settle, Paste, Done, Early
  <2>4. pc' \notin Early
    BY <2>2, <2>3 DEF Early, Late
  <2> QED
    BY <1>4, <2>1, <2>2, <2>4
<1>8. CASE GuardBlocks
  <2>1. pc = "route" /\ pc' = "idle" /\ Log("Blocked")
    BY <1>8 DEF GuardBlocks, Done
  <2>2. NotAudited
    BY <1>1, <2>1 DEF AuditPlace, Early
  <2>3. OneOutcome' /\ \A i \in DOMAIN audit' : audit'[i].s <= ses.n
    BY <1>1, <2>1, <2>2, FirstEntry
  <2> QED
    BY <1>2, <2>1, <2>3 DEF AuditPlace, Early, Late
<1>9. CASE Prepare
  <2>1. pc = "prepare" /\ pc' = "stream" /\ Log("Started")
    BY <1>9 DEF Prepare
  <2>2. NotAudited
    BY <1>1, <2>1 DEF AuditPlace, Early
  <2>3. OneOutcome' /\ \A i \in DOMAIN audit' : audit'[i].s <= ses.n
    BY <1>1, <2>1, <2>2, FirstEntry
  <2>4. ses'.n = ses.n
    BY <1>2, <2>1
  <2>5. Started'
    <3>1. /\ audit' \in Seq(Entries) /\ Len(audit') = Len(audit) + 1
          /\ Len(audit) \in Nat
          /\ audit'[Len(audit) + 1] = [e |-> "Started", s |-> ses.n]
      BY <1>1, <2>1, Logged
    <3>2. audit' # << >>
      BY <3>1
    <3> QED
      BY <2>4, <3>1, <3>2 DEF Started
  <2> QED
    BY <2>1, <2>3, <2>4, <2>5 DEF AuditPlace, Early
<1>10. CASE Finish
  <2>1. PICK e \in {"Blocked", "Completed"} : Log(e)
    BY <1>10 DEF Finish
  <2>2. pc = "finish" /\ pc' = "idle"
    BY <1>10 DEF Finish, Done
  <2>3. Started
    BY <1>1, <2>2 DEF AuditPlace, Late
  <2>4. OneOutcome' /\ \A i \in DOMAIN audit' : audit'[i].s <= ses.n
    BY <2>1, <2>3, OutcomeEntry
  <2> QED
    BY <1>2, <2>2, <2>4 DEF AuditPlace, Early, Late
<1> QED
  BY <1>5, <1>6, <1>7, <1>8, <1>9, <1>10 DEF Next, Loop, Session

\* A session has at most one outcome in the audit log, right after its start
\* unless the guard stopped it before, and entries follow the sessions' order.
THEOREM OneOutcomeHolds == Spec => []OneOutcome
<1>1. Init => AuditInv
  BY AuditInit
<1>2. AuditInv /\ [Next]_vars => AuditInv'
  BY TypeStep, AuditStep DEF AuditInv
<1>3. AuditInv => OneOutcome
  BY DEF AuditInv
<1> QED
  BY <1>1, <1>2, <1>3, PTL DEF Spec

-----------------------------------------------------------------------------
(* A confirmed write to the file is the last that is heard of its session.  *)
(* It ends the session, and the clipboard and the tasks hold answers of     *)
(* sessions that went on to the paste.                                      *)

BeforePaste == {"capture", "copy", "report", "route", "planning", "prepare",
                "stream", "fallback", "screen", "retry", "verify", "write"}
Between == {"idle", "voice", "voice captured"}

\* The sessions whose text is on the clipboard or in a task.
Held == {clip.s} \cup {k.c.s : k \in checks}

InFile(n) ==
    \E w \in Windows : \E i \in DOMAIN docs[w] :
        docs[w][i].via = "file" /\ docs[w][i].s = n

\* NativeOrPasted, mark by mark.
OnceNative ==
    \A w \in Windows : \A i \in DOMAIN docs[w] :
        docs[w][i].via = "file" =>
            /\ \A j \in DOMAIN docs[w] : j > i => docs[w][j].s # docs[w][i].s
            /\ \A v \in Windows : \A j \in DOMAIN docs[v] :
                 docs[v][j].what = "response" /\ docs[v][j].s = docs[w][i].s
                   => docs[v][j].via \in {"file", "unconfirmed"}

MarksSoFar ==
    \A w \in Windows : \A i \in DOMAIN docs[w] :
        /\ docs[w][i].s <= ses.n
        /\ pc \in BeforePaste /\ docs[w][i].s = ses.n => docs[w][i].via = "unconfirmed"

HeldSoFar ==
    \A n \in Held : /\ n <= ses.n /\ ~InFile(n)
                    /\ pc \in BeforePaste => n # ses.n

NativeInv ==
    /\ TypeOK /\ MarksSoFar /\ HeldSoFar /\ OnceNative
    /\ ~InFile(0)
    /\ InFile(ses.n) => pc \in Between
    /\ pc \notin Between => ses.n # 0

NewSession ==
    /\ pc = "idle" /\ pc' = "capture" /\ ses'.n = ses.n + 1
    /\ UNCHANGED <<docs, clip, checks>>

SameSession ==
    /\ ses'.n = ses.n
    /\ pc' \in BeforePaste => pc \in BeforePaste
    /\ pc \in Between => pc' \in Between

\* A session is begun by the hotkey and goes one way.
LEMMA SessionStep == ASSUME TypeOK, [Next]_vars PROVE NewSession \/ SameSession
<1> USE DEF Goto
<1>1. ses \in Locals
  BY DEF TypeOK
<1>2. \A n : Idle(n).n = n
  BY DEF Idle
<1>3. CASE User \/ Task \/ UNCHANGED vars
  <2>1. UNCHANGED <<pc, ses>>
    BY <1>3 DEF User, Press, Type, Switch, Strike, Task, CheckPaste, PasteAgain, vars
  <2> QED
    BY <2>1 DEF SameSession
<1>4. CASE Receive
  <2>1. CASE Goto("capture") /\ ses' = Idle(ses.n + 1) /\ UNCHANGED screen
    <3>1. ses'.n = ses.n + 1
      BY <1>2, <2>1
    <3> QED
      BY <1>4, <2>1, <3>1 DEF Receive, NewSession, screen
  <2>2. CASE UNCHANGED ses /\ (pc' = "voice" \/ UNCHANGED pc)
    BY <1>4, <2>2 DEF Receive, SameSession, BeforePaste, Between
  <2> QED
    BY <1>4, <2>1, <2>2 DEF Receive
<1>5. CASE Dictate \/ SendVoice
  <2>1. UNCHANGED ses /\ pc \in Between /\ pc' \in Between
    BY <1>5 DEF Dictate, SendVoice, Between
  <2> QED
    BY <2>1 DEF SameSession, BeforePaste, Between
<1>6. ASSUME Done, pc \notin Between
      PROVE  SameSession
  BY <1>2, <1>6 DEF Done, SameSession, BeforePaste
<1>7. ASSUME NEW t \in Windows, NEW raw, Decide(t, raw), pc \in BeforePaste
      PROVE  SameSession
  <2>1. CASE Done
    BY <1>6, <1>7, <2>1 DEF BeforePaste, Between
  <2>2. CASE ~Done
    <3>1. pc' \in {"report", "route"} /\ ses'.n = ses.n
      BY <1>1, <1>7, <2>2 DEF Decide, Locals
    <3> QED
      BY <1>7, <3>1 DEF SameSession, BeforePaste, Between
  <2> QED
    BY <2>1, <2>2
<1>8. CASE CaptureFocused \/ CopySelection
  <2>1. pc \in BeforePaste /\ pc \notin Between /\ hwnd \in Windows /\ ses.target \in Windows
    BY <1>1, <1>8 DEF CaptureFocused, CopySelection, BeforePaste, Between, TypeOK, Locals
  <2> QED
    BY <1>6, <1>7, <1>8, <2>1 DEF CaptureFocused, CopySelection, NothingCaptured
<1>9. CASE InjectReplaceLine \/ Refuse \/ GuardBlocks \/ KeepOut \/ Finish
  <2>1. Done /\ pc \notin Between
    BY <1>9 DEF InjectReplaceLine, Refuse, GuardBlocks, KeepOut, Finish, Between
  <2> QED
    BY <1>6, <2>1
<1>10. CASE \/ CaptureByClipboard \/ ReportReady \/ Proceed \/ NoPlanNeeded
            \/ InlinePlan \/ DraftPlan \/ Prepare \/ StreamEnds \/ StreamFails \/ FallbackEnds
            \/ StreamTimesOut
            \/ Screen \/ LeaveToPeers \/ PrepareClipboard
  <2>1. pc \in BeforePaste /\ pc \notin Between
    BY <1>10 DEF CaptureByClipboard, ReportReady, Proceed, NoPlanNeeded, InlinePlan,
       DraftPlan, Prepare, StreamEnds, StreamFails, FallbackEnds, Answered,
       StreamTimesOut, Screen, LeaveToPeers,
       PrepareClipboard, BeforePaste, Between
  <2>2. ses'.n = ses.n
    BY <1>1, <1>10 DEF CaptureByClipboard, ReportReady, Proceed, NoPlanNeeded,
       InlinePlan, DraftPlan, Prepare, StreamEnds, StreamFails, FallbackEnds, Answered,
       StreamTimesOut, Screen,
       LeaveToPeers, PrepareClipboard, Locals
  <2> QED
    BY <2>1, <2>2 DEF SameSession
<1>11. CASE Retry
  <2>1. pc \in BeforePaste /\ pc \notin Between
    BY <1>11 DEF Retry, BeforePaste, Between
  <2>2. Done \/ ses'.n = ses.n
    BY <1>1, <1>11 DEF Retry, GiveUp, Locals
  <2> QED
    BY <1>6, <2>1, <2>2 DEF SameSession
<1>12. CASE Feynman \/ SkipWriter \/ SchemaRetry \/ WriteNatively
  <2>1. pc \in BeforePaste /\ pc \notin Between
    BY <1>12 DEF Feynman, SkipWriter, SchemaRetry, WriteNatively, BeforePaste, Between
  <2>2. Done \/ ses'.n = ses.n
    BY <1>1, <1>12 DEF Feynman, ToWrite, SkipWriter, SchemaRetry, WriteNatively,
       Written, Locals
  <2> QED
    BY <1>6, <2>1, <2>2 DEF SameSession
<1>13. CASE FocusTarget \/ Settle \/ Paste
  <2>1. pc \notin Between /\ pc' \notin BeforePaste /\ ses'.n = ses.n
    BY <1>1, <1>13 DEF FocusTarget, Settle, Paste, BeforePaste, Between, Locals
  <2> QED
    BY <2>1 DEF SameSession
<1> QED
  BY <1>3, <1>4, <1>5, <1>8, <1>9, <1>10, <1>11, <1>12, <1>13 DEF Next, Loop, Session

\* The clipboard and the tasks get the text of the session that goes on to a
\* paste, or what they held before.
LEMMA HeldStep ==
  ASSUME TypeOK, [Next]_vars
  PROVE  \/ Held' \subseteq Held \cup {0}
         \/ /\ Held' \subseteq Held \cup {ses.n}
            /\ pc \notin Between /\ pc' \notin BeforePaste
<1> USE DEF Goto
<1>1. CASE UNCHANGED <<clip, checks>>
  BY <1>1 DEF Held
<1>2. CASE CopySelection
  <2>1. UNCHANGED checks /\ (clip' = clip \/ clip'.s = 0)
    BY <1>2 DEF CopySelection, UsersClip
  <2> QED
    BY <2>1 DEF Held
<1>3. ASSUME NEW c, SetClip(c), c.s = ses.n, UNCHANGED checks
      PROVE  Held' \subseteq Held \cup {ses.n}
  BY <1>3 DEF SetClip, Held
<1>4. CASE ReportReady \/ DraftPlan \/ PrepareClipboard
  <2>1. pc \notin Between /\ pc' \notin BeforePaste /\ UNCHANGED checks
    BY <1>4 DEF ReportReady, DraftPlan, PrepareClipboard, Between, BeforePaste
  <2> DEFINE C(what, text) == [s |-> ses.n, what |-> what, text |-> text]
  <2>2. \E what, text : SetClip(C(what, text))
    BY <1>4 DEF ReportReady, DraftPlan, PrepareClipboard
  <2>3. \A what, text : C(what, text).s = ses.n
    OBVIOUS
  <2> HIDE DEF C
  <2> QED
    BY <1>3, <2>1, <2>2, <2>3
<1>5. CASE Paste
  <2>1. pc \notin Between /\ pc' \notin BeforePaste /\ UNCHANGED clip
    BY <1>5 DEF Paste, Between, BeforePaste
  <2>2. \A k \in checks' : k \in checks \/ k.c.s = ses.n
    BY <1>5 DEF Paste
  <2> QED
    BY <2>1, <2>2 DEF Held
<1>6. CASE Task
  <2>1. PICK k \in checks : CheckPaste(k) \/ PasteAgain(k)
    BY <1>6 DEF Task
  <2>2. checks' \subseteq checks \cup {[k EXCEPT !.again = TRUE]}
    BY <2>1 DEF CheckPaste, PasteAgain
  <2>3. [k EXCEPT !.again = TRUE].c = k.c
    BY DEF TypeOK, Checks
  <2>4. clip' = clip \/ clip' = k.c
    BY <2>1 DEF CheckPaste, PasteAgain, SetClip
  <2> QED
    BY <2>2, <2>3, <2>4 DEF Held
<1>7. CASE User \/ Receive \/ Dictate \/ SendVoice \/ UNCHANGED vars
  <2>1. UNCHANGED <<clip, checks>>
    BY <1>7 DEF User, Press, Type, Switch, Receive, Dictate, SendVoice, screen, vars
  <2> QED
    BY <1>1, <2>1
<1>8. CASE \/ CaptureFocused \/ CaptureByClipboard \/ InjectReplaceLine
           \/ Refuse \/ GuardBlocks \/ Proceed \/ NoPlanNeeded \/ InlinePlan
           \/ Prepare \/ StreamEnds \/ StreamFails \/ FallbackEnds
           \/ StreamTimesOut \/ Screen \/ Retry \/ Feynman
           \/ SkipWriter \/ SchemaRetry \/ WriteNatively
           \/ KeepOut \/ LeaveToPeers \/ FocusTarget \/ Settle \/ Finish
  <2>1. UNCHANGED <<clip, checks>>
    BY <1>8 DEF CaptureFocused, CaptureByClipboard, InjectReplaceLine, Refuse,
       GuardBlocks, Proceed, NoPlanNeeded, InlinePlan, Prepare, StreamEnds,
       StreamFails, FallbackEnds, Answered,
       StreamTimesOut, Screen, Retry, Feynman, SkipWriter, SchemaRetry,
       WriteNatively, KeepOut, LeaveToPeers, FocusTarget, Settle, Finish, screen
  <2> QED
    BY <1>1, <2>1
<1> QED
  BY <1>2, <1>4, <1>5, <1>6, <1>7, <1>8 DEF Next, Loop, Session

-----------------------------------------------------------------------------
\* The marks that are left when one is taken away, or one is added.
KeepsMarks ==
    \A w \in Windows : \A i \in DOMAIN docs'[w] :
        i \in DOMAIN docs[w] /\ docs'[w][i] = docs[w][i]

AddsMark(m) ==
    \E new \in Windows : \A w \in Windows : \A i \in DOMAIN docs'[w] :
        \/ i \in DOMAIN docs[w] /\ docs'[w][i] = docs[w][i]
        \/ /\ w = new /\ docs'[w][i] = m
           /\ \A j \in DOMAIN docs'[w] : j <= i

LEMMA WriteAdds ==
  ASSUME TypeOK, NEW w \in Windows, NEW m \in Marks, Write(w, m)
  PROVE  AddsMark(m)
<1>1. /\ docs' = [docs EXCEPT ![w] = Append(docs[w], m)]
      /\ docs \in [Windows -> Seq(Marks)]
  BY DEF Write, TypeOK
<1>2. ASSUME NEW v \in Windows, NEW i \in DOMAIN docs'[v]
      PROVE  \/ i \in DOMAIN docs[v] /\ docs'[v][i] = docs[v][i]
             \/ /\ v = w /\ docs'[v][i] = m
                /\ \A j \in DOMAIN docs'[v] : j <= i
  <2>1. CASE v # w
    <3>1. docs'[v] = docs[v]
      BY <1>1, <2>1
    <3> QED
      BY <1>2, <3>1
  <2>2. CASE v = w
    <3> DEFINE d == docs[w]
    <3>1. docs'[v] = Append(d, m) /\ d \in Seq(Marks)
      BY <1>1, <2>2
    <3> HIDE DEF d
    <3>2. /\ DOMAIN Append(d, m) = 1 .. (Len(d) + 1) /\ Len(d) \in Nat
          /\ DOMAIN d = 1 .. Len(d) /\ Append(d, m)[Len(d) + 1] = m
          /\ \A j \in 1 .. Len(d) : Append(d, m)[j] = d[j]
      BY <3>1
    <3>3. i \in 1 .. Len(d) \/ i = Len(d) + 1
      BY <1>2, <3>1, <3>2
    <3>4. \A j \in DOMAIN docs'[v] : j <= Len(d) + 1
      BY <3>1, <3>2
    <3> QED
      BY <2>2, <3>1, <3>2, <3>3, <3>4 DEF d
  <2> QED
    BY <2>1, <2>2
<1> QED
  BY <1>2 DEF AddsMark

LEMMA UndoKeeps == ASSUME TypeOK, PerformUndo PROVE KeepsMarks
<1> DEFINE w == undo[Len(undo)].w
<1>1. docs' = IF docs[w] = << >> THEN docs
              ELSE [docs EXCEPT ![w] = SubSeq(docs[w], 1, Len(docs[w]) - 1)]
  BY DEF PerformUndo
<1>2. docs \in [Windows -> Seq(Marks)]
  BY DEF TypeOK
<1> HIDE DEF w
<1>3. ASSUME NEW v \in Windows, NEW i \in DOMAIN docs'[v]
      PROVE  i \in DOMAIN docs[v] /\ docs'[v][i] = docs[v][i]
  <2>1. CASE docs[w] = << >> \/ v # w
    <3>1. docs'[v] = docs[v]
      BY <1>1, <1>2, <2>1
    <3> QED
      BY <1>3, <3>1
  <2>2. CASE docs[w] # << >> /\ v = w
    <3> DEFINE d == docs[v]
    <3>1. d \in Seq(Marks) /\ d # << >> /\ docs'[v] = SubSeq(d, 1, Len(d) - 1)
      BY <1>1, <1>2, <2>2
    <3> HIDE DEF d
    <3>2. /\ SubSeq(d, 1, Len(d) - 1) \in Seq(Marks)
          /\ Len(SubSeq(d, 1, Len(d) - 1)) = Len(d) - 1
          /\ \A j \in 1 .. (Len(d) - 1) : SubSeq(d, 1, Len(d) - 1)[j] = d[j]
      BY <3>1, WithoutLast
    <3>3. DOMAIN d = 1 .. Len(d) /\ Len(d) \in Nat
      BY <3>1
    <3>4. i \in 1 .. (Len(d) - 1)
      <4>1. DOMAIN SubSeq(d, 1, Len(d) - 1) = 1 .. Len(SubSeq(d, 1, Len(d) - 1))
        BY <3>2
      <4> QED
        BY <1>3, <3>1, <3>2, <4>1
    <3>5. i \in DOMAIN d /\ docs'[v][i] = d[i]
      BY <3>1, <3>2, <3>3, <3>4
    <3> QED
      BY <3>5 DEF d
  <2> QED
    BY <2>1, <2>2
<1> QED
  BY <1>3 DEF KeepsMarks

\* What a step does to the documents.
Pastes == \E m : /\ AddsMark(m) /\ m.s = clip.s
                /\ m.via \in {"paste", "again"}
Files == \E m : /\ AddsMark(m) /\ m.s = ses.n /\ m.via = "file"
               /\ pc = "write" /\ pc' = "idle"
Loses == \E m : /\ AddsMark(m) /\ m.s = ses.n /\ m.via = "unconfirmed"
               /\ pc = "write"
Alerts == \E m : /\ AddsMark(m) /\ m.s = ses.n /\ m.via = "typed" /\ m.what = "alert"
                /\ pc = "finish" /\ pc' = "idle"

LEMMA DocsStep ==
  ASSUME TypeOK, [Next]_vars
  PROVE  \/ KeepsMarks \/ Pastes
         \/ (Files \/ Loses \/ Alerts) /\ UNCHANGED <<clip, checks>>
<1> USE DEF Goto
<1>1. focus \in Windows /\ clip \in Contents /\ ses \in Locals
  BY DEF TypeOK
<1>2. CASE UNCHANGED docs
  BY <1>2 DEF KeepsMarks
<1>3. ASSUME NEW via \in {"paste", "again"}, Write(focus, Mark(clip, via))
      PROVE  Pastes
  <2>1. Mark(clip, via) \in Marks
    BY <1>1, MarkTyped
  <2>2. Mark(clip, via).s = clip.s /\ Mark(clip, via).via = via
    BY DEF Mark
  <2> QED
    BY <1>1, <1>3, <2>1, <2>2, WriteAdds DEF Pastes
<1>4. CASE InjectReplaceLine \/ Paste
  BY <1>3, <1>4 DEF InjectReplaceLine, Paste, PasteLine
<1>5. CASE WriteNatively
  <2> DEFINE M(via) == [s |-> ses.n, what |-> "response", via |-> via, text |-> ses.job]
  <2>1. \A via \in {"file", "unconfirmed"} :
          M(via) \in Marks /\ M(via).s = ses.n /\ M(via).via = via
    BY <1>1 DEF Locals, Marks
  <2>2. ses.target \in Windows /\ pc = "write" /\ UNCHANGED <<clip, checks>>
    BY <1>1, <1>5 DEF WriteNatively, Locals
  <2>3. CASE Write(ses.target, M("file")) /\ Written
    <3>1. AddsMark(M("file")) /\ pc' = "idle"
      BY <2>1, <2>2, <2>3, WriteAdds DEF Written, Done
    <3> QED
      BY <2>1, <2>2, <3>1 DEF Files
  <2>4. CASE Write(ses.target, M("unconfirmed"))
    <3>1. AddsMark(M("unconfirmed"))
      BY <2>1, <2>2, <2>4, WriteAdds
    <3> QED
      BY <2>1, <2>2, <3>1 DEF Loses
  <2> HIDE DEF M
  <2>5. \/ Write(ses.target, M("file")) /\ Written
        \/ Write(ses.target, M("unconfirmed"))
        \/ UNCHANGED docs
    BY <1>5 DEF WriteNatively, M
  <2> QED
    BY <1>2, <2>3, <2>4, <2>5
<1>6. CASE Finish
  <2> DEFINE m == [s |-> ses.n, what |-> "alert", via |-> "typed", text |-> Empty]
  <2>1. m \in Marks /\ m.s = ses.n /\ m.via = "typed" /\ m.what = "alert"
    BY <1>1 DEF Locals, Marks, Texts, Empty
  <2>2. pc = "finish" /\ pc' = "idle" /\ UNCHANGED <<clip, checks>>
    BY <1>6 DEF Finish, Done
  <2>3. CASE Write(focus, m)
    <3>1. AddsMark(m)
      BY <1>1, <2>1, <2>3, WriteAdds
    <3> QED
      BY <2>1, <2>2, <3>1 DEF Alerts
  <2> QED
    BY <1>2, <1>6, <2>3 DEF Finish
<1>7. CASE Receive
  <2>1. UNCHANGED docs \/ PerformUndo
    BY <1>7 DEF Receive, screen
  <2> QED
    BY <1>2, <2>1, UndoKeeps
<1>8. CASE Task
  <2>1. PICK k \in checks : CheckPaste(k) \/ PasteAgain(k)
    BY <1>8 DEF Task
  <2>2. UNCHANGED docs \/ Write(focus, Mark(clip, "again"))
    BY <2>1 DEF CheckPaste, PasteAgain
  <2> QED
    BY <1>2, <1>3, <2>2
<1>9. CASE User \/ Dictate \/ SendVoice \/ UNCHANGED vars
  <2>1. UNCHANGED docs
    BY <1>9 DEF User, Press, Type, Switch, Dictate, SendVoice, screen, vars
  <2> QED
    BY <1>2, <2>1
<1>10. CASE \/ CaptureFocused \/ CaptureByClipboard \/ CopySelection \/ ReportReady
            \/ Refuse \/ GuardBlocks \/ Proceed \/ NoPlanNeeded
            \/ InlinePlan \/ DraftPlan
            \/ Prepare \/ StreamEnds \/ StreamFails \/ FallbackEnds
            \/ StreamTimesOut \/ Screen \/ Retry \/ Feynman
            \/ SkipWriter \/ SchemaRetry
            \/ KeepOut \/ LeaveToPeers \/ PrepareClipboard \/ FocusTarget \/ Settle
  <2>1. UNCHANGED docs
    BY <1>10 DEF CaptureFocused, CaptureByClipboard, CopySelection, ReportReady,
       Refuse, GuardBlocks, Proceed, NoPlanNeeded, InlinePlan,
       DraftPlan, Prepare, StreamEnds, StreamFails, FallbackEnds, Answered,
       StreamTimesOut, Screen, Retry, Feynman,
       SkipWriter, SchemaRetry, KeepOut, LeaveToPeers, PrepareClipboard, FocusTarget,
       Settle, screen
  <2> QED
    BY <1>2, <2>1
<1> QED
  BY <1>4, <1>5, <1>6, <1>7, <1>8, <1>9, <1>10 DEF Next, Loop, Session

LEMMA NativeInit == Init => NativeInv
<1> SUFFICES ASSUME Init
             PROVE  NativeInv
  OBVIOUS
<1>1. \A w \in Windows : docs[w] = << >>
  BY DEF Init
<1>2. \A w \in Windows : DOMAIN docs[w] = {}
  <2>1. << >> \in Seq(Marks) /\ Len(<< >>) = 0
    OBVIOUS
  <2>2. \A d \in Seq(Marks) : DOMAIN d = 1 .. Len(d)
    OBVIOUS
  <2>3. DOMAIN << >> = 1 .. 0 /\ 1 .. 0 = {}
    BY <2>1, <2>2
  <2> QED
    BY <1>1, <2>3
<1>3. ses.n = 0 /\ clip.s = 0 /\ checks = {} /\ pc = "idle"
  BY DEF Init, Idle, UsersClip
<1>4. \A n : ~InFile(n)
  BY <1>2 DEF InFile
<1>5. MarksSoFar /\ OnceNative
  BY <1>2 DEF MarksSoFar, OnceNative
<1>6. HeldSoFar
  BY <1>3, <1>4 DEF HeldSoFar, Held, BeforePaste
<1> QED
  BY <1>3, <1>4, <1>5, <1>6, TypeInit DEF NativeInv, Between

\* Taking a mark away, or adding one that is not a confirmed write, puts no
\* other session into a file.
LEMMA KeptNotInFile == ASSUME KeepsMarks, NEW n, InFile(n)' PROVE InFile(n)
BY DEF KeepsMarks, InFile

LEMMA AddedNotInFile ==
  ASSUME NEW m, AddsMark(m), NEW n, InFile(n)'
  PROVE  InFile(n) \/ (m.via = "file" /\ n = m.s)
BY DEF AddsMark, InFile

\* A mark of a session that has nothing in a file harms no confirmed write.
LEMMA AddedOnce ==
  ASSUME OnceNative, NEW m, AddsMark(m), ~InFile(m.s), m.via # "file"
  PROVE  OnceNative'
<1>1. PICK new \in Windows :
        \A w \in Windows : \A i \in DOMAIN docs'[w] :
          \/ i \in DOMAIN docs[w] /\ docs'[w][i] = docs[w][i]
          \/ w = new /\ docs'[w][i] = m
  BY DEF AddsMark
<1> SUFFICES ASSUME NEW w \in Windows, NEW i \in DOMAIN docs'[w],
                    docs'[w][i].via = "file"
             PROVE  /\ \A j \in DOMAIN docs'[w] : j > i => docs'[w][j].s # docs'[w][i].s
                    /\ \A v \in Windows : \A j \in DOMAIN docs'[v] :
                         docs'[v][j].what = "response" /\ docs'[v][j].s = docs'[w][i].s
                           => docs'[v][j].via \in {"file", "unconfirmed"}
  BY DEF OnceNative
<1>2. i \in DOMAIN docs[w] /\ docs'[w][i] = docs[w][i]
  BY <1>1
<1>3. docs[w][i].s # m.s
  BY <1>2 DEF InFile
<1>4. ASSUME NEW j \in DOMAIN docs'[w], j > i
      PROVE  docs'[w][j].s # docs'[w][i].s
  BY <1>1, <1>2, <1>3, <1>4 DEF OnceNative
<1>5. ASSUME NEW v \in Windows, NEW j \in DOMAIN docs'[v],
             docs'[v][j].what = "response", docs'[v][j].s = docs'[w][i].s
      PROVE  docs'[v][j].via \in {"file", "unconfirmed"}
  BY <1>1, <1>2, <1>3, <1>5 DEF OnceNative
<1> QED
  BY <1>4, <1>5

\* A confirmed write is the first that is heard of its session, apart from
\* writes whose reply was lost.
LEMMA FiledOnce ==
  ASSUME TypeOK', OnceNative, NEW m, AddsMark(m), ~InFile(m.s), m.via = "file",
         \A w \in Windows : \A i \in DOMAIN docs[w] :
           docs[w][i].s = m.s => docs[w][i].via = "unconfirmed"
  PROVE  OnceNative'
<1>1. PICK new \in Windows :
        \A w \in Windows : \A i \in DOMAIN docs'[w] :
          \/ i \in DOMAIN docs[w] /\ docs'[w][i] = docs[w][i]
          \/ /\ w = new /\ docs'[w][i] = m
             /\ \A j \in DOMAIN docs'[w] : j <= i
  BY DEF AddsMark
<1> SUFFICES ASSUME NEW w \in Windows, NEW i \in DOMAIN docs'[w],
                    docs'[w][i].via = "file"
             PROVE  /\ \A j \in DOMAIN docs'[w] : j > i => docs'[w][j].s # docs'[w][i].s
                    /\ \A v \in Windows : \A j \in DOMAIN docs'[v] :
                         docs'[v][j].what = "response" /\ docs'[v][j].s = docs'[w][i].s
                           => docs'[v][j].via \in {"file", "unconfirmed"}
  BY DEF OnceNative
<1>2. CASE i \in DOMAIN docs[w] /\ docs'[w][i] = docs[w][i]
  <2>1. docs[w][i].s # m.s
    BY <1>2 DEF InFile
  <2>2. ASSUME NEW j \in DOMAIN docs'[w], j > i
        PROVE  docs'[w][j].s # docs'[w][i].s
    BY <1>1, <1>2, <2>1, <2>2 DEF OnceNative
  <2>3. ASSUME NEW v \in Windows, NEW j \in DOMAIN docs'[v],
               docs'[v][j].what = "response", docs'[v][j].s = docs'[w][i].s
        PROVE  docs'[v][j].via \in {"file", "unconfirmed"}
    BY <1>1, <1>2, <2>1, <2>3 DEF OnceNative
  <2> QED
    BY <2>2, <2>3
<1>3. CASE docs'[w][i] = m /\ \A j \in DOMAIN docs'[w] : j <= i
  <2>1. \A j \in DOMAIN docs'[w] : ~(j > i)
    <3>1. docs'[w] \in Seq(Marks)
      BY DEF TypeOK
    <3>2. DOMAIN docs'[w] = 1 .. Len(docs'[w])
      BY <3>1
    <3> QED
      BY <1>3, <3>2
  <2>2. ASSUME NEW v \in Windows, NEW j \in DOMAIN docs'[v], docs'[v][j].s = m.s
        PROVE  docs'[v][j].via \in {"file", "unconfirmed"}
    BY <1>1, <2>2
  <2> QED
    BY <1>3, <2>1, <2>2
<1> QED
  BY <1>1, <1>2, <1>3

\* What is in the documents and what the clipboard and the tasks hold stays
\* within the sessions so far, from one step of a session to the next.
LEMMA SameSessionKeeps ==
  ASSUME NativeInv, TypeOK', [Next]_vars, SameSession
  PROVE  NativeInv'
<1>1. /\ TypeOK /\ MarksSoFar /\ HeldSoFar /\ OnceNative /\ ~InFile(0)
      /\ InFile(ses.n) => pc \in Between
      /\ pc \notin Between => ses.n # 0
      /\ ses'.n = ses.n /\ ses.n \in Nat
      /\ pc' \in BeforePaste => pc \in BeforePaste
      /\ pc \in Between => pc' \in Between
  <2>1. ses.n \in Nat
    BY DEF NativeInv, TypeOK, Locals, Ids
  <2> QED
    BY <2>1 DEF NativeInv, SameSession
<1>2. /\ \A p : p \in BeforePaste => p \notin Between
      /\ "write" \in BeforePaste /\ "idle" \in Between /\ "finish" \notin Between
  BY DEF BeforePaste, Between
<1>3. clip.s \in Held
  BY DEF Held
<1>4. \/ KeepsMarks \/ Pastes
      \/ (Files \/ Loses \/ Alerts) /\ UNCHANGED <<clip, checks>>
  BY <1>1, DocsStep
<1>5. ASSUME NEW n, InFile(n)'
      PROVE  InFile(n) \/ (n = ses.n /\ Files /\ UNCHANGED <<clip, checks>>)
  <2>1. CASE KeepsMarks
    BY <1>5, <2>1, KeptNotInFile
  <2>2. CASE Pastes \/ Loses \/ Alerts
    <3>1. PICK m : AddsMark(m) /\ m.via # "file"
      BY <2>2 DEF Pastes, Loses, Alerts
    <3> QED
      BY <1>5, <3>1, AddedNotInFile
  <2>3. CASE Files /\ UNCHANGED <<clip, checks>>
    <3>1. PICK m : AddsMark(m) /\ m.s = ses.n
      BY <2>3 DEF Files
    <3> QED
      BY <1>5, <2>3, <3>1, AddedNotInFile
  <2> QED
    BY <1>4, <2>1, <2>2, <2>3
<1>6. Files => pc = "write" /\ pc' = "idle"
  BY DEF Files
<1>7. ~InFile(0)'
  BY <1>1, <1>2, <1>5, <1>6
<1>8. InFile(ses.n)' => pc' \in Between
  BY <1>1, <1>2, <1>5, <1>6
<1>9. pc' \notin Between => ses'.n # 0
  BY <1>1
<1>10. ASSUME NEW n \in Held'
       PROVE  n <= ses.n /\ ~InFile(n)' /\ (pc' \in BeforePaste => n # ses.n)
  <2>1. CASE n \in Held
    <3>1. n <= ses.n /\ ~InFile(n) /\ (pc \in BeforePaste => n # ses.n)
      BY <1>1, <2>1 DEF HeldSoFar
    <3> QED
      BY <1>1, <1>2, <1>5, <1>6, <3>1
  <2>2. CASE n = 0
    BY <1>1, <1>2, <1>7, <1>9, <2>2
  <2>3. CASE n \notin Held /\ n = ses.n /\ pc \notin Between /\ pc' \notin BeforePaste
    <3>1. ~(UNCHANGED <<clip, checks>>)
      BY <1>10, <2>3 DEF Held
    <3> QED
      BY <1>1, <1>5, <2>3, <3>1
  <2> QED
    BY <1>1, <1>10, <2>1, <2>2, <2>3, HeldStep
<1>11. MarksSoFar'
  <2> SUFFICES ASSUME NEW w \in Windows, NEW i \in DOMAIN docs'[w]
               PROVE  /\ docs'[w][i].s <= ses.n
                      /\ pc' \in BeforePaste /\ docs'[w][i].s = ses.n
                           => docs'[w][i].via = "unconfirmed"
    BY <1>1 DEF MarksSoFar
  <2>1. CASE i \in DOMAIN docs[w] /\ docs'[w][i] = docs[w][i]
    BY <1>1, <2>1 DEF MarksSoFar
  <2>2. CASE KeepsMarks
    BY <2>1, <2>2 DEF KeepsMarks
  <2>3. CASE Pastes
    <3>1. PICK m : AddsMark(m) /\ m.s = clip.s
      BY <2>3 DEF Pastes
    <3>2. m.s <= ses.n /\ (pc \in BeforePaste => m.s # ses.n)
      BY <1>1, <1>3, <3>1 DEF HeldSoFar
    <3>3. docs'[w][i] = m \/ (i \in DOMAIN docs[w] /\ docs'[w][i] = docs[w][i])
      BY <3>1 DEF AddsMark
    <3> QED
      BY <1>1, <2>1, <3>2, <3>3
  <2>4. CASE Files \/ Loses \/ Alerts
    <3>1. PICK m : /\ AddsMark(m) /\ m.s = ses.n
                   /\ m.via = "unconfirmed" \/ pc' = "idle"
      BY <2>4 DEF Files, Loses, Alerts
    <3>2. docs'[w][i] = m \/ (i \in DOMAIN docs[w] /\ docs'[w][i] = docs[w][i])
      BY <3>1 DEF AddsMark
    <3> QED
      BY <1>1, <1>2, <2>1, <3>1, <3>2
  <2> QED
    BY <1>4, <2>2, <2>3, <2>4
<1>12. OnceNative'
  <2>1. CASE KeepsMarks
    BY <1>1, <2>1 DEF KeepsMarks, OnceNative
  <2>2. CASE Pastes
    <3>1. PICK m : AddsMark(m) /\ m.s = clip.s /\ m.via # "file"
      BY <2>2 DEF Pastes
    <3>2. ~InFile(m.s)
      BY <1>1, <1>3, <3>1 DEF HeldSoFar
    <3> QED
      BY <1>1, <3>1, <3>2, AddedOnce
  <2>3. CASE Loses \/ Alerts
    <3>1. PICK m : /\ AddsMark(m) /\ m.s = ses.n /\ m.via # "file"
                   /\ pc \in {"write", "finish"}
      BY <2>3 DEF Loses, Alerts
    <3>2. ~InFile(m.s)
      BY <1>1, <1>2, <3>1
    <3> QED
      BY <1>1, <3>1, <3>2, AddedOnce
  <2>4. CASE Files
    <3>1. PICK m : AddsMark(m) /\ m.s = ses.n /\ m.via = "file"
      BY <2>4 DEF Files
    <3>2. pc \in BeforePaste /\ ~InFile(m.s)
      BY <1>1, <1>2, <1>6, <2>4, <3>1
    <3>3. \A w \in Windows : \A i \in DOMAIN docs[w] :
            docs[w][i].s = m.s => docs[w][i].via = "unconfirmed"
      BY <1>1, <3>1, <3>2 DEF MarksSoFar
    <3> QED
      BY <1>1, <3>1, <3>2, <3>3, FiledOnce
  <2> QED
    BY <1>4, <2>1, <2>2, <2>3, <2>4
<1>13. HeldSoFar'
  BY <1>1, <1>10 DEF HeldSoFar
<1>14. InFile(ses.n)' => InFile(ses.n)' /\ ses'.n = ses.n
  BY <1>1
<1> QED
  BY <1>1, <1>7, <1>8, <1>9, <1>11, <1>12, <1>13 DEF NativeInv, InFile

LEMMA NewSessionKeeps ==
  ASSUME NativeInv, TypeOK', NewSession
  PROVE  NativeInv'
<1>1. /\ UNCHANGED <<docs, clip, checks>> /\ ses'.n = ses.n + 1 /\ pc' = "capture"
      /\ ses.n \in Nat
  BY DEF NewSession, NativeInv, TypeOK, Locals, Ids
<1>2. /\ MarksSoFar /\ HeldSoFar /\ OnceNative /\ ~InFile(0)
  BY DEF NativeInv
<1>3. \A w \in Windows : \A i \in DOMAIN docs[w] :
        docs[w][i].s \in Nat /\ docs[w][i].s <= ses.n
  <2> SUFFICES ASSUME NEW w \in Windows, NEW i \in DOMAIN docs[w]
               PROVE  docs[w][i].s \in Nat
    BY <1>2 DEF MarksSoFar
  <2>1. docs[w] \in Seq(Marks)
    BY DEF NativeInv, TypeOK
  <2>2. docs[w][i] \in Marks
    BY <2>1
  <2> QED
    BY <2>2 DEF Marks, Ids
<1>4. \A n \in Held : n \in Nat /\ n <= ses.n /\ ~InFile(n)
  <2>1. clip \in Contents /\ checks \subseteq Checks
    BY DEF NativeInv, TypeOK
  <2>2. clip.s \in Nat /\ \A k \in checks : k.c.s \in Nat
    BY <2>1 DEF Checks, Contents, Ids
  <2>3. \A n \in Held : n \in Nat
    BY <2>2 DEF Held
  <2> QED
    BY <1>2, <2>3 DEF HeldSoFar
<1>5. ~InFile(ses.n + 1)
  BY <1>1, <1>3 DEF InFile
<1>6. MarksSoFar'
  <2> SUFFICES ASSUME NEW w \in Windows, NEW i \in DOMAIN docs[w]
               PROVE  docs[w][i].s <= ses.n + 1 /\ docs[w][i].s # ses.n + 1
    BY <1>1 DEF MarksSoFar
  <2> QED
    BY <1>1, <1>3
<1>7. HeldSoFar'
  <2>1. Held' = Held
    BY <1>1 DEF Held
  <2>2. ASSUME NEW n \in Held
        PROVE  n <= ses.n + 1 /\ n # ses.n + 1
    BY <1>1, <1>4
  <2>3. \A n : InFile(n)' = InFile(n)
    BY <1>1 DEF InFile
  <2> QED
    BY <1>1, <1>4, <2>1, <2>2, <2>3 DEF HeldSoFar
<1>8. OnceNative'
  BY <1>1, <1>2 DEF OnceNative
<1>9. ~InFile(0)' /\ ~(InFile(ses.n))'
  BY <1>1, <1>2, <1>5 DEF InFile
<1> QED
  BY <1>1, <1>6, <1>7, <1>8, <1>9 DEF NativeInv

\* A confirmed write to the file ends its session: no other writer repeats the
\* answer and no paste, by the handler or by a task, puts it into a window.
THEOREM NativeOrPastedHolds == Spec => []NativeOrPasted
<1>1. Init => NativeInv
  BY NativeInit
<1>2. NativeInv /\ [Next]_vars => NativeInv'
  <2> SUFFICES ASSUME NativeInv, [Next]_vars
               PROVE  NativeInv'
    OBVIOUS
  <2>1. TypeOK /\ TypeOK'
    BY TypeStep DEF NativeInv
  <2> QED
    BY <2>1, SessionStep, SameSessionKeeps, NewSessionKeeps
<1>3. NativeInv => NativeOrPasted
  <2> SUFFICES ASSUME NativeInv, NEW w \in Windows, NEW i \in DOMAIN docs[w],
                      docs[w][i].via = "file"
               PROVE  /\ \A j \in (i + 1) .. Len(docs[w]) : docs[w][j].s # docs[w][i].s
                      /\ \A m \in Responses :
                           m.s = docs[w][i].s => m.via \in {"file", "unconfirmed"}
    BY DEF NativeOrPasted
  <2>1. OnceNative /\ docs[w] \in Seq(Marks)
    BY DEF NativeInv, TypeOK
  <2>2. DOMAIN docs[w] = 1 .. Len(docs[w]) /\ Len(docs[w]) \in Nat
    BY <2>1
  <2>3. ASSUME NEW j \in (i + 1) .. Len(docs[w])
        PROVE  docs[w][j].s # docs[w][i].s
    <3>1. j \in DOMAIN docs[w] /\ j > i
      BY <2>2
    <3> QED
      BY <2>1, <3>1 DEF OnceNative
  <2>4. ASSUME NEW m \in Responses, m.s = docs[w][i].s
        PROVE  m.via \in {"file", "unconfirmed"}
    <3>1. PICK v \in Windows : \E j \in DOMAIN docs[v] : m = docs[v][j]
      BY DEF Responses, Deliveries
    <3>2. m.what = "response"
      BY DEF Responses
    <3> QED
      BY <2>1, <2>4, <3>1, <3>2 DEF OnceNative
  <2> QED
    BY <2>3, <2>4
<1> QED
  BY <1>1, <1>2, <1>3, PTL DEF Spec
=============================================================================
