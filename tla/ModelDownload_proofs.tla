------------------------- MODULE ModelDownload_proofs -------------------------
(***************************************************************************)
(* Proofs about ModelDownload: its type invariant, that one thread at a    *)
(* time downloads, that the progress never claims a download nobody runs,  *)
(* and that the files implement ModelCache.                                *)
(***************************************************************************)
EXTENDS ModelDownload, SequenceTheorems, TLAPS

LEMMA Bounds ==
  NParts \in Nat /\ NParts > 0 /\ MaxFaults \in Nat /\ MaxCrashes \in Nat
BY DownloadAssumption

IInv == TypeOK /\ OneDownload /\ ActiveMeansWorking

-----------------------------------------------------------------------------
(* The beginnings of the model *)

\* The first k parts are a sequence of length k.
LEMMA UptoType ==
  ASSUME NEW k \in Nat
  PROVE  Upto(k) \in Seq(1..k) /\ Len(Upto(k)) = k
BY DEF Upto

\* A part more.
LEMMA UptoAppend ==
  ASSUME NEW k \in Nat
  PROVE  Append(Upto(k), k + 1) = Upto(k + 1)
BY DEF Upto

\* A part less, as a restart may leave it.
LEMMA UptoShorter ==
  ASSUME NEW k \in Nat, k > 0
  PROVE  SubSeq(Upto(k), 1, k - 1) = Upto(k - 1)
BY DEF Upto

\* A file cut short is a file.
LEMMA ShorterType ==
  ASSUME NEW S, NEW f \in Seq(S), Len(f) > 0
  PROVE  /\ SubSeq(f, 1, Len(f) - 1) \in Seq(S)
         /\ Len(SubSeq(f, 1, Len(f) - 1)) = Len(f) - 1
<1>1. Len(f) \in Nat  BY LenProperties
<1>2. \A i \in 1..(Len(f) - 1) : f[i] \in S
  <2> TAKE i \in 1..(Len(f) - 1)
  <2>1. i \in 1..Len(f)  BY <1>1
  <2> QED BY <2>1, ElementOfSeq
<1>3. 1 \in Int /\ Len(f) - 1 \in Int /\ 1 <= (Len(f) - 1) + 1  BY <1>1
<1>4. SubSeq(f, 1, Len(f) - 1) \in Seq(S)  BY <1>2, <1>3, SubSeqProperties
<1>5. Len(SubSeq(f, 1, Len(f) - 1))
        = IF 1 <= Len(f) - 1 THEN (Len(f) - 1) - 1 + 1 ELSE 0
  BY <1>2, <1>3, SubSeqProperties
<1>6. Len(SubSeq(f, 1, Len(f) - 1)) = Len(f) - 1
  <2>1. CASE Len(f) = 1
    <3>1. ~(1 <= Len(f) - 1) /\ Len(f) - 1 = 0  BY <2>1
    <3> QED BY <1>5, <3>1
  <2>2. CASE Len(f) > 1
    <3>1. 1 <= Len(f) - 1 /\ (Len(f) - 1) - 1 + 1 = Len(f) - 1  BY <1>1, <2>2
    <3> QED BY <1>5, <3>1
  <2>3. Len(f) = 1 \/ Len(f) > 1
    <3>1. \A n \in Nat : n > 0 => n = 1 \/ n > 1  OBVIOUS
    <3> QED BY <1>1, <3>1
  <2> QED BY <2>1, <2>2, <2>3
<1> QED BY <1>4, <1>6

\* Nothing that is a file is Absent.
LEMMA FilesPresent == Absent \notin Seq(1..NParts)
<1>1. 1..NParts \subseteq Nat  BY Bounds
<1>2. Seq(1..NParts) \subseteq Seq(Nat)  BY <1>1, SeqMonotonic
<1> QED BY <1>2, DownloadAssumption

-----------------------------------------------------------------------------
(* The invariant *)

LEMMA InitInv == Init => IInv
<1> SUFFICES ASSUME Init PROVE IInv  OBVIOUS
<1> USE DEF Init
<1>1. TypeOK
  <2>1. pc \in [Threads -> Working \cup {"idle", "launched", "waiting", "done"}]
    BY DEF Working
  <2>2. next \in [Threads -> 1..(NParts + 1)]  BY Bounds
  <2>3. faults \in 0..MaxFaults /\ crashes \in 0..MaxCrashes  BY Bounds
  <2>4. tmp \in Files /\ model \in Files  BY DEF Files
  <2> QED BY <2>1, <2>2, <2>3, <2>4 DEF TypeOK
<1>2. OneDownload  BY DownloadAssumption DEF OneDownload, Working, Ready
<1>3. ActiveMeansWorking  BY DEF ActiveMeansWorking, Active
<1> QED BY <1>1, <1>2, <1>3 DEF IInv

\* A thread that works alone, goes to another place of its work, and has
\* written what it has received.
LEMMA NextType ==
  ASSUME TypeOK, OneDownload, [Next]_vars
  PROVE  TypeOK'
<1> USE DEF TypeOK, Files
<1>1. CASE UNCHANGED vars  BY <1>1 DEF vars
<1>2. ASSUME NEW t \in Threads, Start(t)  PROVE TypeOK'
  BY <1>2 DEF Start, Goto, lock, counters, Working
<1>3. ASSUME NEW t \in Threads, Awake(t)  PROVE TypeOK'
  BY <1>3 DEF Awake, Goto, counters, Working
<1>4. ASSUME NEW t \in Threads, Acquire(t)  PROVE TypeOK'
  BY <1>4 DEF Acquire, Goto, lock, counters, Working
<1>5. ASSUME NEW t \in Threads, Ensure(t)  PROVE TypeOK'
  BY <1>5 DEF Ensure, Leave, Goto, lock, counters, Working
<1>6. ASSUME NEW t \in Threads, Respond(t)  PROVE TypeOK'
  <2>1. Size(tmp) \in Nat  BY DEF Size
  <2>2. pc' \in [Threads -> Working \cup {"idle", "launched", "waiting", "done"}]
    BY <1>6 DEF Respond, Leave, Goto, Working
  <2>3. next' \in [Threads -> 1..(NParts + 1)]
    BY <1>6, <2>1, Bounds DEF Respond, Leave
  <2>4. faults' \in 0..MaxFaults  BY <1>6, Bounds DEF Respond, MayFail, counters
  <2>5. tmp' \in Files /\ model' \in Files
    BY <1>6, EmptySeq DEF Respond
  <2> QED BY <1>6, <2>2, <2>3, <2>4, <2>5
             DEF Respond, Leave, MayFail, lock, counters
<1>7. ASSUME NEW t \in Threads, RespondWhole(t)  PROVE TypeOK'
  <2>1. pc' \in [Threads -> Working \cup {"idle", "launched", "waiting", "done"}]
    BY <1>7 DEF RespondWhole, Goto, Working
  <2>2. next' \in [Threads -> 1..(NParts + 1)]
    BY <1>7, Bounds DEF RespondWhole
  <2> QED BY <1>7, <2>1, <2>2 DEF RespondWhole, lock
<1>8. ASSUME NEW t \in Threads, Receive(t)  PROVE TypeOK'
  <2>1. CASE MayFail /\ Leave(t, "stream", "failed") /\ UNCHANGED <<tmp, model>>
    <3>1. faults' \in 0..MaxFaults  BY <2>1, Bounds DEF MayFail
    <3> QED BY <2>1, <3>1 DEF Leave, Goto, MayFail, Working
  <2>2. CASE /\ pc[t] = "stream" /\ next[t] <= NParts
             /\ tmp' = Append(tmp, next[t])
             /\ next' = [next EXCEPT ![t] = @ + 1]
             /\ UNCHANGED <<model, progress, lock, pc, counters>>
    <3>1. tmp \in Seq(1..NParts) /\ next[t] \in 1..NParts
      BY <1>8, <2>2 DEF OneDownload
    <3>2. tmp' \in Seq(1..NParts)  BY <2>2, <3>1, AppendProperties
    <3>3. next' \in [Threads -> 1..(NParts + 1)]  BY <2>2, <3>1, Bounds
    <3> QED BY <2>2, <3>2, <3>3 DEF lock, counters
  <2> QED BY <1>8, <2>1, <2>2 DEF Receive
<1>9. ASSUME NEW t \in Threads, Rename(t)  PROVE TypeOK'
  <2>1. pc' \in [Threads -> Working \cup {"idle", "launched", "waiting", "done"}]
    BY <1>9 DEF Rename, Leave, Goto, Working
  <2>2. faults' \in 0..MaxFaults  BY <1>9, Bounds DEF Rename, MayFail, counters
  <2> QED BY <1>9, <2>1, <2>2 DEF Rename, Leave, MayFail, lock, counters
<1>10. ASSUME NEW t \in Threads, Register(t)  PROVE TypeOK'
  <2>1. pc' \in [Threads -> Working \cup {"idle", "launched", "waiting", "done"}]
    BY <1>10 DEF Register, Leave, Goto, Working
  <2>2. faults' \in 0..MaxFaults  BY <1>10, Bounds DEF Register, MayFail, counters
  <2> QED BY <1>10, <2>1, <2>2 DEF Register, Leave, MayFail, counters
<1>11. ASSUME Restart  PROVE TypeOK'
  <2>1. tmp' \in Files
    <3>1. CASE UNCHANGED tmp  BY <3>1
    <3>2. CASE Size(tmp) > 0 /\ tmp' = SubSeq(tmp, 1, Len(tmp) - 1)
      <4>1. tmp \in Seq(1..NParts) /\ Len(tmp) > 0  BY <3>2 DEF Size
      <4> QED BY <3>2, <4>1, ShorterType
    <3> QED BY <1>11, <3>1, <3>2 DEF Restart
  <2>3. pc' \in [Threads -> Working \cup {"idle", "launched", "waiting", "done"}]
    BY <1>11 DEF Restart, Working
  <2>2. crashes' \in 0..MaxCrashes  BY <1>11, Bounds DEF Restart
  <2> QED BY <1>11, <2>1, <2>2, <2>3 DEF Restart
<1> QED BY <1>1, <1>2, <1>3, <1>4, <1>5, <1>6, <1>7, <1>8, <1>9, <1>10, <1>11
        DEF Next, ThreadStep

\* The thread that works holds the lock, and works alone.
LEMMA NextOneDownload ==
  ASSUME TypeOK, OneDownload, [Next]_vars
  PROVE  OneDownload'
<1> USE DEF TypeOK, Files
<1>1. CASE UNCHANGED vars
  BY <1>1 DEF vars, OneDownload, Ready, Working
<1>2. ASSUME NEW t \in Threads, Start(t)  PROVE OneDownload'
  BY <1>2 DEF Start, Goto, lock, counters, OneDownload, Ready, Working
<1>3. ASSUME NEW t \in Threads, Awake(t)  PROVE OneDownload'
  BY <1>3, DownloadAssumption
     DEF Awake, Goto, counters, OneDownload, Ready, Working
<1>4. ASSUME NEW t \in Threads, Acquire(t)  PROVE OneDownload'
  BY <1>4, DownloadAssumption
     DEF Acquire, Taken, Goto, lock, counters, OneDownload, Ready, Working
<1>5. ASSUME NEW t \in Threads, Ensure(t)  PROVE OneDownload'
  BY <1>5, DownloadAssumption
     DEF Ensure, Leave, Goto, lock, counters, OneDownload, Ready, Working
<1>6. ASSUME NEW t \in Threads, Respond(t)  PROVE OneDownload'
  <2>1. \A u \in Threads : pc[u] \in Working => u = t
    BY <1>6 DEF Respond, Leave, Goto, OneDownload, Working
  <2>2. ~Ready  BY <1>6 DEF Respond, Leave, Goto, OneDownload, Working
  <2>3. CASE Leave(t, "request", "failed") /\ UNCHANGED <<tmp, model, ignored>>
    BY <2>1, <2>2, <2>3, DownloadAssumption
       DEF Leave, Goto, OneDownload, Ready, Working
  <2>4. CASE /\ Size(tmp) = 0 /\ tmp' = <<>> /\ next' = [next EXCEPT ![t] = 1]
             /\ Goto(t, "request", "stream")
             /\ UNCHANGED <<model, progress, lock, counters>>
    <3>1. Upto(0) = <<>> /\ Len(<<>>) = 0  BY DEF Upto
    <3>2. tmp' = Upto(next'[t] - 1) /\ tmp' = Upto(Len(tmp')) /\ Len(tmp') = 0
      BY <2>4, <3>1
    <3>3. tmp' # Absent
      <4>1. tmp' \in Seq(1..NParts)  BY <2>4, EmptySeq
      <4> QED BY <4>1, FilesPresent
    <3>4. Len(tmp') <= NParts  BY <3>2, Bounds
    <3>5. \A u \in Threads : pc'[u] \in Working <=> holder' = u
      BY <2>1, <2>4 DEF Goto, lock, OneDownload, Working
    <3>6. ~Ready' /\ ignored' = ignored  BY <2>2, <2>4 DEF Ready, counters
    <3>7. \A u \in Threads : pc'[u] = "stream" => u = t
      BY <2>1, <2>4 DEF Goto, Working
    <3>8. \A u \in Threads : pc'[u] # "register"
      BY <2>1, <2>4 DEF Goto, Working
    <3>9. Len(tmp') >= next'[t] - 1  BY <2>4, <3>2
    <3> QED BY <3>2, <3>3, <3>4, <3>5, <3>6, <3>7, <3>8, <3>9 DEF OneDownload
  <2>5. CASE /\ Size(tmp) \in 1..(NParts - 1)
             /\ next' = [next EXCEPT ![t] = Size(tmp) + 1]
             /\ Goto(t, "request", "stream")
             /\ UNCHANGED <<tmp, model, progress, lock, counters>>
    <3>1. tmp # Absent /\ Size(tmp) = Len(tmp)  BY <2>5 DEF Size
    <3>2. next'[t] - 1 = Len(tmp)  BY <2>5, <3>1
    <3> QED BY <2>1, <2>2, <2>5, <3>1, <3>2
            DEF Goto, lock, counters, OneDownload, Ready, Working
  <2> QED BY <1>6, <2>3, <2>4, <2>5 DEF Respond, MayFail, counters
<1>7. ASSUME NEW t \in Threads, RespondWhole(t)  PROVE OneDownload'
  <2>1. tmp # Absent /\ Len(tmp) > 0  BY <1>7 DEF RespondWhole, Size
  <2>2. \A u \in Threads : pc[u] \in Working => u = t
    BY <1>7 DEF RespondWhole, Goto, OneDownload, Working
  <2>3. next'[t] = 1 /\ tmp' = tmp  BY <1>7 DEF RespondWhole
  <2> QED BY <1>7, <2>1, <2>2, <2>3
          DEF RespondWhole, Goto, lock, OneDownload, Ready, Working
<1>8. ASSUME NEW t \in Threads, Receive(t)  PROVE OneDownload'
  <2>1. CASE MayFail /\ Leave(t, "stream", "failed") /\ UNCHANGED <<tmp, model>>
    BY <2>1, DownloadAssumption
       DEF MayFail, Leave, Goto, OneDownload, Ready, Working
  <2>2. CASE /\ pc[t] = "stream" /\ next[t] <= NParts
             /\ tmp' = Append(tmp, next[t])
             /\ next' = [next EXCEPT ![t] = @ + 1]
             /\ UNCHANGED <<model, progress, lock, pc, counters>>
    <3>1. tmp \in Seq(1..NParts) /\ next[t] \in 1..NParts /\ ~Ready
      BY <2>2 DEF OneDownload
    <3>2. tmp' \in Seq(1..NParts)  BY <2>2, <3>1, AppendProperties
    <3>3. \A u \in Threads : pc[u] \in Working => u = t
      BY <2>2 DEF OneDownload, Working
    <3>4. Len(tmp') = Len(tmp) + 1 /\ Len(tmp) \in Nat
      BY <2>2, <3>1, AppendProperties, LenProperties
    <3>5. Len(tmp) >= next[t] - 1  BY <2>2 DEF OneDownload
    <3>6. next'[t] = next[t] + 1  BY <2>2
    <3>7. Len(tmp') >= next'[t] - 1  BY <3>1, <3>4, <3>5, <3>6
    <3>8. CASE ignored
      BY <2>2, <3>1, <3>2, <3>3, <3>8, <3>7, FilesPresent
         DEF lock, counters, OneDownload, Ready, Working
    <3>9. CASE ~ignored
      <4>1. tmp = Upto(next[t] - 1)  BY <2>2, <3>9 DEF OneDownload
      <4>2. next[t] - 1 \in Nat /\ (next[t] - 1) + 1 = next[t]  BY <3>1
      <4>3. tmp' = Upto(next[t])  BY <2>2, <4>1, <4>2, UptoAppend
      <4>4. Len(tmp') = next[t]  BY <3>1, <4>3, UptoType
      <4>5. next'[t] - 1 = next[t]  BY <2>2, <3>1
      <4>6. Len(tmp') <= NParts /\ tmp' = Upto(Len(tmp'))
        BY <3>1, <4>3, <4>4
      <4> QED BY <2>2, <3>1, <3>2, <3>3, <3>9, <3>7, <4>3, <4>5, <4>6,
                 FilesPresent
              DEF lock, counters, OneDownload, Ready, Working
    <3> QED BY <3>8, <3>9
  <2> QED BY <1>8, <2>1, <2>2 DEF Receive
<1>9. ASSUME NEW t \in Threads, Rename(t)  PROVE OneDownload'
  BY <1>9, DownloadAssumption
     DEF Rename, MayFail, Leave, Goto, lock, counters, OneDownload, Ready,
         Working
<1>10. ASSUME NEW t \in Threads, Register(t)  PROVE OneDownload'
  BY <1>10, DownloadAssumption
     DEF Register, MayFail, Leave, Goto, counters, OneDownload, Ready, Working
<1>11. ASSUME Restart  PROVE OneDownload'
  <2>1. \A t \in Threads : pc'[t] \in {"idle", "done"}  BY <1>11 DEF Restart
  <2>2. holder' = NoThread /\ ignored' = ignored  BY <1>11 DEF Restart
  <2>3. ~ignored /\ tmp' # Absent =>
          Len(tmp') <= NParts /\ tmp' = Upto(Len(tmp'))
    <3>1. CASE UNCHANGED tmp  BY <3>1 DEF OneDownload
    <3>2. CASE Size(tmp) > 0 /\ tmp' = SubSeq(tmp, 1, Len(tmp) - 1)
      <4>1. tmp \in Seq(1..NParts) /\ Len(tmp) > 0 /\ Len(tmp) \in Nat
        BY <3>2, LenProperties DEF Size
      <4>2. Len(tmp') = Len(tmp) - 1  BY <3>2, <4>1, ShorterType
      <4>3. ASSUME ~ignored  PROVE tmp' = Upto(Len(tmp) - 1) /\ Len(tmp) <= NParts
        <5>1. tmp # Absent  BY <4>1, FilesPresent
        <5>2. tmp = Upto(Len(tmp)) /\ Len(tmp) <= NParts
          BY <4>3, <5>1 DEF OneDownload
        <5>3. SubSeq(Upto(Len(tmp)), 1, Len(tmp) - 1) = Upto(Len(tmp) - 1)
          BY <4>1, UptoShorter
        <5> QED BY <3>2, <5>2, <5>3
      <4>4. ASSUME ~ignored  PROVE Len(tmp') <= NParts
        BY <4>1, <4>2, <4>3, <4>4, Bounds
      <4> QED BY <4>2, <4>3, <4>4
    <3> QED BY <1>11, <3>1, <3>2 DEF Restart
  <2> QED BY <2>1, <2>2, <2>3, DownloadAssumption
          DEF OneDownload, Ready, Working
<1> QED BY <1>1, <1>2, <1>3, <1>4, <1>5, <1>6, <1>7, <1>8, <1>9, <1>10, <1>11
        DEF Next, ThreadStep

\* Whoever sets the progress to downloading is at work; whoever stops working
\* changes it or leaves the model.
LEMMA NextActive ==
  ASSUME TypeOK, OneDownload, ActiveMeansWorking, [Next]_vars
  PROVE  ActiveMeansWorking'
<1> USE DEF TypeOK, ActiveMeansWorking, Active, Ready, Working
<1>1. CASE UNCHANGED vars  BY <1>1 DEF vars
<1>2. ASSUME NEW t \in Threads, Start(t)  PROVE ActiveMeansWorking'
  BY <1>2 DEF Start, Goto, lock, counters
<1>3. ASSUME NEW t \in Threads, Awake(t)  PROVE ActiveMeansWorking'
  BY <1>3 DEF Awake, Goto, counters
<1>4. ASSUME NEW t \in Threads, Acquire(t)  PROVE ActiveMeansWorking'
  BY <1>4 DEF Acquire, Goto, lock, counters
<1>5. ASSUME NEW t \in Threads, Ensure(t)  PROVE ActiveMeansWorking'
  BY <1>5 DEF Ensure, Leave, Goto, lock, counters
<1>6. ASSUME NEW t \in Threads, Respond(t)  PROVE ActiveMeansWorking'
  BY <1>6 DEF Respond, Leave, Goto, lock, counters
<1>7. ASSUME NEW t \in Threads, RespondWhole(t)  PROVE ActiveMeansWorking'
  BY <1>7 DEF RespondWhole, Goto, lock
<1>8. ASSUME NEW t \in Threads, Receive(t)  PROVE ActiveMeansWorking'
  BY <1>8 DEF Receive, Leave, Goto, lock, counters
<1>9. ASSUME NEW t \in Threads, Rename(t)  PROVE ActiveMeansWorking'
  BY <1>9 DEF Rename, Leave, Goto, lock, counters, OneDownload
<1>10. ASSUME NEW t \in Threads, Register(t)  PROVE ActiveMeansWorking'
  BY <1>10 DEF Register, Leave, Goto, counters, OneDownload
<1>11. ASSUME Restart  PROVE ActiveMeansWorking'
  BY <1>11 DEF Restart
<1> QED BY <1>1, <1>2, <1>3, <1>4, <1>5, <1>6, <1>7, <1>8, <1>9, <1>10, <1>11
        DEF Next, ThreadStep

LEMMA Inductive == IInv /\ [Next]_vars => IInv'
BY NextType, NextOneDownload, NextActive DEF IInv

LEMMA Invariant == Spec => []IInv
BY InitInv, Inductive, PTL DEF Spec

-----------------------------------------------------------------------------
(* The theorems *)

\* Every variable of the downloader keeps its type.
THEOREM TypeCorrect == Spec => []TypeOK
<1>1. IInv => TypeOK  BY DEF IInv
<1> QED BY <1>1, Invariant, PTL

\* One thread at a time downloads, and writes the parts in their order.
THEOREM DownloadsAlone == Spec => []OneDownload
<1>1. IInv => OneDownload  BY DEF IInv
<1> QED BY <1>1, Invariant, PTL

\* While the progress says downloading, some thread works or the model is
\* there.
THEOREM NeverStuck == Spec => []ActiveMeansWorking
<1>1. IInv => ActiveMeansWorking  BY DEF IInv
<1> QED BY <1>1, Invariant, PTL

-----------------------------------------------------------------------------
(* The files implement ModelCache *)

\* A beginning of the model holds its parts.
LEMMA PartsUpto ==
  ASSUME NEW k \in Nat
  PROVE  Parts(Upto(k)) = k /\ Upto(k) # Absent
<1>1. Upto(k) \in Seq(Nat)  BY DEF Upto
<1>2. Upto(k) # Absent  BY <1>1, DownloadAssumption
<1>3. Len(Upto(k)) = k  BY UptoType
<1> QED BY <1>2, <1>3 DEF Parts

LEMMA InitRefines == Init => Cache!Init
BY DEF Init, Cache!Init, Held, Parts, Ready

\* A file that is a beginning of the model counts its parts; so does any file
\* once a server has ignored the range.
LEMMA Counted ==
  ASSUME TypeOK, OneDownload, ~Ready
  PROVE  /\ Held = Size(tmp) /\ Held \in Nat
         /\ \A t \in Threads : pc[t] = "stream" => Held >= next[t] - 1
         /\ \A t \in Threads : ~ignored /\ pc[t] = "stream" => Held = next[t] - 1
<1>1. Size(tmp) \in Nat  BY LenProperties DEF Size, TypeOK, Files
<1>2. CASE tmp = Absent
  BY <1>2 DEF Held, Parts, Size, OneDownload
<1>3. CASE tmp # Absent
  <2>1. Size(tmp) = Len(tmp)  BY <1>3 DEF Size
  <2>2. ~ignored => tmp = Upto(Len(tmp))  BY <1>3 DEF OneDownload
  <2>3. Held = Len(tmp)  BY <1>3, <2>1, <2>2 DEF Held, Parts
  <2>4. \A t \in Threads : pc[t] = "stream" => Len(tmp) >= next[t] - 1
    BY DEF OneDownload
  <2>5. ASSUME NEW t \in Threads, ~ignored, pc[t] = "stream"
        PROVE  Len(tmp) = next[t] - 1
    <3>1. tmp = Upto(next[t] - 1)  BY <2>5 DEF OneDownload
    <3>2. next[t] - 1 \in Nat  BY Bounds DEF TypeOK
    <3> QED BY <3>1, <3>2, UptoType
  <2> QED BY <1>1, <2>1, <2>3, <2>4, <2>5
<1> QED BY <1>2, <1>3

\* Every step of the downloader is one of the cache, or none.
LEMMA StepRefines ==
  ASSUME TypeOK, OneDownload, [Next]_vars, TypeOK', OneDownload'
  PROVE  [Cache!Next]_(Cache!vars)
<1> USE DEF TypeOK, Files
<1>1. ~Ready' => Held' = Size(tmp')
  <2>1. TypeOK' /\ OneDownload' /\ ~Ready' => (Held = Size(tmp))'
    BY Counted, PTL
  <2> QED BY <2>1
<1>2. ASSUME UNCHANGED <<tmp, model, ignored>>  PROVE UNCHANGED Cache!vars
  BY <1>2 DEF Cache!vars, Held, Ready
<1>3. ASSUME NEW t \in Threads, Respond(t)  PROVE UNCHANGED Cache!vars
  <2>1. CASE UNCHANGED <<tmp, model, ignored>>  BY <1>2, <2>1
  <2>2. CASE Size(tmp) = 0 /\ tmp' = <<>> /\ UNCHANGED <<model, ignored>>
    <3>1. ~Ready  BY <1>3 DEF Respond, Leave, Goto, OneDownload
    <3>2. ~Ready'  BY <2>2, <3>1 DEF Ready
    <3>3. Size(tmp') = 0  BY <2>2 DEF Size
    <3>4. Held = 0 /\ Held' = 0  BY <1>1, <2>2, <3>1, <3>2, <3>3, Counted
    <3> QED BY <2>2, <3>1, <3>2, <3>4 DEF Cache!vars, Ready
  <2> QED BY <1>3, <2>1, <2>2 DEF Respond, MayFail, counters
<1>4. ASSUME NEW t \in Threads, RespondWhole(t)  PROVE Cache!Mix
  <2>1. ~Ready  BY <1>4 DEF RespondWhole, Goto, OneDownload
  <2>2. tmp' = tmp /\ model' = model /\ ignored' = TRUE
    BY <1>4 DEF RespondWhole
  <2>3. ~Ready'  BY <2>1, <2>2 DEF Ready
  <2>4. Held = Size(tmp) /\ Held' = Size(tmp)
    BY <1>1, <2>1, <2>2, <2>3, Counted
  <2>5. Size(tmp) > 0  BY <1>4 DEF RespondWhole
  <2> QED BY <2>1, <2>2, <2>3, <2>4, <2>5 DEF Cache!Mix, Ready
<1>5. ASSUME NEW t \in Threads, Receive(t)
      PROVE  [Cache!Next]_(Cache!vars)
  <2>1. CASE UNCHANGED <<tmp, model, ignored>>  BY <1>2, <2>1
  <2>2. CASE /\ pc[t] = "stream" /\ next[t] <= NParts
             /\ tmp' = Append(tmp, next[t])
             /\ UNCHANGED <<model, ignored>>
    <3>1. ~Ready /\ tmp # Absent  BY <2>2 DEF OneDownload
    <3>2. ~Ready'  BY <2>2, <3>1 DEF Ready
    <3>3. tmp \in Seq(1..NParts) /\ next[t] \in 1..NParts  BY <2>2, <3>1
    <3>4. /\ tmp' \in Seq(1..NParts) /\ Len(tmp') = Len(tmp) + 1
          /\ Len(tmp) \in Nat
      BY <2>2, <3>3, AppendProperties, LenProperties
    <3>5. Held = Len(tmp)  BY <3>1, Counted DEF Size
    <3>6. Held' = Len(tmp) + 1  BY <1>1, <3>2, <3>4, FilesPresent DEF Size
    <3>7. Held < NParts \/ ignored
      BY <2>2, <3>1, <3>3, Bounds, Counted
    <3>8. Cache!Gain
      BY <2>2, <3>1, <3>2, <3>5, <3>6, <3>7 DEF Cache!Gain, Ready
    <3> QED BY <3>8 DEF Cache!Next
  <2> QED BY <1>5, <2>1, <2>2 DEF Receive, MayFail, counters
<1>6. ASSUME NEW t \in Threads, Rename(t)
      PROVE  [Cache!Next]_(Cache!vars)
  <2>1. CASE UNCHANGED <<tmp, model, ignored>>  BY <1>2, <2>1
  <2>2. CASE /\ next[t] > NParts /\ pc[t] = "stream"
             /\ model' = tmp /\ tmp' = Absent /\ UNCHANGED ignored
    <3>1. ~Ready /\ tmp # Absent  BY <2>2 DEF OneDownload
    <3>2. Ready'  BY <2>2, <3>1 DEF Ready
    <3>3. next[t] - 1 = NParts  BY <2>2, Bounds
    <3>4. Held \in Nat /\ Held >= NParts /\ (~ignored => Held = NParts)
      BY <2>2, <3>1, <3>3, Counted
    <3>5. Held = NParts \/ (ignored /\ Held > NParts)  BY <3>4, Bounds
    <3>6. Held' = Held  BY <2>2, <3>1, <3>2 DEF Held
    <3>7. Cache!Publish
      BY <2>2, <3>1, <3>2, <3>5, <3>6 DEF Cache!Publish
    <3> QED BY <3>7 DEF Cache!Next
  <2> QED BY <1>6, <2>1, <2>2 DEF Rename, Goto, MayFail, counters
<1>7. ASSUME Restart
      PROVE  [Cache!Next]_(Cache!vars)
  <2>1. CASE UNCHANGED tmp  BY <1>2, <1>7, <2>1 DEF Restart
  <2>2. CASE /\ \E t \in Threads : pc[t] = "stream"
             /\ Size(tmp) > 0 /\ tmp' = SubSeq(tmp, 1, Len(tmp) - 1)
    <3>1. ~Ready /\ tmp # Absent  BY <2>2 DEF OneDownload
    <3>2. model' = model /\ ignored' = ignored  BY <1>7 DEF Restart
    <3>3. ~Ready'  BY <3>1, <3>2 DEF Ready
    <3>4. tmp \in Seq(1..NParts) /\ Len(tmp) > 0  BY <2>2, <3>1 DEF Size
    <3>5. tmp' \in Seq(1..NParts) /\ Len(tmp') = Len(tmp) - 1
      BY <2>2, <3>4, ShorterType
    <3>6. Held = Len(tmp)  BY <3>1, Counted DEF Size
    <3>7. Held' = Len(tmp) - 1  BY <1>1, <3>3, <3>5, FilesPresent DEF Size
    <3>8. Cache!Unflushed
      BY <3>1, <3>2, <3>3, <3>4, <3>6, <3>7 DEF Cache!Unflushed, Ready
    <3> QED BY <3>8 DEF Cache!Next
  <2> QED BY <1>7, <2>1, <2>2 DEF Restart
<1>8. CASE UNCHANGED vars  BY <1>2, <1>8 DEF vars
<1>9. ASSUME NEW t \in Threads,
             Start(t) \/ Awake(t) \/ Acquire(t) \/ Ensure(t) \/ Register(t)
      PROVE  UNCHANGED <<tmp, model, ignored>>
  BY <1>9 DEF Start, Awake, Acquire, Ensure, Register, MayFail, counters
<1> QED BY <1>2, <1>3, <1>4, <1>5, <1>6, <1>7, <1>8, <1>9
        DEF Next, ThreadStep, Cache!Next

\* Whatever fails, is repeated or restarted, the files of the download are
\* what ModelCache promises: the model file appears when it is the whole model,
\* or at least as long if a server has ignored the range, and then stays.
THEOREM CacheImplemented == Spec => CacheKept
<1>1. IInv => TypeOK /\ OneDownload  BY DEF IInv
<1>2. IInv /\ [Next]_vars => [Cache!Next]_(Cache!vars)
  BY <1>1, Inductive, StepRefines DEF IInv
<1> QED BY <1>2, InitRefines, Invariant, PTL DEF Spec, CacheKept, Cache!Spec
=============================================================================
