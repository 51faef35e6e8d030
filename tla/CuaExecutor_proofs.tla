-------------------------- MODULE CuaExecutor_proofs --------------------------
(***************************************************************************)
(* Proofs about the rate limiter and the execution of plans, for every     *)
(* number of tasks, length of a plan, size of the window and bound on the  *)
(* clock.                                                                  *)
(***************************************************************************)
EXTENDS CuaExecutor, SequenceTheorems, TLAPS

-----------------------------------------------------------------------------
(* Types *)

LEMMA TypeInit == Init => TypeOK
BY ExecutorAssumption
   DEF Init, TypeOK, ExecutorAssumption, Times, Actions, Steps, Backends

\* A task that neither enters nor leaves the gate leaves the lock as it is.
LEMMA LockKept ==
  ASSUME TypeOK, NEW t \in Tasks, NEW p \in Steps \ {"gate"}, pc[t] # "gate",
         pc' = [pc EXCEPT ![t] = p], holder' = holder
  PROVE  /\ pc' \in [Tasks -> Steps]
         /\ \A u \in Tasks : holder' = u <=> pc'[u] = "gate"
BY DEF TypeOK, Steps

\* A task that leaves the gate frees the lock.
LEMMA LockReleased ==
  ASSUME TypeOK, NEW t \in Tasks, NEW p \in Steps \ {"gate"}, pc[t] = "gate",
         pc' = [pc EXCEPT ![t] = p], holder' = NoTask
  PROVE  /\ pc' \in [Tasks -> Steps]
         /\ \A u \in Tasks : holder' = u <=> pc'[u] = "gate"
BY ExecutorAssumption DEF TypeOK, Steps, ExecutorAssumption

LEMMA BeginTyped ==
  ASSUME TypeOK, NEW t \in Tasks, NEW a \in Actions, Begin(t, a)
  PROVE  /\ at' \in [Tasks -> Actions] /\ backend' \in [Tasks -> Backends]
         /\ undo' \in [Tasks -> Nat]
BY DEF TypeOK, Begin, Backends

LEMMA LogTyped ==
  ASSUME TypeOK, NEW t \in Tasks, NEW b \in BOOLEAN, Log(t, b)
  PROVE  audit' \in [Tasks -> Seq(Entry)]
<1>1. [action |-> at[t], success |-> b] \in Entry
  BY DEF TypeOK, Entry
<1>2. audit[t] \in Seq(Entry)
  BY DEF TypeOK
<1>3. Append(audit[t], [action |-> at[t], success |-> b]) \in Seq(Entry)
  BY <1>1, <1>2, AppendProperties
<1> QED
  BY <1>3 DEF TypeOK, Log

LEMMA FallBackTyped ==
  ASSUME TypeOK, NEW t \in Tasks, pc[t] # "gate", FallBack(t), holder' = holder
  PROVE  /\ pc' \in [Tasks -> Steps]
         /\ \A u \in Tasks : holder' = u <=> pc'[u] = "gate"
         /\ backend' \in [Tasks -> Backends] /\ audit' \in [Tasks -> Seq(Entry)]
<1>1. "settle" \in Steps \ {"gate"} /\ "rollback" \in Steps \ {"gate"}
  BY DEF Steps
<1>2. CASE backend[t] = "enigo"
  BY <1>1, <1>2, LockKept DEF FallBack, TypeOK, Backends
<1>3. CASE backend[t] # "enigo"
  BY <1>1, <1>3, LockKept, LogTyped DEF FallBack, TypeOK
<1> QED
  BY <1>2, <1>3

LEMMA ContinueTyped ==
  ASSUME TypeOK, NEW t \in Tasks, pc[t] # "gate", Continue(t), holder' = holder
  PROVE  /\ pc' \in [Tasks -> Steps]
         /\ \A u \in Tasks : holder' = u <=> pc'[u] = "gate"
         /\ at' \in [Tasks -> Actions] /\ backend' \in [Tasks -> Backends]
         /\ undo' \in [Tasks -> Nat]
<1>1. "lock" \in Steps \ {"gate"} /\ "done" \in Steps \ {"gate"}
  BY DEF Steps
<1>2. CASE at[t] = NActions
  BY <1>1, <1>2, LockKept DEF Continue, TypeOK
<1>3. CASE at[t] # NActions
  <2>1. at[t] + 1 \in Actions
    BY <1>3, ExecutorAssumption DEF TypeOK, Actions, ExecutorAssumption
  <2> QED
    BY <1>1, <1>3, <2>1, LockKept, BeginTyped DEF Continue
<1> QED
  BY <1>2, <1>3

\* What CheckRate does to the limiter's memory.
LEMMA Admission ==
  ASSUME TypeOK, NEW t \in Tasks, CheckRate(t)
  PROVE  \E f \in front..(Len(admitted) + 1) :
           /\ f \in Nat \ {0} /\ front' = f
           /\ \A i \in front..(f - 1) : Expired(i)
           /\ \/ admitted' = admitted /\ pc' = [pc EXCEPT ![t] = "rollback"]
              \/ /\ HasRoom(f) /\ admitted' = Append(admitted, now)
                 /\ pc' = [pc EXCEPT ![t] = "settle"]
<1>1. PICK f \in 1..(Len(admitted) + 1) :
        /\ Evicted(f) /\ front' = f
        /\ IF HasRoom(f)
             THEN admitted' = Append(admitted, now) /\ pc' = [pc EXCEPT ![t] = "settle"]
             ELSE UNCHANGED admitted /\ pc' = [pc EXCEPT ![t] = "rollback"]
  BY DEF CheckRate
<1> QED
  BY <1>1 DEF Evicted, TypeOK

LEMMA TypeStep == TypeOK /\ [Next]_vars => TypeOK'
<1> SUFFICES ASSUME TypeOK, [Next]_vars
             PROVE  TypeOK'
  OBVIOUS
<1>1. CASE Tick
  BY <1>1, ExecutorAssumption DEF Tick, TypeOK, taskVars, Times, ExecutorAssumption
<1>2. ASSUME NEW t \in Tasks, TaskStep(t)
      PROVE  TypeOK'
  <2>0. {"approved", "lock", "settle", "verify", "rollback", "done"} = Steps \ {"gate"}
    BY DEF Steps
  <2>1. CASE StartPlan(t)
    <3>1. 1 \in Actions
      BY ExecutorAssumption DEF ExecutorAssumption, Actions
    <3> QED
      BY <2>0, <2>1, <3>1, BeginTyped, LockKept DEF StartPlan, TypeOK
  <2>2. CASE AcquireLimiter(t)
    BY <2>2, ExecutorAssumption DEF AcquireLimiter, TypeOK, Steps, ExecutorAssumption
  <2>3. CASE GateRefuses(t)
    BY <2>0, <2>3, LockReleased DEF GateRefuses, TypeOK
  <2>4. CASE CheckRate(t)
    <3>1. PICK f \in front..(Len(admitted) + 1) :
            /\ f \in Nat \ {0} /\ front' = f
            /\ \/ admitted' = admitted /\ pc' = [pc EXCEPT ![t] = "rollback"]
               \/ /\ admitted' = Append(admitted, now)
                  /\ pc' = [pc EXCEPT ![t] = "settle"]
      BY <2>4, Admission
    <3>2. admitted' \in Seq(Times) /\ front' \in 1..(Len(admitted') + 1)
      <4>1. now \in Times /\ admitted \in Seq(Times) /\ front \in Nat \ {0}
        BY DEF TypeOK
      <4>2. CASE admitted' = admitted
        BY <3>1, <4>1, <4>2
      <4>3. CASE admitted' = Append(admitted, now)
        <5>1. admitted' \in Seq(Times) /\ Len(admitted') = Len(admitted) + 1
          BY <4>1, <4>3, AppendProperties
        <5>2. Len(admitted) \in Nat
          BY <4>1
        <5> QED
          BY <3>1, <4>1, <5>1, <5>2
      <4> QED
        BY <3>1, <4>2, <4>3
    <3>3. /\ pc' \in [Tasks -> Steps]
          /\ \A u \in Tasks : holder' = u <=> pc'[u] = "gate"
      BY <2>0, <2>4, <3>1, LockReleased DEF CheckRate
    <3> QED
      BY <2>4, <3>2, <3>3 DEF CheckRate, TypeOK
  <2>5. CASE Dispatch(t)
    <3>1. /\ pc' \in [Tasks -> Steps]
          /\ \A u \in Tasks : holder' = u <=> pc'[u] = "gate"
          /\ backend' \in [Tasks -> Backends] /\ audit' \in [Tasks -> Seq(Entry)]
      <4>1. CASE pc' = [pc EXCEPT ![t] = "verify"] /\ UNCHANGED <<backend, audit>>
        BY <2>0, <2>5, <4>1, LockKept DEF Dispatch, TypeOK
      <4>2. CASE FallBack(t)
        BY <2>5, <4>2, FallBackTyped DEF Dispatch
      <4> QED
        BY <2>5, <4>1, <4>2 DEF Dispatch
    <3>2. sent' \in [Tasks -> Seq(Sending)]
      <4> DEFINE s == [action |-> at[t], backend |-> backend[t], time |-> now]
      <4>1. s \in Sending /\ sent[t] \in Seq(Sending)
        BY DEF TypeOK, Sending
      <4>2. Append(sent[t], s) \in Seq(Sending)
        BY <4>1, AppendProperties
      <4> QED
        BY <2>5, <4>2 DEF Dispatch, TypeOK
    <3> QED
      BY <2>5, <3>1, <3>2 DEF Dispatch, TypeOK
  <2>6. CASE Verified(t)
    <3>1. verified' \in [Tasks -> SUBSET Actions]
      BY <2>6 DEF Verified, TypeOK
    <3> QED
      BY <2>6, <3>1, ContinueTyped, LogTyped DEF Verified, TypeOK
  <2>7. CASE NotVerified(t)
    BY <2>7, FallBackTyped DEF NotVerified, TypeOK
  <2>8. CASE Unverifiable(t)
    BY <2>0, <2>8, LockKept, LogTyped DEF Unverifiable, TypeOK
  <2>9. CASE RollBack(t)
    <3>1. CASE undo[t] > 0
      <4>1. undo' \in [Tasks -> Nat] /\ undone' \in [Tasks -> Nat] /\ pc' = pc
        <5>1. undo[t] \in Nat \ {0} /\ undone[t] \in Nat
          BY <3>1 DEF TypeOK
        <5>2. undo[t] - 1 \in Nat /\ undone[t] + 1 \in Nat
          BY <5>1
        <5> QED
          BY <2>9, <3>1, <5>2 DEF RollBack, TypeOK
      <4> QED
        BY <2>9, <4>1 DEF RollBack, TypeOK
    <3>2. CASE ~(undo[t] > 0)
      BY <2>0, <2>9, <3>2, LockKept DEF RollBack, TypeOK
    <3> QED
      BY <3>1, <3>2
  <2> QED
    BY <1>2, <2>1, <2>2, <2>3, <2>4, <2>5, <2>6, <2>7, <2>8, <2>9 DEF TaskStep
<1>3. CASE UNCHANGED vars
  BY <1>3 DEF vars, taskVars, TypeOK
<1> QED
  BY <1>1, <1>2, <1>3 DEF Next

\* Every variable keeps its type, and the limiter is held by exactly the task
\* that is in the gate.
THEOREM TypeCorrect == Spec => []TypeOK
BY TypeInit, TypeStep, PTL DEF Spec

-----------------------------------------------------------------------------
(* The limiter *)

\* Everything IInv says of the limiter reads only its own variables.
LEMMA LimiterKept ==
  ASSUME LimiterInv, WindowBound, UNCHANGED <<now, admitted, front>>
  PROVE  LimiterInv' /\ WindowBound'
BY DEF LimiterInv, WindowBound, Expired

LEMMA LimiterTick ==
  ASSUME TypeOK, LimiterInv, WindowBound, Tick
  PROVE  LimiterInv' /\ WindowBound'
<1>1. /\ now \in Nat /\ now' = now + 1 /\ admitted' = admitted /\ front' = front
      /\ \A i \in DOMAIN admitted : admitted[i] \in Nat
      /\ Len(admitted) \in Nat /\ DOMAIN admitted = 1..Len(admitted)
      /\ front \in 1..(Len(admitted) + 1)
  BY ExecutorAssumption DEF Tick, TypeOK, Times, ExecutorAssumption
<1>2. \A i \in DOMAIN admitted : admitted[i] <= now + 1
  BY <1>1 DEF LimiterInv
<1>3. \A i \in 1..(front - 1) : now + 1 - admitted[i] >= WindowLength
  BY <1>1, ExecutorAssumption DEF LimiterInv, Expired, ExecutorAssumption
<1>4. LimiterInv'
  <2>1. \A i, j \in DOMAIN admitted' : i <= j => admitted'[i] <= admitted'[j]
    BY <1>1 DEF LimiterInv
  <2>2. Len(admitted') - front' + 1 <= MaxPerWindow
    BY <1>1 DEF LimiterInv
  <2>3. \A i \in DOMAIN admitted' : admitted'[i] <= now'
    BY <1>1, <1>2
  <2>4. \A i \in 1..(front' - 1) : Expired(i)'
    BY <1>1, <1>3 DEF Expired
  <2> QED
    BY <2>1, <2>2, <2>3, <2>4 DEF LimiterInv
<1>5. WindowBound'
  BY <1>1 DEF WindowBound
<1> QED
  BY <1>4, <1>5

\* The action let through last leaves room for MaxPerWindow - 1 earlier ones,
\* so the one MaxPerWindow places before it was forgotten: a window is over.
LEMMA LimiterChecks ==
  ASSUME TypeOK, LimiterInv, WindowBound, NEW t \in Tasks, CheckRate(t)
  PROVE  LimiterInv' /\ WindowBound'
<1> DEFINE n == Len(admitted)
<1>1. /\ now \in Nat /\ now' = now
      /\ \A i \in 1..n : admitted[i] \in Nat
      /\ n \in Nat /\ DOMAIN admitted = 1..n
      /\ front \in 1..(n + 1)
      /\ MaxPerWindow \in Nat \ {0} /\ WindowLength \in Nat
  BY ExecutorAssumption DEF CheckRate, TypeOK, Times, ExecutorAssumption
<1>2. PICK f \in front..(n + 1) :
        /\ f \in Nat \ {0} /\ front' = f
        /\ \A i \in front..(f - 1) : Expired(i)
        /\ \/ admitted' = admitted
           \/ HasRoom(f) /\ admitted' = Append(admitted, now)
  BY Admission
<1>3. \A i \in 1..(f - 1) : now - admitted[i] >= WindowLength
  <2>1. \A i \in 1..(f - 1) : i \in 1..(front - 1) \/ i \in front..(f - 1)
    BY <1>1, <1>2
  <2> QED
    BY <1>2, <2>1 DEF LimiterInv, Expired
<1>4. CASE admitted' = admitted
  BY <1>1, <1>2, <1>3, <1>4 DEF LimiterInv, WindowBound, Expired
<1>5. CASE HasRoom(f) /\ admitted' = Append(admitted, now)
  <2>1. /\ Len(admitted') = n + 1 /\ DOMAIN admitted' = 1..(n + 1)
        /\ \A i \in 1..n : admitted'[i] = admitted[i]
        /\ admitted'[n + 1] = now
    BY <1>1, <1>5 DEF TypeOK
  <2>2. n - f + 1 < MaxPerWindow
    BY <1>5 DEF HasRoom
  <2>3. \A i \in 1..n : admitted[i] <= now
    BY <1>1 DEF LimiterInv
  <2>4. \A i, j \in 1..(n + 1) : i <= j => admitted'[i] <= admitted'[j]
    <3> SUFFICES ASSUME NEW i \in 1..(n + 1), NEW j \in 1..(n + 1), i <= j
                 PROVE  admitted'[i] <= admitted'[j]
      OBVIOUS
    <3>1. CASE j = n + 1
      BY <1>1, <2>1, <2>3, <3>1
    <3>2. CASE j # n + 1
      <4>1. i \in 1..n /\ j \in 1..n
        BY <1>1, <3>2
      <4> QED
        BY <1>1, <2>1, <4>1 DEF LimiterInv
    <3> QED
      BY <3>1, <3>2
  <2>5. \A i \in 1..(f - 1) : now - admitted'[i] >= WindowLength
    BY <1>1, <1>2, <1>3, <2>1
  <2>6. LimiterInv'
    <3>1. \A i \in 1..(n + 1) : admitted'[i] <= now
      BY <1>1, <2>1, <2>3
    <3>2. n + 1 - f + 1 <= MaxPerWindow
      BY <1>1, <1>2, <2>2
    <3> QED
      BY <1>1, <1>2, <2>1, <2>4, <2>5, <3>1, <3>2 DEF LimiterInv, Expired
  <2>7. \A i \in 1..(n + 1 - MaxPerWindow) :
          admitted'[i + MaxPerWindow] - admitted'[i] >= WindowLength
    <3> SUFFICES ASSUME NEW i \in 1..(n + 1 - MaxPerWindow)
                 PROVE  admitted'[i + MaxPerWindow] - admitted'[i] >= WindowLength
      OBVIOUS
    <3>1. CASE i = n + 1 - MaxPerWindow
      <4>1. i \in 1..(f - 1)
        BY <1>1, <1>2, <2>2, <3>1
      <4>2. i + MaxPerWindow = n + 1
        BY <1>1, <3>1
      <4> QED
        BY <2>1, <2>5, <4>1, <4>2
    <3>2. CASE i # n + 1 - MaxPerWindow
      <4>1. i \in 1..(n - MaxPerWindow) /\ i \in 1..n /\ i + MaxPerWindow \in 1..n
        BY <1>1, <3>2
      <4> QED
        BY <2>1, <4>1 DEF WindowBound
    <3> QED
      BY <3>1, <3>2
  <2>8. WindowBound'
    BY <1>1, <2>1, <2>7 DEF WindowBound
  <2> QED
    BY <2>6, <2>8
<1> QED
  BY <1>2, <1>4, <1>5

-----------------------------------------------------------------------------
(* The plans *)

\* What the invariant says of a task reads only the task's own variables.
LEMMA TaskKept ==
  ASSUME NEW u \in Tasks, Progress(u), Disciplined(u),
         pc'[u] = pc[u], at'[u] = at[u], backend'[u] = backend[u],
         sent'[u] = sent[u], verified'[u] = verified[u]
  PROVE  Progress(u)' /\ Disciplined(u)'
BY DEF Progress, Disciplined

\* A step of one task leaves what the others did alone.
LEMMA OtherTasks ==
  ASSUME TypeOK, NEW t \in Tasks, TaskStep(t), NEW u \in Tasks, u # t
  PROVE  /\ pc'[u] = pc[u] /\ at'[u] = at[u] /\ backend'[u] = backend[u]
         /\ sent'[u] = sent[u] /\ verified'[u] = verified[u]
<1>1. ASSUME FallBack(t)
      PROVE  pc'[u] = pc[u] /\ backend'[u] = backend[u]
  BY <1>1 DEF FallBack, TypeOK
<1>2. ASSUME Continue(t)
      PROVE  pc'[u] = pc[u] /\ at'[u] = at[u] /\ backend'[u] = backend[u]
  BY <1>2 DEF Continue, Begin, TypeOK
<1>3. CASE StartPlan(t)
  BY <1>3 DEF StartPlan, Begin, TypeOK
<1>4. CASE AcquireLimiter(t) \/ GateRefuses(t)
  BY <1>4 DEF AcquireLimiter, GateRefuses, TypeOK
<1>5. CASE CheckRate(t)
  BY <1>5, Admission DEF CheckRate, TypeOK
<1>6. CASE Dispatch(t)
  BY <1>1, <1>6 DEF Dispatch, TypeOK
<1>7. CASE Verified(t)
  BY <1>2, <1>7 DEF Verified, TypeOK
<1>8. CASE NotVerified(t)
  BY <1>1, <1>8 DEF NotVerified
<1>9. CASE Unverifiable(t) \/ RollBack(t)
  BY <1>9 DEF Unverifiable, RollBack, TypeOK
<1> QED
  BY <1>3, <1>4, <1>5, <1>6, <1>7, <1>8, <1>9 DEF TaskStep

\* An action is sent where the plan is: first to enigo, after the one before
\* it was confirmed, or to the other backend right after enigo.
LEMMA DispatchStep ==
  ASSUME TypeOK, NEW t \in Tasks, Progress(t), Disciplined(t), Dispatch(t)
  PROVE  Progress(t)' /\ Disciplined(t)'
<1> DEFINE n == Len(sent[t])
           s == [action |-> at[t], backend |-> backend[t], time |-> now]
<1>1. /\ sent[t] \in Seq(Sending) /\ n \in Nat /\ DOMAIN sent[t] = 1..n
      /\ sent'[t] = Append(sent[t], s) /\ verified'[t] = verified[t]
      /\ at'[t] = at[t] /\ pc[t] = "settle" /\ at[t] \in Nat
      /\ backend[t] \in Backends
  BY DEF Dispatch, TypeOK, Actions
<1>2. /\ Len(sent'[t]) = n + 1 /\ DOMAIN sent'[t] = 1..(n + 1)
      /\ \A i \in 1..n : sent'[t][i] = sent[t][i]
      /\ sent'[t][n + 1] = s
  BY <1>1
<1>3. IF n = 0 THEN s.action = 1 /\ s.backend = "enigo"
      ELSE LET p == sent[t][n]
           IN  \/ /\ s.action = p.action
                  /\ p.backend = "enigo" /\ s.backend = "cua_driver"
               \/ /\ s.action = p.action + 1 /\ s.backend = "enigo"
                  /\ p.action \in verified[t]
  BY <1>1 DEF Progress, Backends
<1>4. Disciplined(t)'
  <2> SUFFICES ASSUME NEW i \in 1..(n + 1)
               PROVE  LET e == sent'[t][i]
                      IN  IF i = 1 THEN e.action = 1 /\ e.backend = "enigo"
                          ELSE LET p == sent'[t][i - 1]
                               IN  \/ /\ e.action = p.action
                                      /\ p.backend = "enigo" /\ e.backend = "cua_driver"
                                   \/ /\ e.action = p.action + 1 /\ e.backend = "enigo"
                                      /\ p.action \in verified[t]
    BY <1>1, <1>2 DEF Disciplined
  <2>1. CASE i = n + 1
    <3>1. CASE n = 0
      BY <1>2, <1>3, <2>1, <3>1
    <3>2. CASE n # 0
      <4>1. i # 1 /\ i - 1 = n /\ n \in 1..n
        BY <1>1, <2>1, <3>2
      <4>2. sent'[t][i - 1] = sent[t][n] /\ sent'[t][i] = s
        BY <1>2, <2>1, <4>1
      <4> QED
        BY <1>3, <3>2, <4>1, <4>2
    <3> QED
      BY <3>1, <3>2
  <2>2. CASE i # n + 1
    <3>1. i \in 1..n /\ (i # 1 => i - 1 \in 1..n)
      BY <1>1, <2>2
    <3> QED
      BY <1>1, <1>2, <3>1 DEF Disciplined
  <2> QED
    BY <2>1, <2>2
<1>5. Progress(t)'
  <2>1. CASE pc' = [pc EXCEPT ![t] = "verify"] /\ UNCHANGED <<backend, audit>>
    <3>1. pc'[t] = "verify" /\ backend'[t] = backend[t]
      BY <2>1 DEF TypeOK
    <3> QED
      BY <1>1, <1>2, <3>1 DEF Progress
  <2>2. CASE FallBack(t)
    <3>1. CASE backend[t] = "enigo"
      <4>1. pc'[t] = "settle" /\ backend'[t] = "cua_driver"
        BY <2>2, <3>1 DEF FallBack, TypeOK
      <4> QED
        BY <1>1, <1>2, <3>1, <4>1 DEF Progress
    <3>2. CASE backend[t] # "enigo"
      <4>1. pc'[t] = "rollback"
        BY <2>2, <3>2 DEF FallBack, TypeOK
      <4> QED
        BY <4>1 DEF Progress
    <3> QED
      BY <3>1, <3>2
  <2> QED
    BY <2>1, <2>2 DEF Dispatch
<1> QED
  BY <1>4, <1>5

\* Only a confirmed action moves the plan on.
LEMMA PlanStep ==
  ASSUME TypeOK, NEW t \in Tasks, Progress(t), Disciplined(t), TaskStep(t)
  PROVE  Progress(t)' /\ Disciplined(t)'
<1>1. ASSUME sent'[t] = sent[t], verified[t] \subseteq verified'[t]
      PROVE  Disciplined(t)'
  BY <1>1 DEF Disciplined
<1>2. CASE StartPlan(t)
  <2>1. /\ pc'[t] = "lock" /\ at'[t] = 1 /\ backend'[t] = "enigo"
        /\ sent'[t] = sent[t] /\ verified'[t] = verified[t]
    BY <1>2 DEF StartPlan, Begin, TypeOK
  <2>2. Len(sent[t]) = 0
    BY <1>2 DEF StartPlan, Progress
  <2> QED
    BY <1>1, <2>1, <2>2 DEF Progress
<1>3. CASE AcquireLimiter(t)
  <2>1. /\ pc[t] = "lock" /\ pc'[t] = "gate"
        /\ UNCHANGED <<at, backend, sent, verified>>
    BY <1>3 DEF AcquireLimiter, TypeOK
  <2> QED
    BY <1>1, <2>1 DEF Progress
<1>4. CASE GateRefuses(t) \/ Unverifiable(t)
  <2>1. pc'[t] = "rollback" /\ UNCHANGED <<sent, verified>>
    BY <1>4 DEF GateRefuses, Unverifiable, TypeOK
  <2> QED
    BY <1>1, <2>1 DEF Progress
<1>5. CASE CheckRate(t)
  <2>1. /\ pc[t] = "gate" /\ pc'[t] \in {"settle", "rollback"}
        /\ UNCHANGED <<at, backend, sent, verified>>
    BY <1>5, Admission DEF CheckRate, TypeOK
  <2>2. CASE pc'[t] = "settle"
    BY <1>1, <2>1, <2>2 DEF Progress
  <2>3. CASE pc'[t] = "rollback"
    BY <1>1, <2>1, <2>3 DEF Progress
  <2> QED
    BY <2>1, <2>2, <2>3
<1>6. CASE Dispatch(t)
  BY <1>6, DispatchStep
<1>7. CASE Verified(t)
  <2>1. /\ pc[t] = "verify" /\ sent' = sent
        /\ verified'[t] = verified[t] \cup {at[t]} /\ at[t] \in Nat
    BY <1>7 DEF Verified, TypeOK, Actions
  <2>2. Disciplined(t)'
    BY <1>1, <2>1
  <2>3. CASE at[t] = NActions
    <3>1. pc'[t] = "done"
      BY <1>7, <2>3 DEF Verified, Continue, TypeOK
    <3> QED
      BY <2>2, <3>1 DEF Progress
  <2>4. CASE at[t] # NActions
    <3>1. pc'[t] = "lock" /\ at'[t] = at[t] + 1 /\ backend'[t] = "enigo"
      BY <1>7, <2>4 DEF Verified, Continue, Begin, TypeOK
    <3>2. Len(sent[t]) > 0 /\ sent[t][Len(sent[t])].action = at[t]
      BY <2>1 DEF Progress
    <3>3. at'[t] # 1 /\ at'[t] - 1 = at[t]
      <4>1. at[t] \in Nat \ {0}
        BY ExecutorAssumption DEF TypeOK, Actions, ExecutorAssumption
      <4> QED
        BY <3>1, <4>1
    <3>4. at'[t] - 1 \in verified'[t]
      BY <2>1, <3>3
    <3> QED
      BY <2>1, <2>2, <3>1, <3>2, <3>3, <3>4 DEF Progress
  <2> QED
    BY <2>3, <2>4
<1>8. CASE NotVerified(t)
  <2>1. /\ pc[t] = "verify" /\ FallBack(t)
        /\ UNCHANGED <<at, sent, verified>>
    BY <1>8 DEF NotVerified
  <2>2. CASE backend[t] = "enigo"
    <3>1. pc'[t] = "settle" /\ backend'[t] = "cua_driver"
      BY <2>1, <2>2 DEF FallBack, TypeOK
    <3> QED
      BY <1>1, <2>1, <2>2, <3>1 DEF Progress
  <2>3. CASE backend[t] # "enigo"
    <3>1. pc'[t] = "rollback"
      BY <2>1, <2>3 DEF FallBack, TypeOK
    <3> QED
      BY <1>1, <2>1, <3>1 DEF Progress
  <2> QED
    BY <2>2, <2>3
<1>9. CASE RollBack(t)
  <2>1. pc'[t] \in {"rollback", "done"} /\ UNCHANGED <<sent, verified>>
    BY <1>9 DEF RollBack, TypeOK
  <2> QED
    BY <1>1, <2>1 DEF Progress
<1> QED
  BY <1>2, <1>3, <1>4, <1>5, <1>6, <1>7, <1>8, <1>9 DEF TaskStep

-----------------------------------------------------------------------------
(* The invariant *)

LEMMA IInvInit == Init => IInv
<1> SUFFICES ASSUME Init
             PROVE  IInv
  OBVIOUS
<1>1. TypeOK
  BY TypeInit
<1>2. /\ admitted = <<>> /\ Len(admitted) = 0 /\ DOMAIN admitted = {} /\ front = 1
      /\ MaxPerWindow \in Nat \ {0}
  BY ExecutorAssumption DEF Init, ExecutorAssumption
<1>3. LimiterInv /\ WindowBound
  BY <1>2 DEF LimiterInv, WindowBound
<1>4. ASSUME NEW t \in Tasks
      PROVE  Progress(t) /\ Disciplined(t)
  BY <1>4 DEF Init, Progress, Disciplined
<1> QED
  BY <1>1, <1>3, <1>4 DEF IInv, Bookkeeping, DispatchDiscipline

LEMMA IInvStep == IInv /\ [Next]_vars => IInv'
<1> SUFFICES ASSUME IInv, [Next]_vars
             PROVE  IInv'
  OBVIOUS
<1>1. TypeOK /\ TypeOK' /\ LimiterInv /\ WindowBound
  BY TypeStep DEF IInv, Bookkeeping
<1>2. LimiterInv' /\ WindowBound'
  <2>1. CASE Tick
    BY <1>1, <2>1, LimiterTick
  <2>2. CASE \E t \in Tasks : CheckRate(t)
    BY <1>1, <2>2, LimiterChecks
  <2>3. CASE UNCHANGED <<now, admitted, front>>
    BY <1>1, <2>3, LimiterKept
  <2>4. ASSUME NEW t \in Tasks, TaskStep(t), ~CheckRate(t)
        PROVE  UNCHANGED <<now, admitted, front>>
    BY <2>4 DEF TaskStep, StartPlan, AcquireLimiter, GateRefuses, Dispatch, Verified,
       NotVerified, Unverifiable, RollBack
  <2> QED
    BY <2>1, <2>2, <2>3, <2>4 DEF Next, vars
<1>3. ASSUME NEW u \in Tasks
      PROVE  Progress(u)' /\ Disciplined(u)'
  <2>1. Progress(u) /\ Disciplined(u)
    BY <1>3 DEF IInv, Bookkeeping, DispatchDiscipline
  <2>2. CASE TaskStep(u)
    BY <1>1, <2>1, <2>2, PlanStep
  <2>3. ASSUME NEW t \in Tasks, t # u, TaskStep(t)
        PROVE  Progress(u)' /\ Disciplined(u)'
    BY <1>1, <2>1, <2>3, OtherTasks, TaskKept
  <2>4. CASE Tick \/ UNCHANGED vars
    BY <2>1, <2>4, TaskKept DEF Tick, vars, taskVars
  <2> QED
    BY <2>2, <2>3, <2>4 DEF Next
<1> QED
  BY <1>1, <1>2, <1>3 DEF IInv, Bookkeeping, DispatchDiscipline

\* The invariant is inductive: what the limiter remembers and where every plan
\* is determine what can be let through and sent next.
THEOREM Inductive == Spec => []IInv
BY IInvInit, IInvStep, PTL DEF Spec

\* No interval of WindowLength holds more than MaxPerWindow of the actions the
\* limiter let through, whichever tasks they belong to.
THEOREM WindowBoundHolds == Spec => []WindowBound
<1>1. IInv => WindowBound
  BY DEF IInv
<1> QED
  BY <1>1, Inductive, PTL

\* Every task sends its plan in order: at most twice the same action, enigo
\* first, and the next action only after this one was confirmed.
THEOREM DispatchDisciplineHolds == Spec => []DispatchDiscipline
<1>1. IInv => DispatchDiscipline
  BY DEF IInv
<1> QED
  BY <1>1, Inductive, PTL

\* The limiter's memory and every task's place in its plan agree with what was
\* let through and sent.
THEOREM BookkeepingHolds == Spec => []Bookkeeping
<1>1. IInv => Bookkeeping
  BY DEF IInv
<1> QED
  BY <1>1, Inductive, PTL

-----------------------------------------------------------------------------
(* The audit log *)

\* What Log does to the entries of a task that is still at work: they stay
\* true and in order, and the action it is at is among them.
LEMMA LogStep ==
  ASSUME TypeOK, NEW t \in Tasks, NEW success \in BOOLEAN, Log(t, success),
         AuditPlace(t), EntriesTrue(t), pc[t] \notin {"rollback", "done"},
         verified'[t] = IF success THEN verified[t] \cup {at[t]} ELSE verified[t]
  PROVE  /\ EntriesTrue(t)'
         /\ \A k \in DOMAIN audit'[t] : audit'[t][k].action <= at[t]
         /\ \A k \in DOMAIN audit[t] :
              k \in DOMAIN audit'[t] /\ audit'[t][k] = audit[t][k]
         /\ t \notin LogMayFail =>
              \E k \in DOMAIN audit'[t] : audit'[t][k].action = at[t]
<1> DEFINE n == Len(audit[t])
           e == [action |-> at[t], success |-> success]
<1>1. /\ audit[t] \in Seq(Entry) /\ n \in Nat /\ DOMAIN audit[t] = 1..n
      /\ at[t] \in Actions /\ at[t] \in Nat
  <2>1. audit[t] \in Seq(Entry) /\ at[t] \in Actions
    BY DEF TypeOK
  <2>2. at[t] \in Nat
    BY <2>1 DEF Actions
  <2> QED
    BY <2>1, <2>2
<1>2. ASSUME NEW k \in 1..n
      PROVE  /\ audit[t][k].action \in Nat
             /\ audit[t][k].action < at[t]
             /\ audit[t][k].success <=> audit[t][k].action \in verified[t]
             /\ \A l \in 1..(k - 1) : audit[t][l].action < audit[t][k].action
  <2>1. audit[t][k] \in Entry /\ k \in DOMAIN audit[t]
    BY <1>1
  <2>2. audit[t][k].action \in Nat
    BY <2>1 DEF Entry, Actions
  <2>3. audit[t][k].action < at[t]
    BY <2>1 DEF AuditPlace
  <2> QED
    BY <2>1, <2>2, <2>3 DEF EntriesTrue
<1>3. at[t] \notin verified[t]
  BY <1>1 DEF AuditPlace
<1>4. ASSUME NEW k \in 1..n
      PROVE  audit[t][k].success <=> audit[t][k].action \in verified'[t]
  BY <1>1, <1>2
<1>5. CASE audit'[t] = Append(audit[t], e)
  <2>1. /\ DOMAIN audit'[t] = 1..(n + 1) /\ audit'[t][n + 1] = e
        /\ \A k \in 1..n : audit'[t][k] = audit[t][k]
    BY <1>1, <1>5
  <2>2. EntriesTrue(t)'
    <3> SUFFICES ASSUME NEW k \in 1..(n + 1)
                 PROVE  /\ audit'[t][k].success <=> audit'[t][k].action \in verified'[t]
                        /\ \A l \in 1..(k - 1) :
                             audit'[t][l].action < audit'[t][k].action
      BY <2>1 DEF EntriesTrue
    <3>1. CASE k = n + 1
      <4>1. success <=> at[t] \in verified'[t]
        BY <1>3
      <4> QED
        BY <1>1, <1>2, <2>1, <3>1, <4>1
    <3>2. CASE k # n + 1
      <4>1. k \in 1..n /\ \A l \in 1..(k - 1) : l \in 1..n
        BY <1>1, <3>2
      <4> QED
        BY <1>2, <1>4, <2>1, <4>1
    <3> QED
      BY <3>1, <3>2
  <2>3. \A k \in 1..(n + 1) : audit'[t][k].action <= at[t]
    <3> SUFFICES ASSUME NEW k \in 1..(n + 1)
                 PROVE  audit'[t][k].action <= at[t]
      OBVIOUS
    <3>1. k \in 1..n \/ k = n + 1
      BY <1>1
    <3> QED
      BY <1>1, <1>2, <2>1, <3>1
  <2>4. n + 1 \in DOMAIN audit'[t] /\ audit'[t][n + 1].action = at[t]
    BY <1>1, <2>1
  <2> QED
    BY <1>1, <2>1, <2>2, <2>3, <2>4
<1>6. CASE t \in LogMayFail /\ audit'[t] = audit[t]
  <2>1. EntriesTrue(t)'
    BY <1>1, <1>2, <1>4, <1>6 DEF EntriesTrue
  <2> QED
    BY <1>1, <1>2, <1>6, <2>1
<1> QED
  BY <1>5, <1>6 DEF Log, TypeOK

\* A task's record stays as it was while the task moves on to the next
\* action's dispatch, or gives up before it, or rolls back.
LEMMA RecordKept ==
  ASSUME NEW t \in Tasks, AuditInv(t),
         audit'[t] = audit[t], sent'[t] = sent[t], verified'[t] = verified[t],
         at'[t] = at[t],
         pc'[t] \in {"approved", "lock", "gate"} =>
           pc[t] \in {"approved", "lock", "gate"},
         pc'[t] \in {"rollback", "done"} =>
           pc[t] \in {"approved", "lock", "gate", "rollback", "done"},
         pc[t] \in {"rollback", "done"} => pc'[t] \in {"rollback", "done"},
         pc[t] = "done" => pc'[t] = "done"
  PROVE  AuditInv(t)'
<1>1. AuditPlace(t)'
  BY DEF AuditInv, AuditPlace
<1>2. EntriesTrue(t)'
  BY DEF AuditInv, EntriesTrue
<1>3. ASSUME SentLogged(t)
      PROVE  SentLogged(t)'
  <2> SUFFICES ASSUME NEW i \in DOMAIN sent[t],
                      \/ sent[t][i].action < at[t]
                      \/ pc'[t] \in {"rollback", "done"}
               PROVE  Logged(t, sent[t][i].action)
    BY DEF SentLogged, Logged
  <2>1. sent[t][i].action < at[t] \/ pc[t] \in {"rollback", "done"}
    BY DEF AuditInv, AuditPlace
  <2> QED
    BY <1>3, <2>1 DEF SentLogged
<1> QED
  BY <1>1, <1>2, <1>3 DEF AuditInv

\* The plan stops at an action, or has come to its end: the action is logged.
LEMMA RecordEnds ==
  ASSUME TypeOK, TypeOK', NEW t \in Tasks, NEW success \in BOOLEAN,
         Log(t, success), AuditInv(t), pc[t] = "verify" \/ pc[t] = "settle",
         \A i \in DOMAIN sent'[t] :
           sent'[t][i].action < at[t] \/ sent'[t][i].action = at[t],
         \A i \in DOMAIN sent'[t] :
           sent'[t][i].action = at[t] \/ (i \in DOMAIN sent[t] /\ sent'[t][i] = sent[t][i]),
         verified'[t] = IF success THEN verified[t] \cup {at[t]} ELSE verified[t],
         \/ /\ pc'[t] = IF success THEN "done" ELSE "rollback"
            /\ at'[t] = at[t]
         \/ pc'[t] = "lock" /\ at'[t] = at[t] + 1
  PROVE  AuditInv(t)'
<1>1. /\ EntriesTrue(t)'
      /\ \A k \in DOMAIN audit'[t] : audit'[t][k].action <= at[t]
      /\ \A k \in DOMAIN audit[t] :
           k \in DOMAIN audit'[t] /\ audit'[t][k] = audit[t][k]
      /\ t \notin LogMayFail =>
           \E k \in DOMAIN audit'[t] : audit'[t][k].action = at[t]
  BY LogStep DEF AuditInv
<1>2. /\ at[t] \in Nat
      /\ \A k \in DOMAIN audit'[t] : audit'[t][k].action \in Nat
  <2>1. at[t] \in Actions /\ audit'[t] \in Seq(Entry)
    BY DEF TypeOK
  <2>2. \A k \in DOMAIN audit'[t] : audit'[t][k] \in Entry
    BY <2>1
  <2> QED
    BY <2>1, <2>2 DEF Entry, Actions
<1>3. \A a \in verified[t] : a < at[t]
  BY DEF AuditInv, AuditPlace
<1>4. \A a \in verified[t] : a \in Nat
  BY DEF TypeOK, Actions
<1>5. AuditPlace(t)'
  <2>1. CASE pc'[t] = "lock" /\ at'[t] = at[t] + 1
    <3>1. \A a \in verified'[t] : a < at'[t]
      <4> SUFFICES ASSUME NEW a \in verified'[t]
                   PROVE  a < at[t] + 1
        BY <2>1
      <4>1. a = at[t] \/ a \in verified[t]
        OBVIOUS
      <4> QED
        BY <1>2, <1>3, <1>4, <4>1
    <3>2. \A k \in DOMAIN audit'[t] : audit'[t][k].action < at'[t]
      <4> SUFFICES ASSUME NEW k \in DOMAIN audit'[t]
                   PROVE  audit'[t][k].action < at[t] + 1
        BY <2>1
      <4> QED
        BY <1>1, <1>2
    <3>3. \A i \in DOMAIN sent'[t] : sent'[t][i].action < at'[t]
      <4> SUFFICES ASSUME NEW i \in DOMAIN sent'[t]
                   PROVE  sent'[t][i].action < at'[t]
        OBVIOUS
      <4>1. sent'[t] \in Seq(Sending)
        BY DEF TypeOK
      <4>2. sent'[t][i] \in Sending
        BY <4>1
      <4>3. sent'[t][i].action \in Nat
        BY <4>2 DEF Sending, Actions
      <4> QED
        BY <1>2, <2>1, <4>3
    <3> QED
      BY <3>1, <3>2, <3>3, Zenon DEF AuditPlace
  <2>2. CASE pc'[t] \in {"rollback", "done"} /\ at'[t] = at[t]
    <3>1. \A a \in verified'[t] : a < at'[t] \/ (pc'[t] = "done" /\ a = at'[t])
      <4>1. CASE success
        <5>1. pc'[t] = "done" /\ verified'[t] = verified[t] \cup {at[t]}
          BY <2>2, <4>1
        <5> QED
          BY <1>3, <2>2, <5>1
      <4>2. CASE ~success
        <5>1. verified'[t] = verified[t]
          BY <4>2
        <5> QED
          BY <1>3, <2>2, <5>1
      <4> QED
        BY <4>1, <4>2
    <3>2. \A k \in DOMAIN audit'[t] :
            audit'[t][k].action < at'[t] \/ audit'[t][k].action = at'[t]
      BY <1>1, <1>2, <2>2
    <3> QED
      BY <2>2, <3>1, <3>2 DEF AuditPlace
  <2> QED
    BY <2>1, <2>2
<1>6. ASSUME t \notin LogMayFail
      PROVE  SentLogged(t)'
  <2> SUFFICES ASSUME NEW i \in DOMAIN sent'[t]
               PROVE  \E k \in DOMAIN audit'[t] :
                        audit'[t][k].action = sent'[t][i].action
    BY DEF SentLogged, Logged
  <2>1. CASE sent'[t][i].action = at[t]
    BY <1>1, <1>6, <2>1
  <2>2. CASE sent'[t][i].action # at[t]
    <3>1. /\ i \in DOMAIN sent[t] /\ sent'[t][i] = sent[t][i]
          /\ sent[t][i].action < at[t]
      BY <2>2
    <3>2. Logged(t, sent[t][i].action)
      BY <1>6, <3>1 DEF AuditInv, SentLogged
    <3> QED
      BY <1>1, <3>1, <3>2 DEF Logged
  <2> QED
    BY <2>1, <2>2
<1> QED
  BY <1>1, <1>5, <1>6 DEF AuditInv

\* What a dispatch adds to what was sent is the action the task is at.
LEMMA SentStep ==
  ASSUME TypeOK, NEW t \in Tasks, Dispatch(t), AuditInv(t)
  PROVE  /\ \A i \in DOMAIN sent'[t] :
              sent'[t][i].action < at[t] \/ sent'[t][i].action = at[t]
         /\ \A i \in DOMAIN sent'[t] :
              \/ sent'[t][i].action = at[t]
              \/ i \in DOMAIN sent[t] /\ sent'[t][i] = sent[t][i]
         /\ \A i \in DOMAIN sent[t] :
              i \in DOMAIN sent'[t] /\ sent'[t][i] = sent[t][i]
<1> DEFINE n == Len(sent[t])
           s == [action |-> at[t], backend |-> backend[t], time |-> now]
<1>1. /\ sent[t] \in Seq(Sending) /\ n \in Nat /\ DOMAIN sent[t] = 1..n
      /\ sent'[t] = Append(sent[t], s)
  BY DEF Dispatch, TypeOK
<1>2. /\ DOMAIN sent'[t] = 1..(n + 1) /\ sent'[t][n + 1] = s
      /\ \A i \in 1..n : sent'[t][i] = sent[t][i]
  BY <1>1
<1>3. \A i \in DOMAIN sent[t] :
        sent[t][i].action < at[t] \/ sent[t][i].action = at[t]
  BY DEF AuditInv, AuditPlace
<1>4. ASSUME NEW i \in DOMAIN sent'[t]
      PROVE  \/ sent'[t][i].action = at[t]
             \/ i \in DOMAIN sent[t] /\ sent'[t][i] = sent[t][i]
  <2>1. i \in 1..n \/ i = n + 1
    BY <1>1, <1>2
  <2>2. s.action = at[t]
    OBVIOUS
  <2> QED
    BY <1>1, <1>2, <2>1, <2>2
<1>5. \A i \in DOMAIN sent[t] : i \in DOMAIN sent'[t]
  BY <1>1, <1>2
<1> QED
  BY <1>1, <1>2, <1>3, <1>4, <1>5

\* A dispatch that the backend took, or that is to be repeated, is not logged.
LEMMA RecordSent ==
  ASSUME TypeOK, NEW t \in Tasks, Dispatch(t), AuditInv(t),
         audit'[t] = audit[t], pc'[t] \in {"settle", "verify"}
  PROVE  AuditInv(t)'
<1>1. /\ pc[t] = "settle" /\ UNCHANGED <<at, verified>>
  BY DEF Dispatch
<1>2. AuditPlace(t)'
  BY <1>1, SentStep DEF AuditInv, AuditPlace
<1>3. EntriesTrue(t)'
  BY <1>1 DEF AuditInv, EntriesTrue
<1>4. ASSUME SentLogged(t)
      PROVE  SentLogged(t)'
  <2> SUFFICES ASSUME NEW i \in DOMAIN sent'[t], sent'[t][i].action < at[t]
               PROVE  Logged(t, sent'[t][i].action)
    BY <1>1 DEF SentLogged, Logged
  <2>1. sent'[t][i].action # at[t]
    <3>1. at[t] \in Nat
      BY DEF TypeOK, Actions
    <3> QED
      BY <3>1
  <2>2. i \in DOMAIN sent[t] /\ sent'[t][i] = sent[t][i]
    BY <2>1, SentStep
  <2> QED
    BY <1>4, <2>2 DEF SentLogged
<1> QED
  BY <1>2, <1>3, <1>4 DEF AuditInv

\* Every step of a task keeps its record.
LEMMA AuditStep ==
  ASSUME TypeOK, TypeOK', NEW t \in Tasks, Progress(t), AuditInv(t), TaskStep(t)
  PROVE  AuditInv(t)'
<1>1. CASE StartPlan(t)
  <2>1. at[t] = 1 /\ pc[t] = "approved"
    BY <1>1 DEF StartPlan, Progress
  <2>2. pc'[t] = "lock" /\ at'[t] = 1 /\ UNCHANGED <<sent, verified, audit>>
    BY <1>1 DEF StartPlan, Begin, TypeOK
  <2> QED
    BY <2>1, <2>2, RecordKept
<1>2. CASE AcquireLimiter(t) \/ GateRefuses(t)
  <2>1. /\ pc[t] \in {"lock", "gate"} /\ pc'[t] \in {"gate", "rollback"}
        /\ UNCHANGED <<at, sent, verified, audit>>
    BY <1>2 DEF AcquireLimiter, GateRefuses, TypeOK
  <2> QED
    BY <2>1, RecordKept
<1>3. CASE CheckRate(t)
  <2>1. /\ pc[t] = "gate" /\ pc'[t] \in {"settle", "rollback"}
        /\ UNCHANGED <<at, sent, verified, audit>>
    BY <1>3, Admission DEF CheckRate, TypeOK
  <2> QED
    BY <2>1, RecordKept
<1>4. CASE Dispatch(t)
  <2>1. pc[t] = "settle" /\ UNCHANGED <<at, verified>>
    BY <1>4 DEF Dispatch
  <2>2. CASE pc' = [pc EXCEPT ![t] = "verify"] /\ UNCHANGED <<backend, audit>>
    <3>1. pc'[t] = "verify" /\ audit' = audit
      BY <2>2 DEF TypeOK
    <3> QED
      BY <1>4, <3>1, RecordSent
  <2>3. CASE FallBack(t) /\ backend[t] = "enigo"
    <3>1. pc'[t] = "settle" /\ audit' = audit
      BY <2>3 DEF FallBack, TypeOK
    <3> QED
      BY <1>4, <3>1, RecordSent
  <2>4. CASE FallBack(t) /\ backend[t] # "enigo"
    <3>1. pc'[t] = "rollback" /\ Log(t, FALSE)
      BY <2>4 DEF FallBack, TypeOK
    <3> QED
      BY <1>4, <2>1, <3>1, SentStep, RecordEnds
  <2> QED
    BY <1>4, <2>2, <2>3, <2>4 DEF Dispatch
<1>5. ASSUME pc[t] = "verify", UNCHANGED sent
      PROVE  /\ \A i \in DOMAIN sent'[t] :
                  sent'[t][i].action < at[t] \/ sent'[t][i].action = at[t]
             /\ \A i \in DOMAIN sent'[t] :
                  i \in DOMAIN sent[t] /\ sent'[t][i] = sent[t][i]
  BY <1>5 DEF AuditInv, AuditPlace
<1>6. CASE Verified(t)
  <2>1. /\ pc[t] = "verify" /\ UNCHANGED sent /\ Log(t, TRUE)
        /\ verified'[t] = verified[t] \cup {at[t]}
    BY <1>6 DEF Verified, TypeOK
  <2>2. \/ pc'[t] = "done" /\ at'[t] = at[t]
        \/ pc'[t] = "lock" /\ at'[t] = at[t] + 1
    BY <1>6 DEF Verified, Continue, Begin, TypeOK
  <2> QED
    BY <1>5, <2>1, <2>2, RecordEnds
<1>7. CASE NotVerified(t)
  <2>1. pc[t] = "verify" /\ UNCHANGED <<at, sent, verified>> /\ FallBack(t)
    BY <1>7 DEF NotVerified
  <2>2. CASE backend[t] = "enigo"
    <3>1. pc'[t] = "settle" /\ audit' = audit
      BY <2>1, <2>2 DEF FallBack, TypeOK
    <3> QED
      BY <2>1, <3>1, RecordKept
  <2>3. CASE backend[t] # "enigo"
    <3>1. pc'[t] = "rollback" /\ Log(t, FALSE)
      BY <2>1, <2>3 DEF FallBack, TypeOK
    <3> QED
      BY <1>5, <2>1, <3>1, RecordEnds
  <2> QED
    BY <2>2, <2>3
<1>8. CASE Unverifiable(t)
  <2>1. /\ pc[t] = "verify" /\ UNCHANGED <<at, sent, verified>> /\ Log(t, FALSE)
        /\ pc'[t] = "rollback"
    BY <1>8 DEF Unverifiable, TypeOK
  <2> QED
    BY <1>5, <2>1, RecordEnds
<1>9. CASE RollBack(t)
  <2>1. /\ pc[t] = "rollback" /\ pc'[t] \in {"rollback", "done"}
        /\ UNCHANGED <<at, sent, verified, audit>>
    BY <1>9 DEF RollBack, TypeOK
  <2> QED
    BY <2>1, RecordKept
<1> QED
  BY <1>1, <1>2, <1>3, <1>4, <1>6, <1>7, <1>8, <1>9 DEF TaskStep

\* The log of a task is written by that task alone.
LEMMA OthersLog ==
  ASSUME TypeOK, NEW t \in Tasks, TaskStep(t), NEW u \in Tasks, u # t
  PROVE  audit'[u] = audit[u]
<1>1. ASSUME NEW success \in BOOLEAN, Log(t, success)
      PROVE  audit'[u] = audit[u]
  BY <1>1 DEF Log, TypeOK
<1>2. ASSUME FallBack(t)
      PROVE  audit'[u] = audit[u]
  BY <1>1, <1>2 DEF FallBack
<1>3. CASE Dispatch(t) \/ NotVerified(t)
  BY <1>2, <1>3 DEF Dispatch, NotVerified
<1>4. CASE Verified(t) \/ Unverifiable(t)
  BY <1>1, <1>4 DEF Verified, Unverifiable
<1>5. ASSUME ~Dispatch(t), ~NotVerified(t), ~Verified(t), ~Unverifiable(t)
      PROVE  audit' = audit
  BY <1>5 DEF TaskStep, StartPlan, AcquireLimiter, GateRefuses, CheckRate, RollBack
<1> QED
  BY <1>3, <1>4, <1>5

\* Every task's record: what it logged, confirmed and sent is where its plan is.
THEOREM RecordsHold == Spec => [](\A t \in Tasks : AuditInv(t))
<1>1. Init => \A t \in Tasks : AuditInv(t)
  BY DEF Init, AuditInv, AuditPlace, EntriesTrue, SentLogged
<1>2. IInv /\ (\A t \in Tasks : AuditInv(t)) /\ IInv' /\ [Next]_vars
        => (\A t \in Tasks : AuditInv(t))'
  <2> SUFFICES ASSUME IInv, \A t \in Tasks : AuditInv(t), IInv', [Next]_vars,
                      NEW u \in Tasks
               PROVE  AuditInv(u)'
    OBVIOUS
  <2>1. TypeOK /\ TypeOK' /\ Progress(u) /\ AuditInv(u)
    BY DEF IInv, Bookkeeping
  <2>2. CASE TaskStep(u)
    BY <2>1, <2>2, AuditStep
  <2>3. ASSUME NEW t \in Tasks, t # u, TaskStep(t)
        PROVE  AuditInv(u)'
    BY <2>1, <2>3, OtherTasks, OthersLog, RecordKept
  <2>4. CASE Tick \/ UNCHANGED vars
    BY <2>1, <2>4, RecordKept DEF Tick, vars, taskVars
  <2> QED
    BY <2>2, <2>3, <2>4 DEF Next
<1> QED
  BY <1>1, <1>2, Inductive, PTL DEF Spec

\* At most one entry for an action, in the plan's order, saying success exactly
\* for the actions that were confirmed, even when the log is unwritable at times.
THEOREM AuditIsTrueHolds == Spec => []AuditIsTrue
<1>1. (\A t \in Tasks : AuditInv(t)) => AuditIsTrue
  BY DEF AuditInv, AuditIsTrue
<1> QED
  BY <1>1, RecordsHold, PTL

\* Where the log can be written, every action that was sent and is over is in it.
THEOREM DispatchedIsAuditedHolds == Spec => []DispatchedIsAudited
<1>1. (\A t \in Tasks : AuditInv(t)) => DispatchedIsAudited
  BY DEF AuditInv, DispatchedIsAudited
<1> QED
  BY <1>1, RecordsHold, PTL
=============================================================================
