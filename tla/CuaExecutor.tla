------------------------------ MODULE CuaExecutor ------------------------------
(***************************************************************************)
(* What happens to an approved plan: the task that main.rs spawns sends    *)
(* the plan's actions one after the other (phantom-core/src/main.rs),      *)
(* each through the rate-limited gate (cua/cua_gate.rs) and the executor   *)
(* with its two backends, verification and audit log                       *)
(* (cua/cua_executor.rs), and rolls back when one of them fails.           *)
(*                                                                         *)
(* Several tasks may run at once.  They share the global rate limiter,     *)
(* whose lock is held from before an action is validated until its         *)
(* verdict, across the query for the vision model.                         *)
(*                                                                         *)
(* The cancellation token of a task is made for that task and handed to    *)
(* nobody else, so it is never cancelled: the branches for it are not      *)
(* taken.  The file snapshots of the rollback are left out.                *)
(***************************************************************************)
EXTENDS Integers, Sequences, FiniteSets

CONSTANTS
  Tasks,        \* the approved plans
  NActions,     \* actions in a plan
  Keyboard,     \* which of them are keyboard actions
  MaxPerWindow, \* max_per_window: 10 in default_cua
  WindowLength, \* window_seconds: 60 in default_cua
  MaxTime,      \* bound on the clock
  LogMayFail,   \* the plans during which the audit log may be unwritable
  NoTask        \* nobody holds the limiter

Actions == 1..NActions
Times == 0..MaxTime

ASSUME ExecutorAssumption ==
  /\ NActions \in Nat \ {0}
  /\ Keyboard \subseteq Actions
  /\ MaxPerWindow \in Nat \ {0}
  /\ WindowLength \in Nat
  /\ MaxTime \in Nat
  /\ LogMayFail \subseteq Tasks
  /\ NoTask \notin Tasks

Backends == {"enigo", "cua_driver"}
Steps == {"approved", "lock", "gate", "settle", "verify", "rollback", "done"}

VARIABLES
  now,      \* the monotonic clock
  holder,   \* the task that holds the limiter's lock
  admitted, \* the times of all actions the limiter let through, oldest first
  front,    \* timestamps is what is left of admitted from here on
  pc,       \* where a task is
  at,       \* the action it is at
  backend,  \* the backend that action goes to
  undo,     \* UndoKeystroke entries on its rollback stack
  sent,     \* history: what a task dispatched, [action, backend, time]
  verified, \* history: the actions of a task that were confirmed
  audit,    \* the audit log's entries for a task, [action, success]
  undone    \* history: the Ctrl+Z keystrokes of its rollback

taskVars == <<pc, at, backend, undo, sent, verified, audit, undone>>
vars == <<now, holder, admitted, front, taskVars>>

Init ==
  /\ now = 0 /\ holder = NoTask
  /\ admitted = <<>> /\ front = 1
  /\ pc = [t \in Tasks |-> "approved"]
  /\ at = [t \in Tasks |-> 1]
  /\ backend = [t \in Tasks |-> "enigo"]
  /\ undo = [t \in Tasks |-> 0]
  /\ verified = [t \in Tasks |-> {}]
  /\ sent = [t \in Tasks |-> <<>>] /\ audit = [t \in Tasks |-> <<>>]
  /\ undone = [t \in Tasks |-> 0]

-----------------------------------------------------------------------------
(* RateLimiter *)

\* Mutant of Expired: the window is one unit shorter.
ExpiredEarly(i) == now - admitted[i] >= WindowLength - 1

Expired(i) == now - admitted[i] >= WindowLength

\* check_and_increment first drops expired timestamps from the front.
Evicted(f) ==
  /\ f \in front..(Len(admitted) + 1)
  /\ \A i \in front..(f - 1) : Expired(i)
  /\ f <= Len(admitted) => ~Expired(f)

HasRoom(f) == Len(admitted) - f + 1 < MaxPerWindow

-----------------------------------------------------------------------------
(* The task of a plan *)

\* The loop over plan.actions: the entry for the rollback is pushed before
\* the action is executed.
Begin(t, a) ==
  /\ at' = [at EXCEPT ![t] = a]
  /\ backend' = [backend EXCEPT ![t] = "enigo"]
  /\ undo' = IF a \in Keyboard THEN [undo EXCEPT ![t] = @ + 1] ELSE undo

StartPlan(t) ==
  /\ pc[t] = "approved"
  /\ pc' = [pc EXCEPT ![t] = "lock"]
  /\ Begin(t, 1)
  /\ UNCHANGED <<now, holder, admitted, front, sent, verified, audit, undone>>

\* GLOBAL_RATE_LIMITER.lock().await
AcquireLimiter(t) ==
  /\ pc[t] = "lock" /\ holder = NoTask
  /\ holder' = t
  /\ pc' = [pc EXCEPT ![t] = "gate"]
  /\ UNCHANGED <<now, admitted, front, at, backend, undo, sent, verified, audit,
                 undone>>

\* Mutant of GateRefuses: the early return forgets the lock.
GateRefusesHolding(t) ==
  /\ pc[t] = "gate"
  /\ pc' = [pc EXCEPT ![t] = "rollback"]
  /\ UNCHANGED <<now, holder, admitted, front, at, backend, undo, sent, verified,
                 audit, undone>>

\* validate_action refuses: disabled, forbidden window, out of bounds, no
\* vision model.  The limiter is not asked and nothing is logged.
GateRefuses(t) ==
  /\ pc[t] = "gate"
  /\ holder' = NoTask
  /\ pc' = [pc EXCEPT ![t] = "rollback"]
  /\ UNCHANGED <<now, admitted, front, at, backend, undo, sent, verified, audit,
                 undone>>

\* The last check, at the time it is made.
CheckRate(t) ==
  /\ pc[t] = "gate"
  /\ \E f \in 1..(Len(admitted) + 1) :
       /\ Evicted(f)
       /\ front' = f
       /\ IF HasRoom(f)
            THEN admitted' = Append(admitted, now) /\ pc' = [pc EXCEPT ![t] = "settle"]
            ELSE UNCHANGED admitted /\ pc' = [pc EXCEPT ![t] = "rollback"]
  /\ holder' = NoTask
  /\ UNCHANGED <<now, at, backend, undo, sent, verified, audit, undone>>

\* audit_log: an entry that cannot be written is dropped silently.
Log(t, success) ==
  \/ audit' = [audit EXCEPT ![t] =
                 Append(@, [action |-> at[t], success |-> success])]
  \/ t \in LogMayFail /\ UNCHANGED audit

\* The other backend, or the failure is logged and the plan fails.
FallBack(t) ==
  IF backend[t] = "enigo"
    THEN /\ backend' = [backend EXCEPT ![t] = "cua_driver"]
         /\ pc' = [pc EXCEPT ![t] = "settle"]
         /\ UNCHANGED audit
    ELSE /\ Log(t, FALSE)
         /\ pc' = [pc EXCEPT ![t] = "rollback"]
         /\ UNCHANGED backend

\* After the settling delay the action goes to the backend, which may fail
\* with a part of the action done.
Dispatch(t) ==
  /\ pc[t] = "settle"
  /\ sent' = [sent EXCEPT ![t] =
                Append(@, [action |-> at[t], backend |-> backend[t], time |-> now])]
  /\ \/ pc' = [pc EXCEPT ![t] = "verify"] /\ UNCHANGED <<backend, audit>>
     \/ FallBack(t)
  /\ UNCHANGED <<now, holder, admitted, front, at, undo, verified, undone>>

\* The plan is over, or its next action begins.
Continue(t) ==
  IF at[t] = NActions
    THEN pc' = [pc EXCEPT ![t] = "done"] /\ UNCHANGED <<at, backend, undo>>
    ELSE pc' = [pc EXCEPT ![t] = "lock"] /\ Begin(t, at[t] + 1)

\* Mutant of Verified: the next action starts without a log entry.
VerifiedUnlogged(t) ==
  /\ pc[t] = "verify"
  /\ verified' = [verified EXCEPT ![t] = @ \cup {at[t]}]
  /\ UNCHANGED audit
  /\ Continue(t)
  /\ UNCHANGED <<now, holder, admitted, front, sent, undone>>

\* The screenshots or the vision model confirm the action.
Verified(t) ==
  /\ pc[t] = "verify"
  /\ verified' = [verified EXCEPT ![t] = @ \cup {at[t]}]
  /\ Log(t, TRUE)
  /\ Continue(t)
  /\ UNCHANGED <<now, holder, admitted, front, sent, undone>>

\* They do not.
NotVerified(t) ==
  /\ pc[t] = "verify"
  /\ FallBack(t)
  /\ UNCHANGED <<now, holder, admitted, front, at, undo, sent, verified, undone>>

\* Mutant of Unverifiable: the plan goes on as if the action had succeeded.
UnverifiableIgnored(t) ==
  /\ pc[t] = "verify"
  /\ Log(t, FALSE)
  /\ Continue(t)
  /\ UNCHANGED <<now, holder, admitted, front, sent, verified, undone>>

\* Mutant of Unverifiable: failing open in the log.
UnverifiableAsSuccess(t) ==
  /\ pc[t] = "verify"
  /\ Log(t, TRUE)
  /\ pc' = [pc EXCEPT ![t] = "rollback"]
  /\ UNCHANGED <<now, holder, admitted, front, at, backend, undo, sent, verified,
                 undone>>

\* No screenshot to tell from: failing closed, without the other backend.
Unverifiable(t) ==
  /\ pc[t] = "verify"
  /\ Log(t, FALSE)
  /\ pc' = [pc EXCEPT ![t] = "rollback"]
  /\ UNCHANGED <<now, holder, admitted, front, at, backend, undo, sent, verified,
                 undone>>

\* The rollback: one Ctrl+Z for every entry, then the plan has failed.
RollBack(t) ==
  /\ pc[t] = "rollback"
  /\ IF undo[t] > 0
       THEN /\ undo' = [undo EXCEPT ![t] = @ - 1]
            /\ undone' = [undone EXCEPT ![t] = @ + 1]
            /\ UNCHANGED pc
       ELSE pc' = [pc EXCEPT ![t] = "done"] /\ UNCHANGED <<undo, undone>>
  /\ UNCHANGED <<now, holder, admitted, front, at, backend, sent, verified, audit>>

-----------------------------------------------------------------------------
Tick ==
  /\ now < MaxTime
  /\ now' = now + 1
  /\ UNCHANGED <<holder, admitted, front, taskVars>>

TaskStep(t) ==
  \/ StartPlan(t) \/ AcquireLimiter(t) \/ GateRefuses(t) \/ CheckRate(t)
  \/ Dispatch(t) \/ Verified(t) \/ NotVerified(t) \/ Unverifiable(t)
  \/ RollBack(t)

Next == Tick \/ \E t \in Tasks : TaskStep(t)

Spec == Init /\ [][Next]_vars

\* tokio runs every task, its mutex is fair, and the programs and the vision
\* model that are asked return.
FairSpec == Spec /\ \A t \in Tasks : WF_vars(TaskStep(t))
-----------------------------------------------------------------------------
(* Properties *)

Entry == [action : Actions, success : BOOLEAN]
Sending == [action : Actions, backend : Backends, time : Times]

\* Every variable has the type its comment above gives it, and the limiter is
\* held by exactly the task that is in the gate.
TypeOK ==
  /\ now \in Times
  /\ holder \in Tasks \cup {NoTask}
  /\ \A t \in Tasks : holder = t <=> pc[t] = "gate"
  /\ admitted \in Seq(Times) /\ front \in 1..(Len(admitted) + 1)
  /\ pc \in [Tasks -> Steps] /\ at \in [Tasks -> Actions]
  /\ backend \in [Tasks -> Backends]
  /\ undo \in [Tasks -> Nat] /\ undone \in [Tasks -> Nat]
  /\ verified \in [Tasks -> SUBSET Actions]
  /\ sent \in [Tasks -> Seq(Sending)] /\ audit \in [Tasks -> Seq(Entry)]

\* cua_gate.rs:124, of the actions the limiter lets through: no interval of
\* WindowLength holds more than MaxPerWindow of them, whichever tasks they
\* belong to and however long each was in the gate.
WindowBound ==
  \A i \in 1..(Len(admitted) - MaxPerWindow) :
    admitted[i + MaxPerWindow] - admitted[i] >= WindowLength

Disciplined(t) ==
  \A i \in DOMAIN sent[t] :
    LET s == sent[t][i]
    IN  IF i = 1 THEN s.action = 1 /\ s.backend = "enigo"
        ELSE LET p == sent[t][i - 1]
             IN  \/ /\ s.action = p.action
                    /\ p.backend = "enigo" /\ s.backend = "cua_driver"
                 \/ /\ s.action = p.action + 1 /\ s.backend = "enigo"
                    /\ p.action \in verified[t]

\* What a task sends is its plan, in order: an action goes to enigo first and
\* to cua-driver at most once more, and the next one goes out only after this
\* one was confirmed.
DispatchDiscipline == \A t \in Tasks : Disciplined(t)

EntriesTrue(t) ==
  \A k \in DOMAIN audit[t] :
    /\ audit[t][k].success <=> audit[t][k].action \in verified[t]
    /\ \A l \in 1..(k - 1) : audit[t][l].action < audit[t][k].action

\* The audit log has at most one entry for an action, in the plan's order, and
\* it says success exactly for those that were confirmed.
AuditIsTrue == \A t \in Tasks : EntriesTrue(t)

Logged(t, a) == \E k \in DOMAIN audit[t] : audit[t][k].action = a

SentLogged(t) ==
  \A i \in DOMAIN sent[t] :
    LET a == sent[t][i].action
    IN  a < at[t] \/ pc[t] \in {"rollback", "done"} => Logged(t, a)

\* If the log can be written, every action that was sent and is over is in it.
DispatchedIsAudited == \A t \in Tasks \ LogMayFail : SentLogged(t)

\* Every plan ends: no task waits forever for the limiter or bounces between
\* the backends.
PlanEnds == \A t \in Tasks : <>(pc[t] = "done")

-----------------------------------------------------------------------------
(* Why WindowBound, DispatchDiscipline and the properties of the log hold.   *)

\* What the limiter has forgotten is out of every window that can still come,
\* and what it remembers is less than a window full whenever it lets an
\* action through.
LimiterInv ==
  /\ \A i, j \in DOMAIN admitted : i <= j => admitted[i] <= admitted[j]
  /\ \A i \in DOMAIN admitted : admitted[i] <= now
  /\ \A i \in 1..(front - 1) : Expired(i)
  /\ Len(admitted) - front + 1 <= MaxPerWindow

\* Where a task is in its plan, and what it sent last.
Progress(t) ==
  LET n == Len(sent[t])
      last == sent[t][n]
      FreshAction ==
        /\ backend[t] = "enigo"
        /\ IF at[t] = 1 THEN n = 0
           ELSE n > 0 /\ last.action = at[t] - 1 /\ at[t] - 1 \in verified[t]
  IN  /\ pc[t] = "approved" => n = 0 /\ at[t] = 1
      /\ pc[t] \in {"lock", "gate"} => FreshAction
      /\ pc[t] = "settle" =>
           IF backend[t] = "enigo" THEN FreshAction
           ELSE n > 0 /\ last.action = at[t] /\ last.backend = "enigo"
      /\ pc[t] = "verify" => n > 0 /\ last.action = at[t] /\ last.backend = backend[t]

\* The limiter's memory and every task's place in its plan agree with what
\* was let through and sent.
Bookkeeping == LimiterInv /\ \A t \in Tasks : Progress(t)

IInv == TypeOK /\ Bookkeeping /\ WindowBound /\ DispatchDiscipline

\* What was confirmed, logged and sent is behind the action a task is at, or
\* is that action: sent once the gate is passed, logged when the plan stops at
\* it, confirmed when it was the last.
AuditPlace(t) ==
  /\ \A a \in verified[t] : a < at[t] \/ (pc[t] = "done" /\ a = at[t])
  /\ \A k \in DOMAIN audit[t] :
       \/ audit[t][k].action < at[t]
       \/ pc[t] \in {"rollback", "done"} /\ audit[t][k].action = at[t]
  /\ \A i \in DOMAIN sent[t] :
       \/ sent[t][i].action < at[t]
       \/ pc[t] \notin {"approved", "lock", "gate"} /\ sent[t][i].action = at[t]

AuditInv(t) ==
  AuditPlace(t) /\ EntriesTrue(t) /\ (t \notin LogMayFail => SentLogged(t))
=============================================================================
