------------------------------ MODULE CuaApproval ------------------------------
(***************************************************************************)
(* How the desktop daemon asks before it acts: the keyboard hook           *)
(* (phantom-core/src/hotkey.rs), the event loop of phantom-core/src/main.rs *)
(* and the timers it spawns share the flag CUA_PENDING, the slot           *)
(* pending_cua_plan and one bounded channel of events.                     *)
(*                                                                         *)
(* The hook runs on a thread of its own, between any two steps of the      *)
(* loop, and each of its accesses to the flag is a step.  The loop handles *)
(* one event at a time and plans inside the handler, so what the hook      *)
(* sends meanwhile waits in the channel.                                   *)
(*                                                                         *)
(* Of time only an order is kept: the overlay of a plan is up for 10 s     *)
(* and its timer runs for 10.5 s, so the timer comes after that overlay.   *)
(***************************************************************************)
EXTENDS Integers, Sequences

CONSTANTS
  MaxPlans,  \* bound on the number of plans made
  Capacity   \* the channel's capacity

ASSUME ApprovalAssumption == MaxPlans \in Nat /\ Capacity \in Nat \ {0}

Plans == 1..MaxPlans
NoPlan == 0

Events == {"hotkey", "approved", "cancelled"}
\* The keys told apart: Tab, the M of the hotkey, and any other key, Escape included.
Keys == {"tab", "hotkey", "other"}

VARIABLES
  flag,      \* CUA_PENDING
  slot,      \* pending_cua_plan
  queue,     \* the events in the channel
  hook,      \* what the hook is doing: [at, send], send is still to be sent
  loop,      \* where the event loop is
  timer,     \* the timeout guard of each plan
  planned,   \* number of the last plan made
  display,   \* the plan the overlay shows
  running,   \* the plans being executed
  answer,    \* history: the first key intercepted while a plan was in the slot
  overtaken, \* history: the plans stored while an approval was under way
  executed   \* history: the plans taken for execution, in order

uiVars == <<display, running>>
historyVars == <<answer, overtaken, executed>>
vars == <<flag, slot, queue, hook, loop, timer, planned, uiVars, historyVars>>

Idle == [at |-> "idle", send |-> <<>>]

Init ==
  /\ flag = FALSE /\ slot = NoPlan /\ queue = <<>>
  /\ hook = Idle /\ loop = "idle"
  /\ timer = [p \in Plans |-> "none"]
  /\ planned = 0 /\ display = NoPlan /\ running = {}
  /\ answer = [p \in Plans |-> "none"]
  /\ overtaken = {} /\ executed = <<>>

\* The events in the order the loop will see them.
InFlight == queue \o hook.send

Carries(s, event) == \E i \in DOMAIN s : s[i] = event

-----------------------------------------------------------------------------
(* The keyboard hook *)

\* Mutant of AnswerOf: any key approves.
AnswerOfAnyKey(key) == <<"approved">>

\* What the hook sends for a key pressed while the flag is up.  Any key but
\* Tab cancels; the hotkey is then handled like any other time.
AnswerOf(key) ==
  CASE key = "tab" -> <<"approved">>
    [] key = "other" -> <<"cancelled">>
    [] key = "hotkey" -> <<"cancelled", "hotkey">>

\* A key press the hook intercepts: it has read the flag.  The key may be the
\* user's or typed by an executing plan: the hook sees both, and does not look
\* at the flag that marks injected keys.
Intercept(key) ==
  /\ hook.at = "idle" /\ flag
  /\ hook' = [at |-> "clear", send |-> AnswerOf(key)]
  /\ answer' = IF slot = NoPlan \/ answer[slot] # "none" THEN answer
               ELSE [answer EXCEPT ![slot] = key]
  /\ UNCHANGED <<flag, slot, queue, loop, timer, planned, uiVars, overtaken,
                 executed>>

\* The hotkey while no plan is pending.  Other keys are passed through.
PressHotkey ==
  /\ hook.at = "idle" /\ ~flag
  /\ hook' = [at |-> "send", send |-> <<"hotkey">>]
  /\ UNCHANGED <<flag, slot, queue, loop, timer, planned, uiVars, historyVars>>

ClearFlag ==
  /\ hook.at = "clear"
  /\ flag' = FALSE
  /\ hook' = [hook EXCEPT !.at = "send"]
  /\ UNCHANGED <<slot, queue, loop, timer, planned, uiVars, historyVars>>

\* Mutant of SendEvent: the hook does not wait.
SendEventUnbounded ==
  /\ hook.at = "send"
  /\ queue' = Append(queue, Head(hook.send))
  /\ hook' = IF Len(hook.send) = 1 THEN Idle
             ELSE [hook EXCEPT !.send = Tail(@)]
  /\ UNCHANGED <<flag, slot, loop, timer, planned, uiVars, historyVars>>

\* send_event: the hook waits while the channel is full.
SendEvent ==
  /\ hook.at = "send" /\ Len(queue) < Capacity
  /\ queue' = Append(queue, Head(hook.send))
  /\ hook' = IF Len(hook.send) = 1 THEN Idle
             ELSE [hook EXCEPT !.send = Tail(@)]
  /\ UNCHANGED <<flag, slot, loop, timer, planned, uiVars, historyVars>>

-----------------------------------------------------------------------------
(* The event loop *)

Receive(event) ==
  /\ loop = "idle" /\ queue # <<>> /\ Head(queue) = event
  /\ queue' = Tail(queue)

\* HotkeyPressed: a toast replaces whatever the overlay shows, and the
\* document is read.
HandleHotkey ==
  /\ Receive("hotkey")
  /\ loop' = "planning" /\ display' = NoPlan
  /\ UNCHANGED <<flag, slot, hook, timer, planned, running, historyVars>>

\* The handler ends without a plan: no prompt, no escalation, or a planner
\* that cannot plan.
NoEscalation ==
  /\ loop = "planning"
  /\ loop' = "idle"
  /\ UNCHANGED <<flag, slot, queue, hook, timer, planned, uiVars, historyVars>>

\* The plan is made and put into the slot, over one that is still there.
StorePlan ==
  /\ loop = "planning" /\ planned < MaxPlans
  /\ planned' = planned + 1 /\ slot' = planned + 1
  /\ loop' = "raise"
  /\ overtaken' = IF Carries(InFlight, "approved")
                    THEN overtaken \cup {planned + 1} ELSE overtaken
  /\ UNCHANGED <<flag, queue, hook, timer, uiVars, answer, executed>>

\* Mutant of RaiseFlag: the timeout guard is not spawned.
RaiseFlagOnly ==
  /\ loop = "raise"
  /\ flag' = TRUE
  /\ loop' = "show"
  /\ UNCHANGED <<slot, queue, hook, timer, planned, uiVars, historyVars>>

\* The flag goes up and the timeout guard is spawned.
RaiseFlag ==
  /\ loop = "raise"
  /\ flag' = TRUE
  /\ timer' = [timer EXCEPT ![planned] = "armed"]
  /\ loop' = "show"
  /\ UNCHANGED <<slot, queue, hook, planned, uiVars, historyVars>>

ShowPlan ==
  /\ loop = "show"
  /\ display' = planned /\ loop' = "idle"
  /\ UNCHANGED <<flag, slot, queue, hook, timer, planned, running, historyVars>>

\* Mutant of HandleApproved: the slot keeps the plan.
HandleApprovedKeeping ==
  /\ Receive("approved")
  /\ IF slot = NoPlan
       THEN UNCHANGED <<display, running, executed>>
       ELSE /\ display' = NoPlan
            /\ running' = running \cup {slot}
            /\ executed' = Append(executed, slot)
  /\ UNCHANGED <<flag, slot, hook, loop, timer, planned, answer, overtaken>>

\* CuaApproved: whatever is in the slot now is taken and executed in a task of
\* its own, and a toast replaces the overlay.
HandleApproved ==
  /\ Receive("approved")
  /\ slot' = NoPlan
  /\ IF slot = NoPlan
       THEN UNCHANGED <<display, running, executed>>
       ELSE /\ display' = NoPlan
            /\ running' = running \cup {slot}
            /\ executed' = Append(executed, slot)
  /\ UNCHANGED <<flag, hook, loop, timer, planned, answer, overtaken>>

\* CuaCancelled.
HandleCancelled ==
  /\ Receive("cancelled")
  /\ slot' = NoPlan /\ display' = NoPlan
  /\ UNCHANGED <<flag, hook, loop, timer, planned, running, historyVars>>

-----------------------------------------------------------------------------
(* Timers and tasks *)

OverlayExpires ==
  /\ display # NoPlan
  /\ display' = NoPlan
  /\ UNCHANGED <<flag, slot, queue, hook, loop, timer, planned, running,
                 historyVars>>

\* The timeout guard of p wakes up after p's overlay is gone and reads the
\* flag, which may be up for a later plan by now.
TimerWakes(p) ==
  /\ timer[p] = "armed"
  /\ display # p /\ ~(loop = "show" /\ planned = p)
  /\ timer' = [timer EXCEPT ![p] = IF flag THEN "clearing" ELSE "done"]
  /\ UNCHANGED <<flag, slot, queue, hook, loop, planned, uiVars, historyVars>>

TimerClears(p) ==
  /\ timer[p] = "clearing"
  /\ flag' = FALSE
  /\ timer' = [timer EXCEPT ![p] = "done"]
  /\ UNCHANGED <<slot, queue, hook, loop, planned, uiVars, historyVars>>

\* The task of p ends; CuaExecutor models what it does before that.
PlanEnds(p) ==
  /\ p \in running
  /\ running' = running \ {p}
  /\ UNCHANGED <<flag, slot, queue, hook, loop, timer, planned, display,
                 historyVars>>

-----------------------------------------------------------------------------
KeyPressed == \E key \in Keys : Intercept(key)
HookStep == ClearFlag \/ SendEvent
LoopStep ==
  \/ HandleHotkey \/ NoEscalation \/ StorePlan \/ RaiseFlag \/ ShowPlan
  \/ HandleApproved \/ HandleCancelled
TimerStep(p) == TimerWakes(p) \/ TimerClears(p)

Next ==
  \/ KeyPressed \/ PressHotkey
  \/ HookStep
  \/ LoopStep
  \/ OverlayExpires
  \/ \E p \in Plans : TimerStep(p) \/ PlanEnds(p)

Spec == Init /\ [][Next]_vars

\* Threads, the loop's task and tokio's timers are scheduled, and the overlay's
\* window timer fires.  Nothing is assumed of the keyboard.
FairSpec ==
  /\ Spec
  /\ WF_vars(HookStep) /\ WF_vars(LoopStep) /\ WF_vars(OverlayExpires)
  /\ \A p \in Plans : WF_vars(TimerStep(p))
-----------------------------------------------------------------------------
(* Properties *)

\* Every variable has the type its comment above gives it; the hook holds
\* events exactly while it has some to send.
TypeOK ==
  /\ flag \in BOOLEAN
  /\ slot \in Plans \cup {NoPlan}
  /\ queue \in Seq(Events) /\ Len(queue) <= Capacity
  /\ hook \in [at : {"idle", "clear", "send"}, send : Seq(Events)]
  /\ hook.at = "idle" <=> hook.send = <<>>
  /\ loop \in {"idle", "planning", "raise", "show"}
  /\ timer \in [Plans -> {"none", "armed", "clearing", "done"}]
  /\ planned \in 0..MaxPlans
  /\ loop \in {"raise", "show"} => planned \in Plans
  /\ display \in Plans \cup {NoPlan} /\ running \subseteq Plans
  /\ answer \in [Plans -> Keys \cup {"none"}]
  /\ overtaken \subseteq Plans
  /\ executed \in Seq(Plans)

\* The first key settles it: a plan is executed only if the first key
\* intercepted while it was pending was Tab, whatever keys, timers and further
\* hotkeys come afterwards.  Excepted is a plan that was stored while an
\* approval was on its way to the loop, see NeverAutoExecutes.
FirstKeyDecides ==
  \A i \in DOMAIN executed :
    executed[i] \notin overtaken => answer[executed[i]] = "tab"

\* One approval, one execution: no plan is executed a second time, even if
\* Tab is intercepted again while the flag is up and the slot is empty.
EachPlanRunsOnce ==
  \A i, j \in DOMAIN executed : executed[i] = executed[j] => i = j

\* What has become of a plan.
Status(p) ==
  IF p > planned THEN "new"
  ELSE IF p \in running THEN "executing"
  ELSE IF p = slot THEN "pending"
  ELSE IF Carries(executed, p) THEN "ended" ELSE "dropped"
Lifecycle == INSTANCE PlanLifecycle WITH
  status <- [p \in Plans |-> Status(p)], excused <- overtaken
\* Flag, slot, channel and timers together keep the life of a plan that
\* PlanLifecycle promises: nothing is executed that was not pending, nothing
\* comes back, and the answer that counts is the first.
LifecycleKept == Lifecycle!Spec

\* main.rs:1959: "CUA_PENDING would otherwise stay `true` forever, causing the
\* very next keypress (even hours later) to spuriously fire".  The flag always
\* comes down again without a key.
FlagComesDown == flag ~> ~flag

-----------------------------------------------------------------------------
(* Why FirstKeyDecides holds: an approval still on its way to the loop finds *)
(* its own plan, a later one that was overtaken, or nothing.                 *)

\* The first answer among the events is an approval.
ApprovalLeads(s) ==
  \E i \in DOMAIN s :
    s[i] = "approved" /\ \A j \in 1..(i - 1) : s[j] # "cancelled"

AnswersInOrder ==
  slot # NoPlan /\ slot \notin overtaken =>
    /\ ApprovalLeads(InFlight) => answer[slot] = "tab"
    /\ answer[slot] \in {"other", "hotkey"} => Carries(InFlight, "cancelled")

\* A plan that was not made yet has no history, and the slot holds the last
\* one made or none.
PlansInOrder ==
  /\ slot \in {NoPlan, planned}
  /\ \A p \in Plans : p > planned => answer[p] = "none"
  /\ \A i \in DOMAIN executed :
       executed[i] <= planned /\ executed[i] # slot

Bookkeeping == AnswersInOrder /\ PlansInOrder

IInv == TypeOK /\ Bookkeeping /\ FirstKeyDecides /\ EachPlanRunsOnce

-----------------------------------------------------------------------------
(* What the repository says of this code and the code does not do *)

\* grp_cua_plan.rs:10: "NEVER auto-executes.  User MUST press Tab to approve."
\* The approval carries no plan: one that waits behind another hotkey executes
\* the plan made for that hotkey.
NeverAutoExecutes == \A i \in DOMAIN executed : answer[executed[i]] = "tab"
=============================================================================
