-------------------------- MODULE CuaApproval_proofs --------------------------
(***************************************************************************)
(* Proofs about the approval of plans, for every number of plans and every *)
(* channel capacity.                                                       *)
(***************************************************************************)
EXTENDS CuaApproval, SequenceTheorems, TLAPS

-----------------------------------------------------------------------------
(* Events on their way to the loop *)

\* Sending moves an event from the hook to the channel: nothing is lost,
\* doubled or overtaken.
LEMMA SendKeepsOrder ==
  ASSUME NEW q \in Seq(Events), NEW s \in Seq(Events), s # <<>>
  PROVE  /\ Append(q, Head(s)) \in Seq(Events)
         /\ Tail(s) \in Seq(Events)
         /\ Len(Append(q, Head(s))) = Len(q) + 1
         /\ Append(q, Head(s)) \o Tail(s) = q \o s
<1> DEFINE a == Append(q, Head(s))
<1>1. /\ Head(s) \in Events /\ Head(s) = s[1]
      /\ Tail(s) \in Seq(Events) /\ Len(Tail(s)) = Len(s) - 1
      /\ \A i \in 1..Len(Tail(s)) : Tail(s)[i] = s[i + 1]
      /\ Len(s) \in Nat \ {0} /\ Len(q) \in Nat
  BY HeadTailProperties, EmptySeq
<1>2. /\ a \in Seq(Events) /\ Len(a) = Len(q) + 1
      /\ \A i \in 1..Len(q) : a[i] = q[i]
      /\ a[Len(q) + 1] = Head(s)
  BY <1>1
<1>3. /\ a \o Tail(s) \in Seq(Events) /\ q \o s \in Seq(Events)
      /\ Len(a \o Tail(s)) = Len(q) + Len(s) /\ Len(q \o s) = Len(q) + Len(s)
      /\ \A i \in 1..(Len(q) + Len(s)) :
           (q \o s)[i] = IF i <= Len(q) THEN q[i] ELSE s[i - Len(q)]
      /\ \A i \in 1..(Len(q) + Len(s)) :
           (a \o Tail(s))[i] = IF i <= Len(q) + 1 THEN a[i] ELSE Tail(s)[i - (Len(q) + 1)]
  <2> HIDE DEF a
  <2>1. /\ q \o s \in Seq(Events) /\ Len(q \o s) = Len(q) + Len(s)
        /\ \A i \in 1..(Len(q) + Len(s)) :
             (q \o s)[i] = IF i <= Len(q) THEN q[i] ELSE s[i - Len(q)]
    BY ConcatProperties
  <2>2. /\ a \o Tail(s) \in Seq(Events) /\ Len(a \o Tail(s)) = Len(a) + Len(Tail(s))
        /\ \A i \in 1..(Len(a) + Len(Tail(s))) :
             (a \o Tail(s))[i] = IF i <= Len(a) THEN a[i] ELSE Tail(s)[i - Len(a)]
    BY <1>1, <1>2, ConcatProperties
  <2>3. Len(a) + Len(Tail(s)) = Len(q) + Len(s)
    BY <1>1, <1>2
  <2> QED
    BY <1>2, <2>1, <2>2, <2>3
<1>4. ASSUME NEW i \in 1..(Len(q) + Len(s))
      PROVE  (a \o Tail(s))[i] = (q \o s)[i]
  <2> HIDE DEF a
  <2>1. CASE i <= Len(q)
    BY <2>1, <1>1, <1>2, <1>3
  <2>2. CASE i = Len(q) + 1
    BY <2>2, <1>1, <1>2, <1>3
  <2>3. CASE i > Len(q) + 1
    <3>1. i - (Len(q) + 1) \in 1..Len(Tail(s))
      BY <2>3, <1>1
    <3>2. Tail(s)[i - (Len(q) + 1)] = s[(i - (Len(q) + 1)) + 1]
      BY <3>1, <1>1
    <3>3. (i - (Len(q) + 1)) + 1 = i - Len(q)
      BY <1>1
    <3> QED
      BY <2>3, <1>1, <1>3, <3>2, <3>3
  <2>4. i \in Int /\ Len(q) \in Int
    BY <1>1
  <2>5. i <= Len(q) \/ i = Len(q) + 1 \/ i > Len(q) + 1
    BY <2>4
  <2> QED
    BY <2>1, <2>2, <2>3, <2>5
<1>5. a \o Tail(s) = q \o s
  <2> HIDE DEF a
  <2> QED
    BY <1>3, <1>4, SeqEqual
<1> QED
  BY <1>1, <1>2, <1>5

\* Receiving takes the first event off.
LEMMA ReceiveTakesFirst ==
  ASSUME NEW q \in Seq(Events), NEW s \in Seq(Events), q # <<>>
  PROVE  /\ Tail(q) \in Seq(Events) /\ Len(Tail(q)) = Len(q) - 1
         /\ Tail(q) \o s \in Seq(Events)
         /\ Len(q \o s) = Len(Tail(q) \o s) + 1
         /\ (q \o s)[1] = Head(q)
         /\ \A i \in 1..Len(Tail(q) \o s) : (Tail(q) \o s)[i] = (q \o s)[i + 1]
<1>1. /\ Head(q) = q[1]
      /\ Tail(q) \in Seq(Events) /\ Len(Tail(q)) = Len(q) - 1
      /\ \A i \in 1..Len(Tail(q)) : Tail(q)[i] = q[i + 1]
      /\ Len(q) \in Nat \ {0} /\ Len(s) \in Nat
  BY HeadTailProperties, EmptySeq
<1>2. /\ Tail(q) \o s \in Seq(Events)
      /\ Len(Tail(q) \o s) = Len(q) - 1 + Len(s) /\ Len(q \o s) = Len(q) + Len(s)
      /\ \A i \in 1..(Len(q) + Len(s)) :
           (q \o s)[i] = IF i <= Len(q) THEN q[i] ELSE s[i - Len(q)]
      /\ \A i \in 1..(Len(q) - 1 + Len(s)) :
           (Tail(q) \o s)[i] = IF i <= Len(q) - 1 THEN Tail(q)[i] ELSE s[i - (Len(q) - 1)]
  BY <1>1, ConcatProperties
<1>3. ASSUME NEW i \in 1..(Len(q) - 1 + Len(s))
      PROVE  (Tail(q) \o s)[i] = (q \o s)[i + 1]
  <2>1. CASE i <= Len(q) - 1
    BY <2>1, <1>1, <1>2
  <2>2. CASE i > Len(q) - 1
    <3>1. (i + 1) - Len(q) = i - (Len(q) - 1)
      BY <1>1
    <3> QED
      BY <2>2, <3>1, <1>1, <1>2
  <2> QED
    BY <2>1, <2>2, <1>1
<1> QED
  BY <1>1, <1>2, <1>3

\* An event added at the end is the first answer only if no answer was under
\* way before it.
LEMMA AppendedAnswer ==
  ASSUME NEW s \in Seq(Events), NEW e \in Events
  PROVE  /\ ApprovalLeads(Append(s, e)) =>
              ApprovalLeads(s) \/ (e = "approved" /\ ~Carries(s, "cancelled"))
         /\ \A x \in Events : Carries(Append(s, e), x) <=> Carries(s, x) \/ e = x
<1>1. /\ Len(s) \in Nat /\ DOMAIN s = 1..Len(s)
      /\ DOMAIN Append(s, e) = 1..(Len(s) + 1)
      /\ \A i \in 1..Len(s) : Append(s, e)[i] = s[i]
      /\ Append(s, e)[Len(s) + 1] = e
  OBVIOUS
<1>2. ASSUME ApprovalLeads(Append(s, e))
      PROVE  ApprovalLeads(s) \/ (e = "approved" /\ ~Carries(s, "cancelled"))
  <2>1. PICK i \in 1..(Len(s) + 1) :
          /\ Append(s, e)[i] = "approved"
          /\ \A j \in 1..(i - 1) : Append(s, e)[j] # "cancelled"
    BY <1>1, <1>2 DEF ApprovalLeads
  <2>2. \A j \in 1..(i - 1) : s[j] # "cancelled"
    BY <1>1, <2>1
  <2>3. CASE i \in 1..Len(s)
    BY <1>1, <2>1, <2>2, <2>3 DEF ApprovalLeads
  <2>4. CASE i = Len(s) + 1
    BY <1>1, <2>1, <2>2, <2>4 DEF Carries
  <2> QED
    BY <2>3, <2>4, <1>1
<1> QED
  BY <1>1, <1>2 DEF Carries

\* Taking off an event that is no answer leaves the answers as they are; an
\* approval that is taken off was the first answer.
LEMMA ReceivedAnswer ==
  ASSUME NEW q \in Seq(Events), NEW s \in Seq(Events), q # <<>>
  PROVE  /\ Head(q) = "approved" => ApprovalLeads(q \o s)
         /\ Head(q) = "hotkey" =>
              /\ ApprovalLeads(Tail(q) \o s) => ApprovalLeads(q \o s)
              /\ Carries(q \o s, "cancelled") => Carries(Tail(q) \o s, "cancelled")
<1> DEFINE t == Tail(q) \o s
           u == q \o s
<1>1. /\ Len(t) \in Nat /\ DOMAIN t = 1..Len(t) /\ DOMAIN u = 1..(Len(t) + 1)
      /\ u[1] = Head(q)
      /\ \A i \in 1..Len(t) : t[i] = u[i + 1]
  <2>1. t \in Seq(Events) /\ u \in Seq(Events) /\ Len(u) = Len(t) + 1
    BY ReceiveTakesFirst, ConcatProperties
  <2> QED
    BY <2>1, ReceiveTakesFirst, LenProperties
<1> HIDE DEF t, u
<1>2. Head(q) = "approved" => ApprovalLeads(u)
  BY <1>1 DEF ApprovalLeads
<1>3. ASSUME Head(q) = "hotkey", ApprovalLeads(t)
      PROVE  ApprovalLeads(u)
  <2>1. PICK i \in 1..Len(t) :
          t[i] = "approved" /\ \A j \in 1..(i - 1) : t[j] # "cancelled"
    BY <1>1, <1>3 DEF ApprovalLeads
  <2>2. u[i + 1] = "approved" /\ i + 1 \in DOMAIN u
    BY <1>1, <2>1
  <2>3. ASSUME NEW j \in 1..((i + 1) - 1)
        PROVE  u[j] # "cancelled"
    <3>1. CASE j = 1
      BY <1>1, <1>3, <3>1
    <3>2. CASE j # 1
      <4>1. j - 1 \in 1..(i - 1) /\ j - 1 \in 1..Len(t) /\ (j - 1) + 1 = j
        BY <3>2, <1>1
      <4> QED
        BY <4>1, <2>1, <1>1
    <3> QED
      BY <3>1, <3>2
  <2> QED
    BY <2>2, <2>3 DEF ApprovalLeads
<1>4. ASSUME Head(q) = "hotkey", Carries(u, "cancelled")
      PROVE  Carries(t, "cancelled")
  <2>1. PICK i \in 1..(Len(t) + 1) : u[i] = "cancelled"
    BY <1>1, <1>4 DEF Carries
  <2>2. i # 1
    BY <1>1, <1>4, <2>1
  <2>3. i - 1 \in 1..Len(t) /\ (i - 1) + 1 = i
    BY <2>2, <1>1
  <2> QED
    BY <1>1, <2>1, <2>3 DEF Carries
<1> QED
  BY <1>2, <1>3, <1>4 DEF t, u

\* What the hook sends for a key.
LEMMA AnswerType ==
  ASSUME NEW key \in Keys
  PROVE  AnswerOf(key) \in Seq(Events) /\ AnswerOf(key) # <<>>
<1>1. CASE key = "tab"
  BY <1>1 DEF AnswerOf, Events
<1>2. CASE key = "other"
  BY <1>2 DEF AnswerOf, Events
<1>3. CASE key = "hotkey"
  BY <1>3 DEF AnswerOf, Events
<1> QED
  BY <1>1, <1>2, <1>3 DEF Keys

\* Nothing waits in the hook while it is idle.
LEMMA NothingToSend ==
  ASSUME TypeOK, hook.at = "idle"
  PROVE  InFlight = queue
BY ConcatEmptySeq DEF TypeOK, InFlight

-----------------------------------------------------------------------------
(* Types *)

LEMMA TypeInit == Init => TypeOK
<1> SUFFICES ASSUME Init
             PROVE  TypeOK
  OBVIOUS
<1>1. /\ hook \in [at : {"idle", "clear", "send"}, send : Seq(Events)]
      /\ hook.at = "idle" /\ hook.send = <<>>
  BY DEF Init, Idle
<1>2. queue \in Seq(Events) /\ executed \in Seq(Plans) /\ Len(queue) <= Capacity
  BY EmptySeq, ApprovalAssumption DEF ApprovalAssumption, Init
<1>3. planned \in 0..MaxPlans
  BY ApprovalAssumption DEF ApprovalAssumption, Init
<1> QED
  BY <1>1, <1>2, <1>3 DEF Init, TypeOK

LEMMA TypeStep == TypeOK /\ [Next]_vars => TypeOK'
<1> SUFFICES ASSUME TypeOK, [Next]_vars
             PROVE  TypeOK'
  OBVIOUS
<1> USE DEF TypeOK, uiVars, historyVars
<1>1. CASE KeyPressed
  <2>1. PICK key \in Keys : Intercept(key)
    BY <1>1 DEF KeyPressed
  <2>2. AnswerOf(key) \in Seq(Events) /\ AnswerOf(key) # <<>>
    BY AnswerType
  <2>3. hook' \in [at : {"idle", "clear", "send"}, send : Seq(Events)]
        /\ (hook'.at = "idle" <=> hook'.send = <<>>)
    BY <2>1, <2>2 DEF Intercept
  <2>4. answer' \in [Plans -> Keys \cup {"none"}]
    BY <2>1 DEF Intercept
  <2> QED
    BY <2>1, <2>3, <2>4 DEF Intercept
<1>2. CASE PressHotkey
  BY <1>2 DEF PressHotkey, Events
<1>3. CASE ClearFlag
  BY <1>3 DEF ClearFlag
<1>4. CASE SendEvent
  <2>1. hook.send # <<>>
    BY <1>4 DEF SendEvent
  <2>2. /\ Append(queue, Head(hook.send)) \in Seq(Events)
        /\ Tail(hook.send) \in Seq(Events)
        /\ Len(Append(queue, Head(hook.send))) = Len(queue) + 1
    BY <2>1, SendKeepsOrder
  <2>3. queue' \in Seq(Events) /\ Len(queue') <= Capacity
    BY <1>4, <2>2, ApprovalAssumption DEF ApprovalAssumption, SendEvent
  <2>4. Len(hook.send) # 1 => Tail(hook.send) # <<>>
    <3>1. Len(Tail(hook.send)) = Len(hook.send) - 1
      BY <2>1, HeadTailProperties
    <3>2. Len(hook.send) \in Nat
      BY LenProperties
    <3>3. Len(hook.send) # 1 => Len(Tail(hook.send)) # 0
      BY <3>1, <3>2
    <3> QED
      BY <3>3, EmptySeq
  <2>5. hook' \in [at : {"idle", "clear", "send"}, send : Seq(Events)]
        /\ (hook'.at = "idle" <=> hook'.send = <<>>)
    <3>1. CASE Len(hook.send) = 1
      BY <1>4, <3>1 DEF SendEvent, Idle
    <3>2. CASE Len(hook.send) # 1
      <4>1. hook' = [hook EXCEPT !.send = Tail(@)] /\ hook.at = "send"
        BY <1>4, <3>2 DEF SendEvent
      <4>2. hook'.at = "send" /\ hook'.send = Tail(hook.send)
        BY <4>1
      <4> QED
        BY <4>1, <4>2, <3>2, <2>2, <2>4
    <3> QED
      BY <3>1, <3>2
  <2> QED
    BY <1>4, <2>3, <2>5 DEF SendEvent
<1>5. ASSUME NEW e, Receive(e)
      PROVE  queue' \in Seq(Events) /\ Len(queue') <= Capacity
  <2>1. Len(Tail(queue)) = Len(queue) - 1 /\ Tail(queue) \in Seq(Events)
    BY <1>5, HeadTailProperties DEF Receive
  <2>2. Len(queue) \in Nat
    BY LenProperties
  <2> QED
    BY <1>5, <2>1, <2>2, ApprovalAssumption DEF ApprovalAssumption, Receive
<1>6. CASE HandleHotkey
  BY <1>5, <1>6 DEF HandleHotkey
<1>7. CASE NoEscalation
  BY <1>7 DEF NoEscalation
<1>8. CASE StorePlan
  <2>1. planned + 1 \in 1..MaxPlans
    BY <1>8, ApprovalAssumption DEF ApprovalAssumption, StorePlan
  <2>2. planned' \in 0..MaxPlans /\ planned' \in Plans /\ slot' \in Plans
    BY <1>8, <2>1, ApprovalAssumption DEF ApprovalAssumption, StorePlan, Plans
  <2>3. overtaken' \subseteq Plans
    BY <1>8, <2>1 DEF StorePlan, Plans
  <2>4. UNCHANGED <<flag, queue, hook, timer, display, running, answer, executed>>
        /\ loop' = "raise"
    BY <1>8 DEF StorePlan, uiVars
  <2> QED
    BY <2>2, <2>3, <2>4
<1>9. CASE RaiseFlag
  BY <1>9 DEF RaiseFlag
<1>10. CASE ShowPlan
  BY <1>10 DEF ShowPlan
<1>11. CASE HandleApproved
  <2>1. slot # NoPlan => Append(executed, slot) \in Seq(Plans)
    OBVIOUS
  <2> QED
    BY <1>5, <1>11, <2>1 DEF HandleApproved
<1>12. CASE HandleCancelled
  BY <1>5, <1>12 DEF HandleCancelled
<1>13. CASE OverlayExpires
  BY <1>13 DEF OverlayExpires
<1>14. ASSUME NEW p \in Plans, TimerStep(p) \/ PlanEnds(p)
       PROVE  TypeOK'
  BY <1>14 DEF TimerStep, TimerWakes, TimerClears, PlanEnds
<1>15. CASE UNCHANGED vars
  BY <1>15 DEF vars
<1> QED
  BY <1>1, <1>2, <1>3, <1>4, <1>6, <1>7, <1>8, <1>9, <1>10, <1>11, <1>12, <1>13, <1>14, <1>15
     DEF Next, HookStep, LoopStep

\* Types, for every capacity and number of plans: the channel never holds more
\* than its capacity and the hook knows when it has nothing left to send.
THEOREM TypeCorrect == Spec => []TypeOK
BY TypeInit, TypeStep, PTL DEF Spec

-----------------------------------------------------------------------------
(* The first key decides *)

LEMMA IInvInit == Init => IInv
<1> SUFFICES ASSUME Init
             PROVE  IInv
  OBVIOUS
<1>1. TypeOK
  BY TypeInit
<1>2. DOMAIN executed = {} /\ slot = NoPlan /\ \A p \in Plans : answer[p] = "none"
  BY DEF Init
<1> QED
  BY <1>1, <1>2 DEF IInv, Bookkeeping, AnswersInOrder, PlansInOrder, FirstKeyDecides, EachPlanRunsOnce

\* A step that touches neither the slot nor the histories, and brings no
\* answer forward, keeps everything.
LEMMA NothingAnswered ==
  ASSUME IInv, TypeOK',
         UNCHANGED <<slot, historyVars, planned>>,
         ApprovalLeads(InFlight') => ApprovalLeads(InFlight),
         Carries(InFlight, "cancelled") => Carries(InFlight', "cancelled")
  PROVE  IInv'
BY DEF IInv, Bookkeeping, AnswersInOrder, PlansInOrder, FirstKeyDecides, EachPlanRunsOnce, historyVars

\* A step after which the slot is empty: the loop took the plan or dropped it.
LEMMA SlotEmptied ==
  ASSUME IInv, TypeOK', slot' = NoPlan, UNCHANGED <<historyVars, planned>>
  PROVE  IInv'
<1>1. \A i \in DOMAIN executed : executed[i] \in Plans
  BY DEF IInv, TypeOK
<1>2. \A i \in DOMAIN executed : executed[i] # NoPlan
  BY <1>1 DEF Plans, NoPlan
<1> QED
  BY <1>2 DEF IInv, Bookkeeping, AnswersInOrder, PlansInOrder, FirstKeyDecides, EachPlanRunsOnce, historyVars

\* The key decides only for the plan in the slot and only if none decided
\* before, and its answer is queued behind those under way.
LEMMA InterceptStep ==
  ASSUME IInv, TypeOK', NEW key \in Keys, Intercept(key)
  PROVE  IInv'
<1>1. /\ queue \in Seq(Events) /\ InFlight = queue /\ InFlight' = queue \o AnswerOf(key)
      /\ UNCHANGED <<slot, planned, overtaken, executed>>
      /\ slot \in Plans \cup {NoPlan}
  BY NothingToSend DEF IInv, TypeOK, Intercept, InFlight
<1>2. /\ key = "tab" => InFlight' = Append(queue, "approved")
      /\ key = "other" => InFlight' = Append(queue, "cancelled")
      /\ key = "hotkey" => InFlight' = Append(Append(queue, "cancelled"), "hotkey")
  <2>1. /\ queue \o <<"approved">> = Append(queue, "approved")
        /\ queue \o <<"cancelled">> = Append(queue, "cancelled")
    BY <1>1 DEF Events
  <2>2. Append(queue, "cancelled") \o <<"hotkey">> = queue \o <<"cancelled", "hotkey">>
    <3>1. <<"cancelled", "hotkey">> \in Seq(Events) /\ <<"cancelled", "hotkey">> # <<>>
      BY DEF Events
    <3>2. Head(<<"cancelled", "hotkey">>) = "cancelled" /\ Tail(<<"cancelled", "hotkey">>) = <<"hotkey">>
      OBVIOUS
    <3> QED
      BY <1>1, <3>1, <3>2, SendKeepsOrder
  <2>3. Append(queue, "cancelled") \o <<"hotkey">> = Append(Append(queue, "cancelled"), "hotkey")
    BY <1>1 DEF Events
  <2> QED
    BY <1>1, <2>1, <2>2, <2>3 DEF AnswerOf
<1>3. /\ "approved" \in Events /\ "cancelled" \in Events /\ "hotkey" \in Events
      /\ Append(queue, "cancelled") \in Seq(Events)
  BY <1>1 DEF Events
<1>4. /\ ApprovalLeads(InFlight') =>
           ApprovalLeads(queue) \/ (key = "tab" /\ ~Carries(queue, "cancelled"))
      /\ Carries(queue, "cancelled") \/ key # "tab" => Carries(InFlight', "cancelled")
  <2>1. CASE key = "tab"
    <3>1. /\ ApprovalLeads(Append(queue, "approved")) =>
               ApprovalLeads(queue) \/ ~Carries(queue, "cancelled")
          /\ Carries(queue, "cancelled") => Carries(Append(queue, "approved"), "cancelled")
      BY <1>1, <1>3, AppendedAnswer
    <3> QED
      BY <1>2, <2>1, <3>1
  <2>2. CASE key = "other"
    <3>1. ApprovalLeads(Append(queue, "cancelled")) => ApprovalLeads(queue)
      BY <1>1, <1>3, AppendedAnswer
    <3>2. Carries(Append(queue, "cancelled"), "cancelled")
      BY <1>1, <1>3, AppendedAnswer
    <3> QED
      BY <1>2, <2>2, <3>1, <3>2
  <2>3. CASE key = "hotkey"
    <3> DEFINE s == Append(queue, "cancelled")
    <3>1. (ApprovalLeads(s) => ApprovalLeads(queue)) /\ Carries(s, "cancelled")
      BY <1>1, <1>3, AppendedAnswer
    <3>2. /\ ApprovalLeads(Append(s, "hotkey")) => ApprovalLeads(s)
          /\ Carries(Append(s, "hotkey"), "cancelled") <=> Carries(s, "cancelled")
      <4> HIDE DEF s
      <4>1. s \in Seq(Events)
        BY <1>3 DEF s
      <4> QED
        BY <4>1, <1>3, AppendedAnswer
    <3> QED
      BY <1>2, <2>3, <3>1, <3>2
  <2> QED
    BY <2>1, <2>2, <2>3 DEF Keys
<1>5. CASE slot = NoPlan
  <2>1. answer' = answer
    BY <1>5 DEF Intercept
  <2> QED
    BY <1>1, <1>5, <2>1 DEF IInv, Bookkeeping, AnswersInOrder, PlansInOrder,
       FirstKeyDecides, EachPlanRunsOnce
<1>6. CASE slot # NoPlan
  <2>1. /\ slot \in Plans
        /\ answer'[slot] = (IF answer[slot] = "none" THEN key ELSE answer[slot])
        /\ \A p \in Plans \ {slot} : answer'[p] = answer[p]
        /\ answer[slot] \in Keys \cup {"none"}
    BY <1>1, <1>6 DEF Intercept, IInv, TypeOK
  <2>2. AnswersInOrder'
    <3> SUFFICES ASSUME slot \notin overtaken
                 PROVE  /\ ApprovalLeads(InFlight') => answer'[slot] = "tab"
                        /\ answer'[slot] \in {"other", "hotkey"} => Carries(InFlight', "cancelled")
      BY <1>1 DEF AnswersInOrder
    <3>1. /\ ApprovalLeads(queue) => answer[slot] = "tab"
          /\ answer[slot] \in {"other", "hotkey"} => Carries(queue, "cancelled")
      BY <1>1, <1>6 DEF IInv, Bookkeeping, AnswersInOrder
    <3>2. ApprovalLeads(InFlight') => answer'[slot] = "tab"
      BY <1>4, <2>1, <3>1 DEF Keys
    <3>3. answer'[slot] \in {"other", "hotkey"} => Carries(InFlight', "cancelled")
      BY <1>4, <2>1, <3>1 DEF Keys
    <3> QED
      BY <3>2, <3>3
  <2>3. slot = planned
    BY <1>6 DEF IInv, Bookkeeping, PlansInOrder
  <2>4. \A p \in Plans : p > planned => answer'[p] = "none"
    BY <2>1, <2>3 DEF IInv, Bookkeeping, PlansInOrder, TypeOK, Plans
  <2>5. \A i \in DOMAIN executed : executed[i] \in Plans \ {slot}
    BY DEF IInv, TypeOK, Bookkeeping, PlansInOrder
  <2>6. FirstKeyDecides'
    BY <1>1, <2>1, <2>5 DEF IInv, FirstKeyDecides
  <2> QED
    BY <1>1, <2>2, <2>4, <2>6 DEF IInv, Bookkeeping, PlansInOrder, EachPlanRunsOnce
<1> QED
  BY <1>5, <1>6

\* A plan made while an approval is under way is marked; for any other, no
\* approval is under way.
LEMMA StoreStep ==
  ASSUME IInv, TypeOK', StorePlan
  PROVE  IInv'
<1>1. /\ slot' = planned + 1 /\ planned' = planned + 1
      /\ InFlight' = InFlight /\ UNCHANGED <<answer, executed>>
      /\ overtaken \subseteq overtaken'
      /\ planned' \in Plans /\ planned \in Nat
  BY ApprovalAssumption DEF ApprovalAssumption, StorePlan, InFlight, IInv, TypeOK, Plans
<1>2. answer[slot'] = "none"
  BY <1>1 DEF IInv, Bookkeeping, PlansInOrder, Plans
<1>3. slot' \notin overtaken' => ~ApprovalLeads(InFlight')
  BY <1>1 DEF StorePlan, ApprovalLeads, Carries
<1>4. AnswersInOrder'
  BY <1>1, <1>2, <1>3 DEF AnswersInOrder
<1>5. PlansInOrder'
  <2>1. \A i \in DOMAIN executed : executed[i] \in Plans
    BY DEF IInv, TypeOK
  <2>2. \A i \in DOMAIN executed : executed[i] <= planned
    BY DEF IInv, Bookkeeping, PlansInOrder
  <2>3. \A i \in DOMAIN executed : executed[i] <= planned + 1 /\ executed[i] # planned + 1
    BY <1>1, <2>1, <2>2 DEF Plans
  <2> QED
    BY <1>1, <2>3 DEF IInv, Bookkeeping, PlansInOrder, Plans
<1> QED
  BY <1>1, <1>4, <1>5 DEF IInv, Bookkeeping, FirstKeyDecides, EachPlanRunsOnce

\* The approval taken from the channel was the first answer under way, so the
\* plan in the slot is the one it was for, or was overtaken.
LEMMA ApprovedStep ==
  ASSUME IInv, TypeOK', HandleApproved
  PROVE  IInv'
<1>1. CASE slot = NoPlan
  <2>1. UNCHANGED <<historyVars, planned>> /\ slot' = NoPlan
    BY <1>1 DEF HandleApproved, historyVars
  <2> QED
    BY <2>1, SlotEmptied
<1>2. CASE slot # NoPlan
  <2>1. /\ executed' = Append(executed, slot) /\ slot' = NoPlan
        /\ UNCHANGED <<answer, overtaken, planned>>
        /\ queue \in Seq(Events) /\ hook.send \in Seq(Events)
        /\ queue # <<>> /\ Head(queue) = "approved"
        /\ executed \in Seq(Plans) /\ slot \in Plans /\ planned \in Nat
    BY <1>2 DEF HandleApproved, Receive, IInv, TypeOK
  <2>2. ApprovalLeads(InFlight)
    BY <2>1, ReceivedAnswer DEF InFlight
  <2>3. slot \notin overtaken => answer[slot] = "tab"
    BY <1>2, <2>2 DEF IInv, Bookkeeping, AnswersInOrder
  <2>4. /\ DOMAIN executed = 1..Len(executed) /\ Len(executed) \in Nat
        /\ DOMAIN executed' = 1..(Len(executed) + 1)
        /\ \A i \in 1..Len(executed) : executed'[i] = executed[i]
        /\ executed'[Len(executed) + 1] = slot
    BY <2>1
  <2>5. \A i \in DOMAIN executed : executed[i] # slot /\ executed[i] <= planned
    BY DEF IInv, Bookkeeping, PlansInOrder
  <2>6. EachPlanRunsOnce'
    BY <2>4, <2>5 DEF IInv, EachPlanRunsOnce
  <2>7. FirstKeyDecides'
    BY <2>1, <2>3, <2>4 DEF IInv, FirstKeyDecides
  <2>8. slot <= planned
    BY <1>2, <2>1 DEF IInv, Bookkeeping, PlansInOrder
  <2>9. \A i \in DOMAIN executed' : executed'[i] <= planned /\ executed'[i] \in Plans
    BY <2>1, <2>4, <2>5, <2>8
  <2>10. PlansInOrder'
    BY <2>1, <2>9 DEF IInv, Bookkeeping, PlansInOrder, Plans, NoPlan
  <2> QED
    BY <2>1, <2>6, <2>7, <2>10 DEF IInv, Bookkeeping, AnswersInOrder
<1> QED
  BY <1>1, <1>2

LEMMA IInvStep == IInv /\ [Next]_vars => IInv'
<1> SUFFICES ASSUME IInv, [Next]_vars
             PROVE  IInv'
  OBVIOUS
<1>0. /\ TypeOK /\ TypeOK'
      /\ queue \in Seq(Events) /\ hook.send \in Seq(Events)
  BY TypeStep DEF IInv, TypeOK
<1>1. CASE KeyPressed
  BY <1>0, <1>1, InterceptStep DEF KeyPressed
<1>2. CASE PressHotkey
  <2>1. InFlight = queue /\ InFlight' = Append(queue, "hotkey") /\ "hotkey" \in Events
    BY <1>0, <1>2, NothingToSend DEF PressHotkey, InFlight, Events
  <2>2. /\ ApprovalLeads(InFlight') => ApprovalLeads(InFlight)
        /\ Carries(InFlight, "cancelled") => Carries(InFlight', "cancelled")
    <3>1. "cancelled" \in Events
      BY DEF Events
    <3> QED
      BY <1>0, <2>1, <3>1, AppendedAnswer
  <2> QED
    BY <1>0, <1>2, <2>2, NothingAnswered DEF PressHotkey
<1>3. CASE SendEvent
  <2>1. hook.send # <<>>
    BY <1>0, <1>3 DEF SendEvent, TypeOK
  <2>2. hook'.send = Tail(hook.send)
    <3>1. CASE Len(hook.send) = 1
      <4>1. Len(Tail(hook.send)) = 0 /\ Tail(hook.send) \in Seq(Events)
        BY <1>0, <2>1, <3>1, HeadTailProperties
      <4>2. Tail(hook.send) = <<>>
        BY <4>1, EmptySeq
      <4> QED
        BY <1>3, <3>1, <4>2 DEF SendEvent, Idle
    <3>2. CASE Len(hook.send) # 1
      BY <1>0, <1>3, <3>2 DEF SendEvent, TypeOK
    <3> QED
      BY <3>1, <3>2
  <2>3. InFlight' = InFlight
    <3>1. queue' = Append(queue, Head(hook.send))
      BY <1>3 DEF SendEvent
    <3>2. Append(queue, Head(hook.send)) \o Tail(hook.send) = queue \o hook.send
      BY <1>0, <2>1, SendKeepsOrder
    <3> QED
      BY <2>2, <3>1, <3>2 DEF InFlight
  <2> QED
    BY <1>0, <1>3, <2>3, NothingAnswered DEF SendEvent
<1>4. CASE HandleHotkey
  <2>1. /\ queue # <<>> /\ Head(queue) = "hotkey"
        /\ InFlight = queue \o hook.send /\ InFlight' = Tail(queue) \o hook.send
    BY <1>4 DEF HandleHotkey, Receive, InFlight
  <2>2. /\ ApprovalLeads(InFlight') => ApprovalLeads(InFlight)
        /\ Carries(InFlight, "cancelled") => Carries(InFlight', "cancelled")
    BY <1>0, <2>1, ReceivedAnswer
  <2> QED
    BY <1>0, <1>4, <2>2, NothingAnswered DEF HandleHotkey
<1>5. CASE StorePlan
  BY <1>0, <1>5, StoreStep
<1>6. CASE HandleApproved
  BY <1>0, <1>6, ApprovedStep
<1>7. CASE HandleCancelled
  BY <1>0, <1>7, SlotEmptied DEF HandleCancelled
<1>8. ASSUME UNCHANGED <<slot, queue, planned, historyVars>>, hook'.send = hook.send
      PROVE  IInv'
  BY <1>0, <1>8, NothingAnswered DEF InFlight
<1>9. CASE ClearFlag
  BY <1>0, <1>8, <1>9 DEF ClearFlag, TypeOK
<1>10. CASE NoEscalation \/ RaiseFlag \/ ShowPlan \/ OverlayExpires
  BY <1>8, <1>10 DEF NoEscalation, RaiseFlag, ShowPlan, OverlayExpires, uiVars
<1>11. CASE \E p \in Plans : TimerStep(p) \/ PlanEnds(p)
  BY <1>8, <1>11 DEF TimerStep, TimerWakes, TimerClears, PlanEnds
<1>12. CASE UNCHANGED vars
  BY <1>8, <1>12 DEF vars
<1> QED
  BY <1>1, <1>2, <1>3, <1>4, <1>5, <1>6, <1>7, <1>9, <1>10, <1>11, <1>12
     DEF Next, HookStep, LoopStep

\* The invariant is inductive: in particular, every approval still under way
\* finds its own plan, a later one that was overtaken, or nothing.
THEOREM Inductive == Spec => []IInv
BY IInvInit, IInvStep, PTL DEF Spec

\* A plan is executed only if the first key pressed while it was pending was
\* Tab, unless it was stored while an approval was on its way to the loop.
THEOREM FirstKeyDecidesHolds == Spec => []FirstKeyDecides
<1>1. IInv => FirstKeyDecides
  BY DEF IInv
<1> QED
  BY <1>1, Inductive, PTL

\* No plan is executed twice.
THEOREM PlansRunOnce == Spec => []EachPlanRunsOnce
<1>1. IInv => EachPlanRunsOnce
  BY DEF IInv
<1> QED
  BY <1>1, Inductive, PTL

\* An approval still under way finds its own plan, a later one that was
\* overtaken, or nothing.
THEOREM BookkeepingHolds == Spec => []Bookkeeping
<1>1. IInv => Bookkeeping
  BY DEF IInv
<1> QED
  BY <1>1, Inductive, PTL

-----------------------------------------------------------------------------
(* The life of a plan *)

\* What is being executed was taken from the slot.
RunningTaken == \A p \in running : Carries(executed, p)

LEMMA RunningInit == Init => RunningTaken
BY DEF Init, RunningTaken

LEMMA RunningStep == TypeOK /\ RunningTaken /\ [Next]_vars => RunningTaken'
<1> SUFFICES ASSUME TypeOK, RunningTaken, [Next]_vars
             PROVE  RunningTaken'
  OBVIOUS
<1>1. CASE UNCHANGED <<running, executed>>
  BY <1>1 DEF RunningTaken, Carries
<1>2. CASE HandleApproved
  <2>1. CASE slot = NoPlan
    BY <1>1, <1>2, <2>1 DEF HandleApproved
  <2>2. CASE slot # NoPlan
    <3>1. executed \in Seq(Plans) /\ slot \in Plans
      BY <2>2 DEF TypeOK
    <3>2. executed' = Append(executed, slot) /\ running' = running \cup {slot}
      BY <1>2, <2>2 DEF HandleApproved
    <3>3. /\ \A i \in DOMAIN executed : i \in DOMAIN executed' /\ executed'[i] = executed[i]
          /\ Len(executed) + 1 \in DOMAIN executed'
          /\ executed'[Len(executed) + 1] = slot
      BY <3>1, <3>2
    <3> QED
      BY <3>2, <3>3 DEF RunningTaken, Carries
  <2> QED
    BY <2>1, <2>2
<1>3. ASSUME NEW p \in Plans, PlanEnds(p)
      PROVE  RunningTaken'
  BY <1>3 DEF PlanEnds, RunningTaken, Carries, historyVars
<1>4. CASE KeyPressed
  BY <1>1, <1>4 DEF KeyPressed, Intercept, uiVars
<1>5. CASE PressHotkey \/ HookStep \/ OverlayExpires
  BY <1>1, <1>5 DEF PressHotkey, HookStep, ClearFlag, SendEvent, OverlayExpires,
     uiVars, historyVars
<1>6. CASE HandleHotkey \/ NoEscalation \/ StorePlan \/ RaiseFlag \/ ShowPlan \/ HandleCancelled
  BY <1>1, <1>6 DEF HandleHotkey, NoEscalation, StorePlan, RaiseFlag, ShowPlan,
     HandleCancelled, uiVars, historyVars
<1>7. ASSUME NEW p \in Plans, TimerStep(p)
      PROVE  RunningTaken'
  BY <1>1, <1>7 DEF TimerStep, TimerWakes, TimerClears, uiVars, historyVars
<1>8. CASE UNCHANGED vars
  BY <1>1, <1>8 DEF vars, uiVars, historyVars
<1> QED
  BY <1>2, <1>3, <1>4, <1>5, <1>6, <1>7, <1>8 DEF Next, LoopStep

LEMMA LifecycleInit == Init => Lifecycle!Init
BY DEF Init, Lifecycle!Init, Status, Plans

\* Making, deciding, executing, dropping and ending a plan; every other step
\* leaves the lives of the plans alone.
LEMMA LifecycleStep ==
  ASSUME IInv, IInv', RunningTaken, [Next]_vars
  PROVE  [Lifecycle!Next]_(Lifecycle!vars)
<1>1. /\ planned \in Nat /\ slot \in {NoPlan, planned}
      /\ \A p \in running : p \in Plans /\ p <= planned /\ p # slot
      /\ \A p \in Plans : Carries(executed, p) => p <= planned /\ p # slot
      /\ slot \in Plans \cup {NoPlan}
  BY ApprovalAssumption
     DEF ApprovalAssumption, IInv, TypeOK, Bookkeeping, PlansInOrder,
         RunningTaken, Carries, Plans
<1>2. slot # NoPlan => Status(slot) = "pending"
  BY <1>1 DEF Status
<1>3. ASSUME UNCHANGED <<slot, planned, running, historyVars>>
      PROVE  UNCHANGED Lifecycle!vars
  BY <1>3 DEF historyVars, Lifecycle!vars, Status, Carries
<1>4. ASSUME NEW key \in Keys, Intercept(key)
      PROVE  [Lifecycle!Next]_(Lifecycle!vars)
  <2>1. CASE slot = NoPlan \/ answer[slot] # "none"
    <3>1. answer' = answer
      BY <1>4, <2>1 DEF Intercept
    <3> QED
      BY <1>3, <1>4, <3>1 DEF Intercept, uiVars, historyVars
  <2>2. CASE ~(slot = NoPlan \/ answer[slot] # "none")
    <3>1. /\ answer' = [answer EXCEPT ![slot] = key] /\ slot \in Plans
          /\ UNCHANGED <<slot, planned, running, executed, overtaken>>
      BY <1>1, <1>4, <2>2 DEF Intercept, uiVars
    <3>2. [p \in Plans |-> Status(p)]' = [p \in Plans |-> Status(p)]
      BY <3>1 DEF Status, Carries
    <3>3. Lifecycle!Decide(slot)
      BY <1>2, <2>2, <3>1, <3>2 DEF Lifecycle!Decide
    <3> QED
      BY <3>1, <3>3 DEF Lifecycle!Next
  <2> QED
    BY <2>1, <2>2
<1>5. CASE StorePlan
  <2> DEFINE n == planned + 1
  <2>1. /\ n \in Plans /\ slot' = n /\ planned' = n
        /\ UNCHANGED <<running, executed, answer>>
        /\ overtaken' \in {overtaken, overtaken \cup {n}}
    BY <1>1, <1>5, ApprovalAssumption
       DEF ApprovalAssumption, StorePlan, Plans, uiVars
  <2>2. ASSUME NEW q \in Plans
        PROVE  Status(q)' = IF q = n THEN "pending"
                            ELSE IF Status(q) = "pending" THEN "dropped"
                            ELSE Status(q)
    BY <1>1, <2>1 DEF Status, Plans, Carries
  <2>3. Status(n) = "new" /\ \A q \in Plans : q < n => Status(q) # "new"
    BY <1>1 DEF Status, Plans
  <2>4. Lifecycle!Make(n)
    BY <2>1, <2>2, <2>3 DEF Lifecycle!Make
  <2> QED
    BY <2>1, <2>4 DEF Lifecycle!Next
<1>6. CASE HandleApproved
  <2>1. CASE slot = NoPlan
    BY <1>3, <1>6, <2>1 DEF HandleApproved, historyVars
  <2>2. CASE slot # NoPlan
    <3>1. /\ slot \in Plans /\ slot' = NoPlan
          /\ running' = running \cup {slot} /\ executed' = Append(executed, slot)
          /\ UNCHANGED <<planned, answer, overtaken>>
      BY <1>1, <1>6, <2>2 DEF HandleApproved
    <3>2. executed \in Seq(Plans)
      BY DEF IInv, TypeOK
    <3>3. /\ \A i \in DOMAIN executed : i \in DOMAIN executed' /\ executed'[i] = executed[i]
          /\ Len(executed) + 1 \in DOMAIN executed'
          /\ executed'[Len(executed) + 1] = slot
          /\ \A i \in DOMAIN executed' : i \in DOMAIN executed \/ i = Len(executed) + 1
      BY <3>1, <3>2
    <3>4. answer[slot] = "tab" \/ slot \in overtaken
      BY <3>1, <3>3 DEF IInv, FirstKeyDecides
    <3>5. ASSUME NEW q \in Plans, q # slot
          PROVE  Carries(executed, q)' <=> Carries(executed, q)
      BY <3>3, <3>5 DEF Carries
    <3>6. ASSUME NEW q \in Plans
          PROVE  Status(q)' = IF q = slot THEN "executing" ELSE Status(q)
      BY <1>1, <3>1, <3>5 DEF Status, Plans, NoPlan
    <3>7. Lifecycle!Execute(slot)
      BY <1>2, <2>2, <3>1, <3>4, <3>6 DEF Lifecycle!Execute, Lifecycle!Becomes
    <3> QED
      BY <3>1, <3>7 DEF Lifecycle!Next
  <2> QED
    BY <2>1, <2>2
<1>7. CASE HandleCancelled
  <2>1. CASE slot = NoPlan
    BY <1>3, <1>7, <2>1 DEF HandleCancelled
  <2>2. CASE slot # NoPlan
    <3>1. /\ slot \in Plans /\ slot' = NoPlan
          /\ UNCHANGED <<planned, running, executed, answer, overtaken>>
      BY <1>1, <1>7, <2>2 DEF HandleCancelled, historyVars
    <3>2. ASSUME NEW q \in Plans
          PROVE  Status(q)' = IF q = slot THEN "dropped" ELSE Status(q)
      BY <1>1, <3>1 DEF Status, Plans, NoPlan, Carries
    <3>3. Lifecycle!Drop(slot)
      BY <1>2, <2>2, <3>1, <3>2 DEF Lifecycle!Drop, Lifecycle!Becomes
    <3> QED
      BY <3>1, <3>3 DEF Lifecycle!Next
  <2> QED
    BY <2>1, <2>2
<1>8. ASSUME NEW p \in Plans, PlanEnds(p)
      PROVE  [Lifecycle!Next]_(Lifecycle!vars)
  <2>1. /\ p \in running /\ running' = running \ {p}
        /\ UNCHANGED <<slot, planned, executed, answer, overtaken>>
    BY <1>8 DEF PlanEnds, historyVars
  <2>2. Status(p) = "executing" /\ Carries(executed, p)
    BY <1>1, <2>1 DEF Status, RunningTaken, Plans
  <2>3. ASSUME NEW q \in Plans
        PROVE  Status(q)' = IF q = p THEN "ended" ELSE Status(q)
    BY <1>1, <2>1, <2>2 DEF Status, Plans, Carries
  <2>4. Lifecycle!End(p)
    BY <2>1, <2>2, <2>3 DEF Lifecycle!End, Lifecycle!Becomes
  <2> QED
    BY <2>4 DEF Lifecycle!Next
<1>9. CASE PressHotkey \/ HookStep \/ OverlayExpires
  BY <1>3, <1>9 DEF PressHotkey, HookStep, ClearFlag, SendEvent, OverlayExpires, uiVars
<1>10. CASE HandleHotkey \/ NoEscalation \/ RaiseFlag \/ ShowPlan
  BY <1>3, <1>10 DEF HandleHotkey, NoEscalation, RaiseFlag, ShowPlan, uiVars
<1>11. ASSUME NEW p \in Plans, TimerStep(p)
       PROVE  UNCHANGED Lifecycle!vars
  BY <1>3, <1>11 DEF TimerStep, TimerWakes, TimerClears, uiVars
<1>12. CASE UNCHANGED vars
  BY <1>3, <1>12 DEF vars, uiVars
<1> QED
  BY <1>4, <1>5, <1>6, <1>7, <1>8, <1>9, <1>10, <1>11, <1>12
     DEF Next, LoopStep, KeyPressed

\* Flag, slot, channel and timers implement the life of a plan: made, pending,
\* executed once with its first key as the answer, or dropped for good.
THEOREM LifecycleImplemented == Spec => LifecycleKept
<1>1. IInv => TypeOK
  BY DEF IInv
<1>2. Spec => []RunningTaken
  <2>1. Spec => []TypeOK
    BY <1>1, Inductive, PTL
  <2> QED
    BY <2>1, RunningInit, RunningStep, PTL DEF Spec
<1>3. IInv /\ IInv' /\ RunningTaken /\ [Next]_vars => [Lifecycle!Next]_(Lifecycle!vars)
  BY LifecycleStep
<1> QED
  BY <1>2, <1>3, LifecycleInit, Inductive, PTL DEF Spec, LifecycleKept, Lifecycle!Spec
=============================================================================
