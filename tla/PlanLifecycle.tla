---------------------------- MODULE PlanLifecycle ----------------------------
(***************************************************************************)
(* What the approval of plans promises: plans are made one after the       *)
(* other, a new one takes the place of one that is still pending, the      *)
(* first key decides what becomes of a pending plan, and what is executed  *)
(* was pending, once, with Tab as its answer.  A plan that was made while  *)
(* an approval was under way is excused from the answer, not from the      *)
(* rest.                                                                   *)
(***************************************************************************)
EXTENDS Integers

CONSTANTS
  Plans,  \* 1..n for some n, in the order they are made
  Keys    \* the keys told apart, "tab" among them

VARIABLES
  status,  \* of each plan
  answer,  \* the key that decided each plan
  excused  \* the plans made while an approval was under way

vars == <<status, answer, excused>>

Init ==
  /\ status = [p \in Plans |-> "new"]
  /\ answer = [p \in Plans |-> "none"]
  /\ excused = {}

Make(p) ==
  /\ status[p] = "new" /\ \A q \in Plans : q < p => status[q] # "new"
  /\ status' = [q \in Plans |->
                  IF q = p THEN "pending"
                  ELSE IF status[q] = "pending" THEN "dropped" ELSE status[q]]
  /\ excused' \in {excused, excused \cup {p}}
  /\ UNCHANGED answer

Decide(p) ==
  /\ status[p] = "pending" /\ answer[p] = "none"
  /\ \E key \in Keys : answer' = [answer EXCEPT ![p] = key]
  /\ UNCHANGED <<status, excused>>

Becomes(p, to) ==
  status' = [status EXCEPT ![p] = to] /\ UNCHANGED <<answer, excused>>

Execute(p) ==
  /\ status[p] = "pending" /\ (answer[p] = "tab" \/ p \in excused)
  /\ Becomes(p, "executing")

Drop(p) == status[p] = "pending" /\ Becomes(p, "dropped")

End(p) == status[p] = "executing" /\ Becomes(p, "ended")

Next ==
  \E p \in Plans : Make(p) \/ Decide(p) \/ Execute(p) \/ Drop(p) \/ End(p)

Spec == Init /\ [][Next]_vars
=============================================================================
