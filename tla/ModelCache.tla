----------------------------- MODULE ModelCache -----------------------------
(***************************************************************************)
(* What the model cache promises: the file is put together part by part,   *)
(* over as many attempts and restarts as it takes, is not touched once it  *)
(* has its name, and gets it when it holds NParts parts.  These are the    *)
(* parts of the model in their order, unless a server has answered the     *)
(* request for the rest of the file with the whole of it: then the parts   *)
(* are only counted, and there may be more of them.  A restart may cost    *)
(* the part that was not yet flushed.                                      *)
(***************************************************************************)
EXTENDS Integers

CONSTANT NParts

VARIABLES
  held,      \* the parts in the file
  published, \* it has the model's name
  mixed      \* it may hold other parts than the first ones, in their order

vars == <<held, published, mixed>>

Init == held = 0 /\ published = FALSE /\ mixed = FALSE

Gain ==
  /\ ~published /\ (held < NParts \/ mixed)
  /\ held' = held + 1 /\ UNCHANGED <<published, mixed>>

Unflushed ==
  /\ ~published /\ held > 0
  /\ held' = held - 1 /\ UNCHANGED <<published, mixed>>

Publish ==
  /\ ~published
  /\ held = NParts \/ (mixed /\ held > NParts)
  /\ published' = TRUE /\ UNCHANGED <<held, mixed>>

Mix ==
  /\ ~published /\ held > 0
  /\ mixed' = TRUE /\ UNCHANGED <<held, published>>

Next == Gain \/ Unflushed \/ Publish \/ Mix

Spec == Init /\ [][Next]_vars
=============================================================================
