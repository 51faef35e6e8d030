---------------------------- MODULE ModelDownload ----------------------------
(***************************************************************************)
(* The background download of the vision model: BackgroundVlmDownloader,   *)
(* started by requests that the sidecar serves in threads, and             *)
(* VlmDownloadManager, which one thread at a time runs, resuming a partial *)
(* file, across failures, timeouts and restarts of the sidecar.            *)
(*                                                                         *)
(* The model is NParts parts; a file is the sequence of the parts written  *)
(* to it, or Absent.                                                       *)
(***************************************************************************)
EXTENDS Integers, Sequences, FiniteSets

CONSTANTS
  Threads,    \* requests to start, each with the thread it may start
  NoThread,
  NParts,
  MaxFaults,  \* failures of the network, the disk and Ollama
  MaxCrashes, \* restarts of the sidecar
  Absent

ASSUME DownloadAssumption ==
  /\ NParts \in Nat \ {0} /\ {MaxFaults, MaxCrashes} \subseteq Nat
  /\ NoThread \notin Threads
  /\ Absent \notin Seq(Nat)

VARIABLES
  tmp,      \* <model>.gguf.tmp
  model,    \* <model>.gguf
  progress, \* VlmDownloadManager._progress.state
  holder,   \* who holds _lock
  bound,    \* the thread to whose event loop _lock is bound
  pc,       \* where each thread is
  next,     \* the part each thread receives next
  faults, crashes, \* counters
  ignored   \* history: the server sent the whole file for a range

vars == <<tmp, model, progress, holder, bound, pc, next, faults, crashes,
          ignored>>
lock == <<holder, bound>>
counters == <<faults, crashes, ignored>>

Ready == model # Absent
Active == progress = "downloading"
Size(f) == IF f = Absent THEN 0 ELSE Len(f)
Upto(n) == [i \in 1..n |-> i]

Init ==
  /\ tmp = Absent /\ model = Absent /\ progress = "not_started"
  /\ holder = NoThread /\ bound = NoThread
  /\ pc = [t \in Threads |-> "idle"] /\ next = [t \in Threads |-> 1]
  /\ faults = 0 /\ crashes = 0 /\ ignored = FALSE

Goto(t, from, to) == pc[t] = from /\ pc' = [pc EXCEPT ![t] = to]
MayFail == faults < MaxFaults /\ faults' = faults + 1 /\ UNCHANGED <<crashes, ignored>>

\* start(): the test, and then the thread.
Start(t) ==
  /\ Goto(t, "idle", IF Ready \/ Active THEN "done" ELSE "launched")
  /\ UNCHANGED <<tmp, model, progress, lock, next, counters>>

\* Mutant of Acquire: without the lock.
AcquireAnyway(t) ==
  /\ holder' = t /\ Goto(t, "launched", "locked")
  /\ UNCHANGED <<tmp, model, progress, bound, next, counters>>
\* async with self._lock, by threads with an event loop each: the first to
\* find it taken binds it to its loop for good, and waits; later ones are
\* refused with a RuntimeError.
Taken == holder # NoThread \/ \E t \in Threads : pc[t] = "waiting"
Acquire(t) ==
  /\ \/ /\ ~Taken /\ holder' = t /\ Goto(t, "launched", "locked")
        /\ UNCHANGED bound
     \/ /\ Taken /\ bound = NoThread
        /\ bound' = t /\ Goto(t, "launched", "waiting") /\ UNCHANGED holder
     \/ /\ Taken /\ bound # NoThread
        /\ Goto(t, "launched", "done") /\ UNCHANGED lock
  /\ UNCHANGED <<tmp, model, progress, next, counters>>
\* The release does not wake the other thread's loop: it may never notice.
Awake(t) ==
  /\ holder = NoThread /\ holder' = t /\ Goto(t, "waiting", "locked")
  /\ UNCHANGED <<tmp, model, progress, bound, next, counters>>

\* Mutant of Leave: a failure leaves the progress as it was.
LeaveSilently(t, from, state) ==
  /\ Goto(t, from, "done") /\ holder' = NoThread
  /\ progress' = IF state = "failed" THEN progress ELSE state
  /\ UNCHANGED <<bound, next>>
Leave(t, from, state) ==
  /\ Goto(t, from, "done") /\ holder' = NoThread /\ progress' = state
  /\ UNCHANGED <<bound, next>>

\* ensure_model_available.
Ensure(t) ==
  \/ /\ Ready /\ Leave(t, "locked", "complete")
     /\ UNCHANGED <<tmp, model, counters>>
  \/ /\ ~Ready /\ Goto(t, "locked", "request") /\ progress' = "downloading"
     /\ UNCHANGED <<tmp, model, lock, next, counters>>

\* Mutant of Respond: the partial file is opened anew, the range kept.
RespondAnew(t) ==
  /\ Size(tmp) < NParts
  /\ tmp' = <<>> /\ next' = [next EXCEPT ![t] = Size(tmp) + 1]
  /\ Goto(t, "request", "stream")
  /\ UNCHANGED <<model, progress, lock, counters>>
\* The answer to the request, for a range if there is a partial file: the
\* rest of the file, "not satisfiable" if there is no rest, or an error.
Respond(t) ==
  \/ /\ Size(tmp) = 0
     /\ tmp' = <<>> /\ next' = [next EXCEPT ![t] = 1]
     /\ Goto(t, "request", "stream")
     /\ UNCHANGED <<model, progress, lock, counters>>
  \/ /\ Size(tmp) \in 1..(NParts - 1)
     /\ next' = [next EXCEPT ![t] = Size(tmp) + 1]
     /\ Goto(t, "request", "stream")
     /\ UNCHANGED <<tmp, model, progress, lock, counters>>
  \/ /\ Size(tmp) >= NParts /\ Leave(t, "request", "failed")
     /\ UNCHANGED <<tmp, model, counters>>
  \/ /\ MayFail /\ Leave(t, "request", "failed") /\ UNCHANGED <<tmp, model>>
\* A server that ignores the range sends the whole file.
RespondWhole(t) ==
  /\ Size(tmp) > 0
  /\ next' = [next EXCEPT ![t] = 1] /\ ignored' = TRUE
  /\ Goto(t, "request", "stream")
  /\ UNCHANGED <<tmp, model, progress, lock, faults, crashes>>

Receive(t) ==
  \/ /\ pc[t] = "stream" /\ next[t] <= NParts
     /\ tmp' = Append(tmp, next[t]) /\ next' = [next EXCEPT ![t] = @ + 1]
     /\ UNCHANGED <<model, progress, lock, pc, counters>>
  \/ /\ MayFail /\ Leave(t, "stream", "failed") /\ UNCHANGED <<tmp, model>>

\* After the last part: tmp_path.rename(dest_path).
Rename(t) ==
  \/ /\ next[t] > NParts /\ Goto(t, "stream", "register")
     /\ model' = tmp /\ tmp' = Absent
     /\ UNCHANGED <<progress, lock, next, counters>>
  \/ /\ next[t] > NParts /\ MayFail /\ Leave(t, "stream", "failed")
     /\ UNCHANGED <<tmp, model>>

\* _register_with_ollama: done, refused, or timed out or not found, which
\* leaves the progress as it is.
Register(t) ==
  /\ \/ Leave(t, "register", "complete") /\ UNCHANGED counters
     \/ MayFail /\ Leave(t, "register", "failed")
     \/ MayFail /\ Leave(t, "register", progress)
  /\ UNCHANGED <<tmp, model>>

ThreadStep(t) ==
  \/ Acquire(t) \/ Ensure(t) \/ Respond(t) \/ RespondWhole(t) \/ Receive(t)
  \/ Rename(t) \/ Register(t)

\* The sidecar ends and is started again; what was not flushed is lost.
Restart ==
  /\ crashes < MaxCrashes /\ crashes' = crashes + 1
  /\ pc' = [t \in Threads |-> IF pc[t] = "idle" THEN "idle" ELSE "done"]
  /\ \/ UNCHANGED tmp
     \/ /\ \E t \in Threads : pc[t] = "stream"
        /\ Size(tmp) > 0 /\ tmp' = SubSeq(tmp, 1, Len(tmp) - 1)
  /\ progress' = "not_started" /\ holder' = NoThread /\ bound' = NoThread
  /\ UNCHANGED <<model, next, faults, ignored>>

Next ==
  \/ \E t \in Threads : Start(t) \/ Awake(t) \/ ThreadStep(t)
  \/ Restart

Spec == Init /\ [][Next]_vars
\* Each thread goes on; every wait of it has a time limit.
FairSpec == Spec /\ \A t \in Threads : WF_vars(ThreadStep(t))

-----------------------------------------------------------------------------
Working == {"locked", "request", "stream", "register"}
Files == Seq(1..NParts) \cup {Absent}
TypeOK ==
  /\ tmp \in Files /\ model \in Files
  /\ progress \in {"not_started", "downloading", "complete", "failed"}
  /\ holder \in Threads \cup {NoThread} /\ bound \in Threads \cup {NoThread}
  /\ pc \in [Threads -> Working \cup {"idle", "launched", "waiting", "done"}]
  /\ next \in [Threads -> 1..(NParts + 1)]
  /\ faults \in 0..MaxFaults /\ crashes \in 0..MaxCrashes
  /\ ignored \in BOOLEAN

\* Requests that start() let through together do not download together: the
\* one that works holds the lock, and what it has written is what it has
\* received, after what earlier attempts left: the beginning of the model, or,
\* once a server has ignored the range, a file no shorter than that.
OneDownload ==
  /\ \A t \in Threads : pc[t] \in Working <=> holder = t
  /\ \A t \in Threads : pc[t] \in {"request", "stream"} => ~Ready
  /\ \A t \in Threads : pc[t] = "register" => Ready
  /\ \A t \in Threads : pc[t] = "stream" => tmp # Absent
  /\ \A t \in Threads : pc[t] = "stream" => Len(tmp) >= next[t] - 1
  /\ ~ignored =>
       /\ \A t \in Threads : pc[t] = "stream" => tmp = Upto(next[t] - 1)
       /\ tmp # Absent => Len(tmp) <= NParts /\ tmp = Upto(Len(tmp))

\* start() does nothing while is_downloading says so: then a thread is at work
\* or the model is there.  (A thread that was let through may still be refused
\* by the lock, when one that waits for it is never woken.)
ActiveMeansWorking ==
  Active => Ready \/ \E t \in Threads : pc[t] \in Working

\* How many parts of the model a file holds, -1 if it holds anything else.
Parts(f) ==
  IF f = Absent THEN 0 ELSE IF f = Upto(Len(f)) THEN Len(f) ELSE -1
Held ==
  LET f == IF Ready THEN model ELSE tmp IN IF ignored THEN Size(f) ELSE Parts(f)
Cache == INSTANCE ModelCache WITH
  held <- Held, published <- Ready, mixed <- ignored
\* The files are what ModelCache promises, whatever fails, is repeated or
\* restarted: the model file is the whole model and stays so, and, if a server
\* has ignored the range, it is at least as long.
CacheKept == Cache!Spec

\* A download ends, or the model is there, unless the sidecar is restarted
\* without end.
DownloadEnds == Active ~> ~Active \/ Ready
=============================================================================
