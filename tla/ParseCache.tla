------------------------------ MODULE ParseCache ------------------------------
(***************************************************************************)
(* How the sidecar reads a Word document and keeps what it read: read_docx *)
(* (parse_docx) from the live document or through DocumentCache, a file    *)
(* beside the document, and the Word master's context through the memory   *)
(* cache of docling_parser.  Both caches know a document by its            *)
(* modification time, which they take after it was parsed, while the user, *)
(* or a restored backup, may change the file at any moment.  Requests are  *)
(* served one after the other.                                             *)
(*                                                                         *)
(* A number stands for the content of a file and for the time it was       *)
(* saved, which a backup keeps (shutil.copy2).                             *)
(***************************************************************************)
EXTENDS Integers, Sequences, Functions

CONSTANTS
  Files,
  Cap,         \* _CACHE_MAX_SIZE
  MaxChanges,  \* of the files
  MaxRequests,
  MaxCrashes,
  Nothing,     \* no entry, no answer
  Live         \* what the open document shows

ASSUME CacheAssumption ==
  /\ Cap \in Nat \ {0} /\ {MaxChanges, MaxRequests, MaxCrashes} \subseteq Nat
  /\ {Nothing, Live} \cap Nat = {} /\ Nothing # Live

VARIABLES
  file,    \* the files
  disk,    \* <file>.kairo_cache.json: [mtime, data] or Nothing
  order,   \* _cache_order
  kept,    \* _cache, by <<file, mtime>>
  pc,      \* where the request is
  kind, doc, data, mtime, \* what it asks for, has read and stamped
  answer,
  changes, requests, crashes, \* counters
  had,     \* history: what each file has been
  seen,    \* history: what the document was since the request came
  raced    \* history: <<file, data>> read before a change and stamped after it

memory == <<order, kept>>
request == <<kind, doc, data, mtime>>
counters == <<changes, requests, crashes>>
history == <<had, seen, raced>>
vars == <<file, disk, memory, pc, request, answer, counters, history>>

Init ==
  /\ file = [f \in Files |-> 0] /\ disk = [f \in Files |-> Nothing]
  /\ order = <<>> /\ kept = <<>>
  /\ pc = "done" /\ kind = "context" /\ doc \in Files
  /\ data = 0 /\ mtime = 0 /\ answer = Nothing
  /\ changes = 0 /\ requests = 0 /\ crashes = 0
  /\ had = [f \in Files |-> {0}] /\ seen = {} /\ raced = {}

-----------------------------------------------------------------------------
Receive(k, f) ==
  /\ pc = "done" /\ requests < MaxRequests
  /\ requests' = requests + 1
  /\ pc' = IF k = "read_docx" THEN "com" ELSE "look"
  /\ kind' = k /\ doc' = f /\ answer' = Nothing /\ seen' = {file[f]}
  /\ UNCHANGED <<file, disk, memory, data, mtime, changes, crashes, had, raced>>

Answers(a) ==
  /\ pc' = "done" /\ answer' = a /\ data' = 0 /\ mtime' = 0
  /\ UNCHANGED <<file, kind, doc, counters, history>>
Goes(from, to) ==
  /\ pc = from /\ pc' = to
  /\ UNCHANGED <<file, disk, memory, answer, kind, doc, counters, history>>

\* _parse_docx_com: the live document, which is not cached, or none.
Com ==
  \/ pc = "com" /\ Answers(Live) /\ UNCHANGED <<disk, memory>>
  \/ Goes("com", "look") /\ UNCHANGED <<data, mtime>>

\* Mutant of Found: a document is known by its name.
FoundByName ==
  IF kind = "context"
    THEN { kept[key] : key \in { k \in DOMAIN kept : k[1] = doc } }
    ELSE IF disk[doc] # Nothing THEN {disk[doc].data} ELSE {}
\* What the cache has for the document as it is now.
Found ==
  IF kind = "context"
    THEN { kept[key] : key \in DOMAIN kept \cap {<<doc, file[doc]>>} }
    ELSE IF disk[doc] # Nothing /\ disk[doc].mtime = file[doc]
           THEN {disk[doc].data} ELSE {}
\* An error of the look-up is a miss.
Look ==
  \/ /\ pc = "look" /\ \E d \in Found : Answers(d)
     /\ UNCHANGED <<disk, memory>>
  \/ Goes("look", "parse") /\ UNCHANGED <<data, mtime>>

\* The first parser that succeeds, if one does.
Parse ==
  \/ Goes("parse", "parsed") /\ data' = file[doc] /\ UNCHANGED mtime
  \/ pc = "parse" /\ Answers(Nothing) /\ UNCHANGED <<disk, memory>>

\* The modification time is read, or the result is not stored.
Stat ==
  \/ Goes("parsed", "store") /\ mtime' = file[doc] /\ UNCHANGED data
  \/ pc = "parsed" /\ Answers(data) /\ UNCHANGED <<disk, memory>>

\* The oldest entries make room for a new one.
Surplus == IF Len(order) < Cap THEN 0 ELSE Len(order) - Cap + 1
Dropped == { order[i] : i \in 1..Surplus }
Entered(key) ==
  /\ order' = Append(SubSeq(order, Surplus + 1, Len(order)), key)
  /\ kept' = [k \in (DOMAIN kept \ Dropped) \cup {key} |->
                IF k = key THEN data ELSE kept[k]]
\* Mutant of Keep: a key that is there already is entered again.
KeepTwice(key) == Entered(key)
\* _cache_set.
Keep(key) ==
  IF key \in DOMAIN kept
    THEN kept' = [kept EXCEPT ![key] = data] /\ UNCHANGED order
    ELSE Entered(key)
\* DocumentCache.set replaces its file as a whole, or fails.
Store ==
  /\ pc = "store" /\ Answers(data)
  /\ IF kind = "context"
       THEN Keep(<<doc, mtime>>) /\ UNCHANGED disk
       ELSE /\ \/ disk' = [disk EXCEPT ![doc] = [mtime |-> mtime, data |-> data]]
               \/ UNCHANGED disk
            /\ UNCHANGED memory

RequestStep == Com \/ Look \/ Parse \/ Stat \/ Store

-----------------------------------------------------------------------------
\* A file is saved, or its backup restored.
Becomes(f, content) ==
  /\ changes < MaxChanges /\ changes' = changes + 1
  /\ file' = [file EXCEPT ![f] = content]
  /\ had' = [had EXCEPT ![f] = @ \cup {content}]
  /\ seen' = IF f = doc THEN seen \cup {content} ELSE seen
  /\ raced' = IF f = doc /\ pc = "parsed" THEN raced \cup {<<f, data>>} ELSE raced
  /\ UNCHANGED <<disk, memory, pc, request, answer, requests, crashes>>
Save(f) == Becomes(f, changes + 1)
Restore(f) == \E old \in had[f] \ {file[f]} : Becomes(f, old)

\* The sidecar ends and is started again.
Restart ==
  /\ crashes < MaxCrashes /\ crashes' = crashes + 1
  /\ order' = <<>> /\ kept' = <<>> /\ pc' = "done" /\ answer' = Nothing
  /\ data' = 0 /\ mtime' = 0
  /\ UNCHANGED <<file, disk, kind, doc, changes, requests, history>>

Next ==
  \/ \E f \in Files : Receive("read_docx", f) \/ Receive("context", f)
  \/ RequestStep
  \/ \E f \in Files : Save(f) \/ Restore(f)
  \/ Restart

Spec == Init /\ [][Next]_vars

-----------------------------------------------------------------------------
\* Every variable has the type its comment above gives it.
TypeOK ==
  /\ file \in [Files -> Nat] /\ doc \in Files /\ {data, mtime} \subseteq Nat
  /\ disk \in [Files -> [mtime : Nat, data : Nat] \cup {Nothing}]
  /\ DOMAIN kept \subseteq Files \X Nat /\ kept \in [DOMAIN kept -> Nat]
  /\ order \in Seq(Files \X Nat)
  /\ pc \in {"done", "com", "look", "parse", "parsed", "store"}
  /\ kind \in {"read_docx", "context"}
  /\ answer \in Nat \cup {Nothing, Live}
  /\ {changes, requests, crashes} \subseteq Nat
  /\ had \in [Files -> SUBSET Nat]

\* cache.py:17, docling_parser.py:75: what is answered is what the file was at
\* some moment since the request came (or what the open document shows), from
\* either cache, after saves, restored backups and restarts.  Excepted is what
\* was read before a save and stamped after it: it is kept as the new content.
AnswersTrue ==
  pc = "done" /\ answer \in Nat => answer \in seen \/ <<doc, answer>> \in raced

\* The memory cache holds no more than it may, and its order lists each of its
\* keys once, so that every entry will be evicted and none too early: also
\* when a restored backup brings back the key of an earlier parse.
EvictionKept ==
  /\ Len(order) <= Cap /\ Range(order) = DOMAIN kept
  /\ \A i, j \in DOMAIN order : order[i] = order[j] => i = j

-----------------------------------------------------------------------------
(* Why AnswersTrue holds. *)

\* Every copy was stamped with its own content, or in a race.
True(f, stamp, d) == d = stamp \/ <<f, d>> \in raced
CopiesTrue ==
  /\ \A f \in Files : disk[f] # Nothing => True(f, disk[f].mtime, disk[f].data)
  /\ \A key \in DOMAIN kept : True(key[1], key[2], kept[key])
\* What the request has read, and where it is.
ReadTrue ==
  /\ pc # "done" => file[doc] \in seen
  /\ pc = "parsed" => True(doc, file[doc], data)
  /\ pc = "store" => True(doc, mtime, data)
  /\ pc \in {"parsed", "store"} => data \in seen

IInv == TypeOK /\ EvictionKept /\ CopiesTrue /\ ReadTrue /\ AnswersTrue
=============================================================================
