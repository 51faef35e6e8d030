-------------------------- MODULE ParseCache_proofs --------------------------
(***************************************************************************)
(* Proofs about ParseCache: what is answered is what the file was since    *)
(* the request came, saves during a parse excepted, and the memory cache   *)
(* and its order stay in step.                                             *)
(***************************************************************************)
EXTENDS ParseCache, SequenceTheorems, TLAPS

LEMMA Values ==
  /\ Cap \in Nat /\ Cap > 0
  /\ Nothing \notin Nat /\ Live \notin Nat
BY CacheAssumption

Stored == [mtime : Nat, data : Nat]
Keys == Files \X Nat

-----------------------------------------------------------------------------
(* A queue that loses its first entries and gains one at the end. *)

LEMMA Shift ==
  ASSUME NEW S, NEW s \in Seq(S), NEW n \in 0..Len(s), NEW e \in S
  PROVE  LET r == Append(SubSeq(s, n + 1, Len(s)), e)
         IN  /\ r \in Seq(S) /\ Len(r) = Len(s) - n + 1
             /\ \A i \in 1..(Len(s) - n) : r[i] = s[n + i]
             /\ r[Len(s) - n + 1] = e
<1> DEFINE t == SubSeq(s, n + 1, Len(s))
<1>1. Len(s) \in Nat  BY LenProperties
<1>2. \A i \in (n + 1)..Len(s) : s[i] \in S
  <2> TAKE i \in (n + 1)..Len(s)
  <2>1. i \in 1..Len(s)  BY <1>1
  <2> QED BY <2>1, ElementOfSeq
<1>3. n + 1 \in Int /\ Len(s) \in Int  BY <1>1
<1>4. /\ t \in Seq(S)
      /\ Len(t) = IF n + 1 <= Len(s) THEN Len(s) - (n + 1) + 1 ELSE 0
      /\ \A i \in 1..(Len(s) - (n + 1) + 1) : t[i] = s[(n + 1) + i - 1]
  BY <1>2, <1>3, SubSeqProperties
<1> HIDE DEF t
<1>5. Len(t) = Len(s) - n  BY <1>1, <1>4
<1>6. \A i \in 1..(Len(s) - n) : t[i] = s[n + i]
  <2> TAKE i \in 1..(Len(s) - n)
  <2>1. i \in 1..(Len(s) - (n + 1) + 1) /\ (n + 1) + i - 1 = n + i  BY <1>1
  <2> QED BY <1>4, <2>1
<1>7. /\ Append(t, e) \in Seq(S) /\ Len(Append(t, e)) = Len(t) + 1
      /\ \A i \in 1..Len(t) : Append(t, e)[i] = t[i]
      /\ Append(t, e)[Len(t) + 1] = e
  BY <1>4, AppendProperties
<1>8. \A i \in 1..(Len(s) - n) : Append(t, e)[i] = s[n + i]
  BY <1>5, <1>6, <1>7
<1>9. Append(t, e)[Len(s) - n + 1] = e  BY <1>5, <1>7
<1> QED BY <1>5, <1>7, <1>8, <1>9 DEF t

\* Entering a new key keeps the memory cache and its order in step.
LEMMA EnteredInStep ==
  ASSUME TypeOK, EvictionKept, NEW key \in Keys, key \notin DOMAIN kept,
         Entered(key)
  PROVE  /\ EvictionKept'
         /\ order' \in Seq(Keys)
         /\ DOMAIN kept' \subseteq Keys /\ kept' \in [DOMAIN kept' -> Nat]
         /\ \A k \in DOMAIN kept' :
              (k = key /\ kept'[k] = data)
                \/ (k \in DOMAIN kept /\ kept'[k] = kept[k])
<1> DEFINE n == Surplus
           m == Len(order)
<1>1. order \in Seq(Keys) /\ m \in Nat /\ DOMAIN order = 1..m
  BY LenProperties DEF TypeOK, Keys
<1>2. /\ n \in 0..m /\ m - n + 1 \in Nat /\ m - n + 1 <= Cap
  BY <1>1, Values DEF Surplus, EvictionKept
<1>3. /\ order' \in Seq(Keys) /\ Len(order') = m - n + 1
      /\ \A i \in 1..(m - n) : order'[i] = order[n + i]
      /\ order'[m - n + 1] = key
  <2>1. order' = Append(SubSeq(order, n + 1, m), key)  BY DEF Entered
  <2> HIDE DEF n
  <2> QED BY <1>1, <1>2, <2>1, Shift
<1>4. DOMAIN order' = 1..(m - n + 1)  BY <1>3, LenProperties
<1>5. DOMAIN kept = { order[i] : i \in 1..m }
  BY <1>1 DEF EvictionKept, Range
<1>6. \A i, j \in 1..m : order[i] = order[j] => i = j
  BY <1>1 DEF EvictionKept
<1>7. Dropped = { order[i] : i \in 1..n }  BY DEF Dropped
<1>8. DOMAIN kept' = (DOMAIN kept \ Dropped) \cup {key}  BY DEF Entered
<1> HIDE DEF n, m
<1>9. DOMAIN kept \ Dropped = { order[i] : i \in (n + 1)..m }
  BY <1>1, <1>2, <1>5, <1>6, <1>7
<1>10. { order'[i] : i \in 1..(m - n) } = { order[i] : i \in (n + 1)..m }
  <2>1. \A i \in 1..(m - n) : n + i \in (n + 1)..m  BY <1>1, <1>2
  <2>2. \A i \in (n + 1)..m : i - n \in 1..(m - n) /\ n + (i - n) = i
    BY <1>1, <1>2
  <2> QED BY <1>3, <2>1, <2>2
<1>11. Range(order') = DOMAIN kept'
  <2>1. 1..(m - n + 1) = 1..(m - n) \cup {m - n + 1}  BY <1>1, <1>2
  <2>2. Range(order') = { order'[i] : i \in 1..(m - n) } \cup {order'[m - n + 1]}
    BY <1>4, <2>1 DEF Range
  <2> QED BY <1>3, <1>8, <1>9, <1>10, <2>2
<1>12. ASSUME NEW i \in 1..(m - n + 1), NEW j \in 1..(m - n + 1),
              order'[i] = order'[j]
       PROVE  i = j
  <2>1. \A h \in 1..(m - n) : n + h \in 1..m /\ order'[h] \in DOMAIN kept
    <3> TAKE h \in 1..(m - n)
    <3>1. n + h \in 1..m  BY <1>1, <1>2
    <3> QED BY <1>3, <1>5, <3>1
  <2>2. CASE i \in 1..(m - n) /\ j \in 1..(m - n)
    <3>1. n + i = n + j  BY <1>3, <1>6, <1>12, <2>1, <2>2
    <3> QED BY <1>1, <1>2, <3>1
  <2>3. CASE i \in 1..(m - n) /\ j = m - n + 1
    BY <1>3, <1>12, <2>1, <2>3
  <2>4. CASE i = m - n + 1 /\ j \in 1..(m - n)
    BY <1>3, <1>12, <2>1, <2>4
  <2>5. CASE i = m - n + 1 /\ j = m - n + 1
    BY <2>5
  <2>6. \A h \in 1..(m - n + 1) : h \in 1..(m - n) \/ h = m - n + 1
    BY <1>1, <1>2
  <2> QED BY <2>2, <2>3, <2>4, <2>5, <2>6
<1>13. EvictionKept'
  BY <1>2, <1>3, <1>4, <1>11, <1>12 DEF EvictionKept
<1>14. /\ DOMAIN kept' \subseteq Keys
       /\ \A k \in DOMAIN kept' :
            kept'[k] = IF k = key THEN data ELSE kept[k]
  BY <1>8 DEF Entered, TypeOK, Keys
<1>15. \A k \in DOMAIN kept' :
         (k = key /\ kept'[k] = data)
           \/ (k \in DOMAIN kept /\ kept'[k] = kept[k])
  BY <1>8, <1>14
<1>16. kept' \in [DOMAIN kept' -> Nat]
  <2>1. kept' = [k \in DOMAIN kept' |-> IF k = key THEN data ELSE kept[k]]
    BY <1>8 DEF Entered
  <2>2. \A k \in DOMAIN kept' : kept'[k] \in Nat
    BY <1>15 DEF TypeOK
  <2> QED BY <1>14, <2>1, <2>2
<1> QED BY <1>3, <1>13, <1>14, <1>15, <1>16

\* _cache_set keeps the memory cache in step, and every copy is an old one or
\* the one entered.
LEMMA KeepInStep ==
  ASSUME TypeOK, EvictionKept, NEW key \in Keys, Keep(key)
  PROVE  /\ EvictionKept'
         /\ order' \in Seq(Keys)
         /\ DOMAIN kept' \subseteq Keys /\ kept' \in [DOMAIN kept' -> Nat]
         /\ \A k \in DOMAIN kept' :
              (k = key /\ kept'[k] = data)
                \/ (k \in DOMAIN kept /\ kept'[k] = kept[k])
<1>1. CASE key \notin DOMAIN kept
  BY <1>1, EnteredInStep DEF Keep
<1>2. CASE key \in DOMAIN kept
  <2>1. kept' = [kept EXCEPT ![key] = data] /\ order' = order
    BY <1>2 DEF Keep
  <2>2. DOMAIN kept' = DOMAIN kept  BY <2>1
  <2>3. EvictionKept'  BY <2>1, <2>2 DEF EvictionKept
  <2>4. order' \in Seq(Keys)  BY <2>1 DEF TypeOK, Keys
  <2>5. DOMAIN kept' \subseteq Keys /\ kept' \in [DOMAIN kept' -> Nat]
    BY <1>2, <2>1, <2>2 DEF TypeOK, Keys
  <2>6. \A k \in DOMAIN kept' :
          (k = key /\ kept'[k] = data)
            \/ (k \in DOMAIN kept /\ kept'[k] = kept[k])
    BY <1>2, <2>1, <2>2 DEF TypeOK
  <2> QED BY <2>3, <2>4, <2>5, <2>6
<1> QED BY <1>1, <1>2

-----------------------------------------------------------------------------
(* The invariant *)

LEMMA InitInv == Init => IInv
<1> SUFFICES ASSUME Init PROVE IInv  OBVIOUS
<1>1. order \in Seq(Files \X Nat) /\ Len(order) = 0 /\ DOMAIN order = {}
  BY EmptySeq DEF Init
<1>2. DOMAIN kept = {} /\ kept \in [DOMAIN kept -> Nat]
  BY DEF Init
<1>3. TypeOK  BY <1>1, <1>2 DEF Init, TypeOK
<1>4. EvictionKept  BY <1>1, <1>2, Values DEF EvictionKept, Range
<1>5. CopiesTrue  BY <1>2 DEF Init, CopiesTrue
<1>6. ReadTrue /\ AnswersTrue  BY Values DEF Init, ReadTrue, AnswersTrue
<1> QED BY <1>3, <1>4, <1>5, <1>6 DEF IInv

\* What is in a cache for the document as it is now is what it is now, or was
\* read in a race.
LEMMA FoundTrue ==
  ASSUME IInv, NEW d \in Found
  PROVE  d \in Nat /\ True(doc, file[doc], d)
<1>1. CASE kind = "context"
  <2>1. PICK key \in DOMAIN kept : key = <<doc, file[doc]>> /\ d = kept[key]
    BY <1>1 DEF Found
  <2>2. d \in Nat  BY <2>1 DEF IInv, TypeOK
  <2>3. True(key[1], key[2], kept[key])  BY DEF IInv, CopiesTrue
  <2> QED BY <2>1, <2>2, <2>3
<1>2. CASE kind # "context"
  <2>1. disk[doc] # Nothing /\ disk[doc].mtime = file[doc] /\ d = disk[doc].data
    BY <1>2 DEF Found
  <2>2. doc \in Files /\ disk[doc] \in Stored
    BY <2>1 DEF IInv, TypeOK, Stored
  <2>3. True(doc, disk[doc].mtime, disk[doc].data)
    BY <2>1, <2>2 DEF IInv, CopiesTrue
  <2> QED BY <2>1, <2>2, <2>3 DEF Stored
<1> QED BY <1>1, <1>2

\* An answer that is true, with the caches as they were.
LEMMA AnswersInv ==
  ASSUME IInv, NEW a \in Nat \cup {Nothing, Live}, Answers(a),
         UNCHANGED <<disk, memory>>,
         a \in Nat => a \in seen \/ <<doc, a>> \in raced
  PROVE  IInv'
<1> USE DEF IInv, Answers, counters, history, memory
<1>1. TypeOK'  BY DEF TypeOK
<1>2. EvictionKept'  BY DEF EvictionKept
<1>3. CopiesTrue'  BY DEF CopiesTrue, True
<1>4. ReadTrue'  BY DEF ReadTrue
<1>5. AnswersTrue'  BY DEF AnswersTrue
<1> QED BY <1>1, <1>2, <1>3, <1>4, <1>5

\* A step of the request that does not answer.
LEMMA GoesInv ==
  ASSUME IInv, NEW from, NEW to, Goes(from, to),
         from # "done", to \in {"look", "parse", "parsed", "store"},
         data' \in Nat, mtime' \in Nat, ReadTrue'
  PROVE  IInv'
<1> USE DEF IInv, Goes, counters, history, memory
<1>1. TypeOK'  BY DEF TypeOK
<1>2. EvictionKept'  BY DEF EvictionKept
<1>3. CopiesTrue'  BY DEF CopiesTrue, True
<1>4. AnswersTrue'  BY DEF AnswersTrue
<1> QED BY <1>1, <1>2, <1>3, <1>4

LEMMA ReceiveInv ==
  ASSUME IInv, NEW k \in {"read_docx", "context"}, NEW f \in Files,
         Receive(k, f)
  PROVE  IInv'
<1> USE DEF IInv, Receive, memory
<1>1. TypeOK'  BY DEF TypeOK
<1>2. EvictionKept'  BY DEF EvictionKept
<1>3. CopiesTrue'  BY DEF CopiesTrue, True
<1>4. ReadTrue'  BY DEF ReadTrue
<1>5. AnswersTrue'  BY Values DEF AnswersTrue
<1> QED BY <1>1, <1>2, <1>3, <1>4, <1>5

LEMMA ComInv == IInv /\ Com => IInv'
<1> SUFFICES ASSUME IInv, Com PROVE IInv'  OBVIOUS
<1>1. CASE pc = "com" /\ Answers(Live) /\ UNCHANGED <<disk, memory>>
  BY <1>1, AnswersInv, Values
<1>2. CASE Goes("com", "look") /\ UNCHANGED <<data, mtime>>
  <2>1. ReadTrue'  BY <1>2 DEF IInv, ReadTrue, Goes, history
  <2>2. data' \in Nat /\ mtime' \in Nat  BY <1>2 DEF IInv, TypeOK
  <2> QED BY <1>2, <2>1, <2>2, GoesInv
<1> QED BY <1>1, <1>2 DEF Com

LEMMA LookInv == IInv /\ Look => IInv'
<1> SUFFICES ASSUME IInv, Look PROVE IInv'  OBVIOUS
<1>1. CASE /\ pc = "look" /\ \E d \in Found : Answers(d)
           /\ UNCHANGED <<disk, memory>>
  <2>1. PICK d \in Found : Answers(d)  BY <1>1
  <2>2. d \in Nat /\ True(doc, file[doc], d)  BY FoundTrue
  <2>3. file[doc] \in seen  BY <1>1 DEF IInv, ReadTrue
  <2>4. d \in seen \/ <<doc, d>> \in raced  BY <2>2, <2>3 DEF True
  <2> QED BY <1>1, <2>1, <2>2, <2>4, AnswersInv
<1>2. CASE Goes("look", "parse") /\ UNCHANGED <<data, mtime>>
  <2>1. ReadTrue'  BY <1>2 DEF IInv, ReadTrue, Goes, history
  <2>2. data' \in Nat /\ mtime' \in Nat  BY <1>2 DEF IInv, TypeOK
  <2> QED BY <1>2, <2>1, <2>2, GoesInv
<1> QED BY <1>1, <1>2 DEF Look

LEMMA ParseInv == IInv /\ Parse => IInv'
<1> SUFFICES ASSUME IInv, Parse PROVE IInv'  OBVIOUS
<1>1. CASE Goes("parse", "parsed") /\ data' = file[doc] /\ UNCHANGED mtime
  <2>1. ReadTrue'  BY <1>1 DEF IInv, ReadTrue, True, Goes, history
  <2>2. data' \in Nat /\ mtime' \in Nat  BY <1>1 DEF IInv, TypeOK
  <2> QED BY <1>1, <2>1, <2>2, GoesInv
<1>2. CASE pc = "parse" /\ Answers(Nothing) /\ UNCHANGED <<disk, memory>>
  BY <1>2, AnswersInv, Values
<1> QED BY <1>1, <1>2 DEF Parse

LEMMA StatInv == IInv /\ Stat => IInv'
<1> SUFFICES ASSUME IInv, Stat PROVE IInv'  OBVIOUS
<1>1. CASE Goes("parsed", "store") /\ mtime' = file[doc] /\ UNCHANGED data
  <2>1. ReadTrue'  BY <1>1 DEF IInv, ReadTrue, True, Goes, history
  <2>2. data' \in Nat /\ mtime' \in Nat  BY <1>1 DEF IInv, TypeOK
  <2> QED BY <1>1, <2>1, <2>2, GoesInv
<1>2. CASE pc = "parsed" /\ Answers(data) /\ UNCHANGED <<disk, memory>>
  <2>1. data \in Nat /\ data \in seen  BY <1>2 DEF IInv, TypeOK, ReadTrue
  <2> QED BY <1>2, <2>1, AnswersInv
<1> QED BY <1>1, <1>2 DEF Stat

LEMMA StoreInv == IInv /\ Store => IInv'
<1> SUFFICES ASSUME IInv, Store PROVE IInv'  OBVIOUS
<1>1. /\ pc = "store" /\ Answers(data) /\ data \in Nat /\ mtime \in Nat
      /\ doc \in Files /\ data \in seen /\ True(doc, mtime, data)
  BY DEF Store, IInv, TypeOK, ReadTrue
<1>2. ReadTrue' /\ AnswersTrue'
  BY <1>1 DEF Answers, ReadTrue, AnswersTrue, history
<1>3. CASE kind = "context"
  <2> DEFINE key == <<doc, mtime>>
  <2>1. key \in Keys  BY <1>1 DEF Keys
  <2>2. Keep(key) /\ UNCHANGED disk  BY <1>3 DEF Store
  <2> HIDE DEF key
  <2>3. /\ EvictionKept'
        /\ order' \in Seq(Keys)
        /\ DOMAIN kept' \subseteq Keys /\ kept' \in [DOMAIN kept' -> Nat]
        /\ \A k \in DOMAIN kept' :
             (k = key /\ kept'[k] = data)
               \/ (k \in DOMAIN kept /\ kept'[k] = kept[k])
    BY <2>1, <2>2, KeepInStep DEF IInv
  <2>4. TypeOK'
    BY <1>1, <2>2, <2>3 DEF IInv, TypeOK, Answers, counters, history, Keys
  <2>5. CopiesTrue'
    <3>1. ASSUME NEW k \in DOMAIN kept'  
           PROVE kept'[k] = k[2] \/ <<k[1], kept'[k]>> \in raced'
      <4>1. CASE k = key /\ kept'[k] = data
        BY <1>1, <4>1 DEF key, True, Answers, history
      <4>2. CASE k \in DOMAIN kept /\ kept'[k] = kept[k]
        BY <1>1, <4>2 DEF IInv, CopiesTrue, True, Answers, history
      <4> QED BY <2>3, <4>1, <4>2
    <3>2. \A f \in Files :
            disk'[f] # Nothing =>
              \/ disk'[f].data = disk'[f].mtime
              \/ <<f, disk'[f].data>> \in raced'
      BY <1>1, <2>2 DEF IInv, CopiesTrue, True, Answers, history
    <3> QED BY <2>2, <3>1, <3>2 DEF CopiesTrue, True
  <2> QED BY <1>2, <2>3, <2>4, <2>5 DEF IInv
<1>4. CASE kind # "context"
  <2> DEFINE copy == [mtime |-> mtime, data |-> data]
  <2>1. /\ UNCHANGED memory
        /\ disk' = [disk EXCEPT ![doc] = copy] \/ disk' = disk
    BY <1>4 DEF Store
  <2>2. copy \in Stored /\ copy.mtime = mtime /\ copy.data = data
    BY <1>1 DEF Stored
  <2> HIDE DEF copy
  <2>3. EvictionKept'  BY <2>1 DEF IInv, EvictionKept, memory
  <2>4. TypeOK'
    <3>1. disk' \in [Files -> Stored \cup {Nothing}]
      BY <2>1, <2>2 DEF IInv, TypeOK, Stored
    <3> QED BY <1>1, <2>1, <3>1
            DEF IInv, TypeOK, Answers, counters, history, memory, Stored
  <2>5. \A f \in Files : disk'[f] = disk[f] \/ (f = doc /\ disk'[f] = copy)
    BY <1>1, <2>1 DEF IInv, TypeOK
  <2>6. CopiesTrue'
    BY <1>1, <2>1, <2>2, <2>5
       DEF IInv, CopiesTrue, True, Answers, history, memory
  <2> QED BY <1>2, <2>3, <2>4, <2>6 DEF IInv
<1> QED BY <1>3, <1>4

\* A change of a file: what was read of it before and is not yet stamped has
\* its race recorded.
LEMMA BecomesInv ==
  ASSUME IInv, NEW f \in Files, NEW content \in Nat, Becomes(f, content)
  PROVE  IInv'
<1> USE DEF IInv, Becomes, memory, request
<1>1. raced \subseteq raced' /\ seen \subseteq seen'  OBVIOUS
<1>2. TypeOK'  BY DEF TypeOK
<1>3. EvictionKept'  BY DEF EvictionKept
<1>4. CopiesTrue'  BY <1>1 DEF CopiesTrue, True
<1>5. ReadTrue'
  <2>1. pc # "done" => file'[doc] \in seen'  BY <1>1 DEF ReadTrue, TypeOK
  <2>2. pc = "parsed" => True(doc, file[doc], data)'
    <3>1. CASE f = doc  BY <3>1 DEF True
    <3>2. CASE f # doc  BY <1>1, <3>2 DEF ReadTrue, True, TypeOK
    <3> QED BY <3>1, <3>2
  <2>3. pc = "store" => True(doc, mtime, data)'
    BY <1>1 DEF ReadTrue, True
  <2>4. pc \in {"parsed", "store"} => data \in seen'
    BY <1>1 DEF ReadTrue
  <2> QED BY <2>1, <2>2, <2>3, <2>4 DEF ReadTrue, True
<1>6. AnswersTrue'  BY <1>1 DEF AnswersTrue
<1> QED BY <1>2, <1>3, <1>4, <1>5, <1>6

LEMMA RestartInv == IInv /\ Restart => IInv'
<1> SUFFICES ASSUME IInv, Restart PROVE IInv'  OBVIOUS
<1> USE DEF IInv, Restart, history
<1>1. /\ order' \in Seq(Files \X Nat) /\ Len(order') = 0
      /\ DOMAIN order' = {} /\ DOMAIN kept' = {}
      /\ kept' \in [DOMAIN kept' -> Nat]
  BY EmptySeq
<1>2. TypeOK'  BY <1>1 DEF TypeOK
<1>3. EvictionKept'  BY <1>1, Values DEF EvictionKept, Range
<1>4. CopiesTrue'  BY <1>1 DEF CopiesTrue, True
<1>5. ReadTrue' /\ AnswersTrue'  BY Values DEF ReadTrue, AnswersTrue
<1> QED BY <1>2, <1>3, <1>4, <1>5

LEMMA NextInv == IInv /\ [Next]_vars => IInv'
<1> SUFFICES ASSUME IInv, [Next]_vars PROVE IInv'  OBVIOUS
<1>1. ASSUME NEW f \in Files, Receive("read_docx", f) \/ Receive("context", f)
      PROVE  IInv'
  BY <1>1, ReceiveInv
<1>2. CASE RequestStep
  BY <1>2, ComInv, LookInv, ParseInv, StatInv, StoreInv DEF RequestStep
<1>3. ASSUME NEW f \in Files, Save(f)  PROVE IInv'
  <2>1. changes + 1 \in Nat  BY DEF IInv, TypeOK
  <2> QED BY <1>3, <2>1, BecomesInv DEF Save
<1>4. ASSUME NEW f \in Files, Restore(f)  PROVE IInv'
  <2>1. PICK old \in had[f] : Becomes(f, old)  BY <1>4 DEF Restore
  <2>2. old \in Nat  BY DEF IInv, TypeOK
  <2> QED BY <2>1, <2>2, BecomesInv
<1>5. CASE Restart  BY <1>5, RestartInv
<1>6. CASE UNCHANGED vars
  <2> USE <1>6 DEF vars, memory, request, counters, history, IInv
  <2>1. TypeOK'  BY DEF TypeOK
  <2>2. EvictionKept' /\ CopiesTrue'  BY DEF EvictionKept, CopiesTrue, True
  <2>3. ReadTrue' /\ AnswersTrue'  BY DEF ReadTrue, AnswersTrue, True
  <2> QED BY <2>1, <2>2, <2>3
<1> QED BY <1>1, <1>2, <1>3, <1>4, <1>5, <1>6 DEF Next

LEMMA Invariance == Spec => []IInv
<1> QED BY InitInv, NextInv, PTL DEF Spec

-----------------------------------------------------------------------------
\* Type correctness, for any files, sizes and bounds.
THEOREM TypeCorrect == Spec => []TypeOK
<1>1. IInv => TypeOK  BY DEF IInv
<1> QED BY <1>1, Invariance, PTL

\* What parse_docx and DoclingParser.parse answer is what the file was since
\* the request came, whatever was saved, restored, evicted and restarted
\* before, unless it was read before a save and stamped after it.
THEOREM AnswersAreTrue == Spec => []AnswersTrue
<1>1. IInv => AnswersTrue  BY DEF IInv
<1> QED BY <1>1, Invariance, PTL

\* _cache and _cache_order stay in step, within _CACHE_MAX_SIZE.
THEOREM EvictionIsKept == Spec => []EvictionKept
<1>1. IInv => EvictionKept  BY DEF IInv
<1> QED BY <1>1, Invariance, PTL
=============================================================================
