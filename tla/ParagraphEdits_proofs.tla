------------------------- MODULE ParagraphEdits_proofs -------------------------
(***************************************************************************)
(* Proofs about ParagraphEdits, for every document, every choice of        *)
(* prompts and every plan.  Each part has an inductive invariant:          *)
(*                                                                         *)
(*   IInv      the indices of the COM path lead to the paragraphs they     *)
(*             began with (TypeCorrect, IndicesTrackTheirParagraphs);      *)
(*   AgreeInv  python-docx's document and Word's are side by side          *)
(*             (PathsAgreeAlways);                                         *)
(*   TouchInv  what no edit names is in both as it was                     *)
(*             (UntouchedStaysAlways);                                     *)
(*   CanonInv  the file is the one document that the edits of the plan,    *)
(*             as a set, decide (SortedAgreesAlways).                      *)
(*                                                                         *)
(* The list in reverse index order is no behaviour but a recursive         *)
(* function of the plan; what it keeps is proved by induction over the     *)
(* natural numbers (Induction, AtIndexStays, SortedStays).                 *)
(***************************************************************************)
EXTENDS ParagraphEdits, SequenceTheorems, WellFoundedInduction, TLAPS

\* A paragraph of a document.
Para == [id : Nat, text : Seq(0..MaxEdits)]

\* The inductive invariant for TypeOK and IndicesTrack: Word always has a
\* paragraph.
IInv == TypeOK /\ IndicesTrack /\ Len(word) > 0

\* The constants, in the form the provers need them.
LEMMA Bounds == NParas \in Nat /\ NParas > 0 /\ MaxEdits \in Nat
BY EditsAssumption

-----------------------------------------------------------------------------
(* Sequences that gain and lose an element *)

\* The beginning and the end of a sequence, the latter from i on.
LEMMA Beginning ==
  ASSUME NEW S, NEW s \in Seq(S), NEW n \in 0..Len(s)
  PROVE  /\ SubSeq(s, 1, n) \in Seq(S) /\ Len(SubSeq(s, 1, n)) = n
         /\ \A j \in 1..n : SubSeq(s, 1, n)[j] = s[j]
<1>1. Len(s) \in Nat  BY LenProperties
<1>2. \A j \in 1..n : s[j] \in S
  <2> TAKE j \in 1..n
  <2>1. j \in 1..Len(s)  BY <1>1
  <2> QED BY <2>1, ElementOfSeq
<1>3. 1 \in Int /\ n \in Int  BY <1>1
<1>4. /\ SubSeq(s, 1, n) \in Seq(S)
      /\ Len(SubSeq(s, 1, n)) = IF 1 <= n THEN n - 1 + 1 ELSE 0
      /\ \A j \in 1..(n - 1 + 1) : SubSeq(s, 1, n)[j] = s[1 + j - 1]
  BY <1>2, <1>3, SubSeqProperties
<1>5. Len(SubSeq(s, 1, n)) = n
  <2>1. CASE n = 0  BY <1>4, <2>1
  <2>2. CASE n >= 1
    <3>1. 1 <= n /\ n - 1 + 1 = n  BY <1>3, <2>2
    <3> QED BY <1>4, <3>1
  <2> QED BY <1>1, <2>1, <2>2
<1>6. ASSUME NEW j \in 1..n  PROVE SubSeq(s, 1, n)[j] = s[j]
  <2>1. j \in 1..(n - 1 + 1) /\ 1 + j - 1 = j  BY <1>3
  <2> QED BY <1>4, <2>1
<1> QED BY <1>4, <1>5, <1>6

\* And its end, from i on.
LEMMA Ending ==
  ASSUME NEW S, NEW s \in Seq(S), NEW i \in 1..(Len(s) + 1)
  PROVE  /\ SubSeq(s, i, Len(s)) \in Seq(S)
         /\ Len(SubSeq(s, i, Len(s))) = Len(s) - i + 1
         /\ \A j \in 1..(Len(s) - i + 1) :
              SubSeq(s, i, Len(s))[j] = s[i + j - 1]
<1>1. Len(s) \in Nat  BY LenProperties
<1>2. \A j \in i..Len(s) : s[j] \in S
  <2> TAKE j \in i..Len(s)
  <2>1. j \in 1..Len(s)  BY <1>1
  <2> QED BY <2>1, ElementOfSeq
<1>3. i \in Int /\ Len(s) \in Int  BY <1>1
<1>4. /\ SubSeq(s, i, Len(s)) \in Seq(S)
      /\ Len(SubSeq(s, i, Len(s)))
           = IF i <= Len(s) THEN Len(s) - i + 1 ELSE 0
      /\ \A j \in 1..(Len(s) - i + 1) :
           SubSeq(s, i, Len(s))[j] = s[i + j - 1]
  BY <1>2, <1>3, SubSeqProperties
<1>5. Len(SubSeq(s, i, Len(s))) = Len(s) - i + 1
  <2>1. CASE i <= Len(s)  BY <1>4, <2>1
  <2>2. CASE ~(i <= Len(s))
    <3>1. Len(s) - i + 1 = 0  BY <1>1, <2>2
    <3> QED BY <1>4, <2>2, <3>1
  <2> QED BY <2>1, <2>2
<1> QED BY <1>4, <1>5

\* InsertAt moves what comes after by one.
LEMMA Inserted ==
  ASSUME NEW S, NEW s \in Seq(S), NEW i \in 1..(Len(s) + 1), NEW e \in S
  PROVE  /\ InsertAt(s, i, e) \in Seq(S)
         /\ Len(InsertAt(s, i, e)) = Len(s) + 1
         /\ \A j \in 1..Len(s) :
              j < i => InsertAt(s, i, e)[j] = s[j]
         /\ InsertAt(s, i, e)[i] = e
         /\ \A j \in 1..Len(s) :
              j >= i => InsertAt(s, i, e)[j + 1] = s[j]
<1> DEFINE a == SubSeq(s, 1, i - 1)
           b == SubSeq(s, i, Len(s))
<1>1. Len(s) \in Nat  BY LenProperties
<1>2. a \in Seq(S) /\ Len(a) = i - 1 /\ \A j \in 1..(i - 1) : a[j] = s[j]
  <2>1. i - 1 \in 0..Len(s)  BY <1>1
  <2> QED BY <2>1, Beginning
<1>3. /\ b \in Seq(S) /\ Len(b) = Len(s) - i + 1
      /\ \A j \in 1..(Len(s) - i + 1) : b[j] = s[i + j - 1]
  BY Ending
<1>4. <<e>> \in Seq(S) /\ Len(<<e>>) = 1  OBVIOUS
<1> HIDE DEF a, b
<1>5. /\ a \o <<e>> \in Seq(S) /\ Len(a \o <<e>>) = i
      /\ \A j \in 1..(i - 1) : (a \o <<e>>)[j] = s[j]
  <2>1. /\ a \o <<e>> \in Seq(S) /\ Len(a \o <<e>>) = Len(a) + 1
        /\ \A j \in 1..(Len(a) + 1) :
             (a \o <<e>>)[j] = IF j <= Len(a) THEN a[j] ELSE <<e>>[j - Len(a)]
    BY <1>2, <1>4, ConcatProperties
  <2>2. Len(a) + 1 = i  BY <1>1, <1>2
  <2>3. ASSUME NEW j \in 1..(i - 1)  PROVE (a \o <<e>>)[j] = s[j]
    <3>1. j \in 1..(Len(a) + 1) /\ j <= Len(a)  BY <1>1, <1>2
    <3>2. (a \o <<e>>)[j] = a[j]  BY <2>1, <3>1
    <3> QED BY <1>2, <3>2
  <2> QED BY <2>1, <2>2, <2>3
<1>12. (a \o <<e>>)[i] = e
  <2>1. \A j \in 1..(Len(a) + Len(<<e>>)) :
          (a \o <<e>>)[j] = IF j <= Len(a) THEN a[j] ELSE <<e>>[j - Len(a)]
    BY <1>2, <1>4, ConcatProperties
  <2>2. /\ i \in 1..(Len(a) + Len(<<e>>)) /\ ~(i <= Len(a))
        /\ i - Len(a) = 1
    BY <1>1, <1>2, <1>4
  <2>3. (a \o <<e>>)[i] = <<e>>[i - Len(a)]  BY <2>1, <2>2
  <2>4. <<e>>[1] = e  OBVIOUS
  <2> QED BY <2>2, <2>3, <2>4
<1> DEFINE c == (a \o <<e>>) \o b
<1>6. /\ c \in Seq(S) /\ Len(c) = i + (Len(s) - i + 1)
      /\ \A j \in 1..(i + (Len(s) - i + 1)) :
           c[j] = IF j <= i THEN (a \o <<e>>)[j] ELSE b[j - i]
  BY <1>3, <1>5, ConcatProperties
<1>7. InsertAt(s, i, e) = c  BY DEF InsertAt, a, b
<1> HIDE DEF c
<1>8. i + (Len(s) - i + 1) = Len(s) + 1  BY <1>1
<1>9. ASSUME NEW j \in 1..Len(s), j < i  PROVE c[j] = s[j]
  <2>1. j \in 1..(i + (Len(s) - i + 1)) /\ j <= i /\ j \in 1..(i - 1)
    BY <1>1, <1>9
  <2> QED BY <1>5, <1>6, <2>1
<1>10. ASSUME NEW j \in 1..Len(s), j >= i  PROVE c[j + 1] = s[j]
  <2>1. /\ j + 1 \in 1..(i + (Len(s) - i + 1)) /\ ~(j + 1 <= i)
        /\ (j + 1) - i \in 1..(Len(s) - i + 1) /\ i + ((j + 1) - i) - 1 = j
    BY <1>1, <1>10
  <2>2. c[j + 1] = b[(j + 1) - i]  BY <1>6, <2>1
  <2> QED BY <1>3, <2>1, <2>2
<1>11. c[i] = e
  <2>1. i \in 1..(i + (Len(s) - i + 1)) /\ i <= i  BY <1>1
  <2> QED BY <1>6, <1>12, <2>1
<1> QED BY <1>6, <1>7, <1>8, <1>9, <1>10, <1>11

\* RemoveAt moves what comes after back by one.
LEMMA Removed ==
  ASSUME NEW S, NEW s \in Seq(S), NEW i \in 1..Len(s)
  PROVE  /\ RemoveAt(s, i) \in Seq(S)
         /\ Len(RemoveAt(s, i)) = Len(s) - 1
         /\ \A j \in 1..Len(s) : j < i => RemoveAt(s, i)[j] = s[j]
         /\ \A j \in 1..Len(s) : j > i => RemoveAt(s, i)[j - 1] = s[j]
<1> DEFINE a == SubSeq(s, 1, i - 1)
           b == SubSeq(s, i + 1, Len(s))
           c == a \o b
<1>1. Len(s) \in Nat  BY LenProperties
<1>2. a \in Seq(S) /\ Len(a) = i - 1 /\ \A j \in 1..(i - 1) : a[j] = s[j]
  <2>1. i - 1 \in 0..Len(s)  BY <1>1
  <2> QED BY <2>1, Beginning
<1>3. /\ b \in Seq(S) /\ Len(b) = Len(s) - i
      /\ \A j \in 1..(Len(s) - i) : b[j] = s[i + j]
  <2>1. i + 1 \in 1..(Len(s) + 1)  BY <1>1
  <2>2. /\ b \in Seq(S) /\ Len(b) = Len(s) - (i + 1) + 1
        /\ \A j \in 1..(Len(s) - (i + 1) + 1) : b[j] = s[(i + 1) + j - 1]
    BY <2>1, Ending
  <2>3. Len(s) - (i + 1) + 1 = Len(s) - i  BY <1>1
  <2>4. ASSUME NEW j \in 1..(Len(s) - i)  PROVE b[j] = s[i + j]
    <3>1. j \in 1..(Len(s) - (i + 1) + 1) /\ (i + 1) + j - 1 = i + j
      BY <1>1
    <3> QED BY <2>2, <3>1
  <2> QED BY <2>2, <2>3, <2>4
<1>7. RemoveAt(s, i) = c  BY DEF RemoveAt
<1> HIDE DEF a, b
<1>6. /\ c \in Seq(S) /\ Len(c) = (i - 1) + (Len(s) - i)
      /\ \A j \in 1..((i - 1) + (Len(s) - i)) :
           c[j] = IF j <= i - 1 THEN a[j] ELSE b[j - (i - 1)]
  <2>1. /\ c \in Seq(S) /\ Len(c) = Len(a) + Len(b)
        /\ \A j \in 1..(Len(a) + Len(b)) :
             c[j] = IF j <= Len(a) THEN a[j] ELSE b[j - Len(a)]
    BY <1>2, <1>3, ConcatProperties
  <2>2. Len(a) = i - 1 /\ Len(b) = Len(s) - i  BY <1>2, <1>3
  <2> QED BY <2>1, <2>2
<1> HIDE DEF c
<1>8. (i - 1) + (Len(s) - i) = Len(s) - 1  BY <1>1
<1>9. ASSUME NEW j \in 1..Len(s), j < i  PROVE c[j] = s[j]
  <2>1. j \in 1..((i - 1) + (Len(s) - i)) /\ j <= i - 1 /\ j \in 1..(i - 1)
    BY <1>1, <1>9
  <2> QED BY <1>2, <1>6, <2>1
<1>10. ASSUME NEW j \in 1..Len(s), j > i  PROVE c[j - 1] = s[j]
  <2>1. /\ j - 1 \in 1..((i - 1) + (Len(s) - i)) /\ ~(j - 1 <= i - 1)
        /\ (j - 1) - (i - 1) \in 1..(Len(s) - i)
        /\ i + ((j - 1) - (i - 1)) = j
    BY <1>1, <1>10
  <2>2. c[j - 1] = b[(j - 1) - (i - 1)]  BY <1>6, <2>1
  <2> QED BY <1>3, <2>1, <2>2
<1> QED BY <1>6, <1>7, <1>8, <1>9, <1>10

-----------------------------------------------------------------------------
(* Documents *)

\* A new text leaves the paragraphs where they are.
LEMMA Retexted ==
  ASSUME NEW doc \in Seq(Para), NEW p \in 1..Len(doc),
         NEW t \in Seq(0..MaxEdits)
  PROVE  /\ [doc EXCEPT ![p].text = t] \in Seq(Para)
         /\ Len([doc EXCEPT ![p].text = t]) = Len(doc)
         /\ \A j \in 1..Len(doc) : [doc EXCEPT ![p].text = t][j].id = doc[j].id
<1> DEFINE e == [doc[p] EXCEPT !.text = t]
<1>1. doc[p] \in Para  BY ElementOfSeq
<1>2. e \in Para /\ e.id = doc[p].id  BY <1>1 DEF Para
<1>3. [doc EXCEPT ![p].text = t] = [doc EXCEPT ![p] = e]  OBVIOUS
<1> HIDE DEF e
<1>4. /\ [doc EXCEPT ![p] = e] \in Seq(Para)
      /\ Len([doc EXCEPT ![p] = e]) = Len(doc)
      /\ \A j \in 1..Len(doc) :
           [doc EXCEPT ![p] = e][j] = IF j = p THEN e ELSE doc[j]
  BY <1>2, ExceptSeq
<1> QED BY <1>2, <1>3, <1>4

\* What an edit writes is a paragraph.
LEMMA WrittenType ==
  ASSUME NEW k \in 1..MaxEdits
  PROVE  Written(k) \in Para /\ <<k>> \in Seq(0..MaxEdits)
<1>1. k \in 0..MaxEdits /\ NParas + k \in Nat  BY Bounds
<1>2. <<k>> \in Seq(0..MaxEdits)  BY <1>1
<1> QED BY <1>1, <1>2 DEF Written, Para

\* So is a text with one more edit.
LEMMA TextAppended ==
  ASSUME NEW doc \in Seq(Para), NEW p \in 1..Len(doc), NEW k \in 1..MaxEdits
  PROVE  Append(doc[p].text, k) \in Seq(0..MaxEdits)
<1>0. doc[p] \in Para  BY ElementOfSeq
<1>1. doc[p].text \in Seq(0..MaxEdits)  BY <1>0 DEF Para
<1>2. k \in 0..MaxEdits  BY Bounds
<1> QED BY <1>1, <1>2, AppendProperties

\* The file stays a sequence of paragraphs.
LEMMA FileType ==
  ASSUME TypeOK, NEW at \in (-1)..(NParas - 1), NEW k \in 1..MaxEdits,
         \/ FileInsert(at, k) \/ FileReplace(at, k) \/ FileAppendRun(at, k)
         \/ FileDelete(at)
  PROVE  file' \in Seq(Para)
<1>1. file \in Seq(Para)  BY DEF TypeOK, Para
<1>2. ASSUME FileHas(at)  PROVE FilePlace(at) \in 1..Len(file)
  <2>1. \E p \in DOMAIN file : file[p].id = cached[at + 1]
    BY <1>2 DEF FileHas, Present
  <2>2. FilePlace(at) \in DOMAIN file  BY <2>1 DEF FilePlace, Place
  <2> QED BY <1>1, <2>2, LenProperties
<1>3. Written(k) \in Para /\ <<k>> \in Seq(0..MaxEdits)  BY WrittenType
<1>4. CASE FileInsert(at, k)
  <2>1. CASE FileHas(at)
    <3>1. FilePlace(at) + 1 \in 1..(Len(file) + 1)
      BY <1>1, <1>2, <2>1, LenProperties
    <3>2. InsertAt(file, FilePlace(at) + 1, Written(k)) \in Seq(Para)
      BY <1>1, <1>3, <3>1, Inserted
    <3> QED BY <1>4, <2>1, <3>2 DEF FileInsert
  <2>2. CASE ~FileHas(at)
    <3>1. Append(file, Written(k)) \in Seq(Para)
      BY <1>1, <1>3, AppendProperties
    <3> QED BY <1>4, <2>2, <3>1 DEF FileInsert
  <2> QED BY <2>1, <2>2
<1>5. CASE FileReplace(at, k)
  <2>1. CASE FileHas(at)
    <3>1. [file EXCEPT ![FilePlace(at)].text = <<k>>] \in Seq(Para)
      BY <1>1, <1>2, <1>3, <2>1, Retexted
    <3> QED BY <1>5, <2>1, <3>1 DEF FileReplace
  <2>2. CASE ~FileHas(at)  BY <1>1, <1>5, <2>2 DEF FileReplace
  <2> QED BY <2>1, <2>2
<1>6. CASE FileAppendRun(at, k)
  <2>1. CASE FileHas(at)
    <3> DEFINE t == Append(file[FilePlace(at)].text, k)
    <3>1. t \in Seq(0..MaxEdits)  BY <1>1, <1>2, <2>1, TextAppended
    <3>2. [file EXCEPT ![FilePlace(at)].text = t] \in Seq(Para)
      BY <1>1, <1>2, <2>1, <3>1, Retexted
    <3> QED BY <1>6, <2>1, <3>2 DEF FileAppendRun
  <2>2. CASE ~FileHas(at)  BY <1>1, <1>6, <2>2 DEF FileAppendRun
  <2> QED BY <2>1, <2>2
<1>7. CASE FileDelete(at)
  <2>1. CASE FileHas(at)
    <3>1. RemoveAt(file, FilePlace(at)) \in Seq(Para)
      BY <1>1, <1>2, <2>1, Removed
    <3> QED BY <1>7, <2>1, <3>1 DEF FileDelete
  <2>2. CASE ~FileHas(at)  BY <1>1, <1>7, <2>2 DEF FileDelete
  <2> QED BY <2>1, <2>2
<1> QED BY <1>4, <1>5, <1>6, <1>7

-----------------------------------------------------------------------------
(* Word's document and its indices *)

\* What IInv says of them, in terms of 1..Len.
LEMMA Tracked ==
  ASSUME IInv
  PROVE  /\ word \in Seq(Para) /\ Len(word) \in Nat /\ Len(word) > 0
         /\ DOMAIN word = 1..Len(word)
         /\ indices \in Seq(Nat) /\ Len(indices) \in Nat
         /\ DOMAIN indices = 1..Len(indices) /\ Len(indices) = Len(Kept)
         /\ \A i \in 1..Len(indices) :
              /\ indices[i] \in Nat
              /\ indices[i] # 0 => /\ indices[i] \in 1..Len(word)
                                   /\ word[indices[i]].id = Kept[i]
         /\ \A i, j \in 1..Len(indices) :
              indices[i] = indices[j] => i = j \/ indices[i] = 0
<1>1. word \in Seq(Para) /\ indices \in Seq(Nat)  BY DEF IInv, TypeOK, Para
<1>2. /\ Len(word) \in Nat /\ DOMAIN word = 1..Len(word)
      /\ Len(indices) \in Nat /\ DOMAIN indices = 1..Len(indices)
  BY <1>1, LenProperties
<1>3. \A i \in 1..Len(indices) : indices[i] \in Nat  BY <1>1, ElementOfSeq
<1> QED BY <1>1, <1>2, <1>3 DEF IInv, IndicesTrack

\* And how it is established again.
LEMMA Retracked ==
  ASSUME word' \in Seq(Para), indices' \in Seq(Nat), Kept' = Kept,
         Len(indices') = Len(Kept),
         \A i \in 1..Len(indices') :
           indices'[i] # 0 => /\ indices'[i] \in 1..Len(word')
                              /\ word'[indices'[i]].id = Kept[i],
         \A i, j \in 1..Len(indices') :
           indices'[i] = indices'[j] => i = j \/ indices'[i] = 0
  PROVE  IndicesTrack'
<1>1. /\ DOMAIN word' = 1..Len(word')
      /\ DOMAIN indices' = 1..Len(indices')
  BY LenProperties
<1> QED BY <1>1 DEF IndicesTrack

\* An edit that writes into a paragraph moves none.
LEMMA WordRetexted ==
  ASSUME IInv, NEW p \in 1..Len(word), NEW t \in Seq(0..MaxEdits),
         word' = [word EXCEPT ![p].text = t], UNCHANGED <<prompts, blanks, cached>>,
         UNCHANGED indices
  PROVE  /\ word' \in Seq(Para) /\ Len(word') > 0 /\ indices' \in Seq(Nat)
         /\ IndicesTrack'
<1>1. Kept' = Kept  BY DEF Kept
<1>2. /\ word' \in Seq(Para) /\ Len(word') = Len(word)
      /\ \A j \in 1..Len(word) : word'[j].id = word[j].id
  BY Tracked, Retexted
<1> QED BY <1>1, <1>2, Tracked, Retracked

\* The shifts of an insertion and of a deletion.
LEMMA ShiftedType ==
  ASSUME indices \in Seq(Nat), NEW from \in Nat, from > 0, NEW by \in {-1, 1}
  PROVE  /\ Shifted(from, by) \in Seq(Nat)
         /\ Len(Shifted(from, by)) = Len(indices)
         /\ \A i \in 1..Len(indices) :
              Shifted(from, by)[i] = IF indices[i] > from THEN indices[i] + by
                                                          ELSE indices[i]
<1>1. Len(indices) \in Nat /\ DOMAIN indices = 1..Len(indices)
  BY LenProperties
<1>2. \A i \in 1..Len(indices) : indices[i] \in Nat  BY ElementOfSeq
<1>3. \A i \in 1..Len(indices) :
        (IF indices[i] > from THEN indices[i] + by ELSE indices[i]) \in Nat
  BY <1>2
<1>4. Shifted(from, by) \in [1..Len(indices) -> Nat]
  BY <1>1, <1>3 DEF Shifted
<1>5. Shifted(from, by) \in Seq(Nat)  BY <1>1, <1>4, SeqDef
<1>6. DOMAIN Shifted(from, by) = 1..Len(indices)  BY <1>4
<1>7. Len(Shifted(from, by)) = Len(indices)
  BY <1>1, <1>5, <1>6, LenProperties
<1> QED BY <1>1, <1>5, <1>7 DEF Shifted

\* No two numbers are shifted to the same one.
LEMMA SameShift ==
  ASSUME NEW p \in Nat, NEW x \in Nat, NEW y \in Nat,
         (IF x > p THEN x + 1 ELSE x) = (IF y > p THEN y + 1 ELSE y)
  PROVE  x = y
OBVIOUS

\* The place an index leads to.
LEMMA IndexPlace ==
  ASSUME IInv, NEW at, Index(at) # 0
  PROVE  /\ at + 1 \in 1..Len(indices) /\ Index(at) = indices[at + 1]
         /\ Index(at) \in 1..Len(word) /\ Index(at) \in Nat /\ Index(at) > 0
<1>1. at + 1 \in 1..Len(indices) /\ Index(at) = indices[at + 1]
  BY Tracked DEF Index
<1> QED BY <1>1, Tracked

\* _com_insert_paragraph keeps the indices right: those behind it move up.
LEMMA WordInsertKeeps ==
  ASSUME IInv, NEW at, NEW k \in 1..MaxEdits, WordInsert(at, k),
         UNCHANGED <<prompts, blanks, cached>>
  PROVE  /\ word' \in Seq(Para) /\ Len(word') > 0 /\ indices' \in Seq(Nat)
         /\ IndicesTrack'
<1>1. Written(k) \in Para /\ <<k>> \in Seq(0..MaxEdits)  BY WrittenType
<1>2. Kept' = Kept  BY DEF Kept
<1>3. CASE /\ Index(at) = 0 /\ UNCHANGED indices
           /\ word' = [word EXCEPT ![Len(word)].text = <<k>>]
  <2>1. Len(word) \in 1..Len(word)  BY Tracked
  <2> QED BY <1>1, <1>3, <2>1, WordRetexted
<1>4. CASE /\ Index(at) = 0 /\ UNCHANGED indices
           /\ word' = Append(word, Written(k))
  <2>1. /\ word' \in Seq(Para) /\ Len(word') = Len(word) + 1
        /\ \A j \in 1..Len(word) : word'[j] = word[j]
    BY <1>1, <1>4, Tracked, AppendProperties
  <2>2. \A j \in 1..Len(word) : j \in 1..Len(word')  BY <2>1, Tracked
  <2>3. Len(word') > 0  BY <2>1, Tracked
  <2> QED BY <1>2, <1>4, <2>1, <2>2, <2>3, Tracked, Retracked
<1>5. CASE /\ Index(at) # 0 /\ word' = InsertAt(word, Index(at) + 1, Written(k))
           /\ indices' = Shifted(Index(at), 1)
  <2> DEFINE p == Index(at)
  <2>1. p \in 1..Len(word) /\ p \in Nat /\ p > 0  BY <1>5, IndexPlace
  <2> HIDE DEF p
  <2>2. p + 1 \in 1..(Len(word) + 1)  BY <2>1, Tracked
  <2>3. /\ word' \in Seq(Para) /\ Len(word') = Len(word) + 1
        /\ \A j \in 1..Len(word) : j < p + 1 => word'[j] = word[j]
        /\ \A j \in 1..Len(word) : j >= p + 1 => word'[j + 1] = word[j]
    <3>1. word' = InsertAt(word, p + 1, Written(k))  BY <1>5 DEF p
    <3>2. word \in Seq(Para)  BY Tracked
    <3> QED BY <1>1, <2>2, <3>1, <3>2, Inserted
  <2>4. /\ indices' \in Seq(Nat) /\ Len(indices') = Len(indices)
        /\ \A i \in 1..Len(indices) :
             indices'[i] = IF indices[i] > p THEN indices[i] + 1 ELSE indices[i]
    BY <1>5, <2>1, Tracked, ShiftedType DEF p
  <2>5. ASSUME NEW i \in 1..Len(indices), indices'[i] # 0
        PROVE  indices'[i] \in 1..Len(word') /\ word'[indices'[i]].id = Kept[i]
    <3>0. indices[i] \in Nat  BY Tracked
    <3>1. CASE indices[i] > p
      <4>1. indices'[i] = indices[i] + 1 /\ indices[i] # 0
        BY <2>1, <2>4, <3>0, <3>1
      <4>2. indices[i] \in 1..Len(word) /\ word[indices[i]].id = Kept[i]
        BY <4>1, Tracked
      <4>3. indices[i] >= p + 1  BY <2>1, <3>0, <3>1
      <4>4. word'[indices[i] + 1] = word[indices[i]]  BY <2>3, <4>2, <4>3
      <4>5. indices[i] + 1 \in 1..Len(word')  BY <2>3, <4>2, Tracked
      <4> QED BY <4>1, <4>2, <4>4, <4>5
    <3>2. CASE ~(indices[i] > p)
      <4>1. indices'[i] = indices[i]  BY <2>4, <3>2
      <4>2. indices[i] \in 1..Len(word) /\ word[indices[i]].id = Kept[i]
        BY <2>5, <4>1, Tracked
      <4>3. indices[i] < p + 1  BY <2>1, <3>0, <3>2
      <4>4. word'[indices[i]] = word[indices[i]]  BY <2>3, <4>2, <4>3
      <4>5. indices[i] \in 1..Len(word')  BY <2>3, <4>2, Tracked
      <4> QED BY <4>1, <4>2, <4>4, <4>5
    <3> QED BY <3>1, <3>2
  <2>6. ASSUME NEW i \in 1..Len(indices), NEW j \in 1..Len(indices),
               indices'[i] = indices'[j]
        PROVE  i = j \/ indices'[i] = 0
    <3>1. indices[i] \in Nat /\ indices[j] \in Nat  BY Tracked
    <3>2. indices[i] = indices[j]
      <4>1. /\ indices'[i] = IF indices[i] > p THEN indices[i] + 1
                                              ELSE indices[i]
            /\ indices'[j] = IF indices[j] > p THEN indices[j] + 1
                                              ELSE indices[j]
        BY <2>4
      <4>2. (IF indices[i] > p THEN indices[i] + 1 ELSE indices[i]) =
            (IF indices[j] > p THEN indices[j] + 1 ELSE indices[j])
        BY <2>6, <4>1
      <4> QED BY <2>1, <3>1, <4>2, SameShift
    <3>3. i = j \/ indices[i] = 0
      <4>1. \A l, m \in 1..Len(indices) :
              indices[l] = indices[m] => l = m \/ indices[l] = 0
        BY Tracked
      <4> QED BY <3>2, <4>1
    <3> QED BY <2>1, <2>4, <3>1, <3>3
  <2>7. Len(word') > 0  BY <2>3, Tracked
  <2> QED BY <1>2, <2>3, <2>4, <2>5, <2>6, <2>7, Tracked, Retracked
<1> QED BY <1>3, <1>4, <1>5 DEF WordInsert

\* _com_delete_paragraph keeps the indices right: those behind it move down,
\* and its own is marked.
LEMMA WordDeleteKeeps ==
  ASSUME IInv, NEW at, WordDelete(at), UNCHANGED <<prompts, blanks, cached>>
  PROVE  /\ word' \in Seq(Para) /\ Len(word') > 0 /\ indices' \in Seq(Nat)
         /\ IndicesTrack'
<1>1. Kept' = Kept  BY DEF Kept
<1>2. CASE Index(at) = 0
  <2>1. UNCHANGED <<word, indices>>  BY <1>2 DEF WordDelete
  <2> QED BY <1>1, <2>1, Tracked, Retracked
<1>3. CASE Index(at) # 0
  <2> DEFINE p == Index(at)
             a == at + 1
  <2>1. /\ a \in 1..Len(indices) /\ p = indices[a]
        /\ p \in 1..Len(word) /\ p \in Nat /\ p > 0
    BY <1>3, IndexPlace
  <2> HIDE DEF p, a
  <2>2. CASE p = Len(word)
    <3>1. /\ word' = [word EXCEPT ![Len(word)].text = <<>>]
          /\ indices' = [indices EXCEPT ![a] = 0]
      BY <1>3, <2>2 DEF WordDelete, Blank, p, a
    <3>2. <<>> \in Seq(0..MaxEdits)  BY EmptySeq
    <3>3. /\ word' \in Seq(Para) /\ Len(word') = Len(word)
          /\ \A j \in 1..Len(word) : word'[j].id = word[j].id
      <4>1. word' = [word EXCEPT ![p].text = <<>>]  BY <2>2, <3>1
      <4>2. word \in Seq(Para)  BY Tracked
      <4>3. ASSUME NEW t \in Seq(0..MaxEdits)
            PROVE  /\ [word EXCEPT ![p].text = t] \in Seq(Para)
                   /\ Len([word EXCEPT ![p].text = t]) = Len(word)
                   /\ \A j \in 1..Len(word) :
                        [word EXCEPT ![p].text = t][j].id = word[j].id
        BY <2>1, <4>2, Retexted
      <4> QED BY <3>2, <4>1, <4>3
    <3>4. /\ indices' \in Seq(Nat) /\ Len(indices') = Len(indices)
          /\ \A j \in 1..Len(indices) :
               indices'[j] = IF j = a THEN 0 ELSE indices[j]
      BY <2>1, <3>1, Tracked, ExceptSeq
    <3> QED BY <1>1, <3>3, <3>4, Tracked, Retracked
  <2>3. CASE p # Len(word)
    <3>1. /\ word' = RemoveAt(word, p)
          /\ indices' = [Shifted(p, -1) EXCEPT ![a] = 0]
      BY <1>3, <2>3 DEF WordDelete, p, a
    <3>2. /\ word' \in Seq(Para) /\ Len(word') = Len(word) - 1
          /\ \A j \in 1..Len(word) : j < p => word'[j] = word[j]
          /\ \A j \in 1..Len(word) : j > p => word'[j - 1] = word[j]
      BY <2>1, <3>1, Tracked, Removed
    <3>3. /\ Shifted(p, -1) \in Seq(Nat)
          /\ Len(Shifted(p, -1)) = Len(indices)
          /\ \A i \in 1..Len(indices) :
               Shifted(p, -1)[i] = IF indices[i] > p THEN indices[i] + (-1)
                                                     ELSE indices[i]
      BY <2>1, Tracked, ShiftedType
    <3>4. /\ indices' \in Seq(Nat) /\ Len(indices') = Len(indices)
          /\ \A i \in 1..Len(indices) :
               indices'[i] = IF i = a THEN 0 ELSE Shifted(p, -1)[i]
      BY <2>1, <3>1, <3>3, ExceptSeq
    <3>5. Len(word') > 0 /\ Len(word') \in Nat  BY <2>1, <2>3, <3>2, Tracked
    <3>6. ASSUME NEW i \in 1..Len(indices), i # a
          PROVE  indices[i] = 0 \/ indices[i] # p
      BY <2>1, <3>6, Tracked
    <3>7. ASSUME NEW i \in 1..Len(indices), indices'[i] # 0
          PROVE  /\ indices'[i] \in 1..Len(word')
                 /\ word'[indices'[i]].id = Kept[i]
      <4>0. indices[i] \in Nat /\ i # a  BY <3>4, <3>7, Tracked
      <4>1. CASE indices[i] > p
        <5>1. indices'[i] = indices[i] - 1 /\ indices[i] # 0
          <6>1. indices'[i] = Shifted(p, -1)[i]  BY <3>4, <4>0
          <6>2. Shifted(p, -1)[i] = indices[i] + (-1)  BY <3>3, <4>1
          <6> QED BY <2>1, <4>0, <4>1, <6>1, <6>2
        <5>2. indices[i] \in 1..Len(word) /\ word[indices[i]].id = Kept[i]
          BY <5>1, Tracked
        <5>3. word'[indices[i] - 1] = word[indices[i]]  BY <3>2, <4>1, <5>2
        <5>4. indices[i] - 1 \in 1..Len(word')
          BY <2>1, <3>2, <4>0, <4>1, <5>2, Tracked
        <5> QED BY <5>1, <5>2, <5>3, <5>4
      <4>2. CASE ~(indices[i] > p)
        <5>1. indices'[i] = indices[i]  BY <3>3, <3>4, <4>0, <4>2
        <5>2. indices[i] \in 1..Len(word) /\ word[indices[i]].id = Kept[i]
          BY <3>7, <5>1, Tracked
        <5>3. indices[i] < p  BY <2>1, <3>6, <3>7, <4>0, <4>2, <5>1
        <5>4. word'[indices[i]] = word[indices[i]]  BY <3>2, <5>2, <5>3
        <5>5. indices[i] \in 1..Len(word')
          BY <2>1, <3>2, <5>2, <5>3, Tracked
        <5> QED BY <5>1, <5>2, <5>4, <5>5
      <4> QED BY <4>1, <4>2
    <3>8. ASSUME NEW i \in 1..Len(indices), NEW j \in 1..Len(indices),
                 indices'[i] = indices'[j]
          PROVE  i = j \/ indices'[i] = 0
      <4>1. SUFFICES ASSUME indices'[i] # 0  PROVE i = j
        OBVIOUS
      <4>2. i # a /\ j # a  BY <3>4, <3>8, <4>1
      <4>3. indices[i] \in Nat /\ indices[j] \in Nat  BY Tracked
      <4>4. /\ indices'[i] = IF indices[i] > p THEN indices[i] + (-1)
                                               ELSE indices[i]
            /\ indices'[j] = IF indices[j] > p THEN indices[j] + (-1)
                                               ELSE indices[j]
        BY <3>3, <3>4, <4>2
      <4>5. indices[i] # p /\ indices[j] # p
        BY <2>1, <3>6, <3>8, <4>1, <4>2, <4>3, <4>4
      <4>6. indices[i] = indices[j]
        <5>1. \A x, y, q \in Nat :
                /\ x # q /\ y # q
                /\ (IF x > q THEN x + (-1) ELSE x)
                     = (IF y > q THEN y + (-1) ELSE y)
                => x = y
          OBVIOUS
        <5> QED BY <2>1, <3>8, <4>3, <4>4, <4>5, <5>1
      <4>7. indices[i] # 0  BY <2>1, <4>1, <4>3, <4>4
      <4> QED BY <4>6, <4>7, Tracked
    <3> QED BY <1>1, <3>2, <3>4, <3>5, <3>7, <3>8, Tracked, Retracked
  <2> QED BY <2>2, <2>3
<1> QED BY <1>2, <1>3

-----------------------------------------------------------------------------
(* The invariant *)

\* At the beginning the indices are the positions.
LEMMA InitInv == Init => IInv
<1> SUFFICES ASSUME Init PROVE IInv  OBVIOUS
<1> USE DEF Init
<1>1. /\ cached \in Seq(Originals) /\ Len(cached) \in Nat
      /\ DOMAIN cached = 1..Len(cached)
      /\ { cached[i] : i \in DOMAIN cached } = Originals \ prompts
  <2>1. /\ cached \in UNION { [1..n -> Originals] : n \in 0..NParas }
        /\ { cached[i] : i \in DOMAIN cached } = Originals \ prompts
    BY DEF Remaining
  <2>2. cached \in Seq(Originals)
    <3>1. PICK n \in 0..NParas : cached \in [1..n -> Originals]  BY <2>1
    <3>2. n \in Nat  BY Bounds
    <3> QED BY <3>1, <3>2, SeqDef
  <2> QED BY <2>1, <2>2, LenProperties
<1>2. NParas - 1 \in Originals /\ Originals \subseteq Nat
  BY Bounds DEF Originals
<1>3. \A i \in 1..Len(cached) : cached[i] \in Originals
  BY <1>1, ElementOfSeq
<1>4. \A i \in Originals : Original(i) \in Para /\ Original(i).id = i
  <2> TAKE i \in Originals
  <2>1. 0 \in 0..MaxEdits  BY Bounds
  <2>2. <<0>> \in Seq(0..MaxEdits) /\ <<>> \in Seq(0..MaxEdits)
    BY <2>1, EmptySeq
  <2> QED BY <1>2, <2>2 DEF Original, Para
<1>5. /\ file \in Seq(Para) /\ Len(file) = Len(cached)
      /\ \A i \in 1..Len(cached) : file[i].id = cached[i]
  <2>1. file \in [1..Len(cached) -> Para]  BY <1>1, <1>3, <1>4
  <2>2. file \in Seq(Para)  BY <1>1, <2>1, SeqDef
  <2>3. DOMAIN file = 1..Len(cached)  BY <2>1
  <2>4. Len(file) = Len(cached)  BY <1>1, <2>2, <2>3, LenProperties
  <2> QED BY <1>1, <1>3, <1>4, <2>2, <2>4
<1>6. /\ word \in Seq(Para) /\ Len(word) = Len(Kept) /\ Len(word) > 0
      /\ \A i \in 1..Len(word) : word[i].id = Kept[i]
  <2>1. CASE NParas - 1 \in prompts
    <3> DEFINE last == [id |-> NParas - 1, text |-> <<>>]
    <3>1. last \in Para
      <4>1. <<>> \in Seq(0..MaxEdits)  BY EmptySeq
      <4> QED BY <1>2, <4>1 DEF Para
    <3>2. word = Append(file, last) /\ Kept = Append(cached, NParas - 1)
      BY <2>1 DEF Kept
    <3>3. last.id = NParas - 1  OBVIOUS
    <3> HIDE DEF last
    <3>4. /\ word \in Seq(Para) /\ Len(word) = Len(file) + 1
          /\ \A i \in 1..Len(file) : word[i] = file[i]
          /\ word[Len(file) + 1] = last
      BY <1>5, <3>1, <3>2, AppendProperties
    <3>5. /\ Len(Kept) = Len(cached) + 1
          /\ \A i \in 1..Len(cached) : Kept[i] = cached[i]
          /\ Kept[Len(cached) + 1] = NParas - 1
      BY <1>1, <1>2, <3>2, AppendProperties
    <3>6. ASSUME NEW i \in 1..Len(word)  PROVE word[i].id = Kept[i]
      <4>1. i \in 1..Len(cached) \/ i = Len(cached) + 1
        BY <1>1, <1>5, <3>4
      <4>2. CASE i \in 1..Len(cached)  BY <1>5, <3>4, <3>5, <4>2
      <4>3. CASE i = Len(cached) + 1  BY <1>5, <3>3, <3>4, <3>5, <4>3
      <4> QED BY <4>1, <4>2, <4>3
    <3> QED BY <1>1, <1>5, <3>4, <3>5, <3>6
  <2>2. CASE NParas - 1 \notin prompts
    <3>1. word = file /\ Kept = cached  BY <2>2 DEF Kept
    <3>2. NParas - 1 \in { cached[i] : i \in DOMAIN cached }
      BY <1>1, <1>2, <2>2
    <3>3. Len(cached) > 0  BY <1>1, <3>2
    <3> QED BY <1>5, <3>1, <3>3
  <2> QED BY <2>1, <2>2
<1>7. Len(word) \in Nat /\ DOMAIN word = 1..Len(word)
  BY <1>6, LenProperties
<1>8. /\ indices \in Seq(Nat) /\ Len(indices) = Len(word)
      /\ DOMAIN indices = 1..Len(word)
      /\ \A i \in 1..Len(word) : indices[i] = i
  <2>1. indices \in [1..Len(word) -> Nat]  BY <1>7
  <2>2. indices \in Seq(Nat)
    <3> HIDE DEF Init
    <3> QED BY <1>7, <2>1, SeqDef
  <2>3. DOMAIN indices = 1..Len(word)  BY <2>1
  <2>4. Len(indices) = Len(word)  BY <1>7, <2>2, <2>3, LenProperties
  <2> QED BY <1>7, <2>2, <2>3, <2>4
<1>9. IndicesTrack  BY <1>6, <1>7, <1>8 DEF IndicesTrack
<1>10. plan \in Seq(Edits) /\ Len(plan) \in 0..MaxEdits  BY Bounds, EmptySeq
<1>11. prompts \subseteq Originals /\ blanks \subseteq Originals \ prompts
  OBVIOUS
<1> QED BY <1>1, <1>5, <1>6, <1>8, <1>9, <1>10, <1>11
        DEF IInv, TypeOK, Para

\* One step per kind of edit; Word's document and its indices by the lemmas
\* above, the file by its own.
LEMMA Inductive == IInv /\ [Next]_vars => IInv'
<1> SUFFICES ASSUME IInv, [Next]_vars PROVE IInv'  OBVIOUS
<1>1. CASE UNCHANGED vars
  BY <1>1 DEF vars, IInv, TypeOK, IndicesTrack, Kept
<1>2. ASSUME NEW e \in Edits, Apply(e)  PROVE IInv'
  <2> DEFINE k == Len(plan) + 1
  <2>1. plan \in Seq(Edits) /\ Len(plan) \in Nat /\ k \in 1..MaxEdits
    BY <1>2, Bounds DEF IInv, TypeOK, Apply
  <2>2. e.at \in (-1)..(NParas - 1)
    BY Bounds DEF Edits, Originals
  <2>3. plan' \in Seq(Edits) /\ Len(plan') \in 0..MaxEdits
    <3>1. plan' = Append(plan, e)  BY <1>2 DEF Apply
    <3>2. plan' \in Seq(Edits) /\ Len(plan') = k
      BY <2>1, <3>1, AppendProperties
    <3> QED BY <2>1, <3>2, Bounds
  <2>4. UNCHANGED <<prompts, blanks, cached>>  BY <1>2 DEF Apply
  <2> HIDE DEF k
  <2>5. CASE Insert(e.at, k)
    <3>1. file' \in Seq(Para)
      BY <2>1, <2>2, <2>5, FileType DEF Insert, IInv
    <3>2. /\ word' \in Seq(Para) /\ Len(word') > 0 /\ indices' \in Seq(Nat)
          /\ IndicesTrack'
      BY <2>1, <2>4, <2>5, WordInsertKeeps DEF Insert
    <3> QED BY <2>3, <2>4, <3>1, <3>2 DEF IInv, TypeOK, Para
  <2>6. CASE Replace(e.at, k)
    <3>1. file' \in Seq(Para)
      BY <2>1, <2>2, <2>6, FileType DEF Replace, IInv
    <3>2. <<k>> \in Seq(0..MaxEdits)  BY <2>1, WrittenType
    <3>3. CASE Index(e.at) # 0
      <4>1. Index(e.at) \in 1..Len(word)  BY <3>3, IndexPlace
      <4>2. word' = [word EXCEPT ![Index(e.at)].text = <<k>>]
        BY <2>6, <3>3 DEF Replace, WordReplace
      <4>3. UNCHANGED indices  BY <2>6 DEF Replace
      <4>4. /\ word' \in Seq(Para) /\ Len(word') > 0 /\ indices' \in Seq(Nat)
            /\ IndicesTrack'
        BY <2>4, <3>2, <4>1, <4>2, <4>3, WordRetexted
      <4> QED BY <2>3, <2>4, <3>1, <4>4 DEF IInv, TypeOK, Para
    <3>4. CASE Index(e.at) = 0
      <4>1. UNCHANGED <<word, indices>>
        BY <2>6, <3>4 DEF Replace, WordReplace
      <4> QED BY <2>3, <2>4, <3>1, <4>1
              DEF IInv, TypeOK, Para, IndicesTrack, Kept
    <3> QED BY <3>3, <3>4
  <2>7. CASE AppendRun(e.at, k)
    <3>1. file' \in Seq(Para)
      BY <2>1, <2>2, <2>7, FileType DEF AppendRun, IInv
    <3>2. CASE Index(e.at) # 0
      <4> DEFINE t == Append(word[Index(e.at)].text, k)
      <4>1. Index(e.at) \in 1..Len(word)  BY <3>2, IndexPlace
      <4>2. t \in Seq(0..MaxEdits)  BY <2>1, <4>1, Tracked, TextAppended
      <4>3. word' = [word EXCEPT ![Index(e.at)].text = t]
        BY <2>7, <3>2 DEF AppendRun, WordAppendRun
      <4>4. UNCHANGED indices  BY <2>7 DEF AppendRun
      <4> HIDE DEF t
      <4>5. /\ word' \in Seq(Para) /\ Len(word') > 0 /\ indices' \in Seq(Nat)
            /\ IndicesTrack'
        BY <2>4, <4>1, <4>2, <4>3, <4>4, WordRetexted
      <4> QED BY <2>3, <2>4, <3>1, <4>5 DEF IInv, TypeOK, Para
    <3>3. CASE Index(e.at) = 0
      <4>1. UNCHANGED <<word, indices>>
        BY <2>7, <3>3 DEF AppendRun, WordAppendRun
      <4> QED BY <2>3, <2>4, <3>1, <4>1
              DEF IInv, TypeOK, Para, IndicesTrack, Kept
    <3> QED BY <3>2, <3>3
  <2>8. CASE Delete(e.at)
    <3>1. file' \in Seq(Para)
      BY <2>1, <2>2, <2>8, FileType DEF Delete, IInv
    <3>2. /\ word' \in Seq(Para) /\ Len(word') > 0 /\ indices' \in Seq(Nat)
          /\ IndicesTrack'
      BY <2>4, <2>8, WordDeleteKeeps DEF Delete
    <3> QED BY <2>3, <2>4, <3>1, <3>2 DEF IInv, TypeOK, Para
  <2> QED BY <1>2, <2>5, <2>6, <2>7, <2>8 DEF Apply, k
<1> QED BY <1>1, <1>2 DEF Next

-----------------------------------------------------------------------------
(* The types, and where the indices lead *)

\* Documents stay sequences of paragraphs, indices natural numbers, and a plan
\* within its bound.
THEOREM TypeCorrect == Spec => []TypeOK
<1>1. IInv => TypeOK  BY DEF IInv
<1> QED BY <1>1, InitInv, Inductive, PTL DEF Spec

\* However many insertions and deletions went before, current_indices leads to
\* the paragraph that had the index when the edits began.
THEOREM IndicesTrackTheirParagraphs == Spec => []IndicesTrack
<1>1. IInv => IndicesTrack  BY DEF IInv
<1> QED BY <1>1, InitInv, Inductive, PTL DEF Spec

-----------------------------------------------------------------------------
(* What an operation makes of a document *)

\* A document with one paragraph more, less, or with another text.
Grown(new, doc, i, e) ==
  /\ new \in Seq(Para) /\ Len(new) = Len(doc) + 1
  /\ \A j \in 1..(Len(doc) + 1) :
       new[j] = IF j < i THEN doc[j] ELSE IF j = i THEN e ELSE doc[j - 1]
Shrunk(new, doc, i) ==
  /\ new \in Seq(Para) /\ Len(new) = Len(doc) - 1
  /\ \A j \in 1..(Len(doc) - 1) :
       new[j] = IF j < i THEN doc[j] ELSE doc[j + 1]
Rewritten(new, doc, p, t) ==
  /\ new \in Seq(Para) /\ Len(new) = Len(doc)
  /\ \A j \in 1..Len(doc) :
       /\ new[j].id = doc[j].id
       /\ new[j].text = IF j = p THEN t ELSE doc[j].text
       /\ j # p => new[j] = doc[j]

\* The paragraphs of a document with one more, by their positions.
LEMMA InsertedAt ==
  ASSUME NEW S, NEW s \in Seq(S), NEW i \in 1..(Len(s) + 1), NEW e \in S
  PROVE  /\ InsertAt(s, i, e) \in Seq(S) /\ Len(InsertAt(s, i, e)) = Len(s) + 1
         /\ \A j \in 1..(Len(s) + 1) :
              InsertAt(s, i, e)[j] = IF j < i THEN s[j]
                                     ELSE IF j = i THEN e ELSE s[j - 1]
<1>1. Len(s) \in Nat  BY LenProperties
<1> DEFINE t == InsertAt(s, i, e)
<1>2. /\ t \in Seq(S) /\ Len(t) = Len(s) + 1 /\ t[i] = e
      /\ \A j \in 1..Len(s) : j < i => t[j] = s[j]
      /\ \A j \in 1..Len(s) : j >= i => t[j + 1] = s[j]
  BY Inserted
<1> HIDE DEF t
<1>3. ASSUME NEW j \in 1..(Len(s) + 1)
      PROVE  t[j] = IF j < i THEN s[j] ELSE IF j = i THEN e ELSE s[j - 1]
  <2>1. CASE j < i
    <3>1. j \in 1..Len(s)  BY <1>1, <2>1
    <3> QED BY <1>2, <2>1, <3>1
  <2>2. CASE j = i  BY <1>2, <2>2
  <2>3. CASE j > i
    <3>1. j - 1 \in 1..Len(s) /\ j - 1 >= i /\ (j - 1) + 1 = j
      BY <1>1, <2>3
    <3>2. t[(j - 1) + 1] = s[j - 1]  BY <1>2, <3>1
    <3> QED BY <2>3, <3>1, <3>2
  <2> QED BY <1>1, <2>1, <2>2, <2>3
<1> QED BY <1>2, <1>3 DEF t

\* And of one with a paragraph less.
LEMMA RemovedAt ==
  ASSUME NEW S, NEW s \in Seq(S), NEW i \in 1..Len(s)
  PROVE  /\ RemoveAt(s, i) \in Seq(S) /\ Len(RemoveAt(s, i)) = Len(s) - 1
         /\ \A j \in 1..(Len(s) - 1) :
              RemoveAt(s, i)[j] = IF j < i THEN s[j] ELSE s[j + 1]
<1>1. Len(s) \in Nat  BY LenProperties
<1> DEFINE t == RemoveAt(s, i)
<1>2. /\ t \in Seq(S) /\ Len(t) = Len(s) - 1
      /\ \A j \in 1..Len(s) : j < i => t[j] = s[j]
      /\ \A j \in 1..Len(s) : j > i => t[j - 1] = s[j]
  BY Removed
<1> HIDE DEF t
<1>3. ASSUME NEW j \in 1..(Len(s) - 1)
      PROVE  t[j] = IF j < i THEN s[j] ELSE s[j + 1]
  <2>1. CASE j < i
    <3>1. j \in 1..Len(s)  BY <1>1
    <3> QED BY <1>2, <2>1, <3>1
  <2>2. CASE ~(j < i)
    <3>1. j + 1 \in 1..Len(s) /\ j + 1 > i /\ (j + 1) - 1 = j  BY <1>1, <2>2
    <3>2. t[(j + 1) - 1] = s[j + 1]  BY <1>2, <3>1
    <3> QED BY <2>2, <3>1, <3>2
  <2> QED BY <2>1, <2>2
<1> QED BY <1>2, <1>3 DEF t

\* And of one with a paragraph more at its end.
LEMMA AppendedAt ==
  ASSUME NEW S, NEW s \in Seq(S), NEW e \in S
  PROVE  /\ Append(s, e) \in Seq(S) /\ Len(Append(s, e)) = Len(s) + 1
         /\ \A j \in 1..(Len(s) + 1) :
              Append(s, e)[j] = IF j = Len(s) + 1 THEN e ELSE s[j]
<1>1. Len(s) \in Nat  BY LenProperties
<1>2. /\ Append(s, e) \in Seq(S) /\ Len(Append(s, e)) = Len(s) + 1
      /\ \A j \in 1..Len(s) : Append(s, e)[j] = s[j]
      /\ Append(s, e)[Len(s) + 1] = e
  BY AppendProperties
<1>3. ASSUME NEW j \in 1..(Len(s) + 1), j # Len(s) + 1  PROVE j \in 1..Len(s)
  BY <1>1, <1>3
<1> QED BY <1>2, <1>3

\* An EXCEPT gives a paragraph another text,
LEMMA ExceptRewrites ==
  ASSUME NEW doc \in Seq(Para), NEW p \in 1..Len(doc),
         NEW t \in Seq(0..MaxEdits)
  PROVE  Rewritten([doc EXCEPT ![p].text = t], doc, p, t)
<1> DEFINE e == [doc[p] EXCEPT !.text = t]
<1>1. doc[p] \in Para  BY ElementOfSeq
<1>2. e \in Para /\ e.id = doc[p].id /\ e.text = t  BY <1>1 DEF Para
<1>3. [doc EXCEPT ![p].text = t] = [doc EXCEPT ![p] = e]  OBVIOUS
<1> HIDE DEF e
<1>4. /\ [doc EXCEPT ![p] = e] \in Seq(Para)
      /\ Len([doc EXCEPT ![p] = e]) = Len(doc)
      /\ \A j \in 1..Len(doc) :
           [doc EXCEPT ![p] = e][j] = IF j = p THEN e ELSE doc[j]
  BY <1>2, ExceptSeq
<1> QED BY <1>2, <1>3, <1>4 DEF Rewritten

\* InsertAt puts one at a place,
LEMMA InsertAtGrows ==
  ASSUME NEW doc \in Seq(Para), NEW i \in 1..(Len(doc) + 1), NEW e \in Para
  PROVE  Grown(InsertAt(doc, i, e), doc, i, e)
BY InsertedAt DEF Grown

\* Append at the end,
LEMMA AppendGrows ==
  ASSUME NEW doc \in Seq(Para), NEW e \in Para
  PROVE  Grown(Append(doc, e), doc, Len(doc) + 1, e)
<1>1. Len(doc) \in Nat  BY LenProperties
<1>2. /\ Append(doc, e) \in Seq(Para) /\ Len(Append(doc, e)) = Len(doc) + 1
      /\ \A j \in 1..(Len(doc) + 1) :
           Append(doc, e)[j] = IF j = Len(doc) + 1 THEN e ELSE doc[j]
  BY AppendedAt
<1> QED BY <1>1, <1>2 DEF Grown

\* and RemoveAt takes one away.
LEMMA RemoveAtShrinks ==
  ASSUME NEW doc \in Seq(Para), NEW i \in 1..Len(doc)
  PROVE  Shrunk(RemoveAt(doc, i), doc, i)
BY RemovedAt DEF Shrunk

\* Where the paragraphs of a document are in the one with one more,
LEMMA GrownPlaces ==
  ASSUME NEW doc \in Seq(Para), NEW i \in 1..(Len(doc) + 1), NEW e \in Para,
         NEW new, Grown(new, doc, i, e)
  PROVE  /\ new \in Seq(Para) /\ Len(new) = Len(doc) + 1 /\ Len(doc) \in Nat
         /\ i \in 1..Len(new) /\ new[i] = e
         /\ \A j \in 1..Len(doc) :
              /\ j < i => j \in 1..Len(new) /\ new[j] = doc[j]
              /\ j >= i => j + 1 \in 1..Len(new) /\ new[j + 1] = doc[j]
         /\ \A j \in 1..Len(new) :
              /\ j < i => j \in 1..Len(doc) /\ new[j] = doc[j]
              /\ j > i => j - 1 \in 1..Len(doc) /\ new[j] = doc[j - 1]
<1>1. Len(doc) \in Nat  BY LenProperties
<1>2. /\ new \in Seq(Para) /\ Len(new) = Len(doc) + 1
      /\ \A j \in 1..(Len(doc) + 1) :
           new[j] = IF j < i THEN doc[j] ELSE IF j = i THEN e ELSE doc[j - 1]
  BY DEF Grown
<1>3. i \in 1..Len(new) /\ new[i] = e  BY <1>1, <1>2
<1>4. ASSUME NEW j \in 1..Len(doc)
      PROVE  /\ j < i => j \in 1..Len(new) /\ new[j] = doc[j]
             /\ j >= i => j + 1 \in 1..Len(new) /\ new[j + 1] = doc[j]
  <2>1. CASE j < i  BY <1>1, <1>2, <2>1
  <2>2. CASE j >= i
    <3>1. /\ j + 1 \in 1..(Len(doc) + 1) /\ ~(j + 1 < i) /\ j + 1 # i
          /\ (j + 1) - 1 = j
      BY <1>1, <2>2
    <3>2. new[j + 1] = doc[(j + 1) - 1]  BY <1>2, <3>1
    <3> QED BY <1>1, <1>2, <2>2, <3>1, <3>2
  <2> QED BY <1>1, <2>1, <2>2
<1>5. ASSUME NEW j \in 1..Len(new)
      PROVE  /\ j < i => j \in 1..Len(doc) /\ new[j] = doc[j]
             /\ j > i => j - 1 \in 1..Len(doc) /\ new[j] = doc[j - 1]
  BY <1>1, <1>2
<1> QED BY <1>1, <1>2, <1>3, <1>4, <1>5

\* and in the one with one less.
LEMMA ShrunkPlaces ==
  ASSUME NEW doc \in Seq(Para), NEW i \in 1..Len(doc),
         NEW new, Shrunk(new, doc, i)
  PROVE  /\ new \in Seq(Para) /\ Len(new) = Len(doc) - 1 /\ Len(doc) \in Nat
         /\ Len(new) \in Nat
         /\ \A j \in 1..Len(doc) :
              /\ j < i => j \in 1..Len(new) /\ new[j] = doc[j]
              /\ j > i => j - 1 \in 1..Len(new) /\ new[j - 1] = doc[j]
         /\ \A j \in 1..Len(new) :
              /\ j < i => j \in 1..Len(doc) /\ new[j] = doc[j]
              /\ j >= i => j + 1 \in 1..Len(doc) /\ new[j] = doc[j + 1]
<1>1. Len(doc) \in Nat  BY LenProperties
<1>2. /\ new \in Seq(Para) /\ Len(new) = Len(doc) - 1
      /\ \A j \in 1..(Len(doc) - 1) :
           new[j] = IF j < i THEN doc[j] ELSE doc[j + 1]
  BY DEF Shrunk
<1>3. Len(new) \in Nat  BY <1>1, <1>2
<1>4. ASSUME NEW j \in 1..Len(doc)
      PROVE  /\ j < i => j \in 1..Len(new) /\ new[j] = doc[j]
             /\ j > i => j - 1 \in 1..Len(new) /\ new[j - 1] = doc[j]
  <2>1. CASE j < i  BY <1>1, <1>2, <2>1
  <2>2. CASE j > i
    <3>1. /\ j - 1 \in 1..(Len(doc) - 1) /\ ~(j - 1 < i) /\ (j - 1) + 1 = j
      BY <1>1, <2>2
    <3>2. new[j - 1] = doc[(j - 1) + 1]  BY <1>2, <3>1
    <3> QED BY <1>1, <1>2, <2>2, <3>1, <3>2
  <2>3. CASE j = i  BY <1>1, <2>3
  <2> QED BY <1>1, <2>1, <2>2, <2>3
<1>5. ASSUME NEW j \in 1..Len(new)
      PROVE  /\ j < i => j \in 1..Len(doc) /\ new[j] = doc[j]
             /\ j >= i => j + 1 \in 1..Len(doc) /\ new[j] = doc[j + 1]
  BY <1>1, <1>2
<1> QED BY <1>1, <1>2, <1>3, <1>4, <1>5

\* No two paragraphs of a document have an identity in common.
Distinct(doc) ==
  \A p, q \in 1..Len(doc) : doc[p].id = doc[q].id => p = q

\* A paragraph with a new identity keeps them distinct,
LEMMA GrownDistinct ==
  ASSUME NEW doc \in Seq(Para), NEW i \in 1..(Len(doc) + 1), NEW e \in Para,
         NEW new, Grown(new, doc, i, e), Distinct(doc),
         \A j \in 1..Len(doc) : doc[j].id # e.id
  PROVE  Distinct(new)
<1>1. ASSUME NEW p \in 1..Len(new), NEW q \in 1..Len(new),
             new[p].id = new[q].id, p < q
      PROVE  FALSE
  <2>1. Len(doc) \in Nat /\ Len(new) = Len(doc) + 1  BY GrownPlaces
  <2>2. CASE p < i
    <3>1. p \in 1..Len(doc) /\ new[p] = doc[p]  BY <2>2, GrownPlaces
    <3>2. CASE q < i
      <4>1. q \in 1..Len(doc) /\ new[q] = doc[q]  BY <3>2, GrownPlaces
      <4> QED BY <1>1, <3>1, <4>1 DEF Distinct
    <3>3. CASE q = i
      <4>1. new[q] = e  BY <3>3, GrownPlaces
      <4> QED BY <1>1, <3>1, <4>1
    <3>4. CASE q > i
      <4>1. q - 1 \in 1..Len(doc) /\ new[q] = doc[q - 1]  BY <3>4, GrownPlaces
      <4>2. p = q - 1  BY <1>1, <3>1, <4>1 DEF Distinct
      <4> QED BY <2>1, <2>2, <3>4, <4>2
    <3> QED BY <2>1, <3>2, <3>3, <3>4
  <2>3. CASE p = i
    <3>1. new[p] = e  BY <2>3, GrownPlaces
    <3>2. q - 1 \in 1..Len(doc) /\ new[q] = doc[q - 1]
      BY <1>1, <2>3, GrownPlaces
    <3> QED BY <1>1, <3>1, <3>2
  <2>4. CASE p > i
    <3>1. p - 1 \in 1..Len(doc) /\ new[p] = doc[p - 1]  BY <2>4, GrownPlaces
    <3>2. q - 1 \in 1..Len(doc) /\ new[q] = doc[q - 1]
      <4>1. q > i  BY <1>1, <2>1, <2>4
      <4> QED BY <4>1, GrownPlaces
    <3>3. p - 1 = q - 1  BY <1>1, <3>1, <3>2 DEF Distinct
    <3> QED BY <1>1, <2>1, <3>3
  <2> QED BY <2>1, <2>2, <2>3, <2>4
<1>2. Len(new) \in Nat  BY GrownPlaces
<1>3. ASSUME NEW p \in 1..Len(new), NEW q \in 1..Len(new),
             new[p].id = new[q].id
      PROVE  p = q
  <2>1. ~(p < q)  BY <1>1, <1>3
  <2>2. ~(q < p)  BY <1>1, <1>3
  <2> QED BY <1>2, <2>1, <2>2
<1> QED BY <1>3 DEF Distinct

\* and so does one less.
LEMMA ShrunkDistinct ==
  ASSUME NEW doc \in Seq(Para), NEW i \in 1..Len(doc),
         NEW new, Shrunk(new, doc, i), Distinct(doc)
  PROVE  Distinct(new)
<1>1. ASSUME NEW p \in 1..Len(new), NEW q \in 1..Len(new),
             new[p].id = new[q].id, p < q
      PROVE  FALSE
  <2>1. Len(doc) \in Nat /\ Len(new) = Len(doc) - 1  BY ShrunkPlaces
  <2>2. CASE p < i
    <3>1. p \in 1..Len(doc) /\ new[p] = doc[p]  BY <2>2, ShrunkPlaces
    <3>2. CASE q < i
      <4>1. q \in 1..Len(doc) /\ new[q] = doc[q]  BY <3>2, ShrunkPlaces
      <4> QED BY <1>1, <3>1, <4>1 DEF Distinct
    <3>3. CASE q >= i
      <4>1. q + 1 \in 1..Len(doc) /\ new[q] = doc[q + 1]
        BY <3>3, ShrunkPlaces
      <4>2. p = q + 1  BY <1>1, <3>1, <4>1 DEF Distinct
      <4> QED BY <1>1, <2>1, <4>2
    <3> QED BY <2>1, <3>2, <3>3
  <2>3. CASE p >= i
    <3>1. p + 1 \in 1..Len(doc) /\ new[p] = doc[p + 1]  BY <2>3, ShrunkPlaces
    <3>2. q + 1 \in 1..Len(doc) /\ new[q] = doc[q + 1]
      <4>1. q >= i  BY <1>1, <2>1, <2>3
      <4> QED BY <4>1, ShrunkPlaces
    <3>3. p + 1 = q + 1  BY <1>1, <3>1, <3>2 DEF Distinct
    <3> QED BY <1>1, <2>1, <3>3
  <2> QED BY <2>1, <2>2, <2>3
<1>2. Len(new) \in Nat  BY ShrunkPlaces
<1>3. ASSUME NEW p \in 1..Len(new), NEW q \in 1..Len(new),
             new[p].id = new[q].id
      PROVE  p = q
  <2>1. ~(p < q)  BY <1>1, <1>3
  <2>2. ~(q < p)  BY <1>1, <1>3
  <2> QED BY <1>2, <2>1, <2>2
<1> QED BY <1>3 DEF Distinct

-----------------------------------------------------------------------------
(* The two documents side by side *)

\* No two paragraphs of the file have an identity in common, and the next one
\* written will have a new one.
FileIds ==
  /\ Distinct(file)
  /\ \A p \in 1..Len(file) : file[p].id <= NParas + Len(plan)

\* An index leads to the cached paragraph in both or in neither, and to the
\* same place.
IndexedAlike ==
  \A i \in 1..Len(cached) :
    IF indices[i] = 0 THEN ~Present(file, cached[i])
    ELSE indices[i] \in 1..Len(file) /\ file[indices[i]].id = cached[i]

\* The texts of the file are Word's, but for a blank paragraph that ends Word's
\* document where the last original is gone from the file.
SideBySide ==
  /\ \/ Len(word) = Len(file) /\ word[Len(word)].text # <<>>
     \/ /\ Len(word) = Len(file) + 1 /\ word[Len(word)].text = <<>>
        /\ \A p \in 1..Len(file) : file[p].id # NParas - 1
  /\ \A p \in 1..Len(file) : word[p].text = file[p].text

\* Word's document ends with the last original or with what was written.
WordEnds == word[Len(word)].id >= NParas - 1

\* The inductive invariant for PathsAgree.
AgreeInv ==
  /\ IInv
  /\ cached \in Remaining
  /\ FileIds
  /\ NParas - 1 \notin prompts => IndexedAlike /\ WordEnds
  /\ NParas - 1 \notin prompts \cup blanks => SideBySide

\* The cached paragraphs are originals, in their order.
LEMMA CachedOrder ==
  ASSUME cached \in Remaining
  PROVE  /\ cached \in Seq(Originals) /\ Len(cached) \in Nat
         /\ Len(cached) <= NParas /\ DOMAIN cached = 1..Len(cached)
         /\ \A i \in 1..Len(cached) : cached[i] \in Originals
         /\ \A i, j \in 1..Len(cached) : i < j => cached[i] < cached[j]
         /\ \A i, j \in 1..Len(cached) : cached[i] = cached[j] => i = j
         /\ \A x \in Originals :
              x \notin prompts => \E i \in 1..Len(cached) : cached[i] = x
<1>1. PICK n \in 0..NParas : cached \in [1..n -> Originals]
  BY DEF Remaining
<1>2. /\ \A i, j \in DOMAIN cached : i < j => cached[i] < cached[j]
      /\ { cached[i] : i \in DOMAIN cached } = Originals \ prompts
  BY DEF Remaining
<1>3. n \in Nat /\ n <= NParas  BY Bounds
<1>4. cached \in Seq(Originals)  BY <1>1, <1>3, SeqDef
<1>5. Len(cached) \in Nat /\ DOMAIN cached = 1..Len(cached)
  BY <1>4, LenProperties
<1>6. Len(cached) <= NParas
  <2>1. 1..n = 1..Len(cached)  BY <1>1, <1>5
  <2>2. CASE Len(cached) > 0
    <3>1. Len(cached) \in 1..Len(cached)  BY <1>5, <2>2
    <3>2. Len(cached) \in 1..n  BY <2>1, <3>1
    <3> QED BY <1>3, <3>2, Bounds
  <2> QED BY <1>5, <2>2, Bounds
<1>7. \A i \in 1..Len(cached) : cached[i] \in Originals
  BY <1>4, ElementOfSeq
<1>8. \A i \in 1..Len(cached) : cached[i] \in Int
  BY <1>7, Bounds DEF Originals
<1>9. ASSUME NEW i \in 1..Len(cached), NEW j \in 1..Len(cached),
             cached[i] = cached[j]
      PROVE  i = j
  <2>1. ~(i < j) /\ ~(j < i)  BY <1>2, <1>5, <1>8, <1>9
  <2> QED BY <1>5, <2>1
<1>10. ASSUME NEW x \in Originals, x \notin prompts
       PROVE  \E i \in 1..Len(cached) : cached[i] = x
  BY <1>2, <1>5, <1>10
<1> QED BY <1>2, <1>4, <1>5, <1>6, <1>7, <1>9, <1>10

\* What AgreeInv says, in terms of 1..Len.
LEMMA Aligned ==
  ASSUME AgreeInv
  PROVE  /\ IInv /\ FileIds /\ cached \in Remaining
         /\ file \in Seq(Para) /\ Len(file) \in Nat
         /\ DOMAIN file = 1..Len(file)
         /\ \A p \in 1..Len(file) : file[p] \in Para /\ file[p].id \in Nat
         /\ plan \in Seq(Edits) /\ Len(plan) \in Nat
<1>1. file \in Seq(Para) /\ plan \in Seq(Edits)
  BY DEF AgreeInv, IInv, TypeOK, Para
<1>2. \A p \in 1..Len(file) : file[p] \in Para  BY <1>1, ElementOfSeq
<1>3. \A p \in 1..Len(file) : file[p].id \in Nat  BY <1>2 DEF Para
<1> QED BY <1>1, <1>2, <1>3, LenProperties DEF AgreeInv

\* The paragraph an edit names is at one place of the file.
LEMMA FileFound ==
  ASSUME AgreeInv, NEW at, FileHas(at)
  PROVE  /\ at + 1 \in 1..Len(cached) /\ FilePlace(at) \in 1..Len(file)
         /\ file[FilePlace(at)].id = cached[at + 1]
         /\ \A p \in 1..Len(file) :
              file[p].id = cached[at + 1] => p = FilePlace(at)
<1>1. at + 1 \in 1..Len(cached)
  BY Aligned, CachedOrder DEF FileHas, Named
<1>2. \E p \in DOMAIN file : file[p].id = cached[at + 1]
  BY DEF FileHas, Present
<1>3. FilePlace(at) \in DOMAIN file /\ file[FilePlace(at)].id = cached[at + 1]
  BY <1>2 DEF FilePlace, Place
<1> QED BY <1>1, <1>3, Aligned DEF FileIds, Distinct

\* Both ways find the same paragraph, or none.
LEMMA SamePlace ==
  ASSUME AgreeInv, NParas - 1 \notin prompts, NEW at \in (-1)..(NParas - 1)
  PROVE  /\ FileHas(at) <=> Index(at) # 0
         /\ FileHas(at) => /\ FilePlace(at) = Index(at)
                           /\ Index(at) = indices[at + 1]
<1>1. IndexedAlike  BY DEF AgreeInv
<1>2. Kept = cached  BY DEF Kept
<1>3. /\ Len(indices) = Len(cached) /\ DOMAIN indices = 1..Len(cached)
      /\ DOMAIN cached = 1..Len(cached)
  BY <1>2, Aligned, Tracked, CachedOrder
<1>4. ASSUME at + 1 \in 1..Len(cached), indices[at + 1] # 0
      PROVE  FileHas(at) /\ FilePlace(at) = indices[at + 1]
  <2>1. /\ indices[at + 1] \in 1..Len(file)
        /\ file[indices[at + 1]].id = cached[at + 1]
    BY <1>1, <1>4 DEF IndexedAlike
  <2>2. FileHas(at)
    BY <1>3, <1>4, <2>1, Aligned DEF FileHas, Named, Present
  <2> QED BY <2>1, <2>2, FileFound
<1>5. ASSUME FileHas(at)  PROVE Index(at) # 0
  <2>1. at + 1 \in 1..Len(cached) /\ Present(file, cached[at + 1])
    BY <1>3, <1>5 DEF FileHas, Named
  <2>2. indices[at + 1] # 0  BY <1>1, <2>1 DEF IndexedAlike
  <2> QED BY <1>3, <2>1, <2>2 DEF Index
<1>6. ASSUME Index(at) # 0
      PROVE  /\ at + 1 \in 1..Len(cached)
             /\ Index(at) = indices[at + 1] /\ indices[at + 1] # 0
  BY <1>3, <1>6 DEF Index
<1> QED BY <1>4, <1>5, <1>6

\* A paragraph that is written is none of those there are.
LEMMA WrittenIsNew ==
  ASSUME AgreeInv, NEW k, k = Len(plan) + 1, k <= MaxEdits
  PROVE  /\ k \in 1..MaxEdits /\ Written(k) \in Para
         /\ Written(k).id = NParas + k /\ Written(k).text = <<k>>
         /\ <<k>> # <<>> /\ <<k>> \in Seq(0..MaxEdits)
         /\ \A p \in 1..Len(file) : file[p].id < NParas + k
         /\ \A i \in 1..Len(cached) : cached[i] < NParas + k
<1>1. k \in 1..MaxEdits  BY Aligned, Bounds
<1>2. \A p \in 1..Len(file) : file[p].id < NParas + k
  BY <1>1, Aligned, Bounds DEF FileIds
<1>3. \A i \in 1..Len(cached) : cached[i] < NParas + k
  <2>1. \A x \in Originals : x < NParas + k
    BY <1>1, Bounds DEF Originals
  <2> QED BY <2>1, Aligned, CachedOrder
<1> QED BY <1>1, <1>2, <1>3, WrittenType DEF Written

\* The effect of each operation on the file.
LEMMA FileEffect ==
  ASSUME AgreeInv, NEW at, NEW k, k = Len(plan) + 1, k <= MaxEdits
  PROVE  /\ FileInsert(at, k) =>
              IF FileHas(at)
                THEN Grown(file', file, FilePlace(at) + 1, Written(k))
                ELSE Grown(file', file, Len(file) + 1, Written(k))
         /\ FileReplace(at, k) =>
              IF FileHas(at) THEN Rewritten(file', file, FilePlace(at), <<k>>)
                             ELSE file' = file
         /\ FileAppendRun(at, k) =>
              IF FileHas(at)
                THEN Rewritten(file', file, FilePlace(at),
                               Append(file[FilePlace(at)].text, k))
                ELSE file' = file
         /\ FileDelete(at) =>
              IF FileHas(at) THEN Shrunk(file', file, FilePlace(at))
                             ELSE file' = file
<1> DEFINE p == FilePlace(at)
<1>1. file \in Seq(Para) /\ Len(file) \in Nat  BY Aligned
<1>2. /\ Written(k) \in Para /\ k \in 1..MaxEdits
      /\ <<k>> \in Seq(0..MaxEdits)
  BY WrittenIsNew
<1>3. FileHas(at) => /\ p \in 1..Len(file) /\ p + 1 \in 1..(Len(file) + 1)
                     /\ Append(file[p].text, k) \in Seq(0..MaxEdits)
  <2> SUFFICES ASSUME FileHas(at)
               PROVE  /\ p \in 1..Len(file) /\ p + 1 \in 1..(Len(file) + 1)
                      /\ Append(file[p].text, k) \in Seq(0..MaxEdits)
    OBVIOUS
  <2>1. p \in 1..Len(file)  BY FileFound
  <2> HIDE DEF p
  <2>2. p + 1 \in 1..(Len(file) + 1)  BY <1>1, <2>1
  <2>3. Append(file[p].text, k) \in Seq(0..MaxEdits)
    BY <1>1, <1>2, <2>1, TextAppended
  <2> QED BY <2>1, <2>2, <2>3
<1>4. ASSUME FileInsert(at, k), FileHas(at)
      PROVE  Grown(file', file, p + 1, Written(k))
  <2>1. file' = InsertAt(file, p + 1, Written(k))  BY <1>4 DEF FileInsert
  <2> HIDE DEF p
  <2> QED BY <1>1, <1>2, <1>3, <1>4, <2>1, InsertAtGrows
<1>5. ASSUME FileInsert(at, k), ~FileHas(at)
      PROVE  Grown(file', file, Len(file) + 1, Written(k))
  <2>1. file' = Append(file, Written(k))  BY <1>5 DEF FileInsert
  <2> QED BY <1>1, <1>2, <2>1, AppendGrows
<1>6. ASSUME FileReplace(at, k), FileHas(at)
      PROVE  Rewritten(file', file, p, <<k>>)
  <2>1. file' = [file EXCEPT ![p].text = <<k>>]  BY <1>6 DEF FileReplace
  <2> HIDE DEF p
  <2> QED BY <1>1, <1>2, <1>3, <1>6, <2>1, ExceptRewrites
<1>7. ASSUME FileAppendRun(at, k), FileHas(at)
      PROVE  Rewritten(file', file, p, Append(file[p].text, k))
  <2> DEFINE t == Append(file[p].text, k)
  <2>1. file' = [file EXCEPT ![p].text = t]  BY <1>7 DEF FileAppendRun
  <2>2. t \in Seq(0..MaxEdits)  BY <1>3, <1>7
  <2> HIDE DEF p, t
  <2>3. Rewritten(file', file, p, t)
    BY <1>1, <1>3, <1>7, <2>1, <2>2, ExceptRewrites
  <2> QED BY <2>3 DEF t
<1>8. ASSUME FileDelete(at), FileHas(at)
      PROVE  Shrunk(file', file, p)
  <2>1. file' = RemoveAt(file, p)  BY <1>8 DEF FileDelete
  <2> HIDE DEF p
  <2> QED BY <1>1, <1>3, <1>8, <2>1, RemoveAtShrinks
<1>9. /\ FileReplace(at, k) /\ ~FileHas(at) => file' = file
      /\ FileAppendRun(at, k) /\ ~FileHas(at) => file' = file
      /\ FileDelete(at) /\ ~FileHas(at) => file' = file
  BY DEF FileReplace, FileAppendRun, FileDelete
<1> QED BY <1>4, <1>5, <1>6, <1>7, <1>8, <1>9

\* The identities in the file stay distinct, and below the next one.
LEMMA FileIdsKept ==
  ASSUME AgreeInv, NEW at, NEW k, k = Len(plan) + 1, k <= MaxEdits,
         Len(plan') = k,
         \/ FileInsert(at, k) \/ FileReplace(at, k) \/ FileAppendRun(at, k)
         \/ FileDelete(at)
  PROVE  FileIds'
<1>1. /\ file \in Seq(Para) /\ Len(file) \in Nat
      /\ NParas \in Nat /\ k \in Nat /\ Distinct(file)
      /\ Written(k) \in Para /\ Written(k).id = NParas + k
  BY Aligned, WrittenIsNew, Bounds DEF FileIds
<1>2. \A p \in 1..Len(file) : file[p].id \in Nat /\ file[p].id < NParas + k
  BY Aligned, WrittenIsNew
<1>3. \A p \in 1..Len(file) : file[p].id # Written(k).id
  BY <1>1, <1>2
<1>4. SUFFICES /\ Distinct(file')
               /\ \A j \in 1..Len(file') : file'[j].id <= NParas + k
  BY DEF FileIds, Distinct
<1>5. ASSUME NEW i \in 1..(Len(file) + 1), Grown(file', file, i, Written(k))
      PROVE  /\ Distinct(file')
             /\ \A j \in 1..Len(file') : file'[j].id <= NParas + k
  <2>1. Distinct(file')  BY <1>1, <1>3, <1>5, GrownDistinct
  <2>2. ASSUME NEW j \in 1..Len(file')  PROVE file'[j].id <= NParas + k
    <3>1. CASE j < i
      <4>1. j \in 1..Len(file) /\ file'[j] = file[j]
        BY <1>1, <1>5, <3>1, GrownPlaces
      <4> QED BY <1>1, <1>2, <4>1
    <3>2. CASE j = i
      <4>1. file'[j] = Written(k)  BY <1>1, <1>5, <3>2, GrownPlaces
      <4> QED BY <1>1, <4>1
    <3>3. CASE j > i
      <4>1. j - 1 \in 1..Len(file) /\ file'[j] = file[j - 1]
        BY <1>1, <1>5, <3>3, GrownPlaces
      <4> QED BY <1>1, <1>2, <4>1
    <3>4. Len(file') \in Nat  BY <1>1, <1>5, GrownPlaces
    <3> QED BY <1>1, <3>1, <3>2, <3>3, <3>4
  <2> QED BY <2>1, <2>2
<1>6. ASSUME NEW p \in 1..Len(file), NEW t, Rewritten(file', file, p, t)
      PROVE  /\ Distinct(file')
             /\ \A j \in 1..Len(file') : file'[j].id <= NParas + k
  <2>1. /\ Len(file') = Len(file)
        /\ \A j \in 1..Len(file) : file'[j].id = file[j].id
    BY <1>6 DEF Rewritten
  <2>2. Distinct(file')  BY <1>1, <2>1 DEF Distinct
  <2>3. ASSUME NEW j \in 1..Len(file')  PROVE file'[j].id <= NParas + k
    <3>1. j \in 1..Len(file) /\ file'[j].id = file[j].id  BY <2>1
    <3> QED BY <1>1, <1>2, <3>1
  <2> QED BY <2>2, <2>3
<1>7. ASSUME NEW p \in 1..Len(file), Shrunk(file', file, p)
      PROVE  /\ Distinct(file')
             /\ \A j \in 1..Len(file') : file'[j].id <= NParas + k
  <2>1. Distinct(file')  BY <1>1, <1>7, ShrunkDistinct
  <2>2. ASSUME NEW j \in 1..Len(file')  PROVE file'[j].id <= NParas + k
    <3>1. CASE j < p
      <4>1. j \in 1..Len(file) /\ file'[j] = file[j]
        BY <1>1, <1>7, <3>1, ShrunkPlaces
      <4> QED BY <1>1, <1>2, <4>1
    <3>2. CASE j >= p
      <4>1. j + 1 \in 1..Len(file) /\ file'[j] = file[j + 1]
        BY <1>1, <1>7, <3>2, ShrunkPlaces
      <4> QED BY <1>1, <1>2, <4>1
    <3>3. Len(file') \in Nat  BY <1>1, <1>7, ShrunkPlaces
    <3> QED BY <1>1, <3>1, <3>2, <3>3
  <2> QED BY <2>1, <2>2
<1>8. CASE file' = file
  BY <1>1, <1>2, <1>8
<1>9. FileHas(at) => /\ FilePlace(at) \in 1..Len(file)
                     /\ FilePlace(at) + 1 \in 1..(Len(file) + 1)
  BY <1>1, FileFound
<1>10. Len(file) + 1 \in 1..(Len(file) + 1)  BY <1>1
<1> QED BY <1>5, <1>6, <1>7, <1>8, <1>9, <1>10, FileEffect

-----------------------------------------------------------------------------
(* Both documents through each edit *)

\* IndexedAlike in terms of 1..Len,
LEMMA IndexFacts ==
  ASSUME AgreeInv, NParas - 1 \notin prompts
  PROVE  /\ Kept = cached
         /\ word \in Seq(Para) /\ Len(word) \in Nat /\ Len(word) > 0
         /\ file \in Seq(Para) /\ Len(file) \in Nat
         /\ indices \in Seq(Nat) /\ Len(indices) = Len(cached)
         /\ Len(cached) \in Nat /\ DOMAIN indices = 1..Len(cached)
         /\ \A i \in 1..Len(cached) :
              /\ indices[i] \in Nat
              /\ indices[i] # 0 => /\ indices[i] \in 1..Len(file)
                                   /\ indices[i] \in 1..Len(word)
                                   /\ file[indices[i]].id = cached[i]
                                   /\ word[indices[i]].id = cached[i]
              /\ indices[i] = 0 =>
                   \A p \in 1..Len(file) : file[p].id # cached[i]
         /\ \A i, j \in 1..Len(cached) : cached[i] = cached[j] => i = j
         /\ Len(word) \in 1..Len(word) /\ word[Len(word)].id >= NParas - 1
<1>1. IndexedAlike  BY DEF AgreeInv
<1>2. Kept = cached  BY DEF Kept
<1>3. /\ Len(indices) = Len(cached) /\ DOMAIN indices = 1..Len(cached)
      /\ indices \in Seq(Nat)
  BY <1>2, Aligned, Tracked
<1>4. ASSUME NEW i \in 1..Len(cached), indices[i] = 0, NEW p \in 1..Len(file)
      PROVE  file[p].id # cached[i]
  BY <1>1, <1>4, Aligned DEF IndexedAlike, Present
<1>5. \A i \in 1..Len(cached) : indices[i] \in Nat  BY <1>3, ElementOfSeq
<1>6. ASSUME NEW i \in 1..Len(cached), indices[i] # 0
      PROVE  /\ indices[i] \in 1..Len(file) /\ file[indices[i]].id = cached[i]
             /\ indices[i] \in 1..Len(word) /\ word[indices[i]].id = cached[i]
  BY <1>1, <1>2, <1>3, <1>6, Aligned, Tracked DEF IndexedAlike
<1>7. Len(word) \in 1..Len(word)  BY Aligned, Tracked
<1>8. word[Len(word)].id >= NParas - 1  BY DEF AgreeInv, WordEnds
<1> QED BY <1>2, <1>3, <1>4, <1>5, <1>6, <1>7, <1>8,
           Aligned, Tracked, CachedOrder

\* and how it is established again.
LEMMA IndexAgain ==
  ASSUME file' \in Seq(Para), cached' = cached,
         \A i \in 1..Len(cached) :
           /\ indices'[i] # 0 => /\ indices'[i] \in 1..Len(file')
                                 /\ file'[indices'[i]].id = cached[i]
           /\ indices'[i] = 0 =>
                \A p \in 1..Len(file') : file'[p].id # cached[i]
  PROVE  IndexedAlike'
<1>1. DOMAIN file' = 1..Len(file')  BY LenProperties
<1> QED BY <1>1 DEF IndexedAlike, Present

\* SideBySide with the types.
LEMMA SideFacts ==
  ASSUME AgreeInv, NParas - 1 \notin prompts \cup blanks
  PROVE  /\ NParas - 1 \notin prompts
         /\ word \in Seq(Para) /\ Len(word) \in Nat /\ Len(word) > 0
         /\ file \in Seq(Para) /\ Len(file) \in Nat
         /\ \/ Len(word) = Len(file) /\ word[Len(word)].text # <<>>
            \/ /\ Len(word) = Len(file) + 1 /\ word[Len(word)].text = <<>>
               /\ \A p \in 1..Len(file) : file[p].id # NParas - 1
         /\ \A p \in 1..Len(file) :
              p \in 1..Len(word) /\ word[p].text = file[p].text
         /\ Len(word) \in 1..Len(word) /\ word[Len(word)].id >= NParas - 1
<1>1. SideBySide  BY DEF AgreeInv
<1>2. \/ Len(word) = Len(file) /\ word[Len(word)].text # <<>>
      \/ /\ Len(word) = Len(file) + 1 /\ word[Len(word)].text = <<>>
         /\ \A p \in 1..Len(file) : file[p].id # NParas - 1
  BY <1>1 DEF SideBySide
<1>3. /\ word \in Seq(Para) /\ Len(word) \in Nat /\ Len(word) > 0
      /\ file \in Seq(Para) /\ Len(file) \in Nat
  BY Aligned, Tracked
<1>4. ASSUME NEW p \in 1..Len(file)
      PROVE  p \in 1..Len(word) /\ word[p].text = file[p].text
  BY <1>1, <1>2, <1>3 DEF SideBySide
<1>7. NParas - 1 \notin prompts  OBVIOUS
<1>5. word[Len(word)].id >= NParas - 1  BY <1>7 DEF AgreeInv, WordEnds
<1>6. Len(word) \in 1..Len(word)  BY <1>3
<1> QED BY <1>2, <1>3, <1>4, <1>5, <1>6, <1>7

\* A paragraph is written into the file: the indices from its place on move.
LEMMA IndexGrown ==
  ASSUME AgreeInv, NParas - 1 \notin prompts, cached' = cached,
         NEW e \in Para, \A i \in 1..Len(cached) : e.id # cached[i],
         NEW n \in 1..(Len(file) + 1), Grown(file', file, n, e),
         \A i \in 1..Len(cached) :
           indices'[i] = IF indices[i] >= n THEN indices[i] + 1 ELSE indices[i]
  PROVE  IndexedAlike'
<1>1. file \in Seq(Para) /\ Len(file) \in Nat  BY IndexFacts
<1>2. file' \in Seq(Para) /\ Len(file') = Len(file) + 1
  BY DEF Grown
<1>6. ASSUME NEW i \in 1..Len(cached), indices'[i] # 0
      PROVE  /\ indices'[i] \in 1..Len(file')
             /\ file'[indices'[i]].id = cached[i]
  <2>1. indices[i] \in Nat  BY IndexFacts
  <2>2. indices[i] # 0  BY <1>6
  <2>3. indices[i] \in 1..Len(file) /\ file[indices[i]].id = cached[i]
    BY <2>2, IndexFacts
  <2> DEFINE j == indices[i]
  <2> HIDE DEF j
  <2>4. CASE j >= n
    <3>0. j \in 1..Len(file)  BY <2>3 DEF j
    <3>1. j + 1 \in 1..Len(file') /\ file'[j + 1] = file[j]
      BY <1>1, <2>4, <3>0, GrownPlaces
    <3> QED BY <2>3, <2>4, <3>1 DEF j
  <2>5. CASE j < n
    <3>1. j \in 1..Len(file') /\ file'[j] = file[j]
      BY <1>1, <2>3, <2>5, GrownPlaces DEF j
    <3>2. indices'[i] = j  BY <2>1, <2>5 DEF j
    <3> QED BY <2>3, <3>1, <3>2 DEF j
  <2> QED BY <2>1, <2>4, <2>5 DEF j
<1>7. ASSUME NEW i \in 1..Len(cached), indices'[i] = 0,
             NEW q \in 1..Len(file')
      PROVE  file'[q].id # cached[i]
  <2>1. indices[i] \in Nat /\ indices[i] = 0  BY <1>7, IndexFacts
  <2>2. \A p \in 1..Len(file) : file[p].id # cached[i]  BY <2>1, IndexFacts
  <2>3. CASE q < n
    <3>1. q \in 1..Len(file) /\ file'[q] = file[q]
      BY <1>1, <2>3, GrownPlaces
    <3> QED BY <2>2, <3>1
  <2>4. CASE q = n
    <3>1. file'[q] = e  BY <1>1, <2>4, GrownPlaces
    <3> QED BY <3>1
  <2>5. CASE q > n
    <3>1. q - 1 \in 1..Len(file) /\ file'[q] = file[q - 1]
      BY <1>1, <2>5, GrownPlaces
    <3> QED BY <2>2, <3>1
  <2> QED BY <1>1, <1>2, <2>3, <2>4, <2>5
<1> QED BY <1>2, <1>6, <1>7, IndexAgain

\* A paragraph of the file gets a new text.
LEMMA IndexRewritten ==
  ASSUME AgreeInv, NParas - 1 \notin prompts, cached' = cached,
         NEW p, NEW t, Rewritten(file', file, p, t), indices' = indices
  PROVE  IndexedAlike'
<1>1. /\ file' \in Seq(Para) /\ Len(file') = Len(file)
      /\ \A j \in 1..Len(file) : file'[j].id = file[j].id
  BY DEF Rewritten
<1>2. ASSUME NEW i \in 1..Len(cached), indices[i] # 0
      PROVE  /\ indices[i] \in 1..Len(file')
             /\ file'[indices[i]].id = cached[i]
  <2>1. indices[i] \in 1..Len(file) /\ file[indices[i]].id = cached[i]
    BY <1>2, IndexFacts
  <2> QED BY <1>1, <2>1
<1>3. ASSUME NEW i \in 1..Len(cached), indices[i] = 0,
             NEW q \in 1..Len(file')
      PROVE  file'[q].id # cached[i]
  <2>1. q \in 1..Len(file)  BY <1>1
  <2>2. file[q].id # cached[i]  BY <1>3, <2>1, IndexFacts
  <2> QED BY <1>1, <2>1, <2>2
<1> QED BY <1>1, <1>2, <1>3, IndexAgain

\* A paragraph is written at the same place of both; a blank one at the end of
\* Word's document stays there.
LEMMA SideGrown ==
  ASSUME AgreeInv, NParas - 1 \notin prompts \cup blanks,
         NEW e \in Para, e.text # <<>>, e.id >= NParas,
         NEW n \in 1..(Len(file) + 1),
         Grown(file', file, n, e), Grown(word', word, n, e)
  PROVE  SideBySide'
<1>1. /\ file \in Seq(Para) /\ Len(file) \in Nat
      /\ word \in Seq(Para) /\ Len(word) \in Nat
      /\ n \in 1..(Len(word) + 1)
  BY SideFacts
<1>2. Len(file') = Len(file) + 1 /\ Len(word') = Len(word) + 1
  BY DEF Grown
<1>3. e.id >= NParas - 1 /\ e.id # NParas - 1
  BY Bounds DEF Para
<1>4. \/ n = Len(word) + 1 /\ Len(word) = Len(file) /\ word'[Len(word')] = e
      \/ n <= Len(word) /\ word'[Len(word')] = word[Len(word)]
  <2>1. CASE n = Len(word) + 1
    <3>1. word'[n] = e  BY <1>1, <2>1, GrownPlaces
    <3> QED BY <1>1, <1>2, <2>1, <3>1, SideFacts
  <2>2. CASE n # Len(word) + 1
    <3>1. Len(word) >= n /\ Len(word) \in 1..Len(word)  BY <1>1, <2>2
    <3>2. word'[Len(word) + 1] = word[Len(word)]  BY <1>1, <3>1, GrownPlaces
    <3> QED BY <1>2, <3>1, <3>2
  <2> QED BY <2>1, <2>2
<1>5. ASSUME NEW j \in 1..Len(file')
      PROVE  word'[j].text = file'[j].text
  <2>0. j \in 1..Len(word')  BY <1>1, <1>2, SideFacts
  <2>1. CASE j < n
    <3>1. j \in 1..Len(file) /\ file'[j] = file[j]
      BY <1>1, <2>1, GrownPlaces
    <3>2. word'[j] = word[j]  BY <1>1, <2>0, <2>1, GrownPlaces
    <3> QED BY <3>1, <3>2, SideFacts
  <2>2. CASE j = n
    <3>1. file'[j] = e  BY <1>1, <2>2, GrownPlaces
    <3>2. word'[j] = e  BY <1>1, <2>2, GrownPlaces
    <3> QED BY <3>1, <3>2
  <2>3. CASE j > n
    <3>1. j - 1 \in 1..Len(file) /\ file'[j] = file[j - 1]
      BY <1>1, <2>3, GrownPlaces
    <3>2. word'[j] = word[j - 1]  BY <1>1, <2>0, <2>3, GrownPlaces
    <3> QED BY <3>1, <3>2, SideFacts
  <2> QED BY <1>1, <1>2, <2>1, <2>2, <2>3
<1>6. ASSUME \A p \in 1..Len(file) : file[p].id # NParas - 1,
             NEW j \in 1..Len(file')
      PROVE  file'[j].id # NParas - 1
  <2>1. CASE j < n
    <3>1. j \in 1..Len(file) /\ file'[j] = file[j]
      BY <1>1, <2>1, GrownPlaces
    <3> QED BY <1>6, <3>1
  <2>2. CASE j = n
    <3>1. file'[j] = e  BY <1>1, <2>2, GrownPlaces
    <3> QED BY <1>3, <3>1
  <2>3. CASE j > n
    <3>1. j - 1 \in 1..Len(file) /\ file'[j] = file[j - 1]
      BY <1>1, <2>3, GrownPlaces
    <3> QED BY <1>6, <3>1
  <2> QED BY <1>1, <1>2, <2>1, <2>2, <2>3
<1>7. \/ Len(word') = Len(file') /\ word'[Len(word')].text # <<>>
      \/ /\ Len(word') = Len(file') + 1 /\ word'[Len(word')].text = <<>>
         /\ \A p \in 1..Len(file') : file'[p].id # NParas - 1
  <2>1. CASE Len(word) = Len(file) /\ word[Len(word)].text # <<>>
    BY <1>2, <1>4, <2>1
  <2>2. CASE /\ Len(word) = Len(file) + 1 /\ word[Len(word)].text = <<>>
             /\ \A p \in 1..Len(file) : file[p].id # NParas - 1
    BY <1>1, <1>2, <1>4, <1>6, <2>2
  <2> QED BY <2>1, <2>2, SideFacts
<1> QED BY <1>5, <1>7 DEF SideBySide

\* The same paragraph of both gets a new text.
LEMMA SideRewritten ==
  ASSUME AgreeInv, NParas - 1 \notin prompts \cup blanks,
         NEW p \in 1..Len(file), NEW t, t # <<>>,
         Rewritten(file', file, p, t), Rewritten(word', word, p, t)
  PROVE  SideBySide'
<1>1. /\ Len(file') = Len(file)
      /\ \A j \in 1..Len(file) :
           /\ file'[j].id = file[j].id
           /\ file'[j].text = IF j = p THEN t ELSE file[j].text
  BY DEF Rewritten
<1>2. /\ Len(word') = Len(word)
      /\ \A j \in 1..Len(word) :
           /\ word'[j].id = word[j].id
           /\ word'[j].text = IF j = p THEN t ELSE word[j].text
  BY DEF Rewritten
<1>3. Len(file) \in Nat /\ Len(word) \in Nat /\ Len(word) \in 1..Len(word)
  BY SideFacts
<1>4. \/ Len(word') = Len(file') /\ word'[Len(word')].text # <<>>
      \/ /\ Len(word') = Len(file') + 1 /\ word'[Len(word')].text = <<>>
         /\ \A q \in 1..Len(file') : file'[q].id # NParas - 1
  <2>1. CASE Len(word) = Len(file) /\ word[Len(word)].text # <<>>
    BY <1>1, <1>2, <1>3, <2>1
  <2>2. CASE /\ Len(word) = Len(file) + 1 /\ word[Len(word)].text = <<>>
             /\ \A q \in 1..Len(file) : file[q].id # NParas - 1
    <3>1. Len(word) # p  BY <1>3, <2>2
    <3> QED BY <1>1, <1>2, <1>3, <2>2, <3>1
  <2> QED BY <2>1, <2>2, SideFacts
<1>5. ASSUME NEW j \in 1..Len(file')
      PROVE  word'[j].text = file'[j].text
  <2>1. /\ j \in 1..Len(file) /\ j \in 1..Len(word)
        /\ word[j].text = file[j].text
    BY <1>1, SideFacts
  <2> QED BY <1>1, <1>2, <2>1
<1> QED BY <1>4, <1>5 DEF SideBySide

\* A paragraph of the file, at p, the place of the a-th index, is removed.
LEMMA IndexShrunk ==
  ASSUME AgreeInv, NParas - 1 \notin prompts, cached' = cached,
         NEW p \in 1..Len(file), NEW a \in 1..Len(cached), indices[a] = p,
         Shrunk(file', file, p),
         \A i \in 1..Len(cached) :
           indices'[i] = IF i = a THEN 0
                         ELSE IF indices[i] > p THEN indices[i] - 1
                         ELSE indices[i]
  PROVE  /\ IndexedAlike'
         /\ \A q \in 1..Len(file') : file'[q].id # cached[a]
<1>1. file \in Seq(Para) /\ Len(file) \in Nat  BY IndexFacts
<1>2. Len(file') = Len(file) - 1 /\ Len(file') \in Nat
  BY <1>1 DEF Shrunk
<1>3. Distinct(file)  BY Aligned DEF FileIds
<1>4. p # 0 /\ file[p].id = cached[a]  BY IndexFacts
<1>5. ASSUME NEW i \in 1..Len(cached), i # a  PROVE indices[i] # p
  <2>1. ASSUME indices[i] = p  PROVE FALSE
    <3>1. file[p].id = cached[i]  BY <1>4, <2>1, IndexFacts
    <3>2. cached[i] = cached[a]  BY <1>4, <3>1
    <3> QED BY <1>5, <3>2, IndexFacts
  <2> QED BY <2>1
<1>6. ASSUME NEW i \in 1..Len(cached), indices'[i] # 0
      PROVE  /\ indices'[i] \in 1..Len(file')
             /\ file'[indices'[i]].id = cached[i]
  <2>0. i # a  BY <1>6
  <2>1. indices[i] \in Nat /\ indices[i] # p /\ indices[i] # 0
    BY <1>5, <1>6, <2>0, IndexFacts
  <2>2. indices[i] \in 1..Len(file) /\ file[indices[i]].id = cached[i]
    BY <2>1, IndexFacts
  <2> DEFINE j == indices[i]
  <2> HIDE DEF j
  <2>3. CASE j > p
    <3>0. j \in 1..Len(file)  BY <2>2 DEF j
    <3>1. j - 1 \in 1..Len(file') /\ file'[j - 1] = file[j]
      BY <1>1, <2>3, <3>0, ShrunkPlaces
    <3>2. indices'[i] = j - 1  BY <2>0, <2>3 DEF j
    <3> QED BY <2>2, <3>1, <3>2 DEF j
  <2>4. CASE j < p
    <3>1. j \in 1..Len(file') /\ file'[j] = file[j]
      BY <1>1, <2>2, <2>4, ShrunkPlaces DEF j
    <3>2. indices'[i] = j  BY <2>0, <2>1, <2>4 DEF j
    <3> QED BY <2>2, <3>1, <3>2 DEF j
  <2> QED BY <2>1, <2>3, <2>4 DEF j
<1>7. ASSUME NEW i \in 1..Len(cached), indices'[i] = 0,
             NEW q \in 1..Len(file')
      PROVE  file'[q].id # cached[i]
  <2>1. PICK r \in 1..Len(file) : r # p /\ file'[q] = file[r]
    <3>1. CASE q < p
      <4>1. q \in 1..Len(file) /\ file'[q] = file[q]
        BY <1>1, <3>1, ShrunkPlaces
      <4> QED BY <3>1, <4>1
    <3>2. CASE q >= p
      <4>1. q + 1 \in 1..Len(file) /\ file'[q] = file[q + 1]
        BY <1>1, <3>2, ShrunkPlaces
      <4>2. q + 1 # p  BY <1>1, <1>2, <3>2
      <4> QED BY <4>1, <4>2
    <3> QED BY <1>1, <1>2, <3>1, <3>2
  <2>2. CASE i = a
    <3>1. file[r].id # file[p].id  BY <1>3, <2>1 DEF Distinct
    <3> QED BY <1>4, <2>1, <2>2, <3>1
  <2>3. CASE i # a
    <3>1. indices[i] \in Nat /\ indices[i] # p  BY <1>5, <2>3, IndexFacts
    <3>2. indices[i] = 0  BY <1>1, <1>7, <2>3, <3>1
    <3>3. file[r].id # cached[i]  BY <3>2, IndexFacts
    <3> QED BY <2>1, <3>3
  <2> QED BY <2>2, <2>3
<1>8. indices'[a] = 0 /\ file' \in Seq(Para)  BY DEF Shrunk
<1>9. IndexedAlike'  BY <1>6, <1>7, <1>8, IndexAgain
<1> QED BY <1>7, <1>8, <1>9

\* The same paragraph of both is removed.
LEMMA SideShrunk ==
  ASSUME AgreeInv, NParas - 1 \notin prompts \cup blanks,
         NEW p \in 1..Len(file),
         Shrunk(file', file, p), Shrunk(word', word, p), p # Len(word)
  PROVE  SideBySide'
<1>1. /\ file \in Seq(Para) /\ Len(file) \in Nat
      /\ word \in Seq(Para) /\ Len(word) \in Nat /\ p \in 1..Len(word)
  BY SideFacts
<1>2. Len(file') = Len(file) - 1 /\ Len(word') = Len(word) - 1
  BY DEF Shrunk
<1>3. word'[Len(word')] = word[Len(word)] /\ Len(word') \in 1..Len(word')
  <2>1. /\ Len(word) \in 1..Len(word) /\ Len(word) > p
        /\ Len(word') >= p /\ Len(word') \in 1..Len(word')
        /\ Len(word') + 1 = Len(word)
    BY <1>1, <1>2
  <2> QED BY <1>1, <2>1, ShrunkPlaces
<1>4. ASSUME NEW j \in 1..Len(file')
      PROVE  \E q \in 1..Len(file) :
               file'[j] = file[q] /\ word'[j].text = file'[j].text
  <2>0. j \in 1..Len(word')  BY <1>1, <1>2, SideFacts
  <2>1. CASE j < p
    <3>1. j \in 1..Len(file) /\ file'[j] = file[j]
      BY <1>1, <2>1, ShrunkPlaces
    <3>2. word'[j] = word[j]  BY <1>1, <2>0, <2>1, ShrunkPlaces
    <3> QED BY <3>1, <3>2, SideFacts
  <2>2. CASE j >= p
    <3>1. j + 1 \in 1..Len(file) /\ file'[j] = file[j + 1]
      BY <1>1, <2>2, ShrunkPlaces
    <3>2. word'[j] = word[j + 1]  BY <1>1, <2>0, <2>2, ShrunkPlaces
    <3>3. word[j + 1].text = file[j + 1].text  BY <3>1, SideFacts
    <3> QED BY <3>1, <3>2, <3>3
  <2> QED BY <1>1, <1>2, <2>1, <2>2
<1>5. \/ Len(word') = Len(file') /\ word'[Len(word')].text # <<>>
      \/ /\ Len(word') = Len(file') + 1 /\ word'[Len(word')].text = <<>>
         /\ \A q \in 1..Len(file') : file'[q].id # NParas - 1
  <2>1. CASE Len(word) = Len(file) /\ word[Len(word)].text # <<>>
    BY <1>2, <1>3, <2>1
  <2>2. CASE /\ Len(word) = Len(file) + 1 /\ word[Len(word)].text = <<>>
             /\ \A q \in 1..Len(file) : file[q].id # NParas - 1
    BY <1>1, <1>2, <1>3, <1>4, <2>2
  <2> QED BY <2>1, <2>2, SideFacts
<1> QED BY <1>4, <1>5 DEF SideBySide

\* The last paragraph of both is deleted: Word blanks it.  It is the last
\* original, since nothing after that one has an index.
LEMMA SideBlanked ==
  ASSUME AgreeInv, NParas - 1 \notin prompts \cup blanks,
         NEW p \in 1..Len(file), NEW a \in 1..Len(cached), indices[a] = p,
         Shrunk(file', file, p), Rewritten(word', word, p, <<>>),
         p = Len(word),
         \A q \in 1..Len(file') : file'[q].id # cached[a]
  PROVE  SideBySide'
<1>1. /\ file \in Seq(Para) /\ Len(file) \in Nat
      /\ word \in Seq(Para) /\ Len(word) \in Nat /\ p \in 1..Len(word)
      /\ Len(word) = Len(file)
  BY SideFacts
<1>2. Len(file') = Len(file) - 1
  BY DEF Shrunk
<1>3. /\ Len(word') = Len(word)
      /\ \A j \in 1..Len(word) :
           /\ word'[j].id = word[j].id
           /\ word'[j].text = IF j = p THEN <<>> ELSE word[j].text
  BY DEF Rewritten
<1>4. Len(word') = Len(file') + 1 /\ word'[Len(word')].text = <<>>
  BY <1>1, <1>2, <1>3
<1>5. ASSUME NEW j \in 1..Len(file')
      PROVE  word'[j].text = file'[j].text
  <2>1. j < p  BY <1>1, <1>2
  <2>2. j \in 1..Len(file) /\ file'[j] = file[j]
    BY <1>1, <2>1, ShrunkPlaces
  <2>3. word'[j].text = word[j].text  BY <1>1, <1>3, <2>1, <2>2
  <2> QED BY <2>2, <2>3, SideFacts
<1>6. cached[a] = NParas - 1
  <2>1. p # 0  BY <1>1
  <2>2. word[p].id = cached[a]  BY <2>1, SideFacts, IndexFacts
  <2>3. cached[a] >= NParas - 1  BY <2>2, SideFacts
  <2>4. cached[a] \in 0..(NParas - 1)
    BY Aligned, CachedOrder DEF Originals
  <2> QED BY <2>3, <2>4, Bounds
<1>7. \A q \in 1..Len(file') : file'[q].id # NParas - 1  BY <1>6
<1> QED BY <1>4, <1>5, <1>7 DEF SideBySide

\* A paragraph is added at the end: Word has a blank one for it.
LEMMA SideFilled ==
  ASSUME AgreeInv, NParas - 1 \notin prompts \cup blanks,
         NEW e \in Para, e.text # <<>>,
         Grown(file', file, Len(file) + 1, e),
         Len(word) = Len(file) + 1, Rewritten(word', word, Len(word), e.text)
  PROVE  SideBySide'
<1>1. /\ file \in Seq(Para) /\ Len(file) \in Nat
      /\ word \in Seq(Para) /\ Len(word) \in Nat
      /\ Len(file) + 1 \in 1..(Len(file) + 1)
  BY SideFacts
<1>2. Len(file') = Len(file) + 1
  BY DEF Grown
<1>3. /\ Len(word') = Len(word)
      /\ \A j \in 1..Len(word) :
           /\ word'[j].id = word[j].id
           /\ word'[j].text = IF j = Len(word) THEN e.text ELSE word[j].text
  BY DEF Rewritten
<1>4. /\ \A j \in 1..Len(file) : j \in 1..Len(file') /\ file'[j] = file[j]
      /\ file'[Len(file) + 1] = e
  BY <1>1, <1>2 DEF Grown
<1>5. ASSUME NEW j \in 1..Len(file')
      PROVE  word'[j].text = file'[j].text
  <2>1. CASE j = Len(file) + 1
    <3>1. file'[j] = e  BY <1>4, <2>1
    <3>2. word'[j].text = e.text  BY <1>1, <1>2, <1>3, <2>1
    <3> QED BY <3>1, <3>2
  <2>2. CASE j # Len(file) + 1
    <3>1. j \in 1..Len(file) /\ j # Len(word)  BY <1>1, <1>2, <2>2
    <3>2. file'[j] = file[j]  BY <1>4, <3>1
    <3>3. j \in 1..Len(word) /\ word'[j].text = word[j].text
      BY <1>3, <3>1, SideFacts
    <3> QED BY <3>1, <3>2, <3>3, SideFacts
  <2> QED BY <2>1, <2>2
<1>6. Len(word') = Len(file') /\ word'[Len(word')].text # <<>>
  BY <1>2, <1>3, SideFacts
<1> QED BY <1>5, <1>6 DEF SideBySide

\* The effect of each operation on Word's document and its indices, at the
\* place the file has for the paragraph.
LEMMA WordEffect ==
  ASSUME AgreeInv, NParas - 1 \notin prompts, NEW at \in (-1)..(NParas - 1),
         NEW k \in 1..MaxEdits
  PROVE  /\ FileHas(at) => /\ FilePlace(at) \in 1..Len(word)
                           /\ at + 1 \in 1..Len(cached)
                           /\ indices[at + 1] = FilePlace(at)
         /\ WordInsert(at, k) /\ FileHas(at) =>
              /\ Grown(word', word, FilePlace(at) + 1, Written(k))
              /\ indices' = Shifted(FilePlace(at), 1)
         /\ WordInsert(at, k) /\ ~FileHas(at) =>
              /\ indices' = indices
              /\ IF word[Len(word)].text = <<>>
                   THEN Rewritten(word', word, Len(word), <<k>>)
                   ELSE Grown(word', word, Len(word) + 1, Written(k))
         /\ WordReplace(at, k) =>
              IF FileHas(at) THEN Rewritten(word', word, FilePlace(at), <<k>>)
                             ELSE word' = word
         /\ WordAppendRun(at, k) =>
              IF FileHas(at)
                THEN Rewritten(word', word, FilePlace(at),
                               Append(word[FilePlace(at)].text, k))
                ELSE word' = word
         /\ WordDelete(at) /\ FileHas(at) =>
              IF FilePlace(at) = Len(word)
                THEN /\ Rewritten(word', word, FilePlace(at), <<>>)
                     /\ indices' = [indices EXCEPT ![at + 1] = 0]
                ELSE /\ Shrunk(word', word, FilePlace(at))
                     /\ indices' = [Shifted(FilePlace(at), -1)
                                      EXCEPT ![at + 1] = 0]
         /\ WordDelete(at) /\ ~FileHas(at) => UNCHANGED <<word, indices>>
<1> DEFINE p == FilePlace(at)
<1>1. word \in Seq(Para) /\ Len(word) \in Nat /\ Len(word) > 0  BY IndexFacts
<1>2. /\ Written(k) \in Para /\ <<k>> \in Seq(0..MaxEdits)
      /\ <<>> \in Seq(0..MaxEdits)
  BY WrittenType, EmptySeq
<1>3. FileHas(at) => /\ Index(at) = p /\ Index(at) # 0
                     /\ indices[at + 1] = p
                     /\ at + 1 \in 1..Len(cached)
                     /\ p \in 1..Len(word) /\ p + 1 \in 1..(Len(word) + 1)
  <2> SUFFICES ASSUME FileHas(at)
               PROVE  /\ Index(at) = p /\ Index(at) # 0
                      /\ indices[at + 1] = p
                      /\ at + 1 \in 1..Len(cached)
                      /\ p \in 1..Len(word) /\ p + 1 \in 1..(Len(word) + 1)
    OBVIOUS
  <2>1. Index(at) = p /\ Index(at) # 0 /\ indices[at + 1] = p
    BY SamePlace
  <2>2. at + 1 \in 1..Len(cached) /\ indices[at + 1] # 0
    BY <2>1, FileFound
  <2>3. p \in 1..Len(word)  BY <2>1, <2>2, IndexFacts
  <2> HIDE DEF p
  <2>4. p + 1 \in 1..(Len(word) + 1)  BY <1>1, <2>3
  <2> QED BY <2>1, <2>2, <2>3, <2>4
<1>4. ~FileHas(at) => Index(at) = 0  BY SamePlace
<1>5. Last(word) = word[Len(word)] /\ Len(word) \in 1..Len(word)
  BY <1>1 DEF Last
<1>6. ASSUME WordInsert(at, k), FileHas(at)
      PROVE  Grown(word', word, p + 1, Written(k)) /\ indices' = Shifted(p, 1)
  <2>1. word' = InsertAt(word, p + 1, Written(k)) /\ indices' = Shifted(p, 1)
    BY <1>3, <1>6 DEF WordInsert
  <2> HIDE DEF p
  <2>2. Grown(word', word, p + 1, Written(k))
    BY <1>1, <1>2, <1>3, <1>6, <2>1, InsertAtGrows
  <2> QED BY <2>1, <2>2
<1>7. ASSUME WordInsert(at, k), ~FileHas(at)
      PROVE  /\ indices' = indices
             /\ IF word[Len(word)].text = <<>>
                  THEN Rewritten(word', word, Len(word), <<k>>)
                  ELSE Grown(word', word, Len(word) + 1, Written(k))
  <2>1. /\ indices' = indices
        /\ word' = IF word[Len(word)].text = <<>>
                     THEN [word EXCEPT ![Len(word)].text = <<k>>]
                     ELSE Append(word, Written(k))
    BY <1>4, <1>5, <1>7 DEF WordInsert
  <2>2. Rewritten([word EXCEPT ![Len(word)].text = <<k>>], word, Len(word),
                  <<k>>)
    BY <1>1, <1>2, <1>5, ExceptRewrites
  <2>3. Grown(Append(word, Written(k)), word, Len(word) + 1, Written(k))
    BY <1>1, <1>2, AppendGrows
  <2> QED BY <2>1, <2>2, <2>3
<1>8. ASSUME WordReplace(at, k)
      PROVE  IF FileHas(at) THEN Rewritten(word', word, p, <<k>>)
                            ELSE word' = word
  <2>1. FileHas(at) => word' = [word EXCEPT ![p].text = <<k>>]
    BY <1>3, <1>8 DEF WordReplace
  <2>2. ~FileHas(at) => word' = word  BY <1>4, <1>8 DEF WordReplace
  <2> HIDE DEF p
  <2>3. FileHas(at) =>
          Rewritten([word EXCEPT ![p].text = <<k>>], word, p, <<k>>)
    BY <1>1, <1>2, <1>3, ExceptRewrites
  <2> QED BY <2>1, <2>2, <2>3
<1>9. ASSUME WordAppendRun(at, k)
      PROVE  IF FileHas(at)
               THEN Rewritten(word', word, p, Append(word[p].text, k))
               ELSE word' = word
  <2> DEFINE t == Append(word[p].text, k)
  <2>1. FileHas(at) => word' = [word EXCEPT ![p].text = t]
    BY <1>3, <1>9 DEF WordAppendRun
  <2>2. ~FileHas(at) => word' = word  BY <1>4, <1>9 DEF WordAppendRun
  <2>3. FileHas(at) => t \in Seq(0..MaxEdits)
    <3> HIDE DEF p
    <3> QED BY <1>1, <1>3, TextAppended
  <2> HIDE DEF p, t
  <2>4. FileHas(at) => Rewritten([word EXCEPT ![p].text = t], word, p, t)
    BY <1>1, <1>3, <2>3, ExceptRewrites
  <2> QED BY <2>1, <2>2, <2>4 DEF t
<1>10. ASSUME WordDelete(at), FileHas(at)
       PROVE  IF p = Len(word)
                THEN /\ Rewritten(word', word, p, <<>>)
                     /\ indices' = [indices EXCEPT ![at + 1] = 0]
                ELSE /\ Shrunk(word', word, p)
                     /\ indices' = [Shifted(p, -1) EXCEPT ![at + 1] = 0]
  <2>1. CASE p = Len(word)
    <3>1. /\ word' = [word EXCEPT ![p].text = <<>>]
          /\ indices' = [indices EXCEPT ![at + 1] = 0]
      BY <1>3, <1>10, <2>1 DEF WordDelete, Blank
    <3> HIDE DEF p
    <3>2. Rewritten(word', word, p, <<>>)
      BY <1>1, <1>2, <1>3, <1>10, <3>1, ExceptRewrites
    <3> QED BY <2>1, <3>1, <3>2
  <2>2. CASE p # Len(word)
    <3>1. /\ word' = RemoveAt(word, p)
          /\ indices' = [Shifted(p, -1) EXCEPT ![at + 1] = 0]
      BY <1>3, <1>10, <2>2 DEF WordDelete
    <3> HIDE DEF p
    <3>2. Shrunk(word', word, p)
      BY <1>1, <1>3, <1>10, <3>1, RemoveAtShrinks
    <3> QED BY <2>2, <3>1, <3>2
  <2> QED BY <2>1, <2>2
<1>11. WordDelete(at) /\ ~FileHas(at) => UNCHANGED <<word, indices>>
  BY <1>4 DEF WordDelete
<1> QED BY <1>3, <1>6, <1>7, <1>8, <1>9, <1>10, <1>11

\* What the lemmas above need of an edit: its place in both documents, and that
\* what it writes is new.
LEMMA EditFacts ==
  ASSUME AgreeInv, NParas - 1 \notin prompts, NEW at \in (-1)..(NParas - 1),
         NEW k, k = Len(plan) + 1, k <= MaxEdits
  PROVE  /\ k \in 1..MaxEdits /\ Written(k) \in Para
         /\ Written(k).text = <<k>> /\ <<k>> # <<>> /\ Written(k).id >= NParas
         /\ \A i \in 1..Len(cached) : Written(k).id # cached[i]
         /\ Len(file) + 1 \in 1..(Len(file) + 1)
         /\ FileHas(at) =>
              /\ FilePlace(at) \in 1..Len(file)
              /\ FilePlace(at) \in 1..Len(word)
              /\ at + 1 \in 1..Len(cached)
              /\ indices[at + 1] = FilePlace(at)
              /\ FilePlace(at) \in Nat /\ FilePlace(at) > 0
              /\ FilePlace(at) + 1 \in 1..(Len(file) + 1)
<1> DEFINE p == FilePlace(at)
<1>1. Len(file) \in Nat  BY IndexFacts
<1>2. /\ k \in 1..MaxEdits /\ Written(k) \in Para /\ Written(k).text = <<k>>
      /\ <<k>> # <<>> /\ Written(k).id = NParas + k
  BY WrittenIsNew
<1>3. \A i \in 1..Len(cached) : Written(k).id # cached[i]
  <2> TAKE i \in 1..Len(cached)
  <2>1. cached[i] < NParas + k /\ cached[i] \in Originals
    BY WrittenIsNew, Aligned, CachedOrder
  <2> QED BY <1>2, <2>1, Bounds DEF Originals
<1>4. FileHas(at) => p \in 1..Len(file)  BY FileFound
<1>5. FileHas(at) => /\ p \in 1..Len(word) /\ at + 1 \in 1..Len(cached)
                     /\ indices[at + 1] = p
  BY <1>2, WordEffect
<1> HIDE DEF p
<1>6. p \in 1..Len(file) => p \in Nat /\ p > 0 /\ p + 1 \in 1..(Len(file) + 1)
  BY <1>1
<1>7. Written(k).id >= NParas /\ Len(file) + 1 \in 1..(Len(file) + 1)
  BY <1>1, <1>2, Bounds
<1> QED BY <1>2, <1>3, <1>4, <1>5, <1>6, <1>7 DEF p

\* The indices after a deletion at the place p of the index a.
LEMMA IndicesAfter ==
  ASSUME AgreeInv, NParas - 1 \notin prompts,
         NEW a \in 1..Len(cached), NEW p \in 1..Len(word), indices[a] = p,
         IF p = Len(word) THEN indices' = [indices EXCEPT ![a] = 0]
                          ELSE indices' = [Shifted(p, -1) EXCEPT ![a] = 0]
  PROVE  \A i \in 1..Len(cached) :
           indices'[i] = IF i = a THEN 0
                         ELSE IF indices[i] > p THEN indices[i] - 1
                         ELSE indices[i]
<1>1. /\ indices \in Seq(Nat) /\ Len(indices) = Len(cached)
      /\ Len(word) \in Nat /\ DOMAIN indices = 1..Len(cached)
      /\ p \in Nat /\ p > 0
  BY IndexFacts
<1>2. \A i \in 1..Len(cached) : indices[i] \in Nat  BY IndexFacts
<1>3. CASE p = Len(word)
  <2> TAKE i \in 1..Len(cached)
  <2>1. indices'[i] = IF i = a THEN 0 ELSE indices[i]  BY <1>1, <1>3
  <2>2. ~(indices[i] > p)  BY <1>1, <1>2, <1>3, IndexFacts
  <2> QED BY <2>1, <2>2
<1>4. CASE p # Len(word)
  <2>1. /\ Shifted(p, -1) \in Seq(Nat)
        /\ Len(Shifted(p, -1)) = Len(indices)
        /\ \A i \in 1..Len(indices) :
             Shifted(p, -1)[i] = IF indices[i] > p THEN indices[i] + (-1)
                                                   ELSE indices[i]
    BY <1>1, ShiftedType
  <2>2. a \in 1..Len(Shifted(p, -1)) /\ 0 \in Nat
    BY <1>1, <2>1
  <2>3. \A i \in 1..Len(Shifted(p, -1)) :
          [Shifted(p, -1) EXCEPT ![a] = 0][i]
            = IF i = a THEN 0 ELSE Shifted(p, -1)[i]
    BY ONLY <2>1, <2>2, ExceptSeq
  <2> TAKE i \in 1..Len(cached)
  <2>4. indices'[i] = IF i = a THEN 0 ELSE Shifted(p, -1)[i]
    BY <1>1, <1>4, <2>1, <2>3
  <2>5. indices[i] + (-1) = indices[i] - 1  BY <1>2
  <2> QED BY <1>1, <2>1, <2>4, <2>5
<1> QED BY <1>3, <1>4

\* Each edit leaves the indices alike.
LEMMA IndexKept ==
  ASSUME AgreeInv, NParas - 1 \notin prompts, NEW at \in (-1)..(NParas - 1),
         NEW k, k = Len(plan) + 1, k <= MaxEdits, cached' = cached,
         \/ Insert(at, k) \/ Replace(at, k) \/ AppendRun(at, k) \/ Delete(at)
  PROVE  IndexedAlike'
<1> DEFINE p == FilePlace(at)
<1>1. /\ file \in Seq(Para) /\ Len(file) \in Nat
      /\ indices \in Seq(Nat) /\ Len(indices) = Len(cached)
      /\ k \in 1..MaxEdits
  BY IndexFacts, EditFacts
<1>2. CASE Insert(at, k)
  <2>0. FileInsert(at, k) /\ WordInsert(at, k)  BY <1>2 DEF Insert
  <2>1. CASE FileHas(at)
    <3>1. Grown(file', file, p + 1, Written(k)) /\ indices' = Shifted(p, 1)
      BY <1>1, <2>0, <2>1, FileEffect, WordEffect
    <3>2. p \in Nat /\ p > 0 /\ p + 1 \in 1..(Len(file) + 1)
      BY <2>1, EditFacts
    <3> HIDE DEF p
    <3>3. ASSUME NEW i \in 1..Len(cached)
          PROVE  indices'[i] = IF indices[i] >= p + 1 THEN indices[i] + 1
                                                      ELSE indices[i]
      <4>1. indices[i] \in Nat  BY IndexFacts
      <4>2. indices'[i] = IF indices[i] > p THEN indices[i] + 1
                                            ELSE indices[i]
        BY <1>1, <3>1, <3>2, ShiftedType
      <4> QED BY <3>2, <4>1, <4>2
    <3> QED BY <3>1, <3>2, <3>3, EditFacts, IndexGrown
  <2>2. CASE ~FileHas(at)
    <3>1. /\ Grown(file', file, Len(file) + 1, Written(k))
          /\ indices' = indices
      BY <1>1, <2>0, <2>2, FileEffect, WordEffect
    <3>2. ASSUME NEW i \in 1..Len(cached)
          PROVE  indices'[i] = IF indices[i] >= Len(file) + 1
                                 THEN indices[i] + 1 ELSE indices[i]
      <4>1. /\ indices[i] \in Nat
            /\ indices[i] = 0 \/ indices[i] \in 1..Len(file)
        BY IndexFacts
      <4>2. ~(indices[i] >= Len(file) + 1)  BY <1>1, <4>1
      <4> QED BY <3>1, <4>2
    <3> QED BY <3>1, <3>2, EditFacts, IndexGrown
  <2> QED BY <2>1, <2>2
<1>3. CASE Replace(at, k)
  <2>1. FileReplace(at, k) /\ indices' = indices  BY <1>3 DEF Replace
  <2>2. CASE FileHas(at)
    <3>1. Rewritten(file', file, p, <<k>>)  BY <2>1, <2>2, FileEffect
    <3> QED BY <2>1, <3>1, IndexRewritten
  <2>3. CASE ~FileHas(at)
    <3>1. file' = file  BY <2>1, <2>3, FileEffect
    <3> QED BY <2>1, <3>1 DEF AgreeInv, IndexedAlike, Present
  <2> QED BY <2>2, <2>3
<1>4. CASE AppendRun(at, k)
  <2>1. FileAppendRun(at, k) /\ indices' = indices  BY <1>4 DEF AppendRun
  <2>2. CASE FileHas(at)
    <3>1. Rewritten(file', file, p, Append(file[p].text, k))
      BY <2>1, <2>2, FileEffect
    <3> QED BY <2>1, <3>1, IndexRewritten
  <2>3. CASE ~FileHas(at)
    <3>1. file' = file  BY <2>1, <2>3, FileEffect
    <3> QED BY <2>1, <3>1 DEF AgreeInv, IndexedAlike, Present
  <2> QED BY <2>2, <2>3
<1>5. CASE Delete(at)
  <2>0. FileDelete(at) /\ WordDelete(at)  BY <1>5 DEF Delete
  <2>1. CASE FileHas(at)
    <3> DEFINE a == at + 1
    <3>1. /\ Shrunk(file', file, p)
          /\ IF p = Len(word) THEN indices' = [indices EXCEPT ![a] = 0]
                         ELSE indices' = [Shifted(p, -1) EXCEPT ![a] = 0]
      BY <1>1, <2>0, <2>1, FileEffect, WordEffect
    <3>2. /\ a \in 1..Len(cached) /\ indices[a] = p /\ p \in 1..Len(file)
          /\ p \in 1..Len(word)
      BY <2>1, EditFacts
    <3> HIDE DEF p, a
    <3>3. \A i \in 1..Len(cached) :
            indices'[i] = IF i = a THEN 0
                          ELSE IF indices[i] > p THEN indices[i] - 1
                          ELSE indices[i]
      BY <3>1, <3>2, IndicesAfter
    <3> QED BY <3>1, <3>2, <3>3, IndexShrunk
  <2>2. CASE ~FileHas(at)
    <3>1. file' = file /\ indices' = indices
      BY <1>1, <2>0, <2>2, FileEffect, WordEffect
    <3> QED BY <3>1 DEF AgreeInv, IndexedAlike, Present
  <2> QED BY <2>1, <2>2
<1> QED BY <1>2, <1>3, <1>4, <1>5

\* Each edit leaves Word's last paragraph last, or writes one after it.
LEMMA EndKept ==
  ASSUME AgreeInv, NParas - 1 \notin prompts, NEW at \in (-1)..(NParas - 1),
         NEW k, k = Len(plan) + 1, k <= MaxEdits,
         \/ Insert(at, k) \/ Replace(at, k) \/ AppendRun(at, k) \/ Delete(at)
  PROVE  WordEnds'
<1> DEFINE p == FilePlace(at)
<1>1. /\ word \in Seq(Para) /\ Len(word) \in Nat /\ Len(word) > 0
      /\ Len(word) \in 1..Len(word) /\ word[Len(word)].id >= NParas - 1
  BY IndexFacts
<1>2. /\ k \in 1..MaxEdits /\ Written(k) \in Para /\ Written(k).id >= NParas
      /\ FileHas(at) => p \in 1..Len(word)
  BY EditFacts
<1>3. ASSUME NEW n \in 1..(Len(word) + 1), Grown(word', word, n, Written(k))
      PROVE  WordEnds'
  <2>1. Len(word') = Len(word) + 1  BY <1>3 DEF Grown
  <2>2. CASE n = Len(word) + 1
    <3>1. word'[n] = Written(k)  BY <1>1, <1>2, <1>3, <2>2, GrownPlaces
    <3>2. Written(k).id \in Nat  BY <1>2 DEF Para
    <3> QED BY <1>2, <2>1, <2>2, <3>1, <3>2, Bounds DEF WordEnds
  <2>3. CASE n # Len(word) + 1
    <3>1. Len(word) >= n  BY <1>1, <2>3
    <3>2. word'[Len(word) + 1] = word[Len(word)]
      BY <1>1, <1>2, <1>3, <3>1, GrownPlaces
    <3> QED BY <1>1, <2>1, <3>2 DEF WordEnds
  <2> QED BY <2>2, <2>3
<1>4. ASSUME NEW j, NEW t, Rewritten(word', word, j, t)
      PROVE  WordEnds'
  BY <1>1, <1>4 DEF Rewritten, WordEnds
<1>5. ASSUME NEW j \in 1..Len(word), j # Len(word), Shrunk(word', word, j)
      PROVE  WordEnds'
  <2>1. Len(word') = Len(word) - 1  BY <1>5 DEF Shrunk
  <2>2. /\ Len(word) > j /\ Len(word') >= j /\ Len(word') \in 1..Len(word')
        /\ Len(word') + 1 = Len(word)
    BY <1>1, <1>5, <2>1
  <2>3. word'[Len(word')] = word[Len(word)]
    BY <1>1, <1>5, <2>2, ShrunkPlaces
  <2> QED BY <1>1, <2>3 DEF WordEnds
<1>6. word' = word => WordEnds'  BY <1>1 DEF WordEnds
<1>7. CASE Insert(at, k)
  <2>1. WordInsert(at, k)  BY <1>7 DEF Insert
  <2>2. CASE FileHas(at)
    <3>1. Grown(word', word, p + 1, Written(k))
      BY <1>2, <2>1, <2>2, WordEffect
    <3> HIDE DEF p
    <3>2. p + 1 \in 1..(Len(word) + 1)  BY <1>1, <1>2, <2>2
    <3> QED BY <1>3, <3>1, <3>2
  <2>3. CASE ~FileHas(at)
    <3>1. IF word[Len(word)].text = <<>>
            THEN Rewritten(word', word, Len(word), <<k>>)
            ELSE Grown(word', word, Len(word) + 1, Written(k))
      BY <1>2, <2>1, <2>3, WordEffect
    <3>2. Len(word) + 1 \in 1..(Len(word) + 1)  BY <1>1
    <3> QED BY <1>3, <1>4, <3>1, <3>2
  <2> QED BY <2>2, <2>3
<1>8. CASE Replace(at, k)
  <2>1. WordReplace(at, k)  BY <1>8 DEF Replace
  <2>2. Rewritten(word', word, p, <<k>>) \/ word' = word
    BY <1>2, <2>1, WordEffect
  <2> QED BY <1>4, <1>6, <2>2
<1>9. CASE AppendRun(at, k)
  <2>1. WordAppendRun(at, k)  BY <1>9 DEF AppendRun
  <2>2. \/ Rewritten(word', word, p, Append(word[p].text, k))
        \/ word' = word
    BY <1>2, <2>1, WordEffect
  <2> QED BY <1>4, <1>6, <2>2
<1>10. CASE Delete(at)
  <2>1. WordDelete(at)  BY <1>10 DEF Delete
  <2>2. \/ Rewritten(word', word, p, <<>>)
        \/ FileHas(at) /\ p # Len(word) /\ Shrunk(word', word, p)
        \/ word' = word
    BY <1>2, <2>1, WordEffect
  <2> HIDE DEF p
  <2> QED BY <1>2, <1>4, <1>5, <1>6, <2>2
<1> QED BY <1>7, <1>8, <1>9, <1>10

\* Each edit leaves the documents side by side.
LEMMA SideKept ==
  ASSUME AgreeInv, NParas - 1 \notin prompts \cup blanks,
         NEW at \in (-1)..(NParas - 1),
         NEW k, k = Len(plan) + 1, k <= MaxEdits, cached' = cached,
         \/ Insert(at, k) \/ Replace(at, k) \/ AppendRun(at, k) \/ Delete(at)
  PROVE  SideBySide'
<1> DEFINE p == FilePlace(at)
<1>1. /\ file \in Seq(Para) /\ Len(file) \in Nat
      /\ word \in Seq(Para) /\ Len(word) \in Nat /\ Len(word) > 0
      /\ NParas - 1 \notin prompts
  BY SideFacts
<1>2. /\ k \in 1..MaxEdits /\ Written(k) \in Para /\ Written(k).text = <<k>>
      /\ <<k>> # <<>> /\ Written(k).id >= NParas
      /\ Len(file) + 1 \in 1..(Len(file) + 1)
  BY <1>1, EditFacts
<1>3. FileHas(at) => /\ p \in 1..Len(file) /\ p \in 1..Len(word)
                     /\ at + 1 \in 1..Len(cached) /\ indices[at + 1] = p
                     /\ p + 1 \in 1..(Len(file) + 1)
  BY <1>1, EditFacts
<1>4. file' = file /\ word' = word => SideBySide'
  BY DEF AgreeInv, SideBySide
<1>5. CASE Insert(at, k)
  <2>0. FileInsert(at, k) /\ WordInsert(at, k)  BY <1>5 DEF Insert
  <2>1. CASE FileHas(at)
    <3>1. /\ Grown(file', file, p + 1, Written(k))
          /\ Grown(word', word, p + 1, Written(k))
      BY <1>1, <1>2, <2>0, <2>1, FileEffect, WordEffect
    <3> HIDE DEF p
    <3> QED BY <1>2, <1>3, <2>1, <3>1, SideGrown
  <2>2. CASE ~FileHas(at)
    <3>1. /\ Grown(file', file, Len(file) + 1, Written(k))
          /\ IF word[Len(word)].text = <<>>
               THEN Rewritten(word', word, Len(word), <<k>>)
               ELSE Grown(word', word, Len(word) + 1, Written(k))
      BY <1>1, <1>2, <2>0, <2>2, FileEffect, WordEffect
    <3>2. CASE word[Len(word)].text = <<>>
      <4>1. Len(word) = Len(file) + 1  BY <3>2, SideFacts
      <4>2. Rewritten(word', word, Len(word), Written(k).text)
        BY <1>2, <3>1, <3>2
      <4> QED BY <1>2, <3>1, <4>1, <4>2, SideFilled
    <3>3. CASE word[Len(word)].text # <<>>
      <4>1. Len(word) = Len(file)  BY <3>3, SideFacts
      <4>2. Grown(word', word, Len(file) + 1, Written(k))
        BY <3>1, <3>3, <4>1
      <4> QED BY <1>2, <3>1, <4>2, SideGrown
    <3> QED BY <3>2, <3>3
  <2> QED BY <2>1, <2>2
<1>6. CASE Replace(at, k)
  <2>0. FileReplace(at, k) /\ WordReplace(at, k)
    BY <1>6 DEF Replace
  <2>1. CASE FileHas(at)
    <3>1. Rewritten(file', file, p, <<k>>) /\ Rewritten(word', word, p, <<k>>)
      BY <1>1, <1>2, <2>0, <2>1, FileEffect, WordEffect
    <3> QED BY <1>2, <1>3, <2>1, <3>1, SideRewritten
  <2>2. CASE ~FileHas(at)
    <3>1. file' = file /\ word' = word
      BY <1>1, <1>2, <2>0, <2>2, FileEffect, WordEffect
    <3> QED BY <1>4, <3>1
  <2> QED BY <2>1, <2>2
<1>7. CASE AppendRun(at, k)
  <2>0. FileAppendRun(at, k) /\ WordAppendRun(at, k)
    BY <1>7 DEF AppendRun
  <2>1. CASE FileHas(at)
    <3> DEFINE t == Append(file[p].text, k)
    <3>1. /\ Rewritten(file', file, p, t)
          /\ Rewritten(word', word, p, Append(word[p].text, k))
      BY <1>1, <1>2, <2>0, <2>1, FileEffect, WordEffect
    <3>2. file[p].text = word[p].text  BY <1>3, <2>1, SideFacts
    <3>3. t # <<>>
      <4>1. file[p] \in Para  BY <1>1, <1>3, <2>1, ElementOfSeq
      <4>2. file[p].text \in Seq(0..MaxEdits) /\ k \in 0..MaxEdits
        BY <1>2, <4>1, Bounds DEF Para
      <4>3. Len(t) = Len(file[p].text) + 1 /\ Len(file[p].text) \in Nat
        BY <4>2, AppendProperties, LenProperties
      <4>4. Len(t) # 0  BY <4>3
      <4> QED BY <4>4, EmptySeq
    <3>4. Rewritten(word', word, p, t)  BY <3>1, <3>2
    <3> HIDE DEF t
    <3> QED BY <1>3, <2>1, <3>1, <3>3, <3>4, SideRewritten
  <2>2. CASE ~FileHas(at)
    <3>1. file' = file /\ word' = word
      BY <1>1, <1>2, <2>0, <2>2, FileEffect, WordEffect
    <3> QED BY <1>4, <3>1
  <2> QED BY <2>1, <2>2
<1>8. CASE Delete(at)
  <2>0. FileDelete(at) /\ WordDelete(at)  BY <1>8 DEF Delete
  <2>1. CASE FileHas(at) /\ p = Len(word)
    <3> DEFINE a == at + 1
    <3>1. /\ Shrunk(file', file, p) /\ Rewritten(word', word, p, <<>>)
          /\ indices' = [indices EXCEPT ![a] = 0]
      BY <1>1, <1>2, <2>0, <2>1, FileEffect, WordEffect
    <3>2. /\ a \in 1..Len(cached) /\ indices[a] = p /\ p \in 1..Len(file)
          /\ p \in 1..Len(word) /\ p = Len(word)
      BY <1>3, <2>1
    <3> HIDE DEF p, a
    <3>3. \A i \in 1..Len(cached) :
            indices'[i] = IF i = a THEN 0
                          ELSE IF indices[i] > p THEN indices[i] - 1
                          ELSE indices[i]
      BY <1>1, <3>1, <3>2, IndicesAfter
    <3>4. \A q \in 1..Len(file') : file'[q].id # cached[a]
      BY <1>1, <3>1, <3>2, <3>3, IndexShrunk
    <3> QED BY <3>1, <3>2, <3>4, SideBlanked
  <2>2. CASE FileHas(at) /\ p # Len(word)
    <3>1. Shrunk(file', file, p) /\ Shrunk(word', word, p)
      BY <1>1, <1>2, <2>0, <2>2, FileEffect, WordEffect
    <3> QED BY <1>3, <2>2, <3>1, SideShrunk
  <2>3. CASE ~FileHas(at)
    <3>1. file' = file /\ word' = word
      BY <1>1, <1>2, <2>0, <2>3, FileEffect, WordEffect
    <3> QED BY <1>4, <3>1
  <2> QED BY <2>1, <2>2, <2>3
<1> QED BY <1>5, <1>6, <1>7, <1>8

-----------------------------------------------------------------------------
(* The same document whether Word was open or not *)

\* The documents the edits begin with: nothing but the cached originals.
LEMMA InitFile ==
  ASSUME Init
  PROVE  /\ file \in Seq(Para) /\ Len(file) = Len(cached)
         /\ DOMAIN file = 1..Len(cached)
         /\ \A p \in 1..Len(cached) : file[p] = Original(cached[p])
<1>1. /\ DOMAIN cached = 1..Len(cached)
      /\ file = [i \in DOMAIN cached |-> Original(cached[i])]
  BY CachedOrder DEF Init
<1>2. file \in Seq(Para)
  BY InitInv DEF IInv, TypeOK, Para
<1>3. DOMAIN file = 1..Len(file) /\ Len(file) \in Nat  BY <1>2, LenProperties
<1>4. Len(file) = Len(cached)
  <2>1. Len(cached) \in Nat  BY CachedOrder DEF Init
  <2>2. 1..Len(file) = 1..Len(cached)  BY <1>1, <1>3
  <2> QED BY <1>2, <1>1, <2>1, LenProperties
<1> QED BY <1>1, <1>2, <1>4

\* With nothing but the cached originals in both documents (and Word's blank
\* last paragraph, if that was a prompt) they are side by side.
LEMMA InitAgree == Init => AgreeInv
<1> SUFFICES ASSUME Init PROVE AgreeInv  OBVIOUS
<1>1. IInv /\ cached \in Remaining  BY InitInv DEF Init
<1>2. /\ file \in Seq(Para) /\ Len(file) = Len(cached)
      /\ DOMAIN file = 1..Len(cached)
      /\ \A p \in 1..Len(cached) :
           /\ file[p].id = cached[p]
           /\ file[p].text = IF cached[p] \in blanks THEN <<>> ELSE <<0>>
  BY InitFile DEF Original
<1>3. /\ Len(cached) \in Nat
      /\ \A i, j \in 1..Len(cached) : cached[i] = cached[j] => i = j
      /\ \A i \in 1..Len(cached) : cached[i] \in Nat /\ cached[i] <= NParas
  <2>1. \A x \in Originals : x \in Nat /\ x <= NParas
    BY Bounds DEF Originals
  <2> QED BY <1>1, <2>1, CachedOrder
<1>4. FileIds
  <2>1. plan = <<>> /\ Len(plan) = 0  BY DEF Init
  <2> QED BY <1>2, <1>3, <2>1, Bounds DEF FileIds, Distinct
<1>5. NParas - 1 \notin prompts =>
        word = file /\ \A i \in 1..Len(cached) : indices[i] = i
  BY <1>2 DEF Init
<1>6. NParas - 1 \notin prompts =>
        /\ Len(cached) \in 1..Len(cached)
        /\ cached[Len(cached)] = NParas - 1
  <2> SUFFICES ASSUME NParas - 1 \notin prompts
               PROVE  /\ Len(cached) \in 1..Len(cached)
                      /\ cached[Len(cached)] = NParas - 1
    OBVIOUS
  <2>1. PICK i \in 1..Len(cached) : cached[i] = NParas - 1
    <3>1. NParas - 1 \in Originals  BY Bounds DEF Originals
    <3> QED BY <1>1, <3>1, CachedOrder
  <2>2. Len(cached) \in 1..Len(cached)  BY <1>3, <2>1
  <2>3. cached[Len(cached)] \in 0..(NParas - 1)
    BY <1>1, <2>2, CachedOrder DEF Originals
  <2>4. i < Len(cached) => cached[i] < cached[Len(cached)]
    BY <1>1, <2>2, CachedOrder
  <2> QED BY <1>3, <2>1, <2>2, <2>3, <2>4, Bounds
<1>7. NParas - 1 \notin prompts => IndexedAlike /\ WordEnds
  <2> SUFFICES ASSUME NParas - 1 \notin prompts
               PROVE  IndexedAlike /\ WordEnds
    OBVIOUS
  <2>1. ASSUME NEW i \in 1..Len(cached)
        PROVE  /\ indices[i] # 0
               /\ indices[i] \in 1..Len(file) /\ file[indices[i]].id = cached[i]
    BY <1>2, <1>3, <1>5
  <2>2. word[Len(word)].id = NParas - 1  BY <1>2, <1>5, <1>6
  <2> QED BY <2>1, <2>2, Bounds DEF IndexedAlike, WordEnds
<1>8. NParas - 1 \notin prompts \cup blanks => SideBySide
  <2> SUFFICES ASSUME NParas - 1 \notin prompts \cup blanks
               PROVE  SideBySide
    OBVIOUS
  <2>1. word = file /\ Len(file) = Len(cached)  BY <1>2, <1>5
  <2>2. file[Len(cached)].text = <<0>> /\ <<0>> # <<>>  BY <1>2, <1>6
  <2> QED BY <2>1, <2>2 DEF SideBySide
<1> QED BY <1>1, <1>4, <1>7, <1>8 DEF AgreeInv

\* Every edit, through python-docx and through COM, keeps AgreeInv.
LEMMA AgreeInductive == AgreeInv /\ [Next]_vars => AgreeInv'
<1> SUFFICES ASSUME AgreeInv, [Next]_vars PROVE AgreeInv'  OBVIOUS
<1>1. IInv'  BY Inductive DEF AgreeInv
<1>2. CASE UNCHANGED vars
  BY <1>1, <1>2
     DEF vars, AgreeInv, FileIds, Distinct, SideBySide, IndexedAlike,
         WordEnds, Remaining, Present
<1>3. ASSUME NEW e \in Edits, Apply(e)  PROVE AgreeInv'
  <2> DEFINE k == Len(plan) + 1
  <2>1. plan \in Seq(Edits) /\ Len(plan) \in Nat /\ k <= MaxEdits
    BY <1>3, Aligned, Bounds DEF Apply
  <2>2. e.at \in (-1)..(NParas - 1)
    BY Bounds DEF Edits, Originals
  <2>3. /\ plan' = Append(plan, e) /\ prompts' = prompts
        /\ blanks' = blanks /\ cached' = cached
        /\ \/ Insert(e.at, k) \/ Replace(e.at, k) \/ AppendRun(e.at, k)
           \/ Delete(e.at)
    BY <1>3 DEF Apply
  <2>4. Len(plan') = k  BY <2>1, <2>3, AppendProperties
  <2>5. k = Len(plan) + 1  OBVIOUS
  <2> HIDE DEF k
  <2>6. \/ FileInsert(e.at, k) \/ FileReplace(e.at, k)
        \/ FileAppendRun(e.at, k) \/ FileDelete(e.at)
    BY <2>3 DEF Insert, Replace, AppendRun, Delete
  <2>7. FileIds'  BY <2>1, <2>4, <2>5, <2>6, FileIdsKept
  <2>8. NParas - 1 \notin prompts => IndexedAlike' /\ WordEnds'
    BY <2>1, <2>2, <2>3, <2>5, IndexKept, EndKept
  <2>10. NParas - 1 \notin prompts \cup blanks => SideBySide'
    BY <2>1, <2>2, <2>3, <2>5, SideKept
  <2>9. cached' \in Remaining'
    BY <2>3, Aligned DEF Remaining
  <2> QED BY <1>1, <2>3, <2>7, <2>8, <2>9, <2>10 DEF AgreeInv
<1> QED BY <1>2, <1>3 DEF Next

\* Documents side by side say the same, but for Word's blank paragraph.
LEMMA SideShows ==
  ASSUME AgreeInv, NParas - 1 \notin prompts \cup blanks
  PROVE  \/ Says(word) = Says(file)
         \/ /\ ~Present(file, NParas - 1)
            /\ Says(word) = Append(Says(file), <<>>)
<1>1. /\ DOMAIN word = 1..Len(word) /\ DOMAIN file = 1..Len(file)
      /\ Len(file) \in Nat /\ Len(word) \in Nat
      /\ file \in Seq(Para) /\ word \in Seq(Para)
  BY SideFacts, LenProperties
<1>2. /\ Says(word) = [p \in 1..Len(word) |-> word[p].text]
      /\ Says(file) = [p \in 1..Len(file) |-> file[p].text]
  BY <1>1 DEF Says
<1>3. \A p \in 1..Len(file) : p \in 1..Len(word) /\ word[p].text = file[p].text
  BY SideFacts
<1>4. CASE Len(word) = Len(file)
  BY <1>2, <1>3, <1>4
<1>5. CASE /\ Len(word) = Len(file) + 1 /\ word[Len(word)].text = <<>>
           /\ \A p \in 1..Len(file) : file[p].id # NParas - 1
  <2>1. ~Present(file, NParas - 1)  BY <1>1, <1>5 DEF Present
  <2>2. Says(file) \in Seq(Seq(0..MaxEdits))
    <3>1. \A p \in 1..Len(file) : file[p].text \in Seq(0..MaxEdits)
      <4> TAKE p \in 1..Len(file)
      <4>1. file[p] \in Para  BY <1>1, ElementOfSeq
      <4> QED BY <4>1 DEF Para
    <3>2. Says(file) \in [1..Len(file) -> Seq(0..MaxEdits)]  BY <1>2, <3>1
    <3> QED BY <1>1, <3>2, SeqDef
  <2>3. Len(Says(file)) = Len(file)
    <3>1. DOMAIN Says(file) = 1..Len(file)  BY <1>2
    <3> QED BY <1>1, <2>2, <3>1, LenProperties
  <2>4. <<>> \in Seq(0..MaxEdits)  BY EmptySeq
  <2> DEFINE s == Append(Says(file), <<>>)
  <2>5. /\ s \in Seq(Seq(0..MaxEdits)) /\ Len(s) = Len(file) + 1
        /\ \A p \in 1..Len(file) : s[p] = Says(file)[p]
        /\ s[Len(file) + 1] = <<>>
    BY <2>2, <2>3, <2>4, AppendProperties
  <2> HIDE DEF s
  <2>6. DOMAIN s = 1..Len(word)  BY <1>5, <2>5, LenProperties
  <2>7. s = [p \in DOMAIN s |-> s[p]]
    <3>1. s \in [1..Len(s) -> Seq(0..MaxEdits)]  BY <2>5, SeqDef, LenProperties
    <3> QED BY <3>1
  <2>8. \A p \in 1..Len(word) : s[p] = word[p].text
    <3> TAKE p \in 1..Len(word)
    <3>1. CASE p \in 1..Len(file)  BY <1>2, <1>3, <2>5, <3>1
    <3>2. CASE p \notin 1..Len(file)
      <4>1. p = Len(word) /\ p = Len(file) + 1  BY <1>1, <1>5, <3>2
      <4> QED BY <1>5, <2>5, <4>1
    <3> QED BY <3>1, <3>2
  <2>9. s = Says(word)
    <3>1. s = [p \in 1..Len(word) |-> s[p]]  BY <2>6, <2>7
    <3> QED BY <1>2, <2>8, <3>1
  <2> QED BY <2>1, <2>9 DEF s
<1> QED BY <1>4, <1>5, SideFacts

\* The document is the same whether Word was open or not: write_docx and
\* _try_com_write leave the same texts in the same order after any plan, but
\* for the blank paragraph that Word keeps for a deleted last one, unless the
\* document that was read ends in a prompt or in a blank paragraph.
THEOREM PathsAgreeAlways == Spec => []PathsAgree
<1>1. AgreeInv => PathsAgree  BY SideShows DEF PathsAgree
<1> QED BY <1>1, InitAgree, AgreeInductive, PTL DEF Spec

-----------------------------------------------------------------------------
(* The edits in reverse index order *)

\* Induction on the natural numbers, from the least number that is not in T.
LEMMA Induction ==
  ASSUME NEW T, 0 \in T, \A n \in Nat : n \in T => n + 1 \in T
  PROVE  Nat \subseteq T
<1> SUFFICES ASSUME Nat \ T # {}  PROVE FALSE  OBVIOUS
<1> DEFINE R == OpToRel(<, Nat)
<1>1. IsWellFoundedOn(R, Nat)  BY NatLessThanWellFounded
<1>2. \A x, y \in Nat : x < y => <<x, y>> \in R  BY DEF OpToRel
<1> HIDE DEF R
<1>3. Nat \ T \subseteq Nat  OBVIOUS
<1>4. PICK x \in Nat \ T : \A y \in Nat \ T : ~ (<<y, x>> \in R)
  BY <1>1, <1>3, WFMin
<1>5. x # 0  OBVIOUS
<1>6. x - 1 \in Nat /\ x - 1 < x  BY <1>5
<1>7. x - 1 \in T  BY <1>2, <1>4, <1>6
<1>8. (x - 1) + 1 = x  OBVIOUS
<1> QED BY <1>6, <1>7, <1>8

\* One edit of the plan, if it has the index.
Turn(d, at, k) == IF plan[k].at = at THEN SortedApply(d, plan[k], k) ELSE d

\* The recursive function in AtIndex exists: it is made step by step.
LEMMA AtIndexExists ==
  ASSUME NEW doc, NEW at, NEW n \in Nat
  PROVE  \E f : f = [k \in 0..n |->
                       IF k = 0 THEN doc ELSE Turn(f[k - 1], at, k)]
<1> DEFINE T == { m \in Nat :
                    \E f : f = [k \in 0..m |->
                                  IF k = 0 THEN doc
                                  ELSE Turn(f[k - 1], at, k)] }
<1>1. 0 \in T
  <2> DEFINE f == [k \in 0..0 |-> doc]
  <2>1. f = [k \in 0..0 |-> IF k = 0 THEN doc ELSE Turn(f[k - 1], at, k)]
    OBVIOUS
  <2> HIDE DEF f
  <2> QED BY <2>1
<1>2. ASSUME NEW m \in Nat, m \in T  PROVE m + 1 \in T
  <2>1. PICK f : f = [k \in 0..m |->
                        IF k = 0 THEN doc ELSE Turn(f[k - 1], at, k)]
    BY <1>2
  <2> DEFINE g == [k \in 0..(m + 1) |->
                     IF k = m + 1 THEN Turn(f[m], at, m + 1) ELSE f[k]]
  <2>2. \A k \in 0..m : g[k] = f[k]  OBVIOUS
  <2>3. g[m + 1] = Turn(g[m], at, m + 1)  OBVIOUS
  <2>4. \A k \in 0..m : f[k] = IF k = 0 THEN doc ELSE Turn(f[k - 1], at, k)
    BY <2>1
  <2>5. g = [k \in 0..(m + 1) |-> g[k]]  OBVIOUS
  <2> HIDE DEF g
  <2>6. ASSUME NEW k \in 0..(m + 1)
        PROVE  g[k] = IF k = 0 THEN doc ELSE Turn(g[k - 1], at, k)
    <3>1. CASE k = m + 1  BY <2>3, <3>1
    <3>2. CASE k # m + 1
      <4>1. k \in 0..m /\ (k = 0 \/ k - 1 \in 0..m)  BY <3>2
      <4>2. g[k] = f[k] /\ (k # 0 => g[k - 1] = f[k - 1])  BY <2>2, <4>1
      <4> QED BY <2>4, <4>1, <4>2
    <3> QED BY <3>1, <3>2
  <2>7. g = [k \in 0..(m + 1) |->
               IF k = 0 THEN doc ELSE Turn(g[k - 1], at, k)]
    BY <2>5, <2>6
  <2> QED BY <2>7
<1>3. Nat \subseteq T
  <2> HIDE DEF T
  <2> QED BY <1>1, <1>2, Induction
<1> QED BY <1>3

\* What the edits of one index keep: a set of documents for each number of
\* edits looked at.
LEMMA AtIndexStays ==
  ASSUME NEW doc, NEW at, Len(plan) \in Nat, NEW G, doc \in G[0],
         \A k \in 1..Len(plan) : \A d \in G[k - 1] : Turn(d, at, k) \in G[k]
  PROVE  AtIndex(doc, at) \in G[Len(plan)]
<1> DEFINE after[k \in 0..Len(plan)] ==
             IF k = 0 THEN doc
             ELSE IF plan[k].at = at THEN SortedApply(after[k - 1], plan[k], k)
             ELSE after[k - 1]
<1>1. after = [k \in 0..Len(plan) |->
                 IF k = 0 THEN doc ELSE Turn(after[k - 1], at, k)]
  BY AtIndexExists DEF Turn
<1>2. AtIndex(doc, at) = after[Len(plan)]  BY DEF AtIndex
<1> HIDE DEF after
<1> DEFINE T == { m \in Nat : m <= Len(plan) => after[m] \in G[m] }
<1>3. 0 \in T  BY <1>1
<1>4. ASSUME NEW m \in Nat, m \in T  PROVE m + 1 \in T
  <2> SUFFICES ASSUME m + 1 <= Len(plan)  PROVE after[m + 1] \in G[m + 1]
    OBVIOUS
  <2>1. m + 1 \in 1..Len(plan) /\ (m + 1) - 1 = m /\ m <= Len(plan)
    OBVIOUS
  <2>2. after[m] \in G[m]  BY <1>4, <2>1
  <2>3. after[m + 1] = Turn(after[m], at, m + 1)  BY <1>1, <2>1
  <2> QED BY <2>1, <2>2, <2>3
<1>5. Nat \subseteq T
  <2> HIDE DEF T
  <2> QED BY <1>3, <1>4, Induction
<1> QED BY <1>2, <1>5

\* The recursive function in Sorted goes down the indices, one edit a step.
Downwards(f, start, n) ==
  f = [j \in 0..n |-> IF j = 0 THEN start
                      ELSE AtIndex(f[j - 1], SortedIndex(j))]
\* Such a function exists for every start and every number of steps.
LEMMA SortedExists ==
  ASSUME NEW start, NEW n \in Nat
  PROVE  \E f : Downwards(f, start, n)
<1> DEFINE T == { m \in Nat :
                    \E f : f = [j \in 0..m |->
                                  IF j = 0 THEN start
                                  ELSE AtIndex(f[j - 1], SortedIndex(j))] }
<1>1. 0 \in T
  <2> DEFINE f == [j \in 0..0 |-> start]
  <2>1. f = [j \in 0..0 |->
               IF j = 0 THEN start ELSE AtIndex(f[j - 1], SortedIndex(j))]
    OBVIOUS
  <2> HIDE DEF f
  <2> QED BY <2>1
<1>2. ASSUME NEW m \in Nat, m \in T  PROVE m + 1 \in T
  <2>1. PICK f : f = [j \in 0..m |->
                        IF j = 0 THEN start
                        ELSE AtIndex(f[j - 1], SortedIndex(j))]
    BY <1>2
  <2> DEFINE g == [j \in 0..(m + 1) |->
                     IF j = m + 1 THEN AtIndex(f[m], SortedIndex(m + 1))
                     ELSE f[j]]
  <2>2. \A j \in 0..m : g[j] = f[j]  OBVIOUS
  <2>3. g[m + 1] = AtIndex(g[m], SortedIndex(m + 1))  OBVIOUS
  <2>4. \A j \in 0..m : f[j] = IF j = 0 THEN start
                               ELSE AtIndex(f[j - 1], SortedIndex(j))
    BY <2>1
  <2>5. g = [j \in 0..(m + 1) |-> g[j]]  OBVIOUS
  <2> HIDE DEF g
  <2>6. ASSUME NEW j \in 0..(m + 1)
        PROVE  g[j] = IF j = 0 THEN start
                      ELSE AtIndex(g[j - 1], SortedIndex(j))
    <3>1. CASE j = m + 1  BY <2>3, <3>1
    <3>2. CASE j # m + 1
      <4>1. j \in 0..m /\ (j = 0 \/ j - 1 \in 0..m)  BY <3>2
      <4>2. g[j] = f[j] /\ (j # 0 => g[j - 1] = f[j - 1])  BY <2>2, <4>1
      <4> QED BY <2>4, <4>1, <4>2
    <3> QED BY <3>1, <3>2
  <2>7. g = [j \in 0..(m + 1) |->
               IF j = 0 THEN start ELSE AtIndex(g[j - 1], SortedIndex(j))]
    BY <2>5, <2>6
  <2> QED BY <2>7
<1>3. Nat \subseteq T
  <2> HIDE DEF T
  <2> QED BY <1>1, <1>2, Induction
<1> QED BY <1>3 DEF Downwards

\* What the whole list keeps: F[j][k] are the documents there may be when k
\* edits have been looked at in the turn of the j-th index.
LEMMA SortedStays ==
  ASSUME Len(plan) \in Nat, NEW F,
         [i \in 1..NParas |-> Original(i - 1)] \in F[1][0],
         \A j \in 1..(NParas + 1), k \in 1..Len(plan) :
           \A d \in F[j][k - 1] : Turn(d, SortedIndex(j), k) \in F[j][k],
         \A j \in 1..NParas : F[j][Len(plan)] \subseteq F[j + 1][0]
  PROVE  Sorted \in F[NParas + 1][Len(plan)]
<1> DEFINE start == [i \in 1..NParas |-> Original(i - 1)]
<1> HIDE DEF start
<1> DEFINE down[j \in 0..(NParas + 1)] ==
             IF j = 0 THEN start
             ELSE AtIndex(down[j - 1], SortedIndex(j))
<1>0. NParas + 1 \in Nat /\ NParas \in Nat /\ NParas > 0  BY Bounds
<1>1. down = [j \in 0..(NParas + 1) |->
                IF j = 0 THEN start
                ELSE AtIndex(down[j - 1], SortedIndex(j))]
  <2>1. \E f : Downwards(f, start, NParas + 1)  BY <1>0, SortedExists
  <2> QED BY ONLY <2>1 DEF Downwards
<1>2. Sorted = down[NParas + 1]  BY DEF Sorted, start
<1>3. start \in F[1][0]  BY DEF start
<1> HIDE DEF down
<1> DEFINE T == { m \in Nat : m <= NParas => down[m] \in F[m + 1][0] }
<1>4. ASSUME NEW j \in 1..(NParas + 1), down[j - 1] \in F[j][0]
      PROVE  down[j] \in F[j][Len(plan)]
  <2>1. down[j] = AtIndex(down[j - 1], SortedIndex(j))  BY <1>0, <1>1
  <2>2. AtIndex(down[j - 1], SortedIndex(j)) \in F[j][Len(plan)]
    BY <1>4, AtIndexStays
  <2> QED BY <2>1, <2>2
<1>5. 0 \in T  BY <1>0, <1>1, <1>3
<1>6. ASSUME NEW m \in Nat, m \in T  PROVE m + 1 \in T
  <2> SUFFICES ASSUME m + 1 <= NParas  PROVE down[m + 1] \in F[(m + 1) + 1][0]
    OBVIOUS
  <2>1. m + 1 \in 1..NParas /\ m + 1 \in 1..(NParas + 1) /\ (m + 1) - 1 = m
        /\ m <= NParas
    BY <1>0
  <2>2. down[m] \in F[m + 1][0]  BY <1>6, <2>1
  <2>3. down[m + 1] \in F[m + 1][Len(plan)]  BY <1>4, <2>1, <2>2
  <2> QED BY <2>1, <2>3
<1>7. Nat \subseteq T
  <2> HIDE DEF T
  <2> QED BY <1>5, <1>6, Induction
<1>8. down[NParas] \in F[NParas + 1][0]  BY <1>0, <1>7
<1>9. NParas + 1 \in 1..(NParas + 1) /\ (NParas + 1) - 1 = NParas  BY <1>0
<1> QED BY <1>2, <1>4, <1>8, <1>9

-----------------------------------------------------------------------------
(* The paragraphs no edit names *)

\* The originals of U are in the document, as they were and in their order.
Orderly(doc, U) ==
  /\ doc \in Seq(Para)
  /\ \A p \in 1..Len(doc) :
       doc[p].id \in U => doc[p] = Original(doc[p].id)
  /\ \A i \in U : \E p \in 1..Len(doc) : doc[p].id = i
  /\ \A p, q \in 1..Len(doc) :
       p < q /\ doc[p].id \in U /\ doc[q].id \in U => doc[p].id < doc[q].id

\* What holds of more paragraphs holds of fewer.
LEMMA OrderlyLess ==
  ASSUME NEW doc, NEW U, NEW V, V \subseteq U, Orderly(doc, U)
  PROVE  Orderly(doc, V)
BY DEF Orderly

\* A paragraph more, that is none of them, leaves them as they are.
LEMMA OrderlyGrown ==
  ASSUME NEW doc, NEW U, Orderly(doc, U), NEW i \in 1..(Len(doc) + 1),
         NEW e \in Para, e.id \notin U, NEW new, Grown(new, doc, i, e)
  PROVE  Orderly(new, U)
<1>1. /\ doc \in Seq(Para) /\ Len(doc) \in Nat
      /\ new \in Seq(Para) /\ Len(new) = Len(doc) + 1
  BY GrownPlaces DEF Orderly
<1>2. ASSUME NEW q \in 1..Len(new), new[q].id \in U
      PROVE  \E j \in 1..Len(doc) : /\ new[q] = doc[j]
                                    /\ IF q < i THEN j = q
                                       ELSE j = q - 1 /\ q > i
  <2>1. CASE q < i
    <3>1. q \in 1..Len(doc) /\ new[q] = doc[q]  BY <1>1, <2>1, GrownPlaces
    <3> QED BY <2>1, <3>1
  <2>2. CASE q = i
    <3>1. new[q] = e  BY <1>1, <2>2, GrownPlaces
    <3> QED BY <1>2, <3>1
  <2>3. CASE q > i
    <3>1. q - 1 \in 1..Len(doc) /\ q \in 1..(Len(doc) + 1) /\ q # i
      BY <1>1, <2>3
    <3>2. new[q] = doc[q - 1]  BY <1>1, <2>3, <3>1 DEF Grown
    <3> QED BY <1>1, <2>3, <3>1, <3>2
  <2> QED BY <1>1, <2>1, <2>2, <2>3
<1>3. ASSUME NEW p \in 1..Len(new), new[p].id \in U
      PROVE  new[p] = Original(new[p].id)
  <2>1. PICK j \in 1..Len(doc) : new[p] = doc[j]  BY <1>2, <1>3
  <2> QED BY <1>3, <2>1 DEF Orderly
<1>4. ASSUME NEW x \in U  PROVE \E p \in 1..Len(new) : new[p].id = x
  <2>1. PICK j \in 1..Len(doc) : doc[j].id = x  BY DEF Orderly
  <2>2. CASE j < i
    <3>1. j \in 1..Len(new) /\ new[j] = doc[j]  BY <1>1, <2>2, GrownPlaces
    <3> QED BY <2>1, <3>1
  <2>3. CASE j >= i
    <3>1. j + 1 \in 1..Len(new) /\ new[j + 1] = doc[j]
      BY <1>1, <2>3, GrownPlaces
    <3> QED BY <2>1, <3>1
  <2> QED BY <1>1, <2>2, <2>3
<1>5. ASSUME NEW p \in 1..Len(new), NEW q \in 1..Len(new), p < q,
             new[p].id \in U, new[q].id \in U
      PROVE  new[p].id < new[q].id
  <2>1. PICK j \in 1..Len(doc) : /\ new[p] = doc[j]
                                 /\ IF p < i THEN j = p
                                    ELSE j = p - 1 /\ p > i
    BY <1>2, <1>5
  <2>2. PICK l \in 1..Len(doc) : /\ new[q] = doc[l]
                                 /\ IF q < i THEN l = q
                                    ELSE l = q - 1 /\ q > i
    BY <1>2, <1>5
  <2>3. j < l  BY <1>1, <1>5, <2>1, <2>2
  <2> QED BY <1>5, <2>1, <2>2, <2>3 DEF Orderly
<1> QED BY <1>1, <1>3, <1>4, <1>5 DEF Orderly

\* One less that is none of them leaves the others as they are,
LEMMA OrderlyShrunk ==
  ASSUME NEW doc, NEW U, Orderly(doc, U), NEW i \in 1..Len(doc),
         doc[i].id \notin U, NEW new, Shrunk(new, doc, i)
  PROVE  Orderly(new, U)
<1>1. /\ doc \in Seq(Para) /\ Len(doc) \in Nat
      /\ new \in Seq(Para) /\ Len(new) = Len(doc) - 1 /\ Len(new) \in Nat
  BY ShrunkPlaces DEF Orderly
<1>2. ASSUME NEW q \in 1..Len(new)
      PROVE  \E j \in 1..Len(doc) : /\ new[q] = doc[j]
                                    /\ j = IF q < i THEN q ELSE q + 1
  <2>1. CASE q < i
    <3>1. q \in 1..Len(doc) /\ new[q] = doc[q]  BY <1>1, <2>1 DEF Shrunk
    <3> QED BY <2>1, <3>1
  <2>2. CASE q >= i
    <3>1. q + 1 \in 1..Len(doc) /\ new[q] = doc[q + 1]
      BY <1>1, <2>2, ShrunkPlaces
    <3> QED BY <1>1, <2>2, <3>1
  <2> QED BY <1>1, <2>1, <2>2
<1>3. ASSUME NEW p \in 1..Len(new), new[p].id \in U
      PROVE  new[p] = Original(new[p].id)
  <2>1. PICK j \in 1..Len(doc) : new[p] = doc[j]  BY <1>2
  <2> QED BY <1>3, <2>1 DEF Orderly
<1>4. ASSUME NEW x \in U  PROVE \E p \in 1..Len(new) : new[p].id = x
  <2>1. PICK j \in 1..Len(doc) : doc[j].id = x  BY DEF Orderly
  <2>2. CASE j < i
    <3>1. j \in 1..Len(new) /\ new[j] = doc[j]  BY <1>1, <2>2, ShrunkPlaces
    <3> QED BY <2>1, <3>1
  <2>3. CASE j > i
    <3>1. j - 1 \in 1..Len(new) /\ new[j - 1] = doc[j]
      BY <1>1, <2>3, ShrunkPlaces
    <3> QED BY <2>1, <3>1
  <2>4. j # i  BY <2>1
  <2> QED BY <1>1, <2>2, <2>3, <2>4
<1>5. ASSUME NEW p \in 1..Len(new), NEW q \in 1..Len(new), p < q,
             new[p].id \in U, new[q].id \in U
      PROVE  new[p].id < new[q].id
  <2>1. PICK j \in 1..Len(doc) : /\ new[p] = doc[j]
                                 /\ j = IF p < i THEN p ELSE p + 1
    BY <1>2
  <2>2. PICK l \in 1..Len(doc) : /\ new[q] = doc[l]
                                 /\ l = IF q < i THEN q ELSE q + 1
    BY <1>2
  <2>3. j < l  BY <1>1, <1>5, <2>1, <2>2
  <2> QED BY <1>5, <2>1, <2>2, <2>3 DEF Orderly
<1> QED BY <1>1, <1>3, <1>4, <1>5 DEF Orderly

\* and a new text for one that is none of them.
LEMMA OrderlyRewritten ==
  ASSUME NEW doc, NEW U, Orderly(doc, U), NEW i \in 1..Len(doc),
         doc[i].id \notin U, NEW t, NEW new, Rewritten(new, doc, i, t)
  PROVE  Orderly(new, U)
<1>1. /\ new \in Seq(Para) /\ Len(new) = Len(doc)
      /\ \A j \in 1..Len(doc) : /\ new[j].id = doc[j].id
                                /\ j # i => new[j] = doc[j]
  BY DEF Rewritten
<1>2. ASSUME NEW p \in 1..Len(new), new[p].id \in U
      PROVE  new[p] = Original(new[p].id)
  <2>1. p \in 1..Len(doc) /\ p # i /\ new[p] = doc[p]  BY <1>1, <1>2
  <2> QED BY <1>2, <2>1 DEF Orderly
<1>3. ASSUME NEW x \in U  PROVE \E p \in 1..Len(new) : new[p].id = x
  <2>1. PICK j \in 1..Len(doc) : doc[j].id = x  BY DEF Orderly
  <2> QED BY <1>1, <2>1
<1>4. ASSUME NEW p \in 1..Len(new), NEW q \in 1..Len(new), p < q,
             new[p].id \in U, new[q].id \in U
      PROVE  new[p].id < new[q].id
  <2>1. /\ p \in 1..Len(doc) /\ q \in 1..Len(doc)
        /\ new[p].id = doc[p].id /\ new[q].id = doc[q].id
    BY <1>1
  <2> QED BY <1>4, <2>1 DEF Orderly
<1> QED BY <1>1, <1>2, <1>3, <1>4 DEF Orderly

\* The document that was read.
LEMMA ReadOrderly ==
  ASSUME NEW doc, doc = [i \in 1..NParas |-> Original(i - 1)],
         NEW U \in SUBSET Originals
  PROVE  Orderly(doc, U)
<1>1. /\ NParas \in Nat /\ \A i \in 1..NParas : i - 1 \in Nat /\ i - 1 >= 0
      /\ 0 \in 0..MaxEdits
  BY Bounds
<1>2. \A i \in 1..NParas : Original(i - 1) \in Para
  <2>1. <<0>> \in Seq(0..MaxEdits) /\ <<>> \in Seq(0..MaxEdits)
    BY <1>1, EmptySeq
  <2> QED BY <1>1, <2>1 DEF Original, Para
<1>3. doc \in Seq(Para)
  <2>1. doc \in [1..NParas -> Para]  BY <1>2
  <2> QED BY <1>1, <2>1, SeqDef
<1>4. Len(doc) = NParas
  <2>1. DOMAIN doc = 1..NParas  OBVIOUS
  <2> QED BY <1>1, <1>3, <2>1, LenProperties
<1>5. \A p \in 1..Len(doc) : doc[p] = Original(p - 1) /\ doc[p].id = p - 1
  BY <1>4 DEF Original
<1>6. ASSUME NEW x \in U  PROVE \E p \in 1..Len(doc) : doc[p].id = x
  <2>1. x \in 0..(NParas - 1)  BY DEF Originals
  <2>2. x + 1 \in 1..Len(doc) /\ (x + 1) - 1 = x  BY <1>1, <1>4, <2>1
  <2> QED BY <1>5, <2>2
<1>7. \A p, q \in 1..Len(doc) : p < q => doc[p].id < doc[q].id
  <2> TAKE p \in 1..Len(doc), q \in 1..Len(doc)
  <2>1. p < q => p - 1 < q - 1  BY <1>1, <1>4
  <2> QED BY <1>5, <2>1
<1> QED BY <1>3, <1>5, <1>6, <1>7 DEF Orderly

\* UntouchedStays of one document.
LEMMA OrderlyKept ==
  ASSUME NEW doc, NEW U, Orderly(doc, U)
  PROVE  InPlace(doc, U)
<1>1. DOMAIN doc = 1..Len(doc)  BY LenProperties DEF Orderly
<1> DEFINE kept == { p \in DOMAIN doc : doc[p].id \in U }
<1>2. kept = { p \in 1..Len(doc) : doc[p].id \in U }  BY <1>1
<1> HIDE DEF kept
<1>3. ASSUME NEW p \in kept  PROVE doc[p] \in { Original(i) : i \in U }
  BY <1>2 DEF Orderly
<1>4. ASSUME NEW i \in U  PROVE Original(i) \in { doc[p] : p \in kept }
  <2>1. PICK p \in 1..Len(doc) : doc[p].id = i  BY DEF Orderly
  <2>2. p \in kept /\ doc[p] = Original(i)  BY <1>2, <2>1 DEF Orderly
  <2> QED BY <2>2
<1>5. \A p, q \in kept : p < q => doc[p].id < doc[q].id
  BY <1>2 DEF Orderly
<1>6. { doc[p] : p \in kept } = { Original(i) : i \in U }
  BY <1>3, <1>4
<1> QED BY <1>5, <1>6 DEF kept, InPlace

\* The edits in reverse index order keep what none names.
LEMMA TurnOrderly ==
  ASSUME NEW k \in 1..Len(plan), plan \in Seq(Edits), Len(plan) <= MaxEdits,
         NEW at, NEW d, Orderly(d, Untouched)
  PROVE  Orderly(Turn(d, at, k), Untouched)
<1> DEFINE e == plan[k]
<1>1. e \in Edits /\ DOMAIN plan = 1..Len(plan) /\ Len(plan) \in Nat
  BY ElementOfSeq, LenProperties
<1>2. e.kind # "insert_paragraph" => e.at \notin Untouched
  BY <1>1 DEF Untouched
<1>3. d \in Seq(Para) /\ Len(d) \in Nat /\ DOMAIN d = 1..Len(d)
  BY LenProperties DEF Orderly
<1>4. k \in 1..MaxEdits /\ k \in Nat /\ k > 0  BY <1>1, Bounds
<1>5. Written(k) \in Para /\ <<k>> \in Seq(0..MaxEdits)
  BY <1>4, WrittenType
<1>6. Written(k).id \notin Untouched
  <2>1. Written(k).id = NParas + k  BY DEF Written
  <2>2. NParas + k \notin Originals  BY <1>4, Bounds DEF Originals
  <2> QED BY <2>1, <2>2 DEF Untouched
<1>7. e.kind \in Kinds /\ e.at \in (-1)..(NParas - 1)
  BY <1>1, Bounds DEF Edits, Kinds, Originals
<1> HIDE DEF e
<1>8. ASSUME e.kind = "insert_paragraph"
      PROVE  Orderly(SortedApply(d, e, k), Untouched)
  <2>1. SortedApply(d, e, k) = IF e.at \in 0..(Len(d) - 1)
                                 THEN InsertAt(d, e.at + 2, Written(k))
                                 ELSE Append(d, Written(k))
    BY <1>8 DEF SortedApply
  <2>2. CASE e.at \in 0..(Len(d) - 1)
    <3> DEFINE i == e.at + 2
    <3>1. i \in 1..(Len(d) + 1)  BY <1>3, <2>2
    <3> HIDE DEF i
    <3>2. Grown(InsertAt(d, i, Written(k)), d, i, Written(k))
      BY <1>3, <1>5, <3>1, InsertAtGrows
    <3>3. Orderly(InsertAt(d, i, Written(k)), Untouched)
      BY <1>5, <1>6, <3>1, <3>2, OrderlyGrown
    <3> QED BY <2>1, <2>2, <3>3 DEF i
  <2>3. CASE e.at \notin 0..(Len(d) - 1)
    <3>1. Grown(Append(d, Written(k)), d, Len(d) + 1, Written(k))
      BY <1>3, <1>5, AppendGrows
    <3>2. Len(d) + 1 \in 1..(Len(d) + 1)  BY <1>3
    <3>3. Orderly(Append(d, Written(k)), Untouched)
      BY <1>5, <1>6, <3>1, <3>2, OrderlyGrown
    <3> QED BY <2>1, <2>3, <3>3
  <2> QED BY <2>2, <2>3
<1>9. ASSUME e.kind # "insert_paragraph", ~Present(d, e.at)
      PROVE  Orderly(SortedApply(d, e, k), Untouched)
  <2>1. SortedApply(d, e, k) = d
    BY <1>9 DEF SortedApply
  <2> QED BY <2>1
<1>10. ASSUME e.kind # "insert_paragraph", Present(d, e.at)
       PROVE  Orderly(SortedApply(d, e, k), Untouched)
  <2> DEFINE p == Place(d, e.at)
  <2>1. p \in 1..Len(d) /\ d[p].id = e.at
    BY <1>3, <1>10 DEF Present, Place
  <2>2. d[p].id \notin Untouched  BY <1>2, <1>10, <2>1 DEF e
  <2>3. CASE e.kind = "replace_paragraph"
    <3>1. SortedApply(d, e, k) = [d EXCEPT ![p].text = <<k>>]
      BY <1>10, <2>3 DEF SortedApply
    <3> HIDE DEF p
    <3>2. Rewritten([d EXCEPT ![p].text = <<k>>], d, p, <<k>>)
      BY <1>3, <1>5, <2>1, ExceptRewrites
    <3> QED BY <2>1, <2>2, <3>1, <3>2, OrderlyRewritten
  <2>4. CASE e.kind = "append_to_run"
    <3> DEFINE t == Append(d[p].text, k)
    <3>1. SortedApply(d, e, k) = [d EXCEPT ![p].text = t]
      BY <1>10, <2>4 DEF SortedApply
    <3> HIDE DEF p
    <3>2. t \in Seq(0..MaxEdits)  BY <1>3, <1>4, <2>1, TextAppended
    <3> HIDE DEF t
    <3>3. Rewritten([d EXCEPT ![p].text = t], d, p, t)
      BY <1>3, <2>1, <3>2, ExceptRewrites
    <3> QED BY <2>1, <2>2, <3>1, <3>3, OrderlyRewritten
  <2>5. CASE e.kind = "delete_paragraph"
    <3>1. SortedApply(d, e, k) = RemoveAt(d, p)
      BY <1>10, <2>5 DEF SortedApply
    <3> HIDE DEF p
    <3>2. Shrunk(RemoveAt(d, p), d, p)
      BY <1>3, <2>1, RemoveAtShrinks
    <3> QED BY <2>1, <2>2, <3>1, <3>2, OrderlyShrunk
  <2> QED BY <1>7, <1>10, <2>3, <2>4, <2>5 DEF Kinds
<1>11. Orderly(SortedApply(d, e, k), Untouched)  BY <1>8, <1>9, <1>10
<1> QED BY <1>11 DEF Turn, e

\* So the whole list, the highest index first, leaves them as they are.
LEMMA SortedOrderly ==
  ASSUME plan \in Seq(Edits), Len(plan) <= MaxEdits
  PROVE  Orderly(Sorted, Untouched)
<1>1. Len(plan) \in Nat /\ NParas \in Nat  BY LenProperties, Bounds
<1> DEFINE start == [i \in 1..NParas |-> Original(i - 1)]
           kept == { d \in Seq(Para) : Orderly(d, Untouched) }
           F == [j \in 1..(NParas + 1) |-> [k \in 0..Len(plan) |-> kept]]
<1>2. start \in kept
  <2>1. Untouched \in SUBSET Originals  BY DEF Untouched
  <2>2. Orderly(start, Untouched)  BY <2>1, ReadOrderly
  <2> QED BY <2>2 DEF Orderly
<1> HIDE DEF start
<1>3. ASSUME NEW at, NEW k \in 1..Len(plan), NEW d \in kept
      PROVE  Turn(d, at, k) \in kept
  <2>1. Orderly(Turn(d, at, k), Untouched)  BY <1>3, TurnOrderly
  <2> QED BY <2>1 DEF Orderly
<1> HIDE DEF kept
<1>4. \A j \in 1..(NParas + 1) : \A k \in 0..Len(plan) : F[j][k] = kept
  OBVIOUS
<1>5. /\ 1 \in 1..(NParas + 1) /\ NParas + 1 \in 1..(NParas + 1)
      /\ 0 \in 0..Len(plan) /\ Len(plan) \in 0..Len(plan)
      /\ \A k \in 1..Len(plan) : k \in 0..Len(plan) /\ k - 1 \in 0..Len(plan)
      /\ \A j \in 1..NParas : j \in 1..(NParas + 1) /\ j + 1 \in 1..(NParas + 1)
  BY <1>1
<1> HIDE DEF F
<1>6. start \in F[1][0]  BY <1>2, <1>4, <1>5
<1>7. \A j \in 1..(NParas + 1), k \in 1..Len(plan) :
        \A d \in F[j][k - 1] : Turn(d, SortedIndex(j), k) \in F[j][k]
  BY <1>3, <1>4, <1>5
<1>8. \A j \in 1..NParas : F[j][Len(plan)] \subseteq F[j + 1][0]
  BY <1>4, <1>5
<1>9. Sorted \in F[NParas + 1][Len(plan)]
  BY <1>1, <1>6, <1>7, <1>8, SortedStays DEF start
<1> QED BY <1>4, <1>5, <1>9 DEF kept

\* Without prompts every paragraph is cached, at its own index.
LEMMA CachedAll ==
  ASSUME cached \in Remaining, prompts = {}
  PROVE  /\ Len(cached) = NParas
         /\ \A i \in 1..NParas : cached[i] = i - 1
<1>1. /\ Len(cached) \in Nat /\ Len(cached) <= NParas /\ NParas \in Nat
      /\ NParas > 0
      /\ \A i, j \in 1..Len(cached) : i < j => cached[i] < cached[j]
      /\ \A x \in Originals : \E i \in 1..Len(cached) : cached[i] = x
      /\ \A i \in 1..Len(cached) : cached[i] \in Originals
  BY CachedOrder, Bounds
<1>2. \A i \in 1..Len(cached) : cached[i] \in Nat
  BY <1>1 DEF Originals
<1>3. \A x \in Nat : x < NParas => x \in Originals  BY <1>1 DEF Originals
<1> DEFINE T == { m \in Nat : m < NParas =>
                    m + 1 \in 1..Len(cached) /\ cached[m + 1] = m }
<1>4. 0 \in T
  <2>1. PICK i \in 1..Len(cached) : cached[i] = 0  BY <1>1, <1>3
  <2>2. 1 \in 1..Len(cached) /\ cached[1] \in Nat  BY <1>1, <1>2, <2>1
  <2>3. ~(1 < i)  BY <1>1, <2>1, <2>2
  <2>4. i = 1  BY <1>1, <2>3
  <2> QED BY <2>1, <2>4
<1>5. ASSUME NEW m \in Nat, m \in T  PROVE m + 1 \in T
  <2> SUFFICES ASSUME m + 1 < NParas
               PROVE  /\ (m + 1) + 1 \in 1..Len(cached)
                      /\ cached[(m + 1) + 1] = m + 1
    OBVIOUS
  <2>1. m + 1 \in 1..Len(cached) /\ cached[m + 1] = m  BY <1>1, <1>5
  <2>2. PICK i \in 1..Len(cached) : cached[i] = m + 1  BY <1>1, <1>3
  <2>3. ~(i < m + 1) /\ i # m + 1
    <3>1. i # m + 1  BY <2>1, <2>2
    <3>2. i < m + 1 => cached[i] < cached[m + 1]  BY <1>1, <2>1
    <3> QED BY <2>1, <2>2, <3>1, <3>2
  <2>4. (m + 1) + 1 \in 1..Len(cached) /\ m + 1 < (m + 1) + 1
    BY <1>1, <2>3
  <2>5. cached[(m + 1) + 1] \in Nat /\ cached[m + 1] < cached[(m + 1) + 1]
    BY <1>1, <1>2, <2>1, <2>4
  <2>6. ~((m + 1) + 1 < i)
    <3>1. (m + 1) + 1 < i => cached[(m + 1) + 1] < cached[i]
      BY <1>1, <2>4
    <3> QED BY <2>1, <2>2, <2>5, <3>1
  <2>7. i = (m + 1) + 1  BY <1>1, <2>3, <2>6
  <2> QED BY <2>2, <2>4, <2>7
<1>6. Nat \subseteq T
  <2> HIDE DEF T
  <2> QED BY <1>4, <1>5, Induction
<1>7. ASSUME NEW i \in 1..NParas
      PROVE  i \in 1..Len(cached) /\ cached[i] = i - 1
  <2>1. i - 1 \in Nat /\ i - 1 < NParas /\ (i - 1) + 1 = i  BY <1>1
  <2> QED BY <1>6, <2>1
<1>8. NParas \in 1..NParas  BY <1>1
<1>9. NParas \in 1..Len(cached)  BY <1>7, <1>8
<1>10. Len(cached) = NParas  BY <1>1, <1>9
<1> QED BY <1>7, <1>10

\* So an edit names the original of its index.
LEMMA NamedOriginal ==
  ASSUME AgreeInv, prompts = {}, NEW at \in (-1)..(NParas - 1)
  PROVE  /\ FileHas(at) => /\ at \in Originals
                           /\ cached[at + 1] = at
                           /\ file[FilePlace(at)].id = at
                           /\ word[FilePlace(at)].id = at
         /\ FileHas(at) <=> \E p \in 1..Len(file) : file[p].id = at
<1>1. /\ Len(cached) = NParas /\ DOMAIN cached = 1..NParas
      /\ \A i \in 1..NParas : cached[i] = i - 1
  BY CachedAll, Aligned, CachedOrder
<1>2. NParas \in Nat  BY Bounds
<1>3. ASSUME at \in 0..(NParas - 1)
      PROVE  /\ at \in Originals /\ at + 1 \in 1..NParas
             /\ cached[at + 1] = at
  <2>1. at + 1 \in 1..NParas /\ (at + 1) - 1 = at  BY <1>2, <1>3
  <2> QED BY <1>1, <1>3, <2>1 DEF Originals
<1>4. at = -1 => at + 1 \notin DOMAIN cached  BY <1>1
<1>5. at = -1 => ~ \E p \in 1..Len(file) : file[p].id = at  BY Aligned
<1>6. at = -1 \/ at \in 0..(NParas - 1)  BY <1>2
<1>7. FileHas(at) => file[FilePlace(at)].id = cached[at + 1]  BY FileFound
<1>8. FileHas(at) => word[FilePlace(at)].id = cached[at + 1]
  <2> SUFFICES ASSUME FileHas(at)
               PROVE  word[FilePlace(at)].id = cached[at + 1]
    OBVIOUS
  <2>1. FilePlace(at) = indices[at + 1] /\ indices[at + 1] # 0
    BY SamePlace
  <2>2. at + 1 \in 1..Len(indices) /\ Kept = cached
    BY FileFound, IndexFacts
  <2> QED BY <2>1, <2>2, Aligned, Tracked
<1>9. at \in 0..(NParas - 1) =>
        (FileHas(at) <=> \E p \in 1..Len(file) : file[p].id = at)
  BY <1>1, <1>3, Aligned DEF FileHas, Named, Present
<1> QED BY <1>3, <1>4, <1>5, <1>6, <1>7, <1>8, <1>9 DEF FileHas, Named

\* The inductive invariant for UntouchedStays.
InWord == Untouched \ (blanks \cap {NParas - 1})
TouchInv ==
  /\ AgreeInv
  /\ prompts = {} => Orderly(file, Untouched) /\ Orderly(word, InWord)

\* No paragraph has been touched when the edits begin.
LEMMA InitTouch == Init => TouchInv
<1> SUFFICES ASSUME Init PROVE TouchInv  OBVIOUS
<1>1. AgreeInv  BY InitAgree
<1>2. ASSUME prompts = {}
      PROVE  Orderly(file, Untouched) /\ Orderly(word, InWord)
  <2>1. /\ Len(cached) = NParas /\ DOMAIN cached = 1..NParas
        /\ \A i \in 1..NParas : cached[i] = i - 1
    BY <1>1, <1>2, CachedAll, CachedOrder DEF AgreeInv
  <2>2. file = [i \in 1..NParas |-> Original(i - 1)]
    BY <2>1 DEF Init
  <2>3. word = file  BY <1>2 DEF Init
  <2>4. Untouched \in SUBSET Originals  BY DEF Untouched
  <2>5. Orderly(file, Untouched)  BY <2>2, <2>4, ReadOrderly
  <2>6. InWord \subseteq Untouched  BY DEF InWord
  <2> QED BY <2>3, <2>5, <2>6, OrderlyLess
<1> QED BY <1>1, <1>2 DEF TouchInv

\* Every edit leaves what no edit names as it was, in the file and in Word.
LEMMA TouchInductive == TouchInv /\ [Next]_vars => TouchInv'
<1> SUFFICES ASSUME TouchInv, [Next]_vars PROVE TouchInv'  OBVIOUS
<1>1. AgreeInv /\ AgreeInv'  BY AgreeInductive DEF TouchInv
<1>2. CASE UNCHANGED vars
  <2>1. /\ file' = file /\ word' = word /\ prompts' = prompts
        /\ plan' = plan /\ blanks' = blanks
    BY <1>2 DEF vars
  <2> QED BY <1>1, <2>1 DEF TouchInv, InWord, Untouched, Orderly, Original
<1>3. ASSUME NEW e \in Edits, Apply(e), prompts = {}
      PROVE  /\ Orderly(file', Untouched')
             /\ Orderly(word', Untouched' \ (blanks \cap {NParas - 1}))
  <2> DEFINE k == Len(plan) + 1
             at == e.at
             U == Untouched'
             V == U \ (blanks \cap {NParas - 1})
  <2>1. plan \in Seq(Edits) /\ Len(plan) \in Nat /\ k <= MaxEdits
    BY <1>1, <1>3, Aligned, Bounds DEF Apply
  <2>2. at \in (-1)..(NParas - 1)
    BY Bounds DEF Edits, Originals
  <2>3. /\ plan' = Append(plan, e)
        /\ \/ e.kind = "insert_paragraph" /\ Insert(at, k)
           \/ e.kind = "replace_paragraph" /\ Replace(at, k)
           \/ e.kind = "append_to_run" /\ AppendRun(at, k)
           \/ e.kind = "delete_paragraph" /\ Delete(at)
    BY <1>3 DEF Apply
  <2>4. k = Len(plan) + 1  OBVIOUS
  <2>5. U \subseteq Untouched
    <3>1. /\ plan' \in Seq(Edits) /\ Len(plan') = Len(plan) + 1
          /\ \A j \in 1..Len(plan) : plan'[j] = plan[j]
      BY <2>1, <2>3, AppendProperties
    <3>2. DOMAIN plan = 1..Len(plan) /\ DOMAIN plan' = 1..Len(plan')
      BY <2>1, <3>1, LenProperties
    <3>3. \A j \in DOMAIN plan : j \in DOMAIN plan' /\ plan'[j] = plan[j]
      BY <2>1, <3>1, <3>2
    <3> QED BY <3>3 DEF Untouched
  <2>6. e.kind # "insert_paragraph" => at \notin U
    <3>1. /\ plan' \in Seq(Edits) /\ Len(plan') = k
          /\ plan'[k] = e
      BY <2>1, <2>3, AppendProperties
    <3>2. k \in DOMAIN plan'
      <4>1. DOMAIN plan' = 1..Len(plan')  BY <3>1, LenProperties
      <4> QED BY <2>1, <3>1, <4>1
    <3> QED BY <3>1, <3>2 DEF Untouched
  <2>7. Orderly(file, U) /\ Orderly(word, V)
    <3>1. V \subseteq InWord  BY <2>5 DEF InWord
    <3> QED BY <1>3, <2>5, <3>1, OrderlyLess DEF TouchInv
  <2>8. U \subseteq Originals /\ V \subseteq U
        /\ (NParas - 1 \in V => NParas - 1 \notin blanks)
    BY DEF Untouched
  <2> HIDE DEF k, at, U, V
  <2>9. /\ k \in 1..MaxEdits /\ Written(k) \in Para
        /\ Written(k).id = NParas + k
    BY <1>1, <2>1, <2>4, WrittenIsNew
  <2>10. Written(k).id \notin U /\ Written(k).id \notin V
    BY <2>8, <2>9, Bounds DEF Originals
  <2>11. NParas - 1 \notin prompts  BY <1>3
  <2>12. /\ Len(file) \in Nat /\ Len(word) \in Nat /\ Len(word) > 0
    BY <1>1, <2>11, IndexFacts
  <2> DEFINE p == FilePlace(at)
  <2>13. FileHas(at) => /\ p \in 1..Len(file) /\ p \in 1..Len(word)
                        /\ file[p].id = at /\ word[p].id = at
    BY <1>1, <1>3, <2>2, <2>9, <2>11, FileFound, WordEffect, NamedOriginal
  <2> HIDE DEF p
  <2>14. FileHas(at) => /\ p + 1 \in 1..(Len(file) + 1)
                        /\ p + 1 \in 1..(Len(word) + 1)
    BY <2>12, <2>13
  <2>15. /\ Len(file) + 1 \in 1..(Len(file) + 1)
         /\ Len(word) + 1 \in 1..(Len(word) + 1) /\ Len(word) \in 1..Len(word)
    BY <2>12
  <2>16. CASE e.kind = "insert_paragraph" /\ Insert(at, k)
    <3>0. FileInsert(at, k) /\ WordInsert(at, k)  BY <2>16 DEF Insert
    <3>1. CASE FileHas(at)
      <4>1. /\ Grown(file', file, p + 1, Written(k))
            /\ Grown(word', word, p + 1, Written(k))
        BY <1>1, <2>1, <2>2, <2>4, <2>9, <2>11, <3>0, <3>1,
           FileEffect, WordEffect DEF p
      <4>2. Orderly(file', U)
        BY <2>7, <2>9, <2>10, <2>14, <3>1, <4>1, OrderlyGrown
      <4>3. Orderly(word', V)
        BY <2>7, <2>9, <2>10, <2>14, <3>1, <4>1, OrderlyGrown
      <4> QED BY <4>2, <4>3 DEF U, V
    <3>2. CASE ~FileHas(at)
      <4>1. /\ Grown(file', file, Len(file) + 1, Written(k))
            /\ IF word[Len(word)].text = <<>>
                 THEN Rewritten(word', word, Len(word), <<k>>)
                 ELSE Grown(word', word, Len(word) + 1, Written(k))
        BY <1>1, <2>1, <2>2, <2>4, <2>9, <2>11, <3>0, <3>2,
           FileEffect, WordEffect
      <4>2. Orderly(file', U)
        BY <2>7, <2>9, <2>10, <2>15, <4>1, OrderlyGrown
      <4>3. CASE word[Len(word)].text = <<>>
        <5>1. word[Len(word)].id \notin V
          <6>1. ASSUME word[Len(word)].id \in V  PROVE FALSE
            <7> DEFINE x == word[Len(word)].id
            <7>1. word[Len(word)] = Original(x)
              BY <2>7, <2>15, <6>1 DEF Orderly
            <7>2. x \in blanks
              <8>1. <<0>> # <<>>  OBVIOUS
              <8> QED BY <4>3, <7>1, <8>1 DEF Original
            <7>3. x \in 0..(NParas - 1)  BY <2>8, <6>1 DEF Originals
            <7>4. x >= NParas - 1  BY <1>1, <2>11, IndexFacts
            <7>5. x = NParas - 1  BY <7>3, <7>4, Bounds
            <7> QED BY <2>8, <6>1, <7>2, <7>5
          <6> QED BY <6>1
        <5>2. Orderly(word', V)
          BY <2>7, <2>15, <4>1, <4>3, <5>1, OrderlyRewritten
        <5> QED BY <4>2, <5>2 DEF U, V
      <4>4. CASE word[Len(word)].text # <<>>
        <5>1. Orderly(word', V)
          BY <2>7, <2>9, <2>10, <2>15, <4>1, <4>4, OrderlyGrown
        <5> QED BY <4>2, <5>1 DEF U, V
      <4> QED BY <4>3, <4>4
    <3> QED BY <3>1, <3>2
  <2>17. CASE e.kind = "replace_paragraph" /\ Replace(at, k)
    <3>0. FileReplace(at, k) /\ WordReplace(at, k)  BY <2>17 DEF Replace
    <3>1. CASE FileHas(at)
      <4>1. Rewritten(file', file, p, <<k>>) /\ Rewritten(word', word, p, <<k>>)
        BY <1>1, <2>1, <2>2, <2>4, <2>9, <2>11, <3>0, <3>1,
           FileEffect, WordEffect DEF p
      <4>2. at \notin U /\ at \notin V  BY <2>6, <2>8, <2>17
      <4>3. Orderly(file', U)
        BY <2>7, <2>13, <3>1, <4>1, <4>2, OrderlyRewritten
      <4>4. Orderly(word', V)
        BY <2>7, <2>13, <3>1, <4>1, <4>2, OrderlyRewritten
      <4> QED BY <4>3, <4>4 DEF U, V
    <3>2. CASE ~FileHas(at)
      <4>1. file' = file /\ word' = word
        BY <1>1, <2>1, <2>2, <2>4, <2>9, <2>11, <3>0, <3>2,
           FileEffect, WordEffect
      <4> QED BY <2>7, <4>1 DEF U, V
    <3> QED BY <3>1, <3>2
  <2>18. CASE e.kind = "append_to_run" /\ AppendRun(at, k)
    <3>0. FileAppendRun(at, k) /\ WordAppendRun(at, k)
      BY <2>18 DEF AppendRun
    <3>1. CASE FileHas(at)
      <4>1. /\ Rewritten(file', file, p, Append(file[p].text, k))
            /\ Rewritten(word', word, p, Append(word[p].text, k))
        BY <1>1, <2>1, <2>2, <2>4, <2>9, <2>11, <3>0, <3>1,
           FileEffect, WordEffect DEF p
      <4>2. at \notin U /\ at \notin V  BY <2>6, <2>8, <2>18
      <4>3. Orderly(file', U)
        BY <2>7, <2>13, <3>1, <4>1, <4>2, OrderlyRewritten
      <4>4. Orderly(word', V)
        BY <2>7, <2>13, <3>1, <4>1, <4>2, OrderlyRewritten
      <4> QED BY <4>3, <4>4 DEF U, V
    <3>2. CASE ~FileHas(at)
      <4>1. file' = file /\ word' = word
        BY <1>1, <2>1, <2>2, <2>4, <2>9, <2>11, <3>0, <3>2,
           FileEffect, WordEffect
      <4> QED BY <2>7, <4>1 DEF U, V
    <3> QED BY <3>1, <3>2
  <2>19. CASE e.kind = "delete_paragraph" /\ Delete(at)
    <3>0. FileDelete(at) /\ WordDelete(at)  BY <2>19 DEF Delete
    <3>1. CASE FileHas(at)
      <4>1. /\ Shrunk(file', file, p)
            /\ IF p = Len(word) THEN Rewritten(word', word, p, <<>>)
                                ELSE Shrunk(word', word, p)
        BY <1>1, <2>1, <2>2, <2>4, <2>9, <2>11, <3>0, <3>1,
           FileEffect, WordEffect DEF p
      <4>2. at \notin U /\ at \notin V  BY <2>6, <2>8, <2>19
      <4>3. Orderly(file', U)
        BY <2>7, <2>13, <3>1, <4>1, <4>2, OrderlyShrunk
      <4>4. CASE p = Len(word)
        <5>1. Orderly(word', V)
          BY <2>7, <2>13, <3>1, <4>1, <4>2, <4>4, OrderlyRewritten
        <5> QED BY <4>3, <5>1 DEF U, V
      <4>5. CASE p # Len(word)
        <5>1. Orderly(word', V)
          BY <2>7, <2>13, <3>1, <4>1, <4>2, <4>5, OrderlyShrunk
        <5> QED BY <4>3, <5>1 DEF U, V
      <4> QED BY <4>4, <4>5
    <3>2. CASE ~FileHas(at)
      <4>1. file' = file /\ word' = word
        BY <1>1, <2>1, <2>2, <2>4, <2>9, <2>11, <3>0, <3>2,
           FileEffect, WordEffect
      <4> QED BY <2>7, <4>1 DEF U, V
    <3> QED BY <3>1, <3>2
  <2> QED BY <2>3, <2>16, <2>17, <2>18, <2>19
<1>4. ASSUME NEW e \in Edits, Apply(e)  PROVE TouchInv'
  <2>1. prompts' = prompts /\ blanks' = blanks  BY <1>4 DEF Apply
  <2>2. prompts' = {} => /\ Orderly(file', Untouched')
                         /\ Orderly(word', InWord')
    BY <1>3, <1>4, <2>1 DEF InWord
  <2> QED BY <1>1, <2>1, <2>2 DEF TouchInv, Orderly, Original
<1> QED BY <1>2, <1>4 DEF Next

\* A paragraph that no replacement, addition or deletion names is as it was and
\* in its place, through python-docx, through COM (but a blank last one) and
\* through WordWriter, for every document and every plan (without prompts, which
\* shift the indices).
THEOREM UntouchedStaysAlways == Spec => []UntouchedStays
<1>1. TouchInv => UntouchedStays
  <2> SUFFICES ASSUME TouchInv, prompts = {}
               PROVE  /\ InPlace(file, Untouched) /\ InPlace(Sorted, Untouched)
                      /\ InPlace(word, InWord)
    BY DEF UntouchedStays, InWord
  <2>1. plan \in Seq(Edits) /\ Len(plan) <= MaxEdits
    BY Bounds DEF TouchInv, AgreeInv, IInv, TypeOK
  <2>2. Orderly(Sorted, Untouched)  BY <2>1, SortedOrderly
  <2>3. Orderly(file, Untouched) /\ Orderly(word, InWord)  BY DEF TouchInv
  <2> QED BY <2>2, <2>3, OrderlyKept
<1> QED BY <1>1, InitTouch, TouchInductive, PTL DEF Spec

-----------------------------------------------------------------------------
(* The document that a set of edits makes *)

\* Where a paragraph belongs: an original at its index, one written after an
\* original with it, one written at the end after all originals.
Host(pl, x) ==
  IF x < NParas THEN x
  ELSE IF pl[x - NParas].at = -1 THEN NParas ELSE pl[x - NParas].at
\* Among those that belong together: the original, then the last one written;
\* at the end the first one written.
Rank(pl, x) ==
  IF x < NParas THEN 0
  ELSE IF pl[x - NParas].at = -1 THEN x - NParas
  ELSE MaxEdits + 1 - (x - NParas)
\* The order of the paragraphs.
Before(pl, x, y) ==
  \/ Host(pl, x) < Host(pl, y)
  \/ Host(pl, x) = Host(pl, y) /\ Rank(pl, x) < Rank(pl, y)

\* No edit in S deletes the original i.
Alive(pl, S, i) ==
  \A m \in S : pl[m].at = i => pl[m].kind # "delete_paragraph"
\* The paragraphs there are: the originals left and those written.
Ids(pl, S) ==
  { i \in Originals : Alive(pl, S, i) } \cup
  { NParas + n : n \in { m \in S : pl[m].kind = "insert_paragraph" } }
\* The edits that wrote what the paragraph says: none before the last
\* replacement of it.
Wrote(pl, S, x, v) ==
  \/ v = 0 /\ x \notin blanks
  \/ /\ v \in S /\ pl[v].at = x
     /\ pl[v].kind \in {"replace_paragraph", "append_to_run"}
Latest(pl, S, x, v) ==
  \A m \in S : pl[m].at = x /\ pl[m].kind = "replace_paragraph" => m <= v
\* The edits that wrote the text of the paragraph x, after those in S.
Texts(pl, S, x) ==
  IF x \in Originals
    THEN { v \in 0..MaxEdits : Wrote(pl, S, x, v) /\ Latest(pl, S, x, v) }
    ELSE { x - NParas }
\* t lists the numbers in W from the least to the greatest.
Ascending(t, W) ==
  /\ t \in Seq(Nat)
  /\ \A i \in 1..Len(t) : t[i] \in W
  /\ \A v \in W : \E i \in 1..Len(t) : t[i] = v
  /\ \A i, j \in 1..Len(t) : i < j => t[i] < t[j]

\* doc is what the edits in S of the plan pl make of the original.
Canon(pl, S, doc) ==
  /\ doc \in Seq(Para)
  /\ \A p \in 1..Len(doc) : doc[p].id \in Ids(pl, S)
  /\ \A x \in Ids(pl, S) : \E p \in 1..Len(doc) : doc[p].id = x
  /\ \A p, q \in 1..Len(doc) :
       p < q => Before(pl, doc[p].id, doc[q].id)
  /\ \A p \in 1..Len(doc) :
       Ascending(doc[p].text, Texts(pl, S, doc[p].id))

\* S are edits of a plan within its bound.
Setting(pl, S) ==
  pl \in Seq(Edits) /\ Len(pl) <= MaxEdits /\ S \subseteq 1..Len(pl)

\* Two sequences in the same strict order with the same elements are equal.
Strict(R) == \A x, y : <<x, y>> \in R => <<y, x>> \notin R
InOrder(s, R) ==
  \A p, q \in 1..Len(s) : p < q => <<s[p], s[q]>> \in R
Within(s, t) == \A p \in 1..Len(s) : \E q \in 1..Len(t) : t[q] = s[p]

\* Where the first m places agree, the next one does.
LEMMA OrderNext ==
  ASSUME NEW D, NEW s \in Seq(D), NEW t \in Seq(D), NEW R, Strict(R),
         InOrder(s, R), InOrder(t, R), Within(s, t), Within(t, s),
         NEW m \in Nat, m + 1 \in 1..Len(s),
         \A q \in 1..m : q \in 1..Len(s) /\ q \in 1..Len(t) /\ s[q] = t[q]
  PROVE  m + 1 \in 1..Len(t) /\ t[m + 1] = s[m + 1]
<1>1. Len(s) \in Nat /\ Len(t) \in Nat  BY LenProperties
<1>2. \A x : <<x, x>> \notin R  BY DEF Strict
<1>3. PICK j \in 1..Len(t) : t[j] = s[m + 1]  BY DEF Within
<1>4. j > m
  <2>1. ASSUME j <= m  PROVE FALSE
    <3>1. j \in 1..m /\ j < m + 1  BY <2>1
    <3>2. j \in 1..Len(s) /\ s[j] = t[j]  BY <3>1
    <3>3. <<s[j], s[m + 1]>> \in R  BY <3>1, <3>2 DEF InOrder
    <3> QED BY <1>2, <1>3, <3>2, <3>3
  <2> QED BY <2>1
<1>5. m + 1 \in 1..Len(t)  BY <1>1, <1>4
<1>6. PICK i \in 1..Len(s) : s[i] = t[m + 1]  BY <1>5 DEF Within
<1>7. i > m
  <2>1. ASSUME i <= m  PROVE FALSE
    <3>1. i \in 1..m /\ i < m + 1  BY <2>1
    <3>2. i \in 1..Len(t) /\ s[i] = t[i]  BY <3>1
    <3>3. <<t[i], t[m + 1]>> \in R  BY <1>5, <3>1, <3>2 DEF InOrder
    <3> QED BY <1>2, <1>6, <3>2, <3>3
  <2> QED BY <2>1
<1>8. CASE j = m + 1  BY <1>3, <1>5, <1>8
<1>9. CASE i = m + 1  BY <1>5, <1>6, <1>9
<1>10. CASE j # m + 1 /\ i # m + 1
  <2>1. m + 1 < j /\ m + 1 < i  BY <1>4, <1>7, <1>10
  <2>2. <<t[m + 1], t[j]>> \in R  BY <1>5, <2>1 DEF InOrder
  <2>3. <<s[m + 1], s[i]>> \in R  BY <2>1 DEF InOrder
  <2> QED BY <1>3, <1>6, <2>2, <2>3 DEF Strict
<1> QED BY <1>8, <1>9, <1>10

\* So they are equal.
LEMMA OrderDecides ==
  ASSUME NEW D, NEW s \in Seq(D), NEW t \in Seq(D), NEW R, Strict(R),
         InOrder(s, R), InOrder(t, R), Within(s, t), Within(t, s)
  PROVE  s = t
<1>1. Len(s) \in Nat /\ Len(t) \in Nat  BY LenProperties
<1> DEFINE Same(q) == q \in 1..Len(s) \/ q \in 1..Len(t) =>
                        /\ q \in 1..Len(s) /\ q \in 1..Len(t)
                        /\ s[q] = t[q]
           T == { m \in Nat : \A q \in 1..m : Same(q) }
<1>2. 0 \in T  OBVIOUS
<1>3. ASSUME NEW m \in Nat, m \in T  PROVE m + 1 \in T
  <2>1. \A q \in 1..m : Same(q)  BY <1>3
  <2>2. Same(m + 1)
    <3>1. ASSUME m + 1 \in 1..Len(s)  PROVE Same(m + 1)
      <4>1. \A q \in 1..m : q \in 1..Len(s)  BY <1>1, <3>1
      <4>2. \A q \in 1..m :
              q \in 1..Len(s) /\ q \in 1..Len(t) /\ s[q] = t[q]
        BY <2>1, <4>1
      <4>3. m + 1 \in 1..Len(t) /\ t[m + 1] = s[m + 1]
        BY <3>1, <4>2, OrderNext
      <4> QED BY <3>1, <4>3
    <3>2. ASSUME m + 1 \in 1..Len(t)  PROVE Same(m + 1)
      <4>1. \A q \in 1..m : q \in 1..Len(t)  BY <1>1, <3>2
      <4>2. \A q \in 1..m :
              q \in 1..Len(t) /\ q \in 1..Len(s) /\ t[q] = s[q]
        BY <2>1, <4>1
      <4>3. m + 1 \in 1..Len(s) /\ s[m + 1] = t[m + 1]
        BY <3>2, <4>2, OrderNext
      <4> QED BY <3>2, <4>3
    <3> QED BY <3>1, <3>2
  <2> HIDE DEF Same
  <2>3. \A q \in 1..(m + 1) : q \in 1..m \/ q = m + 1  OBVIOUS
  <2> QED BY <2>1, <2>2, <2>3
<1>4. Nat \subseteq T
  <2> HIDE DEF T
  <2> QED BY <1>2, <1>3, Induction
<1>5. ASSUME NEW q \in Nat, q > 0  PROVE Same(q)
  <2>1. q \in T /\ q \in 1..q  BY <1>4, <1>5
  <2> HIDE DEF Same
  <2> QED BY <2>1
<1>6. \A q \in 1..Len(s) : q \in 1..Len(t) /\ s[q] = t[q]  BY <1>5
<1>7. \A q \in 1..Len(t) : q \in 1..Len(s)  BY <1>5
<1>8. Len(s) = Len(t)
  <2>1. Len(s) # 0 => Len(s) \in 1..Len(s)  BY <1>1
  <2>2. Len(t) # 0 => Len(t) \in 1..Len(t)  BY <1>1
  <2>3. Len(s) # 0 => Len(s) \in 1..Len(t)  BY <1>6, <2>1
  <2>4. Len(t) # 0 => Len(t) \in 1..Len(s)  BY <1>7, <2>2
  <2> QED BY <1>1, <2>3, <2>4
<1> QED BY <1>6, <1>8, SeqEqual

\* A set of numbers has one ascending sequence.
LEMMA AscendingDecides ==
  ASSUME NEW W, NEW s, NEW t, Ascending(s, W), Ascending(t, W)
  PROVE  s = t
<1> DEFINE R == { xy \in Nat \X Nat : xy[1] < xy[2] }
<1>1. \A x, y : <<x, y>> \in R <=> x \in Nat /\ y \in Nat /\ x < y
  OBVIOUS
<1> HIDE DEF R
<1>2. Strict(R)  BY <1>1 DEF Strict
<1>3. s \in Seq(Nat) /\ t \in Seq(Nat)  BY DEF Ascending
<1>4. /\ \A i \in 1..Len(s) : s[i] \in Nat
      /\ \A i \in 1..Len(t) : t[i] \in Nat
  BY <1>3, ElementOfSeq
<1>5. InOrder(s, R) /\ InOrder(t, R)
  BY <1>1, <1>4 DEF Ascending, InOrder
<1>6. Within(s, t) /\ Within(t, s)  BY DEF Ascending, Within
<1> QED BY <1>2, <1>3, <1>5, <1>6, OrderDecides

\* What the paragraphs of such a document are.
LEMMA IdFacts ==
  ASSUME NEW pl, NEW S, Setting(pl, S), NEW x \in Ids(pl, S)
  PROVE  /\ x \in Nat /\ Host(pl, x) \in Nat /\ Rank(pl, x) \in Nat
         /\ Host(pl, x) <= NParas
         /\ x \in Originals => /\ Host(pl, x) = x /\ Rank(pl, x) = 0
                               /\ x < NParas /\ Alive(pl, S, x)
         /\ x \notin Originals =>
              /\ Rank(pl, x) > 0
              /\ \E n \in S :
                   /\ x = NParas + n /\ pl[n].kind = "insert_paragraph"
                   /\ n \in 1..MaxEdits
                   /\ IF pl[n].at = -1
                        THEN Host(pl, x) = NParas /\ Rank(pl, x) = n
                        ELSE /\ Host(pl, x) = pl[n].at
                             /\ Host(pl, x) \in Originals
                             /\ Rank(pl, x) = MaxEdits + 1 - n
<1>0. NParas \in Nat /\ MaxEdits \in Nat /\ NParas > 0  BY Bounds
<1>1. pl \in Seq(Edits) /\ Len(pl) \in Nat /\ Len(pl) <= MaxEdits
      /\ S \subseteq 1..Len(pl)
  BY LenProperties DEF Setting
<1>2. CASE x \in Originals /\ Alive(pl, S, x)
  BY <1>0, <1>2 DEF Originals, Host, Rank
<1>3. ASSUME NEW n \in S, pl[n].kind = "insert_paragraph", x = NParas + n
      PROVE  /\ x \in Nat /\ Host(pl, x) \in Nat /\ Rank(pl, x) \in Nat
             /\ Host(pl, x) <= NParas /\ x \notin Originals
             /\ Rank(pl, x) > 0 /\ n \in 1..MaxEdits
             /\ IF pl[n].at = -1
                  THEN Host(pl, x) = NParas /\ Rank(pl, x) = n
                  ELSE /\ Host(pl, x) = pl[n].at
                       /\ Host(pl, x) \in Originals
                       /\ Rank(pl, x) = MaxEdits + 1 - n
  <2>1. n \in 1..Len(pl) /\ n \in 1..MaxEdits  BY <1>0, <1>1
  <2>2. pl[n] \in Edits  BY <1>1, <2>1, ElementOfSeq
  <2>3. pl[n].at = -1 \/ pl[n].at \in Originals  BY <2>2 DEF Edits
  <2>4. x - NParas = n /\ ~(x < NParas) /\ x \in Nat
    BY <1>0, <1>3, <2>1
  <2>5. x \notin Originals  BY <1>0, <2>4 DEF Originals
  <2>6. Host(pl, x) = IF pl[n].at = -1 THEN NParas ELSE pl[n].at
    BY <2>4 DEF Host
  <2>7. Rank(pl, x) = IF pl[n].at = -1 THEN n ELSE MaxEdits + 1 - n
    BY <2>4 DEF Rank
  <2> QED BY <1>0, <2>1, <2>3, <2>4, <2>5, <2>6, <2>7 DEF Originals
<1> QED BY <1>2, <1>3 DEF Ids

\* The edits decide the document.
LEMMA CanonDecides ==
  ASSUME NEW pl, NEW S, Setting(pl, S), NEW a, NEW b,
         Canon(pl, S, a), Canon(pl, S, b)
  PROVE  a = b
<1> DEFINE R == { xy \in Para \X Para :
                    /\ xy[1].id \in Ids(pl, S) /\ xy[2].id \in Ids(pl, S)
                    /\ Before(pl, xy[1].id, xy[2].id) }
<1>1. \A x, y : <<x, y>> \in R <=>
                  /\ x \in Para /\ y \in Para
                  /\ x.id \in Ids(pl, S) /\ y.id \in Ids(pl, S)
                  /\ Before(pl, x.id, y.id)
  OBVIOUS
<1> HIDE DEF R
<1>2. ASSUME NEW x, NEW y, <<x, y>> \in R  PROVE <<y, x>> \notin R
  <2> DEFINE i == x.id
             j == y.id
  <2>1. i \in Ids(pl, S) /\ j \in Ids(pl, S) /\ Before(pl, i, j)
    BY <1>1, <1>2
  <2>2. <<y, x>> \in R => Before(pl, j, i)  BY <1>1
  <2> HIDE DEF i, j
  <2>3. /\ Host(pl, i) \in Nat /\ Host(pl, j) \in Nat
        /\ Rank(pl, i) \in Nat /\ Rank(pl, j) \in Nat
    BY <2>1, IdFacts
  <2>4. ~Before(pl, j, i)  BY <2>1, <2>3 DEF Before
  <2> QED BY <2>2, <2>4
<1>3. a \in Seq(Para) /\ b \in Seq(Para)  BY DEF Canon
<1>4. /\ \A p \in 1..Len(a) : a[p] \in Para
      /\ \A p \in 1..Len(b) : b[p] \in Para
  BY <1>3, ElementOfSeq
<1>5. InOrder(a, R) /\ InOrder(b, R)
  BY <1>1, <1>4 DEF Canon, InOrder
<1>6. ASSUME NEW p \in 1..Len(a), NEW q \in 1..Len(b), a[p].id = b[q].id
      PROVE  a[p] = b[q]
  <2>1. /\ Ascending(a[p].text, Texts(pl, S, a[p].id))
        /\ Ascending(b[q].text, Texts(pl, S, a[p].id))
    BY <1>6 DEF Canon
  <2>2. a[p].text = b[q].text  BY <2>1, AscendingDecides
  <2> QED BY <1>4, <1>6, <2>2 DEF Para
<1>7. Within(a, b) /\ Within(b, a)
  <2>1. ASSUME NEW p \in 1..Len(a)  PROVE \E q \in 1..Len(b) : b[q] = a[p]
    <3>1. PICK q \in 1..Len(b) : b[q].id = a[p].id  BY DEF Canon
    <3> QED BY <1>6, <3>1
  <2>2. ASSUME NEW q \in 1..Len(b)  PROVE \E p \in 1..Len(a) : a[p] = b[q]
    <3>1. PICK p \in 1..Len(a) : a[p].id = b[q].id  BY DEF Canon
    <3> QED BY <1>6, <3>1
  <2> QED BY <2>1, <2>2 DEF Within
<1>8. Strict(R)  BY <1>2 DEF Strict
<1> QED BY <1>3, <1>5, <1>7, <1>8, OrderDecides

-----------------------------------------------------------------------------
(* One edit more *)

\* What one more edit, at place n of the plan, makes of a document.
Effect(new, doc, e, n) ==
  \/ /\ e.kind = "insert_paragraph" /\ e.at = -1
     /\ Grown(new, doc, Len(doc) + 1, Written(n))
  \/ /\ e.kind = "insert_paragraph" /\ e.at # -1
     /\ \E p \in 1..Len(doc) :
          doc[p].id = e.at /\ Grown(new, doc, p + 1, Written(n))
  \/ /\ e.kind # "insert_paragraph"
     /\ \A p \in 1..Len(doc) : doc[p].id # e.at
     /\ new = doc
  \/ /\ e.kind = "replace_paragraph"
     /\ \E p \in 1..Len(doc) :
          doc[p].id = e.at /\ Rewritten(new, doc, p, <<n>>)
  \/ /\ e.kind = "append_to_run"
     /\ \E p \in 1..Len(doc) :
          doc[p].id = e.at /\ Rewritten(new, doc, p, Append(doc[p].text, n))
  \/ /\ e.kind = "delete_paragraph"
     /\ \E p \in 1..Len(doc) : doc[p].id = e.at /\ Shrunk(new, doc, p)

\* It comes after those of its index.
Follows(pl, S, n) ==
  /\ n \in 1..Len(pl) /\ n \notin S
  /\ \A m \in S : pl[m].at = pl[n].at => m < n

\* What the next edit is.
LEMMA SettingFacts ==
  ASSUME NEW pl, NEW S, Setting(pl, S), NEW n, Follows(pl, S, n)
  PROVE  /\ Setting(pl, S \cup {n})
         /\ pl[n] \in Edits /\ pl[n].kind \in Kinds
         /\ pl[n].at = -1 \/ pl[n].at \in Originals
         /\ pl[n].kind # "insert_paragraph" => pl[n].at \in Originals
         /\ n \in 1..MaxEdits /\ n \in Nat /\ n > 0
         /\ \A m \in S : m \in 1..MaxEdits /\ m \in Nat
<1>1. pl \in Seq(Edits) /\ Len(pl) \in Nat /\ Len(pl) <= MaxEdits
      /\ S \subseteq 1..Len(pl) /\ n \in 1..Len(pl) /\ MaxEdits \in Nat
  BY LenProperties, Bounds DEF Setting, Follows
<1>2. pl[n] \in Edits  BY <1>1, ElementOfSeq
<1>3. /\ pl[n].kind \in Kinds
      /\ pl[n].at = -1 \/ pl[n].at \in Originals
      /\ pl[n].kind # "insert_paragraph" => pl[n].at \in Originals
  BY <1>2 DEF Edits, Kinds
<1>4. Setting(pl, S \cup {n})  BY <1>1 DEF Setting
<1>5. n \in 1..MaxEdits /\ n \in Nat /\ n > 0  BY <1>1
<1>6. \A m \in S : m \in 1..MaxEdits /\ m \in Nat  BY <1>1
<1> QED BY <1>2, <1>3, <1>4, <1>5, <1>6

\* The identities and the texts after one more edit.
LEMMA MoreIds ==
  ASSUME NEW pl, NEW S, Setting(pl, S), NEW n, Follows(pl, S, n)
  PROVE  Ids(pl, S \cup {n}) =
           IF pl[n].kind = "insert_paragraph"
             THEN Ids(pl, S) \cup {NParas + n}
           ELSE IF pl[n].kind = "delete_paragraph"
             THEN Ids(pl, S) \ {pl[n].at}
           ELSE Ids(pl, S)
<1> DEFINE D == S \cup {n}
           A == { i \in Originals : Alive(pl, S, i) }
           B == { i \in Originals : Alive(pl, D, i) }
           I == { NParas + m : m \in { l \in S :
                                         pl[l].kind = "insert_paragraph" } }
           J == { NParas + m : m \in { l \in D :
                                         pl[l].kind = "insert_paragraph" } }
<1>1. pl[n].kind # "delete_paragraph" => B = A  BY DEF Alive
<1>2. pl[n].kind = "delete_paragraph" => B = A \ {pl[n].at}  BY DEF Alive
<1>3. pl[n].kind # "insert_paragraph" => J = I
  <2> SUFFICES ASSUME pl[n].kind # "insert_paragraph"  PROVE J = I  OBVIOUS
  <2>1. { l \in D : pl[l].kind = "insert_paragraph" } =
        { l \in S : pl[l].kind = "insert_paragraph" }
    OBVIOUS
  <2> QED BY <2>1
<1>4. pl[n].kind = "insert_paragraph" => J = I \cup {NParas + n}  OBVIOUS
<1>5. pl[n].kind # "insert_paragraph" => pl[n].at \in Originals
  BY SettingFacts
<1>6. \A i \in I : i \notin Originals
  <2> TAKE i \in I
  <2>1. PICK m \in S : i = NParas + m  OBVIOUS
  <2>2. m \in 1..MaxEdits  BY SettingFacts
  <2> QED BY <2>1, <2>2, Bounds DEF Originals
<1>7. Ids(pl, S) = A \cup I /\ Ids(pl, D) = B \cup J  BY DEF Ids
<1> HIDE DEF A, B, I, J
<1>8. CASE pl[n].kind = "insert_paragraph"  BY <1>1, <1>4, <1>7, <1>8
<1>9. CASE pl[n].kind = "delete_paragraph"
  <2>1. Ids(pl, D) = (A \ {pl[n].at}) \cup I  BY <1>2, <1>3, <1>7, <1>9
  <2>2. pl[n].at \notin I  BY <1>5, <1>6, <1>9
  <2> QED BY <1>7, <1>9, <2>1, <2>2
<1>10. CASE pl[n].kind \notin {"insert_paragraph", "delete_paragraph"}
  BY <1>1, <1>3, <1>7, <1>10
<1> QED BY <1>8, <1>9, <1>10

\* An edit of another paragraph, an insertion or a deletion changes no text.
LEMMA SameTexts ==
  ASSUME NEW pl, NEW S, NEW n, NEW x,
         \/ pl[n].kind = "insert_paragraph"
         \/ pl[n].kind = "delete_paragraph"
         \/ pl[n].at # x
  PROVE  Texts(pl, S \cup {n}, x) = Texts(pl, S, x)
<1> DEFINE D == S \cup {n}
<1>1. \A v : Wrote(pl, D, x, v) <=> Wrote(pl, S, x, v)  BY DEF Wrote
<1>2. \A v : Latest(pl, D, x, v) <=> Latest(pl, S, x, v)  BY DEF Latest
<1> HIDE DEF D
<1>3. x \in Originals => Texts(pl, D, x) = Texts(pl, S, x)
  BY <1>1, <1>2 DEF Texts
<1>4. x \notin Originals => Texts(pl, D, x) = Texts(pl, S, x)
  BY DEF Texts
<1> QED BY <1>3, <1>4 DEF D

\* A replacement is the only text of its paragraph.
LEMMA ReplacedTexts ==
  ASSUME NEW pl, NEW S, Setting(pl, S), NEW n, Follows(pl, S, n),
         pl[n].kind = "replace_paragraph"
  PROVE  Texts(pl, S \cup {n}, pl[n].at) = {n}
<1> DEFINE D == S \cup {n}
           x == pl[n].at
<1>1. /\ n \in Nat /\ n > 0 /\ x \in Originals /\ n \in 0..MaxEdits
      /\ \A m \in S : m \in Nat /\ (pl[m].at = x => m < n)
  <2>1. pl[n].kind # "insert_paragraph"  OBVIOUS
  <2>2. n \in 1..MaxEdits  BY SettingFacts DEF Follows
  <2>3. n \in Nat /\ n > 0 /\ n \in 0..MaxEdits  BY <2>2, Bounds
  <2> QED BY <2>1, <2>3, SettingFacts DEF Follows
<1>2. Wrote(pl, D, x, n) /\ Latest(pl, D, x, n)
  BY <1>1 DEF Wrote, Latest
<1>3. ASSUME NEW v \in 0..MaxEdits, Wrote(pl, D, x, v), Latest(pl, D, x, v)
      PROVE  v = n
  <2>1. n <= v  BY <1>3 DEF Latest
  <2>2. v \in D /\ pl[v].at = x  BY <1>1, <1>3, <2>1 DEF Wrote
  <2>3. v \in S => v < n  BY <1>1, <2>2
  <2> QED BY <1>1, <2>1, <2>2, <2>3
<1> HIDE DEF D, x
<1>4. Texts(pl, D, x) = {n}  BY <1>1, <1>2, <1>3 DEF Texts
<1> QED BY <1>4 DEF D, x

\* An addition comes after all the texts of its paragraph.
LEMMA AppendedTexts ==
  ASSUME NEW pl, NEW S, Setting(pl, S), NEW n, Follows(pl, S, n),
         pl[n].kind = "append_to_run"
  PROVE  /\ Texts(pl, S \cup {n}, pl[n].at) = Texts(pl, S, pl[n].at) \cup {n}
         /\ \A v \in Texts(pl, S, pl[n].at) : v < n
<1> DEFINE D == S \cup {n}
           x == pl[n].at
<1>1. /\ n \in Nat /\ n > 0 /\ x \in Originals /\ n \in 0..MaxEdits
      /\ \A m \in S : m \in Nat /\ (pl[m].at = x => m < n)
  <2>1. pl[n].kind # "insert_paragraph"  OBVIOUS
  <2>2. n \in 1..MaxEdits  BY SettingFacts DEF Follows
  <2>3. n \in Nat /\ n > 0 /\ n \in 0..MaxEdits  BY <2>2, Bounds
  <2> QED BY <2>1, <2>3, SettingFacts DEF Follows
<1>2. \A v : Latest(pl, D, x, v) <=> Latest(pl, S, x, v)  BY DEF Latest
<1>3. Latest(pl, S, x, n)
  <2>1. \A m \in S : pl[m].at = x => m <= n  BY <1>1
  <2> QED BY <2>1 DEF Latest
<1>4. \A v : Wrote(pl, D, x, v) <=> Wrote(pl, S, x, v) \/ v = n
  BY DEF Wrote
<1>5. \A v \in 0..MaxEdits : Wrote(pl, S, x, v) => v < n  BY <1>1 DEF Wrote
<1> HIDE DEF D, x
<1>6. Texts(pl, D, x) =
        { v \in 0..MaxEdits : Wrote(pl, D, x, v) /\ Latest(pl, D, x, v) }
  BY <1>1 DEF Texts
<1>7. Texts(pl, S, x) =
        { v \in 0..MaxEdits : Wrote(pl, S, x, v) /\ Latest(pl, S, x, v) }
  BY <1>1 DEF Texts
<1>8. Texts(pl, D, x) = Texts(pl, S, x) \cup {n}
  BY <1>1, <1>2, <1>3, <1>4, <1>6, <1>7
<1>9. \A v \in Texts(pl, S, x) : v < n  BY <1>5, <1>7
<1> QED BY <1>8, <1>9 DEF D, x

\* The ascending sequence of one number,
LEMMA AscendingOne ==
  ASSUME NEW n \in Nat
  PROVE  Ascending(<<n>>, {n})
<1>1. <<n>> \in Seq(Nat) /\ Len(<<n>>) = 1 /\ <<n>>[1] = n  OBVIOUS
<1> QED BY <1>1 DEF Ascending

\* and of a set with a greater number.
LEMMA AscendingMore ==
  ASSUME NEW W, NEW t, Ascending(t, W), NEW n \in Nat, \A v \in W : v < n
  PROVE  Ascending(Append(t, n), W \cup {n})
<1>1. t \in Seq(Nat)  BY DEF Ascending
<1>2. Len(t) \in Nat  BY <1>1, LenProperties
<1> DEFINE u == Append(t, n)
<1>3. /\ u \in Seq(Nat) /\ Len(u) = Len(t) + 1
      /\ \A j \in 1..(Len(t) + 1) :
           u[j] = IF j = Len(t) + 1 THEN n ELSE t[j]
  BY <1>1, AppendedAt
<1> HIDE DEF u
<1>4. \A j \in 1..Len(u) : j \in 1..Len(t) \/ j = Len(t) + 1
  BY <1>2, <1>3
<1>5. \A j \in 1..Len(t) : j \in 1..Len(u) /\ u[j] = t[j] /\ t[j] \in W
  <2> TAKE j \in 1..Len(t)
  <2>1. j \in 1..(Len(t) + 1) /\ j # Len(t) + 1  BY <1>2
  <2>2. t[j] \in W  BY DEF Ascending
  <2> QED BY <1>3, <2>1, <2>2
<1>6. Len(t) + 1 \in 1..Len(u) /\ u[Len(t) + 1] = n  BY <1>2, <1>3
<1>7. \A j \in 1..Len(u) : u[j] \in W \cup {n}  BY <1>4, <1>5, <1>6
<1>8. ASSUME NEW v \in W \cup {n}  PROVE \E j \in 1..Len(u) : u[j] = v
  <2>1. CASE v = n  BY <1>6, <2>1
  <2>2. CASE v \in W
    <3>1. PICK j \in 1..Len(t) : t[j] = v  BY <2>2 DEF Ascending
    <3> QED BY <1>5, <3>1
  <2> QED BY <2>1, <2>2
<1>9. ASSUME NEW i \in 1..Len(u), NEW j \in 1..Len(u), i < j
      PROVE  u[i] < u[j]
  <2>1. i \in 1..Len(t)  BY <1>2, <1>3, <1>9
  <2>2. CASE j \in 1..Len(t)  BY <1>5, <1>9, <2>1, <2>2 DEF Ascending
  <2>3. CASE j = Len(t) + 1  BY <1>5, <1>6, <2>1, <2>3
  <2> QED BY <1>4, <2>2, <2>3
<1> QED BY <1>3, <1>7, <1>8, <1>9 DEF Ascending, u

\* The paragraphs of such a document have different identities.
LEMMA CanonDistinct ==
  ASSUME NEW pl, NEW S, Setting(pl, S), NEW doc, Canon(pl, S, doc)
  PROVE  Distinct(doc)
<1>1. doc \in Seq(Para) /\ Len(doc) \in Nat
  BY LenProperties DEF Canon
<1>2. ASSUME NEW p \in 1..Len(doc), NEW q \in 1..Len(doc), p < q,
             doc[p].id = doc[q].id
      PROVE  FALSE
  <2> DEFINE x == doc[p].id
  <2>1. x \in Ids(pl, S) /\ Before(pl, x, x)  BY <1>2 DEF Canon
  <2> HIDE DEF x
  <2> QED BY <2>1, IdFacts DEF Before
<1>3. ASSUME NEW p \in 1..Len(doc), NEW q \in 1..Len(doc),
             doc[p].id = doc[q].id
      PROVE  p = q
  <2>1. ~(p < q) /\ ~(q < p)  BY <1>2, <1>3
  <2> QED BY <1>1, <2>1
<1> QED BY <1>3 DEF Distinct

\* A paragraph more, in its place.
LEMMA CanonGrown ==
  ASSUME NEW pl, NEW S, Setting(pl, S), NEW n, Follows(pl, S, n),
         NEW doc, Canon(pl, S, doc), pl[n].kind = "insert_paragraph",
         NEW i \in 1..(Len(doc) + 1),
         NEW new, Grown(new, doc, i, Written(n)),
         \A q \in 1..Len(doc) :
           /\ q < i => Before(pl, doc[q].id, NParas + n)
           /\ q >= i => Before(pl, NParas + n, doc[q].id)
  PROVE  Canon(pl, S \cup {n}, new)
<1> DEFINE D == S \cup {n}
           e == Written(n)
<1>1. doc \in Seq(Para) /\ Len(doc) \in Nat  BY LenProperties DEF Canon
<1>2. Ids(pl, D) = Ids(pl, S) \cup {NParas + n}  BY MoreIds
<1>3. \A x : Texts(pl, D, x) = Texts(pl, S, x)  BY SameTexts
<1>4. e \in Para /\ e.id = NParas + n /\ e.text = <<n>> /\ n \in Nat /\ n > 0
  BY SettingFacts, WrittenType DEF Written
<1>5. Ascending(e.text, Texts(pl, D, NParas + n))
  <2>1. NParas + n \notin Originals /\ (NParas + n) - NParas = n
    BY <1>4, Bounds DEF Originals
  <2>2. Texts(pl, D, NParas + n) = {n}  BY <2>1 DEF Texts
  <2> QED BY <1>4, <2>2, AscendingOne
<1> HIDE DEF D, e
<1>6. Grown(new, doc, i, e)  BY DEF e
<1>7. new \in Seq(Para) /\ Len(new) = Len(doc) + 1
  BY <1>6 DEF Grown
<1>8. ASSUME NEW q \in 1..Len(new)
      PROVE  \/ q = i /\ new[q] = e
             \/ \E j \in 1..Len(doc) : /\ new[q] = doc[j]
                                       /\ IF q < i THEN j = q
                                          ELSE j = q - 1 /\ q > i
  <2>1. CASE q < i
    <3>1. q \in 1..Len(doc) /\ new[q] = doc[q]
      BY <1>1, <1>4, <1>6, <2>1, GrownPlaces
    <3> QED BY <2>1, <3>1
  <2>2. CASE q = i
    <3>1. new[q] = e  BY <1>1, <1>4, <1>6, <2>2, GrownPlaces
    <3> QED BY <2>2, <3>1
  <2>3. CASE q > i
    <3>1. q - 1 \in 1..Len(doc) /\ new[q] = doc[q - 1]
      BY <1>1, <1>4, <1>6, <2>3, GrownPlaces
    <3> QED BY <1>1, <2>3, <3>1
  <2> QED BY <1>1, <1>7, <2>1, <2>2, <2>3
<1>9. \A q \in 1..Len(new) : new[q].id \in Ids(pl, D)
  BY <1>2, <1>4, <1>8 DEF Canon
<1>10. ASSUME NEW x \in Ids(pl, D)
       PROVE  \E p \in 1..Len(new) : new[p].id = x
  <2>1. CASE x = NParas + n
    <3>1. i \in 1..Len(new) /\ new[i] = e  BY <1>1, <1>4, <1>6, GrownPlaces
    <3> QED BY <1>4, <2>1, <3>1
  <2>2. CASE x \in Ids(pl, S)
    <3>1. PICK j \in 1..Len(doc) : doc[j].id = x  BY <2>2 DEF Canon
    <3>2. CASE j < i
      <4>1. j \in 1..Len(new) /\ new[j] = doc[j]
        BY <1>1, <1>4, <1>6, <3>2, GrownPlaces
      <4> QED BY <3>1, <4>1
    <3>3. CASE j >= i
      <4>1. j + 1 \in 1..Len(new) /\ new[j + 1] = doc[j]
        BY <1>1, <1>4, <1>6, <3>3, GrownPlaces
      <4> QED BY <3>1, <4>1
    <3> QED BY <1>1, <3>2, <3>3
  <2> QED BY <1>2, <2>1, <2>2
<1>11. ASSUME NEW p \in 1..Len(new), NEW q \in 1..Len(new), p < q
       PROVE  Before(pl, new[p].id, new[q].id)
  <2>1. CASE p = i /\ new[p] = e
    <3>1. PICK l \in 1..Len(doc) : new[q] = doc[l] /\ l = q - 1 /\ q > i
      BY <1>1, <1>7, <1>8, <1>11, <2>1
    <3>2. l >= i  BY <1>1, <3>1
    <3> QED BY <1>4, <2>1, <3>1, <3>2
  <2>2. CASE q = i /\ new[q] = e
    <3>1. PICK j \in 1..Len(doc) : new[p] = doc[j] /\ j = p /\ p < i
      BY <1>1, <1>7, <1>8, <1>11, <2>2
    <3> QED BY <1>4, <2>2, <3>1
  <2>3. CASE p # i /\ q # i
    <3>1. PICK j \in 1..Len(doc) : /\ new[p] = doc[j]
                                   /\ IF p < i THEN j = p
                                      ELSE j = p - 1 /\ p > i
      BY <1>8, <2>3
    <3>2. PICK l \in 1..Len(doc) : /\ new[q] = doc[l]
                                   /\ IF q < i THEN l = q
                                      ELSE l = q - 1 /\ q > i
      BY <1>8, <2>3
    <3>3. j < l  BY <1>1, <1>7, <1>11, <3>1, <3>2
    <3>4. Before(pl, doc[j].id, doc[l].id)  BY <3>3 DEF Canon
    <3> QED BY <3>1, <3>2, <3>4
  <2> QED BY <1>1, <1>8, <2>1, <2>2, <2>3
<1>12. ASSUME NEW q \in 1..Len(new)
       PROVE  Ascending(new[q].text, Texts(pl, D, new[q].id))
  <2>1. CASE new[q] = e  BY <1>4, <1>5, <2>1
  <2>2. CASE \E j \in 1..Len(doc) : new[q] = doc[j]
    <3>1. PICK j \in 1..Len(doc) : new[q] = doc[j]  BY <2>2
    <3>2. Ascending(doc[j].text, Texts(pl, S, doc[j].id))  BY DEF Canon
    <3> QED BY <1>3, <3>1, <3>2
  <2> QED BY <1>8, <2>1, <2>2
<1> QED BY <1>7, <1>9, <1>10, <1>11, <1>12 DEF Canon, D

\* Another text for one paragraph.
LEMMA CanonRewritten ==
  ASSUME NEW pl, NEW S, Setting(pl, S), NEW n, Follows(pl, S, n),
         NEW doc, Canon(pl, S, doc),
         pl[n].kind \in {"replace_paragraph", "append_to_run"},
         NEW p \in 1..Len(doc), doc[p].id = pl[n].at, NEW t,
         Ascending(t, Texts(pl, S \cup {n}, pl[n].at)),
         NEW new, Rewritten(new, doc, p, t)
  PROVE  Canon(pl, S \cup {n}, new)
<1> DEFINE D == S \cup {n}
<1>1. Ids(pl, D) = Ids(pl, S)  BY MoreIds
<1>2. \A x : x # pl[n].at => Texts(pl, D, x) = Texts(pl, S, x)
  BY SameTexts
<1>3. Ascending(t, Texts(pl, D, doc[p].id))  OBVIOUS
<1>4. \A q \in 1..Len(doc) : q # p => doc[q].id # pl[n].at
  BY CanonDistinct DEF Distinct
<1> HIDE DEF D
<1>5. /\ new \in Seq(Para) /\ Len(new) = Len(doc)
      /\ \A q \in 1..Len(doc) :
           /\ new[q].id = doc[q].id
           /\ new[q].text = IF q = p THEN t ELSE doc[q].text
  BY DEF Rewritten
<1>6. \A q \in 1..Len(new) : new[q].id \in Ids(pl, D)
  BY <1>1, <1>5 DEF Canon
<1>7. ASSUME NEW x \in Ids(pl, D)
      PROVE  \E q \in 1..Len(new) : new[q].id = x
  <2>1. PICK q \in 1..Len(doc) : doc[q].id = x  BY <1>1 DEF Canon
  <2> QED BY <1>5, <2>1
<1>8. ASSUME NEW q \in 1..Len(new), NEW r \in 1..Len(new), q < r
      PROVE  Before(pl, new[q].id, new[r].id)
  <2>1. /\ q \in 1..Len(doc) /\ r \in 1..Len(doc)
        /\ new[q].id = doc[q].id /\ new[r].id = doc[r].id
    BY <1>5
  <2>2. Before(pl, doc[q].id, doc[r].id)  BY <1>8, <2>1 DEF Canon
  <2> QED BY <2>1, <2>2
<1>9. ASSUME NEW q \in 1..Len(new)
      PROVE  Ascending(new[q].text, Texts(pl, D, new[q].id))
  <2>1. q \in 1..Len(doc) /\ new[q].id = doc[q].id  BY <1>5
  <2>2. CASE q = p
    <3>1. new[q].text = t  BY <1>5, <2>1, <2>2
    <3> QED BY <1>3, <2>1, <2>2, <3>1
  <2>3. CASE q # p
    <3>1. new[q].text = doc[q].text  BY <1>5, <2>1, <2>3
    <3>2. Texts(pl, D, doc[q].id) = Texts(pl, S, doc[q].id)
      BY <1>2, <1>4, <2>1, <2>3
    <3>3. Ascending(doc[q].text, Texts(pl, S, doc[q].id))
      BY <2>1 DEF Canon
    <3> QED BY <2>1, <3>1, <3>2, <3>3
  <2> QED BY <2>2, <2>3
<1> QED BY <1>5, <1>6, <1>7, <1>8, <1>9 DEF Canon, D

\* A paragraph less.
LEMMA CanonShrunk ==
  ASSUME NEW pl, NEW S, Setting(pl, S), NEW n, Follows(pl, S, n),
         NEW doc, Canon(pl, S, doc), pl[n].kind = "delete_paragraph",
         NEW p \in 1..Len(doc), doc[p].id = pl[n].at,
         NEW new, Shrunk(new, doc, p)
  PROVE  Canon(pl, S \cup {n}, new)
<1> DEFINE D == S \cup {n}
<1>1. Ids(pl, D) = Ids(pl, S) \ {doc[p].id}
  <2>1. Ids(pl, D) = IF pl[n].kind = "insert_paragraph"
                       THEN Ids(pl, S) \cup {NParas + n}
                     ELSE IF pl[n].kind = "delete_paragraph"
                       THEN Ids(pl, S) \ {pl[n].at}
                     ELSE Ids(pl, S)
    BY MoreIds
  <2> HIDE DEF D
  <2>2. Ids(pl, D) = Ids(pl, S) \ {pl[n].at}  BY <2>1
  <2> QED BY <2>2
<1>2. \A x : Texts(pl, D, x) = Texts(pl, S, x)  BY SameTexts
<1>3. \A q \in 1..Len(doc) : q # p => doc[q].id # doc[p].id
  BY CanonDistinct DEF Distinct
<1> HIDE DEF D
<1>4. doc \in Seq(Para) /\ Len(doc) \in Nat  BY LenProperties DEF Canon
<1>5. /\ new \in Seq(Para) /\ Len(new) = Len(doc) - 1
  BY DEF Shrunk
<1>6. ASSUME NEW q \in 1..Len(new)
      PROVE  \E j \in 1..Len(doc) : /\ new[q] = doc[j] /\ j # p
                                    /\ j = IF q < p THEN q ELSE q + 1
  <2>1. CASE q < p
    <3>1. q \in 1..Len(doc) /\ new[q] = doc[q]  BY <1>4, <2>1 DEF Shrunk
    <3> QED BY <2>1, <3>1
  <2>2. CASE q >= p
    <3>1. q + 1 \in 1..Len(doc) /\ new[q] = doc[q + 1]
      BY <1>4, <2>2, ShrunkPlaces
    <3> QED BY <1>4, <2>2, <3>1
  <2> QED BY <1>4, <1>5, <2>1, <2>2
<1>7. \A q \in 1..Len(new) : new[q].id \in Ids(pl, D)
  BY <1>1, <1>3, <1>6 DEF Canon
<1>8. ASSUME NEW x \in Ids(pl, D)
      PROVE  \E q \in 1..Len(new) : new[q].id = x
  <2>1. PICK j \in 1..Len(doc) : doc[j].id = x  BY <1>1 DEF Canon
  <2>2. j # p  BY <1>1, <2>1
  <2>3. CASE j < p
    <3>1. j \in 1..Len(new) /\ new[j] = doc[j]  BY <1>4, <2>3, ShrunkPlaces
    <3> QED BY <2>1, <3>1
  <2>4. CASE j > p
    <3>1. j - 1 \in 1..Len(new) /\ new[j - 1] = doc[j]
      BY <1>4, <2>4, ShrunkPlaces
    <3> QED BY <2>1, <3>1
  <2> QED BY <1>4, <2>2, <2>3, <2>4
<1>9. ASSUME NEW q \in 1..Len(new), NEW r \in 1..Len(new), q < r
      PROVE  Before(pl, new[q].id, new[r].id)
  <2>1. PICK j \in 1..Len(doc) : /\ new[q] = doc[j]
                                 /\ j = IF q < p THEN q ELSE q + 1
    BY <1>6
  <2>2. PICK l \in 1..Len(doc) : /\ new[r] = doc[l]
                                 /\ l = IF r < p THEN r ELSE r + 1
    BY <1>6
  <2>3. j < l  BY <1>4, <1>5, <1>9, <2>1, <2>2
  <2>4. Before(pl, doc[j].id, doc[l].id)  BY <2>3 DEF Canon
  <2> QED BY <2>1, <2>2, <2>4
<1>10. ASSUME NEW q \in 1..Len(new)
       PROVE  Ascending(new[q].text, Texts(pl, D, new[q].id))
  <2>1. PICK j \in 1..Len(doc) : new[q] = doc[j]  BY <1>6
  <2>2. Ascending(doc[j].text, Texts(pl, S, doc[j].id))  BY DEF Canon
  <2> QED BY <1>2, <2>1, <2>2
<1> QED BY <1>5, <1>7, <1>8, <1>9, <1>10 DEF Canon, D

\* No paragraph for the edit.
LEMMA CanonIdle ==
  ASSUME NEW pl, NEW S, Setting(pl, S), NEW n, Follows(pl, S, n),
         NEW doc, Canon(pl, S, doc), pl[n].kind # "insert_paragraph",
         \A p \in 1..Len(doc) : doc[p].id # pl[n].at
  PROVE  Canon(pl, S \cup {n}, doc)
<1> DEFINE D == S \cup {n}
<1>1. pl[n].at \notin Ids(pl, S)  BY DEF Canon
<1>2. Ids(pl, D) = Ids(pl, S)
  <2>1. Ids(pl, D) = IF pl[n].kind = "delete_paragraph"
                       THEN Ids(pl, S) \ {pl[n].at} ELSE Ids(pl, S)
    BY MoreIds
  <2> QED BY <1>1, <2>1
<1>3. \A x : x # pl[n].at => Texts(pl, D, x) = Texts(pl, S, x)
  BY SameTexts
<1>4. \A p \in 1..Len(doc) : Texts(pl, D, doc[p].id) = Texts(pl, S, doc[p].id)
  BY <1>3
<1> HIDE DEF D
<1>5. Canon(pl, D, doc)  BY <1>2, <1>4 DEF Canon
<1> QED BY <1>5 DEF D

\* The place of a paragraph written after an original,
LEMMA WrittenAfter ==
  ASSUME NEW pl, NEW S, Setting(pl, S), NEW n, Follows(pl, S, n),
         NEW doc, Canon(pl, S, doc), pl[n].kind = "insert_paragraph",
         pl[n].at # -1, NEW p \in 1..Len(doc), doc[p].id = pl[n].at,
         NEW q \in 1..Len(doc)
  PROVE  /\ q < p + 1 => Before(pl, doc[q].id, NParas + n)
         /\ q >= p + 1 => Before(pl, NParas + n, doc[q].id)
<1> DEFINE D == S \cup {n}
           a == pl[n].at
           w == NParas + n
           x == doc[q].id
<1>1. /\ Setting(pl, D) /\ a \in Originals /\ n \in 1..MaxEdits
      /\ n \in Nat /\ \A m \in S : m \in Nat
  BY SettingFacts
<1>2. /\ NParas \in Nat /\ MaxEdits \in Nat
      /\ \A i \in Originals : i \in Nat /\ i < NParas
  BY Bounds DEF Originals
<1>3. Ids(pl, D) = Ids(pl, S) \cup {w}  BY MoreIds
<1>4. Host(pl, w) = a /\ Rank(pl, w) = MaxEdits + 1 - n
  <2>1. ~(w < NParas) /\ w - NParas = n  BY <1>1, <1>2
  <2> QED BY <2>1 DEF Host, Rank
<1>5. x \in Ids(pl, S) /\ a \in Ids(pl, S)  BY DEF Canon
<1>6. /\ q < p => Before(pl, x, a)
      /\ p < q => Before(pl, a, x)
      /\ q = p => x = a
  BY DEF Canon
<1>7. /\ Host(pl, a) = a /\ Rank(pl, a) = 0 /\ a \in Nat /\ a < NParas
  BY <1>1, <1>5, IdFacts
<1>8. Host(pl, x) \in Nat /\ Rank(pl, x) \in Nat  BY <1>5, IdFacts
<1>9. doc \in Seq(Para) /\ Len(doc) \in Nat  BY LenProperties DEF Canon
<1> HIDE DEF D, a, w, x
<1>10. Rank(pl, w) > 0 /\ Rank(pl, w) \in Nat  BY <1>1, <1>2, <1>4
<1>11. Before(pl, a, w)  BY <1>4, <1>7, <1>10 DEF Before
<1>12. CASE q < p
  <2>1. Host(pl, x) < a  BY <1>6, <1>7, <1>8, <1>12 DEF Before
  <2>2. Before(pl, x, w)  BY <1>4, <2>1 DEF Before
  <2> QED BY <1>9, <1>12, <2>2 DEF x, w
<1>13. CASE q = p
  <2>1. Before(pl, x, w)  BY <1>6, <1>11, <1>13
  <2> QED BY <1>9, <1>13, <2>1 DEF x, w
<1>14. CASE q > p
  <2>1. Before(pl, a, x)  BY <1>6, <1>14
  <2>2. CASE a < Host(pl, x)
    <3>1. Before(pl, w, x)  BY <1>4, <2>2 DEF Before
    <3> QED BY <1>9, <1>14, <3>1 DEF x, w
  <2>3. CASE Host(pl, x) = a /\ Rank(pl, x) > 0
    <3>1. x \notin Originals
      <4>1. x \in Originals => Rank(pl, x) = 0  BY <1>5, IdFacts
      <4> QED BY <1>8, <2>3, <4>1
    <3>2. PICK m \in S : /\ pl[m].kind = "insert_paragraph"
                         /\ IF pl[m].at = -1
                              THEN Host(pl, x) = NParas
                              ELSE /\ Host(pl, x) = pl[m].at
                                   /\ Rank(pl, x) = MaxEdits + 1 - m
      BY <1>5, <3>1, IdFacts
    <3>3. pl[m].at = a /\ Rank(pl, x) = MaxEdits + 1 - m
      BY <1>2, <1>7, <2>3, <3>2
    <3>4. m < n /\ m \in Nat  BY <1>1, <3>3 DEF Follows, a
    <3>5. Rank(pl, w) < Rank(pl, x)  BY <1>1, <1>2, <1>4, <3>3, <3>4
    <3>6. Before(pl, w, x)  BY <1>4, <2>3, <3>5 DEF Before
    <3> QED BY <1>9, <1>14, <3>6 DEF x, w
  <2>4. a < Host(pl, x) \/ (Host(pl, x) = a /\ Rank(pl, x) > 0)
    BY <1>7, <2>1 DEF Before
  <2> QED BY <2>2, <2>3, <2>4
<1> QED BY <1>9, <1>12, <1>13, <1>14

\* and of one written at the end.
LEMMA WrittenLast ==
  ASSUME NEW pl, NEW S, Setting(pl, S), NEW n, Follows(pl, S, n),
         pl[n].at = -1, NEW x \in Ids(pl, S)
  PROVE  Before(pl, x, NParas + n)
<1> DEFINE w == NParas + n
<1>1. /\ n \in 1..MaxEdits /\ n \in Nat /\ \A m \in S : m \in Nat
  BY SettingFacts
<1>2. /\ NParas \in Nat /\ MaxEdits \in Nat
      /\ \A i \in Originals : i \in Nat /\ i < NParas
  BY Bounds DEF Originals
<1>3. Host(pl, w) = NParas /\ Rank(pl, w) = n
  <2>1. ~(w < NParas) /\ w - NParas = n  BY <1>1, <1>2
  <2> QED BY <2>1 DEF Host, Rank
<1> HIDE DEF w
<1>4. /\ Host(pl, x) \in Nat /\ Host(pl, x) <= NParas
      /\ Rank(pl, x) \in Nat
  BY IdFacts
<1>5. CASE Host(pl, x) < NParas
  <2>1. Before(pl, x, w)  BY <1>3, <1>5 DEF Before
  <2> QED BY <2>1 DEF w
<1>6. CASE Host(pl, x) = NParas
  <2>1. x \notin Originals
    <3>1. x \in Originals => Host(pl, x) = x /\ x < NParas  BY IdFacts
    <3> QED BY <1>2, <1>6, <3>1
  <2>2. PICK m \in S : IF pl[m].at = -1
                         THEN Rank(pl, x) = m
                         ELSE Host(pl, x) \in Originals
    BY <2>1, IdFacts
  <2>3. Host(pl, x) \notin Originals  BY <1>2, <1>6
  <2>4. pl[m].at = -1 /\ Rank(pl, x) = m  BY <2>2, <2>3
  <2>5. m < n  BY <2>4 DEF Follows
  <2>6. Before(pl, x, w)  BY <1>3, <1>6, <2>4, <2>5 DEF Before
  <2> QED BY <2>6 DEF w
<1> QED BY <1>2, <1>4, <1>5, <1>6

\* One more edit makes the document of one more edit.
LEMMA CanonEffect ==
  ASSUME NEW pl, NEW S, Setting(pl, S), NEW n, Follows(pl, S, n),
         NEW doc, Canon(pl, S, doc), NEW new, Effect(new, doc, pl[n], n)
  PROVE  Canon(pl, S \cup {n}, new)
<1>1. doc \in Seq(Para) /\ Len(doc) \in Nat  BY LenProperties DEF Canon
<1>2. n \in Nat  BY SettingFacts
<1>3. CASE /\ pl[n].kind = "insert_paragraph" /\ pl[n].at = -1
           /\ Grown(new, doc, Len(doc) + 1, Written(n))
  <2>1. ASSUME NEW q \in 1..Len(doc)
        PROVE  /\ q < Len(doc) + 1 => Before(pl, doc[q].id, NParas + n)
               /\ q >= Len(doc) + 1 => Before(pl, NParas + n, doc[q].id)
    <3>1. doc[q].id \in Ids(pl, S)  BY DEF Canon
    <3>2. Before(pl, doc[q].id, NParas + n)  BY <1>3, <3>1, WrittenLast
    <3> QED BY <1>1, <3>2
  <2>2. Len(doc) + 1 \in 1..(Len(doc) + 1)  BY <1>1
  <2> QED BY <1>3, <2>1, <2>2, CanonGrown
<1>4. ASSUME pl[n].kind = "insert_paragraph", pl[n].at # -1,
             NEW p \in 1..Len(doc), doc[p].id = pl[n].at,
             Grown(new, doc, p + 1, Written(n))
      PROVE  Canon(pl, S \cup {n}, new)
  <2>1. \A q \in 1..Len(doc) :
          /\ q < p + 1 => Before(pl, doc[q].id, NParas + n)
          /\ q >= p + 1 => Before(pl, NParas + n, doc[q].id)
    BY <1>4, WrittenAfter
  <2> DEFINE i == p + 1
  <2>2. i \in 1..(Len(doc) + 1)  BY <1>1
  <2>3. /\ Grown(new, doc, i, Written(n))
        /\ \A q \in 1..Len(doc) :
             /\ q < i => Before(pl, doc[q].id, NParas + n)
             /\ q >= i => Before(pl, NParas + n, doc[q].id)
    BY <1>4, <2>1
  <2> HIDE DEF i
  <2> QED BY <1>4, <2>2, <2>3, CanonGrown
<1>5. CASE /\ pl[n].kind # "insert_paragraph"
           /\ \A p \in 1..Len(doc) : doc[p].id # pl[n].at
           /\ new = doc
  BY <1>5, CanonIdle
<1>6. ASSUME pl[n].kind = "replace_paragraph", NEW p \in 1..Len(doc),
             doc[p].id = pl[n].at, Rewritten(new, doc, p, <<n>>)
      PROVE  Canon(pl, S \cup {n}, new)
  <2>1. Ascending(<<n>>, Texts(pl, S \cup {n}, pl[n].at))
    <3>1. Texts(pl, S \cup {n}, pl[n].at) = {n}  BY <1>6, ReplacedTexts
    <3> QED BY <1>2, <3>1, AscendingOne
  <2> QED BY <1>6, <2>1, CanonRewritten
<1>7. ASSUME pl[n].kind = "append_to_run", NEW p \in 1..Len(doc),
             doc[p].id = pl[n].at,
             Rewritten(new, doc, p, Append(doc[p].text, n))
      PROVE  Canon(pl, S \cup {n}, new)
  <2>1. Ascending(doc[p].text, Texts(pl, S, pl[n].at))
    BY <1>7 DEF Canon
  <2>2. /\ Texts(pl, S \cup {n}, pl[n].at) = Texts(pl, S, pl[n].at) \cup {n}
        /\ \A v \in Texts(pl, S, pl[n].at) : v < n
    BY <1>7, AppendedTexts
  <2>3. Ascending(Append(doc[p].text, n), Texts(pl, S, pl[n].at) \cup {n})
    BY <1>2, <2>1, <2>2, AscendingMore
  <2> QED BY <1>7, <2>2, <2>3, CanonRewritten
<1>8. ASSUME pl[n].kind = "delete_paragraph", NEW p \in 1..Len(doc),
             doc[p].id = pl[n].at, Shrunk(new, doc, p)
      PROVE  Canon(pl, S \cup {n}, new)
  BY <1>8, CanonShrunk
<1> QED BY <1>3, <1>4, <1>5, <1>6, <1>7, <1>8 DEF Effect

\* The document that was read is what no edit makes of it.
LEMMA CanonRead ==
  ASSUME NEW pl, NEW doc, doc = [i \in 1..NParas |-> Original(i - 1)]
  PROVE  Canon(pl, {}, doc)
<1>1. /\ NParas \in Nat /\ \A i \in 1..NParas : i - 1 \in Nat /\ i - 1 < NParas
      /\ \A i \in 1..NParas : i - 1 \in Originals
  BY Bounds DEF Originals
<1>2. Orderly(doc, Originals)  BY ReadOrderly
<1>3. doc \in Seq(Para)  BY <1>2 DEF Orderly
<1>4. Len(doc) = NParas
  <2>1. DOMAIN doc = 1..NParas  OBVIOUS
  <2> QED BY <1>1, <1>3, <2>1, LenProperties
<1>5. \A p \in 1..NParas :
        /\ doc[p].id = p - 1
        /\ doc[p].text = IF p - 1 \in blanks THEN <<>> ELSE <<0>>
  BY DEF Original
<1>6. Ids(pl, {}) = Originals  BY DEF Ids, Alive
<1>7. \A x \in Originals :
        Texts(pl, {}, x) = IF x \in blanks THEN {} ELSE {0}
  BY Bounds DEF Texts, Wrote, Latest
<1>8. ASSUME NEW p \in 1..NParas, NEW q \in 1..NParas, p < q
      PROVE  Before(pl, p - 1, q - 1)
  <2>1. Host(pl, p - 1) = p - 1 /\ Host(pl, q - 1) = q - 1
    BY <1>1 DEF Host
  <2> QED BY <1>1, <1>8, <2>1 DEF Before
<1>9. Ascending(<<0>>, {0}) /\ Ascending(<<>>, {})
  <2>1. <<>> \in Seq(Nat) /\ Len(<<>>) = 0  OBVIOUS
  <2> QED BY <2>1, AscendingOne DEF Ascending
<1>10. \A p \in 1..Len(doc) : doc[p].id \in Ids(pl, {})
  BY <1>1, <1>4, <1>5, <1>6
<1>11. \A x \in Ids(pl, {}) : \E p \in 1..Len(doc) : doc[p].id = x
  BY <1>2, <1>6 DEF Orderly
<1>12. ASSUME NEW p \in 1..Len(doc), NEW q \in 1..Len(doc), p < q
       PROVE  Before(pl, doc[p].id, doc[q].id)
  <2>1. p \in 1..NParas /\ q \in 1..NParas  BY <1>4
  <2>2. Before(pl, p - 1, q - 1)  BY <1>8, <1>12, <2>1
  <2> QED BY <1>5, <2>1, <2>2
<1>13. \A p \in 1..Len(doc) :
         Ascending(doc[p].text, Texts(pl, {}, doc[p].id))
  BY <1>1, <1>4, <1>5, <1>7, <1>9
<1> QED BY <1>3, <1>10, <1>11, <1>12, <1>13 DEF Canon

\* Only the edits of S matter.
LEMMA CanonSame ==
  ASSUME NEW pl, NEW mo, NEW S, Setting(pl, S), Setting(mo, S),
         \A m \in S : mo[m] = pl[m],
         NEW doc, Canon(pl, S, doc)
  PROVE  Canon(mo, S, doc)
<1>1. Ids(mo, S) = Ids(pl, S)
  <2>1. \A i : Alive(mo, S, i) <=> Alive(pl, S, i)  BY DEF Alive
  <2>2. { m \in S : mo[m].kind = "insert_paragraph" } =
        { m \in S : pl[m].kind = "insert_paragraph" }
    OBVIOUS
  <2> QED BY <2>1, <2>2 DEF Ids
<1>2. ASSUME NEW x  PROVE Texts(mo, S, x) = Texts(pl, S, x)
  <2>1. \A v : Wrote(mo, S, x, v) <=> Wrote(pl, S, x, v)  BY DEF Wrote
  <2>2. \A v : Latest(mo, S, x, v) <=> Latest(pl, S, x, v)  BY DEF Latest
  <2>3. x \in Originals => Texts(mo, S, x) = Texts(pl, S, x)
    BY <2>1, <2>2 DEF Texts
  <2>4. x \notin Originals => Texts(mo, S, x) = Texts(pl, S, x)
    BY DEF Texts
  <2> QED BY <2>3, <2>4
<1>3. ASSUME NEW x \in Ids(pl, S)
      PROVE  Host(mo, x) = Host(pl, x) /\ Rank(mo, x) = Rank(pl, x)
  <2>1. CASE x \in Originals
    <3>1. x < NParas  BY <2>1, Bounds DEF Originals
    <3> QED BY <3>1 DEF Host, Rank
  <2>2. CASE x \notin Originals
    <3>1. PICK n \in S : x = NParas + n /\ n \in 1..MaxEdits
      BY <2>2, IdFacts
    <3>2. x - NParas = n  BY <3>1, Bounds
    <3> QED BY <3>1, <3>2 DEF Host, Rank
  <2> QED BY <2>1, <2>2
<1>4. \A x, y \in Ids(pl, S) : Before(mo, x, y) <=> Before(pl, x, y)
  BY <1>3 DEF Before
<1>5. \A p, q \in 1..Len(doc) :
        p < q => Before(mo, doc[p].id, doc[q].id)
  BY <1>4 DEF Canon
<1> QED BY <1>1, <1>2, <1>5 DEF Canon

\* No insertion after a paragraph that an earlier edit deletes.
Hosted(pl) ==
  ~ \E j, k \in DOMAIN pl :
      /\ j < k /\ pl[j].at = pl[k].at
      /\ pl[j].kind = "delete_paragraph" /\ pl[k].kind = "insert_paragraph"

\* Then the paragraph an insertion names is still there.
LEMMA HostPresent ==
  ASSUME NEW pl, Hosted(pl), NEW S, Setting(pl, S), NEW n, Follows(pl, S, n),
         pl[n].kind = "insert_paragraph", pl[n].at # -1
  PROVE  pl[n].at \in Originals /\ pl[n].at \in Ids(pl, S)
<1>1. pl[n].at \in Originals  BY SettingFacts
<1>2. /\ DOMAIN pl = 1..Len(pl) /\ S \subseteq DOMAIN pl
      /\ n \in DOMAIN pl
  BY LenProperties DEF Setting, Follows
<1>3. Alive(pl, S, pl[n].at)
  <2> SUFFICES ASSUME NEW m \in S, pl[m].at = pl[n].at
               PROVE  pl[m].kind # "delete_paragraph"
    BY DEF Alive
  <2>1. m < n  BY DEF Follows
  <2> QED BY <1>2, <2>1 DEF Hosted
<1> QED BY <1>1, <1>3 DEF Ids

-----------------------------------------------------------------------------
(* The file is what the plan makes of the document *)

\* The effect of write_docx's operation on the file is the effect of the edit.
LEMMA FileEffectIs ==
  ASSUME AgreeInv, prompts = {}, NEW e \in Edits, NEW k, k = Len(plan) + 1,
         k <= MaxEdits,
         \/ e.kind = "insert_paragraph" /\ FileInsert(e.at, k)
         \/ e.kind = "replace_paragraph" /\ FileReplace(e.at, k)
         \/ e.kind = "append_to_run" /\ FileAppendRun(e.at, k)
         \/ e.kind = "delete_paragraph" /\ FileDelete(e.at),
         e.kind = "insert_paragraph" /\ e.at # -1 =>
           \E p \in 1..Len(file) : file[p].id = e.at
  PROVE  Effect(file', file, e, k)
<1> DEFINE p == FilePlace(e.at)
<1>1. e.at \in (-1)..(NParas - 1)
  BY Bounds DEF Edits, Originals
<1>2. /\ FileHas(e.at) => p \in 1..Len(file) /\ file[p].id = e.at
      /\ FileHas(e.at) <=> \E q \in 1..Len(file) : file[q].id = e.at
  BY <1>1, FileFound, NamedOriginal
<1>3. e.at = -1 => ~FileHas(e.at)
  <2> SUFFICES ASSUME e.at = -1, FileHas(e.at)  PROVE FALSE  OBVIOUS
  <2>1. -1 \in Originals  BY <1>1, NamedOriginal
  <2> QED BY <2>1, Bounds DEF Originals
<1>4. CASE e.kind = "insert_paragraph" /\ FileInsert(e.at, k)
  <2>1. CASE e.at = -1
    <3>1. Grown(file', file, Len(file) + 1, Written(k))
      BY <1>3, <1>4, <2>1, FileEffect
    <3> QED BY <1>4, <2>1, <3>1 DEF Effect
  <2>2. CASE e.at # -1
    <3>1. FileHas(e.at)  BY <1>2, <1>4, <2>2
    <3>2. Grown(file', file, p + 1, Written(k))
      BY <1>4, <3>1, FileEffect
    <3> HIDE DEF p
    <3> QED BY <1>2, <1>4, <2>2, <3>1, <3>2 DEF Effect
  <2> QED BY <2>1, <2>2
<1>5. CASE e.kind = "replace_paragraph" /\ FileReplace(e.at, k)
  <2>1. CASE FileHas(e.at)
    <3>1. Rewritten(file', file, p, <<k>>)  BY <1>5, <2>1, FileEffect
    <3> HIDE DEF p
    <3> QED BY <1>2, <1>5, <2>1, <3>1 DEF Effect
  <2>2. CASE ~FileHas(e.at)
    <3>1. file' = file  BY <1>5, <2>2, FileEffect
    <3> QED BY <1>2, <1>5, <2>2, <3>1 DEF Effect
  <2> QED BY <2>1, <2>2
<1>6. CASE e.kind = "append_to_run" /\ FileAppendRun(e.at, k)
  <2>1. CASE FileHas(e.at)
    <3>1. Rewritten(file', file, p, Append(file[p].text, k))
      BY <1>6, <2>1, FileEffect
    <3> HIDE DEF p
    <3> QED BY <1>2, <1>6, <2>1, <3>1 DEF Effect
  <2>2. CASE ~FileHas(e.at)
    <3>1. file' = file  BY <1>6, <2>2, FileEffect
    <3> QED BY <1>2, <1>6, <2>2, <3>1 DEF Effect
  <2> QED BY <2>1, <2>2
<1>7. CASE e.kind = "delete_paragraph" /\ FileDelete(e.at)
  <2>1. CASE FileHas(e.at)
    <3>1. Shrunk(file', file, p)  BY <1>7, <2>1, FileEffect
    <3> HIDE DEF p
    <3> QED BY <1>2, <1>7, <2>1, <3>1 DEF Effect
  <2>2. CASE ~FileHas(e.at)
    <3>1. file' = file  BY <1>7, <2>2, FileEffect
    <3> QED BY <1>2, <1>7, <2>2, <3>1 DEF Effect
  <2> QED BY <2>1, <2>2
<1> QED BY <1>4, <1>5, <1>6, <1>7

\* The inductive invariant for SortedAgrees: the file is what the plan makes of
\* the document, whatever the order of the edits of different paragraphs.
CanonInv ==
  /\ AgreeInv
  /\ prompts = {} /\ Hosted(plan) => Canon(plan, 1..Len(plan), file)

\* No edit has been applied to the file that the edits begin with.
LEMMA InitCanon == Init => CanonInv
<1> SUFFICES ASSUME Init PROVE CanonInv  OBVIOUS
<1>1. AgreeInv  BY InitAgree
<1>2. ASSUME prompts = {}  PROVE Canon(plan, 1..Len(plan), file)
  <2>1. /\ Len(cached) = NParas /\ DOMAIN cached = 1..NParas
        /\ \A i \in 1..NParas : cached[i] = i - 1
    BY <1>1, <1>2, CachedAll, CachedOrder DEF AgreeInv
  <2>2. file = [i \in 1..NParas |-> Original(i - 1)]
    BY <2>1 DEF Init
  <2>3. 1..Len(plan) = {}
    <3>1. Len(plan) = 0  BY DEF Init
    <3> QED BY <3>1
  <2> QED BY <2>2, <2>3, CanonRead
<1> QED BY <1>1, <1>2 DEF CanonInv

\* Each edit takes the file to what the longer plan makes of the document.
LEMMA CanonInductive == CanonInv /\ [Next]_vars => CanonInv'
<1> SUFFICES ASSUME CanonInv, [Next]_vars PROVE CanonInv'  OBVIOUS
<1>1. AgreeInv /\ AgreeInv'  BY AgreeInductive DEF CanonInv
<1>2. CASE UNCHANGED vars
  <2>1. /\ file' = file /\ prompts' = prompts /\ plan' = plan
        /\ blanks' = blanks
    BY <1>2 DEF vars
  <2>2. Canon(plan, 1..Len(plan), file)' <=> Canon(plan, 1..Len(plan), file)
    BY <2>1 DEF Canon, Texts, Wrote
  <2> QED BY <1>1, <2>1, <2>2 DEF CanonInv, Hosted
<1>3. ASSUME NEW e \in Edits, Apply(e), prompts = {}, Hosted(plan')
      PROVE  Canon(plan', 1..Len(plan'), file')
  <2> DEFINE k == Len(plan) + 1
             S == 1..Len(plan)
             pl == plan'
  <2>1. plan \in Seq(Edits) /\ Len(plan) \in Nat /\ k <= MaxEdits
    BY <1>1, <1>3, Aligned, Bounds DEF Apply
  <2>2. /\ plan' = Append(plan, e)
        /\ \/ e.kind = "insert_paragraph" /\ Insert(e.at, k)
           \/ e.kind = "replace_paragraph" /\ Replace(e.at, k)
           \/ e.kind = "append_to_run" /\ AppendRun(e.at, k)
           \/ e.kind = "delete_paragraph" /\ Delete(e.at)
    BY <1>3 DEF Apply
  <2>3. /\ pl \in Seq(Edits) /\ Len(pl) = k /\ pl[k] = e
        /\ \A m \in S : pl[m] = plan[m]
    BY <2>1, <2>2, AppendProperties
  <2>4. /\ DOMAIN plan = 1..Len(plan) /\ DOMAIN pl = 1..Len(pl)
    BY <2>1, <2>3, LenProperties
  <2>5. /\ k \in 1..Len(pl) /\ k \notin S /\ S \subseteq 1..Len(pl)
        /\ \A m \in S : m < k /\ m \in DOMAIN pl
        /\ S \cup {k} = 1..Len(pl) /\ Len(plan) <= MaxEdits
    BY <2>1, <2>3, <2>4, Bounds
  <2>6. k = Len(plan) + 1 /\ Hosted(pl)  BY <1>3
  <2>7. Hosted(plan)
    <3>1. \A m \in DOMAIN plan : m \in DOMAIN pl /\ pl[m] = plan[m]
      BY <2>3, <2>4, <2>5
    <3> HIDE DEF pl
    <3> QED BY <2>6, <3>1 DEF Hosted
  <2>8. Canon(plan, S, file)  BY <1>3, <2>7 DEF CanonInv
  <2> HIDE DEF k, S, pl
  <2>9. Setting(plan, S) /\ Setting(pl, S)
    BY <2>1, <2>3, <2>5 DEF Setting, S
  <2>10. Canon(pl, S, file)  BY <2>3, <2>8, <2>9, CanonSame
  <2>11. Follows(pl, S, k)  BY <2>5 DEF Follows
  <2>12. e.kind = "insert_paragraph" /\ e.at # -1 =>
           \E p \in 1..Len(file) : file[p].id = e.at
    <3> SUFFICES ASSUME e.kind = "insert_paragraph", e.at # -1
                 PROVE  \E p \in 1..Len(file) : file[p].id = e.at
      OBVIOUS
    <3>1. pl[k].kind = "insert_paragraph" /\ pl[k].at # -1  BY <2>3
    <3>2. pl[k].at \in Ids(pl, S)
      BY <2>6, <2>9, <2>11, <3>1, HostPresent
    <3> QED BY <2>3, <2>10, <3>2 DEF Canon
  <2>13. \/ e.kind = "insert_paragraph" /\ FileInsert(e.at, k)
         \/ e.kind = "replace_paragraph" /\ FileReplace(e.at, k)
         \/ e.kind = "append_to_run" /\ FileAppendRun(e.at, k)
         \/ e.kind = "delete_paragraph" /\ FileDelete(e.at)
    BY <2>2 DEF k, Insert, Replace, AppendRun, Delete
  <2>14. Effect(file', file, e, k)
    BY <1>1, <1>3, <2>1, <2>6, <2>12, <2>13, FileEffectIs
  <2>15. Effect(file', file, pl[k], k)  BY <2>3, <2>14
  <2>16. Canon(pl, S \cup {k}, file')
    BY <2>9, <2>10, <2>11, <2>15, CanonEffect
  <2> QED BY <2>5, <2>16 DEF pl
<1>4. ASSUME NEW e \in Edits, Apply(e)  PROVE CanonInv'
  <2>1. prompts' = prompts /\ blanks' = blanks  BY <1>4 DEF Apply
  <2>2. prompts = {} /\ Hosted(plan') => Canon(plan', 1..Len(plan'), file')
    BY <1>3, <1>4
  <2>3. Hosted(plan)' <=> Hosted(plan')  BY DEF Hosted
  <2>4. Canon(plan, 1..Len(plan), file)' <=>
          Canon(plan', 1..Len(plan'), file')
    BY <2>1 DEF Canon, Texts, Wrote
  <2> QED BY <1>1, <2>1, <2>2, <2>3, <2>4 DEF CanonInv
<1> QED BY <1>2, <1>4 DEF Next

-----------------------------------------------------------------------------
(* So are the edits in reverse index order *)

\* While only higher indices and its own have had their turn, an original is
\* at its own place.
LEMMA LowPlaces ==
  ASSUME NEW pl, NEW S, Setting(pl, S), NEW doc, Canon(pl, S, doc),
         NEW a \in Originals, a \in Ids(pl, S), \A m \in S : pl[m].at >= a
  PROVE  a + 1 \in 1..Len(doc) /\ doc[a + 1].id = a
<1>1. doc \in Seq(Para) /\ Len(doc) \in Nat  BY LenProperties DEF Canon
<1>2. /\ NParas \in Nat /\ a \in Nat /\ a < NParas
      /\ \A i \in Nat : i <= a => i \in Originals
  BY Bounds DEF Originals
<1>3. ASSUME NEW i \in Nat, i <= a
      PROVE  /\ i \in Ids(pl, S) /\ Host(pl, i) = i /\ Rank(pl, i) = 0
             /\ \E p \in 1..Len(doc) : doc[p].id = i
  <2>1. i \in Originals  BY <1>2, <1>3
  <2>2. CASE i = a
    <3>1. i \in Ids(pl, S)  BY <2>2
    <3> QED BY <2>1, <3>1, IdFacts DEF Canon
  <2>3. CASE i # a
    <3>1. \A m \in S : pl[m].at # i
      <4> TAKE m \in S
      <4>1. pl[m].at >= a  OBVIOUS
      <4> QED BY <1>2, <1>3, <2>3, <4>1
    <3>2. i \in Ids(pl, S)  BY <2>1, <3>1 DEF Ids, Alive
    <3> QED BY <2>1, <3>2, IdFacts DEF Canon
  <2> QED BY <2>2, <2>3
\* Nothing is between an original below a and the next one.
<1>4. ASSUME NEW i \in Nat, i < a, NEW x \in Ids(pl, S),
             Before(pl, i, x), Before(pl, x, i + 1)
      PROVE  FALSE
  <2>1. /\ Host(pl, i) = i /\ Rank(pl, i) = 0
        /\ Host(pl, i + 1) = i + 1 /\ Rank(pl, i + 1) = 0
    BY <1>2, <1>3, <1>4
  <2>2. Host(pl, x) \in Nat /\ Rank(pl, x) \in Nat  BY IdFacts
  <2>3. Host(pl, x) = i /\ Rank(pl, x) > 0
    BY <1>4, <2>1, <2>2 DEF Before
  <2>4. x \notin Originals
    <3>1. x \in Originals => Rank(pl, x) = 0  BY IdFacts
    <3> QED BY <2>3, <3>1
  <2>5. PICK m \in S : IF pl[m].at = -1 THEN Host(pl, x) = NParas
                                        ELSE Host(pl, x) = pl[m].at
    BY <2>4, IdFacts
  <2>6. pl[m].at >= a  OBVIOUS
  <2> QED BY <1>2, <1>4, <2>3, <2>5, <2>6
\* Nothing is before the first.
<1>5. ASSUME NEW x \in Ids(pl, S), Before(pl, x, 0)  PROVE FALSE
  <2>1. Host(pl, 0) = 0 /\ Rank(pl, 0) = 0  BY <1>2, <1>3
  <2>2. Host(pl, x) \in Nat /\ Rank(pl, x) \in Nat  BY IdFacts
  <2> QED BY <1>5, <2>1, <2>2 DEF Before
<1> DEFINE T == { m \in Nat : m <= a =>
                    m + 1 \in 1..Len(doc) /\ doc[m + 1].id = m }
<1>6. 0 \in T
  <2>1. PICK p \in 1..Len(doc) : doc[p].id = 0  BY <1>2, <1>3
  <2>2. 1 \in 1..Len(doc)  BY <1>1
  <2>3. ASSUME 1 < p  PROVE FALSE
    <3>1. doc[1].id \in Ids(pl, S) /\ Before(pl, doc[1].id, 0)
      BY <2>1, <2>2, <2>3 DEF Canon
    <3> QED BY <1>5, <3>1
  <2>4. p = 1  BY <1>1, <2>3
  <2> QED BY <2>1, <2>2, <2>4
<1>7. ASSUME NEW m \in Nat, m \in T  PROVE m + 1 \in T
  <2> SUFFICES ASSUME m + 1 <= a
               PROVE  /\ (m + 1) + 1 \in 1..Len(doc)
                      /\ doc[(m + 1) + 1].id = m + 1
    OBVIOUS
  <2>1. m + 1 \in 1..Len(doc) /\ doc[m + 1].id = m /\ m < a
    BY <1>2, <1>7
  <2>2. PICK p \in 1..Len(doc) : doc[p].id = m + 1  BY <1>3
  <2> DEFINE r == (m + 1) + 1
  <2>3. ASSUME p < m + 1  PROVE FALSE
    <3>1. Before(pl, m + 1, m)  BY <2>1, <2>2, <2>3 DEF Canon
    <3>2. /\ Host(pl, m) = m /\ Host(pl, m + 1) = m + 1
      BY <1>2, <1>3, <2>1
    <3> QED BY <3>1, <3>2 DEF Before
  <2>4. p # m + 1  BY <2>1, <2>2
  <2>5. r \in 1..Len(doc) /\ m + 1 < r  BY <1>1, <2>3, <2>4
  <2>6. ASSUME r < p  PROVE FALSE
    <3>1. /\ doc[r].id \in Ids(pl, S)
          /\ Before(pl, m, doc[r].id) /\ Before(pl, doc[r].id, m + 1)
      BY <2>1, <2>2, <2>5, <2>6 DEF Canon
    <3> QED BY <1>4, <2>1, <3>1
  <2>7. p = r  BY <1>1, <2>3, <2>4, <2>6
  <2> QED BY <2>2, <2>5, <2>7
<1>8. Nat \subseteq T
  <2> HIDE DEF T
  <2> QED BY <1>6, <1>7, Induction
<1> QED BY <1>2, <1>8

\* The turn of an edit has the effect of the edit.
LEMMA TurnEffect ==
  ASSUME NEW S, Setting(plan, S), Hosted(plan), NEW n, Follows(plan, S, n),
         \A m \in S : plan[m].at >= plan[n].at,
         NEW d, Canon(plan, S, d)
  PROVE  Effect(SortedApply(d, plan[n], n), d, plan[n], n)
<1> DEFINE e == plan[n]
<1>1. /\ e.kind \in Kinds /\ (e.at = -1 \/ e.at \in Originals)
      /\ n \in 1..MaxEdits
  BY SettingFacts
<1>2. d \in Seq(Para) /\ Len(d) \in Nat /\ DOMAIN d = 1..Len(d)
  BY LenProperties DEF Canon
<1>3. Written(n) \in Para /\ <<n>> \in Seq(0..MaxEdits)
  BY <1>1, WrittenType
<1>4. e.kind = "insert_paragraph" /\ e.at # -1 =>
        e.at \in Originals /\ e.at \in Ids(plan, S)
  BY HostPresent
<1>5. e.kind = "insert_paragraph" /\ e.at # -1 =>
        e.at + 1 \in 1..Len(d) /\ d[e.at + 1].id = e.at
  BY <1>4, LowPlaces
<1> HIDE DEF e
<1>6. CASE e.kind = "insert_paragraph"
  <2>1. SortedApply(d, e, n) = IF e.at \in 0..(Len(d) - 1)
                                 THEN InsertAt(d, e.at + 2, Written(n))
                                 ELSE Append(d, Written(n))
    BY <1>6 DEF SortedApply
  <2>2. CASE e.at = -1
    <3>1. SortedApply(d, e, n) = Append(d, Written(n))  BY <2>1, <2>2
    <3>2. Grown(Append(d, Written(n)), d, Len(d) + 1, Written(n))
      BY <1>2, <1>3, AppendGrows
    <3> QED BY <1>6, <2>2, <3>1, <3>2 DEF Effect, e
  <2>3. CASE e.at # -1
    <3> DEFINE p == e.at + 1
    <3>1. p \in 1..Len(d) /\ d[p].id = e.at  BY <1>5, <1>6, <2>3
    <3>2. e.at \in Int  BY <1>1, <2>3, Bounds DEF Originals
    <3>3. e.at \in 0..(Len(d) - 1) /\ p + 1 = e.at + 2
      BY <1>2, <3>1, <3>2
    <3>4. SortedApply(d, e, n) = InsertAt(d, p + 1, Written(n))
      BY <2>1, <3>3
    <3> HIDE DEF p
    <3>5. p + 1 \in 1..(Len(d) + 1)  BY <1>2, <3>1
    <3>6. Grown(InsertAt(d, p + 1, Written(n)), d, p + 1, Written(n))
      BY <1>2, <1>3, <3>5, InsertAtGrows
    <3> QED BY <1>6, <2>3, <3>1, <3>4, <3>6 DEF Effect, e
  <2> QED BY <2>2, <2>3
<1>7. CASE e.kind # "insert_paragraph" /\ ~Present(d, e.at)
  <2>1. SortedApply(d, e, n) = d  BY <1>7 DEF SortedApply
  <2>2. \A p \in 1..Len(d) : d[p].id # e.at  BY <1>2, <1>7 DEF Present
  <2> QED BY <1>7, <2>1, <2>2 DEF Effect, e
<1>8. CASE e.kind # "insert_paragraph" /\ Present(d, e.at)
  <2> DEFINE p == Place(d, e.at)
  <2>1. p \in 1..Len(d) /\ d[p].id = e.at
    BY <1>2, <1>8 DEF Present, Place
  <2>2. CASE e.kind = "replace_paragraph"
    <3>1. SortedApply(d, e, n) = [d EXCEPT ![p].text = <<n>>]
      BY <1>8, <2>2 DEF SortedApply
    <3> HIDE DEF p
    <3>2. Rewritten([d EXCEPT ![p].text = <<n>>], d, p, <<n>>)
      BY <1>2, <1>3, <2>1, ExceptRewrites
    <3> QED BY <2>1, <2>2, <3>1, <3>2 DEF Effect, e
  <2>3. CASE e.kind = "append_to_run"
    <3> DEFINE t == Append(d[p].text, n)
    <3>1. SortedApply(d, e, n) = [d EXCEPT ![p].text = t]
      BY <1>8, <2>3 DEF SortedApply
    <3> HIDE DEF p
    <3>2. t \in Seq(0..MaxEdits)  BY <1>1, <1>2, <2>1, TextAppended
    <3> HIDE DEF t
    <3>3. Rewritten([d EXCEPT ![p].text = t], d, p, t)
      BY <1>2, <2>1, <3>2, ExceptRewrites
    <3> QED BY <2>1, <2>3, <3>1, <3>3 DEF Effect, e, t
  <2>4. CASE e.kind = "delete_paragraph"
    <3>1. SortedApply(d, e, n) = RemoveAt(d, p)
      BY <1>8, <2>4 DEF SortedApply
    <3> HIDE DEF p
    <3>2. Shrunk(RemoveAt(d, p), d, p)  BY <1>2, <2>1, RemoveAtShrinks
    <3> QED BY <2>1, <2>4, <3>1, <3>2 DEF Effect, e
  <2> QED BY <1>1, <1>8, <2>2, <2>3, <2>4 DEF Kinds
<1> QED BY <1>6, <1>7, <1>8 DEF e

\* The edits that have had their turn when the first k have been looked at in
\* the turn of index i.
Done(i, k) ==
  { m \in 1..Len(plan) : plan[m].at > i \/ (plan[m].at = i /\ m <= k) }

\* Edit by edit, the highest index first, Sorted too comes to what the whole
\* plan makes of the document.
LEMMA SortedCanon ==
  ASSUME plan \in Seq(Edits), Len(plan) <= MaxEdits, Hosted(plan)
  PROVE  Canon(plan, 1..Len(plan), Sorted)
<1>1. Len(plan) \in Nat /\ NParas \in Nat /\ NParas > 0
  BY LenProperties, Bounds
<1>2. \A m \in 1..Len(plan) : plan[m].at \in (-1)..(NParas - 1)
  <2> TAKE m \in 1..Len(plan)
  <2>1. plan[m] \in Edits  BY ElementOfSeq
  <2> QED BY <2>1, Bounds DEF Edits, Originals
<1> DEFINE start == [i \in 1..NParas |-> Original(i - 1)]
           C(j, k) == { d \in Seq(Para) :
                          Canon(plan, Done(SortedIndex(j), k), d) }
           F == [j \in 1..(NParas + 1) |-> [k \in 0..Len(plan) |-> C(j, k)]]
<1>3. \A j \in 1..(NParas + 1), k \in 0..Len(plan) : F[j][k] = C(j, k)
  OBVIOUS
<1>4. start \in C(1, 0)
  <2>1. Done(SortedIndex(1), 0) = {}
    BY <1>1, <1>2 DEF Done, SortedIndex
  <2>2. Canon(plan, {}, start)  BY CanonRead
  <2> QED BY <2>1, <2>2 DEF Canon
<1>5. ASSUME NEW j \in 1..(NParas + 1), NEW k \in 1..Len(plan),
             NEW d \in C(j, k - 1)
      PROVE  Turn(d, SortedIndex(j), k) \in C(j, k)
  <2> DEFINE i == SortedIndex(j)
             S == Done(i, k - 1)
  <2>1. i \in Int /\ k \in Nat  BY <1>1 DEF SortedIndex
  <2>2. Canon(plan, S, d)  OBVIOUS
  <2> HIDE DEF i
  <2>3. Setting(plan, S)  BY DEF Setting, Done
  <2>4. CASE plan[k].at # i
    <3>1. Done(i, k) = S
      BY <1>1, <1>2, <2>1, <2>4 DEF Done
    <3>2. Turn(d, i, k) = d  BY <2>4 DEF Turn
    <3> QED BY <3>1, <3>2 DEF i
  <2>5. CASE plan[k].at = i
    <3>1. Done(i, k) = S \cup {k}
      BY <1>1, <1>2, <2>1, <2>5 DEF Done
    <3>2. /\ k \notin S
          /\ \A m \in S : plan[m].at = plan[k].at => m < k
          /\ \A m \in S : plan[m].at >= plan[k].at
      BY <1>1, <1>2, <2>1, <2>5 DEF Done
    <3> HIDE DEF S
    <3>3. Follows(plan, S, k)  BY <3>2 DEF Follows
    <3>4. Effect(SortedApply(d, plan[k], k), d, plan[k], k)
      BY <2>2, <2>3, <3>2, <3>3, TurnEffect
    <3>5. Canon(plan, S \cup {k}, SortedApply(d, plan[k], k))
      BY <2>2, <2>3, <3>3, <3>4, CanonEffect
    <3>6. Turn(d, i, k) = SortedApply(d, plan[k], k)  BY <2>5 DEF Turn
    <3>7. Canon(plan, Done(i, k), Turn(d, i, k))  BY <3>1, <3>5, <3>6
    <3> QED BY <3>7 DEF i, Canon
  <2> QED BY <2>4, <2>5
<1>6. ASSUME NEW j \in 1..NParas  PROVE C(j, Len(plan)) \subseteq C(j + 1, 0)
  <2>1. Done(SortedIndex(j), Len(plan)) = Done(SortedIndex(j + 1), 0)
    <3>1. SortedIndex(j) \in Int /\ SortedIndex(j + 1) = SortedIndex(j) - 1
      BY <1>1 DEF SortedIndex
    <3> QED BY <1>1, <1>2, <3>1 DEF Done
  <2> QED BY <2>1
<1>7. Done(SortedIndex(NParas + 1), Len(plan)) = 1..Len(plan)
  <2>1. SortedIndex(NParas + 1) = -1  BY <1>1 DEF SortedIndex
  <2> QED BY <1>1, <1>2, <2>1 DEF Done
<1>8. C(NParas + 1, Len(plan)) =
        { d \in Seq(Para) : Canon(plan, 1..Len(plan), d) }
  BY <1>7
<1>9. /\ 1 \in 1..(NParas + 1) /\ NParas + 1 \in 1..(NParas + 1)
      /\ 0 \in 0..Len(plan) /\ Len(plan) \in 0..Len(plan)
      /\ \A k \in 1..Len(plan) : k \in 0..Len(plan) /\ k - 1 \in 0..Len(plan)
      /\ \A j \in 1..NParas : j \in 1..(NParas + 1) /\ j + 1 \in 1..(NParas + 1)
  BY <1>1
<1> HIDE DEF F, C, start
<1>10. start \in F[1][0]  BY <1>3, <1>4, <1>9
<1>11. \A j \in 1..(NParas + 1), k \in 1..Len(plan) :
         \A d \in F[j][k - 1] : Turn(d, SortedIndex(j), k) \in F[j][k]
  BY <1>3, <1>5, <1>9
<1>12. \A j \in 1..NParas : F[j][Len(plan)] \subseteq F[j + 1][0]
  BY <1>3, <1>6, <1>9
<1>13. Sorted \in F[NParas + 1][Len(plan)]
  BY <1>1, <1>10, <1>11, <1>12, SortedStays DEF start
<1> QED BY <1>3, <1>8, <1>9, <1>13

\* WordWriter's order, the highest index first, gives the document that
\* write_docx's order does, for every document without prompts and every plan
\* that inserts nothing after a paragraph it has deleted.
THEOREM SortedAgreesAlways == Spec => []SortedAgrees
<1>1. CanonInv => SortedAgrees
  <2> SUFFICES ASSUME CanonInv, prompts = {}, ~Dangling
               PROVE  Sorted = file
    BY DEF SortedAgrees
  <2>1. Hosted(plan)  BY DEF Hosted, Dangling
  <2>2. plan \in Seq(Edits) /\ Len(plan) <= MaxEdits
    BY Bounds DEF CanonInv, AgreeInv, IInv, TypeOK
  <2>3. Setting(plan, 1..Len(plan))  BY <2>2 DEF Setting
  <2>4. Canon(plan, 1..Len(plan), file)  BY <2>1 DEF CanonInv
  <2>5. Canon(plan, 1..Len(plan), Sorted)  BY <2>1, <2>2, SortedCanon
  <2> QED BY <2>3, <2>4, <2>5, CanonDecides
<1> QED BY <1>1, InitCanon, CanonInductive, PTL DEF Spec
=============================================================================
