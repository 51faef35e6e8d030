---------------------------- MODULE ParagraphEdits ----------------------------
(***************************************************************************)
(* How a list of edits, each naming a paragraph by its index in the        *)
(* document that was read, is applied to a Word document: to the file      *)
(* through python-docx (write_docx and its _op_* functions), to the open   *)
(* document through Word's COM interface (_try_com_write and its _com_*    *)
(* functions), and to the file in reverse index order (WordWriter of       *)
(* word_master).  The first two run side by side, one edit per step; the   *)
(* third takes the whole list, so it is an operator on it.                 *)
(*                                                                         *)
(* A paragraph is its identity and the edits that wrote its text: 0 is     *)
(* the text it had, k the k-th edit; no edit at all is a blank paragraph.  *)
(***************************************************************************)
EXTENDS Integers, Sequences, SequencesExt

CONSTANTS
  NParas,    \* paragraphs of the document that was read
  MaxEdits   \* edits in a plan

ASSUME EditsAssumption == NParas \in Nat \ {0} /\ MaxEdits \in Nat

Originals == 0..(NParas - 1)
Kinds == {"insert_paragraph", "replace_paragraph", "append_to_run",
          "delete_paragraph"}
\* What WordOperationValidator.validate leaves of an index: -1 (append) is
\* for insertions only.
Edits == [kind: Kinds, at: Originals] \cup
         [kind: {"insert_paragraph"}, at: {-1}]

VARIABLES
  prompts, \* the paragraphs that begin with //
  blanks,  \* the paragraphs without a text
  plan,    \* the edits applied so far
  file,    \* python-docx's document
  cached,  \* original_paragraphs
  word,    \* Word's document
  indices  \* current_indices: where the paragraphs are now, -1 if deleted

vars == <<prompts, blanks, plan, file, cached, word, indices>>

Written(k) == [id |-> NParas + k, text |-> <<k>>]
Original(i) == [id |-> i, text |-> IF i \in blanks THEN <<>> ELSE <<0>>]
Present(doc, id) == \E p \in DOMAIN doc : doc[p].id = id
Place(doc, id) == CHOOSE p \in DOMAIN doc : doc[p].id = id
\* Word keeps its last paragraph mark: deleting the last paragraph blanks it.
Blank(doc, p) == [doc EXCEPT ![p].text = <<>>]

\* The paragraphs that are no prompt, in their order.
Remaining ==
  { s \in UNION { [1..n -> Originals] : n \in 0..NParas } :
      /\ \A i, j \in DOMAIN s : i < j => s[i] < s[j]
      /\ { s[i] : i \in DOMAIN s } = Originals \ prompts }

\* The prompts are removed before the first edit.
Init ==
  /\ prompts \in SUBSET Originals
  /\ blanks \in SUBSET (Originals \ prompts)
  /\ plan = <<>>
  /\ cached \in Remaining
  /\ file = [i \in DOMAIN cached |-> Original(cached[i])]
  /\ word = IF NParas - 1 \in prompts
              THEN Append(file, [id |-> NParas - 1, text |-> <<>>]) ELSE file
  /\ indices = [i \in DOMAIN word |-> i]

-----------------------------------------------------------------------------
\* The paragraph an edit names, in python-docx's list.
Named(at) == at + 1 \in DOMAIN cached
FileHas(at) == Named(at) /\ Present(file, cached[at + 1])
FilePlace(at) == Place(file, cached[at + 1])

\* Mutant of FileInsert: the index counts the paragraphs of the moment.
FileInsertNow(at, k) ==
  file' = IF at + 1 \in DOMAIN file THEN InsertAt(file, at + 2, Written(k))
                                    ELSE Append(file, Written(k))
FileInsert(at, k) ==
  file' = IF FileHas(at) THEN InsertAt(file, FilePlace(at) + 1, Written(k))
                         ELSE Append(file, Written(k))
FileReplace(at, k) ==
  file' = IF FileHas(at) THEN [file EXCEPT ![FilePlace(at)].text = <<k>>]
                         ELSE file
FileAppendRun(at, k) ==
  file' = IF FileHas(at)
            THEN [file EXCEPT ![FilePlace(at)].text = Append(@, k)] ELSE file
\* Mutant of FileDelete: the index counts the paragraphs of the moment.
FileDeleteNow(at) ==
  file' = IF at + 1 \in DOMAIN file THEN RemoveAt(file, at + 1) ELSE file
FileDelete(at) ==
  file' = IF FileHas(at) THEN RemoveAt(file, FilePlace(at)) ELSE file

\* current_indices, with the paragraphs counted from one and 0 for -1.
Index(at) == IF at + 1 \in DOMAIN indices THEN indices[at + 1] ELSE 0
Shifted(from, by) ==
  [i \in DOMAIN indices |->
     IF indices[i] > from THEN indices[i] + by ELSE indices[i]]

WordInsert(at, k) ==
  IF Index(at) = 0
    THEN /\ word' = IF Last(word).text = <<>>
                      THEN [word EXCEPT ![Len(word)].text = <<k>>]
                      ELSE Append(word, Written(k))
         /\ UNCHANGED indices
    ELSE /\ word' = InsertAt(word, Index(at) + 1, Written(k))
         /\ indices' = Shifted(Index(at), 1)
WordReplace(at, k) ==
  word' = IF Index(at) # 0 THEN [word EXCEPT ![Index(at)].text = <<k>>]
                           ELSE word
WordAppendRun(at, k) ==
  word' = IF Index(at) # 0
            THEN [word EXCEPT ![Index(at)].text = Append(@, k)] ELSE word
\* Mutant of WordDelete: the deleted paragraph is not marked.
WordDeleteUnmarked(at) ==
  IF Index(at) = 0 THEN UNCHANGED <<word, indices>>
  ELSE IF Index(at) = Len(word)
    THEN word' = Blank(word, Len(word)) /\ UNCHANGED indices
    ELSE word' = RemoveAt(word, Index(at)) /\ indices' = Shifted(Index(at), -1)
WordDelete(at) ==
  IF Index(at) = 0 THEN UNCHANGED <<word, indices>>
  ELSE IF Index(at) = Len(word)
    THEN /\ word' = Blank(word, Len(word))
         /\ indices' = [indices EXCEPT ![at + 1] = 0]
    ELSE /\ word' = RemoveAt(word, Index(at))
         /\ indices' = [Shifted(Index(at), -1) EXCEPT ![at + 1] = 0]

Insert(at, k) == FileInsert(at, k) /\ WordInsert(at, k)
Replace(at, k) ==
  FileReplace(at, k) /\ WordReplace(at, k) /\ UNCHANGED indices
AppendRun(at, k) ==
  FileAppendRun(at, k) /\ WordAppendRun(at, k) /\ UNCHANGED indices
Delete(at) == FileDelete(at) /\ WordDelete(at)

Apply(e) ==
  /\ Len(plan) < MaxEdits
  /\ plan' = Append(plan, e)
  /\ UNCHANGED <<prompts, blanks, cached>>
  /\ \/ e.kind = "insert_paragraph" /\ Insert(e.at, Len(plan) + 1)
     \/ e.kind = "replace_paragraph" /\ Replace(e.at, Len(plan) + 1)
     \/ e.kind = "append_to_run" /\ AppendRun(e.at, Len(plan) + 1)
     \/ e.kind = "delete_paragraph" /\ Delete(e.at)

Next == \E e \in Edits : Apply(e)
Spec == Init /\ [][Next]_vars

-----------------------------------------------------------------------------
\* WordWriter of word_master: the edits sorted by index, the highest first
\* (sorted is stable), insertions at the index among the paragraphs of the
\* moment, the other edits at the cached paragraph; prompts stay.
SortedApply(doc, e, k) ==
  CASE e.kind = "insert_paragraph" ->
         IF e.at \in 0..(Len(doc) - 1)
           THEN InsertAt(doc, e.at + 2, Written(k))
           ELSE Append(doc, Written(k))
    [] e.kind # "insert_paragraph" /\ ~Present(doc, e.at) -> doc
    [] e.kind = "replace_paragraph" /\ Present(doc, e.at) ->
         [doc EXCEPT ![Place(doc, e.at)].text = <<k>>]
    [] e.kind = "append_to_run" /\ Present(doc, e.at) ->
         [doc EXCEPT ![Place(doc, e.at)].text = Append(@, k)]
    [] e.kind = "delete_paragraph" /\ Present(doc, e.at) ->
         RemoveAt(doc, Place(doc, e.at))

\* The edits of one index, in the order they have in the plan.
AtIndex(doc, at) ==
  LET after[k \in 0..Len(plan)] ==
        IF k = 0 THEN doc
        ELSE IF plan[k].at = at THEN SortedApply(after[k - 1], plan[k], k)
        ELSE after[k - 1]
  IN  after[Len(plan)]

\* Mutant of SortedIndex: the lowest index first.
SortedIndexAscending(j) == j - 2
\* The index whose turn comes as the j-th; -1 comes last.
SortedIndex(j) == NParas - j

Sorted ==
  LET down[j \in 0..(NParas + 1)] ==
        IF j = 0 THEN [i \in 1..NParas |-> Original(i - 1)]
        ELSE AtIndex(down[j - 1], SortedIndex(j))
  IN  down[NParas + 1]

-----------------------------------------------------------------------------
TypeOK ==
  /\ prompts \subseteq Originals /\ blanks \subseteq Originals \ prompts
  /\ plan \in Seq(Edits) /\ Len(plan) \in 0..MaxEdits
  /\ file \in Seq([id: Nat, text: Seq(0..MaxEdits)])
  /\ word \in Seq([id: Nat, text: Seq(0..MaxEdits)])
  /\ cached \in Seq(Originals)
  /\ indices \in Seq(Nat)

\* The paragraphs Word had when current_indices was made.
Kept == IF NParas - 1 \in prompts THEN Append(cached, NParas - 1) ELSE cached

\* However many insertions and deletions went before, current_indices leads
\* to the paragraph that had the index when the edits began, and no two
\* indices to the same one (the shifts of _com_insert_paragraph and
\* _com_delete_paragraph).
IndicesTrack ==
  /\ Len(indices) = Len(Kept)
  /\ \A i \in DOMAIN indices :
       indices[i] # 0 => /\ indices[i] \in DOMAIN word
                         /\ word[indices[i]].id = Kept[i]
  /\ \A i, j \in DOMAIN indices :
       indices[i] = indices[j] => i = j \/ indices[i] = 0

\* The document is the same whether Word was open (COM) or not (python-docx):
\* the same texts in the same order, but for the blank paragraph that Word
\* keeps where the last one was deleted, until an insertion at the end fills
\* it.  It is not so where the document that was read ends in a prompt, which
\* Word keeps, with its index, as a blank paragraph, or in a paragraph that
\* was blank already: COM writes into that one what python-docx adds after it.
Says(doc) == [p \in DOMAIN doc |-> doc[p].text]
PathsAgree ==
  NParas - 1 \notin prompts \cup blanks =>
    \/ Says(word) = Says(file)
    \/ /\ ~Present(file, NParas - 1)
       /\ Says(word) = Append(Says(file), <<>>)

\* Applying the edits from the last index to the first (WordWriter) gives the
\* document that applying them in the order given does (write_docx), when
\* there is no prompt to remove and no insertion after a paragraph that an
\* earlier edit deleted.
Dangling ==
  \E j, k \in DOMAIN plan :
    /\ j < k /\ plan[j].at = plan[k].at
    /\ plan[j].kind = "delete_paragraph" /\ plan[k].kind = "insert_paragraph"
SortedAgrees == prompts = {} /\ ~Dangling => Sorted = file

\* A paragraph that no replacement, addition or deletion names is as it was
\* and in its place among those like it, whichever way the edits are applied
\* (test_adjacent_unchanged.py), but a blank last one in Word, which an
\* insertion at the end fills.  With prompts to remove it is not so: the
\* indices of the paragraphs after them no longer name what was read.
Untouched ==
  { i \in Originals :
      \A k \in DOMAIN plan : plan[k].at = i => plan[k].kind = "insert_paragraph" }
InPlace(doc, ids) ==
  LET kept == { p \in DOMAIN doc : doc[p].id \in ids }
  IN  /\ { doc[p] : p \in kept } = { Original(i) : i \in ids }
      /\ \A p, q \in kept : p < q => doc[p].id < doc[q].id
UntouchedStays ==
  prompts = {} =>
    /\ InPlace(file, Untouched) /\ InPlace(Sorted, Untouched)
    /\ InPlace(word, Untouched \ (blanks \cap {NParas - 1}))

=============================================================================
