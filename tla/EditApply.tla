------------------------------ MODULE EditApply -----------------------------
(***************************************************************************)
(* prepare_edits for one file (src/remediation.rs): the edits suggested    *)
(* for it are validated against its text, then applied to it one after the *)
(* other, the highest offset first.                                        *)
(*                                                                         *)
(* A text is a sequence of bytes; a byte starts a character of Width bytes *)
(* or, of width 0, continues one.  Delete is Replace by the empty text.    *)
(***************************************************************************)
EXTENDS Integers, FiniteSets, SequencesExt

CONSTANTS
  Width,          \* for every byte, how many bytes the character it starts has
  Texts,          \* the texts a file may hold
  News,           \* the texts an edit may put in
  MaxEdits        \* bound: edits of one file, by its text

(* A String is whole characters: a byte continues one exactly when it lies *)
(* in the character an earlier byte started.                               *)
WellFormed(text) ==
  \A k \in 1..Len(text) :
    /\ k + Width[text[k]] <= Len(text) + 1
    /\ (Width[text[k]] = 0) <=> (\E j \in 1..(k - 1) : j + Width[text[j]] > k)

ASSUME EditApplyAssumption ==
  /\ \A byte \in DOMAIN Width : Width[byte] \in 0..4
  /\ \A text \in Texts \cup News : text \in Seq(DOMAIN Width) /\ WellFormed(text)
  /\ MaxEdits \in [Texts -> Nat]

VARIABLES
  original,       \* what read_to_string returned
  edits,          \* the edits, in the order the suggestions list them
  phase,          \* "collect", "apply", "done", "refused"
  pending,        \* edits still to apply, in the order they will be
  content         \* the text so far

vars == <<original, edits, phase, pending, content>>

NoGuard == <<"no guard">>

(* Edit::Replace and Edit::Delete, with the text they expect; Edit::Insert *)
(* with the text it expects before its offset, or no guard.                *)
Replace(start, end, expected, new) ==
  [insert |-> FALSE, start |-> start, end |-> end, expected |-> expected, new |-> new]

Insert(offset, guard, new) ==
  [insert |-> TRUE, start |-> offset, end |-> offset, expected |-> guard, new |-> new]

Slice(text, start, end) == SubSeq(text, start + 1, end)

-----------------------------------------------------------------------------
(* Validation                                                              *)

IsCharBoundary(text, offset) ==
  offset \notin {0, Len(text)} => Width[text[offset + 1]] # 0

ValidRange(text, edit) ==
  /\ edit.start <= edit.end
  /\ edit.end <= Len(text)
  /\ IsCharBoundary(text, edit.start)
  /\ IsCharBoundary(text, edit.end)

(* The file still holds what the edit expects.                             *)
Fresh(text, edit) ==
  IF edit.insert
  THEN edit.expected = NoGuard \/ IsSuffix(edit.expected, Slice(text, 0, edit.start))
  ELSE Slice(text, edit.start, edit.end) = edit.expected

(* sort_unstable and sort_by_key: a sequence in order, equals as listed.   *)
Sorted(seq, Before(_, _)) ==
  LET rank(i) == Cardinality({j \in DOMAIN seq :
                   Before(seq[j], seq[i]) \/ (~Before(seq[i], seq[j]) /\ j < i)})
  IN [r \in DOMAIN seq |-> seq[CHOOSE i \in DOMAIN seq : rank(i) = r - 1]]

SpanBefore(d, e) == d.start < e.start \/ (d.start = e.start /\ d.end < e.end)

(* Two neighbours that overlap, or put two texts at one place.             *)
OverlapOnly(d, e) == d.end > e.start

Clash(d, e) ==
  \/ d.end > e.start
  \/ d.start = d.end /\ e.start = e.end /\ d.start = e.start

Valid(text, list) ==
  /\ \A i \in DOMAIN list : ValidRange(text, list[i]) /\ Fresh(text, list[i])
  /\ LET spans == Sorted(list, SpanBefore)
     IN \A i \in 1..(Len(spans) - 1) : ~Clash(spans[i], spans[i + 1])

-----------------------------------------------------------------------------
(* The steps                                                               *)

Forward(d, e) == d.start < e.start

FromTheEnd(d, e) == d.start > e.start

(* replace_range and insert_str.                                           *)
Spliced(text, edit) ==
  Slice(text, 0, edit.start) \o edit.new \o Slice(text, edit.end, Len(text))

(* A suggestion lists one more edit of the file.                           *)
Suggest(edit) ==
  /\ phase = "collect" /\ Len(edits) < MaxEdits[original]
  /\ edits' = Append(edits, edit)
  /\ UNCHANGED <<original, phase, pending, content>>

(* validate_edits accepts the list and apply_edits sorts it, or the list   *)
(* is refused.                                                             *)
Validate ==
  /\ phase = "collect"
  /\ \/ /\ Valid(original, edits)
        /\ phase' = "apply"
        /\ pending' = Sorted(edits, FromTheEnd)
     \/ ~Valid(original, edits) /\ phase' = "refused" /\ UNCHANGED pending
  /\ UNCHANGED <<original, edits, content>>

(* apply_edits: the range is looked at once more, in the text as it is now.*)
ApplyEdit ==
  /\ phase = "apply" /\ pending # <<>>
  /\ \/ /\ ValidRange(content, Head(pending))
        /\ content' = Spliced(content, Head(pending))
        /\ pending' = Tail(pending)
        /\ UNCHANGED phase
     \/ ~ValidRange(content, Head(pending)) /\ phase' = "refused" /\ UNCHANGED <<content, pending>>
  /\ UNCHANGED <<original, edits>>

Prepared ==
  /\ phase = "apply" /\ pending = <<>>
  /\ phase' = "done"
  /\ UNCHANGED <<original, edits, pending, content>>

Init ==
  /\ original \in Texts
  /\ edits = <<>>
  /\ phase = "collect"
  /\ pending = <<>>
  /\ content = original

(* Spans in and out of the text, texts and guards that fit it or do not.   *)
Offset == 0..(Len(original) + 1)

Found(start, end) ==
  IF end <= Len(original) THEN Slice(original, start, end) ELSE original

Suggestions ==
  {Replace(start, end, Found(start, end), new) :
     start \in Offset, end \in Offset, new \in News} \cup
  {Replace(start, start + 1, original, new) : start \in Offset, new \in News} \cup
  {Insert(offset, guard, new) :
     offset \in Offset, guard \in {NoGuard, original}, new \in News \ {<<>>}}

Next ==
  \/ \E edit \in Suggestions : Suggest(edit)
  \/ Validate
  \/ ApplyEdit
  \/ Prepared

Spec == Init /\ [][Next]_vars

-----------------------------------------------------------------------------
(* Properties                                                              *)

(* All edits at once: every place of the original text keeps its byte, or  *)
(* gives way to the edit that covers it; what edits put at a place comes   *)
(* before the byte there.                                                  *)
PutIn(list, k, empty) ==
  LET here == {i \in DOMAIN list : /\ list[i].start = k
                                   /\ (list[i].end = k) = empty}
  IN IF here = {} THEN <<>> ELSE list[CHOOSE i \in here : TRUE].new

Covered(list, k) == \E i \in DOMAIN list : list[i].start <= k /\ k < list[i].end

AllAtOnce(text, list) ==
  FlattenSeq([p \in 1..(Len(text) + 1) |->
    PutIn(list, p - 1, TRUE) \o PutIn(list, p - 1, FALSE) \o
    IF p > Len(text) \/ Covered(list, p - 1) THEN <<>> ELSE <<text[p]>>])

(* No text is listed to go in where a span listed after it starts.         *)
InsertsComeLater ==
  \A i, j \in DOMAIN edits :
    i < j /\ edits[i].start = edits[j].start /\ edits[j].start < edits[j].end =>
      edits[i].start < edits[i].end

(* No order of the edits ever cuts a character in two, between the steps   *)
(* included: replace_range would panic.  And one after the other from the  *)
(* end they do what they do all at once, and the second look at the ranges *)
(* never refuses what validation passed, for lists in which insertions do  *)
(* not precede a span at their place.                                      *)
Simultaneous ==
  /\ WellFormed(content)
  /\ phase \in {"apply", "done", "refused"} /\ Valid(original, edits) /\ InsertsComeLater =>
       phase # "refused" /\ (phase = "done" => content = AllAtOnce(original, edits))

(* "Applying edits from highest offset to lowest prevents an earlier edit  *)
(* from shifting offsets required by later edits": in every accepted list. *)
OffsetsNeverShift ==
  phase = "done" => content = AllAtOnce(original, edits)
=============================================================================
