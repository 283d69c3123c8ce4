---------------------------- MODULE LanguageServer ----------------------------
(***************************************************************************)
(* What diagprint-lsp (crates/diagprint-lsp/src) makes of a diagnostic for *)
(* an editor: ranges of its labels, and code actions of its suggestions.   *)
(* It validates the edits of a suggestion by rules of its own and hands    *)
(* them over as ranges of lines and characters, counted in the units the   *)
(* client has asked for; the client turns them back into places of its     *)
(* text and applies them all at once.                                      *)
(***************************************************************************)
EXTENDS EditApply, FiniteSetsExt

CONSTANTS
  Newline,        \* the byte that ends a line
  Return          \* the byte that may come before it

ASSUME LanguageServerAssumption ==
  /\ {Newline, Return} \subseteq DOMAIN Width /\ Newline # Return
  /\ Width[Newline] = 1 /\ Width[Return] = 1

(* PositionEncoding                                                        *)
Encodings == {"utf-8", "utf-16", "utf-32"}

Starts(text) == {k \in DOMAIN text : Width[text[k]] # 0}

EncodedUnits(text, encoding) ==
  LET encode_utf16 == [k \in DOMAIN text |-> IF Width[text[k]] = 4 THEN 2 ELSE 1]
  IN  CASE encoding = "utf-8"  -> Len(text)
        [] encoding = "utf-16" -> MapThenSumSet(LAMBDA k : encode_utf16[k], Starts(text))
        [] encoding = "utf-32" -> Cardinality(Starts(text))

-----------------------------------------------------------------------------
(* Positions                                                               *)

(* A position whose line starts at the first byte of the text.             *)
PositionInText(text, offset, encoding) ==
  [line      |-> Cardinality({k \in 1..offset : text[k] = Newline}),
   character |-> EncodedUnits(Slice(text, 0, offset), encoding)]

OffsetPosition(text, offset, encoding) ==
  LET line_start == Max({0} \cup {k \in 1..offset : text[k] = Newline})
  IN  [line      |-> Cardinality({k \in 1..offset : text[k] = Newline}),
       character |-> EncodedUnits(Slice(text, line_start, offset), encoding)]

NoPosition == [line |-> -1, character |-> -1]

InvalidLabel == [start |-> NoPosition, end |-> NoPosition]

(* split('\n').nth: where the line after n newlines starts, and the line,   *)
(* which ends before "\r\n".                                               *)
Newlines(text) == {k \in DOMAIN text : text[k] = Newline}

LineAt(text, n) ==
  CHOOSE k \in {0} \cup Newlines(text) : Cardinality({j \in Newlines(text) : j <= k}) = n

LineText(text, n) ==
  LET stop == IF n = Cardinality(Newlines(text)) THEN Len(text) ELSE LineAt(text, n + 1) - 1
      raw  == Slice(text, LineAt(text, n), stop)
  IN  IF raw # <<>> /\ Last(raw) = Return THEN Slice(raw, 0, Len(raw) - 1) ELSE raw

ByteForScalar(line, n) ==
  IF n = Cardinality(Starts(line)) THEN Len(line)
  ELSE (CHOOSE k \in Starts(line) : Cardinality({j \in Starts(line) : j < k}) = n) - 1

(* label_range: lines and columns count from 1, columns and the length are *)
(* characters of the line.                                                 *)
LabelRange(text, label, encoding) ==
  LET line == LineText(text, label.line - 1)
      Position(n) == [line |-> label.line - 1,
                      character |-> EncodedUnits(Slice(line, 0, ByteForScalar(line, n)), encoding)]
  IN  IF \/ label.line \notin 1..(Cardinality(Newlines(text)) + 1) \/ label.column = 0
         \/ label.column - 1 + label.length > Cardinality(Starts(line))
      THEN InvalidLabel
      ELSE [start |-> Position(label.column - 1),
            end   |-> Position(label.column - 1 + label.length)]

(* What a client takes a position for: a line ends at "\n", "\r\n" or "\r" *)
(* and a character past its end is its end.                                *)
ClientOffset(text, position, encoding) ==
  LET breaks == {k \in DOMAIN text :
                   \/ text[k] = Newline
                   \/ text[k] = Return /\ (k < Len(text) => text[k + 1] # Newline)}
      start  == CHOOSE o \in {0} \cup breaks :
                  Cardinality({k \in breaks : k <= o}) = position.line
      stop   == Min({Len(text)} \cup {k - 1 : k \in {j \in DOMAIN text :
                       j > start /\ text[j] \in {Newline, Return}}})
  IN  Max({o \in start..stop :
             /\ IsCharBoundary(text, o)
             /\ EncodedUnits(Slice(text, start, o), encoding) <= position.character})

-----------------------------------------------------------------------------
(* Edits                                                                   *)

(* validate_edit: a machine applicable insertion must be guarded.          *)
ValidEdit(text, edit, machine) ==
  /\ ValidRange(text, edit)
  /\ machine /\ edit.insert => edit.expected # NoGuard
  /\ Fresh(text, edit)

(* Only what overlaps, or, as here, also two edits that start together.    *)
CutsInto(d, e) == e.start < d.end

Overlaps(d, e) == e.start < d.end \/ e.start = d.start

ValidNonOverlapping(list) ==
  LET spans == Sorted(list, SpanBefore)
  IN  \A i \in 1..(Len(spans) - 1) : ~Overlaps(spans[i], spans[i + 1])

Offered(text, list, machine) ==
  /\ list # <<>>
  /\ \A i \in DOMAIN list : ValidEdit(text, list[i], machine)
  /\ ValidNonOverlapping(list)

(* The edits of one document in a workspace edit.                          *)
TextEdits(text, list, encoding) ==
  [i \in DOMAIN list |->
     LET edit == Sorted(list, SpanBefore)[i]
     IN  [start |-> OffsetPosition(text, edit.start, encoding),
          end   |-> OffsetPosition(text, edit.end, encoding),
          new   |-> edit.new]]

ClientApplies(text, text_edits, encoding) ==
  AllAtOnce(text,
    [i \in DOMAIN text_edits |->
       [start |-> ClientOffset(text, text_edits[i].start, encoding),
        end   |-> ClientOffset(text, text_edits[i].end, encoding),
        new   |-> text_edits[i].new]])

(* code_actions, for one suggestion: commands, manual suggestions and ones *)
(* with placeholders are shown but disabled, as are edits that do not fit. *)
CodeAction(text, suggestion, encoding) ==
  LET machine == suggestion.applicability = "MachineApplicable"
  IN  IF /\ ~suggestion.commands
         /\ suggestion.applicability \in {"MachineApplicable", "MaybeIncorrect"}
         /\ Offered(text, suggestion.edits, machine)
      THEN [enabled |-> TRUE, preferred |-> machine,
            edits |-> TextEdits(text, suggestion.edits, encoding)]
      ELSE [enabled |-> FALSE, preferred |-> FALSE, edits |-> <<>>]

-----------------------------------------------------------------------------
(* No edit starts or ends between "\r" and "\n", which a position cannot   *)
(* name.                                                                   *)
OutsideLineEnds(text, list) ==
  \A i \in DOMAIN list : \A o \in {list[i].start, list[i].end} :
    ~(o > 0 /\ o < Len(text) /\ text[o] = Return /\ text[o + 1] = Newline)

(* The range of a label is the characters it counts: from its column on,   *)
(* as many as its length, all of them in its line.                         *)
LabelsPoint(text) ==
  \A encoding \in Encodings, line, column \in 1..(Len(text) + 1), length \in 0..Len(text) :
    LET range == LabelRange(text, [line |-> line, column |-> column, length |-> length], encoding)
        from  == ClientOffset(text, range.start, encoding)
        to    == ClientOffset(text, range.end, encoding)
        lead  == Slice(text, 0, from)
    IN  range # InvalidLabel =>
          /\ Cardinality(Starts(Slice(text, from, to))) = length
          /\ Cardinality({k \in DOMAIN lead : lead[k] = Newline}) = line - 1
          /\ Newline \notin {text[k] : k \in (from + 1)..to}

(* Two validators, two ways to apply: what the adapter offers an editor,   *)
(* validate_edits accepts, and the client, in any encoding, ends up with   *)
(* the text apply_edits makes, although the one works on the original text *)
(* and the other from the end.  Labels point at what they count.           *)
EditorAgrees ==
  /\ phase = "done" /\ edits = <<>> => LabelsPoint(original)
  /\ \A machine \in BOOLEAN : Offered(original, edits, machine) =>
       /\ Valid(original, edits)
       /\ phase # "refused"
       /\ phase = "done" /\ OutsideLineEnds(original, edits) =>
            \A encoding \in Encodings :
              ClientApplies(original, TextEdits(original, edits, encoding), encoding) = content
=============================================================================
