-------------------------------- MODULE Editor --------------------------------
(***************************************************************************)
(* A language server built from diagprint-lsp, a SourceCache and captured  *)
(* diagnostics (src/captured.rs, src/diagnostic.rs), for one document of a *)
(* client.  The client types, closes and reopens the document; the server  *)
(* loop takes its notifications in order, puts the text into the cache and *)
(* the version into the document map; an analysis runs beside the loop on  *)
(* a snapshot, and what it captured is turned into a code action, if it is *)
(* not stale, and rendered to a terminal.  The client applies the edits of *)
(* a code action only to the version they name.                            *)
(*                                                                         *)
(* The session and the lists of edits of EditApply share operators and no  *)
(* variable: either moves while the other is at rest.                      *)
(***************************************************************************)
EXTENDS LanguageServer, SourceCache

CONSTANTS
  Document,       \* the name of the document
  Typed,          \* the texts a client may make of it
  OnDisk,         \* the text of its file
  Encoding,       \* the units of positions client and server agreed on
  MaxVersion      \* bound: versions of the document

ASSUME EditorAssumption ==
  /\ Document \in Names /\ MaxVersion \in Nat /\ Encoding \in Encodings
  /\ \A text \in Typed : text \in Seq(DOMAIN Width) /\ text # <<>> /\ WellFormed(text)

VARIABLES
  client,         \* the text and version the client shows, and whether it does
  notes,          \* notifications on their way to the server
  document,       \* what the document map knows of it
  captured,       \* a captured diagnostic and its suggestion, or none
  offer,          \* a code action on its way to the client, or none
  render          \* a diagnostic being rendered: where its text comes from

session == <<client, notes, document, captured, offer, render>>

NoCaptured == [sources |-> <<>>, revision |-> 0, suggestion |-> <<>>]
NoOffer    == [version |-> 0, edits |-> <<>>, text |-> <<>>, edit |-> <<>>]
NoRender   == [phase |-> "idle", live |-> FALSE, text |-> <<>>]
Missing    == [known |-> FALSE, version |-> 0]
Unversioned == 0

Shown == client.open

-----------------------------------------------------------------------------
(* The client                                                              *)

Changed(text) ==
  /\ client.version < MaxVersion
  /\ client' = [open |-> TRUE, version |-> client.version + 1, text |-> text]
  /\ notes' = Append(notes, [open |-> TRUE, version |-> client.version + 1, text |-> text])

Type(text) ==
  /\ Changed(text)
  /\ UNCHANGED <<cache, document, captured, offer, render>>

Close ==
  /\ Shown
  /\ client' = [client EXCEPT !.open = FALSE]
  /\ notes' = Append(notes, [open |-> FALSE, version |-> 0, text |-> <<>>])
  /\ UNCHANGED <<cache, document, captured, offer, render>>

(* A workspace edit is for one version of the document.                    *)
Answer ==
  /\ offer # NoOffer
  /\ IF Shown /\ client.version = offer.version
     THEN Changed(ClientApplies(client.text, offer.edits, Encoding))
     ELSE UNCHANGED <<client, notes>>
  /\ offer' = NoOffer
  /\ UNCHANGED <<cache, document, captured, render>>

-----------------------------------------------------------------------------
(* The server                                                              *)

(* A text goes into the cache and its version, if the client counts        *)
(* versions, into the document map; a panic leaves both as they were.      *)
Handle ==
  /\ notes # <<>>
  /\ notes' = Tail(notes)
  /\ LET note == Head(notes)
     IN  \/ /\ note.open
            /\ InsertSource(Document, note.text)
            /\ document' \in [known : {TRUE}, version : {note.version, Unversioned}]
         \/ note.open /\ InsertSourcePanics(Document) /\ UNCHANGED document
         \/ ~note.open /\ RemoveSource(Document) /\ document' = Missing
  /\ UNCHANGED <<client, captured, offer, render>>

ClearCache ==
  /\ ClearSources
  /\ UNCHANGED session

(* bind_source_revisions: a label without a revision gets that of the      *)
(* snapshot, if the snapshot has its source.                               *)
Bound(revision, sources) ==
  IF revision # 0 THEN revision ELSE Revision(sources, Document)

(* CapturedDiagnostic::new of a snapshot, with a label that may be made at *)
(* a revision of its own.                                                  *)
Analyze(revision, suggestion) ==
  /\ revision <= revisions[Document]
  /\ captured' = [sources    |-> entries,
                  revision   |-> Bound(revision, entries),
                  suggestion |-> suggestion]
  /\ render' = NoRender
  /\ UNCHANGED <<cache, client, notes, document, offer>>

(* has_stale_sources                                                       *)
NeverStale == FALSE

IsStale == captured.revision # 0 /\ Revision(entries, Document) # captured.revision

(* verify_revision, against the sources the diagnostic comes with.         *)
RevisionVerified ==
  /\ HasSource(captured.sources, Document)
  /\ captured.revision # 0 => Revision(captured.sources, Document) = captured.revision

FirstLine == [line |-> 1, column |-> 1, length |-> 0]

(* code_actions: of the captured sources, for the version in the document  *)
(* map.                                                                    *)
OfferCodeAction ==
  /\ captured # NoCaptured /\ ~IsStale
  /\ RevisionVerified /\ document.known
  /\ LET text   == captured.sources[Document].text
         action == CodeAction(text, captured.suggestion, Encoding)
     IN  /\ LabelRange(text, FirstLine, Encoding) # InvalidLabel
         /\ action.enabled /\ document.version # Unversioned
         /\ offer' = [version |-> document.version, edits |-> action.edits,
                      text |-> text, edit |-> captured.suggestion.edits[1]]
  /\ UNCHANGED <<cache, client, notes, document, captured, render>>

-----------------------------------------------------------------------------
(* Rendering (src/render/source_context.rs), from the snapshot of the      *)
(* diagnostic or from the live cache: the revision is read, and compared   *)
(* if the label has one, and then the text is, each under the lock.        *)

Store(live) == IF live THEN entries ELSE captured.sources

CheckRevision(live) ==
  /\ captured # NoCaptured /\ render.phase = "idle"
  /\ render' = [phase |-> IF \/ captured.revision = 0
                             \/ Revision(Store(live), Document) = captured.revision
                          THEN "checked" ELSE "refused",
                live |-> live, text |-> <<>>]
  /\ UNCHANGED <<cache, client, notes, document, captured, offer>>

LoadSourceText(store) ==
  IF HasSource(store, Document) THEN store[Document].text ELSE OnDisk

LoadText ==
  /\ render.phase = "checked"
  /\ render' = [render EXCEPT !.phase = "shown", !.text = LoadSourceText(Store(render.live))]
  /\ UNCHANGED <<cache, client, notes, document, captured, offer>>

-----------------------------------------------------------------------------
SessionInit ==
  /\ CacheInit
  /\ client = [open |-> FALSE, version |-> 0, text |-> <<>>]
  /\ notes = <<>>
  /\ document = Missing
  /\ captured = NoCaptured
  /\ offer = NoOffer
  /\ render = NoRender

(* One edit, of a text like those the client types.                        *)
Suggested ==
  {[commands |-> FALSE, applicability |-> kind, edits |-> <<Replace(0, 1, <<text[1]>>, new)>>] :
     kind \in {"MachineApplicable", "Manual"}, text \in Typed, new \in News}

SessionNext ==
  \/ \E text \in Typed : Type(text)
  \/ Close
  \/ Answer
  \/ Handle
  \/ ClearCache
  \/ \E revision \in 0..LastRevision, suggestion \in Suggested : Analyze(revision, suggestion)
  \/ OfferCodeAction
  \/ \E live \in BOOLEAN : CheckRevision(live)
  \/ LoadText

EditorInit == Init /\ SessionInit

EditorNext ==
  \/ SessionInit /\ Next /\ UNCHANGED <<cache, session>>
  \/ phase = "collect" /\ edits = <<>> /\ SessionNext /\ UNCHANGED vars

EditorSpec == EditorInit /\ [][EditorNext]_<<vars, cache, session>>

-----------------------------------------------------------------------------
(* Properties                                                              *)

(* A snapshot that is current for a name holds the very text the cache     *)
(* holds, however often the name was replaced, removed or cleared since,   *)
(* and also when there is no revision left to give.                        *)
CurrentMeansSame ==
  captured # NoCaptured /\ IsCurrent(captured.sources, Document) =>
    captured.sources[Document].text = entries[Document].text

(* What the client would apply fits the text it shows: the suggestion was  *)
(* validated against that text, and the edits do there what apply_edits    *)
(* does.                                                                   *)
ActionsFit ==
  offer # NoOffer /\ Shown /\ client.version = offer.version =>
    /\ client.text = offer.text
    /\ Valid(client.text, <<offer.edit>>)
    /\ ClientApplies(client.text, offer.edits, Encoding) = Spliced(client.text, offer.edit)

(* README.md: "If the live source later changes, a revision-aware terminal *)
(* render fails closed. ... No misleading newer source excerpt is shown."  *)
StaleNeverShown ==
  (/\ render.phase = "shown"
   /\ captured.revision # 0
   /\ Revision(captured.sources, Document) = captured.revision)
  => render.text = captured.sources[Document].text
=============================================================================
