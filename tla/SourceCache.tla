----------------------------- MODULE SourceCache -----------------------------
(***************************************************************************)
(* The shared cache of named source texts (src/source.rs).  Every call     *)
(* holds the one lock over all it does and is a step.  A snapshot is the   *)
(* entries of one moment.                                                  *)
(***************************************************************************)
EXTENDS Integers

CONSTANTS
  Names,          \* the names of sources
  LastRevision    \* the last number a revision has room for

ASSUME SourceCacheAssumption == LastRevision \in Nat

VARIABLES
  entries,        \* the text under each name, with its revision
  revisions       \* the last revision given to each name

cache == <<entries, revisions>>

NoEntry == [revision |-> 0, text |-> <<>>]

HasSource(store, name) == store[name] # NoEntry

Revision(store, name) == store[name].revision

(* A revision counted by the entry; or, as here, by the name: the call     *)
(* panics, and inserts nothing, when there is none left.                   *)
RevisionOfEntry(name) == Revision(entries, name) + 1

NextRevision(name) == revisions[name] + 1

InsertSource(name, text) ==
  /\ NextRevision(name) <= LastRevision
  /\ entries' = [entries EXCEPT ![name] = [revision |-> NextRevision(name), text |-> text]]
  /\ revisions' = [revisions EXCEPT ![name] = NextRevision(name)]

InsertSourcePanics(name) ==
  /\ NextRevision(name) > LastRevision
  /\ UNCHANGED cache

RemoveSource(name) ==
  /\ entries' = [entries EXCEPT ![name] = NoEntry]
  /\ UNCHANGED revisions

ClearSources ==
  /\ entries' = [name \in Names |-> NoEntry]
  /\ UNCHANGED revisions

CacheInit ==
  /\ entries = [name \in Names |-> NoEntry]
  /\ revisions = [name \in Names |-> 0]

IsCurrent(snapshot, name) ==
  HasSource(snapshot, name) /\ Revision(entries, name) = Revision(snapshot, name)
=============================================================================
