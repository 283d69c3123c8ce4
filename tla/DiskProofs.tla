----------------------------- MODULE DiskProofs -----------------------------
(***************************************************************************)
(* Theorems about three parts that write files and share none.             *)
(*                                                                         *)
(* Fixes (FixTransaction), for every set of plans and suggestions over any *)
(* files: a call makes all its changes or none; and the backups a plan     *)
(* keeps hold what it read, until another plan that keeps backups takes    *)
(* their place, whatever fails, dies or is saved by others.  Two plans     *)
(* that share a file and run at a time break the first, as the run         *)
(* FixStale shows, and may break the second: the theorems say which files  *)
(* are apart, or which calls take turns.  A plan that runs after another   *)
(* replaces its backup: with both changes in the file, the backup has the  *)
(* first.                                                                  *)
(*                                                                         *)
(* The log of a Reporter (Reporter): what rotation loses, for any number   *)
(* of threads, any limits, and any number of entries, seconds, failures    *)
(* and deaths.                                                             *)
(*                                                                         *)
(* Scans (ScanCommand): the exit status of a scan tells what it left       *)
(* behind, for any number of scans of one project and one history at once, *)
(* whatever their command lines are, whatever others do meanwhile, and     *)
(* whichever of their steps fail.                                          *)
(***************************************************************************)
EXTENDS FixTransaction, Reporter, ScanCommand, Facts

-----------------------------------------------------------------------------
(* Fixes: the inductive invariant                                          *)

Running(p) == phase[p] # "idle"

ShapeInv ==
  /\ content \in [Path -> Content]
  /\ phase \in [FixPlan -> {"idle", "check", "prepare", "backup", "write", "verify",
                            "rollback"}]
  /\ at \in [FixPlan -> Nat]
  /\ \A p \in FixPlan : at[p] <= Len(Targets[p]) /\ (phase[p] = "backup" => Backups[p])
  /\ original \in [FixPlan -> [Path -> Content]]
  /\ start \in [FixPlan -> [Path -> Content]]
  /\ saved \in [FixPlan -> SUBSET Path]
  /\ unrestored \in [FixPlan -> SUBSET Path]
  /\ result \in [FixPlan -> {"none", "ok", "err", "died"}]
  /\ applications \in [FixPlan -> 0..MaxApplications]
  /\ session \in [state : {"none", "offer", "prompt", "apply", "ok", "err"},
                  suggestion : 1..Len(Suggestions) + 1, offered : BOOLEAN,
                  changed : SUBSET Path]
  /\ fixFaults \in 0..MaxFixFaults /\ saves \in 0..MaxSaves

(* Suggestions are applied by the session one at a time, plans before it   *)
(* or without one.                                                         *)
CallsInv ==
  /\ session.state \in {"prompt", "apply"} => session.suggestion <= Len(Suggestions)
  /\ \A p \in FixPlan : Running(p) => applications[p] > 0
  /\ \A p \in Suggestion : Running(p) => session.state = "apply" /\ p = Suggested
  /\ \A p \in FixPlan \ Suggestion : applications[p] > 0 => session.state = "none"
  /\ \A p \in Suggestion : applications[p] > 0 => session.state # "none"
  /\ \A p \in Suggestion : ~Running(p) /\ result[p] \in {"err", "died"} =>
       session.state = "err" \/ (session.state = "apply" /\ p = Suggested)

(* What no call has written is nowhere.                                    *)
FreshInv ==
  \A p \in FixPlan : applications[p] = 0 =>
    /\ result[p] = "none"
    /\ \A path \in Path : p \notin content[path]
    /\ \A q \in FixPlan, path \in Path : p \notin original[q][path] /\ p \notin start[q][path]

(* prepare_edits has read this file of the call.                           *)
Read(p, i) == phase[p] \in {"backup", "write", "verify", "rollback"}
              \/ (phase[p] = "prepare" /\ i <= at[p])

OriginalOf(p) ==
  /\ \A path \in Path : p \notin original[p][path]
  /\ \A i \in 1..Len(Targets[p]) : Read(p, i) =>
       /\ original[p][Targets[p][i]] # NoFile
       /\ Targets[p][i] \notin saved[p] =>
            original[p][Targets[p][i]] = start[p][Targets[p][i]]

(* The call has written this file and not restored it.                     *)
Written(p, i) ==
  /\ Targets[p][i] \in Changed(p)
  /\ phase[p] = "verify" \/ (phase[p] \in {"write", "rollback"} /\ i <= at[p])

(* A file of a running call is as it was, or as the plan has it.           *)
FilesOf(p) ==
  Running(p) =>
    \A i \in 1..Len(Targets[p]) : Targets[p][i] \notin saved[p] =>
      IF Written(p, i) THEN content[Targets[p][i]] = Updated(p, Targets[p][i])
      ELSE \/ content[Targets[p][i]] = start[p][Targets[p][i]]
           \/ phase[p] = "rollback" /\ Targets[p][i] \in unrestored[p]

(* What a call has left behind, beside a later call that may restore what  *)
(* it found.                                                               *)
Kept(p, f, text) == p \in text /\ start[p][f] \subseteq text

LeftOf(p) ==
  ~Running(p) =>
    \A f \in ToSet(Targets[p]) \ saved[p] :
      /\ result[p] = "err" /\ f \notin unrestored[p] => content[f] = start[p][f]
      /\ result[p] = "ok" /\ f \in Changes[p] =>
           /\ Kept(p, f, content[f])
           /\ \A q \in FixPlan : Running(q) /\ f \in ToSet(Targets[q]) => Kept(p, f, start[q][f])

(* Others' saves since a suggestion was applied are known to it.           *)
SavedInv ==
  \A p \in Suggestion, q \in FixPlan : p # q /\ Running(q) => saved[q] \subseteq saved[p]

(* The session names what its suggestions changed.                         *)
NamedOf(p) ==
  \A f \in ToSet(Targets[p]) \ saved[p] :
    session.state # "err" =>
      /\ p \in content[f] =>
           \/ f \in session.changed
           \/ session.state = "apply" /\ p = Suggested
                /\ (Running(p) \/ result[p] # "ok" \/ f \in Changed(p))
      /\ \A q \in FixPlan \ {p} : Running(q) /\ f \in ToSet(Targets[q]) /\ p \in start[q][f] =>
           f \in session.changed

FixInv ==
  /\ ShapeInv /\ CallsInv /\ FreshInv /\ SavedInv
  /\ \A p \in FixPlan : OriginalOf(p) /\ FilesOf(p) /\ LeftOf(p)
  /\ \A p \in Suggestion : NamedOf(p)
-----------------------------------------------------------------------------
(* The files of the calls                                                  *)

LEMMA TargetFacts ==
  ASSUME NEW p \in FixPlan
  PROVE  /\ Targets[p] \in Seq(Path) /\ Len(Targets[p]) \in Nat
         /\ \A i \in 1..Len(Targets[p]) :
              Targets[p][i] \in Path /\ Targets[p][i] \in ToSet(Targets[p])
         /\ \A i, j \in 1..Len(Targets[p]) : Targets[p][i] = Targets[p][j] => i = j
         /\ \A f : f \in ToSet(Targets[p]) <=> \E i \in 1..Len(Targets[p]) : Targets[p][i] = f
         /\ ToSet(Targets[p]) \subseteq Path /\ Changes[p] \subseteq ToSet(Targets[p])
<1>1. /\ Targets[p] \in Seq(Path) /\ IsInjective(Targets[p])
      /\ Changes[p] \subseteq ToSet(Targets[p])
  BY FixTransactionAssumption
<1>2. Len(Targets[p]) \in Nat /\ DOMAIN Targets[p] = 1..Len(Targets[p])
      /\ \A i \in 1..Len(Targets[p]) : Targets[p][i] \in Path
  BY <1>1, LenProperties, ElementOfSeq
<1> QED
  BY <1>1, <1>2 DEF ToSet, IsInjective

LEMMA SuggestionFacts ==
  /\ Suggestion \subseteq FixPlan /\ Len(Suggestions) \in Nat
  /\ \A i \in 1..Len(Suggestions) : Suggestions[i] \in Suggestion
<1>1. Suggestions \in Seq(FixPlan)
  BY FixTransactionAssumption
<1> QED
  BY <1>1, LenProperties, ElementOfSeq DEF Suggestion, ToSet

(* Two calls that run at a time are of plans, and share no file.           *)
LEMMA OthersApart ==
  ASSUME PlansApart, FixInv, NEW p \in FixPlan, NEW q \in FixPlan, p # q, Running(p),
         applications[q] > 0, q \in Suggestion => Running(q)
  PROVE  /\ p \notin Suggestion /\ q \notin Suggestion
         /\ ToSet(Targets[p]) \cap ToSet(Targets[q]) = {}
<1>1. applications[p] > 0
  BY DEF FixInv, CallsInv
<1>2. p \notin Suggestion /\ q \notin Suggestion
  BY <1>1, SuggestionFacts DEF FixInv, CallsInv
<1> QED
  BY <1>2 DEF PlansApart
-----------------------------------------------------------------------------
(* Steps of a call                                                         *)

(* One call moves on; the others, and what was at its start, stay.         *)
Moves(p) ==
  /\ UNCHANGED <<start, saved, applications, session>>
  /\ \A q \in FixPlan \ {p} :
       /\ phase'[q] = phase[q] /\ at'[q] = at[q] /\ result'[q] = result[q]
       /\ original'[q] = original[q] /\ unrestored'[q] = unrestored[q]

(* A step of a call that writes no file.                                   *)
LEMMA QuietStep ==
  ASSUME FixInv, NEW p \in FixPlan, Running(p), Moves(p), UNCHANGED content, ShapeInv',
         \A path \in Path : original'[p][path] \in {original[p][path], content[path]},
         OriginalOf(p)', FilesOf(p)', LeftOf(p)',
         ~Running(p)' /\ result'[p] = "ok" =>
           \A f \in ToSet(Targets[p]) \ saved[p] : p \in content[f] => f \in Changed(p)'
  PROVE  FixInv'
<1> USE DEF Moves
<1>1. applications[p] > 0 /\ ~(applications[p] = 0)
  BY DEF FixInv, CallsInv, ShapeInv
<1>2. \A q \in FixPlan \ {p} : Running(q)' <=> Running(q)
  BY DEF Running
<1>3. \A q \in FixPlan : Running(q)' => Running(q)
  BY <1>2
<1>4. Suggested' = Suggested /\ Suggestion \subseteq FixPlan
  BY SuggestionFacts DEF Suggested
<1>5. CallsInv'
  BY <1>1, <1>2, <1>3, <1>4 DEF FixInv, CallsInv
<1>6. FreshInv'
  BY <1>1 DEF FixInv, FreshInv
<1>7. SavedInv'
  BY <1>3, <1>4 DEF FixInv, SavedInv
<1>8. ASSUME NEW q \in FixPlan \ {p}
      PROVE  /\ OriginalOf(q)' /\ FilesOf(q)' /\ LeftOf(q)'
             /\ Changed(q)' = Changed(q)
  <2>1. Changed(q)' = Changed(q) /\ \A f : Updated(q, f)' = Updated(q, f)
    BY DEF Changed, Updated
  <2>2. \A i : (Read(q, i)' <=> Read(q, i)) /\ (Written(q, i)' <=> Written(q, i))
    BY <2>1 DEF Read, Written
  <2>3. OriginalOf(q)'
    BY <2>2 DEF FixInv, OriginalOf
  <2>4. FilesOf(q)'
    BY <1>2, <2>1, <2>2 DEF FixInv, FilesOf
  <2>5. LeftOf(q)'
    BY <1>2, <1>3 DEF FixInv, LeftOf, Kept
  <2> QED
    BY <2>1, <2>3, <2>4, <2>5
<1>9. ASSUME NEW q \in Suggestion
      PROVE  NamedOf(q)'
  <2>1. NamedOf(q)
    BY DEF FixInv
  <2>2. CASE q # p
    BY <1>2, <1>3, <1>4, <1>8, <2>1, <2>2 DEF NamedOf
  <2>3. CASE q = p
    <3>1. session.state = "apply" /\ p = Suggested
      BY <2>3 DEF FixInv, CallsInv
    <3>2. ASSUME NEW f \in ToSet(Targets[p]) \ saved[p], p \in content[f]
          PROVE  Running(p)' \/ result'[p] # "ok" \/ f \in Changed(p)'
      BY <3>2
    <3> QED
      BY <1>2, <1>3, <1>4, <2>1, <2>3, <3>1, <3>2 DEF NamedOf
  <2> QED
    BY <2>2, <2>3
<1> QED
  BY <1>5, <1>6, <1>7, <1>8, <1>9 DEF FixInv

(* A step of a call that writes a file: one that no plan edits, or one of  *)
(* its own with or without its change.                                     *)
LEMMA WriteStep ==
  ASSUME PlansApart, FixInv, NEW p \in FixPlan, Moves(p), ShapeInv',
         phase[p] \in {"backup", "write", "rollback"}, phase'[p] = phase[p],
         UNCHANGED <<original, unrestored, result>>,
         NEW x \in Path, NEW y \in Path, content' = [content EXCEPT ![x] = content'[x]],
         content'[x] \in {original[p][y], original[p][y] \cup {p}},
         \/ \A q \in FixPlan : x \notin ToSet(Targets[q])
         \/ x = y /\ x \in ToSet(Targets[p]),
         FilesOf(p)'
  PROVE  FixInv'
<1> USE DEF Moves
<1>1. /\ Running(p) /\ Running(p)' /\ applications[p] > 0 /\ ~(applications[p] = 0)
      /\ \A q \in FixPlan : Running(q)' <=> Running(q)
  BY DEF FixInv, CallsInv, ShapeInv, Running
<1>2. Suggested' = Suggested /\ Suggestion \subseteq FixPlan
  BY SuggestionFacts DEF Suggested
<1>3. \A f \in Path : f # x => content'[f] = content[f]
  BY DEF FixInv, ShapeInv
<1>4. CallsInv' /\ SavedInv'
  BY <1>1, <1>2 DEF FixInv, CallsInv, SavedInv
<1>5. FreshInv'
  <2>1. ASSUME NEW q \in FixPlan, applications[q] = 0
        PROVE  q # p /\ q \notin content'[x]
    BY <1>1, <2>1 DEF FixInv, FreshInv
  <2> QED
    BY <1>3, <2>1 DEF FixInv, FreshInv
<1>6. ASSUME NEW q \in FixPlan
      PROVE  /\ Changed(q)' = Changed(q) /\ \A f : Updated(q, f)' = Updated(q, f)
             /\ OriginalOf(q)' /\ ToSet(Targets[q]) \subseteq Path
  <2>1. \A i : Read(q, i)' <=> Read(q, i)
    BY <1>1 DEF Read
  <2> QED
    BY <2>1, TargetFacts DEF FixInv, OriginalOf, Changed, Updated
<1>7. \A i \in 1..Len(Targets[p]) : Read(p, i)
  BY DEF Read
<1>8. ASSUME NEW q \in FixPlan \ {p}, Running(q)
      PROVE  FilesOf(q)'
  <2>1. x \notin ToSet(Targets[q])
    BY <1>1, <1>8, OthersApart DEF FixInv, CallsInv
  <2>2. \A i \in 1..Len(Targets[q]) : content'[Targets[q][i]] = content[Targets[q][i]]
    BY <1>3, <2>1, TargetFacts
  <2>3. \A i : Written(q, i)' <=> Written(q, i)
    BY <1>6 DEF Written
  <2> QED
    BY <1>1, <1>6, <2>2, <2>3 DEF FixInv, FilesOf
<1>9. ASSUME NEW q \in Suggestion \ {p}, x \in ToSet(Targets[q]), x \notin saved[q], x = y,
             x \in ToSet(Targets[p])
      PROVE  original[p][x] = start[p][x]
  <2>1. x \notin saved[p]
    BY <1>1, <1>2, <1>9 DEF FixInv, SavedInv
  <2>2. PICK i \in 1..Len(Targets[p]) : Targets[p][i] = x
    <3>1. x \in ToSet(Targets[p])
      BY <1>9
    <3> QED
      BY <3>1, TargetFacts, Zenon
  <2> QED
    BY <1>7, <2>1, <2>2 DEF FixInv, OriginalOf
<1>10. ASSUME NEW q \in FixPlan \ {p}, ~Running(q), NEW f \in ToSet(Targets[q]) \ saved[q]
       PROVE  /\ result[q] = "err" /\ f \notin unrestored[q] => content'[f] = start[q][f]
              /\ result[q] = "ok" /\ f \in Changes[q] => Kept(q, f, content'[f])
  <2>1. LeftOf(q) /\ f \in Path
    BY <1>6, <1>10 DEF FixInv
  <2>2. CASE f # x
    BY <1>3, <1>10, <2>1, <2>2 DEF LeftOf
  <2>3. CASE f = x
    <3>1. x = y /\ x \in ToSet(Targets[p])
      BY <1>10, <2>3
    <3>2. result[q] # "none" => applications[q] > 0
      BY DEF FixInv, FreshInv, ShapeInv
    <3>3. q \notin Suggestion => result[q] = "none"
      BY <1>1, <1>10, <2>3, <3>1, <3>2, OthersApart
    <3>4. ASSUME q \in Suggestion, result[q] # "none"
          PROVE  p \in Suggestion /\ session.state = "apply" /\ p = Suggested
      BY <1>1, <3>2, <3>4 DEF FixInv, CallsInv
    <3>5. result[q] # "err"
      BY <1>10, <3>3, <3>4 DEF FixInv, CallsInv
    <3>6. ASSUME result[q] = "ok", f \in Changes[q]
          PROVE  Kept(q, f, content'[f])
      <4>1. original[p][x] = start[p][x]
        BY <1>9, <1>10, <2>3, <3>1, <3>3, <3>6
      <4>2. Kept(q, f, start[p][x])
        BY <1>1, <1>10, <2>1, <2>3, <3>1, <3>6 DEF LeftOf
      <4> QED
        BY <2>3, <3>1, <4>1, <4>2 DEF Kept
    <3> QED
      BY <3>5, <3>6
  <2> QED
    BY <2>2, <2>3
<1>11. ASSUME NEW q \in FixPlan
       PROVE  LeftOf(q)'
  BY <1>1, <1>10 DEF FixInv, LeftOf, Kept
<1>12. ASSUME NEW q \in Suggestion
       PROVE  NamedOf(q)'
  <2>1. NamedOf(q)
    BY DEF FixInv
  <2>2. ASSUME NEW f \in ToSet(Targets[q]) \ saved[q], session.state # "err", q \in content'[f]
        PROVE  \/ f \in session.changed
               \/ session.state = "apply" /\ q = Suggested
                    /\ (Running(q) \/ result[q] # "ok" \/ f \in Changed(q))
    <3>1. CASE q = p
      BY <1>1, <3>1 DEF FixInv, CallsInv
    <3>2. CASE q # p /\ f = x
      <4>1. x = y /\ x \in ToSet(Targets[p])
        BY <1>2, <2>2, <3>2
      <4>2. original[p][x] = start[p][x] /\ q \in original[p][x]
        BY <1>9, <2>2, <3>2, <4>1
      <4> QED
        BY <1>1, <2>1, <2>2, <3>2, <4>1, <4>2 DEF NamedOf
    <3>3. CASE f # x
      BY <1>2, <1>3, <1>6, <2>1, <2>2, <3>3 DEF NamedOf
    <3> QED
      BY <3>1, <3>2, <3>3
  <2>3. Changed(q)' = Changed(q)
    BY <1>2, <1>6
  <2> QED
    BY <1>1, <1>2, <2>1, <2>2, <2>3 DEF NamedOf
<1>13. ASSUME NEW q \in FixPlan
       PROVE  FilesOf(q)'
  <2>1. CASE q # p /\ Running(q)
    BY <1>8, <2>1
  <2>2. CASE ~Running(q)
    BY <1>1, <2>2 DEF FilesOf
  <2> QED
    BY <2>1, <2>2
<1> QED
  BY <1>4, <1>5, <1>6, <1>11, <1>12, <1>13 DEF FixInv

(* Another program saves a file.                                           *)
LEMMA SaveStep ==
  ASSUME FixInv, NEW path \in Path, NEW change \in {Near, Over}, Save(path, change)
  PROVE  FixInv'
<1>1. /\ content' = [content EXCEPT ![path] = content[path] \cup {change}]
      /\ content[path] # NoFile
      /\ saved' = [p \in FixPlan |-> saved[p] \cup {path}]
      /\ saves' = saves + 1 /\ saves < MaxSaves
      /\ UNCHANGED <<phase, at, original, start, unrestored, result, applications, session,
                     fixFaults>>
  BY DEF Save, Write
<1>2. Near \notin FixPlan /\ Over \notin FixPlan /\ change \in Change
  BY FixTransactionAssumption DEF Change
<1>3. ShapeInv'
  BY <1>1, <1>2, FixTransactionAssumption DEF FixInv, ShapeInv, Content
<1>4. /\ \A f \in Path : f # path => content'[f] = content[f]
      /\ \A p \in FixPlan : path \in saved'[p] /\ saved[p] \subseteq saved'[p]
  BY <1>1 DEF FixInv, ShapeInv
<1>5. Suggestion \subseteq FixPlan /\ Suggested' = Suggested
  BY <1>1, SuggestionFacts DEF Suggested
<1>6. \A p \in FixPlan : Running(p)' <=> Running(p)
  BY <1>1 DEF Running
<1>7. CallsInv'
  BY <1>1, <1>5, <1>6 DEF FixInv, CallsInv
<1>8. FreshInv'
  <2>1. \A f \in Path : content'[f] = content[f] \/ content'[f] = content[f] \cup {change}
    BY <1>1, <1>4 DEF FixInv, ShapeInv
  <2> QED
    BY <1>1, <1>2, <2>1 DEF FixInv, FreshInv
<1>9. SavedInv'
  BY <1>1, <1>5, <1>6 DEF FixInv, SavedInv
<1>10. ASSUME NEW p \in FixPlan
       PROVE  /\ OriginalOf(p)' /\ FilesOf(p)' /\ LeftOf(p)'
              /\ Changed(p)' = Changed(p) /\ ToSet(Targets[p]) \subseteq Path
  <2>1. Changed(p)' = Changed(p) /\ \A f : Updated(p, f)' = Updated(p, f)
    BY <1>1 DEF Changed, Updated
  <2>2. \A i : (Read(p, i)' <=> Read(p, i)) /\ (Written(p, i)' <=> Written(p, i))
    BY <1>1, <2>1 DEF Read, Written
  <2>3. OriginalOf(p)'
    BY <1>1, <1>4, <2>2 DEF FixInv, OriginalOf
  <2>4. FilesOf(p)'
    BY <1>1, <1>4, <1>6, <2>1, <2>2, TargetFacts DEF FixInv, FilesOf
  <2>5. LeftOf(p)'
    BY <1>1, <1>4, <1>6, TargetFacts DEF FixInv, LeftOf, Kept
  <2> QED
    BY <2>1, <2>3, <2>4, <2>5, TargetFacts
<1>11. ASSUME NEW p \in Suggestion
       PROVE  NamedOf(p)'
  BY <1>1, <1>4, <1>5, <1>6, <1>10 DEF FixInv, NamedOf
<1> QED
  BY <1>3, <1>7, <1>8, <1>9, <1>10, <1>11 DEF FixInv
-----------------------------------------------------------------------------
(* The actions of a call                                                   *)

(* What a call goes on to, or returns with, leaves the types alone.        *)
LEMMA GotoFacts ==
  ASSUME FixInv, NEW p \in FixPlan, NEW n \in Nat, n <= Len(Targets[p]),
         NEW where \in {"idle", "check", "prepare", "backup", "write", "verify", "rollback"},
         Goto(p, where, n)
  PROVE  /\ phase' \in [FixPlan -> {"idle", "check", "prepare", "backup", "write", "verify",
                                    "rollback"}]
         /\ at' \in [FixPlan -> Nat] /\ \A q \in FixPlan : at'[q] <= Len(Targets[q])
         /\ phase'[p] = where /\ at'[p] = n
         /\ \A q \in FixPlan \ {p} : phase'[q] = phase[q] /\ at'[q] = at[q]
  BY DEF FixInv, ShapeInv, Goto

LEMMA ReturnFacts ==
  ASSUME FixInv, NEW p \in FixPlan, NEW value \in {"ok", "err", "died"}, FixReturn(p, value)
  PROVE  /\ phase' \in [FixPlan -> {"idle", "check", "prepare", "backup", "write", "verify",
                                    "rollback"}]
         /\ at' \in [FixPlan -> Nat] /\ \A q \in FixPlan : at'[q] <= Len(Targets[q])
         /\ result' \in [FixPlan -> {"none", "ok", "err", "died"}]
         /\ phase'[p] = "idle" /\ at'[p] = 0 /\ result'[p] = value
         /\ \A q \in FixPlan \ {p} : /\ phase'[q] = phase[q] /\ at'[q] = at[q]
                                      /\ result'[q] = result[q]
<1>1. Goto(p, "idle", 0) /\ result' = [result EXCEPT ![p] = value]
  BY DEF FixReturn
<1>2. 0 \in Nat /\ 0 <= Len(Targets[p])
  BY TargetFacts
<1> QED
  BY <1>1, <1>2, GotoFacts DEF FixInv, ShapeInv

Faulted == UNCHANGED fixFaults \/ FixFault

LEMMA FaultFacts ==
  ASSUME FixInv, Faulted
  PROVE  fixFaults' \in 0..MaxFixFaults
  BY FixTransactionAssumption DEF FixInv, ShapeInv, Faulted, FixFault

(* An error before the first write, and a death at any time.               *)
LEMMA GiveUpStep ==
  ASSUME FixInv, NEW p \in FixPlan, NEW value \in {"err", "died"}, FixReturn(p, value),
         Running(p), value = "err" => phase[p] \in {"check", "prepare", "backup"},
         UNCHANGED <<content, original, start, saved, unrestored, applications, session, saves>>,
         Faulted
  PROVE  FixInv'
<1>1. /\ phase' \in [FixPlan -> {"idle", "check", "prepare", "backup", "write", "verify",
                                 "rollback"}]
      /\ at' \in [FixPlan -> Nat] /\ \A q \in FixPlan : at'[q] <= Len(Targets[q])
      /\ result' \in [FixPlan -> {"none", "ok", "err", "died"}]
      /\ phase'[p] = "idle" /\ result'[p] = value
      /\ \A q \in FixPlan \ {p} : /\ phase'[q] = phase[q] /\ at'[q] = at[q]
                                   /\ result'[q] = result[q]
  BY ReturnFacts
<1>2. Moves(p) /\ ShapeInv'
  BY <1>1, FaultFacts DEF Moves, FixInv, ShapeInv
<1>3. OriginalOf(p)' /\ FilesOf(p)'
  BY <1>1 DEF FixInv, OriginalOf, FilesOf, Running, Read
<1>4. LeftOf(p)'
  <2>1. ASSUME value = "err", NEW f \in ToSet(Targets[p]) \ saved[p]
        PROVE  content[f] = start[p][f]
    <3>1. f \in ToSet(Targets[p])
      BY <2>1
    <3>2. PICK i \in 1..Len(Targets[p]) : Targets[p][i] = f
      BY <3>1, TargetFacts, Zenon
    <3> QED
      BY <2>1, <3>2 DEF FixInv, FilesOf, Written
  <2> QED
    BY <1>1, <2>1 DEF LeftOf
<1> QED
  BY <1>1, <1>2, <1>3, <1>4, QuietStep

LEMMA CheckPreconditionsStep ==
  ASSUME FixInv, NEW p \in FixPlan, CheckPreconditions(p)
  PROVE  FixInv'
<1>1. /\ phase[p] = "check" /\ Running(p)
      /\ UNCHANGED <<content, original, start, saved, unrestored, applications, session, saves>>
  BY DEF CheckPreconditions, Running
<1>2. CASE Goto(p, "prepare", 0) /\ UNCHANGED <<result, fixFaults>>
  <2>1. /\ phase' \in [FixPlan -> {"idle", "check", "prepare", "backup", "write", "verify",
                                   "rollback"}]
        /\ at' \in [FixPlan -> Nat] /\ \A q \in FixPlan : at'[q] <= Len(Targets[q])
        /\ phase'[p] = "prepare" /\ at'[p] = 0
        /\ \A q \in FixPlan \ {p} : phase'[q] = phase[q] /\ at'[q] = at[q]
    BY <1>2, TargetFacts, GotoFacts
  <2>2. Moves(p) /\ ShapeInv'
    BY <1>1, <1>2, <2>1 DEF Moves, FixInv, ShapeInv
  <2>3. OriginalOf(p)' /\ FilesOf(p)' /\ LeftOf(p)'
    BY <1>1, <2>1 DEF FixInv, OriginalOf, FilesOf, LeftOf, Running, Read, Written
  <2> QED
    BY <1>1, <2>1, <2>2, <2>3, QuietStep DEF Running
<1>3. CASE FixReturn(p, "err") /\ Faulted
  BY <1>1, <1>3, GiveUpStep
<1> QED
  BY <1>2, <1>3 DEF CheckPreconditions, Faulted

LEMMA PrepareFileStep ==
  ASSUME FixInv, NEW p \in FixPlan, PrepareFile(p)
  PROVE  FixInv'
<1> DEFINE k == at[p] + 1
           f == Targets[p][k]
<1>1. /\ phase[p] = "prepare" /\ at[p] < Len(Targets[p]) /\ Running(p)
      /\ UNCHANGED <<content, start, saved, unrestored, applications, session, saves>>
  BY DEF PrepareFile, Running
<1>2. k \in 1..Len(Targets[p]) /\ k = at[p] + 1 /\ at[p] \in Nat /\ f \in Path /\ k \in Nat
  BY <1>1, TargetFacts DEF FixInv, ShapeInv
<1>3. CASE /\ Expected(p, f) /\ original' = [original EXCEPT ![p][f] = content[f]]
           /\ Goto(p, "prepare", k) /\ UNCHANGED <<result, fixFaults>>
  <2>1. /\ phase' \in [FixPlan -> {"idle", "check", "prepare", "backup", "write", "verify",
                                   "rollback"}]
        /\ at' \in [FixPlan -> Nat] /\ \A q \in FixPlan : at'[q] <= Len(Targets[q])
        /\ phase'[p] = "prepare" /\ at'[p] = k
        /\ \A q \in FixPlan \ {p} : phase'[q] = phase[q] /\ at'[q] = at[q]
    BY <1>2, <1>3, GotoFacts
  <2>2. /\ original' \in [FixPlan -> [Path -> Content]]
        /\ \A q \in FixPlan \ {p} : original'[q] = original[q]
        /\ original'[p][f] = content[f]
        /\ \A path \in Path : path # f => original'[p][path] = original[p][path]
    BY <1>2, <1>3 DEF FixInv, ShapeInv
  <2>3. Moves(p) /\ ShapeInv'
    BY <1>1, <1>3, <2>1, <2>2 DEF Moves, FixInv, ShapeInv
  <2>4. content[f] # NoFile /\ p \notin content[f]
    BY <1>3 DEF Expected
  <2>5. f \notin saved[p] => content[f] = start[p][f]
    BY <1>1, <1>2 DEF FixInv, FilesOf, Written
  <2>6. OriginalOf(p)'
    <3>1. \A path \in Path : p \notin original'[p][path]
      BY <2>2, <2>4 DEF FixInv, OriginalOf
    <3>2. ASSUME NEW i \in 1..Len(Targets[p]), i <= k
          PROVE  /\ original'[p][Targets[p][i]] # NoFile
                 /\ Targets[p][i] \notin saved[p] =>
                      original'[p][Targets[p][i]] = start[p][Targets[p][i]]
      <4>1. CASE i = k
        BY <2>2, <2>4, <2>5, <4>1
      <4>2. CASE i # k
        <5>1. i <= at[p] /\ Read(p, i)
          BY <1>1, <1>2, <3>2, <4>2 DEF Read
        <5>2. Targets[p][i] # f /\ Targets[p][i] \in Path
          BY <1>2, <4>2, TargetFacts
        <5> QED
          BY <2>2, <5>1, <5>2 DEF FixInv, OriginalOf
      <4> QED
        BY <4>1, <4>2
    <3> QED
      BY <1>1, <2>1, <3>1, <3>2 DEF OriginalOf, Read
  <2>7. FilesOf(p)' /\ LeftOf(p)'
    BY <1>1, <2>1 DEF FixInv, FilesOf, LeftOf, Running, Written
  <2>8. \A path \in Path : original'[p][path] \in {original[p][path], content[path]}
    BY <2>2
  <2> HIDE DEF f, k
  <2> QED
    BY <1>1, <2>1, <2>3, <2>6, <2>7, <2>8, QuietStep DEF Running
<1>4. CASE FixReturn(p, "err") /\ Faulted /\ UNCHANGED original
  BY <1>1, <1>4, GiveUpStep
<1> QED
  BY <1>3, <1>4 DEF PrepareFile, Faulted

(* The loop over the files of a phase has come to its end.                 *)
LEMMA ProceedStep ==
  ASSUME FixInv, NEW p \in FixPlan, Proceed(p)
  PROVE  FixInv'
<1>1. UNCHANGED <<content, original, start, saved, unrestored, result, applications, session,
                  fixFaults, saves>>
  BY DEF Proceed
<1>2. PICK where \in {"backup", "write", "verify"} :
        /\ Goto(p, where, 0)
        /\ where = "verify" => phase[p] = "write"
        /\ where = "backup" => Backups[p]
        /\ phase[p] \in {"prepare", "backup", "write"}
        /\ phase[p] = "prepare" => at[p] = Len(Targets[p])
        /\ phase[p] = "write" =>
             /\ where = "verify"
             /\ \A j \in at[p] + 1..Len(Targets[p]) : Targets[p][j] \notin Changed(p)
  BY DEF Proceed, AfterPrepare
<1>3. /\ phase' \in [FixPlan -> {"idle", "check", "prepare", "backup", "write", "verify",
                                 "rollback"}]
      /\ at' \in [FixPlan -> Nat] /\ \A q \in FixPlan : at'[q] <= Len(Targets[q])
      /\ phase'[p] = where /\ at'[p] = 0
      /\ \A q \in FixPlan \ {p} : phase'[q] = phase[q] /\ at'[q] = at[q]
  BY <1>2, TargetFacts, GotoFacts
<1>4. Moves(p) /\ ShapeInv' /\ Running(p) /\ Running(p)'
  BY <1>1, <1>2, <1>3 DEF Moves, FixInv, ShapeInv, Running
<1>5. Changed(p)' = Changed(p) /\ \A f : Updated(p, f)' = Updated(p, f)
  BY <1>1 DEF Changed, Updated
<1>6. at[p] \in Nat /\ Len(Targets[p]) \in Nat
  BY TargetFacts DEF FixInv, ShapeInv
<1>7. \A i \in 1..Len(Targets[p]) : Read(p, i) /\ (Written(p, i)' <=> Written(p, i))
  <2>1. \A i \in 1..Len(Targets[p]) : Read(p, i)
    BY <1>2, <1>6 DEF Read
  <2>2. CASE phase[p] # "write"
    <3>1. where \in {"backup", "write"} /\ phase[p] \in {"prepare", "backup"}
      BY <1>2, <2>2
    <3>2. ASSUME NEW i \in 1..Len(Targets[p])
          PROVE  ~Written(p, i) /\ ~Written(p, i)'
      BY <1>3, <3>1 DEF Written
    <3> QED
      BY <2>1, <3>2
  <2>3. CASE phase[p] = "write"
    <3>1. \A i \in 1..Len(Targets[p]) : Targets[p][i] \in Changed(p) => i <= at[p]
      BY <1>2, <1>6, <2>3
    <3> QED
      BY <1>2, <1>3, <1>5, <2>1, <2>3, <3>1 DEF Written
  <2> QED
    BY <2>1, <2>2, <2>3
<1>8. OriginalOf(p)' /\ LeftOf(p)'
  BY <1>1, <1>4, <1>7 DEF FixInv, OriginalOf, LeftOf
<1>9. FilesOf(p)'
  BY <1>1, <1>2, <1>4, <1>5, <1>7 DEF FixInv, FilesOf
<1> QED
  BY <1>1, <1>4, <1>8, <1>9, QuietStep

(* The backup of a file is a file that no plan edits.                      *)
LEMMA WriteBackupStep ==
  ASSUME PlansApart, BackupsApart, FixInv, NEW p \in FixPlan, WriteBackup(p)
  PROVE  FixInv'
<1>1. /\ phase[p] = "backup" /\ Running(p) /\ Backups[p]
      /\ UNCHANGED <<original, start, saved, unrestored, applications, session, saves>>
  BY DEF WriteBackup, Running, FixInv, ShapeInv
<1>2. PICK i \in 1..Len(Targets[p]) :
        \/ /\ Write(BackupOf[Targets[p][i]], original[p][Targets[p][i]])
           /\ Goto(p, "backup", i) /\ UNCHANGED <<result, fixFaults>>
        \/ Faulted /\ FixReturn(p, "err") /\ UNCHANGED content
  BY DEF WriteBackup, Faulted
<1>3. CASE Faulted /\ FixReturn(p, "err") /\ UNCHANGED content
  BY <1>1, <1>3, GiveUpStep
<1>4. CASE /\ Write(BackupOf[Targets[p][i]], original[p][Targets[p][i]])
           /\ Goto(p, "backup", i) /\ UNCHANGED <<result, fixFaults>>
  <2> DEFINE y == Targets[p][i]
             x == BackupOf[y]
  <2>1. y \in Path /\ y \in ToSet(Targets[p]) /\ i \in Nat /\ i <= Len(Targets[p])
    BY TargetFacts
  <2>2. x \in Path
    BY <2>1, FixTransactionAssumption
  <2>3. \A q \in FixPlan : x \notin ToSet(Targets[q])
    BY <1>1, <2>1 DEF BackupsApart
  <2>4. content' = [content EXCEPT ![x] = original[p][y]]
    BY <1>4 DEF Write
  <2> HIDE DEF x, y
  <2>5. /\ phase' \in [FixPlan -> {"idle", "check", "prepare", "backup", "write", "verify",
                                   "rollback"}]
        /\ at' \in [FixPlan -> Nat] /\ \A q \in FixPlan : at'[q] <= Len(Targets[q])
        /\ phase'[p] = "backup" /\ at'[p] = i
        /\ \A q \in FixPlan \ {p} : phase'[q] = phase[q] /\ at'[q] = at[q]
    BY <1>4, <2>1, GotoFacts
  <2>6. original[p][y] \in Content
    BY <2>1 DEF FixInv, ShapeInv
  <2>7. Moves(p) /\ ShapeInv'
    BY <1>1, <1>4, <2>2, <2>4, <2>5, <2>6 DEF Moves, FixInv, ShapeInv
  <2>8. content' = [content EXCEPT ![x] = content'[x]] /\ content'[x] = original[p][y]
    BY <2>2, <2>4 DEF FixInv, ShapeInv
  <2>9. FilesOf(p)'
    <3>1. ASSUME NEW j \in 1..Len(Targets[p])
          PROVE  content'[Targets[p][j]] = content[Targets[p][j]]
      <4>1. Targets[p][j] \in ToSet(Targets[p]) /\ Targets[p][j] \in Path
        BY TargetFacts
      <4> QED
        BY <2>3, <2>4, <4>1 DEF FixInv, ShapeInv
    <3> QED
      BY <1>1, <2>5, <3>1 DEF FixInv, FilesOf, Written, Running
  <2>10. phase'[p] = phase[p]
    BY <1>1, <2>5
  <2> QED
    BY <1>1, <1>4, <2>1, <2>2, <2>3, <2>7, <2>8, <2>9, <2>10, WriteStep
<1> QED
  BY <1>2, <1>3, <1>4

LEMMA WriteTargetStep ==
  ASSUME PlansApart, FixInv, NEW p \in FixPlan, WriteTarget(p)
  PROVE  FixInv'
<1>1. /\ phase[p] = "write" /\ Running(p) /\ at[p] \in Nat /\ Len(Targets[p]) \in Nat
      /\ at[p] <= Len(Targets[p])
      /\ UNCHANGED <<original, start, saved, unrestored, result, applications, session, saves>>
  BY TargetFacts DEF WriteTarget, Running, FixInv, ShapeInv
<1>2. PICK i \in 1..Len(Targets[p]) :
        /\ NextChanged(p, i)
        /\ \/ /\ Write(Targets[p][i], Updated(p, Targets[p][i]))
              /\ Goto(p, "write", i) /\ UNCHANGED fixFaults
           \/ FixFault /\ Goto(p, "rollback", at[p]) /\ UNCHANGED content
  BY DEF WriteTarget, Applied
<1>3. Changed(p)' = Changed(p) /\ \A f : Updated(p, f)' = Updated(p, f)
  BY <1>1 DEF Changed, Updated
<1>4. CASE FixFault /\ Goto(p, "rollback", at[p]) /\ UNCHANGED content
  <2>1. /\ phase' \in [FixPlan -> {"idle", "check", "prepare", "backup", "write", "verify",
                                   "rollback"}]
        /\ at' \in [FixPlan -> Nat] /\ \A q \in FixPlan : at'[q] <= Len(Targets[q])
        /\ phase'[p] = "rollback" /\ at'[p] = at[p]
        /\ \A q \in FixPlan \ {p} : phase'[q] = phase[q] /\ at'[q] = at[q]
    BY <1>1, <1>4, GotoFacts
  <2>2. Moves(p) /\ ShapeInv' /\ Running(p)'
    BY <1>1, <1>4, <2>1, FaultFacts DEF Moves, FixInv, ShapeInv, Running, Faulted
  <2>3. \A i_1 : (Written(p, i_1)' <=> Written(p, i_1)) /\ Read(p, i_1)
    BY <1>1, <1>3, <2>1 DEF Written, Read
  <2>4. OriginalOf(p)' /\ FilesOf(p)' /\ LeftOf(p)'
    BY <1>1, <1>3, <1>4, <2>2, <2>3 DEF FixInv, OriginalOf, FilesOf, LeftOf
  <2> QED
    BY <1>1, <1>4, <2>2, <2>4, QuietStep
<1>5. CASE /\ Write(Targets[p][i], Updated(p, Targets[p][i]))
           /\ Goto(p, "write", i) /\ UNCHANGED fixFaults
  <2> DEFINE x == Targets[p][i]
  <2>1. x \in Path /\ x \in ToSet(Targets[p]) /\ i \in Nat /\ i <= Len(Targets[p])
        /\ \A j \in 1..Len(Targets[p]) : Targets[p][j] = x => j = i
    BY TargetFacts
  <2>2. x \in Changed(p) /\ at[p] < i
        /\ \A j \in at[p] + 1..i - 1 : Targets[p][j] \notin Changed(p)
    BY <1>1, <1>2 DEF NextChanged
  <2>3. content' = [content EXCEPT ![x] = Updated(p, x)]
    BY <1>5 DEF Write
  <2>4. Updated(p, x) \in {original[p][x], original[p][x] \cup {p}}
    BY DEF Updated
  <2>5. original[p][x] \in Content /\ original[p][x] # NoFile
    <3>1. Read(p, i)
      BY <1>1 DEF Read
    <3> QED
      BY <2>1, <3>1 DEF FixInv, ShapeInv, OriginalOf
  <2>6. Updated(p, x) \in Content
    BY <2>4, <2>5 DEF Content, Change
  <2> HIDE DEF x
  <2>7. /\ phase' \in [FixPlan -> {"idle", "check", "prepare", "backup", "write", "verify",
                                   "rollback"}]
        /\ at' \in [FixPlan -> Nat] /\ \A q \in FixPlan : at'[q] <= Len(Targets[q])
        /\ phase'[p] = "write" /\ at'[p] = i
        /\ \A q \in FixPlan \ {p} : phase'[q] = phase[q] /\ at'[q] = at[q]
    BY <1>5, <2>1, GotoFacts
  <2>8. Moves(p) /\ ShapeInv'
    BY <1>1, <1>5, <2>1, <2>3, <2>6, <2>7 DEF Moves, FixInv, ShapeInv
  <2>9. /\ content' = [content EXCEPT ![x] = content'[x]] /\ content'[x] = Updated(p, x)
        /\ \A f \in Path : f # x => content'[f] = content[f]
    BY <2>1, <2>3 DEF FixInv, ShapeInv
  <2>10. ASSUME NEW j \in 1..Len(Targets[p]), Targets[p][j] \notin saved[p]
         PROVE  IF Written(p, j)' THEN content'[Targets[p][j]] = Updated(p, Targets[p][j])
                ELSE content'[Targets[p][j]] = start[p][Targets[p][j]]
    <3>1. CASE j = i
      BY <1>3, <2>1, <2>2, <2>7, <2>9, <3>1 DEF Written, x
    <3>2. CASE j # i
      <4>1. Targets[p][j] # x /\ Targets[p][j] \in Path
        BY <2>1, <3>2, TargetFacts
      <4>2. Written(p, j)' <=> Written(p, j)
        <5>1. Targets[p][j] \in Changed(p) => (j <= i <=> j <= at[p])
          BY <1>1, <2>2, <3>2
        <5> QED
          BY <1>1, <1>3, <2>7, <5>1 DEF Written
      <4> QED
        BY <1>1, <2>9, <2>10, <4>1, <4>2 DEF FixInv, FilesOf
    <3> QED
      BY <3>1, <3>2
  <2>11. FilesOf(p)'
    BY <1>1, <1>3, <2>10 DEF FilesOf
  <2>12. phase'[p] = phase[p]
    BY <1>1, <2>7
  <2> QED
    BY <1>1, <2>1, <2>4, <2>8, <2>9, <2>11, <2>12, WriteStep
<1> QED
  BY <1>2, <1>4, <1>5

LEMMA RestoreFileStep ==
  ASSUME PlansApart, FixInv, NEW p \in FixPlan, RestoreFile(p)
  PROVE  FixInv'
<1>1. /\ phase[p] = "rollback" /\ Running(p) /\ at[p] \in Nat /\ Len(Targets[p]) \in Nat
      /\ at[p] <= Len(Targets[p])
      /\ UNCHANGED <<original, start, saved, result, applications, session, saves>>
  BY TargetFacts DEF RestoreFile, Running, FixInv, ShapeInv
<1>2. PICK i \in 1..Len(Targets[p]) :
        /\ LastChanged(p, i)
        /\ \/ /\ Write(Targets[p][i], original[p][Targets[p][i]])
              /\ UNCHANGED <<unrestored, fixFaults>>
           \/ /\ FixFault /\ UNCHANGED content
              /\ unrestored' = [unrestored EXCEPT ![p] = unrestored[p] \cup {Targets[p][i]}]
        /\ Goto(p, "rollback", i - 1)
  BY DEF RestoreFile
<1> DEFINE x == Targets[p][i]
<1>3. Changed(p)' = Changed(p) /\ \A f : Updated(p, f)' = Updated(p, f)
  BY <1>1 DEF Changed, Updated
<1>4. x \in Path /\ x \in ToSet(Targets[p]) /\ i - 1 \in Nat /\ i - 1 <= Len(Targets[p])
      /\ \A j \in 1..Len(Targets[p]) : Targets[p][j] = x => j = i
  BY <1>1, TargetFacts
<1>5. x \in Changed(p) /\ i <= at[p]
      /\ \A j \in i + 1..at[p] : Targets[p][j] \notin Changed(p)
  BY <1>1, <1>2 DEF LastChanged
<1> HIDE DEF x
<1>6. /\ phase' \in [FixPlan -> {"idle", "check", "prepare", "backup", "write", "verify",
                                 "rollback"}]
      /\ at' \in [FixPlan -> Nat] /\ \A q \in FixPlan : at'[q] <= Len(Targets[q])
      /\ phase'[p] = "rollback" /\ at'[p] = i - 1
      /\ \A q \in FixPlan \ {p} : phase'[q] = phase[q] /\ at'[q] = at[q]
  BY <1>2, <1>4, GotoFacts
<1>7. \A j \in 1..Len(Targets[p]) : Written(p, j)' <=> (Written(p, j) /\ j # i)
  <2>1. ASSUME NEW j \in 1..Len(Targets[p]), Targets[p][j] \in Changed(p)
        PROVE  j <= i - 1 <=> (j <= at[p] /\ j # i)
    BY <1>1, <1>5, <2>1
  <2> QED
    BY <1>1, <1>3, <1>6, <2>1 DEF Written
<1>8. Running(p)' /\ \A j \in 1..Len(Targets[p]) : Read(p, j)' /\ Read(p, j)
  BY <1>1, <1>6 DEF Running, Read
<1>9. OriginalOf(p)' /\ LeftOf(p)'
  BY <1>1, <1>8 DEF FixInv, OriginalOf, LeftOf
<1>10. original[p][x] \in Content
  BY <1>4 DEF FixInv, ShapeInv
<1>11. CASE /\ Write(Targets[p][i], original[p][Targets[p][i]])
            /\ UNCHANGED <<unrestored, fixFaults>>
  <2>1. content' = [content EXCEPT ![x] = original[p][x]]
    BY <1>11 DEF Write, x
  <2>2. Moves(p) /\ ShapeInv'
    BY <1>1, <1>4, <1>6, <1>10, <1>11, <2>1 DEF Moves, FixInv, ShapeInv
  <2>3. /\ content' = [content EXCEPT ![x] = content'[x]] /\ content'[x] = original[p][x]
        /\ \A f \in Path : f # x => content'[f] = content[f]
    BY <1>4, <2>1 DEF FixInv, ShapeInv
  <2>4. ASSUME NEW j \in 1..Len(Targets[p]), Targets[p][j] \notin saved[p]
        PROVE  IF Written(p, j)' THEN content'[Targets[p][j]] = Updated(p, Targets[p][j])
               ELSE \/ content'[Targets[p][j]] = start[p][Targets[p][j]]
                    \/ Targets[p][j] \in unrestored[p]
    <3>1. CASE j = i
      <4>1. original[p][Targets[p][i]] = start[p][Targets[p][i]]
        BY <1>8, <2>4, <3>1 DEF FixInv, OriginalOf
      <4> QED
        BY <1>7, <2>3, <3>1, <4>1 DEF x
    <3>2. CASE j # i
      <4>1. Targets[p][j] # x /\ Targets[p][j] \in Path
        BY <1>4, <3>2, TargetFacts
      <4> QED
        BY <1>1, <1>7, <2>3, <2>4, <3>2, <4>1 DEF FixInv, FilesOf
    <3> QED
      BY <3>1, <3>2
  <2>5. FilesOf(p)'
    BY <1>1, <1>3, <1>6, <1>11, <2>4 DEF FilesOf
  <2>6. phase'[p] = phase[p]
    BY <1>1, <1>6
  <2> QED
    BY <1>1, <1>4, <1>11, <2>2, <2>3, <2>5, <2>6, WriteStep
<1>12. CASE /\ FixFault /\ UNCHANGED content
            /\ unrestored' = [unrestored EXCEPT ![p] = unrestored[p] \cup {Targets[p][i]}]
  <2>1. /\ unrestored' \in [FixPlan -> SUBSET Path]
        /\ unrestored'[p] = unrestored[p] \cup {x}
        /\ \A q \in FixPlan \ {p} : unrestored'[q] = unrestored[q]
    BY <1>4, <1>12 DEF FixInv, ShapeInv, x
  <2>2. Moves(p) /\ ShapeInv'
    BY <1>1, <1>6, <1>12, <2>1, FaultFacts DEF Moves, FixInv, ShapeInv, Faulted
  <2>3. FilesOf(p)'
    <3>1. ASSUME NEW j \in 1..Len(Targets[p]), Targets[p][j] \notin saved[p]
          PROVE  IF Written(p, j)' THEN content[Targets[p][j]] = Updated(p, Targets[p][j])
                 ELSE \/ content[Targets[p][j]] = start[p][Targets[p][j]]
                      \/ Targets[p][j] \in unrestored'[p]
      <4>1. CASE j = i
        BY <1>7, <2>1, <4>1 DEF x
      <4>2. CASE j # i
        BY <1>1, <1>7, <2>1, <3>1, <4>2 DEF FixInv, FilesOf
      <4> QED
        BY <4>1, <4>2
    <3> QED
      BY <1>1, <1>3, <1>6, <1>12, <3>1 DEF FilesOf
  <2> QED
    BY <1>1, <1>8, <1>9, <1>12, <2>2, <2>3, QuietStep
<1> QED
  BY <1>2, <1>11, <1>12

LEMMA ReturnErrorStep ==
  ASSUME FixInv, NEW p \in FixPlan, ReturnError(p)
  PROVE  FixInv'
<1>1. /\ phase[p] = "rollback" /\ Running(p) /\ FixReturn(p, "err")
      /\ \A j \in 1..at[p] : Targets[p][j] \notin Changed(p)
      /\ UNCHANGED <<content, original, start, saved, unrestored, applications, session,
                     fixFaults, saves>>
  BY DEF ReturnError, Running
<1>2. /\ phase' \in [FixPlan -> {"idle", "check", "prepare", "backup", "write", "verify",
                                 "rollback"}]
      /\ at' \in [FixPlan -> Nat] /\ \A q \in FixPlan : at'[q] <= Len(Targets[q])
      /\ result' \in [FixPlan -> {"none", "ok", "err", "died"}]
      /\ phase'[p] = "idle" /\ result'[p] = "err"
      /\ \A q \in FixPlan \ {p} : /\ phase'[q] = phase[q] /\ at'[q] = at[q]
                                   /\ result'[q] = result[q]
  BY <1>1, ReturnFacts
<1>3. Moves(p) /\ ShapeInv'
  BY <1>1, <1>2 DEF Moves, FixInv, ShapeInv
<1>4. OriginalOf(p)' /\ FilesOf(p)'
  BY <1>1, <1>2 DEF FixInv, OriginalOf, FilesOf, Running, Read
<1>5. LeftOf(p)'
  <2>1. ASSUME NEW f \in ToSet(Targets[p]) \ saved[p], f \notin unrestored[p]
        PROVE  content[f] = start[p][f]
    <3>1. f \in ToSet(Targets[p]) /\ at[p] \in Nat
      BY <2>1 DEF FixInv, ShapeInv
    <3>2. PICK i \in 1..Len(Targets[p]) : Targets[p][i] = f
      BY <3>1, TargetFacts, Zenon
    <3>3. ~Written(p, i)
      BY <1>1, <3>1 DEF Written
    <3> QED
      BY <1>1, <2>1, <3>2, <3>3 DEF FixInv, FilesOf
  <2> QED
    BY <1>1, <1>2, <2>1 DEF LeftOf
<1> QED
  BY <1>1, <1>2, <1>3, <1>4, <1>5, QuietStep

LEMMA VerifyStep ==
  ASSUME PlansApart, FixInv, NEW p \in FixPlan, Verify(p)
  PROVE  FixInv'
<1>1. /\ phase[p] = "verify" /\ Running(p) /\ Len(Targets[p]) \in Nat
      /\ UNCHANGED <<content, original, start, saved, unrestored, applications, session, saves>>
  BY TargetFacts DEF Verify, Running
<1>2. Changed(p)' = Changed(p) /\ \A f : Updated(p, f)' = Updated(p, f)
  BY <1>1 DEF Changed, Updated
<1>3. CASE FixReturn(p, "ok") /\ UNCHANGED fixFaults
  <2>1. /\ phase' \in [FixPlan -> {"idle", "check", "prepare", "backup", "write", "verify",
                                   "rollback"}]
        /\ at' \in [FixPlan -> Nat] /\ \A q \in FixPlan : at'[q] <= Len(Targets[q])
        /\ result' \in [FixPlan -> {"none", "ok", "err", "died"}]
        /\ phase'[p] = "idle" /\ result'[p] = "ok"
        /\ \A q \in FixPlan \ {p} : /\ phase'[q] = phase[q] /\ at'[q] = at[q]
                                     /\ result'[q] = result[q]
    BY <1>3, ReturnFacts
  <2>2. Moves(p) /\ ShapeInv'
    BY <1>1, <1>3, <2>1 DEF Moves, FixInv, ShapeInv
  <2>3. OriginalOf(p)' /\ FilesOf(p)'
    BY <1>1, <2>1 DEF FixInv, OriginalOf, FilesOf, Running, Read
  <2>4. ASSUME NEW f \in ToSet(Targets[p]) \ saved[p]
        PROVE  /\ p \notin original[p][f] /\ original[p][f] = start[p][f]
               /\ f \in Changes[p] => f \in Changed(p)
               /\ content[f] = IF f \in Changed(p) THEN Updated(p, f) ELSE original[p][f]
    <3>1. f \in ToSet(Targets[p]) /\ f \in Path
      BY <2>4, TargetFacts
    <3>2. PICK i \in 1..Len(Targets[p]) : Targets[p][i] = f
      BY <3>1, TargetFacts, Zenon
    <3>3. Read(p, i) /\ (Written(p, i) <=> f \in Changed(p))
      BY <1>1, <3>2 DEF Read, Written
    <3>4. p \notin original[p][f] /\ original[p][f] = start[p][f]
      BY <2>4, <3>1, <3>2, <3>3 DEF FixInv, OriginalOf
    <3>5. f \in Changes[p] => f \in Changed(p)
      BY <3>1, <3>4 DEF Changed, Updated
    <3> QED
      BY <1>1, <2>4, <3>2, <3>3, <3>4, <3>5 DEF FixInv, FilesOf
  <2>5. LeftOf(p)'
    <3>1. ASSUME NEW f \in ToSet(Targets[p]) \ saved[p], f \in Changes[p]
          PROVE  Kept(p, f, content[f])
      BY <2>4, <3>1 DEF Kept, Updated
    <3>2. ASSUME NEW f \in ToSet(Targets[p]), NEW q \in FixPlan, Running(q)'
          PROVE  f \notin ToSet(Targets[q])
      <4>1. q # p /\ Running(q)
        BY <2>1, <3>2 DEF Running
      <4>2. applications[q] > 0
        BY <4>1 DEF FixInv, CallsInv
      <4> QED
        BY <1>1, <4>1, <4>2, OthersApart
    <3> QED
      BY <1>1, <2>1, <3>1, <3>2 DEF LeftOf, Kept
  <2>6. ASSUME NEW f \in ToSet(Targets[p]) \ saved[p], p \in content[f]
        PROVE  f \in Changed(p)'
    BY <1>2, <2>4, <2>6
  <2> QED
    BY <1>1, <2>2, <2>3, <2>5, <2>6, QuietStep
<1>4. CASE Goto(p, "rollback", Len(Targets[p])) /\ Faulted /\ UNCHANGED result
  <2>1. /\ phase' \in [FixPlan -> {"idle", "check", "prepare", "backup", "write", "verify",
                                   "rollback"}]
        /\ at' \in [FixPlan -> Nat] /\ \A q \in FixPlan : at'[q] <= Len(Targets[q])
        /\ phase'[p] = "rollback" /\ at'[p] = Len(Targets[p])
        /\ \A q \in FixPlan \ {p} : phase'[q] = phase[q] /\ at'[q] = at[q]
    BY <1>1, <1>4, GotoFacts
  <2>2. Moves(p) /\ ShapeInv' /\ Running(p)'
    BY <1>1, <1>4, <2>1, FaultFacts DEF Moves, FixInv, ShapeInv, Running
  <2>3. \A i \in 1..Len(Targets[p]) : (Written(p, i)' <=> Written(p, i)) /\ Read(p, i)
    BY <1>1, <1>2, <2>1 DEF Written, Read
  <2>4. OriginalOf(p)' /\ FilesOf(p)' /\ LeftOf(p)'
    BY <1>1, <1>2, <2>2, <2>3 DEF FixInv, OriginalOf, FilesOf, LeftOf
  <2> QED
    BY <1>1, <1>4, <2>2, <2>4, QuietStep
<1> QED
  BY <1>3, <1>4 DEF Verify, Faulted

(* A call begins: a plan's when there is no session, a suggestion's when   *)
(* the session applies it.                                                 *)
LEMMA BeginStep ==
  ASSUME FixInv, NEW p \in FixPlan, Begin(p), UNCHANGED saves,
         \/ p \notin Suggestion /\ session.state = "none" /\ session' = session
         \/ /\ p \in Suggestion /\ session.state = "prompt" /\ p = Suggested
            /\ session' = [session EXCEPT !.state = "apply"]
  PROVE  FixInv'
<1>1. /\ phase[p] = "idle" /\ applications[p] < MaxApplications /\ Goto(p, "check", 0)
      /\ applications' = [applications EXCEPT ![p] = applications[p] + 1]
      /\ start' = [start EXCEPT ![p] = content]
      /\ saved' = [saved EXCEPT ![p] = {}]
      /\ unrestored' = [unrestored EXCEPT ![p] = {}]
      /\ UNCHANGED <<content, original, result, fixFaults, saves>>
  BY DEF Begin
<1>2. /\ phase' \in [FixPlan -> {"idle", "check", "prepare", "backup", "write", "verify",
                                 "rollback"}]
      /\ at' \in [FixPlan -> Nat] /\ \A q \in FixPlan : at'[q] <= Len(Targets[q])
      /\ phase'[p] = "check" /\ at'[p] = 0
      /\ \A q \in FixPlan \ {p} : phase'[q] = phase[q] /\ at'[q] = at[q]
  BY <1>1, TargetFacts, GotoFacts
<1>3. /\ applications' \in [FixPlan -> 0..MaxApplications] /\ applications'[p] > 0
      /\ start' \in [FixPlan -> [Path -> Content]] /\ start'[p] = content
      /\ saved' \in [FixPlan -> SUBSET Path] /\ saved'[p] = {}
      /\ unrestored' \in [FixPlan -> SUBSET Path]
      /\ \A q \in FixPlan \ {p} :
           /\ applications'[q] = applications[q] /\ start'[q] = start[q]
           /\ saved'[q] = saved[q] /\ unrestored'[q] = unrestored[q]
  BY <1>1, FixTransactionAssumption DEF FixInv, ShapeInv
<1>4. /\ session' \in [state : {"none", "offer", "prompt", "apply", "ok", "err"},
                       suggestion : 1..Len(Suggestions) + 1, offered : BOOLEAN,
                       changed : SUBSET Path]
      /\ session'.suggestion = session.suggestion /\ session'.changed = session.changed
      /\ \/ p \notin Suggestion /\ session.state = "none" /\ session'.state = "none"
         \/ /\ p \in Suggestion /\ session.state = "prompt" /\ p = Suggested
            /\ session'.state = "apply"
  BY DEF FixInv, ShapeInv
<1>5. ShapeInv'
  BY <1>1, <1>2, <1>3, <1>4 DEF FixInv, ShapeInv
<1>6. /\ ~Running(p) /\ Running(p)' /\ Suggested' = Suggested /\ Suggestion \subseteq FixPlan
      /\ \A q \in FixPlan \ {p} : Running(q)' <=> Running(q)
  BY <1>1, <1>2, <1>4, SuggestionFacts DEF Running, Suggested
<1>7. /\ \A q \in Suggestion : ~Running(q)
      /\ p \in Suggestion => \A q \in FixPlan : ~Running(q)
  <2>1. \A q \in Suggestion : ~Running(q)
    BY <1>4 DEF FixInv, CallsInv
  <2>2. ASSUME p \in Suggestion, NEW q \in FixPlan \ Suggestion
        PROVE  ~Running(q)
    BY <1>4, <2>2 DEF FixInv, CallsInv
  <2> QED
    BY <2>1, <2>2
<1>8. CallsInv'
  <2>1. \A q \in FixPlan : Running(q)' => applications'[q] > 0
    BY <1>3, <1>6 DEF FixInv, CallsInv
  <2>2. \A q \in Suggestion : Running(q)' => session'.state = "apply" /\ q = Suggested'
    BY <1>4, <1>6, <1>7
  <2>3. \A q \in FixPlan \ Suggestion : applications'[q] > 0 => session'.state = "none"
    BY <1>3, <1>4 DEF FixInv, CallsInv
  <2>4. \A q \in Suggestion : applications'[q] > 0 => session'.state # "none"
    BY <1>3, <1>4, <1>6 DEF FixInv, CallsInv
  <2>5. \A q \in Suggestion : ~Running(q)' /\ result'[q] \in {"err", "died"} =>
          session'.state = "err" \/ (session'.state = "apply" /\ q = Suggested')
    BY <1>1, <1>4, <1>6 DEF FixInv, CallsInv
  <2>6. session'.state \in {"prompt", "apply"} => session'.suggestion <= Len(Suggestions)
    BY <1>4 DEF FixInv, CallsInv
  <2> QED
    BY <2>1, <2>2, <2>3, <2>4, <2>5, <2>6 DEF CallsInv
<1>9. FreshInv'
  <2>1. ASSUME NEW q \in FixPlan, applications'[q] = 0
        PROVE  q # p /\ applications[q] = 0
    BY <1>3, <2>1
  <2> QED
    BY <1>1, <1>3, <2>1 DEF FixInv, FreshInv
<1>10. SavedInv'
  <2>1. ASSUME NEW r \in Suggestion, NEW q \in FixPlan, r # q, Running(q)'
        PROVE  saved'[q] \subseteq saved'[r]
    <3>1. CASE q = p
      BY <1>3, <3>1
    <3>2. CASE q # p
      <4>1. r # p
        BY <1>6, <1>7, <2>1, <3>2
      <4> QED
        BY <1>3, <1>6, <2>1, <3>2, <4>1 DEF FixInv, SavedInv
    <3> QED
      BY <3>1, <3>2
  <2> QED
    BY <2>1 DEF SavedInv
<1>11. ASSUME NEW q \in FixPlan
       PROVE  Changed(q)' = Changed(q) /\ \A f : Updated(q, f)' = Updated(q, f)
  BY <1>1 DEF Changed, Updated
<1>12. OriginalOf(p)' /\ FilesOf(p)' /\ LeftOf(p)'
  <2>1. \A i : ~Read(p, i)' /\ ~Written(p, i)'
    BY <1>2 DEF Read, Written
  <2>2. OriginalOf(p)'
    BY <1>1, <2>1 DEF FixInv, OriginalOf
  <2>3. FilesOf(p)'
    BY <1>1, <1>3, <2>1 DEF FilesOf
  <2> QED
    BY <1>6, <2>2, <2>3 DEF LeftOf
<1>13. ASSUME NEW q \in FixPlan \ {p}
       PROVE  OriginalOf(q)' /\ FilesOf(q)' /\ LeftOf(q)'
  <2>1. \A i : (Read(q, i)' <=> Read(q, i)) /\ (Written(q, i)' <=> Written(q, i))
    BY <1>2, <1>11 DEF Read, Written
  <2>2. OriginalOf(q)'
    BY <1>1, <1>3, <2>1 DEF FixInv, OriginalOf
  <2>3. FilesOf(q)'
    <3>1. /\ Running(q)' <=> Running(q)
          /\ content' = content /\ start'[q] = start[q] /\ saved'[q] = saved[q]
          /\ unrestored'[q] = unrestored[q] /\ phase'[q] = phase[q]
          /\ \A f : Updated(q, f)' = Updated(q, f)
      BY <1>1, <1>2, <1>3, <1>6, <1>11
    <3>2. FilesOf(q)
      BY DEF FixInv
    <3> QED
      BY <2>1, <3>1, <3>2 DEF FilesOf
  <2>4. LeftOf(q)'
    <3>1. ASSUME ~Running(q), NEW f \in ToSet(Targets[q]) \ saved[q], result[q] = "ok",
                 f \in Changes[q], NEW r \in FixPlan, Running(r)', f \in ToSet(Targets[r])
          PROVE  Kept(q, f, start'[r][f])
      <4>1. CASE r = p
        BY <1>3, <3>1, <4>1 DEF FixInv, LeftOf
      <4>2. CASE r # p
        BY <1>3, <1>6, <3>1, <4>2 DEF FixInv, LeftOf
      <4> QED
        BY <4>1, <4>2
    <3> QED
      BY <1>1, <1>3, <1>6, <3>1 DEF FixInv, LeftOf, Kept
  <2> QED
    BY <2>2, <2>3, <2>4
<1>14. ASSUME NEW q \in Suggestion
       PROVE  NamedOf(q)'
  <2>1. CASE q = p
    BY <1>4, <1>6, <1>7, <2>1 DEF NamedOf
  <2>2. CASE q # p
    <3>1. ASSUME NEW f \in ToSet(Targets[q]) \ saved[q], q \in content[f]
          PROVE  f \in session.changed
      BY <1>4, <3>1 DEF FixInv, NamedOf
    <3>2. ASSUME NEW f \in ToSet(Targets[q]) \ saved[q], NEW r \in FixPlan \ {q}, Running(r)',
                 f \in ToSet(Targets[r]), q \in start'[r][f]
          PROVE  f \in session.changed
      <4>1. CASE r = p
        BY <1>3, <3>1, <3>2, <4>1
      <4>2. CASE r # p
        BY <1>3, <1>4, <1>6, <3>2, <4>2 DEF FixInv, NamedOf
      <4> QED
        BY <4>1, <4>2
    <3> QED
      BY <1>1, <1>3, <1>4, <1>6, <2>2, <3>1, <3>2 DEF NamedOf
  <2> QED
    BY <2>1, <2>2
<1> QED
  BY <1>5, <1>8, <1>9, <1>10, <1>12, <1>13, <1>14 DEF FixInv
-----------------------------------------------------------------------------
(* The session                                                             *)

(* A step of the session alone, from where none of its calls is running.   *)
LEMMA SessionStep ==
  ASSUME FixInv, UNCHANGED <<transactionVars, fixFaults, saves>>,
         session' \in [state : {"none", "offer", "prompt", "apply", "ok", "err"},
                       suggestion : 1..Len(Suggestions) + 1, offered : BOOLEAN,
                       changed : SUBSET Path],
         session'.state \in {"offer", "prompt", "ok", "err"},
         session'.state = "prompt" => session'.suggestion <= Len(Suggestions),
         session.state = "none" => \A p \in FixPlan : applications[p] = 0,
         session.state = "apply" => ~Running(Suggested),
         session.state = "apply" /\ result[Suggested] # "ok" => session'.state = "err",
         session.state # "err",
         session.changed \subseteq session'.changed,
         session.state = "apply" /\ session'.state # "err" =>
           Changed(Suggested) \subseteq session'.changed
  PROVE  FixInv'
<1>1. UNCHANGED <<content, phase, at, original, start, saved, unrestored, result, applications,
                  fixFaults, saves>>
  BY DEF transactionVars
<1>2. Suggestion \subseteq FixPlan /\ \A p \in FixPlan : Running(p)' <=> Running(p)
  BY <1>1, SuggestionFacts DEF Running
<1>3. ShapeInv' /\ FreshInv'
  BY <1>1 DEF FixInv, ShapeInv, FreshInv
<1>4. CallsInv'
  <2>1. \A p \in FixPlan : applications[p] \in Nat
    BY FixTransactionAssumption DEF FixInv, ShapeInv
  <2>2. \A p \in Suggestion : ~Running(p)
    BY DEF FixInv, CallsInv
  <2>3. \A p \in FixPlan \ Suggestion : ~(applications[p] > 0)
    BY <2>1 DEF FixInv, CallsInv
  <2>4. \A p \in Suggestion : result[p] \in {"err", "died"} => session'.state = "err"
    BY <2>2 DEF FixInv, CallsInv
  <2> QED
    BY <1>1, <1>2, <2>2, <2>3, <2>4 DEF FixInv, CallsInv
<1>5. SavedInv'
  BY <1>1, <1>2 DEF FixInv, SavedInv
<1>6. ASSUME NEW p \in FixPlan
      PROVE  OriginalOf(p)' /\ FilesOf(p)' /\ LeftOf(p)' /\ Changed(p)' = Changed(p)
  <2>1. Changed(p)' = Changed(p) /\ \A f : Updated(p, f)' = Updated(p, f)
    BY <1>1 DEF Changed, Updated
  <2>2. \A i : (Read(p, i)' <=> Read(p, i)) /\ (Written(p, i)' <=> Written(p, i))
    BY <1>1, <2>1 DEF Read, Written
  <2>3. OriginalOf(p)' /\ FilesOf(p)'
    BY <1>1, <1>2, <2>1, <2>2 DEF FixInv, OriginalOf, FilesOf
  <2>4. LeftOf(p)'
    BY <1>1, <1>2 DEF FixInv, LeftOf, Kept
  <2> QED
    BY <2>1, <2>3, <2>4
<1>7. ASSUME NEW p \in Suggestion
      PROVE  NamedOf(p)'
  <2>1. NamedOf(p)
    BY DEF FixInv
  <2>2. ASSUME NEW f \in ToSet(Targets[p]) \ saved[p], session'.state # "err", p \in content[f]
        PROVE  f \in session'.changed
    BY <2>1, <2>2 DEF NamedOf
  <2>3. ASSUME NEW f \in ToSet(Targets[p]) \ saved[p], session'.state # "err",
               NEW q \in FixPlan \ {p}, Running(q), f \in ToSet(Targets[q]), p \in start[q][f]
        PROVE  f \in session'.changed
    BY <2>1, <2>3 DEF NamedOf
  <2> QED
    BY <1>1, <1>2, <2>2, <2>3 DEF NamedOf
<1> QED
  BY <1>3, <1>4, <1>5, <1>6, <1>7 DEF FixInv
-----------------------------------------------------------------------------
(* The whole                                                               *)

LEMMA FixInitInv == FixInit => FixInv
<1> SUFFICES ASSUME FixInit
             PROVE  FixInv
  OBVIOUS
<1> USE DEF FixInit
<1>1. \A p \in FixPlan : Len(Targets[p]) \in Nat /\ ToSet(Targets[p]) \subseteq Path
  BY TargetFacts
<1>2. Suggestion \subseteq FixPlan /\ Len(Suggestions) \in Nat
  BY SuggestionFacts
<1>3. content \in [Path -> Content]
  BY DEF Content
<1>4. ShapeInv
  BY <1>1, <1>2, <1>3, FixTransactionAssumption DEF ShapeInv
<1>5. CallsInv
  BY <1>2 DEF CallsInv, Running
<1>6. \A p \in FixPlan, path \in Path : p \notin content[path]
  <2>1. "nothing" \notin FixPlan
    BY FixTransactionAssumption DEF Change
  <2>2. \A path \in Path : content[path] = {} \/ content[path] = {"nothing"}
    BY DEF FixInit, NoFile
  <2> QED
    BY <2>1, <2>2
<1>7. FreshInv
  BY <1>6 DEF FreshInv
<1>8. SavedInv
  BY DEF SavedInv, Running
<1>9. ASSUME NEW p \in FixPlan
      PROVE  OriginalOf(p) /\ FilesOf(p) /\ LeftOf(p)
  BY <1>6 DEF OriginalOf, FilesOf, LeftOf, Running, Read
<1>10. ASSUME NEW p \in Suggestion
       PROVE  NamedOf(p)
  BY <1>1, <1>2, <1>6 DEF NamedOf, Running
<1> QED
  BY <1>4, <1>5, <1>7, <1>8, <1>9, <1>10 DEF FixInv

LEMMA FixStutterStep ==
  ASSUME FixInv, UNCHANGED fixVars
  PROVE  FixInv'
<1>1. UNCHANGED <<content, phase, at, original, start, saved, unrestored, result, applications,
                  session, fixFaults, saves>>
  BY DEF fixVars, transactionVars
<1>2. ShapeInv' /\ CallsInv' /\ FreshInv' /\ SavedInv'
  BY <1>1 DEF FixInv, ShapeInv, CallsInv, FreshInv, SavedInv, Running, Suggested
<1>3. ASSUME NEW p \in FixPlan
      PROVE  OriginalOf(p)' /\ FilesOf(p)' /\ LeftOf(p)'
  <2>1. OriginalOf(p)'
    BY <1>1 DEF FixInv, OriginalOf, Read
  <2>2. /\ \A f : Updated(p, f)' = Updated(p, f)
        /\ \A i : Written(p, i)' <=> Written(p, i)
    BY <1>1 DEF Written, Changed, Updated
  <2>3. FilesOf(p)'
    BY <1>1, <2>2 DEF FixInv, FilesOf, Running
  <2>4. LeftOf(p)'
    BY <1>1 DEF FixInv, LeftOf, Running, Kept
  <2> QED
    BY <2>1, <2>3, <2>4
<1>4. \A p \in Suggestion : NamedOf(p)'
  BY <1>1 DEF FixInv, NamedOf, Running, Changed, Updated, Suggested
<1> QED
  BY <1>2, <1>3, <1>4 DEF FixInv

LEMMA ApplyStep ==
  ASSUME FixInv, NEW p \in FixPlan, Apply(p)
  PROVE  FixInv'
<1>1. UNCHANGED saves
  BY DEF Apply, Begin
<1> QED
  BY <1>1, BeginStep DEF Apply

LEMMA AcceptSuggestionStep ==
  ASSUME FixInv, AcceptSuggestion
  PROVE  FixInv'
<1>1. /\ session.state = "prompt" /\ Begin(Suggested)
      /\ session' = [session EXCEPT !.state = "apply"]
  BY DEF AcceptSuggestion
<1>2. session.suggestion \in 1..Len(Suggestions)
  BY <1>1, SuggestionFacts DEF FixInv, ShapeInv, CallsInv
<1>3. Suggested \in Suggestion /\ Suggested \in FixPlan
  BY <1>2, SuggestionFacts DEF Suggested
<1>4. UNCHANGED saves
  BY <1>1 DEF Begin
<1> QED
  BY <1>1, <1>3, <1>4, BeginStep

LEMMA SessionSteps ==
  ASSUME FixInv, StartSession \/ OfferSuggestion \/ AnswerOtherwise \/ SuggestionApplied
  PROVE  FixInv'
<1>1. /\ session \in [state : {"none", "offer", "prompt", "apply", "ok", "err"},
                      suggestion : 1..Len(Suggestions) + 1, offered : BOOLEAN,
                      changed : SUBSET Path]
      /\ Len(Suggestions) \in Nat
      /\ session.state \in {"prompt", "apply"} => session.suggestion \in 1..Len(Suggestions)
  BY SuggestionFacts DEF FixInv, ShapeInv, CallsInv
<1>2. CASE StartSession
  <2>1. /\ session.state = "none" /\ \A p \in FixPlan : applications[p] = 0
        /\ session' = [session EXCEPT !.state = "offer"]
        /\ UNCHANGED <<transactionVars, fixFaults, saves>>
    BY <1>2 DEF StartSession
  <2> QED
    BY <1>1, <2>1, SessionStep
<1>3. CASE OfferSuggestion
  <2>1. session.state = "offer" /\ UNCHANGED <<transactionVars, fixFaults, saves>>
    BY <1>3 DEF OfferSuggestion
  <2>2. CASE session' = [session EXCEPT !.state = "ok"]
    BY <1>1, <2>1, <2>2, SessionStep
  <2> DEFINE offered == Suggested \in Automatic
                        /\ \A f \in ToSet(Targets[Suggested]) : Expected(Suggested, f)
  <2>3. CASE ~(session.suggestion > Len(Suggestions))
    <3>1. offered \in BOOLEAN
      OBVIOUS
    <3>2. session' = [session EXCEPT !.state = "prompt", !.offered = offered]
      BY <1>3, <2>3 DEF OfferSuggestion
    <3>3. session.suggestion <= Len(Suggestions)
      BY <1>1, <2>3
    <3> HIDE DEF offered
    <3> QED
      BY <1>1, <2>1, <3>1, <3>2, <3>3, SessionStep
  <2>4. session.suggestion > Len(Suggestions) => session' = [session EXCEPT !.state = "ok"]
    BY <1>3 DEF OfferSuggestion
  <2> QED
    BY <2>2, <2>3, <2>4
<1>4. CASE AnswerOtherwise
  <2>1. /\ session.state = "prompt" /\ UNCHANGED <<transactionVars, fixFaults, saves>>
        /\ session' \in {NextSuggestion(session), [session EXCEPT !.state = "ok"], session}
    BY <1>4 DEF AnswerOtherwise
  <2>2. session.suggestion + 1 \in 1..Len(Suggestions) + 1
    BY <1>1, <2>1
  <2>3. CASE session' = NextSuggestion(session)
    BY <1>1, <2>1, <2>2, <2>3, SessionStep DEF NextSuggestion
  <2>4. CASE session' = [session EXCEPT !.state = "ok"]
    BY <1>1, <2>1, <2>4, SessionStep
  <2>5. CASE session' = session
    BY <1>1, <2>1, <2>5, SessionStep
  <2> QED
    BY <2>1, <2>3, <2>4, <2>5
<1>5. CASE SuggestionApplied
  <2>1. /\ session.state = "apply" /\ ~Running(Suggested)
        /\ UNCHANGED <<transactionVars, fixFaults, saves>>
    BY <1>5 DEF SuggestionApplied, Running
  <2>2. CASE result[Suggested] # "ok"
    <3>1. session' = [session EXCEPT !.state = "err"]
      BY <1>5, <2>2 DEF SuggestionApplied
    <3> QED
      BY <1>1, <2>1, <2>2, <3>1, SessionStep
  <2>3. CASE result[Suggested] = "ok"
    <3>1. session' = [NextSuggestion(session) EXCEPT !.changed = @ \cup Changed(Suggested)]
      BY <1>5, <2>3 DEF SuggestionApplied
    <3>2. Suggested \in FixPlan
      BY <1>1, <2>1, SuggestionFacts DEF Suggested
    <3>3. Changed(Suggested) \subseteq Path
      BY <3>2, TargetFacts DEF Changed
    <3>4. session.suggestion + 1 \in 1..Len(Suggestions) + 1
      BY <1>1, <2>1
    <3>5. session' = [session EXCEPT !.state = "offer", !.suggestion = session.suggestion + 1,
                                     !.changed = session.changed \cup Changed(Suggested)]
      BY <1>1, <3>1 DEF NextSuggestion
    <3> QED
      BY <1>1, <2>1, <2>3, <3>3, <3>4, <3>5, SessionStep
  <2> QED
    BY <2>2, <2>3
<1> QED
  BY <1>2, <1>3, <1>4, <1>5

LEMMA FixDieStep ==
  ASSUME FixInv, NEW p \in FixPlan, FixDie(p)
  PROVE  FixInv'
  BY GiveUpStep DEF FixDie, Running, Faulted

LEMMA FixNextInv ==
  ASSUME PlansApart, BackupsApart
  PROVE  FixInv /\ [FixNext]_fixVars => FixInv'
<1> SUFFICES ASSUME FixInv, [FixNext]_fixVars
             PROVE  FixInv'
  OBVIOUS
<1>1. ASSUME NEW p \in FixPlan, Apply(p)
      PROVE  FixInv'
  BY <1>1, ApplyStep
<1>2. ASSUME NEW p \in FixPlan, FixStep(p)
      PROVE  FixInv'
  <2>1. CASE CheckPreconditions(p)
    BY <2>1, CheckPreconditionsStep
  <2>2. CASE PrepareFile(p)
    BY <2>2, PrepareFileStep
  <2>3. CASE WriteBackup(p)
    BY <2>3, WriteBackupStep
  <2>4. CASE WriteTarget(p)
    BY <2>4, WriteTargetStep
  <2>5. CASE Proceed(p)
    BY <2>5, ProceedStep
  <2>6. CASE Verify(p)
    BY <2>6, VerifyStep
  <2>7. CASE RestoreFile(p)
    BY <2>7, RestoreFileStep
  <2>8. CASE ReturnError(p)
    BY <2>8, ReturnErrorStep
  <2> QED
    BY <1>2, <2>1, <2>2, <2>3, <2>4, <2>5, <2>6, <2>7, <2>8 DEF FixStep
<1>3. ASSUME NEW p \in FixPlan, FixDie(p)
      PROVE  FixInv'
  BY <1>3, FixDieStep
<1>4. CASE StartSession \/ OfferSuggestion \/ AnswerOtherwise \/ SuggestionApplied
  BY <1>4, SessionSteps
<1>5. CASE AcceptSuggestion
  BY <1>5, AcceptSuggestionStep
<1>6. ASSUME NEW p \in FixPlan, NEW path \in ToSet(Targets[p]), NEW change \in {Near, Over},
             Save(path, change)
      PROVE  FixInv'
  <2>1. path \in Path
    BY TargetFacts
  <2> QED
    BY <1>6, <2>1, SaveStep
<1>7. CASE UNCHANGED fixVars
  BY <1>7, FixStutterStep
<1> QED
  BY <1>1, <1>2, <1>3, <1>4, <1>5, <1>6, <1>7 DEF FixNext

LEMMA FixInvHolds ==
  ASSUME PlansApart, BackupsApart
  PROVE  FixSpec => []FixInv
<1>1. FixInit => FixInv
  BY FixInitInv
<1>2. FixInv /\ [FixNext]_fixVars => FixInv'
  BY FixNextInv
<1> QED
  BY <1>1, <1>2, PTL DEF FixSpec

(* Where plans that may run at a time share no file and no backup is       *)
(* edited, apply makes all its changes or none, but for what it reports as *)
(* not restored and what others saved; and a session that returns names    *)
(* every file its suggestions changed.                                     *)
THEOREM AllOrNothingHolds ==
  ASSUME PlansApart, BackupsApart
  PROVE  FixSpec => []AllOrNothing
<1>1. FixInv => AllOrNothing
  <2> SUFFICES ASSUME FixInv, NEW p \in FixPlan, phase[p] = "idle",
                      NEW f \in ToSet(Targets[p]) \ saved[p]
               PROVE  /\ result[p] = "err" /\ f \notin unrestored[p] => content[f] = start[p][f]
                      /\ result[p] = "ok" /\ f \in Changes[p] =>
                           p \in content[f] /\ start[p][f] \subseteq content[f]
                      /\ session.state = "ok" /\ p \in Suggestion =>
                           (p \in content[f] => f \in session.changed)
    BY DEF AllOrNothing
  <2>1. LeftOf(p) /\ ~Running(p)
    BY DEF FixInv, Running
  <2>2. p \in Suggestion => NamedOf(p)
    BY DEF FixInv
  <2> QED
    BY <2>1, <2>2 DEF LeftOf, NamedOf, Kept
<1> QED
  BY <1>1, FixInvHolds, PTL
-----------------------------------------------------------------------------
(* The backups                                                             *)

BackupTypes ==
  /\ content \in [Path -> Content] /\ original \in [FixPlan -> [Path -> Content]]
  /\ phase \in [FixPlan -> {"idle", "check", "prepare", "backup", "write", "verify",
                            "rollback"}]
  /\ at \in [FixPlan -> Nat]
  /\ \A p \in FixPlan : at[p] <= Len(Targets[p]) /\ (phase[p] = "backup" => Backups[p])

(* The loop over the backups is past this file.                            *)
Reached(p, i) ==
  phase[p] \in {"write", "verify", "rollback"} \/ (phase[p] = "backup" /\ i <= at[p])

(* What a call has read is a text without its change.                      *)
ReadOf(p) ==
  \A i \in 1..Len(Targets[p]) : Read(p, i) =>
    original[p][Targets[p][i]] # NoFile /\ p \notin original[p][Targets[p][i]]

(* The backups that a running call has written hold what it read.          *)
SafeOf(p) ==
  \A i \in 1..Len(Targets[p]) : Reached(p, i) /\ Targets[p][i] \in Changed(p) =>
    content[BackupOf[Targets[p][i]]] = original[p][Targets[p][i]]

(* A file with the change of p is backed up, and so is one that a running  *)
(* call read with it, and may restore.                                     *)
KeptOf(p) ==
  \A f \in Changes[p] :
    /\ p \in content[f] => BackedUp(p, f)
    /\ \A q \in FixPlan : \A i \in 1..Len(Targets[q]) :
         Read(q, i) /\ Targets[q][i] = f /\ p \in original[q][f] => BackedUp(p, f)

BackupInv ==
  /\ BackupTypes
  /\ \A p \in FixPlan : ReadOf(p) /\ (Backups[p] => SafeOf(p) /\ KeptOf(p))

LEMMA PhaseTypes ==
  ASSUME BackupTypes, NEW p \in FixPlan, NEW n \in Nat, n <= Len(Targets[p]),
         NEW where \in {"idle", "check", "prepare", "backup", "write", "verify", "rollback"},
         Goto(p, where, n), where = "backup" => Backups[p]
  PROVE  /\ phase' \in [FixPlan -> {"idle", "check", "prepare", "backup", "write", "verify",
                                    "rollback"}]
         /\ at' \in [FixPlan -> Nat]
         /\ \A q \in FixPlan : at'[q] <= Len(Targets[q]) /\ (phase'[q] = "backup" => Backups[q])
         /\ phase'[p] = where /\ at'[p] = n
         /\ \A q \in FixPlan \ {p} : phase'[q] = phase[q] /\ at'[q] = at[q]
  BY DEF BackupTypes, Goto

(* A file holds a set of changes, with and without one more.               *)
LEMMA TextTypes ==
  ASSUME NEW text \in Content, text # NoFile, NEW change \in Change
  PROVE  text \cup {change} \in Content
  BY DEF Content

(* A step that writes no backup and reads no file.                         *)
LEMMA BackupsStay ==
  ASSUME BackupInv, BackupTypes', UNCHANGED original,
         \A p \in FixPlan : Backups[p] => \A f \in Changes[p] :
           /\ content'[BackupOf[f]] = content[BackupOf[f]]
           /\ p \in content'[f] => BackedUp(p, f),
         \A p \in FixPlan : \A i \in 1..Len(Targets[p]) :
           /\ Read(p, i)' => Read(p, i)
           /\ Backups[p] /\ Reached(p, i)' /\ Targets[p][i] \in Changed(p) => Reached(p, i)
  PROVE  BackupInv'
<1>1. \A p \in FixPlan : Changed(p)' = Changed(p) /\ Changed(p) \subseteq Changes[p]
  BY DEF Changed, Updated
<1>2. ASSUME NEW p \in FixPlan
      PROVE  ReadOf(p)'
  BY DEF BackupInv, ReadOf
<1>3. ASSUME NEW p \in FixPlan, Backups[p]
      PROVE  SafeOf(p)'
  BY <1>1, <1>3 DEF BackupInv, SafeOf
<1>4. ASSUME NEW p \in FixPlan, Backups[p]
      PROVE  KeptOf(p)'
  <2>1. \A f \in Changes[p] : BackedUp(p, f)' <=> BackedUp(p, f)
    BY <1>4 DEF BackedUp
  <2> QED
    BY <1>4, <2>1 DEF BackupInv, KeptOf
<1> QED
  BY <1>2, <1>3, <1>4 DEF BackupInv

(* A step of a call that writes no file: a check, the verification, the    *)
(* end of a loop, a return, a death, or a new call.                        *)
LEMMA BackupsQuiet ==
  ASSUME BackupInv, NEW p \in FixPlan, UNCHANGED <<content, original>>,
         NEW n \in Nat, n <= Len(Targets[p]),
         NEW where \in {"idle", "check", "prepare", "backup", "write", "verify", "rollback"},
         Goto(p, where, n),
         \/ where \in {"idle", "check"}
         \/ where = "prepare" /\ n = 0
         \/ where # "backup" /\ phase[p] \in {"write", "verify", "rollback"}
         \/ where = "backup" /\ n = 0 /\ Backups[p] /\ phase[p] = "prepare"
              /\ at[p] = Len(Targets[p])
         \/ where = "write" /\ ~Backups[p] /\ phase[p] = "prepare" /\ at[p] = Len(Targets[p])
         \/ where = "write" /\ phase[p] = "backup"
              /\ \A i \in at[p] + 1..Len(Targets[p]) : Targets[p][i] \notin Changed(p)
  PROVE  BackupInv'
<1>1. /\ phase' \in [FixPlan -> {"idle", "check", "prepare", "backup", "write", "verify",
                                 "rollback"}]
      /\ at' \in [FixPlan -> Nat]
      /\ \A q \in FixPlan : at'[q] <= Len(Targets[q]) /\ (phase'[q] = "backup" => Backups[q])
      /\ phase'[p] = where /\ at'[p] = n
      /\ \A q \in FixPlan \ {p} : phase'[q] = phase[q] /\ at'[q] = at[q]
  BY PhaseTypes DEF BackupInv
<1>2. BackupTypes'
  BY <1>1 DEF BackupInv, BackupTypes
<1>3. at[p] \in Nat /\ Len(Targets[p]) \in Nat
  BY TargetFacts DEF BackupInv, BackupTypes
<1>4. ASSUME NEW i \in 1..Len(Targets[p])
      PROVE  Read(p, i)' => Read(p, i)
  BY <1>1, <1>3 DEF Read
<1>5. ASSUME NEW i \in 1..Len(Targets[p]), Backups[p], Reached(p, i)', Targets[p][i] \in Changed(p)
      PROVE  Reached(p, i)
  BY <1>1, <1>3, <1>5 DEF Reached
<1>6. ASSUME NEW q \in FixPlan, NEW i \in 1..Len(Targets[q])
      PROVE  /\ Read(q, i)' => Read(q, i)
             /\ Backups[q] /\ Reached(q, i)' /\ Targets[q][i] \in Changed(q) => Reached(q, i)
  <2>1. CASE q = p
    BY <1>4, <1>5, <2>1
  <2>2. CASE q # p
    BY <1>1, <2>2 DEF Read, Reached
  <2> QED
    BY <2>1, <2>2
<1>7. \A q \in FixPlan : Backups[q] => \A f \in Changes[q] : q \in content[f] => BackedUp(q, f)
  BY DEF BackupInv, KeptOf
<1> QED
  BY <1>2, <1>6, <1>7, BackupsStay

(* A step that writes a file some plan edits: no backup.                   *)
LEMMA BackupsOfTarget ==
  ASSUME BackupsApart, BackupInv, BackupTypes', UNCHANGED original,
         NEW q \in FixPlan, NEW x \in ToSet(Targets[q]),
         content' = [content EXCEPT ![x] = content'[x]],
         \A p \in FixPlan : Backups[p] /\ x \in Changes[p] /\ p \in content'[x] =>
           BackedUp(p, x),
         \A p \in FixPlan : \A i \in 1..Len(Targets[p]) :
           (Read(p, i)' => Read(p, i)) /\ (Reached(p, i)' => Reached(p, i))
  PROVE  BackupInv'
<1>1. \A path \in Path : path # x => content'[path] = content[path]
  BY DEF BackupInv, BackupTypes
<1>2. ASSUME NEW p \in FixPlan, Backups[p], NEW f \in Changes[p]
      PROVE  /\ content'[BackupOf[f]] = content[BackupOf[f]]
             /\ p \in content'[f] => BackedUp(p, f)
  <2>1. f \in ToSet(Targets[p]) /\ f \in Path
    BY TargetFacts
  <2>2. BackupOf[f] # x /\ BackupOf[f] \in Path
    BY <1>2, <2>1, FixTransactionAssumption DEF BackupsApart
  <2>3. f # x => content'[f] = content[f]
    BY <1>1, <2>1
  <2>4. p \in content[f] => BackedUp(p, f)
    BY <1>2 DEF BackupInv, KeptOf
  <2> QED
    BY <1>1, <1>2, <2>2, <2>3, <2>4
<1> QED
  BY <1>2, BackupsStay

LEMMA BackupsOfPrepareFile ==
  ASSUME TakeTurns, BackupInv, NEW p \in FixPlan, PrepareFile(p)
  PROVE  BackupInv'
<1>1. phase[p] = "prepare" /\ at[p] < Len(Targets[p]) /\ UNCHANGED content
  BY DEF PrepareFile
<1>2. 0 \in Nat /\ 0 <= Len(Targets[p]) /\ at[p] \in Nat /\ Len(Targets[p]) \in Nat
  BY TargetFacts DEF BackupInv, BackupTypes
<1>3. CASE FixReturn(p, "err") /\ UNCHANGED original
  BY <1>1, <1>2, <1>3, BackupsQuiet DEF FixReturn
<1> DEFINE k == at[p] + 1
           f == Targets[p][k]
<1>4. CASE /\ Expected(p, f) /\ original' = [original EXCEPT ![p][f] = content[f]]
           /\ Goto(p, "prepare", k)
  <2>1. k \in 1..Len(Targets[p]) /\ k \in Nat /\ k <= Len(Targets[p]) /\ f \in Path
        /\ f \in ToSet(Targets[p])
    BY <1>1, <1>2, TargetFacts
  <2>2. /\ phase' \in [FixPlan -> {"idle", "check", "prepare", "backup", "write", "verify",
                                   "rollback"}]
        /\ at' \in [FixPlan -> Nat]
        /\ \A q \in FixPlan : at'[q] <= Len(Targets[q]) /\ (phase'[q] = "backup" => Backups[q])
        /\ phase'[p] = "prepare" /\ at'[p] = k
        /\ \A q \in FixPlan \ {p} : phase'[q] = phase[q] /\ at'[q] = at[q]
    BY <1>4, <2>1, PhaseTypes DEF BackupInv
  <2>3. /\ original'[p][f] = content[f] /\ \A q \in FixPlan \ {p} : original'[q] = original[q]
        /\ \A path \in Path \ {f} : original'[p][path] = original[p][path]
        /\ original' \in [FixPlan -> [Path -> Content]]
    BY <1>4, <2>1 DEF BackupInv, BackupTypes
  <2>4. content[f] # NoFile /\ p \notin content[f]
    BY <1>4 DEF Expected
  <2>5. BackupTypes'
    BY <1>1, <2>2, <2>3 DEF BackupInv, BackupTypes
  <2>6. \A i \in 1..Len(Targets[p]) : Read(p, i)' => Read(p, i) \/ Targets[p][i] = f
    BY <1>1, <1>2, <2>2 DEF Read
  <2>7. \A q \in FixPlan \ {p} : \A i \in 1..Len(Targets[q]) :
          (Read(q, i)' <=> Read(q, i)) /\ (Reached(q, i)' <=> Reached(q, i))
    BY <2>2 DEF Read, Reached
  <2>8. \A q \in FixPlan : \A i \in 1..Len(Targets[q]) :
          Targets[q][i] \in Path /\ Targets[q][i] \in ToSet(Targets[q])
    BY TargetFacts
  <2>9. ASSUME NEW q \in FixPlan \ {p}, NEW i \in 1..Len(Targets[q]), Read(q, i)
        PROVE  Targets[q][i] # f
    BY <1>1, <2>1, <2>8, <2>9 DEF TakeTurns, Read
  <2> HIDE DEF f, k
  <2>10. ASSUME NEW q \in FixPlan
         PROVE  ReadOf(q)'
    <3>1. CASE q = p
      BY <2>3, <2>4, <2>6, <2>8, <3>1 DEF BackupInv, ReadOf
    <3>2. CASE q # p
      BY <2>3, <2>7, <3>2 DEF BackupInv, ReadOf
    <3> QED
      BY <3>1, <3>2
  <2>11. ASSUME NEW q \in FixPlan, Backups[q]
         PROVE  SafeOf(q)'
    <3>1. CASE q = p
      BY <2>2, <3>1 DEF SafeOf, Reached
    <3>2. CASE q # p
      <4>1. Changed(q)' = Changed(q)
        BY <2>3, <3>2 DEF Changed, Updated
      <4> QED
        BY <1>1, <2>3, <2>7, <2>11, <3>2, <4>1 DEF BackupInv, SafeOf
    <3> QED
      BY <3>1, <3>2
  <2>12. ASSUME NEW q \in FixPlan, Backups[q], NEW g \in Changes[q], BackedUp(q, g),
                g = f => q \in content[f]
         PROVE  BackedUp(q, g)'
    <3>1. g \in Path
      BY TargetFacts
    <3>2. \A r \in FixPlan : q \in original[r][g] => q \in original'[r][g]
      BY <2>3, <2>12, <3>1
    <3> QED
      BY <1>1, <2>12, <3>2 DEF BackedUp
  <2>13. ASSUME NEW q \in FixPlan, Backups[q]
         PROVE  KeptOf(q)'
    <3>1. KeptOf(q)
      BY <2>13 DEF BackupInv
    <3>2. ASSUME NEW g \in Changes[q], q \in content[g]
          PROVE  BackedUp(q, g)'
      BY <2>12, <2>13, <3>1, <3>2 DEF KeptOf
    <3>3. ASSUME NEW g \in Changes[q], NEW r \in FixPlan, NEW i \in 1..Len(Targets[r]),
                 Read(r, i)', Targets[r][i] = g, q \in original'[r][g]
          PROVE  BackedUp(q, g)'
      <4>1. CASE g = f
        <5>1. r = p
          BY <2>7, <2>9, <3>3, <4>1
        <5> QED
          BY <2>3, <3>2, <3>3, <4>1, <5>1
      <4>2. CASE g # f
        <5>1. g \in Path
          BY TargetFacts
        <5>2. Read(r, i) /\ q \in original[r][g]
          BY <2>3, <2>6, <2>7, <3>3, <4>2, <5>1
        <5> QED
          BY <2>12, <2>13, <3>1, <3>3, <4>2, <5>2 DEF KeptOf
      <4> QED
        BY <4>1, <4>2
    <3> QED
      BY <1>1, <3>2, <3>3 DEF KeptOf
  <2> QED
    BY <2>5, <2>10, <2>11, <2>13 DEF BackupInv
<1> QED
  BY <1>3, <1>4 DEF PrepareFile

(* The backup is written over nothing, or over an earlier call's backup.   *)
LEMMA BackupsOfWriteBackup ==
  ASSUME TakeTurns, BackupsApart, BackupInv, NEW p \in FixPlan, WriteBackup(p)
  PROVE  BackupInv'
<1>1. phase[p] = "backup" /\ Backups[p] /\ UNCHANGED original
  BY DEF WriteBackup, BackupInv, BackupTypes
<1>2. PICK i \in 1..Len(Targets[p]) :
        /\ NextChanged(p, i)
        /\ \/ /\ Write(BackupOf[Targets[p][i]], original[p][Targets[p][i]])
              /\ Goto(p, "backup", i)
           \/ FixReturn(p, "err") /\ UNCHANGED content
  BY DEF WriteBackup
<1> DEFINE f == Targets[p][i]
           x == BackupOf[f]
<1>3. /\ f \in Path /\ f \in ToSet(Targets[p]) /\ x \in Path /\ i \in Nat /\ i <= Len(Targets[p])
      /\ 0 \in Nat /\ 0 <= Len(Targets[p]) /\ at[p] \in Nat
  BY TargetFacts, FixTransactionAssumption DEF BackupInv, BackupTypes
<1>4. CASE FixReturn(p, "err") /\ UNCHANGED content
  BY <1>1, <1>3, <1>4, BackupsQuiet DEF FixReturn
<1>5. CASE Write(x, original[p][f]) /\ Goto(p, "backup", i)
  <2>1. /\ phase' \in [FixPlan -> {"idle", "check", "prepare", "backup", "write", "verify",
                                   "rollback"}]
        /\ at' \in [FixPlan -> Nat]
        /\ \A q \in FixPlan : at'[q] <= Len(Targets[q]) /\ (phase'[q] = "backup" => Backups[q])
        /\ phase'[p] = "backup" /\ at'[p] = i
        /\ \A q \in FixPlan \ {p} : phase'[q] = phase[q] /\ at'[q] = at[q]
    BY <1>1, <1>3, <1>5, PhaseTypes DEF BackupInv
  <2>2. /\ content'[x] = original[p][f] /\ content' \in [Path -> Content]
        /\ \A path \in Path : path # x => content'[path] = content[path]
    BY <1>3, <1>5 DEF Write, BackupInv, BackupTypes
  <2>3. BackupTypes'
    BY <1>1, <2>1, <2>2 DEF BackupInv, BackupTypes
  <2>4. /\ \A q \in FixPlan : Changed(q)' = Changed(q) /\ Changed(q) \subseteq Changes[q]
        /\ f \in Changed(p)
    BY <1>1, <1>2 DEF Changed, Updated, NextChanged
  <2>5. original[p][f] # NoFile /\ p \notin original[p][f]
    <3>1. Read(p, i)
      BY <1>1 DEF Read
    <3> QED
      BY <3>1 DEF BackupInv, ReadOf
  <2>6. \A q \in FixPlan : \A j \in 1..Len(Targets[q]) : Read(q, j)' => Read(q, j)
    BY <1>1, <2>1 DEF Read
  <2>7. ASSUME NEW q \in FixPlan, NEW g \in Changes[q]
        PROVE  /\ g \in Path /\ g \in ToSet(Targets[q]) /\ BackupOf[g] \in Path
               /\ content'[g] = content[g]
               /\ g # f => content'[BackupOf[g]] = content[BackupOf[g]]
    <3>1. g \in ToSet(Targets[q]) /\ g \in Path /\ BackupOf[g] \in Path
      BY TargetFacts, FixTransactionAssumption
    <3>2. g # x
      BY <1>1, <1>3, <3>1 DEF BackupsApart
    <3>3. g # f => BackupOf[g] # x
      BY <1>3, <3>1, FixTransactionAssumption DEF IsInjective
    <3> QED
      BY <2>2, <3>1, <3>2, <3>3
  <2>8. ASSUME NEW q \in FixPlan
        PROVE  ReadOf(q)'
    BY <1>1, <2>6 DEF BackupInv, ReadOf
  <2>9. ASSUME NEW q \in FixPlan, Backups[q]
        PROVE  SafeOf(q)'
    <3> SUFFICES ASSUME NEW j \in 1..Len(Targets[q]), Reached(q, j)', Targets[q][j] \in Changed(q)
                 PROVE  content'[BackupOf[Targets[q][j]]] = original[q][Targets[q][j]]
      BY <1>1, <2>4 DEF SafeOf
    <3>1. Targets[q][j] \in Changes[q] /\ Targets[q][j] \in ToSet(Targets[q])
      BY <2>4, TargetFacts
    <3>2. CASE q # p
      <4>1. phase[q] # "idle" /\ Reached(q, j)
        BY <2>1, <3>2 DEF Reached
      <4>2. Targets[q][j] # f
        BY <1>1, <1>3, <3>1, <3>2, <4>1 DEF TakeTurns
      <4> QED
        BY <2>7, <2>9, <3>1, <4>1, <4>2 DEF BackupInv, SafeOf
    <3>3. CASE q = p /\ j = i
      BY <2>2, <3>3
    <3>4. CASE q = p /\ j # i
      <4>1. j <= i
        BY <2>1, <3>4 DEF Reached
      <4>2. j <= at[p]
        BY <1>2, <1>3, <3>4, <4>1 DEF NextChanged
      <4>3. Reached(p, j)
        BY <1>1, <4>2 DEF Reached
      <4>4. Targets[q][j] # f
        BY <3>4, TargetFacts
      <4> QED
        BY <2>7, <2>9, <3>1, <3>4, <4>3, <4>4 DEF BackupInv, SafeOf
    <3> QED
      BY <3>2, <3>3, <3>4
  <2>10. ASSUME NEW q \in FixPlan, Backups[q], NEW g \in Changes[q], g = f \/ BackedUp(q, g)
         PROVE  BackedUp(q, g)'
    <3>1. CASE g = f
      <4>1. content'[BackupOf[g]] = original[p][g] /\ f \in Changes[p]
        BY <2>2, <2>4, <3>1
      <4>2. q \in original[p][g] => q # p
        BY <2>5, <3>1
      <4> QED
        BY <1>1, <2>5, <3>1, <4>1, <4>2 DEF BackedUp
    <3>2. CASE g # f
      BY <1>1, <2>7, <2>10, <3>2 DEF BackedUp
    <3> QED
      BY <3>1, <3>2
  <2> HIDE DEF f, x
  <2>11. ASSUME NEW q \in FixPlan, Backups[q]
         PROVE  KeptOf(q)'
    <3>1. KeptOf(q)
      BY <2>11 DEF BackupInv
    <3>2. ASSUME NEW g \in Changes[q], q \in content'[g]
          PROVE  BackedUp(q, g)'
      <4>1. content'[g] = content[g]
        BY <2>7
      <4>2. BackedUp(q, g)
        BY <3>1, <3>2, <4>1 DEF KeptOf
      <4> QED
        BY <2>10, <2>11, <4>2
    <3>3. ASSUME NEW g \in Changes[q], NEW r \in FixPlan, NEW j \in 1..Len(Targets[r]),
                 Read(r, j)', Targets[r][j] = g, q \in original'[r][g]
          PROVE  BackedUp(q, g)'
      <4>1. BackedUp(q, g)
        BY <1>1, <2>6, <3>1, <3>3 DEF KeptOf
      <4> QED
        BY <2>10, <2>11, <4>1
    <3> QED
      BY <3>2, <3>3 DEF KeptOf
  <2> QED
    BY <2>3, <2>8, <2>9, <2>11 DEF BackupInv
<1> QED
  BY <1>2, <1>4, <1>5

LEMMA BackupsOfWriteTarget ==
  ASSUME BackupsApart, BackupInv, NEW p \in FixPlan, WriteTarget(p)
  PROVE  BackupInv'
<1>1. phase[p] = "write" /\ UNCHANGED original
  BY DEF WriteTarget
<1>2. PICK i \in 1..Len(Targets[p]) :
        /\ NextChanged(p, i)
        /\ \/ Write(Targets[p][i], Updated(p, Targets[p][i])) /\ Goto(p, "write", i)
           \/ Goto(p, "rollback", at[p]) /\ UNCHANGED content
  BY DEF WriteTarget, Applied
<1> DEFINE f == Targets[p][i]
<1>3. /\ f \in Path /\ f \in ToSet(Targets[p]) /\ i \in Nat /\ i <= Len(Targets[p])
      /\ at[p] \in Nat /\ at[p] <= Len(Targets[p]) /\ f \in Changed(p)
  BY <1>2, TargetFacts DEF BackupInv, BackupTypes, NextChanged
<1>4. CASE Goto(p, "rollback", at[p]) /\ UNCHANGED content
  BY <1>1, <1>3, <1>4, BackupsQuiet
<1>5. CASE Write(f, Updated(p, f)) /\ Goto(p, "write", i)
  <2>1. /\ phase' \in [FixPlan -> {"idle", "check", "prepare", "backup", "write", "verify",
                                   "rollback"}]
        /\ at' \in [FixPlan -> Nat]
        /\ \A q \in FixPlan : at'[q] <= Len(Targets[q]) /\ (phase'[q] = "backup" => Backups[q])
        /\ phase'[p] = "write" /\ at'[p] = i
        /\ \A q \in FixPlan \ {p} : phase'[q] = phase[q] /\ at'[q] = at[q]
    BY <1>3, <1>5, PhaseTypes DEF BackupInv
  <2>2. Read(p, i) /\ Reached(p, i) /\ f \in Changes[p] /\ Updated(p, f) = original[p][f] \cup {p}
    BY <1>1, <1>3 DEF Read, Reached, Changed, Updated
  <2>3. original[p][f] # NoFile /\ p \notin original[p][f] /\ original[p][f] \in Content
    BY <1>3, <2>2 DEF BackupInv, BackupTypes, ReadOf
  <2>4. Updated(p, f) \in Content
    <3>1. p \in Change
      BY DEF Change
    <3> QED
      BY <2>2, <2>3, <3>1, TextTypes
  <2>5. content' = [content EXCEPT ![f] = Updated(p, f)]
    BY <1>5 DEF Write
  <2>6. /\ content'[f] = Updated(p, f) /\ content' \in [Path -> Content]
        /\ content' = [content EXCEPT ![f] = content'[f]]
    BY <1>3, <2>4, <2>5 DEF BackupInv, BackupTypes
  <2>7. BackupTypes'
    BY <1>1, <2>1, <2>6 DEF BackupInv, BackupTypes
  <2>8. ASSUME NEW q \in FixPlan, Backups[q], f \in Changes[q], q \in content'[f]
        PROVE  BackedUp(q, f)
    <3>1. CASE q = p
      <4>1. content[BackupOf[f]] = original[p][f]
        BY <1>3, <2>2, <2>8, <3>1 DEF BackupInv, SafeOf
      <4> QED
        BY <2>3, <3>1, <4>1 DEF BackedUp
    <3>2. CASE q # p
      <4>1. q \in original[p][f]
        BY <2>2, <2>6, <2>8, <3>2
      <4> QED
        BY <2>2, <2>8, <4>1 DEF BackupInv, KeptOf
    <3> QED
      BY <3>1, <3>2
  <2>9. \A q \in FixPlan : \A j \in 1..Len(Targets[q]) :
          (Read(q, j)' => Read(q, j)) /\ (Reached(q, j)' => Reached(q, j))
    BY <1>1, <2>1 DEF Read, Reached
  <2> HIDE DEF f
  <2> QED
    BY <1>1, <1>3, <2>6, <2>7, <2>8, <2>9, BackupsOfTarget
<1> QED
  BY <1>2, <1>4, <1>5

LEMMA BackupsOfRestoreFile ==
  ASSUME BackupsApart, BackupInv, NEW p \in FixPlan, RestoreFile(p)
  PROVE  BackupInv'
<1>1. phase[p] = "rollback" /\ UNCHANGED original
  BY DEF RestoreFile
<1>2. PICK i \in 1..Len(Targets[p]) :
        /\ Write(Targets[p][i], original[p][Targets[p][i]]) \/ UNCHANGED content
        /\ Goto(p, "rollback", i - 1)
  BY DEF RestoreFile
<1> DEFINE f == Targets[p][i]
<1>3. f \in Path /\ f \in ToSet(Targets[p]) /\ i - 1 \in Nat /\ i - 1 <= Len(Targets[p])
  BY TargetFacts
<1>4. CASE UNCHANGED content
  BY <1>1, <1>2, <1>3, <1>4, BackupsQuiet
<1>5. CASE Write(f, original[p][f])
  <2>1. /\ phase' \in [FixPlan -> {"idle", "check", "prepare", "backup", "write", "verify",
                                   "rollback"}]
        /\ at' \in [FixPlan -> Nat]
        /\ \A q \in FixPlan : at'[q] <= Len(Targets[q]) /\ (phase'[q] = "backup" => Backups[q])
        /\ phase'[p] = "rollback"
        /\ \A q \in FixPlan \ {p} : phase'[q] = phase[q] /\ at'[q] = at[q]
    BY <1>2, <1>3, PhaseTypes DEF BackupInv
  <2>2. /\ content'[f] = original[p][f] /\ content' \in [Path -> Content]
        /\ content' = [content EXCEPT ![f] = content'[f]]
    BY <1>3, <1>5 DEF Write, BackupInv, BackupTypes
  <2>3. BackupTypes'
    BY <1>1, <2>1, <2>2 DEF BackupInv, BackupTypes
  <2>4. Read(p, i)
    BY <1>1 DEF Read
  <2>5. ASSUME NEW q \in FixPlan, Backups[q], f \in Changes[q], q \in content'[f]
        PROVE  BackedUp(q, f)
    BY <2>2, <2>4, <2>5 DEF BackupInv, KeptOf
  <2>6. \A q \in FixPlan : \A j \in 1..Len(Targets[q]) :
          (Read(q, j)' => Read(q, j)) /\ (Reached(q, j)' => Reached(q, j))
    BY <1>1, <2>1 DEF Read, Reached
  <2> HIDE DEF f
  <2> QED
    BY <1>1, <1>3, <2>2, <2>3, <2>5, <2>6, BackupsOfTarget
<1> QED
  BY <1>2, <1>4, <1>5

(* Checks, verification, the ends of the loops and of the call write       *)
(* nothing, and a new call has read nothing yet.                           *)
LEMMA BackupsOfTheRest ==
  ASSUME BackupInv, NEW p \in FixPlan,
         \/ CheckPreconditions(p) \/ Proceed(p) \/ Verify(p) \/ ReturnError(p) \/ FixDie(p)
         \/ Begin(p)
  PROVE  BackupInv'
<1>1. UNCHANGED <<content, original>>
  BY DEF CheckPreconditions, Proceed, Verify, ReturnError, FixDie, Begin
<1>2. 0 \in Nat /\ 0 <= Len(Targets[p]) /\ Len(Targets[p]) \in Nat
  BY TargetFacts
<1>3. CASE Proceed(p)
  <2>1. CASE phase[p] = "prepare" /\ Backups[p]
    BY <1>1, <1>2, <1>3, <2>1, BackupsQuiet DEF Proceed, AfterPrepare
  <2>2. CASE phase[p] = "prepare" /\ ~Backups[p]
    BY <1>1, <1>2, <1>3, <2>2, BackupsQuiet DEF Proceed, AfterPrepare
  <2>3. CASE phase[p] = "backup"
    <3>1. /\ Goto(p, "write", 0)
          /\ \A i \in at[p] + 1..Len(Targets[p]) : Targets[p][i] \notin Changed(p)
      BY <1>3, <2>3 DEF Proceed
    <3> QED
      BY <1>1, <1>2, <2>3, <3>1, BackupsQuiet
  <2>4. CASE phase[p] = "write"
    <3>1. Goto(p, "verify", 0)
      BY <1>3, <2>4 DEF Proceed
    <3> QED
      BY <1>1, <1>2, <2>4, <3>1, BackupsQuiet
  <2> QED
    BY <1>3, <2>1, <2>2, <2>3, <2>4 DEF Proceed
<1>4. \/ Proceed(p)
      \/ Goto(p, "idle", 0)
      \/ Goto(p, "check", 0)
      \/ Goto(p, "prepare", 0)
      \/ phase[p] = "verify" /\ Goto(p, "rollback", Len(Targets[p]))
  BY DEF CheckPreconditions, Verify, ReturnError, FixDie, Begin, FixReturn
<1>5. CASE Goto(p, "idle", 0)
  BY <1>1, <1>2, <1>5, BackupsQuiet
<1>6. CASE Goto(p, "check", 0)
  BY <1>1, <1>2, <1>6, BackupsQuiet
<1>7. CASE Goto(p, "prepare", 0)
  BY <1>1, <1>2, <1>7, BackupsQuiet
<1>8. CASE phase[p] = "verify" /\ Goto(p, "rollback", Len(Targets[p]))
  BY <1>1, <1>2, <1>8, BackupsQuiet
<1> QED
  BY <1>3, <1>4, <1>5, <1>6, <1>7, <1>8

LEMMA BackupsOfSave ==
  ASSUME BackupsApart, BackupInv, NEW p \in FixPlan, NEW path \in ToSet(Targets[p]),
         NEW change \in {Near, Over}, Save(path, change)
  PROVE  BackupInv'
<1>1. /\ content' = [content EXCEPT ![path] = content[path] \cup {change}]
      /\ UNCHANGED <<phase, at, original>> /\ content[path] # NoFile
      /\ path \in Path /\ change \notin FixPlan /\ change \in Change
  BY TargetFacts, FixTransactionAssumption DEF Save, Write, Change
<1>2. content[path] \cup {change} \in Content
  BY <1>1, TextTypes DEF BackupInv, BackupTypes
<1>3. /\ content'[path] = content[path] \cup {change} /\ content' \in [Path -> Content]
      /\ content' = [content EXCEPT ![path] = content'[path]]
  BY <1>1, <1>2 DEF BackupInv, BackupTypes
<1>4. BackupTypes'
  BY <1>1, <1>3 DEF BackupInv, BackupTypes
<1>5. ASSUME NEW q \in FixPlan, Backups[q], path \in Changes[q], q \in content'[path]
      PROVE  BackedUp(q, path)
  BY <1>1, <1>3, <1>5 DEF BackupInv, KeptOf
<1>6. \A q \in FixPlan : \A j \in 1..Len(Targets[q]) :
        (Read(q, j)' => Read(q, j)) /\ (Reached(q, j)' => Reached(q, j))
  BY <1>1 DEF Read, Reached
<1> QED
  BY <1>1, <1>3, <1>4, <1>5, <1>6, BackupsOfTarget

LEMMA BackupsOfStutter ==
  ASSUME BackupInv, UNCHANGED transactionVars
  PROVE  BackupInv'
<1>1. UNCHANGED <<content, phase, at, original>>
  BY DEF transactionVars
<1>2. BackupTypes'
  BY <1>1 DEF BackupInv, BackupTypes
<1>3. \A q \in FixPlan : \A j \in 1..Len(Targets[q]) :
        (Read(q, j)' => Read(q, j)) /\ (Reached(q, j)' => Reached(q, j))
  BY <1>1 DEF Read, Reached
<1>4. \A q \in FixPlan : Backups[q] => \A f \in Changes[q] : q \in content[f] => BackedUp(q, f)
  BY DEF BackupInv, KeptOf
<1> QED
  BY <1>1, <1>2, <1>3, <1>4, BackupsStay

(* A session never applies a suggestion that the diagnostic does not have. *)
SessionInv ==
  /\ session \in [state : {"none", "offer", "prompt", "apply", "ok", "err"},
                  suggestion : 1..Len(Suggestions) + 1, offered : BOOLEAN,
                  changed : SUBSET Path]
  /\ session.state \in {"prompt", "apply"} => session.suggestion <= Len(Suggestions)

LEMMA SessionNextInv ==
  ASSUME SessionInv, [FixNext]_fixVars
  PROVE  SessionInv'
<1>1. Len(Suggestions) \in Nat
  BY SuggestionFacts
<1> DEFINE Sessions == [state : {"none", "offer", "prompt", "apply", "ok", "err"},
                        suggestion : 1..Len(Suggestions) + 1, offered : BOOLEAN,
                        changed : SUBSET Path]
<1>2. CASE UNCHANGED session
  BY <1>2 DEF SessionInv
<1>3. CASE StartSession
  <2>1. session' = [session EXCEPT !.state = "offer"]
    BY <1>3 DEF StartSession
  <2> QED
    BY <2>1 DEF SessionInv
<1>4. CASE OfferSuggestion
  <2>1. CASE session.suggestion > Len(Suggestions)
    <3>1. session' = [session EXCEPT !.state = "ok"]
      BY <1>4, <2>1 DEF OfferSuggestion
    <3> QED
      BY <3>1 DEF SessionInv
  <2>2. CASE ~(session.suggestion > Len(Suggestions))
    <3>1. PICK offered \in BOOLEAN :
            session' = [session EXCEPT !.state = "prompt", !.offered = offered]
      BY <1>4, <2>2 DEF OfferSuggestion
    <3>2. session' \in Sessions /\ session'.suggestion = session.suggestion
      BY <3>1 DEF SessionInv
    <3>3. session.suggestion <= Len(Suggestions)
      BY <1>1, <2>2 DEF SessionInv
    <3> QED
      BY <3>2, <3>3 DEF SessionInv
  <2> QED
    BY <2>1, <2>2
<1>5. CASE AcceptSuggestion
  <2>1. session.state = "prompt" /\ session' = [session EXCEPT !.state = "apply"]
    BY <1>5 DEF AcceptSuggestion
  <2> QED
    BY <2>1 DEF SessionInv
<1>6. CASE AnswerOtherwise
  <2>1. /\ session.state = "prompt"
        /\ session' \in {NextSuggestion(session), [session EXCEPT !.state = "ok"], session}
    BY <1>6 DEF AnswerOtherwise
  <2>2. session.suggestion + 1 \in 1..Len(Suggestions) + 1
    BY <1>1, <2>1 DEF SessionInv
  <2>3. CASE session' = NextSuggestion(session)
    BY <2>2, <2>3 DEF SessionInv, NextSuggestion
  <2>4. CASE session' = [session EXCEPT !.state = "ok"] \/ session' = session
    BY <2>4 DEF SessionInv
  <2> QED
    BY <2>1, <2>3, <2>4
<1>7. CASE SuggestionApplied
  <2>1. session.state = "apply" /\ session.suggestion <= Len(Suggestions)
    BY <1>7 DEF SuggestionApplied, SessionInv
  <2>2. Suggested \in FixPlan
    BY <1>1, <2>1, SuggestionFacts DEF Suggested, SessionInv
  <2>3. Changed(Suggested) \subseteq Path
    BY <2>2, TargetFacts DEF Changed
  <2>4. CASE result[Suggested] = "ok"
    <3>1. session' = [NextSuggestion(session) EXCEPT !.changed = @ \cup Changed(Suggested)]
      BY <1>7, <2>4 DEF SuggestionApplied
    <3>2. session.suggestion + 1 \in 1..Len(Suggestions) + 1
      BY <1>1, <2>1 DEF SessionInv
    <3>3. session' = [session EXCEPT !.state = "offer", !.suggestion = session.suggestion + 1,
                                     !.changed = session.changed \cup Changed(Suggested)]
      BY <3>1 DEF SessionInv, NextSuggestion
    <3> QED
      BY <2>3, <3>2, <3>3 DEF SessionInv
  <2>5. CASE result[Suggested] # "ok"
    <3>1. session' = [session EXCEPT !.state = "err"]
      BY <1>7, <2>5 DEF SuggestionApplied
    <3> QED
      BY <3>1 DEF SessionInv
  <2> QED
    BY <2>4, <2>5
<1> QED
  BY <1>2, <1>3, <1>4, <1>5, <1>6, <1>7
  DEF fixVars, FixNext, FixStep, Apply, CheckPreconditions, PrepareFile, WriteBackup, WriteTarget,
      Proceed, Verify, RestoreFile, ReturnError, FixDie, Save

LEMMA BackupNextInv ==
  ASSUME BackupsApart
  PROVE  TakeTurns /\ SessionInv /\ BackupInv /\ [FixNext]_fixVars => BackupInv'
<1> SUFFICES ASSUME TakeTurns, SessionInv, BackupInv, [FixNext]_fixVars
             PROVE  BackupInv'
  OBVIOUS
<1>1. ASSUME NEW p \in FixPlan, Apply(p) \/ FixDie(p)
      PROVE  BackupInv'
  BY <1>1, BackupsOfTheRest DEF Apply
<1>2. ASSUME NEW p \in FixPlan, FixStep(p)
      PROVE  BackupInv'
  <2>1. CASE CheckPreconditions(p) \/ Proceed(p) \/ Verify(p) \/ ReturnError(p)
    BY <2>1, BackupsOfTheRest
  <2>2. CASE PrepareFile(p)
    BY <2>2, BackupsOfPrepareFile
  <2>3. CASE WriteBackup(p)
    BY <2>3, BackupsOfWriteBackup
  <2>4. CASE WriteTarget(p)
    BY <2>4, BackupsOfWriteTarget
  <2>5. CASE RestoreFile(p)
    BY <2>5, BackupsOfRestoreFile
  <2> QED
    BY <1>2, <2>1, <2>2, <2>3, <2>4, <2>5 DEF FixStep
<1>3. CASE StartSession \/ OfferSuggestion \/ AnswerOtherwise \/ SuggestionApplied
  <2>1. UNCHANGED transactionVars
    BY <1>3 DEF StartSession, OfferSuggestion, AnswerOtherwise, SuggestionApplied
  <2> QED
    BY <2>1, BackupsOfStutter
<1>4. CASE AcceptSuggestion
  <2>1. session.suggestion \in 1..Len(Suggestions) /\ Begin(Suggested)
    BY <1>4, SuggestionFacts DEF AcceptSuggestion, SessionInv
  <2>2. Suggested \in FixPlan
    BY <2>1, SuggestionFacts DEF Suggested
  <2> QED
    BY <2>1, <2>2, BackupsOfTheRest
<1>5. ASSUME NEW p \in FixPlan, NEW path \in ToSet(Targets[p]), NEW change \in {Near, Over},
             Save(path, change)
      PROVE  BackupInv'
  BY <1>5, BackupsOfSave
<1>6. CASE UNCHANGED fixVars
  BY <1>6, BackupsOfStutter DEF fixVars
<1> QED
  BY <1>1, <1>2, <1>3, <1>4, <1>5, <1>6 DEF FixNext

(* As long as calls that share a file run one after the other, as often as *)
(* they like: while a call that keeps backups writes, the backup of every  *)
(* file it changes holds the text it read; and a file with its change left *)
(* in it has a backup without that change, or, once another plan that      *)
(* keeps backups has read the file with it, one without that plan's.       *)
(* remediation.rs, apply_transaction.                                      *)
THEOREM BackupsInTurn ==
  ASSUME BackupsApart
  PROVE  FixSpec /\ []TakeTurns => []BackupPrecedes
<1>1. FixInit => SessionInv /\ BackupInv
  <2> SUFFICES ASSUME FixInit
               PROVE  SessionInv /\ BackupInv
    OBVIOUS
  <2>1. FixInv /\ FreshInv /\ \A p \in FixPlan : applications[p] = 0 /\ phase[p] = "idle"
    BY FixInitInv DEF FixInit, FixInv
  <2>2. SessionInv /\ BackupTypes
    BY <2>1 DEF FixInv, ShapeInv, CallsInv, SessionInv, BackupTypes
  <2>3. \A p \in FixPlan : \A i : ~Read(p, i) /\ ~Reached(p, i)
    BY <2>1 DEF Read, Reached
  <2>4. \A p \in FixPlan : \A f \in Changes[p] : p \notin content[f]
    BY <2>1, TargetFacts DEF FreshInv
  <2> QED
    BY <2>2, <2>3, <2>4 DEF BackupInv, ReadOf, SafeOf, KeptOf
<1>2. SessionInv /\ [FixNext]_fixVars => SessionInv'
  BY SessionNextInv
<1>3. TakeTurns /\ SessionInv /\ BackupInv /\ [FixNext]_fixVars => BackupInv'
  BY BackupNextInv
<1>4. BackupInv => BackupPrecedes
  <2> SUFFICES ASSUME BackupInv, NEW p \in FixPlan, Backups[p], NEW f \in Changes[p]
               PROVE  /\ phase[p] \in {"write", "verify", "rollback"} /\ f \in Changed(p) =>
                           content[BackupOf[f]] = original[p][f]
                      /\ content[f] # NoFile /\ p \in content[f] => BackedUp(p, f)
    BY DEF BackupPrecedes
  <2>1. PICK i \in 1..Len(Targets[p]) : Targets[p][i] = f
    BY TargetFacts
  <2>2. phase[p] \in {"write", "verify", "rollback"} => Reached(p, i)
    BY DEF Reached
  <2> QED
    BY <2>1, <2>2 DEF BackupInv, SafeOf, KeptOf
<1> QED
  BY <1>1, <1>2, <1>3, <1>4, PTL DEF FixSpec

(* The suggestions of a session take turns by themselves: where plans that *)
(* two processes may apply at a time share no file, the backups need no    *)
(* more.                                                                   *)
THEOREM BackupsPrecede ==
  ASSUME PlansApart, BackupsApart
  PROVE  FixSpec => []BackupPrecedes
<1>1. FixInv => TakeTurns
  <2> SUFFICES ASSUME FixInv, NEW p \in FixPlan, NEW q \in FixPlan, p # q, Running(p), Running(q)
               PROVE  ToSet(Targets[p]) \cap ToSet(Targets[q]) = {}
    BY DEF TakeTurns, Running
  <2>1. applications[q] > 0
    BY DEF FixInv, CallsInv
  <2> QED
    BY <2>1, OthersApart
<1> QED
  BY <1>1, FixInvHolds, BackupsInTurn, PTL

-----------------------------------------------------------------------------
(* The log: the inductive invariant                                        *)

Older(entries, others) == \A x \in entries, y \in others : x < y

Unlocked == {"idle", "print", "lock"}
Locked == {"check", "rotate", "cleanup", "read", "pack", "remove", "append"}

(* Who writes holds the lock.                                              *)
LockInv ==
  /\ DOMAIN step = Threads /\ DOMAIN archive = Threads
  /\ \A t \in Threads :
       /\ step[t] \in Unlocked \cup Locked
       /\ step[t] \in Locked <=> holder = t

(* An archive has the time of its newest entry; of two archives, one is    *)
(* older than the other or they are one archive, plain and compressed;     *)
(* all are older than the log.                                             *)
FilesInv ==
  /\ options.files \in Nat /\ written \in Seq(Nat)
  /\ \A i \in 1..Len(written) : written[i] = i
  /\ DOMAIN log = {"there", "entries", "at", "second"}
  /\ IsFiniteSet(archives)
  /\ \A a, b \in archives : a.name = b.name => a = b
  /\ \A a \in archives :
       /\ DOMAIN a = {"name", "entries", "at"}
       /\ a.entries \subseteq 1..Len(written)
       /\ a.entries # {} => a.at \in a.entries /\ \A x \in a.entries : x <= a.at
       /\ Older(a.entries, log.entries)
       /\ options.files = 0 => a.entries = {}
  /\ \A a, b \in archives :
       a.entries = b.entries \/ Older(a.entries, b.entries) \/ Older(b.entries, a.entries)
  /\ log.entries \subseteq 1..Len(written)
  /\ log.entries # {} => log.at \in log.entries /\ log.at = Len(written)

(* The archive that a rotation made, until it is compressed.               *)
Rotating(t) ==
  /\ step[t] \in {"cleanup", "read", "pack", "remove"} =>
       /\ log.entries = {} /\ options.files # 0
       /\ \E s : archive[t] = <<s, "plain">>
  /\ step[t] \in {"cleanup", "read", "pack"} =>
       \A a \in Named(archive[t]) : a.entries # {} => a.at = Len(written)
  /\ step[t] = "pack" =>
       /\ Named(archive[t]) # {} /\ Named(Packed(archive[t])) # {}
       /\ \A b \in Named(Packed(archive[t])) : b.entries = {}
  /\ step[t] = "remove" =>
       \E a \in Named(archive[t]), b \in Named(Packed(archive[t])) : b.entries = a.entries

OldestLost == \A lost \in Gone, kept \in OnDisk \ Within(resisted) : lost < kept

(* How many archives there are.                                            *)
Extra == \E t \in Threads : step[t] \in {"pack", "remove"}
Uncleaned == \E t \in Threads : step[t] = "cleanup"

CountInv ==
  /\ logFaults \in Nat
  /\ Gone # {} /\ replaced = {} =>
       Cardinality(archives) >= options.files + (IF Extra THEN 1 ELSE 0)
  /\ ~options.bare /\ options.files # 0 =>
       Cardinality(archives) <=
         options.files + logFaults + (IF Extra \/ Uncleaned THEN 1 ELSE 0)

LogInv ==
  /\ Nobody \notin Threads
  /\ LockInv /\ FilesInv /\ OldestLost /\ CountInv
  /\ \A t \in Threads : Rotating(t)

-----------------------------------------------------------------------------
(* The log: files                                                          *)

LEMMA PutFacts ==
  ASSUME FilesInv, NEW file,
         archives' = (archives \ Named(file.name)) \cup {file}
  PROVE  /\ IsFiniteSet(archives')
         /\ Named(file.name) = {} => Cardinality(archives') = Cardinality(archives) + 1
         /\ Named(file.name) # {} => Cardinality(archives') = Cardinality(archives)
         /\ \A a, b \in archives' : a.name = b.name => a = b
         /\ Cardinality(archives) \in Nat /\ Cardinality(archives') \in Nat
<1> DEFINE named == Named(file.name)
<1>1. IsFiniteSet(archives)
  BY DEF FilesInv
<1>2. /\ IsFiniteSet(archives \ named)
      /\ Cardinality(archives \ named) \in Nat /\ Cardinality(archives) \in Nat
  BY <1>1, FS_Subset, FS_CardinalityType
<1>3. file \notin archives \ named
  BY DEF Named
<1>4. IsFiniteSet(archives') /\ Cardinality(archives') = Cardinality(archives \ named) + 1
  BY <1>2, <1>3, FS_AddElement
<1>5. \A a, b \in archives' : a.name = b.name => a = b
  BY DEF FilesInv, Named
<1>6. CASE named = {}
  <2>1. archives \ named = archives
    BY <1>6
  <2> QED
    BY <1>2, <1>4, <1>5, <1>6, <2>1
<1>7. CASE named # {}
  <2>1. PICK a : a \in named
    BY <1>7
  <2>2. archives \ named = archives \ {a} /\ a \in archives
    BY <2>1 DEF Named, FilesInv
  <2>3. Cardinality(archives \ named) = Cardinality(archives) - 1
    BY <1>1, <2>2, FS_RemoveElement
  <2> QED
    BY <1>2, <1>4, <1>5, <1>7, <2>3
<1> QED
  BY <1>6, <1>7

LEMMA DropFacts ==
  ASSUME FilesInv, NEW name, Named(name) # {}, archives' = archives \ Named(name)
  PROVE  /\ IsFiniteSet(archives') /\ Cardinality(archives') = Cardinality(archives) - 1
         /\ Cardinality(archives) \in Nat /\ Cardinality(archives') \in Nat
<1>1. PICK a : a \in Named(name)
  OBVIOUS
<1>2. archives' = archives \ {a} /\ a \in archives
  BY <1>1 DEF Named, FilesInv
<1>3. IsFiniteSet(archives)
  BY DEF FilesInv
<1> QED
  BY <1>2, <1>3, FS_RemoveElement, FS_CardinalityType

LEMMA WrittenSet ==
  ASSUME written \in Seq(Nat), \A i \in 1..Len(written) : written[i] = i
  PROVE  ToSet(written) = 1..Len(written)
BY DEF ToSet

(* What only one thread does, others do not.                               *)
LEMMA OthersOut ==
  ASSUME LockInv, NEW t \in Threads, step[t] \in Locked
  PROVE  /\ holder = t /\ \A u \in Threads \ {t} : step[u] \in Unlocked
         /\ Extra <=> step[t] \in {"pack", "remove"}
         /\ Uncleaned <=> step[t] = "cleanup"
<1>1. holder = t /\ \A u \in Threads \ {t} : step[u] \notin Locked
  BY DEF LockInv
<1>2. \A u \in Threads \ {t} : step[u] \in Unlocked
  BY <1>1 DEF LockInv
<1> QED
  BY <1>1, <1>2 DEF Extra, Uncleaned, Unlocked

LEMMA NoneIn ==
  ASSUME LockInv, Nobody \notin Threads, holder = Nobody
  PROVE  (\A u \in Threads : step[u] \in Unlocked) /\ ~Extra /\ ~Uncleaned
BY DEF LockInv, Extra, Uncleaned, Unlocked, Locked

-----------------------------------------------------------------------------
(* The log: steps of the lock                                              *)

(* A thread that goes on, and keeps the lock.                              *)
LEMMA GoesOn ==
  ASSUME LogInv, NEW t \in Threads, step[t] \in Locked,
         NEW where \in Locked, step' = [step EXCEPT ![t] = where], holder' = holder,
         DOMAIN archive' = Threads
  PROVE  /\ LockInv' /\ step'[t] = where /\ \A u \in Threads \ {t} : step'[u] \in Unlocked
         /\ Extra' <=> where \in {"pack", "remove"}
         /\ Uncleaned' <=> where = "cleanup"
<1>1. holder = t /\ \A u \in Threads \ {t} : step[u] \in Unlocked
  BY OthersOut DEF LogInv
<1>2. step'[t] = where /\ \A u \in Threads \ {t} : step'[u] = step[u]
  BY DEF LogInv, LockInv
<1>3. LockInv'
  BY <1>1, <1>2 DEF LogInv, LockInv, Locked, Unlocked
<1>4. \A u \in Threads \ {t} : step'[u] \in Unlocked
  BY <1>1, <1>2
<1> QED
  BY <1>2, <1>3, <1>4 DEF Extra, Uncleaned, Unlocked

(* A thread that returns, and gives up the lock if it had it.              *)
LEMMA Returns ==
  ASSUME LogInv, NEW t \in Threads, NEW rest, Done(t, rest),
         step[t] \in Locked \/ step[t] = "print"
  PROVE  /\ LockInv'
         /\ step[t] \in Locked => \A u \in Threads : step'[u] \in Unlocked
         /\ step[t] \in Locked => ~Extra' /\ ~Uncleaned'
         /\ step[t] = "print" => (Extra' <=> Extra) /\ (Uncleaned' <=> Uncleaned)
         /\ \A u \in Threads : step'[u] \in Unlocked \/ (step'[u] = step[u] /\ u # t)
<1>1. /\ step'[t] \in {"idle", "print"} /\ \A u \in Threads \ {t} : step'[u] = step[u]
      /\ holder' = IF holder = t THEN Nobody ELSE holder
      /\ DOMAIN step' = Threads /\ DOMAIN archive' = Threads
  BY DEF Done, LogInv, LockInv
<1>2. Nobody \notin Threads
  BY DEF LogInv
<1>3. CASE step[t] \in Locked
  <2>1. holder = t /\ \A u \in Threads \ {t} : step[u] \in Unlocked
    BY <1>3, OthersOut DEF LogInv
  <2>2. \A u \in Threads : step'[u] \in Unlocked
    BY <1>1, <2>1 DEF Unlocked
  <2>3. LockInv'
    BY <1>1, <1>2, <2>1, <2>2 DEF LockInv, Unlocked, Locked
  <2>4. ~Extra' /\ ~Uncleaned'
    BY <2>2 DEF Extra, Uncleaned, Unlocked
  <2> QED
    BY <1>3, <2>2, <2>3, <2>4 DEF Locked
<1>4. CASE step[t] = "print"
  <2>1. holder # t
    BY <1>4 DEF LogInv, LockInv, Locked
  <2>2. LockInv'
    BY <1>1, <1>4, <2>1 DEF LogInv, LockInv, Unlocked, Locked
  <2>3. (Extra' <=> Extra) /\ (Uncleaned' <=> Uncleaned)
    BY <1>1, <1>4 DEF Extra, Uncleaned
  <2> QED
    BY <1>1, <1>4, <2>2, <2>3 DEF Unlocked, Locked
<1> QED
  BY <1>3, <1>4

-----------------------------------------------------------------------------
(* The log: steps that leave the files as they are                         *)

(* The log may have been created, empty.                                   *)
SameFiles ==
  /\ UNCHANGED <<options, archives, written, replaced, resisted>>
  /\ log'.entries = log.entries /\ log'.at = log.at /\ DOMAIN log' = DOMAIN log

LEMMA SameFilesStay ==
  ASSUME LogInv, SameFiles
  PROVE  FilesInv' /\ OldestLost' /\ Gone' = Gone
<1>1. FilesInv'
  BY DEF LogInv, FilesInv, SameFiles, Older
<1>2. OnDisk' = OnDisk /\ Gone' = Gone /\ Within(resisted)' = Within(resisted)
  BY DEF SameFiles, OnDisk, Gone, Within
<1> QED
  BY <1>1, <1>2 DEF LogInv, OldestLost

(* A thread that writes no file now is not rotating one.                   *)
LEMMA UnlockedRotating ==
  ASSUME NEW t \in Threads, step[t] \in {"idle", "print", "lock", "check", "rotate", "append"}
  PROVE  Rotating(t)
BY DEF Rotating

LEMMA SameRotating ==
  ASSUME NEW t \in Threads, Rotating(t), SameFiles, step'[t] = step[t], archive'[t] = archive[t]
  PROVE  Rotating(t)'
<1>1. \A name : Named(name)' = Named(name)
  BY DEF Named, SameFiles
<1>2. Packed(archive[t])' = Packed(archive[t])
  BY DEF Packed
<1> QED
  BY <1>1, <1>2 DEF Rotating, SameFiles, Named, Packed

(* A thread that returns leaves one archive more at most.                  *)
LEMMA ReturnStep ==
  ASSUME LogInv, NEW t \in Threads, NEW rest, Done(t, rest), SameFiles,
         step[t] \in Locked \/ step[t] = "print",
         \/ UNCHANGED logFaults /\ (step[t] \in {"print", "read"} \/ options.bare)
         \/ logFaults' = logFaults + 1
  PROVE  LogInv'
<1>1. LockInv' /\ FilesInv' /\ OldestLost' /\ Gone' = Gone
  BY Returns, SameFilesStay
<1>2. \A u \in Threads : Rotating(u)'
  <2> TAKE u \in Threads
  <2>1. CASE step'[u] \in Unlocked
    BY <2>1 DEF Rotating, Unlocked
  <2>2. CASE step'[u] = step[u] /\ u # t
    <3>1. archive'[u] = archive[u]
      BY <2>2 DEF Done, LogInv, LockInv
    <3> QED
      BY <2>2, <3>1, SameRotating DEF LogInv
  <2> QED
    BY <2>1, <2>2, Returns
<1>3. CountInv'
  <2>1. /\ Cardinality(archives)' = Cardinality(archives) /\ options' = options
        /\ replaced' = replaced /\ Cardinality(archives) \in Nat /\ options.files \in Nat
        /\ logFaults \in Nat /\ logFaults' \in Nat
    BY FS_CardinalityType DEF SameFiles, LogInv, CountInv, FilesInv
  <2>2. CASE step[t] = "print"
    <3>1. (Extra' <=> Extra) /\ (Uncleaned' <=> Uncleaned)
      BY <2>2, Returns
    <3> QED
      BY <1>1, <2>1, <2>2, <3>1 DEF LogInv, CountInv
  <2>3. CASE step[t] \in Locked
    <3>1. ~Extra' /\ ~Uncleaned'
      BY <2>3, Returns
    <3>2. step[t] = "read" => ~Extra /\ ~Uncleaned
      BY <2>3, OthersOut DEF LogInv
    <3> QED
      BY <1>1, <2>1, <2>3, <3>1, <3>2 DEF LogInv, CountInv, Locked
  <2> QED
    BY <2>2, <2>3
<1> QED
  BY <1>1, <1>2, <1>3 DEF LogInv

(* A thread that does not hold the lock, or takes it, or the clock.        *)
LEMMA CalmStep ==
  ASSUME LogInv, SameFiles, UNCHANGED logFaults, LockInv',
         \A u \in Threads :
           \/ step'[u] \in {"idle", "print", "lock", "check", "rotate", "append"}
           \/ step'[u] = step[u] /\ archive'[u] = archive[u],
         \A u \in Threads :
           step'[u] = step[u]
             \/ {step[u], step'[u]} \cap {"cleanup", "pack", "remove"} = {}
  PROVE  LogInv'
<1>1. FilesInv' /\ OldestLost' /\ Gone' = Gone
  BY SameFilesStay
<1>2. \A u \in Threads : Rotating(u)'
  <2> TAKE u \in Threads
  <2>1. CASE step'[u] \in {"idle", "print", "lock", "check", "rotate", "append"}
    BY <2>1 DEF Rotating
  <2>2. CASE step'[u] = step[u] /\ archive'[u] = archive[u]
    BY <2>2, SameRotating DEF LogInv
  <2> QED
    BY <2>1, <2>2
<1>3. (Extra' <=> Extra) /\ (Uncleaned' <=> Uncleaned)
  BY DEF Extra, Uncleaned
<1>4. CountInv'
  BY <1>1, <1>3 DEF LogInv, CountInv, SameFiles
<1> QED
  BY <1>1, <1>2, <1>4 DEF LogInv

LEMMA CalmSteps ==
  ASSUME LogInv, NEW t \in Threads,
         \/ \E n \in 1..MaxEmits : EmitReport(t, n)
         \/ Show(t) /\ MoveTo(t, "lock") /\ UNCHANGED logFaults
         \/ Lock(t) \/ CheckRotation(t) \/ Tick
  PROVE  LogInv'
<1> DEFINE From(u) == {step[u], step'[u]}
<1>1. SameFiles /\ UNCHANGED logFaults
  BY DEF EmitReport, Show, Lock, CheckRotation, Tick, MoveTo, SameFiles
<1>2. CASE Tick
  <2>1. LockInv' /\ step' = step /\ archive' = archive
    BY <1>2 DEF Tick, LogInv, LockInv
  <2> QED
    BY <1>1, <2>1, CalmStep
<1>3. CASE ~Tick
  <2>1. \A u \in Threads \ {t} : step'[u] = step[u] /\ archive'[u] = archive[u]
    BY <1>3 DEF EmitReport, Show, Lock, CheckRotation, MoveTo, LogInv, LockInv
  <2>2. /\ step[t] \in {"idle", "print", "lock", "check"}
        /\ step'[t] \in {"print", "lock", "check", "rotate", "append"}
    BY <1>3 DEF EmitReport, Show, Lock, CheckRotation, MoveTo, LogInv, LockInv
  <2>3. LockInv'
    <3>1. DOMAIN step' = Threads /\ DOMAIN archive' = Threads
      BY <1>3 DEF EmitReport, Show, Lock, CheckRotation, MoveTo, LogInv, LockInv
    <3>2. CASE Lock(t)
      <4>1. holder' = t /\ step'[t] = "check" /\ \A u \in Threads : step[u] \in Unlocked
        BY <3>2, NoneIn DEF Lock, LogInv, LockInv
      <4> QED
        BY <2>1, <3>1, <4>1 DEF LockInv, Unlocked, Locked
    <3>3. CASE CheckRotation(t)
      <4>1. /\ holder' = holder /\ step[t] = "check" /\ step'[t] \in {"rotate", "append"}
        BY <3>3 DEF CheckRotation, MoveTo, LogInv, LockInv
      <4> QED
        BY <2>1, <3>1, <4>1 DEF LogInv, LockInv, Unlocked, Locked
    <3>4. CASE ~Lock(t) /\ ~CheckRotation(t)
      <4>1. /\ holder' = holder /\ step[t] \in {"idle", "print"} /\ step'[t] \in {"print", "lock"}
        BY <1>3, <3>4 DEF EmitReport, Show, MoveTo, LogInv, LockInv
      <4> QED
        BY <2>1, <3>1, <4>1 DEF LogInv, LockInv, Unlocked, Locked
    <3> QED
      BY <3>2, <3>3, <3>4
  <2>4. \A u \in Threads :
          \/ step'[u] \in {"idle", "print", "lock", "check", "rotate", "append"}
          \/ step'[u] = step[u] /\ archive'[u] = archive[u]
    BY <2>1, <2>2
  <2>5. \A u \in Threads :
          step'[u] = step[u] \/ {step[u], step'[u]} \cap {"cleanup", "pack", "remove"} = {}
    BY <2>1, <2>2
  <2> QED
    BY <1>1, <2>3, <2>4, <2>5, CalmStep
<1> QED
  BY <1>2, <1>3

LEMMA ReturningSteps ==
  ASSUME LogInv, NEW t \in Threads,
         \/ Show(t) /\ ~(MoveTo(t, "lock") /\ UNCHANGED logFaults)
         \/ CleanupFails(t)
         \/ ReadArchive(t) /\ (options.packing = "unavailable" \/ Named(archive[t]) = {})
         \/ FailWrite(t)
  PROVE  LogInv'
<1>1. SameFiles
  <2>1. CASE ReadArchive(t) /\ (options.packing = "unavailable" \/ Named(archive[t]) = {})
    BY <2>1 DEF ReadArchive, SameFiles
  <2>2. CASE Show(t) \/ CleanupFails(t)
    BY <2>2 DEF Show, CleanupFails, SameFiles
  <2>3. CASE FailWrite(t)
    BY <2>3 DEF FailWrite, SameFiles, LogInv, FilesInv
  <2> QED
    BY <2>1, <2>2, <2>3
<1>2. step[t] \in Locked \/ step[t] = "print"
  BY DEF Show, CleanupFails, ReadArchive, FailWrite, LogInv, LockInv, Locked, Unlocked
<1>3. PICK rest : Done(t, rest)
  BY DEF Show, CleanupFails, ReadArchive, FailWrite
<1>4. \/ UNCHANGED logFaults /\ (step[t] \in {"print", "read"} \/ options.bare)
      \/ logFaults' = logFaults + 1
  BY DEF Show, CleanupFails, ReadArchive, FailWrite, LogFault
<1> QED
  BY <1>1, <1>2, <1>3, <1>4, ReturnStep

LEMMA DieStep ==
  ASSUME LogInv, DieWriting
  PROVE  LogInv'
<1>1. SameFiles /\ logFaults' = logFaults + 1
  BY DEF DieWriting, SameFiles, LogFault
<1>2. LockInv' /\ \A t \in Threads : step'[t] = "idle"
  BY DEF DieWriting, LogInv, LockInv, Locked, Unlocked
<1>3. FilesInv' /\ OldestLost' /\ Gone' = Gone
  BY <1>1, SameFilesStay
<1>4. ~Extra' /\ ~Uncleaned' /\ \A t \in Threads : Rotating(t)'
  BY <1>2 DEF Extra, Uncleaned, Rotating
<1>5. /\ Cardinality(archives)' = Cardinality(archives) /\ options' = options
      /\ replaced' = replaced /\ Cardinality(archives) \in Nat /\ options.files \in Nat
      /\ logFaults \in Nat
  BY <1>1, FS_CardinalityType DEF SameFiles, LogInv, CountInv, FilesInv
<1>6. CountInv'
  BY <1>1, <1>3, <1>4, <1>5 DEF LogInv, CountInv
<1> QED
  BY <1>2, <1>3, <1>4, <1>6 DEF LogInv

-----------------------------------------------------------------------------
(* The log: steps that change files                                        *)

(* What is on disk only shrinks, and what leaves it was replaced.          *)
LEMMA NothingLost ==
  ASSUME LogInv, Gone' \subseteq Gone, OnDisk' \subseteq OnDisk, resisted \subseteq resisted'
  PROVE  OldestLost'
<1>1. Within(resisted) \subseteq Within(resisted)'
  BY DEF Within
<1> QED
  BY <1>1 DEF LogInv, OldestLost

(* A file that takes a name holds nothing that is not in the log or in an  *)
(* archive; the log keeps what is not in the file.                         *)
LEMMA PutLoses ==
  ASSUME LogInv, NEW file, Put(file), written' = written, resisted' = resisted,
         file.entries \subseteq log.entries, log.entries \subseteq log'.entries \cup file.entries,
         log'.entries \subseteq log.entries
  PROVE  /\ Gone' \subseteq Gone /\ OnDisk' \subseteq OnDisk /\ OldestLost'
         /\ replaced' = {} => Named(file.name) = {} /\ replaced = {}
<1>1. \A a \in archives' : a = file \/ a \in archives
  BY DEF Put
<1>2. OnDisk' \subseteq OnDisk
  BY <1>1 DEF OnDisk, Within
<1>3. \A a \in archives : a \in archives' \/ a \in replaced'
  BY DEF Put, Named
<1>4. file \in archives' /\ replaced \subseteq replaced'
  BY DEF Put
<1>5. OnDisk \cup Within(replaced) \subseteq OnDisk' \cup Within(replaced)'
  BY <1>3, <1>4 DEF OnDisk, Within
<1>6. Gone' \subseteq Gone
  BY <1>5 DEF Gone
<1>7. OldestLost'
  BY <1>2, <1>6, NothingLost
<1> QED
  BY <1>2, <1>6, <1>7 DEF Put

LEMMA RotateStep ==
  ASSUME LogInv, NEW t \in Threads, Rotate(t)
  PROVE  LogInv'
<1>1. /\ log'.entries = {} /\ log'.at = log.at /\ step[t] = "rotate" /\ step[t] \in Locked
      /\ options' = options /\ written' = written /\ resisted' = resisted
      /\ logFaults' = logFaults /\ DOMAIN log' = {"there", "entries", "at", "second"}
  BY DEF Rotate, NoLog, Locked
<1>2. /\ ~Extra /\ ~Uncleaned
  BY <1>1, OthersOut DEF LogInv
<1>3. CASE options.files = 0
  <2>1. MoveTo(t, "append") /\ archives' = archives /\ replaced' = replaced
    BY <1>3 DEF Rotate
  <2>2. /\ LockInv' /\ ~Extra' /\ ~Uncleaned' /\ step'[t] = "append"
        /\ \A u \in Threads \ {t} : step'[u] \in Unlocked
    BY <1>1, <2>1, GoesOn DEF MoveTo, Locked, LogInv, LockInv
  <2>3. FilesInv'
    BY <1>1, <2>1 DEF LogInv, FilesInv, Older
  <2>4. OnDisk' = {}
    BY <1>1, <1>3, <2>1 DEF OnDisk, Within, LogInv, FilesInv
  <2>5. OldestLost'
    BY <2>4 DEF OldestLost
  <2>6. \A u \in Threads : Rotating(u)'
    BY <2>2 DEF Rotating, Unlocked
  <2>7. CountInv'
    <3>1. Cardinality(archives) \in Nat
      BY FS_CardinalityType DEF LogInv, FilesInv
    <3> QED
      BY <1>1, <1>3, <2>1, <2>2, <3>1 DEF LogInv, CountInv
  <2> QED
    BY <2>2, <2>3, <2>5, <2>6, <2>7 DEF LogInv
<1>4. CASE options.files # 0
  <2> DEFINE name == <<second, "plain">>
             file == [name |-> name, entries |-> log.entries, at |-> log.at]
  <2>1. /\ Put(file) /\ archive' = [archive EXCEPT ![t] = name]
        /\ step' = [step EXCEPT ![t] = "cleanup"] /\ holder' = holder
    BY <1>4 DEF Rotate
  <2>2. /\ LockInv' /\ ~Extra' /\ Uncleaned' /\ step'[t] = "cleanup"
        /\ \A u \in Threads \ {t} : step'[u] \in Unlocked
    BY <1>1, <2>1, GoesOn DEF Locked, LogInv, LockInv
  <2>3. /\ Gone' \subseteq Gone /\ OldestLost'
        /\ replaced' = {} => Named(name) = {} /\ replaced = {}
    BY <1>1, <2>1, PutLoses
  <2>4. /\ IsFiniteSet(archives') /\ \A a, b \in archives' : a.name = b.name => a = b
        /\ Cardinality(archives) \in Nat /\ Cardinality(archives') \in Nat
        /\ Named(name) = {} => Cardinality(archives') = Cardinality(archives) + 1
        /\ Named(name) # {} => Cardinality(archives') = Cardinality(archives)
    <3>1. FilesInv /\ file.name = name /\ archives' = (archives \ Named(file.name)) \cup {file}
      BY <2>1 DEF Put, LogInv
    <3> QED
      BY <3>1, PutFacts
  <2>5. \A a \in archives' : a = file \/ a \in archives
    BY <2>1 DEF Put
  <2>6. FilesInv'
    <3>1. \A a \in archives' :
            /\ DOMAIN a = {"name", "entries", "at"} /\ a.entries \subseteq 1..Len(written')
            /\ a.entries # {} => a.at \in a.entries /\ \A x \in a.entries : x <= a.at
            /\ Older(a.entries, log'.entries)
            /\ options'.files = 0 => a.entries = {}
      BY <1>1, <1>4, <2>5 DEF LogInv, FilesInv, Older
    <3>2. \A a, b \in archives' :
            a.entries = b.entries \/ Older(a.entries, b.entries) \/ Older(b.entries, a.entries)
      BY <2>5 DEF LogInv, FilesInv
    <3> QED
      BY <1>1, <2>4, <3>1, <3>2 DEF LogInv, FilesInv
  <2>7. \A u \in Threads : Rotating(u)'
    <3>1. archive'[t] = name
      BY <2>1 DEF LogInv, LockInv
    <3>2. \A a \in archives' : a.name = name => a = file
      BY <2>1 DEF Put, Named
    <3>3. file.entries # {} => file.at = Len(written')
      BY <1>1 DEF LogInv, FilesInv
    <3>4. Rotating(t)'
      BY <1>1, <1>4, <2>2, <3>1, <3>2, <3>3 DEF Rotating, Named
    <3> QED
      BY <2>2, <3>4 DEF Rotating, Unlocked
  <2>8. CountInv'
    <3>1. options.files \in Nat /\ logFaults \in Nat
      BY DEF LogInv, FilesInv, CountInv
    <3>2. Gone' # {} /\ replaced' = {} => Cardinality(archives') >= options.files
      BY <1>2, <2>3, <2>4, <3>1 DEF LogInv, CountInv
    <3>3. ~options.bare => Cardinality(archives') <= options.files + logFaults + 1
      BY <1>2, <1>4, <2>4, <3>1 DEF LogInv, CountInv
    <3> QED
      BY <1>1, <2>2, <3>1, <3>2, <3>3 DEF CountInv
  <2> QED
    BY <2>2, <2>3, <2>6, <2>7, <2>8 DEF LogInv
<1> QED
  BY <1>3, <1>4

(* Fewer archives are ordered as they were.                                *)
LEMMA FewerFiles ==
  ASSUME LogInv, archives' \subseteq archives, UNCHANGED <<options, written, log>>
  PROVE  FilesInv'
<1>1. IsFiniteSet(archives')
  BY FS_Subset DEF LogInv, FilesInv
<1> QED
  BY <1>1 DEF LogInv, FilesInv

(* Of two archives, the one with the older time holds older entries, or    *)
(* the same.                                                               *)
LEMMA TimeOrders ==
  ASSUME FilesInv, NEW a \in archives, NEW b \in archives, a.at <= b.at,
         NEW x \in a.entries, NEW y \in b.entries
  PROVE  a.entries = b.entries \/ x < y
<1>1. a.at \in a.entries /\ b.at \in b.entries /\ a.at \in Nat /\ b.at \in Nat
  BY DEF FilesInv
<1> QED
  BY <1>1 DEF FilesInv, Older

LEMMA CleanupStep ==
  ASSUME LogInv, NEW t \in Threads, Cleanup(t)
  PROVE  LogInv'
<1>1. PICK keep \in SUBSET archives :
        /\ Cardinality(keep) = IF Cardinality(archives) < options.files
                               THEN Cardinality(archives) ELSE options.files
        /\ OldestGo(keep, archives)
        /\ \/ archives' = keep /\ UNCHANGED <<resisted, logFaults>>
           \/ \E kept \in SUBSET (archives \ keep) :
                /\ LogFault /\ archives' = keep \cup kept
                /\ resisted' = resisted \cup kept
  BY DEF Cleanup
<1>2. /\ log.entries = {} /\ options.files # 0 /\ step[t] = "cleanup" /\ step[t] \in Locked
      /\ UNCHANGED <<options, log, written, replaced>> /\ ~options.bare
  BY DEF Cleanup, LogInv, Rotating, Locked
<1>3. PICK where \in {"append", "read"} : MoveTo(t, where)
  BY DEF Cleanup
<1>4. /\ LockInv' /\ ~Extra' /\ ~Uncleaned' /\ step'[t] = where
      /\ \A u \in Threads \ {t} : step'[u] \in Unlocked
  BY <1>2, <1>3, GoesOn DEF MoveTo, Locked, LogInv, LockInv
<1>5. archives' \subseteq archives /\ keep \subseteq archives'
  BY <1>1
<1>6. FilesInv'
  BY <1>2, <1>5, FewerFiles
<1>7. OldestLost'
  <2> SUFFICES ASSUME NEW lost \in Gone', NEW kept \in OnDisk',
                      kept \notin Within(resisted)'
               PROVE  lost < kept
    BY DEF OldestLost
  <2>1. /\ kept \in OnDisk /\ kept \notin Within(resisted)
        /\ \E b \in archives' : kept \in b.entries
    BY <1>1, <1>2, <1>5 DEF OnDisk, Within
  <2>2. CASE lost \in Gone
    BY <2>1, <2>2 DEF LogInv, OldestLost
  <2>3. CASE lost \notin Gone
    <3>1. PICK a \in archives : lost \in a.entries
      BY <1>2, <2>3 DEF Gone, OnDisk, Within
    <3>2. lost \notin OnDisk'
      BY DEF Gone
    <3>3. a \notin archives'
      BY <3>1, <3>2 DEF OnDisk, Within
    <3>4. PICK b \in archives' : kept \in b.entries
      BY <2>1
    <3>5. b \in keep
      BY <1>1, <3>4 DEF Within
    <3>6. a.at <= b.at
      BY <1>1, <1>5, <3>3, <3>5 DEF OldestGo
    <3>7. a.entries # b.entries
      BY <3>1, <3>2, <3>4 DEF OnDisk, Within
    <3> QED
      BY <1>5, <3>1, <3>4, <3>6, <3>7, TimeOrders DEF LogInv
  <2> QED
    BY <2>2, <2>3
<1>8. \A u \in Threads : Rotating(u)'
  <2>1. archive' = archive /\ \A name : Named(name)' \subseteq Named(name)
    BY <1>3, <1>5 DEF MoveTo, Named
  <2>2. Rotating(t)'
    BY <1>2, <1>4, <2>1 DEF Rotating, LogInv
  <2> QED
    BY <1>4, <2>2 DEF Rotating, Unlocked
<1>9. CountInv'
  <2>1. /\ IsFiniteSet(archives) /\ IsFiniteSet(archives') /\ options.files \in Nat
        /\ logFaults \in Nat
    BY <1>6 DEF LogInv, FilesInv, CountInv
  <2>2. /\ Cardinality(archives) \in Nat /\ Cardinality(archives') \in Nat
        /\ Cardinality(archives') <= Cardinality(archives)
        /\ Cardinality(keep) <= Cardinality(archives')
        /\ Cardinality(keep) = Cardinality(archives) => keep = archives
    BY <1>5, <2>1, FS_Subset, FS_CardinalityType
  <2>3. Gone' # {} /\ replaced' = {} => Cardinality(archives') >= options.files
    <3>1. CASE Cardinality(archives) < options.files
      <4>1. archives' = archives
        BY <1>1, <1>5, <2>2, <3>1
      <4>2. Gone' = Gone
        BY <1>2, <4>1 DEF Gone, OnDisk, Within
      <4> QED
        BY <1>2, <4>1, <4>2, <2>1, <2>2 DEF LogInv, CountInv
    <3>2. CASE ~(Cardinality(archives) < options.files)
      BY <1>1, <2>1, <2>2, <3>2
    <3> QED
      BY <3>1, <3>2
  <2>4. Uncleaned /\ ~Extra
    BY <1>2, OthersOut DEF LogInv
  <2>5. Cardinality(archives) <= options.files + logFaults + 1
    BY <1>2, <2>4 DEF LogInv, CountInv
  <2>6. CASE archives' = keep /\ UNCHANGED logFaults
    <3>1. Cardinality(archives') <= options.files
      BY <1>1, <2>1, <2>2, <2>6
    <3> QED
      BY <1>2, <1>4, <2>1, <2>2, <2>3, <2>6, <3>1 DEF CountInv
  <2>7. CASE LogFault
    BY <1>2, <1>4, <2>1, <2>2, <2>3, <2>5, <2>7 DEF CountInv, LogFault
  <2> QED
    BY <1>1, <2>6, <2>7
<1> QED
  BY <1>4, <1>6, <1>7, <1>8, <1>9 DEF LogInv

LEMMA CompressStep ==
  ASSUME LogInv, NEW t \in Threads, ReadArchive(t), options.packing # "unavailable",
         Named(archive[t]) # {}
  PROVE  LogInv'
<1> DEFINE name == Packed(archive[t])
           file == [name |-> name, entries |-> {}, at |-> Len(written)]
<1>1. /\ Put(file) /\ MoveTo(t, "pack") /\ step[t] = "read" /\ step[t] \in Locked
      /\ UNCHANGED <<options, log, written, resisted, logFaults>>
  BY DEF ReadArchive, Locked
<1>2. /\ LockInv' /\ Extra' /\ ~Uncleaned' /\ step'[t] = "pack"
      /\ \A u \in Threads \ {t} : step'[u] \in Unlocked
  BY <1>1, GoesOn DEF MoveTo, Locked, LogInv, LockInv
<1>3. /\ Gone' \subseteq Gone /\ OldestLost'
      /\ replaced' = {} => Named(name) = {} /\ replaced = {}
  BY <1>1, PutLoses
<1>4. /\ IsFiniteSet(archives') /\ \A a, b \in archives' : a.name = b.name => a = b
      /\ Cardinality(archives) \in Nat /\ Cardinality(archives') \in Nat
      /\ Named(name) = {} => Cardinality(archives') = Cardinality(archives) + 1
      /\ Named(name) # {} => Cardinality(archives') = Cardinality(archives)
  <2>1. FilesInv /\ file.name = name /\ archives' = (archives \ Named(file.name)) \cup {file}
    BY <1>1 DEF Put, LogInv
  <2> QED
    BY <2>1, PutFacts
<1>5. \A a \in archives' : a = file \/ a \in archives
  BY <1>1 DEF Put
<1>6. FilesInv'
  <2>1. \A a \in archives' :
          /\ DOMAIN a = {"name", "entries", "at"} /\ a.entries \subseteq 1..Len(written)
          /\ a.entries # {} => a.at \in a.entries /\ \A x \in a.entries : x <= a.at
          /\ Older(a.entries, log.entries)
          /\ options.files = 0 => a.entries = {}
    <3>1. /\ DOMAIN file = {"name", "entries", "at"} /\ file.entries = {}
          /\ \A c \in archives : DOMAIN c = {"name", "entries", "at"}
      BY DEF LogInv, FilesInv
    <3> QED
      BY <1>5, <3>1 DEF LogInv, FilesInv, Older
  <2>2. \A a, b \in archives' :
          a.entries = b.entries \/ Older(a.entries, b.entries) \/ Older(b.entries, a.entries)
    <3>1. \A a \in archives' : a.entries = {} \/ a \in archives
      BY <1>5
    <3> QED
      BY <3>1 DEF LogInv, FilesInv, Older
  <2> QED
    BY <1>1, <1>4, <2>1, <2>2 DEF LogInv, FilesInv
<1>7. \A u \in Threads : Rotating(u)'
  <2>1. PICK s : archive[t] = <<s, "plain">>
    BY <1>1 DEF LogInv, Rotating
  <2>2. archive[t] # name
    BY <2>1 DEF Packed
  <2>3. archive' = archive
    BY <1>1 DEF MoveTo
  <2>4. Named(archive[t])' = Named(archive[t])
    BY <1>1, <2>2, <2>3 DEF Named, Put
  <2>5. Named(name)' = {file}
    BY <1>1, <2>3 DEF Named, Put, Packed
  <2>6. log'.entries = {} /\ options'.files # 0
    BY <1>1 DEF LogInv, Rotating
  <2>7. \A a \in Named(archive[t]) : a.entries # {} => a.at = Len(written)
    BY <1>1 DEF LogInv, Rotating
  <2>8. Rotating(t)'
    BY <1>1, <1>2, <2>1, <2>3, <2>4, <2>5, <2>6, <2>7 DEF Rotating
  <2> QED
    BY <1>2, <2>8 DEF Rotating, Unlocked
<1>8. CountInv'
  <2>1. options.files \in Nat /\ logFaults \in Nat /\ ~Extra /\ ~Uncleaned
    BY <1>1, OthersOut DEF LogInv, FilesInv, CountInv
  <2>2. Gone' # {} /\ replaced' = {} => Cardinality(archives') >= options.files + 1
    BY <1>3, <1>4, <2>1 DEF LogInv, CountInv
  <2>3. ~options.bare /\ options.files # 0 =>
          Cardinality(archives') <= options.files + logFaults + 1
    BY <1>4, <2>1 DEF LogInv, CountInv
  <2> QED
    BY <1>1, <1>2, <2>1, <2>2, <2>3 DEF CountInv
<1> QED
  BY <1>2, <1>3, <1>6, <1>7, <1>8 DEF LogInv

LEMMA PackStep ==
  ASSUME LogInv, NEW t \in Threads, Pack(t)
  PROVE  LogInv'
<1> DEFINE name == Packed(archive[t])
           source == Source(t)
           file == [source EXCEPT !.name = name, !.at = Len(written)]
<1>1. /\ archives' = (archives \ Named(name)) \cup {file}
      /\ MoveTo(t, "remove") /\ step[t] = "pack" /\ step[t] \in Locked
      /\ UNCHANGED <<options, log, written, replaced, resisted, logFaults>>
  BY DEF Pack, Locked
<1>2. /\ log.entries = {} /\ options.files # 0 /\ Named(archive[t]) # {} /\ Named(name) # {}
      /\ \A a \in Named(archive[t]) : a.entries # {} => a.at = Len(written)
      /\ \A b \in Named(name) : b.entries = {}
      /\ archive[t] # name
  BY <1>1 DEF LogInv, Rotating, Packed
<1>3. /\ LockInv' /\ Extra' /\ ~Uncleaned' /\ step'[t] = "remove"
      /\ \A u \in Threads \ {t} : step'[u] \in Unlocked
  BY <1>1, GoesOn DEF MoveTo, Locked, LogInv, LockInv
<1>4. source \in archives /\ source.name = archive[t]
  BY <1>2 DEF Source, Named
<1>5. /\ file.name = name /\ file.entries = source.entries /\ file.at = Len(written)
      /\ DOMAIN file = {"name", "entries", "at"}
  BY <1>4 DEF LogInv, FilesInv
<1>6. /\ IsFiniteSet(archives') /\ Cardinality(archives') = Cardinality(archives)
      /\ \A a, b \in archives' : a.name = b.name => a = b
  <2>1. FilesInv /\ archives' = (archives \ Named(file.name)) \cup {file}
    BY <1>1, <1>5 DEF LogInv
  <2>2. Named(file.name) # {}
    BY <1>2, <1>5
  <2> QED
    BY <2>1, <2>2, PutFacts
<1>7. \A a \in archives' : a = file \/ a \in archives
  BY <1>1
<1>8. source \in archives' /\ file \in archives'
  BY <1>1, <1>2, <1>4 DEF Named
<1>9. FilesInv'
  <2>1. file.entries # {} => file.at \in file.entries /\ \A x \in file.entries : x <= file.at
    BY <1>2, <1>4, <1>5 DEF LogInv, FilesInv, Named
  <2>2. \A a \in archives' :
          /\ DOMAIN a = {"name", "entries", "at"} /\ a.entries \subseteq 1..Len(written)
          /\ a.entries # {} => a.at \in a.entries /\ \A x \in a.entries : x <= a.at
          /\ Older(a.entries, log.entries)
          /\ options.files = 0 => a.entries = {}
    BY <1>2, <1>4, <1>5, <1>7, <2>1 DEF LogInv, FilesInv, Older
  <2>3. \A a, b \in archives' :
          a.entries = b.entries \/ Older(a.entries, b.entries) \/ Older(b.entries, a.entries)
    <3>1. \A a \in archives' : \E c \in archives : c.entries = a.entries
      BY <1>4, <1>5, <1>7
    <3> QED
      BY <3>1 DEF LogInv, FilesInv
  <2> QED
    BY <1>1, <1>6, <2>2, <2>3 DEF LogInv, FilesInv
<1>10. Gone' = Gone /\ OldestLost'
  <2>1. \A a \in archives' : \E c \in archives : c.entries = a.entries
    BY <1>4, <1>5, <1>7
  <2>2. \A a \in archives : a.entries # {} => a \in archives'
    BY <1>1, <1>2
  <2>3. OnDisk' = OnDisk
    BY <1>1, <2>1, <2>2 DEF OnDisk, Within
  <2>4. Gone' = Gone
    BY <1>1, <2>3 DEF Gone, Within
  <2> QED
    BY <1>1, <2>3, <2>4, NothingLost
<1>11. \A u \in Threads : Rotating(u)'
  <2>1. archive' = archive
    BY <1>1 DEF MoveTo
  <2>2. source \in Named(archive[t])' /\ file \in Named(Packed(archive[t]))'
    BY <1>4, <1>5, <1>8, <2>1 DEF Named, Packed
  <2>3. \E a \in Named(archive[t])', b \in Named(Packed(archive[t]))' : b.entries = a.entries
    BY <1>5, <2>2
  <2>4. \E s : archive[t] = <<s, "plain">>
    BY <1>1 DEF LogInv, Rotating
  <2>5. Rotating(t)'
    BY <1>1, <1>2, <1>3, <2>1, <2>3, <2>4 DEF Rotating
  <2> QED
    BY <1>3, <2>5 DEF Rotating, Unlocked
<1>12. CountInv'
  <2>1. Extra /\ ~Uncleaned
    BY <1>1, OthersOut DEF LogInv
  <2> QED
    BY <1>1, <1>3, <1>6, <1>10, <2>1 DEF LogInv, CountInv
<1> QED
  BY <1>3, <1>9, <1>10, <1>11, <1>12 DEF LogInv

LEMMA RemoveStep ==
  ASSUME LogInv, NEW t \in Threads, RemoveArchive(t)
  PROVE  LogInv'
<1>1. /\ archives' = archives \ Named(archive[t])
      /\ MoveTo(t, "append") /\ step[t] = "remove" /\ step[t] \in Locked
      /\ UNCHANGED <<options, log, written, replaced, resisted, logFaults>>
  BY DEF RemoveArchive, Locked
<1>2. PICK a \in Named(archive[t]), b \in Named(Packed(archive[t])) : b.entries = a.entries
  BY <1>1 DEF LogInv, Rotating
<1>3. b \in archives' /\ a \in archives
  <2>1. Packed(archive[t]) # archive[t]
    BY <1>1 DEF LogInv, Rotating, Packed
  <2> QED
    BY <1>1, <1>2, <2>1 DEF Named
<1>4. /\ LockInv' /\ ~Extra' /\ ~Uncleaned' /\ step'[t] = "append"
      /\ \A u \in Threads \ {t} : step'[u] \in Unlocked
  BY <1>1, GoesOn DEF MoveTo, Locked, LogInv, LockInv
<1>5. FilesInv'
  BY <1>1, FewerFiles
<1>6. \A c \in archives : c.entries \subseteq Within(archives)'
  <2>1. \A c \in archives : c \in archives' \/ c = a
    BY <1>1, <1>2 DEF Named, LogInv, FilesInv
  <2> QED
    BY <1>2, <1>3, <2>1 DEF Within
<1>7. OnDisk' = OnDisk
  BY <1>1, <1>6 DEF OnDisk, Within
<1>8. Gone' = Gone /\ OldestLost'
  <2>1. Gone' = Gone
    BY <1>1, <1>7 DEF Gone, Within
  <2> QED
    BY <1>1, <1>7, <2>1, NothingLost
<1>9. \A u \in Threads : Rotating(u)'
  BY <1>4 DEF Rotating, Unlocked
<1>10. CountInv'
  <2>1. Extra /\ ~Uncleaned
    BY <1>1, OthersOut DEF LogInv
  <2>2. /\ Cardinality(archives') = Cardinality(archives) - 1
        /\ Cardinality(archives) \in Nat /\ Cardinality(archives') \in Nat
    BY <1>1, <1>2, DropFacts DEF LogInv
  <2>3. options.files \in Nat /\ logFaults \in Nat
    BY DEF LogInv, FilesInv, CountInv
  <2> QED
    BY <1>1, <1>4, <1>8, <2>1, <2>2, <2>3 DEF LogInv, CountInv
<1> QED
  BY <1>4, <1>5, <1>8, <1>9, <1>10 DEF LogInv

LEMMA AppendStep ==
  ASSUME LogInv, NEW t \in Threads, AppendEntry(t)
  PROVE  LogInv'
<1> DEFINE entry == Len(written) + 1
<1>1. /\ written' = Append(written, entry) /\ log'.entries = log.entries \cup {entry}
      /\ log'.at = entry /\ DOMAIN log' = {"there", "entries", "at", "second"}
      /\ Done(t, left[t] - 1) /\ step[t] = "append" /\ step[t] \in Locked
      /\ UNCHANGED <<options, archives, replaced, resisted, logFaults>>
  BY DEF AppendEntry, Locked
<1>2. /\ LockInv' /\ ~Extra' /\ ~Uncleaned' /\ \A u \in Threads : step'[u] \in Unlocked
  BY <1>1, Returns
<1>3. /\ written' \in Seq(Nat) /\ Len(written') = entry /\ Len(written) \in Nat
      /\ \A i \in 1..Len(written') : written'[i] = i
  BY <1>1 DEF LogInv, FilesInv
<1>4. FilesInv'
  <2>1. \A a \in archives : Older(a.entries, log'.entries)
    BY <1>1, <1>3 DEF LogInv, FilesInv, Older
  <2>2. \A a \in archives : a.entries \subseteq 1..Len(written')
    BY <1>3 DEF LogInv, FilesInv
  <2>3. log'.entries \subseteq 1..Len(written') /\ log'.at \in log'.entries
    BY <1>1, <1>3 DEF LogInv, FilesInv
  <2>4. log'.at = Len(written')
    BY <1>1, <1>3
  <2> QED
    BY <1>1, <1>3, <2>1, <2>2, <2>3, <2>4 DEF LogInv, FilesInv
<1>5. Gone' = Gone
  <2>1. ToSet(written') = 1..Len(written') /\ ToSet(written) = 1..Len(written)
    BY <1>3, WrittenSet DEF LogInv, FilesInv, ToSet
  <2>2. ToSet(written') = ToSet(written) \cup {entry}
    BY <1>3, <2>1
  <2>3. OnDisk' = OnDisk \cup {entry}
    BY <1>1 DEF OnDisk, Within
  <2>4. entry \notin ToSet(written)
    BY <1>3, <2>1
  <2> QED
    BY <1>1, <2>2, <2>3, <2>4 DEF Gone, Within
<1>6. OldestLost'
  <2>1. OnDisk' = OnDisk \cup {entry} /\ Within(resisted)' = Within(resisted)
    BY <1>1 DEF OnDisk, Within
  <2>2. \A lost \in Gone : lost < entry
    BY <1>3, WrittenSet DEF LogInv, FilesInv, Gone
  <2> QED
    BY <1>5, <2>1, <2>2 DEF LogInv, OldestLost
<1>7. \A u \in Threads : Rotating(u)'
  BY <1>2 DEF Rotating, Unlocked
<1>8. CountInv'
  <2>1. ~Extra /\ ~Uncleaned
    BY <1>1, OthersOut DEF LogInv
  <2> QED
    BY <1>1, <1>2, <1>5, <2>1 DEF LogInv, CountInv
<1> QED
  BY <1>2, <1>4, <1>6, <1>7, <1>8 DEF LogInv

-----------------------------------------------------------------------------
(* The log: the theorem                                                    *)

LEMMA InitLogInv ==
  ASSUME LogInit, Nobody \notin Threads, \A o \in LogPolicies : o.files \in Nat
  PROVE  LogInv
<1>1. /\ options.files \in Nat /\ log.entries = {} /\ written = <<>> /\ replaced = {}
      /\ DOMAIN log = {"there", "entries", "at", "second"} /\ logFaults = 0
      /\ \A t \in Threads : step[t] = "idle"
  BY DEF LogInit, NoLog
<1>2. /\ IsFiniteSet(archives) /\ Cardinality(archives) \in {0, 1}
      /\ \A a \in archives : a.entries = {} /\ DOMAIN a = {"name", "entries", "at"}
      /\ \A a, b \in archives : a = b
  <2>1. archives = {} \/ \E made : archives = {Foreign(made)}
    BY DEF LogInit
  <2>2. IsFiniteSet(archives) /\ Cardinality(archives) \in {0, 1}
    BY <2>1, FS_EmptySet, FS_Singleton
  <2>3. \A made : Foreign(made).entries = {} /\ DOMAIN Foreign(made) = {"name", "entries", "at"}
    BY DEF Foreign
  <2>4. CASE archives = {}
    BY <2>2, <2>4
  <2>5. CASE \E made : archives = {Foreign(made)}
    <3>1. PICK made : archives = {Foreign(made)}
      BY <2>5
    <3> QED
      BY <2>2, <2>3, <3>1
  <2> QED
    BY <2>1, <2>4, <2>5
<1>3. LockInv
  BY DEF LogInit, LockInv, Locked, Unlocked
<1>4. FilesInv
  BY <1>1, <1>2 DEF FilesInv, Older
<1>5. Gone = {} /\ OldestLost
  BY <1>1 DEF Gone, ToSet, OldestLost
<1>6. ~Extra /\ ~Uncleaned /\ \A t \in Threads : Rotating(t)
  BY <1>1 DEF Extra, Uncleaned, Rotating
<1>7. CountInv
  BY <1>1, <1>2, <1>5, <1>6 DEF CountInv
<1> QED
  BY <1>3, <1>4, <1>5, <1>6, <1>7 DEF LogInv

LEMMA NextLogInv ==
  ASSUME LogInv, [LogNext]_logVars
  PROVE  LogInv'
<1>1. ASSUME NEW t \in Threads, Emission(t)
      PROVE  LogInv'
  <2>1. CASE (\E n \in 1..MaxEmits : EmitReport(t, n)) \/ Lock(t) \/ CheckRotation(t)
    BY <2>1, CalmSteps
  <2>2. CASE Show(t)
    BY <2>2, CalmSteps, ReturningSteps
  <2>3. CASE Rotate(t)
    BY <2>3, RotateStep
  <2>4. CASE Cleanup(t)
    BY <2>4, CleanupStep
  <2>5. CASE CleanupFails(t) \/ FailWrite(t)
    BY <2>5, ReturningSteps
  <2>6. CASE ReadArchive(t)
    BY <2>6, ReturningSteps, CompressStep
  <2>7. CASE Pack(t)
    BY <2>7, PackStep
  <2>8. CASE RemoveArchive(t)
    BY <2>8, RemoveStep
  <2>9. CASE AppendEntry(t)
    BY <2>9, AppendStep
  <2> QED
    BY <1>1, <2>1, <2>2, <2>3, <2>4, <2>5, <2>6, <2>7, <2>8, <2>9 DEF Emission
<1>2. CASE DieWriting
  BY <1>2, DieStep
<1>3. CASE Tick \/ UNCHANGED logVars
  <2>1. SameFiles /\ UNCHANGED logFaults /\ step' = step /\ archive' = archive
    BY <1>3 DEF Tick, logVars, SameFiles
  <2>2. LockInv'
    BY <1>3 DEF Tick, logVars, LogInv, LockInv
  <2> QED
    BY <2>1, <2>2, CalmStep
<1> QED
  BY <1>1, <1>2, <1>3 DEF LogNext

(* A log loses its oldest entries only, none while another archive may be  *)
(* kept, and archives do not pile up, whatever fails in rotation, clean-up *)
(* and compression and whenever the process dies (Reporter::write,         *)
(* RotationState::cleanup).                                                *)
THEOREM OldestAreLost ==
  ASSUME Nobody \notin Threads, \A o \in LogPolicies : o.files \in Nat
  PROVE  LogSpec => []RetentionHolds
<1>1. LogInit => LogInv
  BY InitLogInv
<1>2. LogInv /\ [LogNext]_logVars => LogInv'
  BY NextLogInv
<1>3. LogInv => RetentionHolds
  <2> SUFFICES ASSUME LogInv
               PROVE  RetentionHolds
    OBVIOUS
  <2>1. options.files \in Nat /\ Cardinality(archives) \in Nat
    BY FS_CardinalityType DEF LogInv, FilesInv
  <2>2. holder = Nobody => ~Extra /\ ~Uncleaned
    BY NoneIn DEF LogInv
  <2> QED
    BY <2>1, <2>2 DEF LogInv, OldestLost, CountInv, RetentionHolds
<1> QED
  BY <1>1, <1>2, <1>3, PTL DEF LogSpec

-----------------------------------------------------------------------------
(* Scans: the inductive invariant                                          *)

Inputs == [files : Contents \cup {Nothing}, tools : Contents \cup {Nothing}]
Runs == [by : Scans \cup {Other}, report : Inputs \cup {Nothing}]

TypesInv ==
  /\ head \in Contents /\ work \in Contents
  /\ history \in Seq(Runs) /\ Len(history) <= MaxHistory
  /\ recorded \in [Scans -> Seq(Runs)]
  /\ seen \in [Scans -> Inputs]
  /\ done \in [Scans -> SUBSET DOMAIN Place]
  /\ status \in [Scans -> {"idle", "running", "0", "1", "2"}]
  /\ DOMAIN provenance = MaxRun
  /\ DOMAIN asked = Scans /\ DOMAIN snapshot = Scans /\ DOMAIN capsules = Scans

(* A scan that runs, or ran to its end, has arguments that go together.    *)
Begun(p) ==
  /\ status[p] = "idle" => done[p] = {}
  /\ status[p] = "running" => asked[p].stop = "no"
  /\ status[p] \in {"running", "0", "1"} /\ asked[p].stop = "no" =>
       (asked[p].git => asked[p].history)

(* Steps are done in their order and none that is wanted is left out; all  *)
(* are done where the status is that of a report.                          *)
Ordered(p) ==
  /\ \A x \in done[p], y \in DOMAIN Place :
       Wanted(asked[p], y) /\ Place[y] < Place[x] => y \in done[p]
  /\ status[p] \in {"0", "1"} /\ asked[p].stop = "no" =>
       \A y \in DOMAIN Place \ {"exit"} : Wanted(asked[p], y) => y \in done[p]

(* The run that a scan recorded is in the history, as the scan knows it.   *)
HasRun(p) ==
  /\ recorded[p] # <<>>
  /\ IsPrefix(recorded[p], history)
  /\ Last(recorded[p]) = [by |-> p, report |-> seen[p]]

Bound(p) ==
  provenance[Len(recorded[p])] =
    [binding |-> "captured", run |-> recorded[p], commit |-> snapshot[p]]

(* What a capsule names is there.                                          *)
Sound(capsule) ==
  /\ capsule.history \in Seq(Runs)
  /\ capsule.provenance # NoRecord => capsule.history # <<>>
  /\ Anchored(capsule)

(* What each step leaves stays what it was.                                *)
Left(p) ==
  /\ "output" \in done[p] => p \in outputs
  /\ IF "record" \in done[p] THEN HasRun(p) ELSE recorded[p] = <<>>
  /\ "bind" \in done[p] => "record" \in done[p] /\ Bound(p)
  /\ "capsule" \in done[p] => capsules[p] # NoCapsule
  /\ capsules[p] # NoCapsule => Sound(capsules[p])

ScanInv == TypesInv /\ \A p \in Scans : Begun(p) /\ Ordered(p) /\ Left(p)

-----------------------------------------------------------------------------
(* Scans: what steps keep                                                  *)

LEMMA Places ==
  /\ DOMAIN Place = {"discover", "clean", "resolve", "tools", "output", "reclean", "verify",
                     "record", "bind", "capsule", "exit"}
  /\ Place["discover"] = 1 /\ Place["clean"] = 2 /\ Place["resolve"] = 3 /\ Place["tools"] = 4
  /\ Place["output"] = 5 /\ Place["reclean"] = 6 /\ Place["verify"] = 7 /\ Place["record"] = 8
  /\ Place["bind"] = 9 /\ Place["capsule"] = 10 /\ Place["exit"] = 11
  /\ \A x \in DOMAIN Place : Place[x] \in 1..11 /\ (x # "exit" => Place[x] < 11)
BY DEF Place

(* What comes before the step a scan is at is done, if it is wanted; what  *)
(* comes after it is not.                                                  *)
LEMMA Before ==
  ASSUME TypesInv, NEW p \in Scans, Ordered(p), NEW what \in DOMAIN Place, At(p, what)
  PROVE  /\ \A y \in DOMAIN Place :
              Wanted(asked[p], y) /\ Place[y] < Place[what] => y \in done[p]
         /\ \A x \in done[p] : ~(Place[what] < Place[x])
<1>1. \A y \in DOMAIN Place \ done[p] : Wanted(asked[p], y) => Place[what] <= Place[y]
  BY DEF At
<1>2. \A y \in DOMAIN Place : Place[y] \in Nat
  BY Places
<1>3. ASSUME NEW x \in done[p], Place[what] < Place[x]
      PROVE  FALSE
  BY <1>3 DEF At, Ordered
<1> QED
  BY <1>1, <1>2, <1>3

(* A history that grows keeps its prefixes.                                *)
Grows == history' = history \/ \E run \in Runs : history' = Append(history, run)

(* A record of provenance stays.                                           *)
Stays == \A n \in MaxRun : provenance[n] # NoRecord => provenance'[n] = provenance[n]

LEMMA PrefixesStay ==
  ASSUME TypesInv, Grows
  PROVE  /\ history' \in Seq(Runs)
         /\ \A s \in Seq(Runs) : IsPrefix(s, history) => IsPrefix(s, history')
<1>1. CASE history' = history
  BY <1>1 DEF TypesInv
<1>2. ASSUME NEW run \in Runs, history' = Append(history, run)
      PROVE  history' \in Seq(Runs) /\ IsPrefix(history, history')
  <2>1. /\ history' \in Seq(Runs) /\ Len(history') = Len(history) + 1
        /\ \A i \in 1..Len(history) : history'[i] = history[i]
    BY <1>2 DEF TypesInv
  <2>2. history \in Seq(Runs) /\ Len(history) \in Nat
    BY DEF TypesInv
  <2>3. IsPrefix(history, history')
          <=> Len(history) <= Len(history') /\ \A i \in 1..Len(history) : history[i] = history'[i]
    BY <2>1, <2>2, PrefixPointwise
  <2> QED
    BY <2>1, <2>2, <2>3
<1> QED
  BY <1>1, <1>2, PrefixOrder DEF Grows, TypesInv

LEMMA AnchorsStay ==
  ASSUME TypesInv, Grows, Stays, MaxHistory \in Nat,
         NEW capsule, Sound(capsule)
  PROVE  Sound(capsule)'
<1>1. IsPrefix(capsule.history, history')
  BY PrefixesStay DEF Anchored, Sound
<1>2. CASE capsule.provenance # NoRecord
  <2>1. provenance[Len(capsule.history)] = capsule.provenance
    BY <1>2 DEF Anchored, Sound
  <2>2. Len(capsule.history) \in MaxRun
    <3>1. Len(capsule.history) \in Nat /\ Len(capsule.history) # 0
      BY <1>2, EmptySeq, LenProperties DEF Sound
    <3>2. Len(capsule.history) <= Len(history) /\ Len(history) \in Nat
      BY PrefixOrder DEF Sound, Anchored, TypesInv
    <3> QED
      BY <3>1, <3>2 DEF TypesInv, MaxRun
  <2> QED
    BY <1>1, <1>2, <2>1, <2>2 DEF Anchored, Stays, Sound
<1>3. CASE capsule.provenance = NoRecord
  BY <1>1, <1>3 DEF Anchored, Sound
<1> QED
  BY <1>2, <1>3

(* A run that is recorded is one of the history, with its place.           *)
LEMMA RunIsThere ==
  ASSUME TypesInv, MaxHistory \in Nat, NEW p \in Scans, HasRun(p)
  PROVE  /\ recorded[p] \in Seq(Runs)
         /\ Len(recorded[p]) \in 1..Len(history)
         /\ Len(recorded[p]) \in MaxRun
<1>1. recorded[p] \in Seq(Runs) /\ history \in Seq(Runs)
  BY DEF TypesInv
<1>2. Len(recorded[p]) \in Nat /\ Len(recorded[p]) # 0
  BY <1>1, EmptySeq, LenProperties DEF HasRun
<1>3. Len(recorded[p]) <= Len(history) /\ Len(history) \in Nat
  BY <1>1, PrefixOrder DEF HasRun
<1> QED
  BY <1>1, <1>2, <1>3 DEF TypesInv, MaxRun

(* A step that does nothing about what a scan left.                        *)
Untouched(p) ==
  /\ recorded'[p] = recorded[p] /\ capsules'[p] = capsules[p] /\ outputs \subseteq outputs'
  /\ \A x \in {"output", "record", "bind", "capsule"} : x \in done'[p] <=> x \in done[p]
  /\ "record" \in done[p] => seen'[p] = seen[p]
  /\ "bind" \in done[p] => snapshot'[p] = snapshot[p]

LEMMA LeftStays ==
  ASSUME TypesInv, Grows, Stays, MaxHistory \in Nat,
         NEW p \in Scans, Left(p), Untouched(p)
  PROVE  Left(p)'
<1>1. "output" \in done'[p] => p \in outputs'
  BY DEF Left, Untouched
<1>2. IF "record" \in done'[p] THEN HasRun(p)' ELSE recorded'[p] = <<>>
  <2>1. CASE "record" \in done[p]
    <3>1. HasRun(p) /\ recorded[p] \in Seq(Runs)
      BY <2>1 DEF Left, TypesInv
    <3>2. IsPrefix(recorded[p], history')
      BY <3>1, PrefixesStay DEF HasRun
    <3> QED
      BY <2>1, <3>1, <3>2 DEF HasRun, Untouched
  <2>2. CASE "record" \notin done[p]
    BY <2>2 DEF Left, Untouched
  <2> QED
    BY <2>1, <2>2
<1>3. "bind" \in done'[p] => "record" \in done'[p] /\ Bound(p)'
  <2> SUFFICES ASSUME "bind" \in done[p]
               PROVE  "record" \in done'[p] /\ Bound(p)'
    BY DEF Untouched
  <2>1. "record" \in done[p] /\ HasRun(p) /\ Bound(p)
    BY DEF Left
  <2>2. Len(recorded[p]) \in MaxRun
    BY <2>1, RunIsThere
  <2>3. provenance[Len(recorded[p])] # NoRecord
    BY <2>1 DEF Bound, NoRecord
  <2> QED
    BY <2>1, <2>2, <2>3 DEF Bound, Untouched, Stays
<1>4. "capsule" \in done'[p] => capsules'[p] # NoCapsule
  BY DEF Left, Untouched
<1>5. capsules'[p] # NoCapsule => Sound(capsules[p])'
  <2> SUFFICES ASSUME capsules[p] # NoCapsule
               PROVE  Sound(capsules[p])'
    BY DEF Untouched
  <2> DEFINE capsule == capsules[p]
  <2>1. Sound(capsule)
    BY DEF Left
  <2>2. PICK c : c = capsule
    OBVIOUS
  <2>3. Sound(c)
    BY <2>1, <2>2
  <2>4. Sound(c)'
    BY <2>3, AnchorsStay
  <2> QED
    BY <2>2, <2>4 DEF Untouched, Sound, Anchored
<1> QED
  BY <1>1, <1>2, <1>3, <1>4, <1>5 DEF Left

-----------------------------------------------------------------------------
(* Scans: every step                                                       *)

(* Another scan's step, or what others do, is none of this scan's.         *)
Apart(p) ==
  /\ asked'[p] = asked[p] /\ done'[p] = done[p] /\ status'[p] = status[p]
  /\ seen'[p] = seen[p] /\ snapshot'[p] = snapshot[p] /\ recorded'[p] = recorded[p]
  /\ capsules'[p] = capsules[p] /\ outputs \subseteq outputs'

Own(p) == Begun(p) /\ Ordered(p) /\ Left(p)

LEMMA ApartStays ==
  ASSUME TypesInv, Grows, Stays, MaxHistory \in Nat, NEW p \in Scans, Own(p), Apart(p)
  PROVE  Own(p)'
<1>1. Untouched(p)
  BY DEF Apart, Untouched
<1>2. Left(p)'
  BY <1>1, LeftStays DEF Own
<1>3. Begun(p)'
  BY DEF Own, Begun, Apart
<1>4. Ordered(p)'
  BY DEF Own, Ordered, Apart, Place
<1> QED
  BY <1>2, <1>3, <1>4 DEF Own

(* A step moves its own scan, to a step or to a status.                    *)
Goes(p) ==
  \/ \E what \in DOMAIN Place : Passed(p, what)
  \/ \E code \in {"0", "1", "2"} : Exit(p, code)

LEMMA GoesTypes ==
  ASSUME TypesInv, NEW p \in Scans, Goes(p)
  PROVE  /\ done' \in [Scans -> SUBSET DOMAIN Place]
         /\ status' \in [Scans -> {"idle", "running", "0", "1", "2"}]
<1>1. ASSUME NEW what \in DOMAIN Place, Passed(p, what)
      PROVE  /\ done' \in [Scans -> SUBSET DOMAIN Place]
             /\ status' \in [Scans -> {"idle", "running", "0", "1", "2"}]
  BY <1>1 DEF Passed, TypesInv
<1>2. ASSUME NEW code \in {"0", "1", "2"}, Exit(p, code)
      PROVE  /\ done' \in [Scans -> SUBSET DOMAIN Place]
             /\ status' \in [Scans -> {"idle", "running", "0", "1", "2"}]
  BY <1>2 DEF Exit, TypesInv
<1> QED
  BY <1>1, <1>2 DEF Goes

(* Every variable keeps its type.                                          *)
LEMMA TypesStep ==
  ASSUME TypesInv, ScanNext, MaxHistory \in Nat
  PROVE  TypesInv' /\ Grows
<1> USE DEF TypesInv, project, Grows
<1>1. ASSUME NEW p \in Scans, NEW args \in Arguments, BeginScan(p, args)
      PROVE  TypesInv' /\ Grows
  BY <1>1 DEF BeginScan
<1>2. ASSUME NEW p \in Scans, Discover(p)
      PROVE  TypesInv' /\ Grows
  <2>1. Goes(p)
    BY <1>2, Places DEF Discover, Goes
  <2> QED
    BY <1>2, <2>1, GoesTypes DEF Discover, Inputs
<1>3. ASSUME NEW p \in Scans, CaptureSnapshot(p)
      PROVE  TypesInv' /\ Grows
  <2>1. Goes(p)
    BY <1>3, Places DEF CaptureSnapshot, Goes
  <2> QED
    BY <1>3, <2>1, GoesTypes DEF CaptureSnapshot
<1>4. ASSUME NEW p \in Scans, CollectEvidence(p)
      PROVE  TypesInv' /\ Grows
  <2>1. Goes(p)
    BY <1>4, Places DEF CollectEvidence, Goes
  <2> QED
    BY <1>4, <2>1, GoesTypes DEF CollectEvidence, Inputs
<1>5. ASSUME NEW p \in Scans, WriteOutput(p)
      PROVE  TypesInv' /\ Grows
  <2>1. Goes(p)
    BY <1>5, Places DEF WriteOutput, Goes
  <2> QED
    BY <1>5, <2>1, GoesTypes DEF WriteOutput
<1>6. ASSUME NEW p \in Scans, VerifySnapshot(p)
      PROVE  TypesInv' /\ Grows
  <2>1. Goes(p)
    BY <1>6, Places DEF VerifySnapshot, Goes
  <2> QED
    BY <1>6, <2>1, GoesTypes DEF VerifySnapshot
<1>7. ASSUME NEW p \in Scans, RecordHistory(p)
      PROVE  TypesInv' /\ Grows
  <2> DEFINE run == [by |-> p, report |-> ScanReport(p)]
  <2>1. run \in Runs
    BY DEF Runs, ScanReport
  <2>2. history' \in Seq(Runs) /\ Len(history') = Len(history) + 1
    BY <1>7, <2>1 DEF RecordHistory
  <2>3. Len(history') <= MaxHistory
    BY <1>7, <2>2, LenProperties DEF RecordHistory
  <2>4. recorded' \in [Scans -> Seq(Runs)]
    BY <1>7, <2>2 DEF RecordHistory
  <2>5. Goes(p)
    BY <1>7, Places DEF RecordHistory, Goes
  <2> QED
    BY <1>7, <2>1, <2>2, <2>3, <2>4, <2>5, GoesTypes DEF RecordHistory
<1>8. ASSUME NEW p \in Scans, BindProvenance(p)
      PROVE  TypesInv' /\ Grows
  <2>1. Goes(p)
    BY <1>8, Places DEF BindProvenance, PassedOrFailed, Goes
  <2> QED
    BY <1>8, <2>1, GoesTypes DEF BindProvenance
<1>9. ASSUME NEW p \in Scans, WriteCapsule(p)
      PROVE  TypesInv' /\ Grows
  <2>1. Goes(p)
    BY <1>9, Places DEF WriteCapsule, PassedOrFailed, Goes
  <2> QED
    BY <1>9, <2>1, GoesTypes DEF WriteCapsule
<1>10. ASSUME NEW p \in Scans, ExitWithReport(p)
       PROVE  TypesInv' /\ Grows
  <2>1. Goes(p)
    BY <1>10 DEF ExitWithReport, Goes
  <2> QED
    BY <1>10, <2>1, GoesTypes DEF ExitWithReport
<1>11. ASSUME NEW p \in Scans, FailScan(p)
       PROVE  TypesInv' /\ Grows
  <2>1. Goes(p)
    BY <1>11 DEF FailScan, Goes
  <2> QED
    BY <1>11, <2>1, GoesTypes DEF FailScan
<1>12. CASE ChangeProject
  BY <1>12 DEF ChangeProject
<1>13. CASE AppendElsewhere
  <2> DEFINE run == [by |-> Other, report |-> Nothing]
  <2>1. run \in Runs
    BY DEF Runs
  <2>2. history' \in Seq(Runs) /\ Len(history') = Len(history) + 1
    BY <1>13, <2>1 DEF AppendElsewhere
  <2>3. Len(history') <= MaxHistory
    BY <1>13, <2>2, LenProperties DEF AppendElsewhere
  <2> QED
    BY <1>13, <2>1, <2>2, <2>3 DEF AppendElsewhere
<1>14. CASE HistoryGitBind
  BY <1>14 DEF HistoryGitBind
<1>15. ASSUME NEW p \in Scans, CheckClean(p)
       PROVE  TypesInv' /\ Grows
  <2>1. Goes(p)
    BY <1>15, Places DEF CheckClean, Goes
  <2> QED
    BY <1>15, <2>1, GoesTypes DEF CheckClean
<1> QED
  BY <1>1, <1>2, <1>3, <1>4, <1>5, <1>6, <1>7, <1>8, <1>9, <1>10, <1>11, <1>12, <1>13, <1>14,
     <1>15
  DEF ScanNext, ScanStep

(* Only the run without a record gets one (git_provenance.rs, persist).    *)
LEMMA StaysStep ==
  ASSUME TypesInv, ScanNext
  PROVE  Stays
<1>1. CASE UNCHANGED provenance
  BY <1>1 DEF Stays
<1>2. ASSUME NEW p \in Scans, BindProvenance(p)
      PROVE  Stays
  <2> DEFINE n == RecordedRun(p)
             record == [binding |-> "captured", run |-> RunDigest(n), commit |-> snapshot[p]]
  <2>1. CASE provenance[n] \in {NoRecord, record}
    <3>1. provenance' = [provenance EXCEPT ![n] = record]
      BY <1>2, <2>1 DEF BindProvenance
    <3> QED
      BY <2>1, <3>1 DEF Stays, TypesInv
  <2>2. CASE provenance[n] \notin {NoRecord, record}
    BY <1>1, <1>2, <2>2 DEF BindProvenance
  <2> QED
    BY <2>1, <2>2
<1>3. CASE HistoryGitBind
  BY <1>3 DEF HistoryGitBind, Stays, TypesInv
<1> QED
  BY <1>1, <1>2, <1>3
  DEF ScanNext, ScanStep, BeginScan, Discover, CheckClean, CaptureSnapshot, CollectEvidence,
      WriteOutput, VerifySnapshot, RecordHistory, WriteCapsule, ExitWithReport, FailScan, ChangeProject,
      AppendElsewhere

(* The step a scan was at is done now, or its status is an error's.        *)
LEMMA AdvanceOrdered ==
  ASSUME TypesInv, NEW p \in Scans, Begun(p), Ordered(p), NEW what \in DOMAIN Place,
         At(p, what), Passed(p, what), asked'[p] = asked[p]
  PROVE  Begun(p)' /\ Ordered(p)'
<1>1. done'[p] = done[p] \cup {what} /\ status'[p] = "running" /\ status[p] = "running"
  BY DEF Passed, At, TypesInv
<1>2. Begun(p)'
  BY <1>1 DEF Begun
<1>3. ASSUME NEW x \in done'[p], NEW y \in DOMAIN Place, Wanted(asked[p], y),
             Place[y] < Place[x]
      PROVE  y \in done'[p]
  <2>1. CASE x = what
    BY <1>1, <1>3, <2>1, Before
  <2>2. CASE x \in done[p]
    BY <1>1, <1>3, <2>2 DEF Ordered
  <2> QED
    BY <1>1, <2>1, <2>2
<1>4. \A x \in done'[p], y \in DOMAIN Place :
        Wanted(asked'[p], y) /\ Place[y] < Place[x] => y \in done'[p]
  BY <1>3
<1> QED
  BY <1>1, <1>2, <1>4 DEF Ordered, Place

LEMMA ExitOrdered ==
  ASSUME TypesInv, NEW p \in Scans, Begun(p), Ordered(p), NEW what \in DOMAIN Place,
         At(p, what), Exit(p, "2"), asked'[p] = asked[p]
  PROVE  Begun(p)' /\ Ordered(p)'
<1>1. done'[p] = done[p] /\ status'[p] = "2"
  BY DEF Exit, TypesInv
<1>2. Begun(p)'
  BY <1>1 DEF Begun
<1>3. \A x \in done'[p], y \in DOMAIN Place :
        Wanted(asked'[p], y) /\ Place[y] < Place[x] => y \in done'[p]
  BY <1>1 DEF Ordered
<1> QED
  BY <1>1, <1>2, <1>3 DEF Ordered, Place

(* Which steps are done where.                                             *)
LEMMA Sequel ==
  ASSUME TypesInv, NEW p \in Scans, Ordered(p)
  PROVE  /\ At(p, "discover") => "record" \notin done[p]
         /\ At(p, "tools") => "record" \notin done[p]
         /\ At(p, "resolve") => "bind" \notin done[p]
         /\ At(p, "bind") /\ Wanted(asked[p], "record") => "record" \in done[p]
         /\ At(p, "capsule") /\ Wanted(asked[p], "record") => "record" \in done[p]
         /\ At(p, "capsule") /\ Wanted(asked[p], "bind") => "bind" \in done[p]
<1>1. At(p, "discover") => "record" \notin done[p]
  BY Before, Places
<1>2. At(p, "tools") => "record" \notin done[p]
  BY Before, Places
<1>3. At(p, "resolve") => "bind" \notin done[p]
  BY Before, Places
<1>4. At(p, "bind") /\ Wanted(asked[p], "record") => "record" \in done[p]
  BY Before, Places
<1>5. /\ At(p, "capsule") /\ Wanted(asked[p], "record") => "record" \in done[p]
      /\ At(p, "capsule") /\ Wanted(asked[p], "bind") => "bind" \in done[p]
  BY Before, Places
<1> QED
  BY <1>1, <1>2, <1>3, <1>4, <1>5

-----------------------------------------------------------------------------
(* Scans: the steps, each by itself                                        *)

LEMMA RecordStep ==
  ASSUME TypesInv, TypesInv', Grows, Stays, MaxHistory \in Nat,
         NEW p \in Scans, Own(p), RecordHistory(p)
  PROVE  Own(p)'
<1> DEFINE run == [by |-> p, report |-> seen[p]]
<1>1. /\ asked'[p] = asked[p] /\ seen' = seen /\ snapshot' = snapshot
      /\ capsules' = capsules /\ outputs' = outputs /\ history' = Append(history, run)
  BY DEF RecordHistory, ScanReport
<1>2. CASE recorded' = [recorded EXCEPT ![p] = history'] /\ Passed(p, "record")
  <2>1. At(p, "record") /\ "record" \in DOMAIN Place /\ "record" \notin done[p]
    BY Places DEF RecordHistory, At
  <2>2. Begun(p)' /\ Ordered(p)'
    BY <1>1, <1>2, <2>1, AdvanceOrdered DEF Own
  <2>3. done'[p] = done[p] \cup {"record"} /\ recorded'[p] = history'
    BY <1>2 DEF Passed, TypesInv
  <2>4. history' \in Seq(Runs) /\ Len(history') # 0 /\ history'[Len(history')] = run
    BY <1>1 DEF TypesInv
  <2>5. HasRun(p)'
    BY <1>1, <2>3, <2>4, EmptySeq, PrefixOrder DEF HasRun, Last
  <2>6. "bind" \notin done'[p]
    BY <2>1, <2>3 DEF Own, Left
  <2>7. capsules'[p] # NoCapsule => Sound(capsules[p])'
    <3>1. PICK c : c = capsules[p]
      OBVIOUS
    <3>2. ASSUME c # NoCapsule
          PROVE  Sound(c)'
      BY <3>1, <3>2, AnchorsStay DEF Own, Left
    <3> QED
      BY <1>1, <3>1, <3>2 DEF Sound, Anchored
  <2>8. Left(p)'
    BY <1>1, <2>3, <2>5, <2>6, <2>7 DEF Own, Left
  <2> QED
    BY <2>2, <2>8 DEF Own
<1>3. CASE Exit(p, "2") /\ UNCHANGED recorded
  <2>1. Begun(p)' /\ Ordered(p)'
    BY <1>1, <1>3, Places, ExitOrdered DEF Own, RecordHistory
  <2>2. Untouched(p)
    BY <1>1, <1>3 DEF Untouched, Exit
  <2> QED
    BY <2>1, <2>2, LeftStays DEF Own
<1> QED
  BY <1>2, <1>3 DEF RecordHistory

LEMMA BindStep ==
  ASSUME TypesInv, Grows, Stays, MaxHistory \in Nat,
         NEW p \in Scans, Own(p), BindProvenance(p)
  PROVE  Own(p)'
<1> DEFINE n == Len(recorded[p])
           record == [binding |-> "captured", run |-> RunDigest(n), commit |-> snapshot[p]]
<1>1. /\ asked'[p] = asked[p] /\ seen' = seen /\ snapshot' = snapshot /\ history' = history
      /\ capsules' = capsules /\ outputs' = outputs /\ recorded' = recorded
  BY DEF BindProvenance
<1>2. CASE provenance' = [provenance EXCEPT ![n] = record] /\ Passed(p, "bind")
  <2>1. At(p, "bind") /\ "bind" \in DOMAIN Place
    BY Places DEF BindProvenance
  <2>2. Begun(p)' /\ Ordered(p)'
    BY <1>1, <1>2, <2>1, AdvanceOrdered DEF Own
  <2>3. done'[p] = done[p] \cup {"bind"}
    BY <1>2 DEF Passed, TypesInv
  <2>4. "record" \in done[p] /\ HasRun(p)
    <3>1. status[p] = "running" /\ Wanted(asked[p], "bind")
      BY <2>1 DEF At
    <3>2. Wanted(asked[p], "record")
      BY <3>1 DEF Own, Begun, Wanted
    <3> QED
      BY <2>1, <3>2, Sequel DEF Own, Left
  <2>5. n \in MaxRun /\ n \in 1..Len(history) /\ recorded[p] \in Seq(Runs)
    BY <2>4, RunIsThere
  <2>6. recorded[p] = RunDigest(n)
    <3>1. SubSeq(recorded[p], 1, n) = SubSeq(history, 1, n)
      BY <2>4, <2>5, PrefixOrder DEF HasRun, TypesInv
    <3> QED
      BY <2>5, <3>1, SubSeqFull DEF RunDigest
  <2>7. Bound(p)'
    BY <1>1, <1>2, <2>5, <2>6 DEF Bound, TypesInv
  <2>8. HasRun(p)'
    BY <1>1, <2>4 DEF HasRun
  <2>9. capsules'[p] # NoCapsule => Sound(capsules[p])'
    <3>1. PICK c : c = capsules[p]
      OBVIOUS
    <3>2. ASSUME c # NoCapsule
          PROVE  Sound(c)'
      BY <3>1, <3>2, AnchorsStay DEF Own, Left
    <3> QED
      BY <1>1, <3>1, <3>2 DEF Sound, Anchored
  <2>10. Left(p)'
    BY <1>1, <2>3, <2>4, <2>7, <2>8, <2>9 DEF Own, Left
  <2> QED
    BY <2>2, <2>10 DEF Own
<1>3. CASE Exit(p, "2")
  <2>1. Begun(p)' /\ Ordered(p)'
    BY <1>1, <1>3, Places, ExitOrdered DEF Own, BindProvenance
  <2>2. Untouched(p)
    BY <1>1, <1>3 DEF Untouched, Exit
  <2> QED
    BY <2>1, <2>2, LeftStays DEF Own
<1> QED
  BY <1>2, <1>3 DEF BindProvenance, PassedOrFailed, RecordedRun

LEMMA CapsuleStep ==
  ASSUME TypesInv, Grows, Stays, MaxHistory \in Nat,
         NEW p \in Scans, Own(p), WriteCapsule(p)
  PROVE  Own(p)'
<1> DEFINE capsule == [report |-> seen[p], history |-> recorded[p],
                       provenance |-> IF asked[p].git THEN provenance[Len(recorded[p])]
                                      ELSE NoRecord]
<1>1. /\ asked'[p] = asked[p] /\ seen' = seen /\ snapshot' = snapshot /\ history' = history
      /\ outputs' = outputs /\ recorded' = recorded /\ provenance' = provenance
      /\ At(p, "capsule") /\ (Passed(p, "capsule") \/ Exit(p, "2"))
  BY DEF WriteCapsule, PassedOrFailed
<1>2. capsules'[p] = capsule
  BY DEF WriteCapsule, TypesInv, ScanReport, RecordedRun
<1>3. Begun(p)' /\ Ordered(p)'
  BY <1>1, Places, AdvanceOrdered, ExitOrdered DEF Own
<1>4. done'[p] \in {done[p] \cup {"capsule"}, done[p]} /\ status[p] = "running"
  BY <1>1 DEF Passed, Exit, TypesInv, At
<1>5. capsule.history = recorded[p] /\ capsule.history \in Seq(Runs)
  BY DEF TypesInv
<1>6. IsPrefix(recorded[p], history)
  <2>1. CASE "record" \in done[p]
    BY <2>1 DEF Own, Left, HasRun
  <2>2. CASE "record" \notin done[p]
    BY <2>2, PrefixOrder DEF Own, Left, TypesInv
  <2> QED
    BY <2>1, <2>2
<1>7. recorded[p] # <<>> => Last(recorded[p]).report = seen[p]
  BY DEF Own, Left, HasRun
<1>8. ASSUME asked[p].git
      PROVE  HasRun(p) /\ Bound(p)
  <2>1. Wanted(asked[p], "bind")
    BY <1>8 DEF Wanted
  <2> QED
    BY <1>1, <2>1, Sequel DEF Own, Left
<1>9. capsule.provenance # NoRecord =>
        /\ recorded[p] # <<>> /\ capsule.provenance.run = recorded[p]
        /\ provenance[Len(recorded[p])] = capsule.provenance
  BY <1>8 DEF HasRun, Bound
<1>10. PICK c : c = capsule
  OBVIOUS
<1>11. Sound(c)
  BY <1>5, <1>6, <1>7, <1>9, <1>10 DEF Sound, Anchored
<1>12. Sound(capsules[p])'
  BY <1>1, <1>2, <1>10, <1>11 DEF Sound, Anchored
<1>13. capsules'[p] # NoCapsule
  <2>1. "history" \in DOMAIN capsule /\ "history" \notin DOMAIN NoCapsule
    BY DEF NoCapsule
  <2> QED
    BY <1>2, <2>1
<1>14. "record" \in done'[p] => HasRun(p)'
  BY <1>1, <1>4 DEF Own, Left, HasRun
<1>15. "bind" \in done'[p] => Bound(p)'
  BY <1>1, <1>4 DEF Own, Left, Bound
<1>16. Left(p)'
  BY <1>1, <1>4, <1>12, <1>13, <1>14, <1>15 DEF Own, Left
<1> QED
  BY <1>3, <1>16 DEF Own

LEMMA OwnStep ==
  ASSUME TypesInv, TypesInv', Grows, Stays, MaxHistory \in Nat,
         NEW p \in Scans, Own(p), ScanStep(p)
  PROVE  Own(p)'
<1>1. ASSUME NEW args \in Arguments, BeginScan(p, args)
      PROVE  Own(p)'
  <2>1. /\ done'[p] = done[p] /\ done[p] = {} /\ status'[p] \in {"running", "0", "2"}
        /\ status'[p] = "running" => asked'[p].stop = "no" /\ ~UsageError(asked'[p])
        /\ status'[p] = "0" => asked'[p].stop # "no"
    BY <1>1 DEF BeginScan, Own, Begun, TypesInv
  <2>2. Begun(p)'
    BY <2>1 DEF Begun, UsageError
  <2>3. Ordered(p)'
    BY <2>1 DEF Ordered
  <2>4. Untouched(p)
    BY <1>1 DEF BeginScan, Untouched
  <2> QED
    BY <2>2, <2>3, <2>4, LeftStays DEF Own
<1>2. CASE Discover(p)
  <2>1. At(p, "discover") /\ Passed(p, "discover") /\ asked' = asked
    BY <1>2 DEF Discover
  <2>2. Begun(p)' /\ Ordered(p)'
    BY <2>1, Places, AdvanceOrdered DEF Own
  <2>3. Untouched(p)
    BY <1>2, <2>1, Sequel DEF Own, Discover, Untouched, Passed, TypesInv
  <2> QED
    BY <2>2, <2>3, LeftStays DEF Own
<1>3. CASE CaptureSnapshot(p)
  <2>1. At(p, "resolve") /\ Passed(p, "resolve") /\ asked' = asked
    BY <1>3 DEF CaptureSnapshot
  <2>2. Begun(p)' /\ Ordered(p)'
    BY <2>1, Places, AdvanceOrdered DEF Own
  <2>3. /\ \A x \in {"output", "record", "bind", "capsule"} : x \in done'[p] <=> x \in done[p]
        /\ "bind" \notin done[p]
    BY <2>1, Sequel DEF Own, Passed, TypesInv
  <2>4. Untouched(p)
    BY <1>3, <2>3 DEF CaptureSnapshot, Untouched
  <2> QED
    BY <2>2, <2>4, LeftStays DEF Own
<1>4. CASE CollectEvidence(p)
  <2>1. At(p, "tools") /\ Passed(p, "tools") /\ asked' = asked
    BY <1>4 DEF CollectEvidence
  <2>2. Begun(p)' /\ Ordered(p)'
    BY <2>1, Places, AdvanceOrdered DEF Own
  <2>3. Untouched(p)
    BY <1>4, <2>1, Sequel DEF Own, CollectEvidence, Untouched, Passed, TypesInv
  <2> QED
    BY <2>2, <2>3, LeftStays DEF Own
<1>5. CASE WriteOutput(p)
  <2>1. At(p, "output") /\ Passed(p, "output") /\ asked' = asked
    BY <1>5 DEF WriteOutput
  <2>2. Begun(p)' /\ Ordered(p)'
    BY <2>1, Places, AdvanceOrdered DEF Own
  <2>3. /\ done'[p] = done[p] \cup {"output"} /\ p \in outputs'
        /\ recorded' = recorded /\ seen' = seen /\ snapshot' = snapshot /\ capsules' = capsules
        /\ history' = history /\ provenance' = provenance
    BY <1>5, <2>1 DEF WriteOutput, Passed, TypesInv
  <2>4. Left(p)'
    BY <2>3 DEF Own, Left, HasRun, Bound, Sound, Anchored
  <2> QED
    BY <2>2, <2>4 DEF Own
<1>6. CASE VerifySnapshot(p)
  <2>1. At(p, "verify") /\ (Passed(p, "verify") \/ Exit(p, "2")) /\ asked' = asked
    BY <1>6 DEF VerifySnapshot
  <2>2. Begun(p)' /\ Ordered(p)'
    BY <2>1, Places, AdvanceOrdered, ExitOrdered DEF Own
  <2>3. \A x \in {"output", "record", "bind", "capsule"} : x \in done'[p] <=> x \in done[p]
    BY <2>1 DEF Passed, Exit, TypesInv
  <2>4. Untouched(p)
    BY <1>6, <2>3 DEF VerifySnapshot, Untouched
  <2> QED
    BY <2>2, <2>4, LeftStays DEF Own
<1>7. CASE RecordHistory(p)
  BY <1>7, RecordStep
<1>8. CASE BindProvenance(p)
  BY <1>8, BindStep
<1>9. CASE WriteCapsule(p)
  BY <1>9, CapsuleStep
<1>10. CASE ExitWithReport(p)
  <2>1. /\ At(p, "exit") /\ done'[p] = done[p] /\ asked'[p] = asked[p]
        /\ status[p] = "running" /\ status'[p] \in {"0", "1"}
    BY <1>10 DEF ExitWithReport, Exit, At, TypesInv
  <2>2. Begun(p)'
    BY <2>1 DEF Own, Begun
  <2>3. \A y \in DOMAIN Place \ {"exit"} : Wanted(asked[p], y) => y \in done[p]
    BY <2>1, Before, Places DEF Own
  <2>4. \A x \in done'[p], y \in DOMAIN Place :
          Wanted(asked'[p], y) /\ Place[y] < Place[x] => y \in done'[p]
    BY <2>1 DEF Own, Ordered
  <2>5. Ordered(p)'
    BY <2>1, <2>3, <2>4 DEF Ordered, Place
  <2>6. Untouched(p)
    BY <1>10, <2>1 DEF ExitWithReport, Untouched
  <2> QED
    BY <2>2, <2>5, <2>6, LeftStays DEF Own
<1>11. CASE FailScan(p)
  <2>1. PICK what \in DOMAIN Place : At(p, what)
    BY <1>11, Places DEF FailScan
  <2>2. Begun(p)' /\ Ordered(p)'
    BY <1>11, <2>1, ExitOrdered DEF Own, FailScan
  <2>3. Untouched(p)
    BY <1>11 DEF FailScan, Untouched, Exit
  <2> QED
    BY <2>2, <2>3, LeftStays DEF Own
<1>12. CASE CheckClean(p)
  <2>1. PICK what \in {"clean", "reclean"} :
          At(p, what) /\ (Passed(p, what) \/ Exit(p, "2")) /\ asked' = asked
    BY <1>12 DEF CheckClean
  <2>2. Begun(p)' /\ Ordered(p)'
    BY <2>1, Places, AdvanceOrdered, ExitOrdered DEF Own
  <2>3. \A x \in {"output", "record", "bind", "capsule"} : x \in done'[p] <=> x \in done[p]
    BY <2>1 DEF Passed, Exit, TypesInv
  <2>4. Untouched(p)
    BY <1>12, <2>3 DEF CheckClean, Untouched
  <2> QED
    BY <2>2, <2>4, LeftStays DEF Own
<1> QED
  BY <1>1, <1>2, <1>3, <1>4, <1>5, <1>6, <1>7, <1>8, <1>9, <1>10, <1>11, <1>12 DEF ScanStep

(* A scan moves nothing of another.                                        *)
LEMMA RecordsApart ==
  ASSUME TypesInv, NEW p \in Scans, NEW q \in Scans, q # p, ScanStep(p)
  PROVE  Apart(q)
<1> USE DEF Apart, TypesInv, Passed, Exit
<1>1. ASSUME NEW args \in Arguments, BeginScan(p, args)
      PROVE  Apart(q)
  BY <1>1 DEF BeginScan
<1>2. CASE Discover(p)
  BY <1>2 DEF Discover
<1>3. CASE CaptureSnapshot(p)
  BY <1>3 DEF CaptureSnapshot
<1>4. CASE CollectEvidence(p)
  BY <1>4 DEF CollectEvidence
<1>5. CASE WriteOutput(p)
  BY <1>5 DEF WriteOutput
<1>6. CASE VerifySnapshot(p)
  BY <1>6 DEF VerifySnapshot
<1>7. CASE RecordHistory(p)
  BY <1>7 DEF RecordHistory
<1>8. CASE BindProvenance(p)
  BY <1>8 DEF BindProvenance, PassedOrFailed
<1>9. CASE WriteCapsule(p)
  BY <1>9 DEF WriteCapsule, PassedOrFailed
<1>10. CASE ExitWithReport(p)
  BY <1>10 DEF ExitWithReport
<1>11. CASE FailScan(p)
  BY <1>11 DEF FailScan
<1>12. CASE CheckClean(p)
  BY <1>12 DEF CheckClean
<1> QED
  BY <1>1, <1>2, <1>3, <1>4, <1>5, <1>6, <1>7, <1>8, <1>9, <1>10, <1>11, <1>12 DEF ScanStep

-----------------------------------------------------------------------------
(* Scans: the theorem                                                      *)

LEMMA InitScanInv ==
  ASSUME ScanInit, MaxHistory \in Nat
  PROVE  ScanInv
<1>1. TypesInv
  BY EmptySeq DEF ScanInit, TypesInv, Inputs
<1>2. ASSUME NEW p \in Scans
      PROVE  Begun(p) /\ Ordered(p) /\ Left(p)
  BY DEF ScanInit, Begun, Ordered, Left
<1> QED
  BY <1>1, <1>2 DEF ScanInv

LEMMA NextScanInv ==
  ASSUME ScanInv, [ScanNext]_scanVars, MaxHistory \in Nat
  PROVE  ScanInv'
<1>1. CASE UNCHANGED scanVars
  <2>1. TypesInv'
    BY <1>1 DEF ScanInv, TypesInv, scanVars
  <2>2. ASSUME NEW p \in Scans
        PROVE  Begun(p)' /\ Ordered(p)' /\ Left(p)'
    <3>1. Apart(p) /\ Grows /\ Stays
      BY <1>1 DEF Apart, Grows, Stays, scanVars
    <3> QED
      BY <3>1, ApartStays DEF ScanInv, Own
  <2> QED
    BY <2>1, <2>2 DEF ScanInv
<1>2. CASE ScanNext
  <2>1. TypesInv' /\ Grows /\ Stays
    BY <1>2, TypesStep, StaysStep DEF ScanInv
  <2>2. ASSUME NEW q \in Scans
        PROVE  Own(q)'
    <3>1. Own(q)
      BY DEF ScanInv, Own
    <3>2. ASSUME NEW p \in Scans, ScanStep(p)
          PROVE  Own(q)'
      BY <2>1, <3>1, <3>2, OwnStep, RecordsApart, ApartStays DEF ScanInv
    <3>3. CASE ChangeProject \/ AppendElsewhere \/ HistoryGitBind
      <4>1. Apart(q)
        BY <3>3 DEF Apart, ChangeProject, AppendElsewhere, HistoryGitBind
      <4> QED
        BY <2>1, <3>1, <4>1, ApartStays DEF ScanInv
    <3> QED
      BY <1>2, <3>2, <3>3 DEF ScanNext
  <2> QED
    BY <2>1, <2>2 DEF ScanInv, Own
<1> QED
  BY <1>1, <1>2

LEMMA ScanInvTells ==
  ASSUME ScanInv
  PROVE  ScanExitTells
<1>1. ASSUME NEW p \in Scans, status[p] \in {"0", "1"}, asked[p].stop = "no"
      PROVE  Tells(p)
  <2>1. Begun(p) /\ Ordered(p) /\ Left(p)
    BY DEF ScanInv
  <2>2. \A y \in {"output", "record", "bind", "capsule"} : Wanted(asked[p], y) => y \in done[p]
    BY <1>1, <2>1, Places DEF Ordered
  <2>3. /\ "output" \in done[p]
        /\ asked[p].history => "record" \in done[p]
        /\ asked[p].git => "bind" \in done[p]
        /\ asked[p].capsule => "capsule" \in done[p]
    BY <2>2 DEF Wanted
  <2>4. asked[p].history => HasRun(p)
    BY <2>1, <2>3 DEF Left
  <2>5. asked[p].git => Bound(p)
    BY <2>1, <2>3 DEF Left
  <2> QED
    BY <2>1, <2>3, <2>4, <2>5 DEF Left, Tells, HasRun, Bound
<1>2. ASSUME NEW p \in Scans, capsules[p] # NoCapsule
      PROVE  Anchored(capsules[p])
  BY <1>2 DEF ScanInv, Left, Sound
<1> QED
  BY <1>1, <1>2 DEF ScanExitTells

(* A status other than 2 tells that what was asked for is there and about  *)
(* this scan, and no capsule names what is not there, however the scans of *)
(* one project interleave with each other and with what others append,     *)
(* bind, edit and commit (run_scan of src/bin/diagprint.rs).               *)
THEOREM ExitsTell ==
  ASSUME MaxHistory \in Nat
  PROVE  ScanSpec => []ScanExitTells
<1>1. ScanInit => ScanInv
  BY InitScanInv
<1>2. ScanInv /\ [ScanNext]_scanVars => ScanInv'
  BY NextScanInv
<1>3. ScanInv => ScanExitTells
  BY ScanInvTells
<1> QED
  BY <1>1, <1>2, <1>3, PTL DEF ScanSpec
=============================================================================
