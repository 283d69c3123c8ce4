--------------------------- MODULE FixTransaction ---------------------------
(***************************************************************************)
(* FixPlan::apply and the write transaction under it (src/fixplan.rs,      *)
(* src/remediation.rs); Fixer::apply is the same without checks.  A call   *)
(* checks its preconditions, prepares every file, writes backups, writes   *)
(* the files one after the other, verifies, and restores from memory what  *)
(* it wrote when a write or the verification fails.  Other programs, other *)
(* plans among them, save the same files meanwhile, and the process may    *)
(* die.                                                                    *)
(*                                                                         *)
(* The content of a file is the set of the changes that are in it: a plan  *)
(* makes one change to each of its files.  EditApply is what one file's    *)
(* edits do to its text.                                                   *)
(***************************************************************************)
EXTENDS Integers, FiniteSets, SequencesExt

CONSTANTS
  FixPlan,       \* the fix plans, and the suggestions of a diagnostic
  Path,          \* files that plans edit, and their backups
  Targets,       \* the files a plan has edits for, in path order
  Changes,       \* those its edits change: others they leave as they are
  BackupOf,      \* backup_path of a file
  Backups,       \* whether the plan, or the Fixer, asks for backups
  Automatic,     \* plans that may be applied without a person
  Pre, Post,     \* preconditions and verifications: sets of file checks
  Suggestions,   \* the suggestions of the diagnostic, in order
  Near, Over,    \* changes of others: beside the plan's edit, or across it
  MaxFixFaults,  \* bound: failures and deaths in one behaviour
  MaxSaves,      \* bound: saves by others
  MaxApplications \* bound: calls of apply for a plan

VARIABLES
  content,       \* what is at each path
  phase,         \* where the call is
  at,            \* files of the current phase dealt with so far
  original,      \* PreparedFile::original of the files read so far
  start,         \* history: what was at each path when the call began
  saved,         \* history: paths others saved since
  unrestored,    \* rollback_failures
  result,        \* what the last call returned
  applications,  \* calls so far
  session,       \* apply_interactive: where it is, and its report
  fixFaults, saves  \* events so far

transactionVars == <<content, phase, at, original, start, saved, unrestored, result,
                     applications>>
fixVars == <<transactionVars, session, fixFaults, saves>>

Change == FixPlan \cup {Near, Over}
Suggestion == ToSet(Suggestions)
NoFile == {"nothing"}          \* nothing at this path
Content == (SUBSET Change) \cup {NoFile}
Check == [kind : {"exists", "missing"}, path : Path] \cup
         [kind : {"contains"}, path : Path, change : Change] \cup
         [kind : {"equals"}, path : Path, content : SUBSET Change]

ASSUME FixTransactionAssumption ==
  /\ "nothing" \notin Change /\ Near \notin FixPlan /\ Over \notin FixPlan
  /\ Targets \in [FixPlan -> Seq(Path)] /\ \A p \in FixPlan : IsInjective(Targets[p])
  /\ \A p \in FixPlan : Changes[p] \subseteq ToSet(Targets[p])
  /\ BackupOf \in [Path -> Path] /\ IsInjective(BackupOf)
  /\ Backups \in [FixPlan -> BOOLEAN]
  /\ Automatic \subseteq FixPlan
  /\ Suggestions \in Seq(FixPlan) /\ \A i \in DOMAIN Suggestions :
       Pre[Suggestions[i]] = {} /\ Post[Suggestions[i]] = {}
  /\ \A p, q \in ToSet(Suggestions) : Backups[p] = Backups[q]
  /\ \A p \in FixPlan : Pre[p] \cup Post[p] \subseteq Check
  /\ MaxFixFaults \in Nat /\ MaxSaves \in Nat /\ MaxApplications \in Nat

FixTypeOK ==
  /\ content \in [Path -> Content]
  /\ phase \in [FixPlan -> {"idle", "check", "prepare", "backup", "write", "verify", "rollback"}]
  /\ at \in [FixPlan -> Nat] /\ \A p \in FixPlan : at[p] <= Len(Targets[p])
  /\ original \in [FixPlan -> [Path -> Content]]
  /\ start \in [FixPlan -> [Path -> Content]]
  /\ saved \in [FixPlan -> SUBSET Path]
  /\ unrestored \in [FixPlan -> SUBSET Path]
  /\ result \in [FixPlan -> {"none", "ok", "err", "died"}]
  /\ applications \in [FixPlan -> 0..MaxApplications]
  /\ session \in [state : {"none", "offer", "prompt", "apply", "ok", "err"},
                  suggestion : 1..Len(Suggestions) + 1, offered : BOOLEAN,
                  changed : SUBSET Path]
  /\ fixFaults \in 0..MaxFixFaults /\ saves \in 0..MaxSaves

-----------------------------------------------------------------------------
(* FileCheck::evaluate                                                     *)

Holds(check) ==
  LET there == content[check.path]
  IN CASE check.kind = "exists"   -> there # NoFile
       [] check.kind = "missing"  -> there = NoFile
       [] check.kind = "contains" -> there # NoFile /\ check.change \in there
       [] check.kind = "equals"   -> there # NoFile /\ there = check.content

(* validate_edits: the text the plan expects is there.                     *)
Readable(p, f) == content[f] # NoFile

Unopened(p, f) == content[f] \cap {p, Over} = {}

Expected(p, f) == content[f] # NoFile /\ content[f] \cap {p, Over} = {}

Updated(p, f) == IF f \in Changes[p] THEN original[p][f] \cup {p} ELSE original[p][f]

Changed(p) == {f \in ToSet(Targets[p]) : Updated(p, f) # original[p][f]}

(* The next of the changed files after the first at[p] targets, and the    *)
(* last of those among them.                                               *)
NextChanged(p, i) ==
  /\ i \in at[p] + 1..Len(Targets[p]) /\ Targets[p][i] \in Changed(p)
  /\ \A j \in at[p] + 1..i - 1 : Targets[p][j] \notin Changed(p)

LastChanged(p, i) ==
  /\ i \in 1..at[p] /\ Targets[p][i] \in Changed(p)
  /\ \A j \in i + 1..at[p] : Targets[p][j] \notin Changed(p)

-----------------------------------------------------------------------------
Goto(p, where, n) ==
  /\ phase' = [phase EXCEPT ![p] = where]
  /\ at' = [at EXCEPT ![p] = n]

FixReturn(p, value) ==
  /\ Goto(p, "idle", 0)
  /\ result' = [result EXCEPT ![p] = value]

FixFault == fixFaults < MaxFixFaults /\ fixFaults' = fixFaults + 1

(* atomic_write renames: a file that cannot be written stays as it was.    *)
Write(path, new) == content' = [content EXCEPT ![path] = new]

Begin(p) ==
  /\ phase[p] = "idle" /\ applications[p] < MaxApplications
  /\ Goto(p, "check", 0)
  /\ applications' = [applications EXCEPT ![p] = @ + 1]
  /\ start' = [start EXCEPT ![p] = content]
  /\ saved' = [saved EXCEPT ![p] = {}]
  /\ unrestored' = [unrestored EXCEPT ![p] = {}]
  /\ UNCHANGED <<content, original, result, fixFaults, saves>>

(* FixPlan::apply, of a plan that ensure_automatic lets through: it has    *)
(* edits, is machine-applicable, and its insertions are guarded.           *)
Apply(p) ==
  /\ session.state = "none" /\ p \notin Suggestion
  /\ p \in Automatic
  /\ Begin(p)
  /\ UNCHANGED session

(* check_preconditions: a file that cannot be read fails its check.        *)
CheckPreconditions(p) ==
  /\ phase[p] = "check"
  /\ \/ /\ \A check \in Pre[p] : Holds(check)
        /\ Goto(p, "prepare", 0)
        /\ UNCHANGED <<result, fixFaults>>
     \/ (\E check \in Pre[p] : ~Holds(check)) /\ FixReturn(p, "err") /\ UNCHANGED fixFaults
     \/ Pre[p] # {} /\ FixFault /\ FixReturn(p, "err")
  /\ UNCHANGED <<content, original, start, saved, unrestored, applications, session, saves>>

(* prepare_edits, one file.                                                *)
PrepareFile(p) ==
  /\ phase[p] = "prepare" /\ at[p] < Len(Targets[p])
  /\ LET f == Targets[p][at[p] + 1]
     IN \/ /\ Expected(p, f)
           /\ original' = [original EXCEPT ![p][f] = content[f]]
           /\ Goto(p, "prepare", at[p] + 1)
           /\ UNCHANGED <<result, fixFaults>>
        \/ ~Expected(p, f) /\ FixReturn(p, "err") /\ UNCHANGED <<original, fixFaults>>
        \/ FixFault /\ FixReturn(p, "err") /\ UNCHANGED original
  /\ UNCHANGED <<content, start, saved, unrestored, applications, session, saves>>

(* apply_transaction: all backups before the first file.                   *)
WritesFirst(p) == "write"

AfterPrepare(p) == IF Backups[p] THEN "backup" ELSE "write"

WriteBackup(p) ==
  /\ phase[p] = "backup"
  /\ \E i \in 1..Len(Targets[p]) :
       /\ NextChanged(p, i)
       /\ \/ /\ Write(BackupOf[Targets[p][i]], original[p][Targets[p][i]])
             /\ Goto(p, "backup", i)
             /\ UNCHANGED <<result, fixFaults>>
          \/ FixFault /\ FixReturn(p, "err") /\ UNCHANGED content
  /\ UNCHANGED <<original, start, saved, unrestored, applications, session, saves>>

(* The files before the one that could not be written are to be restored.  *)
OneTooFew(p) == IF at[p] = 0 THEN 0 ELSE at[p] - 1

Applied(p) == at[p]

WriteTarget(p) ==
  /\ phase[p] = "write"
  /\ \E i \in 1..Len(Targets[p]) :
       /\ NextChanged(p, i)
       /\ \/ /\ Write(Targets[p][i], Updated(p, Targets[p][i]))
             /\ Goto(p, "write", i)
             /\ UNCHANGED fixFaults
          \/ FixFault /\ Goto(p, "rollback", Applied(p)) /\ UNCHANGED content
  /\ UNCHANGED <<original, start, saved, unrestored, result, applications, session, saves>>

(* The loop over the files of a phase ends.                                *)
Proceed(p) ==
  /\ \/ /\ phase[p] = "prepare" /\ at[p] = Len(Targets[p])
        /\ Goto(p, AfterPrepare(p), 0)
     \/ /\ phase[p] \in {"backup", "write"}
        /\ \A j \in at[p] + 1..Len(Targets[p]) : Targets[p][j] \notin Changed(p)
        /\ Goto(p, IF phase[p] = "backup" THEN "write" ELSE "verify", 0)
  /\ UNCHANGED <<content, original, start, saved, unrestored, result, applications, session,
                 fixFaults, saves>>

Verify(p) ==
  /\ phase[p] = "verify"
  /\ \/ (\A check \in Post[p] : Holds(check)) /\ FixReturn(p, "ok") /\ UNCHANGED fixFaults
     \/ /\ \E check \in Post[p] : ~Holds(check)
        /\ Goto(p, "rollback", Len(Targets[p]))
        /\ UNCHANGED <<result, fixFaults>>
     \/ /\ Post[p] # {} /\ FixFault
        /\ Goto(p, "rollback", Len(Targets[p]))
        /\ UNCHANGED result
  /\ UNCHANGED <<content, original, start, saved, unrestored, applications, session, saves>>

(* rollback_files: the last written file first, the failures collected.    *)
RestoreFile(p) ==
  /\ phase[p] = "rollback"
  /\ \E i \in 1..Len(Targets[p]) :
       /\ LastChanged(p, i)
       /\ \/ /\ Write(Targets[p][i], original[p][Targets[p][i]])
             /\ UNCHANGED <<unrestored, fixFaults>>
          \/ /\ FixFault
             /\ unrestored' = [unrestored EXCEPT ![p] = @ \cup {Targets[p][i]}]
             /\ UNCHANGED content
       /\ Goto(p, "rollback", i - 1)
  /\ UNCHANGED <<original, start, saved, result, applications, session, saves>>

ReturnError(p) ==
  /\ phase[p] = "rollback" /\ \A j \in 1..at[p] : Targets[p][j] \notin Changed(p)
  /\ FixReturn(p, "err")
  /\ UNCHANGED <<content, original, start, saved, unrestored, applications, session, fixFaults,
                 saves>>

-----------------------------------------------------------------------------
(* Fixer::apply_interactive                                                *)

Suggested == Suggestions[session.suggestion]

StartSession ==
  /\ session.state = "none" /\ Suggestions # <<>>
  /\ \A p \in FixPlan : applications[p] = 0
  /\ session' = [session EXCEPT !.state = "offer"]
  /\ UNCHANGED <<transactionVars, fixFaults, saves>>

(* The suggestion is shown; it can be applied if it is machine-applicable  *)
(* and its edits fit the files now.                                        *)
OfferSuggestion ==
  /\ session.state = "offer"
  /\ session' =
       IF session.suggestion > Len(Suggestions) THEN [session EXCEPT !.state = "ok"]
       ELSE [session EXCEPT !.state = "prompt",
               !.offered = Suggested \in Automatic
                           /\ \A f \in ToSet(Targets[Suggested]) : Expected(Suggested, f)]
  /\ UNCHANGED <<transactionVars, fixFaults, saves>>

NextSuggestion(s) == [s EXCEPT !.state = "offer", !.suggestion = @ + 1]

(* apply, when offered.                                                    *)
AcceptSuggestion ==
  /\ session.state = "prompt" /\ session.offered
  /\ Begin(Suggested)
  /\ session' = [session EXCEPT !.state = "apply"]

(* skip; docs, when there are; quit; an answer nobody knows, as the end of *)
(* the input is, for which the question is asked again.                    *)
AnswerOtherwise ==
  /\ session.state = "prompt"
  /\ session' \in {NextSuggestion(session), [session EXCEPT !.state = "ok"], session}
  /\ UNCHANGED <<transactionVars, fixFaults, saves>>

(* apply_suggestions has returned.  Its error ends the session, and the    *)
(* report of what was applied before is lost with it.                      *)
SuggestionApplied ==
  /\ session.state = "apply" /\ phase[Suggested] = "idle"
  /\ session' =
       IF result[Suggested] = "ok"
       THEN [NextSuggestion(session) EXCEPT !.changed = @ \cup Changed(Suggested)]
       ELSE [session EXCEPT !.state = "err"]
  /\ UNCHANGED <<transactionVars, fixFaults, saves>>

-----------------------------------------------------------------------------
(* Others                                                                  *)

FixDie(p) ==
  /\ phase[p] # "idle"
  /\ FixFault
  /\ FixReturn(p, "died")
  /\ UNCHANGED <<content, original, start, saved, unrestored, applications, session, saves>>

Save(path, change) ==
  /\ saves < MaxSaves
  /\ content[path] # NoFile /\ change \notin content[path]
  /\ Write(path, content[path] \cup {change})
  /\ saved' = [p \in FixPlan |-> saved[p] \cup {path}]
  /\ saves' = saves + 1
  /\ UNCHANGED <<phase, at, original, start, unrestored, result, applications, session,
                 fixFaults>>

FixInit ==
  /\ content \in [Path -> {{}, NoFile}]
  /\ \A path \in Path : content[path] = {} => \E p \in FixPlan : path \in ToSet(Targets[p])
  /\ phase = [p \in FixPlan |-> "idle"]
  /\ at = [p \in FixPlan |-> 0]
  /\ original = [p \in FixPlan |-> content]
  /\ start = [p \in FixPlan |-> content]
  /\ saved = [p \in FixPlan |-> {}]
  /\ unrestored = [p \in FixPlan |-> {}]
  /\ result = [p \in FixPlan |-> "none"]
  /\ applications = [p \in FixPlan |-> 0]
  /\ session = [state |-> "none", suggestion |-> 1, offered |-> FALSE, changed |-> {}]
  /\ fixFaults = 0 /\ saves = 0

FixStep(p) ==
  \/ CheckPreconditions(p)
  \/ PrepareFile(p)
  \/ WriteBackup(p)
  \/ WriteTarget(p)
  \/ Proceed(p)
  \/ Verify(p)
  \/ RestoreFile(p)
  \/ ReturnError(p)

FixNext ==
  \/ \E p \in FixPlan : Apply(p) \/ FixStep(p) \/ FixDie(p)
  \/ StartSession \/ OfferSuggestion \/ AcceptSuggestion \/ AnswerOtherwise \/ SuggestionApplied
  \/ \E p \in FixPlan : \E path \in ToSet(Targets[p]), change \in {Near, Over} :
       Save(path, change)

FixSpec == FixInit /\ [][FixNext]_fixVars

-----------------------------------------------------------------------------
(* Where the calls leave each other's files alone.                         *)

(* Plans, which two processes may apply at a time, share no file; the      *)
(* suggestions, which a session applies in turn, may.                      *)
PlansApart ==
  \A p, q \in FixPlan \ Suggestion :
    p # q => ToSet(Targets[p]) \cap ToSet(Targets[q]) = {}

(* Calls that share a file run one after the other.                        *)
TakeTurns ==
  \A p, q \in FixPlan :
    p # q /\ phase[p] # "idle" /\ phase[q] # "idle" =>
      ToSet(Targets[p]) \cap ToSet(Targets[q]) = {}

(* No backup is itself a file that a plan edits.                           *)
BackupsApart ==
  \A p, q \in FixPlan : \A f \in ToSet(Targets[p]) :
    Backups[p] => BackupOf[f] \notin ToSet(Targets[q])

-----------------------------------------------------------------------------
(* Properties                                                              *)

(* apply either makes all its changes or none: an error leaves every file  *)
(* as the call found it, but for what the error reports as not restored    *)
(* and what others saved meanwhile; Ok leaves every change in place.  And  *)
(* a session that returns its report names the files it changed.           *)
AllOrNothing ==
  \A p \in FixPlan : phase[p] = "idle" =>
    \A f \in ToSet(Targets[p]) \ saved[p] :
      /\ result[p] = "err" /\ f \notin unrestored[p] => content[f] = start[p][f]
      /\ result[p] = "ok" /\ f \in Changes[p] =>
           p \in content[f] /\ start[p][f] \subseteq content[f]
      /\ session.state = "ok" /\ p \in Suggestion =>
           (p \in content[f] => f \in session.changed)

(* There is a text without the change of p to go back to; or another plan  *)
(* that keeps backups has read the file with this change since, and the    *)
(* backup is a text without the change of that plan.                       *)
BackedUp(p, f) ==
  LET backup == content[BackupOf[f]]
  IN /\ backup # NoFile
     /\ p \in backup => \E q \in FixPlan \ {p} :
          Backups[q] /\ f \in Changes[q] /\ p \in original[q][f] /\ q \notin backup

(* All backups come before the first file: while a call that keeps backups *)
(* writes, verifies or rolls back, the backup of every file it changes     *)
(* holds the text it read.  And wherever its change is left, by whatever   *)
(* death, failed rollback or further call, the file is backed up.  One     *)
(* option serves all suggestions of a Fixer, and one name all backups of a *)
(* file: after a second suggestion for it the backup has the first one's   *)
(* change, and what a person can go back to is the text before the second. *)
BackupPrecedes ==
  \A p \in FixPlan : Backups[p] =>
    \A f \in Changes[p] :
      /\ phase[p] \in {"write", "verify", "rollback"} /\ f \in Changed(p) =>
           content[BackupOf[f]] = original[p][f]
      /\ content[f] # NoFile /\ p \in content[f] => BackedUp(p, f)

(* "Stale edits are rejected instead of guessed": an edit is only ever     *)
(* written over the text it was validated against.                         *)
StaleRejected ==
  [][\A p \in FixPlan :
       phase[p] = "write" /\ at'[p] > at[p] =>
         LET f == Targets[p][at'[p]] IN content[f] = original[p][f]]_fixVars
=============================================================================
