------------------------------ MODULE Reporter ------------------------------
(***************************************************************************)
(* The file a Reporter writes (src/reporter.rs, src/rotation/policy.rs).   *)
(* Threads of one process share clones of one reporter: each emission goes *)
(* to standard output, then, under the lock of the clones, to the log,     *)
(* which is first rotated when it is too large or of another hour: renamed *)
(* to an archive of the second, old archives removed, the archive          *)
(* compressed.  Any of these calls may fail and the process may die.       *)
(*                                                                         *)
(* An entry is a number, the order of emission; it has size one.           *)
(***************************************************************************)
EXTENDS Integers, FiniteSets, SequencesExt

CONSTANTS
  Threads,      \* threads with a clone of the reporter
  LogPolicies,  \* the reporters to choose from: [files, size : Nat, hourly, bare :
                \* BOOLEAN, packing : {"none", "available", "unavailable"}]
  MaxEmits,     \* bound: diagnostics emitted
  MaxSeconds,   \* bound: the clock
  SecondsPerHour,
  MaxLogFaults  \* bound: failures and deaths

VARIABLES
  options,      \* the reporter: [files, size, hourly, packing, bare]
  second,       \* the clock
  log,          \* the log file: its entries, when it was written to
  archives,     \* the files beside it whose name starts with the log's
  holder,       \* who holds the lock
  step,         \* per thread: where its emission is
  left,         \* per thread: diagnostics left of its report
  archive,      \* per thread: the archive it made
  emitted,      \* diagnostics taken up so far
  written,      \* history: the entries appended, in order
  replaced,     \* history: the archives whose name another took
  resisted,     \* history: the archives that could not be removed
  logFaults     \* failures and deaths so far

logVars == <<options, second, log, archives, holder, step, left, archive, emitted, written,
             replaced, resisted, logFaults>>

Nobody == "nobody"
NoLog == [there |-> FALSE, entries |-> {}, at |-> 0, second |-> 0]
NoArchive == <<0, "none">>
Foreign(at) == [name |-> <<0, "foreign">>, entries |-> {}, at |-> at]

Hour(s) == s \div SecondsPerHour

MoveTo(t, where) == step' = [step EXCEPT ![t] = where] /\ UNCHANGED <<left, archive, holder>>

LogFault == logFaults < MaxLogFaults /\ logFaults' = logFaults + 1

(* emit returns: the lock is released, emit_report goes on with the next   *)
(* diagnostic, and stops at an error.                                      *)
Done(t, rest) ==
  /\ step' = [step EXCEPT ![t] = IF rest = 0 THEN "idle" ELSE "print"]
  /\ left' = [left EXCEPT ![t] = rest]
  /\ archive' = [archive EXCEPT ![t] = NoArchive]
  /\ holder' = IF holder = t THEN Nobody ELSE holder

-----------------------------------------------------------------------------
(* emit, emit_with, emit_rendered_report: a report of n diagnostics.       *)
EmitReport(t, n) ==
  /\ step[t] = "idle" /\ emitted + n <= MaxEmits
  /\ step' = [step EXCEPT ![t] = "print"]
  /\ left' = [left EXCEPT ![t] = n]
  /\ emitted' = emitted + n
  /\ UNCHANGED <<options, second, log, archives, holder, archive, written, replaced, resisted,
                 logFaults>>

(* Below the severity nothing happens; else standard output comes first,   *)
(* and without it nothing is written.                                      *)
Show(t) ==
  /\ step[t] = "print"
  /\ \/ MoveTo(t, "lock") /\ UNCHANGED logFaults
     \/ Done(t, left[t] - 1) /\ UNCHANGED logFaults    \* filtered
     \/ LogFault /\ Done(t, 0)
  /\ UNCHANGED <<options, second, log, archives, emitted, written, replaced, resisted>>

(* The guard of write; the parent directory is made.                       *)
Lock(t) ==
  /\ step[t] = "lock" /\ holder = Nobody
  /\ holder' = t
  /\ step' = [step EXCEPT ![t] = "check"]
  /\ UNCHANGED <<options, second, log, archives, left, archive, emitted, written, replaced,
                 resisted, logFaults>>

ShouldRotate ==
  /\ log.there
  /\ \/ Cardinality(log.entries) + 1 > options.size
     \/ options.hourly /\ Hour(log.second) # Hour(second)

CheckRotation(t) ==
  /\ step[t] = "check"
  /\ MoveTo(t, IF ShouldRotate THEN "rotate" ELSE "append")
  /\ UNCHANGED <<options, second, log, archives, emitted, written, replaced, resisted, logFaults>>

(* rename, onto what has that name.                                        *)
Named(name) == {a \in archives : a.name = name}

Put(file) ==
  /\ archives' = (archives \ Named(file.name)) \cup {file}
  /\ replaced' = replaced \cup Named(file.name)

Rotate(t) ==
  /\ step[t] = "rotate"
  /\ log' = [NoLog EXCEPT !.there = (options.files = 0), !.at = log.at, !.second = second]
  /\ IF options.files = 0      \* truncated
     THEN MoveTo(t, "append") /\ UNCHANGED <<archives, replaced>>
     ELSE /\ Put([name |-> <<second, "plain">>, entries |-> log.entries, at |-> log.at])
          /\ archive' = [archive EXCEPT ![t] = <<second, "plain">>]
          /\ step' = [step EXCEPT ![t] = "cleanup"]
          /\ UNCHANGED <<left, holder>>
  /\ UNCHANGED <<options, second, emitted, written, resisted, logFaults>>

(* The files beyond the limit are the oldest, by their last modification;  *)
(* one that cannot be removed is passed over.                              *)
NewestGo(keep, files) == \A a \in keep, b \in files \ keep : a.at <= b.at

OldestGo(keep, files) == \A a \in keep, b \in files \ keep : b.at <= a.at

Cleanup(t) ==
  /\ step[t] = "cleanup" /\ ~options.bare
  /\ \E keep \in SUBSET archives :
       /\ Cardinality(keep) = IF Cardinality(archives) < options.files
                              THEN Cardinality(archives) ELSE options.files
       /\ OldestGo(keep, archives)
       /\ \/ archives' = keep /\ UNCHANGED <<resisted, logFaults>>
          \/ \E kept \in SUBSET (archives \ keep) :
               /\ LogFault /\ archives' = keep \cup kept
               /\ resisted' = resisted \cup kept
  /\ MoveTo(t, IF options.packing = "none" THEN "append" ELSE "read")
  /\ UNCHANGED <<options, second, log, emitted, written, replaced>>

(* The parent of a bare file name is "", which cannot be read.             *)
CleanupFails(t) ==
  /\ step[t] = "cleanup" /\ options.bare
  /\ Done(t, 0)
  /\ UNCHANGED <<options, second, log, archives, emitted, written, replaced, resisted, logFaults>>

(* compress_gzip, compress_zstd: the archive is read, a compressed file    *)
(* created beside it or emptied, filled, and the archive removed.          *)
Packed(name) == <<name[1], "packed">>

Source(t) == CHOOSE a \in archives : a.name = archive[t]

ReadArchive(t) ==
  /\ step[t] = "read"
  /\ IF options.packing = "unavailable" \/ Named(archive[t]) = {}
     THEN Done(t, 0) /\ UNCHANGED <<archives, replaced>>
     ELSE /\ Put([name |-> Packed(archive[t]), entries |-> {}, at |-> Len(written)])
          /\ MoveTo(t, "pack")
  /\ UNCHANGED <<options, second, log, emitted, written, resisted, logFaults>>

Pack(t) ==
  /\ step[t] = "pack"
  /\ archives' = (archives \ Named(Packed(archive[t])))
                 \cup {[Source(t) EXCEPT !.name = Packed(archive[t]), !.at = Len(written)]}
  /\ MoveTo(t, "remove")
  /\ UNCHANGED <<options, second, log, emitted, written, replaced, resisted, logFaults>>

RemoveArchive(t) ==
  /\ step[t] = "remove"
  /\ archives' = archives \ Named(archive[t])
  /\ MoveTo(t, "append")
  /\ UNCHANGED <<options, second, log, emitted, written, replaced, resisted, logFaults>>

(* open(create, append), writeln                                           *)
AppendEntry(t) ==
  /\ step[t] = "append"
  /\ LET entry == Len(written) + 1
     IN  /\ written' = Append(written, entry)
         /\ log' = [there |-> TRUE, entries |-> log.entries \cup {entry}, at |-> entry,
                    second |-> second]
  /\ Done(t, left[t] - 1)
  /\ UNCHANGED <<options, second, archives, emitted, replaced, resisted, logFaults>>

(* A call of the file system fails; a log may have been created, empty.    *)
FailWrite(t) ==
  /\ step[t] \notin {"idle", "print", "lock"}
  /\ LogFault /\ Done(t, 0)
  /\ \/ UNCHANGED log
     \/ step[t] = "append" /\ log' = [log EXCEPT !.there = TRUE, !.second = second]
  /\ UNCHANGED <<options, second, archives, emitted, written, replaced, resisted>>

(* The process ends, and is started again.                                 *)
DieWriting ==
  /\ \E t \in Threads : step[t] # "idle"
  /\ LogFault
  /\ step' = [t \in Threads |-> "idle"]
  /\ left' = [t \in Threads |-> 0]
  /\ archive' = [t \in Threads |-> NoArchive]
  /\ holder' = Nobody
  /\ UNCHANGED <<options, second, log, archives, emitted, written, replaced, resisted>>

Tick ==
  /\ second < MaxSeconds
  /\ second' = second + 1
  /\ UNCHANGED <<options, log, archives, holder, step, left, archive, emitted, written, replaced,
                 resisted, logFaults>>

(* Another program's file may have a name that starts with the log's.      *)
LogInit ==
  /\ options \in LogPolicies
  /\ archives \in {{}, {Foreign(0)}, {Foreign(MaxEmits)}}
  /\ second = 1 /\ log = NoLog
  /\ holder = Nobody
  /\ step = [t \in Threads |-> "idle"]
  /\ left = [t \in Threads |-> 0]
  /\ archive = [t \in Threads |-> NoArchive]
  /\ emitted = 0 /\ written = <<>> /\ replaced = {} /\ resisted = {}
  /\ logFaults = 0

Emission(t) ==
  \/ \E n \in 1..MaxEmits : EmitReport(t, n)
  \/ Show(t) \/ Lock(t) \/ CheckRotation(t) \/ Rotate(t)
  \/ Cleanup(t) \/ CleanupFails(t)
  \/ ReadArchive(t) \/ Pack(t) \/ RemoveArchive(t)
  \/ AppendEntry(t) \/ FailWrite(t)

LogNext == (\E t \in Threads : Emission(t)) \/ DieWriting \/ Tick

LogSpec == LogInit /\ [][LogNext]_logVars

-----------------------------------------------------------------------------
(* Properties                                                              *)

Within(files) == UNION {a.entries : a \in files}

OnDisk == log.entries \cup Within(archives)

Gone == ToSet(written) \ (OnDisk \cup Within(replaced))

(* Rotation, clean-up, compression and their failures at any step only     *)
(* ever lose the oldest entries of the log (whatever a removal that failed *)
(* left behind), and none while the reporter may keep another archive; but *)
(* for rotations of one second, whose archives have one name.  A failure   *)
(* leaves one archive more at most: they do not pile up by themselves.     *)
RetentionHolds ==
  /\ \A lost \in Gone, kept \in OnDisk \ Within(resisted) : lost < kept
  /\ Gone # {} /\ replaced = {} => Cardinality(archives) >= options.files
  /\ ~options.bare /\ options.files # 0 /\ holder = Nobody =>
       Cardinality(archives) <= options.files + logFaults
=============================================================================
