------------------------------- MODULE RunLog -------------------------------
(***************************************************************************)
(* What a directory of diagnostic-history runs promises, without files:    *)
(* one log that only grows, a durable prefix of it, and the appends that   *)
(* were reported to have succeeded.  History implements this module.       *)
(***************************************************************************)
EXTENDS Integers, SequencesExt

CONSTANT Report          \* the report states a run can record

VARIABLES
  log,                   \* the committed runs, oldest first
  stable,                \* the part of log that a power loss cannot take
  acked                  \* every log an append that returned Ok left behind

logVars == <<log, stable, acked>>

RunLogTypeOK ==
  /\ log \in Seq(Report)
  /\ stable \in Seq(Report)
  /\ acked \subseteq Seq(Report)

Init ==
  /\ log = <<>>
  /\ stable = <<>>
  /\ acked = {}

(* A run enters the log at its end, whoever writes it.                     *)
Commit ==
  /\ \E r \in Report : log' = Append(log, r)
  /\ UNCHANGED <<stable, acked>>

(* The directory is synchronised.                                          *)
Harden ==
  /\ stable' = log
  /\ UNCHANGED <<log, acked>>

(* An append returns Ok: its run, and every run before it, is durable.     *)
Acknowledge ==
  /\ stable' = log
  /\ \E n \in 1..Len(log) : acked' = acked \cup {SubSeq(log, 1, n)}
  /\ UNCHANGED log

(* Power is lost: what was not yet durable may be gone, together.          *)
LosePower ==
  /\ log' \in {log, stable}
  /\ stable' = log'
  /\ UNCHANGED acked

Next == Commit \/ Harden \/ Acknowledge \/ LosePower

Spec == Init /\ [][Next]_logVars

=============================================================================
