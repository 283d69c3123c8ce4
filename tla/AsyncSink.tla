------------------------------ MODULE AsyncSink -----------------------------
(***************************************************************************)
(* AsyncDiagnosticSink (crates/diagprint-async): tasks submit diagnostics  *)
(* to a bounded tokio channel, one blocking worker hands them to a         *)
(* synchronous DiagnosticSink.                                             *)
(*                                                                         *)
(* The channel is external: a sender that waits holds a place in a FIFO    *)
(* line of permits, the first of the line as many as there are free slots; *)
(* closing or dropping the receiver fails every send, and dropping it      *)
(* drops what is queued, together with the reply channels in it.           *)
(***************************************************************************)
EXTENDS Integers, SequencesExt

CONSTANTS
  Task,        \* tasks that share the sink (&self)
  Owner,       \* the one that shuts it down or drops it (self)
  Capacity,    \* slots of the queue
  Policies,    \* backpressure policies to choose from
  MaxEmits     \* bound: diagnostics that enter the queue

Caller == Task \cup {Owner}
Nobody == "nobody"

ASSUME AsyncSinkAssumption ==
  /\ Owner \notin Task /\ Nobody \notin Caller
  /\ Capacity \in Nat \ {0}
  /\ Policies \subseteq {"Block", "Reject", "DropNewest"}
  /\ MaxEmits \in Nat

VARIABLES
  policy,      \* BackpressurePolicy of the sink
  queue,       \* the channel: [kind, by, n] records
  waiting,     \* callers in line for a permit
  open,        \* the receiver is neither closed nor dropped
  pc,          \* what each caller awaits or does next
  op,          \* the command a caller is sending, or sent last
  todo,        \* diagnostics left of the report being submitted
  before,      \* history: diagnostics accepted when the flush was called
  reply,       \* oneshot reply: "none" until the worker answers
  result,      \* what the caller's last call returned
  worker,      \* where worker_loop is
  cmd,         \* the command it handles
  ended,       \* what worker_loop returned, or "panic"
  failure,     \* WorkerState: a sink error was recorded
  accepted,    \* history: diagnostics that entered the queue, numbered in order
  delivered,   \* diagnostics the sink took
  flushed      \* how many of them the sink's last flush covered

channel == <<queue, waiting, open>>
callers == <<pc, op, todo, before, result>>
working == <<worker, cmd, ended, failure>>
sinkVars == <<delivered, flushed>>
vars == <<policy, channel, callers, reply, working, accepted, sinkVars>>

Results == {"none", "ok", "full", "worker", "closed", "join", "cancelled"}
Command == [kind : {"emit", "flush", "shutdown"}, by : Caller \cup {Nobody}, n : Nat]
Idle == [kind |-> "emit", by |-> Nobody, n |-> 0]

TypeOK ==
  /\ policy \in Policies
  /\ queue \in Seq(Command) /\ Len(queue) <= Capacity
  /\ waiting \in Seq(Caller) /\ IsInjective(waiting)
  /\ open \in BOOLEAN
  /\ pc \in [Caller -> {"idle", "emit", "try", "flush", "send", "response", "join",
                        "done", "dropped"}]
  /\ op \in [Caller -> {"emit", "flush", "shutdown"}]
  /\ todo \in [Task -> 0..MaxEmits]
  /\ before \in [Task -> 0..accepted]
  /\ reply \in [Caller -> {"none", "ok", "worker"}]
  /\ result \in [Caller -> Results]
  /\ worker \in {"recv", "emit", "flush", "shutdown", "final", "close", "respond",
                 "return", "ended"}
  /\ cmd \in Command
  /\ ended \in {"ok", "worker", "panic"}
  /\ failure \in BOOLEAN
  /\ accepted \in Nat
  /\ delivered \in Seq(1..accepted)
  /\ flushed \in 0..Len(delivered)

-----------------------------------------------------------------------------
(* Callers                                                                 *)

(* state_error_or_closed                                                   *)
ClosedError == IF failure THEN "worker" ELSE "closed"

Goto(c, where) == pc' = [pc EXCEPT ![c] = where]

(* A task's call returns; shutdown goes on to join the worker.             *)
Return(c, value) ==
  /\ result' = [result EXCEPT ![c] = value]
  /\ Goto(c, IF c = Owner THEN "join" ELSE "idle")
  /\ todo' = [t \in Task |-> IF t = c THEN 0 ELSE todo[t]]
  /\ before' = [t \in Task |-> IF t = c THEN 0 ELSE before[t]]
  /\ reply' = [reply EXCEPT ![c] = "none"]

NotYet == UNCHANGED <<result, before, reply>>

Shared == pc[Owner] = "idle"

(* The slots left; an unbounded channel would have room for everything.    *)
Unbounded == MaxEmits + 2

Free == Capacity - Len(queue)

(* Commands are queued in the order they come, controls too.               *)
ControlsFirst(command) ==
  IF command.kind = "emit" THEN Append(queue, command) ELSE <<command>> \o queue

Queued(command) == Append(queue, command)

(* A caller leaves the line, if it is in it.                               *)
LeaveLine(c) ==
  \/ \E i \in 1..Len(waiting) : waiting[i] = c /\ waiting' = RemoveAt(waiting, i)
  \/ (\A i \in 1..Len(waiting) : waiting[i] # c) /\ UNCHANGED waiting

(* emit of one diagnostic, or emit_report of a report of several.          *)
Emit(t, n) ==
  /\ pc[t] = "idle" /\ Shared
  /\ accepted + SumFunction(todo) + n <= MaxEmits
  /\ todo' = [todo EXCEPT ![t] = n]
  /\ op' = [op EXCEPT ![t] = "emit"]
  /\ result' = [result EXCEPT ![t] = "none"]
  /\ Goto(t, "emit")
  /\ UNCHANGED <<policy, channel, before, reply, working, accepted, sinkVars>>

Flush(t) ==
  /\ pc[t] = "idle" /\ Shared
  /\ op' = [op EXCEPT ![t] = "flush"]
  /\ before' = [before EXCEPT ![t] = accepted]
  /\ result' = [result EXCEPT ![t] = "none"]
  /\ Goto(t, "flush")
  /\ UNCHANGED <<policy, channel, todo, reply, working, accepted, sinkVars>>

(* Both look for a recorded failure first.                                 *)
CheckFailure(t) ==
  /\ pc[t] \in {"emit", "flush"}
  /\ \/ failure /\ Return(t, "worker") /\ UNCHANGED waiting
     \/ /\ ~failure
        /\ IF pc[t] = "emit" /\ policy # "Block"
           THEN Goto(t, "try") /\ UNCHANGED waiting
           ELSE Goto(t, "send") /\ waiting' = Append(waiting, t)
        /\ NotYet /\ UNCHANGED todo
  /\ UNCHANGED <<policy, queue, open, op, working, accepted, sinkVars>>

(* One diagnostic is dealt with, and emit_report takes the next.           *)
NextOfReport(t) ==
  \/ todo[t] = 1 /\ Return(t, "ok")
  \/ /\ todo[t] > 1
     /\ todo' = [todo EXCEPT ![t] = @ - 1]
     /\ Goto(t, "emit")
     /\ NotYet

Accept(t) ==
  /\ accepted' = accepted + 1
  /\ queue' = Queued([kind |-> "emit", by |-> t, n |-> accepted'])
  /\ NextOfReport(t)

(* try_send: a free slot that nobody in line holds a permit for.  A full   *)
(* queue drops a diagnostic up to DropNewest's severity, and is an error   *)
(* otherwise.                                                              *)
TrySend(t) ==
  /\ pc[t] = "try"
  /\ \/ open /\ Free > Len(waiting) /\ Accept(t)
     \/ /\ open /\ Free <= Len(waiting)
        /\ \/ policy = "DropNewest" /\ NextOfReport(t)
           \/ Return(t, "full")
        /\ UNCHANGED <<queue, accepted>>
     \/ ~open /\ Return(t, ClosedError) /\ UNCHANGED <<queue, accepted>>
  /\ UNCHANGED <<policy, waiting, open, op, working, sinkVars>>

(* send().await gets its permit.                                           *)
Send(c) ==
  /\ pc[c] = "send" /\ open
  /\ \E i \in 1..Len(waiting) : waiting[i] = c /\ i <= Free
  /\ LeaveLine(c)
  /\ IF op[c] = "emit"
     THEN Accept(c)
     ELSE /\ queue' = Queued([kind |-> op[c], by |-> c, n |-> 0])
          /\ Goto(c, "response")
          /\ NotYet /\ UNCHANGED <<accepted, todo>>
  /\ UNCHANGED <<policy, open, op, working, sinkVars>>

SendFails(c) ==
  /\ pc[c] = "send" /\ ~open
  /\ LeaveLine(c)
  /\ Return(c, ClosedError)
  /\ UNCHANGED <<policy, queue, open, op, working, accepted, sinkVars>>

(* The oneshot is answered, or dropped with the worker.                    *)
AwaitResponse(c) ==
  /\ pc[c] = "response"
  /\ reply[c] # "none" \/ worker = "ended"
  /\ Return(c, IF reply[c] # "none" THEN reply[c] ELSE ClosedError)
  /\ UNCHANGED <<policy, channel, op, working, accepted, sinkVars>>

(* The future is dropped at an await: out of the line, or no longer        *)
(* listening.                                                              *)
Unheard(command, c) ==
  IF command.kind # "emit" /\ command.by = c THEN [command EXCEPT !.by = Nobody] ELSE command

StopListening(c) ==
  /\ LeaveLine(c)
  /\ queue' = [i \in DOMAIN queue |-> Unheard(queue[i], c)]
  /\ cmd' = Unheard(cmd, c)

Cancel(t) ==
  /\ pc[t] \in {"send", "response"}
  /\ StopListening(t)
  /\ Return(t, "cancelled")
  /\ UNCHANGED <<policy, open, op, worker, ended, failure, accepted, sinkVars>>

(* shutdown(self), and dropping the sink or the shutdown's future: only    *)
(* when no task is inside a call.                                          *)
Quiet == \A t \in Task : pc[t] = "idle"

Shutdown ==
  /\ Shared /\ Quiet
  /\ op' = [op EXCEPT ![Owner] = "shutdown"]
  /\ waiting' = Append(waiting, Owner)
  /\ Goto(Owner, "send")
  /\ UNCHANGED <<policy, queue, open, todo, before, reply, result, working, accepted,
                 sinkVars>>

Drop ==
  /\ (Shared /\ Quiet) \/ pc[Owner] \in {"send", "response", "join"}
  /\ StopListening(Owner)
  /\ Goto(Owner, "dropped")
  /\ UNCHANGED <<policy, open, op, todo, before, reply, result, worker, ended, failure,
                 accepted, sinkVars>>

(* The worker is joined; a panic comes first, then the reply, then what    *)
(* the worker returned.                                                    *)
JoinWorker ==
  /\ pc[Owner] = "join" /\ worker = "ended"
  /\ result' = [result EXCEPT ![Owner] = IF ended = "panic" THEN "join"
                                         ELSE IF @ # "ok" THEN @ ELSE ended]
  /\ Goto(Owner, "done")
  /\ UNCHANGED <<policy, channel, op, todo, before, reply, working, accepted, sinkVars>>

-----------------------------------------------------------------------------
(* worker_loop                                                             *)

(* shutdown drops its sender before it joins, a dropped sink drops its own.*)
KeepsASender == pc[Owner] \in {"join", "done"}

SendersGone == pc[Owner] \in {"join", "done", "dropped"}

Receive ==
  /\ worker = "recv"
  /\ \/ /\ queue # <<>>
        /\ cmd' = Head(queue)
        /\ queue' = Tail(queue)
        /\ worker' = Head(queue).kind
        /\ open' = (open /\ Head(queue).kind # "shutdown")
     \/ /\ queue = <<>> /\ SendersGone
        /\ worker' = "final"
        /\ UNCHANGED <<cmd, queue, open>>
  /\ UNCHANGED <<policy, waiting, callers, reply, ended, failure, accepted, sinkVars>>

(* WorkerState::fail, before the receiver is closed.                       *)
NotRecorded == UNCHANGED failure

Fail == failure' = TRUE

(* A diagnostic the sink refuses ends the loop.                            *)
CarryOn == "recv"

AfterRefusal == "close"

SinkEmit ==
  /\ worker = "emit"
  /\ \/ /\ delivered' = Append(delivered, cmd.n)
        /\ worker' = "recv"
        /\ UNCHANGED <<ended, failure>>
     \/ /\ Fail
        /\ ended' = "worker"
        /\ worker' = AfterRefusal
        /\ UNCHANGED delivered
  /\ UNCHANGED <<policy, channel, callers, reply, cmd, accepted, flushed>>

SinkFlush ==
  /\ worker \in {"flush", "shutdown", "final"}
  /\ \/ /\ flushed' = Len(delivered)
        /\ worker' = IF worker = "final" THEN "return" ELSE "respond"
        /\ UNCHANGED <<ended, failure>>
     \/ /\ Fail
        /\ ended' = "worker"
        /\ worker' = CASE worker = "flush" -> "close"
                       [] worker = "shutdown" -> "respond"
                       [] worker = "final" -> "return"
        /\ UNCHANGED flushed
  /\ UNCHANGED <<policy, channel, callers, reply, cmd, accepted, delivered>>

CloseReceiver ==
  /\ worker = "close"
  /\ open' = FALSE
  /\ worker' = IF cmd.kind = "flush" THEN "respond" ELSE "return"
  /\ UNCHANGED <<policy, queue, waiting, callers, reply, cmd, ended, failure, accepted,
                 sinkVars>>

Respond ==
  /\ worker = "respond"
  /\ reply' = [c \in Caller |-> IF c = cmd.by THEN ended ELSE reply[c]]
  /\ worker' = IF ended = "ok" /\ cmd.kind = "flush" THEN "recv" ELSE "return"
  /\ UNCHANGED <<policy, channel, callers, cmd, ended, failure, accepted, sinkVars>>

(* The receiver is dropped, by the return or by the unwinding of a panic   *)
(* of the sink, and with it whatever is still queued.                      *)
KeepReceiver == UNCHANGED <<open, queue>>

DropReceiver == open' = FALSE /\ queue' = <<>>

End ==
  /\ \/ worker = "return" /\ UNCHANGED ended
     \/ worker \in {"emit", "flush", "shutdown", "final"} /\ ended' = "panic"
  /\ worker' = "ended"
  /\ DropReceiver
  /\ UNCHANGED <<policy, waiting, callers, reply, cmd, failure, accepted, sinkVars>>

-----------------------------------------------------------------------------
Init ==
  /\ policy \in Policies
  /\ queue = <<>> /\ waiting = <<>> /\ open = TRUE
  /\ pc = [c \in Caller |-> "idle"]
  /\ op = [c \in Caller |-> "emit"]
  /\ todo = [t \in Task |-> 0]
  /\ before = [t \in Task |-> 0]
  /\ reply = [c \in Caller |-> "none"]
  /\ result = [c \in Caller |-> "none"]
  /\ worker = "recv" /\ cmd = Idle /\ ended = "ok" /\ failure = FALSE
  /\ accepted = 0 /\ delivered = <<>> /\ flushed = 0

Poll(c) ==
  \/ c \in Task /\ (CheckFailure(c) \/ TrySend(c))
  \/ Send(c)
  \/ SendFails(c)
  \/ AwaitResponse(c)
  \/ c = Owner /\ JoinWorker

Worker == Receive \/ SinkEmit \/ SinkFlush \/ CloseReceiver \/ Respond \/ End

Next ==
  \/ \E t \in Task : (\E n \in 1..MaxEmits : Emit(t, n)) \/ Flush(t) \/ Cancel(t)
  \/ Shutdown
  \/ Drop
  \/ \E c \in Caller : Poll(c)
  \/ Worker

Spec == Init /\ [][Next]_vars

(* The runtime polls a future that is ready, the sink's calls return.      *)
Fairness == WF_vars(Worker) /\ \A c \in Caller : WF_vars(Poll(c))

FairSpec == Spec /\ Fairness

-----------------------------------------------------------------------------
(* Properties                                                              *)

(* The sink sees a prefix of what was accepted, in that order: nothing     *)
(* twice, and nothing after a diagnostic it refused.                       *)
NoGap == \A i \in DOMAIN delivered : delivered[i] = i

(* An accepted diagnostic is in the sink, in the worker's hands or in the  *)
(* queue, unless a failure of the sink is on record or the sink panicked:  *)
(* closing, cancelling, shutting down and dropping lose nothing silently.  *)
(* And a caller the worker turns away learns the sink's error: it is told  *)
(* no more than Closed only if there is none, the sink having panicked.    *)
InSink(n) == \E i \in 1..Len(delivered) : delivered[i] = n

InHand(n) == worker = "emit" /\ cmd.n = n

InQueue(n) == \E i \in 1..Len(queue) : queue[i].kind = "emit" /\ queue[i].n = n

LossIsReported ==
  /\ failure \/ ended = "panic" \/ \A n \in 1..accepted : InSink(n) \/ InHand(n) \/ InQueue(n)
  /\ (\E c \in Caller : result[c] = "closed") => ended = "panic"

(* Ok of flush: "all previously submitted diagnostics have been delivered  *)
(* and the underlying sink has flushed", those of every task.  Ok of       *)
(* shutdown: nothing is left behind.                                       *)
OkCovers ==
  /\ \A t \in Task : pc[t] = "response" /\ reply[t] = "ok" => before[t] <= flushed
  /\ pc[Owner] = "done" /\ result[Owner] = "ok" =>
       Len(delivered) = accepted /\ flushed = accepted

(* Every call returns, whatever the sink does but hang: nobody is left in  *)
(* the line for a permit or waiting for a reply.                           *)
CallsReturn ==
  \A c \in Caller :
    (pc[c] \notin {"idle", "done", "dropped"}) ~> (pc[c] \in {"idle", "done", "dropped"})

(* A sink dropped without shutdown is drained and its worker ends.         *)
AbandonedEnds == pc[Owner] = "dropped" ~> worker = "ended"
=============================================================================
