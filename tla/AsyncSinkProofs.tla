--------------------------- MODULE AsyncSinkProofs ----------------------------
(***************************************************************************)
(* Theorems about AsyncSink, for every set of tasks, every capacity and    *)
(* any number of diagnostics: the sink sees what was accepted in that      *)
(* order and without a gap, nothing is lost silently, and what flush and   *)
(* shutdown answer is true, whatever is cancelled, dropped, fails or       *)
(* panics.                                                                 *)
(***************************************************************************)
EXTENDS AsyncSink, SequenceTheorems, TLAPS

-----------------------------------------------------------------------------
(* The inductive invariant                                                 *)

(* The owner has queued its shutdown, or dropped the sink.                 *)
Leaving == pc[Owner] \in {"response", "join", "done", "dropped"}

ChannelInv ==
  /\ queue \in Seq(Command) /\ Len(queue) <= Capacity
  /\ waiting \in Seq(Caller) /\ IsInjective(waiting)
  /\ open \in BOOLEAN

(* A task is in a call only while the owner has the sink; a shutdown is    *)
(* sent by the owner alone.                                                *)
CallersInv ==
  /\ pc \in [Caller -> {"idle", "emit", "try", "flush", "send", "response", "join", "done",
                        "dropped"}]
  /\ op \in [Caller -> {"emit", "flush", "shutdown"}]
  /\ todo \in [Task -> 0..MaxEmits]
  /\ before \in [Task -> 0..accepted]
  /\ reply \in [Caller -> {"none", "ok", "worker"}]
  /\ result \in [Caller -> Results]
  /\ \A t \in Task : /\ pc[t] \in {"idle", "emit", "try", "flush", "send", "response"}
                     /\ op[t] # "shutdown"
  /\ pc[Owner] \in {"idle", "send", "response", "join", "done", "dropped"}
  /\ pc[Owner] \in {"send", "response"} => op[Owner] = "shutdown"
  /\ \A c \in Caller : reply[c] # "none" => pc[c] \in {"response", "dropped"}
  /\ pc[Owner] # "idle" => \A t \in Task : pc[t] = "idle"

(* In line for a permit is who is sending.                                 *)
LineInv ==
  \A c \in Caller : pc[c] = "send" <=> \E i \in 1..Len(waiting) : waiting[i] = c

(* The worker goes on until the sink refuses, fails or panics.             *)
WorkerInv ==
  /\ policy \in Policies
  /\ worker \in {"recv", "emit", "flush", "shutdown", "final", "close", "respond", "return",
                 "ended"}
  /\ cmd \in Command /\ ended \in {"ok", "worker", "panic"} /\ failure \in BOOLEAN
  /\ worker \in {"recv", "emit", "flush", "shutdown", "final"} => ended = "ok"
  /\ worker = "close" => ended = "worker"
  /\ ended = "panic" => worker = "ended"
  /\ ended = "ok" => ~failure
  /\ ended = "worker" => failure
  /\ worker \in {"emit", "flush", "shutdown"} => cmd.kind = worker
  /\ worker = "close" => cmd.kind \in {"emit", "flush"}
  /\ worker = "respond" => cmd.kind \in {"flush", "shutdown"}

(* Nothing has gone wrong.                                                 *)
Sound == ~failure /\ ended # "panic"

IsEmit(command) == command.kind = "emit"

(* The diagnostics of the queue are numbered in order, after those the     *)
(* sink has; none that was accepted is missing.                            *)
NumbersInv ==
  /\ accepted \in Nat /\ delivered \in Seq(Nat) /\ flushed \in 0..Len(delivered)
  /\ Len(delivered) <= accepted
  /\ \A i \in 1..Len(delivered) : delivered[i] = i
  /\ worker = "emit" => cmd.n = Len(delivered) + 1 /\ cmd.n <= accepted
  /\ \A i \in 1..Len(queue) : IsEmit(queue[i]) =>
       /\ queue[i].n > Len(delivered) /\ queue[i].n <= accepted
       /\ worker = "emit" => queue[i].n > cmd.n
       /\ \A j \in 1..Len(queue) : i < j /\ IsEmit(queue[j]) => queue[i].n < queue[j].n
  /\ Sound => \A n \in 1..accepted : n <= Len(delivered) \/ InHand(n) \/ InQueue(n)

(* A control command whose caller still listens is its only one, and it is *)
(* awaited.                                                                *)
Awaited(command) ==
  ~IsEmit(command) /\ command.by # Nobody =>
    /\ pc[command.by] = "response" /\ reply[command.by] = "none"
    /\ op[command.by] = command.kind

InWork == worker \in {"flush", "shutdown", "respond"} \/ (worker = "close" /\ ~IsEmit(cmd))

ControlsInv ==
  /\ \A i \in 1..Len(queue) :
       /\ Awaited(queue[i])
       /\ ~IsEmit(queue[i]) /\ queue[i].by # Nobody =>
            /\ \A j \in 1..Len(queue) : i # j /\ ~IsEmit(queue[j]) => queue[i].by # queue[j].by
            /\ InWork => cmd.by # queue[i].by
  /\ InWork => Awaited(cmd)

(* What was accepted before a flush was called goes to the sink before it. *)
FlushesInv ==
  /\ \A i \in 1..Len(queue) : queue[i].kind = "flush" /\ queue[i].by \in Task =>
       \A j \in 1..Len(queue) : i < j /\ IsEmit(queue[j]) => queue[j].n > before[queue[i].by]
  /\ worker = "flush" /\ cmd.by \in Task => before[cmd.by] <= Len(delivered)
  /\ worker = "respond" /\ ended = "ok" /\ cmd.by \in Task => before[cmd.by] <= flushed
  /\ \A t \in Task : pc[t] = "response" /\ reply[t] = "ok" => before[t] <= flushed

(* A shutdown is the last command there is, and the worker's loop ends     *)
(* with everything in the sink.                                            *)
Drained == queue = <<>> /\ Leaving

ShutdownInv ==
  /\ \A i \in 1..Len(queue) : queue[i].kind = "shutdown" => i = Len(queue) /\ Leaving
  /\ worker \in {"shutdown", "final"} => Drained
  /\ worker = "respond" /\ cmd.kind = "shutdown" => Drained
  /\ worker = "final" => pc[Owner] # "response"
  /\ (worker \in {"return", "ended"} \/ (worker = "respond" /\ cmd.kind = "shutdown"))
     /\ ended = "ok"
       => Drained /\ Len(delivered) = accepted /\ flushed = accepted
  /\ worker = "ended" => queue = <<>> /\ ~open
  /\ ~open => ~Sound \/ Leaving
  /\ pc[Owner] = "response" /\ reply[Owner] = "none" /\ Sound =>
       \/ \E i \in 1..Len(queue) : queue[i].by = Owner /\ ~IsEmit(queue[i])
       \/ worker \in {"shutdown", "respond"} /\ cmd.by = Owner

(* What calls returned.                                                    *)
ResultsInv ==
  /\ \A c \in Caller : result[c] = "closed" => ended = "panic"
  /\ pc[Owner] = "done" /\ result[Owner] = "ok" => worker = "ended" /\ ended = "ok"

IInv ==
  /\ ChannelInv /\ CallersInv /\ LineInv /\ WorkerInv /\ NumbersInv
  /\ ControlsInv /\ FlushesInv /\ ShutdownInv /\ ResultsInv
-----------------------------------------------------------------------------
(* Sequences                                                               *)

LEMMA AppendFacts ==
  ASSUME NEW S, NEW s \in Seq(S), NEW e \in S
  PROVE  /\ Append(s, e) \in Seq(S) /\ Len(Append(s, e)) = Len(s) + 1
         /\ \A i \in 1..Len(s) : Append(s, e)[i] = s[i]
         /\ Append(s, e)[Len(s) + 1] = e /\ Len(s) \in Nat
  BY AppendProperties, LenProperties

LEMMA TailFacts ==
  ASSUME NEW S, NEW s \in Seq(S), s # <<>>
  PROVE  /\ Len(s) \in Nat \ {0} /\ Head(s) = s[1] /\ Head(s) \in S
         /\ Tail(s) \in Seq(S) /\ Len(Tail(s)) = Len(s) - 1
         /\ \A i \in 1..Len(Tail(s)) : Tail(s)[i] = s[i + 1] /\ i + 1 \in 1..Len(s)
<1>1. Len(s) \in Nat /\ Len(s) # 0
  BY LenProperties, EmptySeq
<1> QED
  BY <1>1, HeadTailProperties

(* One place of a sequence less.                                           *)
LEMMA RemoveAtFacts ==
  ASSUME NEW S, NEW s \in Seq(S), NEW i \in 1..Len(s)
  PROVE  /\ RemoveAt(s, i) \in Seq(S) /\ Len(RemoveAt(s, i)) = Len(s) - 1
         /\ \A j \in 1..Len(RemoveAt(s, i)) :
              RemoveAt(s, i)[j] = IF j < i THEN s[j] ELSE s[j + 1]
<1> DEFINE left == SubSeq(s, 1, i - 1)
           right == SubSeq(s, i + 1, Len(s))
<1>1. Len(s) \in Nat
  BY LenProperties
<1>2. /\ left \in Seq(S) /\ Len(left) = i - 1
      /\ \A j \in 1..(i - 1) : left[j] = s[j]
  <2>1. \A k \in 1..(i - 1) : s[k] \in S
    BY <1>1, ElementOfSeq
  <2> QED
    BY <1>1, <2>1, SubSeqProperties
<1>3. /\ right \in Seq(S) /\ Len(right) = Len(s) - i
      /\ \A j \in 1..(Len(s) - i) : right[j] = s[i + j]
  <2>1. \A k \in (i + 1)..Len(s) : s[k] \in S
    BY <1>1, ElementOfSeq
  <2> QED
    BY <1>1, <2>1, SubSeqProperties
<1> HIDE DEF left, right
<1>4. /\ left \o right \in Seq(S) /\ Len(left \o right) = Len(left) + Len(right)
      /\ \A j \in 1..Len(left) + Len(right) :
           (left \o right)[j] = IF j <= Len(left) THEN left[j] ELSE right[j - Len(left)]
  BY <1>2, <1>3, ConcatProperties
<1>5. RemoveAt(s, i) = left \o right
  BY DEF RemoveAt, left, right
<1>6. ASSUME NEW j \in 1..(Len(s) - 1)
      PROVE  (left \o right)[j] = IF j < i THEN s[j] ELSE s[j + 1]
  <2>1. CASE j < i
    BY <1>1, <1>2, <1>3, <1>4, <2>1
  <2>2. CASE ~(j < i)
    <3>1. (left \o right)[j] = right[j - (i - 1)]
      BY <1>1, <1>2, <1>3, <1>4, <2>2
    <3>2. j - (i - 1) \in 1..(Len(s) - i) /\ i + (j - (i - 1)) = j + 1
      BY <1>1, <2>2
    <3> QED
      BY <1>3, <2>2, <3>1, <3>2
  <2> QED
    BY <2>1, <2>2
<1>7. Len(RemoveAt(s, i)) = Len(s) - 1
  <2>1. Len(RemoveAt(s, i)) = Len(left) + Len(right)
    BY <1>4, <1>5, Zenon
  <2>2. (i - 1) + (Len(s) - i) = Len(s) - 1
    BY <1>1
  <2>3. Len(left) + Len(right) = (i - 1) + (Len(s) - i)
    BY <1>2, <1>3, Zenon
  <2> QED
    BY <2>1, <2>2, <2>3, Zenon
<1> QED
  BY <1>4, <1>5, <1>6, <1>7, Zenon

(* The line after a caller has left it.                                    *)
LEMMA LeaveFacts ==
  ASSUME ChannelInv, NEW c \in Caller, LeaveLine(c)
  PROVE  /\ waiting' \in Seq(Caller) /\ IsInjective(waiting')
         /\ \A d \in Caller : (\E i \in 1..Len(waiting') : waiting'[i] = d)
              <=> (d # c /\ \E i \in 1..Len(waiting) : waiting[i] = d)
<1>1. waiting \in Seq(Caller) /\ Len(waiting) \in Nat /\ DOMAIN waiting = 1..Len(waiting)
      /\ \A a, b \in 1..Len(waiting) : waiting[a] = waiting[b] => a = b
  BY LenProperties DEF ChannelInv, IsInjective
<1>2. CASE UNCHANGED waiting /\ \A i \in 1..Len(waiting) : waiting[i] # c
  BY <1>1, <1>2 DEF IsInjective, ChannelInv
<1>3. ASSUME NEW i \in 1..Len(waiting), waiting[i] = c, waiting' = RemoveAt(waiting, i)
      PROVE  /\ waiting' \in Seq(Caller) /\ IsInjective(waiting')
             /\ \A d \in Caller : (\E k \in 1..Len(waiting') : waiting'[k] = d)
                  <=> (d # c /\ \E k \in 1..Len(waiting) : waiting[k] = d)
  <2>1. /\ waiting' \in Seq(Caller) /\ Len(waiting') = Len(waiting) - 1
        /\ \A j \in 1..Len(waiting') :
             waiting'[j] = IF j < i THEN waiting[j] ELSE waiting[j + 1]
    BY <1>1, <1>3, RemoveAtFacts
  <2>2. IsInjective(waiting')
    <3>1. DOMAIN waiting' = 1..Len(waiting')
      BY <2>1, LenProperties
    <3>2. ASSUME NEW a \in 1..Len(waiting'), NEW b \in 1..Len(waiting'), waiting'[a] = waiting'[b]
          PROVE  a = b
      <4> DEFINE at(k) == IF k < i THEN k ELSE k + 1
      <4>1. /\ at(a) \in 1..Len(waiting) /\ at(b) \in 1..Len(waiting)
            /\ waiting[at(a)] = waiting[at(b)]
        BY <1>1, <2>1, <3>2
      <4>2. at(a) = at(b)
        BY <1>1, <4>1
      <4> QED
        BY <4>2
    <3> QED
      BY <3>1, <3>2 DEF IsInjective
  <2>3. ASSUME NEW d \in Caller, NEW k \in 1..Len(waiting'), waiting'[k] = d
        PROVE  d # c /\ \E j \in 1..Len(waiting) : waiting[j] = d
    <3> DEFINE at == IF k < i THEN k ELSE k + 1
    <3>1. at \in 1..Len(waiting) /\ waiting[at] = d /\ at # i
      BY <1>1, <2>1, <2>3
    <3> QED
      BY <1>1, <1>3, <3>1
  <2>4. ASSUME NEW d \in Caller, d # c, NEW k \in 1..Len(waiting), waiting[k] = d
        PROVE  \E j \in 1..Len(waiting') : waiting'[j] = d
    <3> DEFINE at == IF k < i THEN k ELSE k - 1
    <3>1. at \in 1..Len(waiting') /\ waiting'[at] = d
      BY <1>1, <1>3, <2>1, <2>4
    <3> QED
      BY <3>1
  <2> QED
    BY <2>1, <2>2, <2>3, <2>4
<1> QED
  BY <1>2, <1>3 DEF LeaveLine

(* The line after a caller has joined it.                                  *)
LEMMA JoinFacts ==
  ASSUME ChannelInv, LineInv, NEW c \in Caller, pc[c] # "send", waiting' = Append(waiting, c)
  PROVE  /\ waiting' \in Seq(Caller) /\ IsInjective(waiting')
         /\ \A d \in Caller : (\E i \in 1..Len(waiting') : waiting'[i] = d)
              <=> (d = c \/ \E i \in 1..Len(waiting) : waiting[i] = d)
<1>1. /\ waiting' \in Seq(Caller) /\ Len(waiting') = Len(waiting) + 1 /\ Len(waiting) \in Nat
      /\ \A i \in 1..Len(waiting) : waiting'[i] = waiting[i]
      /\ waiting'[Len(waiting) + 1] = c
  BY AppendFacts DEF ChannelInv
<1>2. /\ DOMAIN waiting = 1..Len(waiting) /\ DOMAIN waiting' = 1..Len(waiting')
      /\ \A a, b \in 1..Len(waiting) : waiting[a] = waiting[b] => a = b
  BY <1>1, LenProperties DEF ChannelInv, IsInjective
<1>3. \A i \in 1..Len(waiting) : waiting[i] # c
  BY DEF LineInv
<1>4. IsInjective(waiting')
  <2>1. ASSUME NEW a \in 1..Len(waiting'), NEW b \in 1..Len(waiting'), waiting'[a] = waiting'[b]
        PROVE  a = b
    BY <1>1, <1>2, <1>3, <2>1
  <2> QED
    BY <1>2, <2>1 DEF IsInjective
<1> QED
  BY <1>1, <1>4
-----------------------------------------------------------------------------
(* Callers                                                                 *)

(* The commands of the queue and of the worker have callers, or nobody.    *)
LEMMA CommandFacts ==
  ASSUME ChannelInv, WorkerInv
  PROVE  /\ Len(queue) \in Nat /\ DOMAIN queue = 1..Len(queue)
         /\ \A i \in 1..Len(queue) : queue[i] \in Command
         /\ cmd \in Command
  BY LenProperties, ElementOfSeq DEF ChannelInv, WorkerInv

(* No control command is awaited by who does not wait for an answer.       *)
LEMMA NotHeard ==
  ASSUME IInv, NEW c \in Caller,
         pc[c] = "response" => reply[c] # "none" \/ worker = "ended"
  PROVE  /\ \A i \in 1..Len(queue) : ~IsEmit(queue[i]) => queue[i].by # c
         /\ InWork /\ ~IsEmit(cmd) => cmd.by # c
<1>1. c # Nobody
  BY AsyncSinkAssumption
<1>2. worker = "ended" => Len(queue) = 0 /\ ~InWork
  BY EmptySeq DEF IInv, ShutdownInv, InWork
<1>3. Len(queue) \in Nat
  BY CommandFacts DEF IInv
<1>4. CASE worker = "ended"
  BY <1>2, <1>3, <1>4
<1>5. CASE worker # "ended"
  BY <1>1, <1>5 DEF IInv, ControlsInv, Awaited
<1> QED
  BY <1>4, <1>5

(* A step of a call that neither queues a command nor takes one back.      *)
Calls(c) ==
  /\ UNCHANGED <<policy, queue, open, working, accepted, sinkVars>>
  /\ \A d \in Caller \ {c} : /\ pc'[d] = pc[d] /\ op'[d] = op[d]
                              /\ reply'[d] = reply[d] /\ result'[d] = result[d]
  /\ \A t \in Task \ {c} : before'[t] = before[t]

LEMMA CallStep ==
  ASSUME IInv, NEW c \in Caller, Calls(c), CallersInv', LineInv',
         waiting' \in Seq(Caller), IsInjective(waiting'),
         pc[c] = "response" => reply[c] # "none" \/ worker = "ended",
         pc'[c] # "response", Leaving => Leaving',
         result'[c] = "closed" => ended = "panic",
         pc'[Owner] = "done" /\ result'[Owner] = "ok" => worker = "ended" /\ ended = "ok"
  PROVE  IInv'
<1> USE DEF Calls, working, sinkVars
<1>1. ChannelInv'
  BY DEF IInv, ChannelInv
<1>2. WorkerInv' /\ NumbersInv'
  BY DEF IInv, WorkerInv, NumbersInv, Sound, InHand, InQueue, IsEmit
<1>3. /\ \A i \in 1..Len(queue) : ~IsEmit(queue[i]) => queue[i].by # c
      /\ InWork /\ ~IsEmit(cmd) => cmd.by # c
  BY NotHeard
<1>4. /\ \A i \in 1..Len(queue) : queue[i] \in Command
      /\ cmd \in Command
  BY CommandFacts DEF IInv
<1>5. ASSUME NEW command \in Command, Awaited(command), ~IsEmit(command) => command.by # c
      PROVE  Awaited(command)'
  BY <1>5 DEF Awaited, Command, IsEmit
<1>6. ControlsInv'
  <2>1. InWork' <=> InWork
    BY DEF InWork, IsEmit
  <2>2. InWork => Awaited(cmd)'
    BY <1>3, <1>4, <1>5 DEF IInv, ControlsInv, Awaited
  <2>3. \A i \in 1..Len(queue) : Awaited(queue[i])'
    BY <1>3, <1>4, <1>5 DEF IInv, ControlsInv
  <2> QED
    BY <2>1, <2>2, <2>3 DEF IInv, ControlsInv, IsEmit, Awaited
<1>7. FlushesInv'
  <2>1. \A i \in 1..Len(queue) : queue[i].kind = "flush" /\ queue[i].by \in Task =>
          before'[queue[i].by] = before[queue[i].by]
    BY <1>3 DEF IsEmit
  <2>2. worker \in {"flush", "respond"} /\ cmd.by \in Task => before'[cmd.by] = before[cmd.by]
    BY <1>3 DEF InWork, IsEmit, IInv, WorkerInv
  <2>3. \A t \in Task : pc'[t] = "response" => t # c
    OBVIOUS
  <2> QED
    BY <2>1, <2>2, <2>3 DEF IInv, FlushesInv, IsEmit, Caller
<1>8. ShutdownInv'
  <2>1. pc'[Owner] = "response" => pc[Owner] = "response" /\ reply'[Owner] = reply[Owner]
    BY DEF Caller
  <2> QED
    BY <2>1 DEF IInv, ShutdownInv, Drained, Sound, IsEmit
<1>9. ResultsInv'
  BY DEF IInv, ResultsInv
<1> QED
  BY <1>1, <1>2, <1>6, <1>7, <1>8, <1>9 DEF IInv

(* A call returns.                                                         *)
LEMMA ReturnFacts ==
  ASSUME IInv, NEW c \in Caller, NEW value \in Results, Return(c, value), pc[c] # "idle",
         UNCHANGED op, accepted' \in {accepted, accepted + 1}
  PROVE  /\ CallersInv'
         /\ \A d \in Caller \ {c} : /\ pc'[d] = pc[d] /\ reply'[d] = reply[d]
                                     /\ result'[d] = result[d]
         /\ \A t \in Task \ {c} : before'[t] = before[t]
         /\ pc'[c] = IF c = Owner THEN "join" ELSE "idle"
         /\ result'[c] = value
<1> USE DEF IInv, CallersInv, Return, Goto, Caller
<1>1. /\ \A d \in Caller \ {c} : /\ pc'[d] = pc[d] /\ reply'[d] = reply[d]
                                  /\ result'[d] = result[d]
      /\ \A t \in Task \ {c} : before'[t] = before[t]
      /\ pc'[c] = IF c = Owner THEN "join" ELSE "idle"
      /\ result'[c] = value /\ reply'[c] = "none"
  OBVIOUS
<1>2. /\ reply' \in [Caller -> {"none", "ok", "worker"}] /\ result' \in [Caller -> Results]
      /\ todo' \in [Task -> 0..MaxEmits] /\ before' \in [Task -> 0..accepted']
  <2>1. 0 \in 0..MaxEmits
    BY AsyncSinkAssumption
  <2>2. 0 \in 0..accepted' /\ 0..accepted \subseteq 0..accepted'
    BY DEF NumbersInv
  <2> QED
    BY <2>1, <2>2
<1>3. pc' \in [Caller -> {"idle", "emit", "try", "flush", "send", "response", "join", "done",
                         "dropped"}]
  OBVIOUS
<1>4. Owner \notin Task
  BY AsyncSinkAssumption
<1> QED
  BY <1>1, <1>2, <1>3, <1>4

LEMMA EmitStep ==
  ASSUME IInv, NEW t \in Task, NEW n \in 1..MaxEmits, Emit(t, n)
  PROVE  IInv'
<1>1. t \in Caller /\ t # Owner /\ Owner \notin Task
  BY AsyncSinkAssumption DEF Caller
<1>2. /\ pc[t] = "idle" /\ pc[Owner] = "idle" /\ op' = [op EXCEPT ![t] = "emit"]
      /\ result' = [result EXCEPT ![t] = "none"] /\ pc' = [pc EXCEPT ![t] = "emit"]
      /\ todo' = [todo EXCEPT ![t] = n]
      /\ UNCHANGED <<policy, queue, waiting, open, before, reply, working, accepted, sinkVars>>
  BY DEF Emit, Shared, Goto, channel
<1>3. CallersInv'
  BY <1>1, <1>2, AsyncSinkAssumption DEF IInv, CallersInv, Results
<1>4. Calls(t) /\ pc'[t] = "emit" /\ pc'[Owner] = "idle" /\ result'[t] = "none"
  BY <1>1, <1>2 DEF Calls, IInv, CallersInv, Caller
<1>5. LineInv'
  BY <1>1, <1>2 DEF IInv, LineInv, CallersInv
<1> QED
  BY <1>1, <1>2, <1>3, <1>4, <1>5, CallStep DEF IInv, ChannelInv, Leaving

LEMMA FlushStep ==
  ASSUME IInv, NEW t \in Task, Flush(t)
  PROVE  IInv'
<1>1. t \in Caller /\ t # Owner /\ Owner \notin Task
  BY AsyncSinkAssumption DEF Caller
<1>2. /\ pc[t] = "idle" /\ pc[Owner] = "idle" /\ op' = [op EXCEPT ![t] = "flush"]
      /\ result' = [result EXCEPT ![t] = "none"] /\ pc' = [pc EXCEPT ![t] = "flush"]
      /\ before' = [before EXCEPT ![t] = accepted]
      /\ UNCHANGED <<policy, queue, waiting, open, todo, reply, working, accepted, sinkVars>>
  BY DEF Flush, Shared, Goto, channel
<1>3. CallersInv'
  <2>1. accepted \in 0..accepted
    BY DEF IInv, NumbersInv
  <2> QED
    BY <1>1, <1>2, <2>1 DEF IInv, CallersInv, Results
<1>4. Calls(t) /\ pc'[t] = "flush" /\ pc'[Owner] = "idle" /\ result'[t] = "none"
  BY <1>1, <1>2 DEF Calls, IInv, CallersInv, Caller
<1>5. LineInv'
  BY <1>1, <1>2 DEF IInv, LineInv, CallersInv
<1> QED
  BY <1>1, <1>2, <1>3, <1>4, <1>5, CallStep DEF IInv, ChannelInv, Leaving

(* A call that returns without having sent its command.                    *)
LEMMA GiveUpStep ==
  ASSUME IInv, NEW c \in Caller, NEW value \in Results, Return(c, value),
         pc[c] \notin {"idle", "join", "done", "dropped"}, LeaveLine(c),
         UNCHANGED <<policy, queue, open, op, working, accepted, sinkVars>>,
         pc[c] = "response" => reply[c] # "none" \/ worker = "ended",
         value = "closed" => ended = "panic"
  PROVE  IInv'
<1>1. /\ CallersInv'
      /\ \A d \in Caller \ {c} : /\ pc'[d] = pc[d] /\ reply'[d] = reply[d]
                                  /\ result'[d] = result[d]
      /\ \A t \in Task \ {c} : before'[t] = before[t]
      /\ pc'[c] = IF c = Owner THEN "join" ELSE "idle"
      /\ result'[c] = value
  BY ReturnFacts
<1>2. Calls(c)
  BY <1>1 DEF Calls
<1>3. /\ waiting' \in Seq(Caller) /\ IsInjective(waiting')
      /\ \A d \in Caller : (\E i \in 1..Len(waiting') : waiting'[i] = d)
           <=> (d # c /\ \E i \in 1..Len(waiting) : waiting[i] = d)
  BY LeaveFacts DEF IInv
<1>4. LineInv'
  BY <1>1, <1>3 DEF IInv, LineInv
<1>5. pc'[c] # "response" /\ (Leaving => Leaving')
  BY <1>1 DEF Leaving, Caller
<1>6. pc'[Owner] = "done" /\ result'[Owner] = "ok" => worker = "ended" /\ ended = "ok"
  BY <1>1 DEF IInv, ResultsInv, Caller
<1> QED
  BY <1>1, <1>2, <1>3, <1>4, <1>5, <1>6, CallStep

(* A channel without receiver: a caller outside a shutdown learns why.     *)
LEMMA ClosedFacts ==
  ASSUME IInv
  PROVE  /\ ClosedError \in Results
         /\ ~open /\ ~Leaving => (ClosedError = "closed" => ended = "panic")
         /\ ~failure /\ worker = "ended" /\ ended # "panic" => ended = "ok"
  BY DEF IInv, ShutdownInv, WorkerInv, ClosedError, Results, Sound

LEMMA CheckFailureStep ==
  ASSUME IInv, NEW t \in Task, CheckFailure(t)
  PROVE  IInv'
<1>1. /\ t \in Caller /\ t # Owner /\ Owner \notin Task /\ pc[t] \in {"emit", "flush"}
      /\ UNCHANGED <<policy, queue, open, op, working, accepted, sinkVars>>
      /\ pc[Owner] = "idle"
  BY AsyncSinkAssumption DEF Caller, CheckFailure, IInv, CallersInv
<1>2. CASE Return(t, "worker") /\ UNCHANGED waiting
  <2>1. LeaveLine(t)
    BY <1>1, <1>2 DEF LeaveLine, IInv, LineInv
  <2> QED
    BY <1>1, <1>2, <2>1, GiveUpStep DEF Results
<1>3. CASE Goto(t, "try") /\ UNCHANGED waiting /\ NotYet /\ UNCHANGED todo
  <2>1. pc' = [pc EXCEPT ![t] = "try"] /\ UNCHANGED <<result, before, reply>>
    BY <1>3 DEF Goto, NotYet
  <2>2. CallersInv'
    BY <1>1, <1>3, <2>1 DEF IInv, CallersInv
  <2>3. Calls(t) /\ LineInv' /\ pc'[t] = "try" /\ pc'[Owner] = "idle"
    BY <1>1, <1>3, <2>1 DEF Calls, IInv, LineInv, CallersInv, Caller
  <2> QED
    BY <1>1, <1>3, <2>1, <2>2, <2>3, CallStep DEF IInv, ChannelInv, Leaving, ResultsInv
<1>4. CASE Goto(t, "send") /\ waiting' = Append(waiting, t) /\ NotYet /\ UNCHANGED todo
  <2>1. pc' = [pc EXCEPT ![t] = "send"] /\ UNCHANGED <<result, before, reply>>
    BY <1>4 DEF Goto, NotYet
  <2>2. CallersInv'
    BY <1>1, <1>4, <2>1 DEF IInv, CallersInv
  <2>3. Calls(t) /\ pc'[t] = "send" /\ pc'[Owner] = "idle"
    BY <1>1, <1>4, <2>1 DEF Calls, IInv, CallersInv, Caller
  <2>4. /\ waiting' \in Seq(Caller) /\ IsInjective(waiting')
        /\ \A d \in Caller : (\E i \in 1..Len(waiting') : waiting'[i] = d)
             <=> (d = t \/ \E i \in 1..Len(waiting) : waiting[i] = d)
    BY <1>1, <1>4, JoinFacts DEF IInv
  <2>5. LineInv'
    BY <2>1, <2>4 DEF IInv, LineInv, CallersInv
  <2> QED
    BY <1>1, <2>1, <2>2, <2>3, <2>4, <2>5, CallStep DEF IInv, Leaving, ResultsInv
<1> QED
  BY <1>2, <1>3, <1>4 DEF CheckFailure

(* A diagnostic of a report is dealt with.                                 *)
LEMMA NextOfReportFacts ==
  ASSUME IInv, NEW t \in Task, NextOfReport(t), pc[t] \in {"try", "send"},
         UNCHANGED op, accepted' \in {accepted, accepted + 1}
  PROVE  /\ CallersInv'
         /\ \A d \in Caller \ {t} : /\ pc'[d] = pc[d] /\ reply'[d] = reply[d]
                                     /\ result'[d] = result[d]
         /\ \A u \in Task \ {t} : before'[u] = before[u]
         /\ pc'[t] \in {"idle", "emit"} /\ result'[t] \in {"ok", result[t]}
<1>1. t \in Caller /\ t # Owner /\ Owner \notin Task
  BY AsyncSinkAssumption DEF Caller
<1>2. CASE Return(t, "ok")
  BY <1>1, <1>2, ReturnFacts DEF Results
<1>3. CASE todo[t] > 1 /\ todo' = [todo EXCEPT ![t] = @ - 1] /\ Goto(t, "emit") /\ NotYet
  <2>1. /\ pc' = [pc EXCEPT ![t] = "emit"] /\ UNCHANGED <<result, before, reply>>
        /\ todo' = [todo EXCEPT ![t] = @ - 1] /\ todo[t] > 1
    BY <1>3 DEF Goto, NotYet
  <2>2. /\ todo' \in [Task -> 0..MaxEmits] /\ before' \in [Task -> 0..accepted']
    <3>1. todo[t] - 1 \in 0..MaxEmits
      BY <2>1, AsyncSinkAssumption DEF IInv, CallersInv
    <3>2. 0..accepted \subseteq 0..accepted'
      BY DEF IInv, NumbersInv
    <3> QED
      BY <2>1, <3>1, <3>2 DEF IInv, CallersInv
  <2>3. pc[Owner] = "idle"
    BY DEF IInv, CallersInv
  <2>4. CallersInv'
    BY <1>1, <2>1, <2>2, <2>3 DEF IInv, CallersInv
  <2> QED
    BY <1>1, <2>1, <2>4 DEF IInv, CallersInv
<1> QED
  BY <1>2, <1>3 DEF NextOfReport

(* A command more in the queue.                                            *)
LEMMA QueueFacts ==
  ASSUME ChannelInv, NEW e \in Command, queue' = Queued(e), Len(queue) < Capacity
  PROVE  /\ queue' \in Seq(Command) /\ Len(queue') <= Capacity
         /\ Len(queue) \in Nat /\ Len(queue') = Len(queue) + 1
         /\ \A i \in 1..Len(queue) : queue'[i] = queue[i]
         /\ queue'[Len(queue) + 1] = e
<1>1. queue \in Seq(Command) /\ queue' = Append(queue, e)
  BY DEF ChannelInv, Queued
<1> QED
  BY <1>1, AppendFacts, AsyncSinkAssumption

(* An accepted diagnostic is the last of the queue, numbered next.         *)
LEMMA AcceptStep ==
  ASSUME IInv, NEW t \in Task, Accept(t), pc[t] \in {"try", "send"}, LeaveLine(t),
         open, Len(queue) < Capacity, UNCHANGED <<policy, open, op, working, sinkVars>>
  PROVE  IInv'
<1> DEFINE e == [kind |-> "emit", by |-> t, n |-> accepted + 1]
<1>1. /\ t \in Caller /\ t # Owner /\ t # Nobody /\ Owner \notin Task
      /\ pc[Owner] = "idle" /\ ~Leaving /\ accepted \in Nat
  BY AsyncSinkAssumption DEF Caller, IInv, CallersInv, Leaving, NumbersInv
<1>2. accepted' = accepted + 1 /\ queue' = Queued(e) /\ NextOfReport(t)
  BY DEF Accept
<1>3. e \in Command /\ IsEmit(e) /\ e.n = accepted + 1
  BY <1>1 DEF Command, IsEmit
<1> HIDE DEF e
<1>4. /\ queue' \in Seq(Command) /\ Len(queue') <= Capacity
      /\ Len(queue) \in Nat /\ Len(queue') = Len(queue) + 1
      /\ \A i \in 1..Len(queue) : queue'[i] = queue[i]
      /\ queue'[Len(queue) + 1] = e
  BY <1>2, <1>3, QueueFacts DEF IInv
<1>5. /\ CallersInv'
      /\ \A d \in Caller \ {t} : /\ pc'[d] = pc[d] /\ reply'[d] = reply[d]
                                  /\ result'[d] = result[d]
      /\ \A u \in Task \ {t} : before'[u] = before[u]
      /\ pc'[t] \in {"idle", "emit"} /\ result'[t] \in {"ok", result[t]}
  BY <1>2, NextOfReportFacts
<1>6. /\ waiting' \in Seq(Caller) /\ IsInjective(waiting')
      /\ \A d \in Caller : (\E i \in 1..Len(waiting') : waiting'[i] = d)
           <=> (d # t /\ \E i \in 1..Len(waiting) : waiting[i] = d)
  BY <1>1, LeaveFacts DEF IInv
<1>7. ChannelInv' /\ LineInv' /\ WorkerInv'
  BY <1>4, <1>5, <1>6 DEF IInv, ChannelInv, LineInv, WorkerInv, working
<1>8. ASSUME NEW i \in 1..Len(queue')
      PROVE  (i \in 1..Len(queue) /\ queue'[i] = queue[i]) \/ (i = Len(queue) + 1 /\ queue'[i] = e)
  BY <1>4, <1>8
<1>9. UNCHANGED <<open, policy, op, worker, cmd, ended, failure, delivered, flushed>>
  BY DEF working, sinkVars
<1>10. NumbersInv'
  <2>1. /\ accepted' \in Nat /\ delivered' \in Seq(Nat) /\ flushed' \in 0..Len(delivered')
        /\ Len(delivered') <= accepted' /\ Len(delivered) \in Nat
        /\ \A i \in 1..Len(delivered') : delivered'[i] = i
        /\ worker' = "emit" => cmd'.n = Len(delivered') + 1 /\ cmd'.n <= accepted'
    BY <1>1, <1>2, <1>9, LenProperties DEF IInv, NumbersInv
  <2>2. \A i \in 1..Len(queue) : queue[i].n \in Nat
    BY CommandFacts DEF IInv, Command
  <2>3. ASSUME NEW i \in 1..Len(queue'), IsEmit(queue'[i])
        PROVE  /\ queue'[i].n > Len(delivered') /\ queue'[i].n <= accepted'
               /\ worker' = "emit" => queue'[i].n > cmd'.n
    <3>1. CASE i \in 1..Len(queue) /\ queue'[i] = queue[i]
      <4>1. /\ queue[i].n > Len(delivered) /\ queue[i].n <= accepted
            /\ worker = "emit" => queue[i].n > cmd.n
        BY <2>3, <3>1 DEF IInv, NumbersInv
      <4> QED
        BY <1>1, <1>2, <1>9, <2>2, <3>1, <4>1
    <3>2. CASE queue'[i] = e
      <4>1. accepted + 1 > Len(delivered) /\ (worker = "emit" => accepted + 1 > cmd.n)
        <5>1. cmd.n \in Nat /\ (worker = "emit" => cmd.n <= accepted)
          BY DEF IInv, NumbersInv, WorkerInv, Command
        <5>2. Len(delivered) <= accepted
          BY DEF IInv, NumbersInv
        <5> QED
          BY <1>1, <2>1, <5>1, <5>2
      <4> QED
        BY <1>1, <1>2, <1>3, <1>9, <3>2, <4>1
    <3> QED
      BY <1>8, <3>1, <3>2
  <2>4. ASSUME NEW i \in 1..Len(queue'), NEW j \in 1..Len(queue'), i < j,
               IsEmit(queue'[i]), IsEmit(queue'[j])
        PROVE  queue'[i].n < queue'[j].n
    <3>1. i \in 1..Len(queue) /\ queue'[i] = queue[i]
      BY <1>4, <1>8, <2>4
    <3>2. queue[i].n <= accepted /\ queue[i].n \in Nat
      BY <2>2, <2>4, <3>1 DEF IInv, NumbersInv
    <3>3. CASE j \in 1..Len(queue) /\ queue'[j] = queue[j]
      BY <2>4, <3>1, <3>3 DEF IInv, NumbersInv
    <3>4. CASE queue'[j] = e
      BY <1>1, <1>3, <3>1, <3>2, <3>4
    <3> QED
      BY <1>8, <3>3, <3>4
  <2>5. ASSUME Sound', NEW n \in 1..accepted'
        PROVE  n <= Len(delivered') \/ InHand(n)' \/ InQueue(n)'
    <3>1. CASE n = accepted + 1
      BY <1>3, <1>4, <3>1 DEF InQueue, IsEmit
    <3>2. CASE n \in 1..accepted
      <4>1. n <= Len(delivered) \/ InHand(n) \/ InQueue(n)
        BY <1>9, <2>5, <3>2 DEF IInv, NumbersInv, Sound
      <4>2. InQueue(n) => InQueue(n)'
        BY <1>4 DEF InQueue
      <4> QED
        BY <1>9, <4>1, <4>2 DEF InHand
    <3> QED
      BY <1>1, <1>2, <3>1, <3>2
  <2> QED
    BY <2>1, <2>3, <2>4, <2>5 DEF NumbersInv
<1>11. /\ \A i \in 1..Len(queue) : ~IsEmit(queue[i]) => queue[i].by # t
       /\ InWork /\ ~IsEmit(cmd) => cmd.by # t
  BY <1>1, NotHeard
<1>12. /\ \A i \in 1..Len(queue) : queue[i] \in Command
       /\ cmd \in Command
  BY CommandFacts DEF IInv
<1>13. ASSUME NEW command \in Command, Awaited(command), ~IsEmit(command) => command.by # t
       PROVE  Awaited(command)'
  BY <1>5, <1>9, <1>13 DEF Awaited, Command, IsEmit
<1>14. ControlsInv'
  <2>1. InWork' <=> InWork
    BY <1>9 DEF InWork, IsEmit
  <2>2. InWork => Awaited(cmd)' /\ cmd' = cmd
    BY <1>9, <1>11, <1>12, <1>13 DEF IInv, ControlsInv, Awaited
  <2>3. ASSUME NEW i \in 1..Len(queue'), ~IsEmit(queue'[i])
        PROVE  i \in 1..Len(queue) /\ queue'[i] = queue[i] /\ ~IsEmit(queue[i])
    BY <1>3, <1>8, <2>3 DEF IsEmit
  <2>4. ASSUME NEW i \in 1..Len(queue')
        PROVE  Awaited(queue[i])'
    <3>1. CASE ~IsEmit(queue'[i])
      <4>1. PICK command \in Command : command = queue[i] /\ command = queue'[i]
        BY <1>12, <2>3, <3>1
      <4>2. Awaited(command) /\ command.by # t
        BY <1>11, <2>3, <3>1, <4>1 DEF IInv, ControlsInv
      <4>3. Awaited(command)'
        BY <1>13, <4>2
      <4> QED
        BY <4>1, <4>3 DEF Awaited
    <3>2. CASE IsEmit(queue'[i])
      BY <3>2 DEF Awaited, IsEmit
    <3> QED
      BY <3>1, <3>2
  <2>5. ASSUME NEW i \in 1..Len(queue'), ~IsEmit(queue'[i]), queue'[i].by # Nobody
        PROVE  /\ \A j \in 1..Len(queue') :
                    i # j /\ ~IsEmit(queue'[j]) => queue'[i].by # queue'[j].by
               /\ InWork => cmd.by # queue'[i].by
    BY <2>3, <2>5 DEF IInv, ControlsInv
  <2>6. \A i \in 1..Len(queue') : IsEmit(queue[i])' <=> IsEmit(queue'[i])
    BY DEF IsEmit
  <2> QED
    BY <1>9, <2>1, <2>2, <2>4, <2>5, <2>6 DEF ControlsInv
<1>15. FlushesInv'
  <2>1. \A i \in 1..Len(queue) : queue[i].kind = "flush" /\ queue[i].by \in Task =>
          before'[queue[i].by] = before[queue[i].by] /\ before[queue[i].by] \in 0..accepted
    BY <1>5, <1>11 DEF IsEmit, IInv, CallersInv
  <2>2. worker \in {"flush", "respond"} /\ cmd.by \in Task => before'[cmd.by] = before[cmd.by]
    BY <1>5, <1>11 DEF InWork, IsEmit, IInv, WorkerInv
  <2>3. \A u \in Task : pc'[u] = "response" => u # t
    BY <1>5
  <2>4. ASSUME NEW i \in 1..Len(queue'), queue'[i].kind = "flush", queue'[i].by \in Task,
               NEW j \in 1..Len(queue'), i < j, IsEmit(queue'[j])
        PROVE  queue'[j].n > before'[queue'[i].by]
    <3>1. i \in 1..Len(queue) /\ queue'[i] = queue[i]
      BY <1>3, <1>8, <2>4 DEF IsEmit
    <3>2. CASE j \in 1..Len(queue) /\ queue'[j] = queue[j]
      BY <2>1, <2>4, <3>1, <3>2 DEF IInv, FlushesInv
    <3>3. CASE queue'[j] = e
      BY <1>1, <1>3, <2>1, <2>4, <3>1, <3>3
    <3> QED
      BY <1>8, <3>2, <3>3
  <2> QED
    BY <1>5, <1>9, <2>2, <2>3, <2>4 DEF IInv, FlushesInv, Caller
<1>16. ShutdownInv'
  <2>1. pc'[Owner] = "idle"
    BY <1>1, <1>5 DEF Caller
  <2>2. \A i \in 1..Len(queue') : queue'[i].kind # "shutdown"
    BY <1>1, <1>3, <1>8 DEF IsEmit, IInv, ShutdownInv
  <2> QED
    BY <1>1, <1>9, <2>1, <2>2 DEF IInv, ShutdownInv, Drained, Sound
<1>17. ResultsInv'
  BY <1>1, <1>5, <1>9 DEF IInv, ResultsInv, Caller
<1> QED
  BY <1>5, <1>7, <1>10, <1>14, <1>15, <1>16, <1>17 DEF IInv

LEMMA TrySendStep ==
  ASSUME IInv, NEW t \in Task, TrySend(t)
  PROVE  IInv'
<1>1. /\ t \in Caller /\ t # Owner /\ Owner \notin Task /\ pc[t] = "try"
      /\ UNCHANGED <<policy, waiting, open, op, working, sinkVars>>
      /\ pc[Owner] = "idle" /\ ~Leaving
  BY AsyncSinkAssumption DEF Caller, TrySend, IInv, CallersInv, Leaving
<1>2. LeaveLine(t)
  BY <1>1 DEF LeaveLine, IInv, LineInv
<1>3. CASE open /\ Free > Len(waiting) /\ Accept(t)
  <2>1. Len(queue) < Capacity
    BY <1>3, AsyncSinkAssumption, LenProperties DEF Free, IInv, ChannelInv
  <2> QED
    BY <1>1, <1>2, <1>3, <2>1, AcceptStep
<1>4. CASE NextOfReport(t) /\ UNCHANGED <<queue, accepted>>
  <2>1. CASE Return(t, "ok")
    BY <1>1, <1>2, <1>4, <2>1, GiveUpStep DEF Results
  <2>2. CASE Goto(t, "emit") /\ NotYet
    <3>1. /\ pc' = [pc EXCEPT ![t] = "emit"] /\ UNCHANGED <<result, before, reply>>
          /\ CallersInv'
      BY <1>1, <1>4, <2>2, NextOfReportFacts DEF Goto, NotYet
    <3>2. Calls(t) /\ LineInv' /\ pc'[t] = "emit" /\ pc'[Owner] = "idle"
      BY <1>1, <1>4, <3>1 DEF Calls, IInv, LineInv, CallersInv, Caller
    <3> QED
      BY <1>1, <3>1, <3>2, CallStep DEF IInv, ChannelInv, Leaving, ResultsInv
  <2> QED
    BY <1>4, <2>1, <2>2 DEF NextOfReport
<1>5. CASE Return(t, "full") /\ UNCHANGED <<queue, accepted>>
  BY <1>1, <1>2, <1>5, GiveUpStep DEF Results
<1>6. CASE ~open /\ Return(t, ClosedError) /\ UNCHANGED <<queue, accepted>>
  BY <1>1, <1>2, <1>6, ClosedFacts, GiveUpStep
<1> QED
  BY <1>3, <1>4, <1>5, <1>6 DEF TrySend

LEMMA SendFailsStep ==
  ASSUME IInv, NEW c \in Caller, SendFails(c)
  PROVE  IInv'
<1>1. /\ pc[c] = "send" /\ ~open /\ LeaveLine(c) /\ Return(c, ClosedError)
      /\ UNCHANGED <<policy, queue, open, op, working, accepted, sinkVars>>
  BY DEF SendFails
<1>2. ~Leaving
  BY <1>1 DEF IInv, CallersInv, Leaving, Caller
<1> QED
  BY <1>1, <1>2, ClosedFacts, GiveUpStep

LEMMA AwaitResponseStep ==
  ASSUME IInv, NEW c \in Caller, AwaitResponse(c)
  PROVE  IInv'
<1> DEFINE value == IF reply[c] # "none" THEN reply[c] ELSE ClosedError
<1>1. /\ pc[c] = "response" /\ (reply[c] # "none" \/ worker = "ended") /\ Return(c, value)
      /\ UNCHANGED <<policy, waiting, queue, open, op, working, accepted, sinkVars>>
  BY DEF AwaitResponse, channel
<1>2. LeaveLine(c)
  BY <1>1 DEF LeaveLine, IInv, LineInv
<1>3. value \in Results /\ (value = "closed" => reply[c] = "none")
  BY ClosedFacts DEF Results, IInv, CallersInv
<1>4. ASSUME value = "closed"
      PROVE  ended = "panic"
  <2>1. reply[c] = "none" /\ worker = "ended" /\ ~failure
    BY <1>1, <1>3, <1>4 DEF ClosedError
  <2>2. ASSUME ended # "panic"
        PROVE  FALSE
    <3>1. ended = "ok" /\ Leaving /\ queue = <<>> /\ Sound
      BY <2>1, <2>2, ClosedFacts DEF IInv, ShutdownInv, Drained, Sound
    <3>2. c = Owner
      BY <1>1, <3>1 DEF Leaving, IInv, CallersInv, Caller
    <3>3. Len(queue) = 0
      BY <3>1, EmptySeq
    <3> QED
      BY <1>1, <2>1, <3>1, <3>2, <3>3 DEF IInv, ShutdownInv
  <2> QED
    BY <2>2
<1> HIDE DEF value
<1> QED
  BY <1>1, <1>2, <1>3, <1>4, GiveUpStep

LEMMA ShutdownStep ==
  ASSUME IInv, Shutdown
  PROVE  IInv'
<1>1. /\ Owner \in Caller /\ Owner \notin Task /\ pc[Owner] = "idle"
      /\ \A t \in Task : pc[t] = "idle"
      /\ op' = [op EXCEPT ![Owner] = "shutdown"] /\ waiting' = Append(waiting, Owner)
      /\ pc' = [pc EXCEPT ![Owner] = "send"]
      /\ UNCHANGED <<policy, queue, open, todo, before, reply, result, working, accepted, sinkVars>>
  BY AsyncSinkAssumption DEF Caller, Shutdown, Shared, Quiet, Goto
<1>2. CallersInv' /\ pc'[Owner] = "send"
  BY <1>1 DEF IInv, CallersInv
<1>3. Calls(Owner)
  BY <1>1 DEF Calls, IInv, CallersInv
<1>4. /\ waiting' \in Seq(Caller) /\ IsInjective(waiting')
      /\ \A d \in Caller : (\E i \in 1..Len(waiting') : waiting'[i] = d)
           <=> (d = Owner \/ \E i \in 1..Len(waiting) : waiting[i] = d)
  BY <1>1, JoinFacts DEF IInv
<1>5. LineInv'
  BY <1>1, <1>4 DEF IInv, LineInv, CallersInv
<1> QED
  BY <1>1, <1>2, <1>3, <1>4, <1>5, CallStep DEF IInv, Leaving, ResultsInv

LEMMA JoinWorkerStep ==
  ASSUME IInv, JoinWorker
  PROVE  IInv'
<1>1. /\ Owner \in Caller /\ Owner \notin Task /\ pc[Owner] = "join" /\ worker = "ended"
      /\ result' = [result EXCEPT ![Owner] = IF ended = "panic" THEN "join"
                                             ELSE IF @ # "ok" THEN @ ELSE ended]
      /\ pc' = [pc EXCEPT ![Owner] = "done"]
      /\ UNCHANGED <<policy, queue, waiting, open, op, todo, before, reply, working, accepted,
                     sinkVars>>
  BY AsyncSinkAssumption DEF Caller, JoinWorker, Goto, channel
<1>2. result'[Owner] \in Results /\ result'[Owner] = "ok" => ended = "ok"
  BY <1>1 DEF IInv, CallersInv, WorkerInv, Results
<1>3. CallersInv' /\ pc'[Owner] = "done"
  BY <1>1, <1>2 DEF IInv, CallersInv, WorkerInv, Results
<1>4. Calls(Owner) /\ LineInv'
  BY <1>1 DEF Calls, IInv, CallersInv, LineInv
<1>5. result'[Owner] = "closed" => ended = "panic"
  BY <1>1 DEF IInv, CallersInv, WorkerInv, ResultsInv
<1>6. result'[Owner] = "ok" => ended = "ok"
  BY <1>1 DEF IInv, CallersInv, WorkerInv
<1> QED
  BY <1>1, <1>3, <1>4, <1>5, <1>6, CallStep DEF IInv, ChannelInv, Leaving

(* A control command is the last of the queue, and its caller listens.     *)
LEMMA ControlStep ==
  ASSUME IInv, NEW c \in Caller, Send(c), op[c] # "emit"
  PROVE  IInv'
<1>0. PICK e : e = [kind |-> op[c], by |-> c, n |-> 0]
  OBVIOUS
<1>1. /\ pc[c] = "send" /\ open /\ LeaveLine(c) /\ Len(queue) < Capacity
      /\ queue' = Queued(e) /\ pc' = [pc EXCEPT ![c] = "response"]
      /\ UNCHANGED <<result, before, reply, accepted, todo>>
      /\ UNCHANGED <<policy, open, op, worker, cmd, ended, failure, delivered, flushed>>
  BY <1>0, AsyncSinkAssumption, LenProperties
     DEF Send, Goto, NotYet, Free, working, sinkVars, IInv, ChannelInv
<1>2. /\ c # Nobody /\ Owner \notin Task /\ ~Leaving
      /\ op[c] = IF c = Owner THEN "shutdown" ELSE "flush"
      /\ reply[c] = "none"
  BY <1>1, AsyncSinkAssumption DEF Caller, IInv, CallersInv, Leaving
<1>3. e \in Command /\ ~IsEmit(e) /\ e.by = c /\ e.kind = op[c]
  BY <1>0, <1>2 DEF Command, IsEmit, Caller
<1>4. /\ queue' \in Seq(Command) /\ Len(queue') <= Capacity
      /\ Len(queue) \in Nat /\ Len(queue') = Len(queue) + 1
      /\ \A i \in 1..Len(queue) : queue'[i] = queue[i]
      /\ queue'[Len(queue) + 1] = e
  BY <1>1, <1>3, QueueFacts DEF IInv
<1>5. ASSUME NEW i \in 1..Len(queue')
      PROVE  (i \in 1..Len(queue) /\ queue'[i] = queue[i]) \/ (i = Len(queue) + 1 /\ queue'[i] = e)
  BY <1>4, <1>5
<1>6. /\ waiting' \in Seq(Caller) /\ IsInjective(waiting')
      /\ \A d \in Caller : (\E i \in 1..Len(waiting') : waiting'[i] = d)
           <=> (d # c /\ \E i \in 1..Len(waiting) : waiting[i] = d)
  BY <1>1, LeaveFacts DEF IInv
<1>7. ChannelInv' /\ WorkerInv'
  BY <1>1, <1>4, <1>6 DEF IInv, ChannelInv, WorkerInv
<1>8. CallersInv' /\ LineInv'
  <2>1. LineInv'
    BY <1>1, <1>6 DEF IInv, CallersInv, LineInv
  <2>2. CallersInv'
    BY <1>1, <1>2 DEF IInv, CallersInv
  <2> QED
    BY <2>1, <2>2
<1>9. NumbersInv'
  <2>1. ASSUME NEW i \in 1..Len(queue'), IsEmit(queue'[i])
        PROVE  i \in 1..Len(queue) /\ queue'[i] = queue[i]
    BY <1>3, <1>5, <2>1
  <2>2. ASSUME NEW i \in 1..Len(queue'), IsEmit(queue'[i])
        PROVE  /\ queue'[i].n > Len(delivered) /\ queue'[i].n <= accepted
               /\ worker = "emit" => queue'[i].n > cmd.n
               /\ \A j \in 1..Len(queue') :
                    i < j /\ IsEmit(queue'[j]) => queue'[i].n < queue'[j].n
    BY <2>1, <2>2 DEF IInv, NumbersInv
  <2>3. \A n : (InQueue(n) => InQueue(n)') /\ (InHand(n)' <=> InHand(n))
    BY <1>1, <1>4 DEF InQueue, InHand
  <2>4. \A i \in 1..Len(queue') : IsEmit(queue[i])' <=> IsEmit(queue'[i])
    BY DEF IsEmit
  <2> QED
    BY <1>1, <2>2, <2>3, <2>4 DEF IInv, NumbersInv, Sound
<1>10. /\ \A i \in 1..Len(queue) : ~IsEmit(queue[i]) => queue[i].by # c
       /\ InWork /\ ~IsEmit(cmd) => cmd.by # c
  BY <1>1, NotHeard
<1>11. /\ \A i \in 1..Len(queue) : queue[i] \in Command
       /\ cmd \in Command
  BY CommandFacts DEF IInv
<1>12. ASSUME NEW command \in Command, Awaited(command), ~IsEmit(command) => command.by # c
       PROVE  Awaited(command)'
  BY <1>1, <1>12 DEF Awaited, Command, IsEmit, IInv, CallersInv
<1>13. Awaited(e)'
  BY <1>1, <1>2, <1>3 DEF Awaited, IInv, CallersInv
<1>14. ControlsInv'
  <2>1. InWork' <=> InWork
    BY <1>1 DEF InWork, IsEmit
  <2>2. InWork => Awaited(cmd)' /\ cmd' = cmd /\ ~IsEmit(cmd)
    BY <1>1, <1>10, <1>11, <1>12 DEF IInv, ControlsInv, Awaited, InWork, WorkerInv, IsEmit
  <2>3. ASSUME NEW i \in 1..Len(queue')
        PROVE  Awaited(queue[i])'
    <3>1. PICK command \in Command : command = queue'[i]
      BY <1>3, <1>5, <1>11
    <3>2. Awaited(command)'
      <4>1. CASE i \in 1..Len(queue) /\ queue'[i] = queue[i]
        BY <1>10, <1>12, <3>1, <4>1 DEF IInv, ControlsInv
      <4>2. CASE queue'[i] = e
        BY <1>13, <3>1, <4>2
      <4> QED
        BY <1>5, <4>1, <4>2
    <3> QED
      BY <3>1, <3>2 DEF Awaited
  <2>4. ASSUME NEW i \in 1..Len(queue'), ~IsEmit(queue'[i]), queue'[i].by # Nobody
        PROVE  /\ \A j \in 1..Len(queue') :
                    i # j /\ ~IsEmit(queue'[j]) => queue'[i].by # queue'[j].by
               /\ InWork => cmd.by # queue'[i].by
    <3>1. CASE i \in 1..Len(queue) /\ queue'[i] = queue[i]
      BY <1>3, <1>5, <1>10, <2>4, <3>1 DEF IInv, ControlsInv
    <3>2. CASE i = Len(queue) + 1 /\ queue'[i] = e
      BY <1>3, <1>4, <1>5, <1>10, <2>2, <3>2
    <3> QED
      BY <1>5, <3>1, <3>2
  <2>5. \A i \in 1..Len(queue') : IsEmit(queue[i])' <=> IsEmit(queue'[i])
    BY DEF IsEmit
  <2> QED
    BY <1>1, <2>1, <2>2, <2>3, <2>4, <2>5 DEF ControlsInv
<1>15. FlushesInv'
  <2>1. ASSUME NEW i \in 1..Len(queue'), queue'[i].kind = "flush", queue'[i].by \in Task,
               NEW j \in 1..Len(queue'), i < j, IsEmit(queue'[j])
        PROVE  queue'[j].n > before'[queue'[i].by]
    <3>1. j \in 1..Len(queue) /\ queue'[j] = queue[j]
      BY <1>3, <1>5, <2>1
    <3>2. i \in 1..Len(queue) /\ queue'[i] = queue[i]
      BY <1>4, <1>5, <2>1, <3>1
    <3> QED
      BY <1>1, <2>1, <3>1, <3>2 DEF IInv, FlushesInv
  <2>2. \A t \in Task : pc'[t] = "response" /\ reply[t] = "ok" => pc[t] = "response"
    BY <1>1, <1>2 DEF IInv, CallersInv
  <2>3. \A i \in 1..Len(queue') : IsEmit(queue[i])' <=> IsEmit(queue'[i])
    BY DEF IsEmit
  <2> QED
    BY <1>1, <2>1, <2>2, <2>3 DEF IInv, FlushesInv
<1>16. ShutdownInv'
  <2>1. ASSUME NEW i \in 1..Len(queue'), queue'[i].kind = "shutdown"
        PROVE  i = Len(queue') /\ Leaving'
    <3>1. i = Len(queue) + 1 /\ queue'[i] = e
      BY <1>2, <1>5, <2>1 DEF IInv, ShutdownInv
    <3> QED
      BY <1>1, <1>2, <1>3, <1>4, <2>1, <3>1 DEF Leaving, IInv, CallersInv
  <2>2. ASSUME pc'[Owner] = "response"
        PROVE  \E i \in 1..Len(queue') : queue'[i].by = Owner /\ ~IsEmit(queue'[i])
    <3>1. c = Owner
      BY <1>1, <1>2, <2>2 DEF Leaving, IInv, CallersInv
    <3> QED
      BY <1>3, <1>4, <3>1
  <2>3. \A i \in 1..Len(queue') : IsEmit(queue[i])' <=> IsEmit(queue'[i])
    BY DEF IsEmit
  <2> QED
    BY <1>1, <1>2, <2>1, <2>2, <2>3 DEF IInv, ShutdownInv, Drained, Sound
<1>17. ResultsInv'
  BY <1>1, <1>2 DEF IInv, ResultsInv, CallersInv
<1> QED
  BY <1>7, <1>8, <1>9, <1>14, <1>15, <1>16, <1>17 DEF IInv

LEMMA SendStep ==
  ASSUME IInv, NEW c \in Caller, Send(c)
  PROVE  IInv'
<1>1. CASE op[c] = "emit"
  <2>1. /\ c \in Task /\ pc[c] = "send" /\ open /\ LeaveLine(c) /\ Accept(c)
        /\ UNCHANGED <<policy, open, op, working, sinkVars>>
    BY <1>1 DEF Send, IInv, CallersInv, Caller
  <2>2. Len(queue) < Capacity
    BY AsyncSinkAssumption, LenProperties DEF Send, Free, IInv, ChannelInv
  <2> QED
    BY <2>1, <2>2, AcceptStep
<1> QED
  BY <1>1, ControlStep

(* A command nobody listens to any more is otherwise what it was.          *)
LEMMA UnheardFacts ==
  ASSUME NEW command \in Command, NEW c
  PROVE  /\ Unheard(command, c) \in Command
         /\ Unheard(command, c).kind = command.kind /\ Unheard(command, c).n = command.n
         /\ Unheard(command, c).by = IF ~IsEmit(command) /\ command.by = c THEN Nobody
                                     ELSE command.by
  BY DEF Unheard, Command, IsEmit

LEMMA StopFacts ==
  ASSUME IInv, NEW c \in Caller, StopListening(c)
  PROVE  /\ queue' \in Seq(Command) /\ Len(queue') = Len(queue) /\ Len(queue) \in Nat
         /\ \A i \in 1..Len(queue) :
              /\ queue'[i].kind = queue[i].kind /\ queue'[i].n = queue[i].n
              /\ queue'[i].by = IF ~IsEmit(queue[i]) /\ queue[i].by = c THEN Nobody
                                ELSE queue[i].by
         /\ cmd' \in Command /\ cmd'.kind = cmd.kind /\ cmd'.n = cmd.n
         /\ cmd'.by = IF ~IsEmit(cmd) /\ cmd.by = c THEN Nobody ELSE cmd.by
<1>1. /\ Len(queue) \in Nat /\ DOMAIN queue = 1..Len(queue)
      /\ \A i \in 1..Len(queue) : queue[i] \in Command
      /\ cmd \in Command
  BY CommandFacts DEF IInv
<1>2. queue' = [i \in 1..Len(queue) |-> Unheard(queue[i], c)] /\ cmd' = Unheard(cmd, c)
  BY <1>1 DEF StopListening
<1>3. queue' \in [1..Len(queue) -> Command]
  BY <1>1, <1>2, UnheardFacts
<1>4. queue' \in Seq(Command)
  BY <1>1, <1>3, SeqDef
<1>5. Len(queue') = Len(queue)
  BY <1>1, <1>3, <1>4, LenProperties
<1> QED
  BY <1>1, <1>2, <1>4, <1>5, UnheardFacts

(* The future of a call is dropped.                                        *)
LEMMA StopStep ==
  ASSUME IInv, NEW c \in Caller, StopListening(c), CallersInv', LineInv',
         pc'[c] # "response", Leaving => Leaving',
         \A d \in Caller \ {c} : /\ pc'[d] = pc[d] /\ op'[d] = op[d]
                                 /\ reply'[d] = reply[d] /\ result'[d] = result[d],
         \A t \in Task \ {c} : before'[t] = before[t],
         result'[c] # "closed" \/ result'[c] = result[c],
         pc'[Owner] # "done" \/ (Owner # c /\ pc[Owner] = "done"),
         UNCHANGED <<policy, open, worker, ended, failure, accepted, sinkVars>>
  PROVE  IInv'
<1>1. /\ queue' \in Seq(Command) /\ Len(queue') = Len(queue) /\ Len(queue) \in Nat
      /\ \A i \in 1..Len(queue) :
           /\ queue'[i].kind = queue[i].kind /\ queue'[i].n = queue[i].n
           /\ queue'[i].by = IF ~IsEmit(queue[i]) /\ queue[i].by = c THEN Nobody
                             ELSE queue[i].by
      /\ cmd' \in Command /\ cmd'.kind = cmd.kind /\ cmd'.n = cmd.n
      /\ cmd'.by = IF ~IsEmit(cmd) /\ cmd.by = c THEN Nobody ELSE cmd.by
  BY StopFacts
<1>2. UNCHANGED <<policy, open, worker, ended, failure, accepted, delivered, flushed>>
  BY DEF sinkVars
<1>3. waiting' \in Seq(Caller) /\ IsInjective(waiting')
  BY LeaveFacts DEF IInv, StopListening
<1>4. Nobody \notin Caller /\ Nobody \notin Task /\ Owner \notin Task /\ Owner \in Caller
  BY AsyncSinkAssumption DEF Caller
<1>5. ChannelInv' /\ WorkerInv'
  BY <1>1, <1>2, <1>3 DEF IInv, ChannelInv, WorkerInv
<1>6. /\ IsEmit(cmd)' <=> IsEmit(cmd)
      /\ \A i \in 1..Len(queue) : IsEmit(queue'[i]) <=> IsEmit(queue[i])
      /\ \A i \in 1..Len(queue) : IsEmit(queue[i])' <=> IsEmit(queue[i])
  BY <1>1 DEF IsEmit
<1>7. NumbersInv'
  <2>1. \A n : (InQueue(n)' <=> InQueue(n)) /\ (InHand(n)' <=> InHand(n))
    BY <1>1, <1>2 DEF InQueue, InHand
  <2> QED
    BY <1>1, <1>2, <1>6, <2>1 DEF IInv, NumbersInv, Sound
<1>8. InWork' <=> InWork
  BY <1>2, <1>6 DEF InWork
<1>9. ControlsInv'
  <2>1. ASSUME NEW i \in 1..Len(queue)
        PROVE  Awaited(queue[i])'
    <3>1. Awaited(queue[i])
      BY <2>1 DEF IInv, ControlsInv
    <3>2. queue[i].by \in Caller \cup {Nobody}
      BY <2>1, CommandFacts DEF IInv, Command
    <3> QED
      BY <1>1, <1>6, <3>1, <3>2 DEF Awaited
  <2>2. ASSUME InWork
        PROVE  Awaited(cmd)'
    <3>1. Awaited(cmd) /\ cmd.by \in Caller \cup {Nobody}
      BY <2>2 DEF IInv, ControlsInv, WorkerInv, Command
    <3> QED
      BY <1>1, <1>6, <3>1 DEF Awaited
  <2>3. ASSUME NEW i \in 1..Len(queue), ~IsEmit(queue[i]), queue'[i].by # Nobody
        PROVE  /\ queue'[i].by = queue[i].by /\ queue[i].by # Nobody
               /\ \A j \in 1..Len(queue) :
                    i # j /\ ~IsEmit(queue[j]) => queue'[i].by # queue'[j].by
               /\ InWork => cmd'.by # queue'[i].by
    <3>1. queue'[i].by = queue[i].by /\ queue[i].by # Nobody
      BY <1>1, <2>3
    <3> QED
      BY <1>1, <2>3, <3>1 DEF IInv, ControlsInv
  <2> QED
    BY <1>1, <1>6, <1>8, <2>1, <2>2, <2>3 DEF ControlsInv
<1>10. FlushesInv'
  <2>1. ASSUME NEW i \in 1..Len(queue), queue'[i].kind = "flush", queue'[i].by \in Task
        PROVE  /\ queue[i].by = queue'[i].by /\ queue[i].by # c
               /\ before'[queue'[i].by] = before[queue[i].by]
    BY <1>1, <1>4, <2>1 DEF IsEmit
  <2>2. ASSUME worker \in {"flush", "respond"}, cmd'.by \in Task
        PROVE  cmd'.by = cmd.by /\ before'[cmd'.by] = before[cmd.by]
    <3>1. ~IsEmit(cmd)
      BY <2>2 DEF IsEmit, IInv, WorkerInv
    <3> QED
      BY <1>1, <1>4, <2>2, <3>1
  <2>3. \A t \in Task : pc'[t] = "response" =>
          pc[t] = "response" /\ reply'[t] = reply[t] /\ before'[t] = before[t]
    BY DEF Caller
  <2> QED
    BY <1>1, <1>2, <1>6, <2>1, <2>2, <2>3 DEF IInv, FlushesInv
<1>11. ShutdownInv'
  <2>1. queue = <<>> => queue' = <<>>
    BY <1>1, EmptySeq DEF IInv, ChannelInv
  <2>2. ASSUME pc'[Owner] = "response"
        PROVE  /\ pc[Owner] = "response" /\ reply'[Owner] = reply[Owner] /\ Owner # c
               /\ \A i \in 1..Len(queue) : queue[i].by = Owner => queue'[i].by = Owner
               /\ cmd.by = Owner => cmd'.by = Owner
    <3>1. Owner # c
      BY <2>2
    <3> QED
      BY <1>1, <1>4, <2>2, <3>1
  <2>3. worker = "final" => pc'[Owner] # "response"
    BY <2>2 DEF IInv, ShutdownInv
  <2> QED
    BY <1>1, <1>2, <1>6, <2>1, <2>2, <2>3 DEF IInv, ShutdownInv, Drained, Sound
<1>12. ResultsInv'
  BY <1>2, <1>4 DEF IInv, ResultsInv
<1> QED
  BY <1>5, <1>7, <1>9, <1>10, <1>11, <1>12 DEF IInv

LEMMA CancelStep ==
  ASSUME IInv, NEW t \in Task, Cancel(t)
  PROVE  IInv'
<1>1. /\ t \in Caller /\ t # Owner /\ Owner \notin Task /\ pc[t] \in {"send", "response"}
      /\ StopListening(t) /\ Return(t, "cancelled")
      /\ UNCHANGED <<policy, open, op, worker, ended, failure, accepted, sinkVars>>
  BY AsyncSinkAssumption DEF Caller, Cancel
<1>2. /\ CallersInv'
      /\ \A d \in Caller \ {t} : /\ pc'[d] = pc[d] /\ reply'[d] = reply[d]
                                  /\ result'[d] = result[d]
      /\ \A u \in Task \ {t} : before'[u] = before[u]
      /\ pc'[t] = "idle" /\ result'[t] = "cancelled"
  BY <1>1, ReturnFacts DEF Results
<1>3. LineInv'
  <2>1. \A d \in Caller : (\E i \in 1..Len(waiting') : waiting'[i] = d)
          <=> (d # t /\ \E i \in 1..Len(waiting) : waiting[i] = d)
    BY <1>1, LeaveFacts DEF IInv, StopListening
  <2> QED
    BY <1>2, <2>1 DEF IInv, LineInv
<1>4. Leaving => Leaving'
  BY <1>1, <1>2 DEF Leaving, Caller
<1>5. pc'[Owner] = pc[Owner]
  BY <1>1, <1>2 DEF Caller
<1> QED
  BY <1>1, <1>2, <1>3, <1>4, <1>5, StopStep

LEMMA DropStep ==
  ASSUME IInv, Drop
  PROVE  IInv'
<1>1. /\ Owner \in Caller /\ Owner \notin Task
      /\ StopListening(Owner) /\ pc' = [pc EXCEPT ![Owner] = "dropped"]
      /\ UNCHANGED <<policy, open, op, todo, before, reply, result, worker, ended, failure,
                     accepted, sinkVars>>
  BY AsyncSinkAssumption DEF Caller, Drop, Goto
<1>2. \A t \in Task : pc[t] = "idle"
  BY DEF Drop, Quiet, IInv, CallersInv
<1>3. CallersInv' /\ pc'[Owner] = "dropped"
  BY <1>1, <1>2 DEF IInv, CallersInv
<1>4. LineInv'
  <2>1. \A d \in Caller : (\E i \in 1..Len(waiting') : waiting'[i] = d)
          <=> (d # Owner /\ \E i \in 1..Len(waiting) : waiting[i] = d)
    BY <1>1, LeaveFacts DEF IInv, StopListening
  <2> QED
    BY <1>1, <2>1 DEF IInv, LineInv, CallersInv
<1>5. \A d \in Caller \ {Owner} : pc'[d] = pc[d]
  BY <1>1 DEF IInv, CallersInv
<1> QED
  BY <1>1, <1>3, <1>4, <1>5, StopStep DEF Leaving
-----------------------------------------------------------------------------
(* The worker                                                              *)

(* A step of the worker that answers nobody leaves the callers alone.      *)
LEMMA WorkerLeavesCallers ==
  ASSUME IInv, UNCHANGED <<waiting, callers, reply, accepted>>
  PROVE  CallersInv' /\ LineInv' /\ (Leaving' <=> Leaving)
  BY DEF IInv, CallersInv, LineInv, Leaving, callers

LEMMA ReceiveStep ==
  ASSUME IInv, Receive, queue # <<>>
  PROVE  IInv'
<1> DEFINE h == queue[1]
<1>1. /\ worker = "recv" /\ ended = "ok" /\ Sound /\ ~InWork
      /\ UNCHANGED <<policy, waiting, callers, reply, ended, failure, accepted, delivered, flushed>>
      /\ UNCHANGED <<pc, op, before, result>>
  BY DEF Receive, SendersGone, IInv, WorkerInv, Sound, InWork, callers, sinkVars
<1>2. /\ Len(queue) \in Nat \ {0} /\ Head(queue) = h /\ h \in Command
      /\ Tail(queue) \in Seq(Command) /\ Len(Tail(queue)) = Len(queue) - 1
      /\ \A i \in 1..Len(Tail(queue)) : Tail(queue)[i] = queue[i + 1] /\ i + 1 \in 1..Len(queue)
  BY TailFacts DEF IInv, ChannelInv
<1>3. /\ cmd' = h /\ worker' = h.kind /\ queue' = Tail(queue)
      /\ open' = (open /\ h.kind # "shutdown")
  BY <1>2 DEF Receive
<1> HIDE DEF h
<1>4. h = queue[1] /\ 1 \in 1..Len(queue) /\ IsEmit(h) = (h.kind = "emit")
  BY <1>2 DEF h, IsEmit
<1>5. /\ queue' \in Seq(Command) /\ Len(queue') = Len(queue) - 1 /\ Len(queue) \in Nat
      /\ \A i \in 1..Len(queue') : queue'[i] = queue[i + 1] /\ i + 1 \in 1..Len(queue)
      /\ \A i \in 2..Len(queue) : i - 1 \in 1..Len(queue') /\ queue'[i - 1] = queue[i]
  BY <1>2, <1>3
<1>6. CallersInv' /\ LineInv' /\ (Leaving' <=> Leaving)
  BY <1>1, WorkerLeavesCallers
<1>7. ChannelInv'
  BY <1>1, <1>3, <1>5, AsyncSinkAssumption DEF IInv, ChannelInv
<1>8. WorkerInv'
  BY <1>1, <1>2, <1>3 DEF IInv, WorkerInv, Command
<1>9. /\ accepted \in Nat /\ Len(delivered) \in Nat /\ Len(delivered) <= accepted
      /\ \A i \in 1..Len(queue) : queue[i].n \in Nat
  BY CommandFacts, LenProperties DEF IInv, NumbersInv, Command
<1>10. \A n \in 1..accepted : n <= Len(delivered) \/ InQueue(n)
  BY <1>1 DEF IInv, NumbersInv, InHand
<1>11. IsEmit(h) => h.n = Len(delivered) + 1 /\ h.n <= accepted
  <2>1. SUFFICES ASSUME IsEmit(h), h.n # Len(delivered) + 1
                 PROVE  FALSE
    BY <1>4 DEF IInv, NumbersInv
  <2>2. h.n > Len(delivered) /\ h.n <= accepted /\ h.n \in Nat
    BY <1>4, <1>9, <2>1 DEF IInv, NumbersInv
  <2>3. Len(delivered) + 1 \in 1..accepted
    BY <1>9, <2>1, <2>2
  <2>4. InQueue(Len(delivered) + 1)
    BY <1>9, <1>10, <2>3
  <2>5. PICK i \in 1..Len(queue) : IsEmit(queue[i]) /\ queue[i].n = Len(delivered) + 1
    BY <2>4 DEF InQueue, IsEmit
  <2>6. i # 1 /\ 1 < i
    BY <1>4, <2>1, <2>5
  <2>7. h.n < Len(delivered) + 1
    BY <1>4, <2>1, <2>5, <2>6 DEF IInv, NumbersInv
  <2> QED
    BY <1>9, <2>2, <2>7
<1>12. NumbersInv'
  <2>1. ASSUME NEW i \in 1..Len(queue'), IsEmit(queue'[i])
        PROVE  /\ queue'[i].n > Len(delivered) /\ queue'[i].n <= accepted
               /\ IsEmit(h) => queue'[i].n > h.n
               /\ \A j \in 1..Len(queue') :
                    i < j /\ IsEmit(queue'[j]) => queue'[i].n < queue'[j].n
    <3>1. i + 1 \in 1..Len(queue) /\ queue'[i] = queue[i + 1] /\ 1 < i + 1
      BY <1>5, <2>1
    <3>2. queue[i + 1].n > Len(delivered) /\ queue[i + 1].n <= accepted
      BY <2>1, <3>1 DEF IInv, NumbersInv
    <3>3. IsEmit(h) => h.n < queue[i + 1].n
      BY <1>4, <2>1, <3>1 DEF IInv, NumbersInv
    <3>4. ASSUME NEW j \in 1..Len(queue'), i < j, IsEmit(queue'[j])
          PROVE  queue'[i].n < queue'[j].n
      <4>1. j + 1 \in 1..Len(queue) /\ queue'[j] = queue[j + 1] /\ i + 1 < j + 1
        BY <1>5, <3>4
      <4> QED
        BY <2>1, <3>1, <3>4, <4>1 DEF IInv, NumbersInv
    <3>5. h.n \in Nat /\ queue[i + 1].n \in Nat
      BY <1>4, <1>9, <3>1
    <3> QED
      BY <3>1, <3>2, <3>3, <3>4, <3>5
  <2>2. ASSUME NEW n \in 1..accepted
        PROVE  n <= Len(delivered) \/ InHand(n)' \/ InQueue(n)'
    <3>1. CASE InQueue(n)
      <4>1. PICK i \in 1..Len(queue) : queue[i].kind = "emit" /\ queue[i].n = n
        BY <3>1 DEF InQueue
      <4>2. CASE i = 1
        BY <1>3, <1>4, <4>1, <4>2 DEF InHand
      <4>3. CASE i # 1
        <5>1. i \in 2..Len(queue)
          BY <1>5, <4>3
        <5> QED
          BY <1>5, <4>1, <5>1 DEF InQueue
      <4> QED
        BY <4>2, <4>3
    <3> QED
      BY <1>10, <3>1
  <2>3. \A i \in 1..Len(queue') : IsEmit(queue[i])' <=> IsEmit(queue'[i])
    BY DEF IsEmit
  <2>4. /\ accepted' \in Nat /\ delivered' \in Seq(Nat) /\ flushed' \in 0..Len(delivered')
        /\ Len(delivered') <= accepted'
        /\ \A i \in 1..Len(delivered') : delivered'[i] = i
        /\ worker' = "emit" => cmd'.n = Len(delivered') + 1 /\ cmd'.n <= accepted'
    BY <1>1, <1>3, <1>4, <1>11 DEF IInv, NumbersInv
  <2> QED
    BY <1>1, <1>3, <1>4, <2>1, <2>2, <2>3, <2>4 DEF NumbersInv
<1>13. InWork' <=> ~IsEmit(h)
  BY <1>2, <1>3, <1>4 DEF InWork, Command
<1>14. ControlsInv'
  <2>1. ASSUME NEW i \in 1..Len(queue)
        PROVE  Awaited(queue[i])
    BY <2>1 DEF IInv, ControlsInv
  <2>2. Awaited(cmd)'
    BY <1>1, <1>3, <1>4, <2>1 DEF Awaited, IsEmit
  <2>3. ASSUME NEW i \in 1..Len(queue')
        PROVE  Awaited(queue[i])'
    BY <1>1, <1>5, <2>1 DEF Awaited, IsEmit
  <2>4. ASSUME NEW i \in 1..Len(queue'), ~IsEmit(queue'[i]), queue'[i].by # Nobody
        PROVE  /\ \A j \in 1..Len(queue') :
                    i # j /\ ~IsEmit(queue'[j]) => queue'[i].by # queue'[j].by
               /\ ~IsEmit(h) => h.by # queue'[i].by
    <3>1. i + 1 \in 1..Len(queue) /\ queue'[i] = queue[i + 1] /\ i + 1 # 1
      BY <1>5, <2>4
    <3>2. ASSUME NEW j \in 1..Len(queue'), i # j, ~IsEmit(queue'[j])
          PROVE  queue'[i].by # queue'[j].by
      <4>1. j + 1 \in 1..Len(queue) /\ queue'[j] = queue[j + 1] /\ i + 1 # j + 1
        BY <1>5, <3>2
      <4> QED
        BY <2>4, <3>1, <3>2, <4>1 DEF IInv, ControlsInv
    <3>3. ~IsEmit(h) => h.by # queue'[i].by
      BY <1>4, <2>4, <3>1 DEF IInv, ControlsInv
    <3> QED
      BY <3>2, <3>3
  <2>5. \A i \in 1..Len(queue') : IsEmit(queue[i])' <=> IsEmit(queue'[i])
    BY DEF IsEmit
  <2> QED
    BY <1>3, <1>13, <2>2, <2>3, <2>4, <2>5 DEF ControlsInv
<1>15. FlushesInv'
  <2>1. ASSUME NEW i \in 1..Len(queue'), queue'[i].kind = "flush", queue'[i].by \in Task,
               NEW j \in 1..Len(queue'), i < j, IsEmit(queue'[j])
        PROVE  queue'[j].n > before[queue'[i].by]
    <3>1. /\ i + 1 \in 1..Len(queue) /\ queue'[i] = queue[i + 1]
          /\ j + 1 \in 1..Len(queue) /\ queue'[j] = queue[j + 1] /\ i + 1 < j + 1
      BY <1>5, <2>1
    <3> QED
      BY <2>1, <3>1 DEF IInv, FlushesInv
  <2>2. ASSUME h.kind = "flush", h.by \in Task
        PROVE  before[h.by] <= Len(delivered)
    <3>1. before[h.by] \in 0..accepted
      BY <2>2 DEF IInv, CallersInv
    <3>2. SUFFICES ASSUME before[h.by] > Len(delivered)
                   PROVE  FALSE
      BY <1>9, <3>1
    <3>3. Len(delivered) + 1 \in 1..accepted /\ ~(Len(delivered) + 1 <= Len(delivered))
      BY <1>9, <3>1, <3>2
    <3>4. InQueue(Len(delivered) + 1)
      BY <1>10, <3>3
    <3>5. PICK i \in 1..Len(queue) : IsEmit(queue[i]) /\ queue[i].n = Len(delivered) + 1
      BY <3>4 DEF InQueue, IsEmit
    <3>6. i # 1 /\ 1 < i
      BY <1>4, <2>2, <3>5 DEF IsEmit
    <3>7. queue[i].n > before[h.by]
      BY <1>4, <2>2, <3>5, <3>6 DEF IInv, FlushesInv
    <3> QED
      BY <1>9, <3>1, <3>2, <3>5, <3>7
  <2>3. \A i \in 1..Len(queue') : IsEmit(queue[i])' <=> IsEmit(queue'[i])
    BY DEF IsEmit
  <2>4. worker' # "respond"
    BY <1>2, <1>3 DEF Command
  <2> QED
    BY <1>1, <1>3, <2>1, <2>2, <2>3, <2>4 DEF IInv, FlushesInv
<1>16. ShutdownInv'
  <2>1. ASSUME NEW i \in 1..Len(queue'), queue'[i].kind = "shutdown"
        PROVE  i = Len(queue') /\ Leaving
    <3>1. i + 1 = Len(queue) /\ Leaving
      BY <1>5, <2>1 DEF IInv, ShutdownInv
    <3> QED
      BY <1>5, <2>1, <3>1
  <2>2. ASSUME h.kind = "shutdown"
        PROVE  Drained'
    <3>1. Len(queue) = 1 /\ Leaving
      BY <1>4, <2>2 DEF IInv, ShutdownInv
    <3>2. queue' = <<>>
      BY <1>5, <3>1, EmptySeq
    <3> QED
      BY <1>6, <3>1, <3>2 DEF Drained
  <2>3. worker' \in {"emit", "flush", "shutdown"}
    BY <1>2, <1>3 DEF Command
  <2>4. ~open' => Leaving
    BY <1>1, <1>3, <1>4 DEF IInv, ShutdownInv
  <2>5. ASSUME pc[Owner] = "response", reply[Owner] = "none"
        PROVE  \/ \E i \in 1..Len(queue') : queue'[i].by = Owner /\ ~IsEmit(queue'[i])
               \/ worker' = "shutdown" /\ cmd'.by = Owner
    <3>1. PICK i \in 1..Len(queue) : queue[i].by = Owner /\ ~IsEmit(queue[i])
      BY <1>1, <2>5 DEF IInv, ShutdownInv
    <3>2. CASE i = 1
      <4>1. h.kind = op[Owner] /\ op[Owner] = "shutdown"
        BY <1>4, <2>5, <3>1, <3>2, AsyncSinkAssumption
           DEF IInv, ControlsInv, Awaited, CallersInv, Caller
      <4> QED
        BY <1>3, <1>4, <3>1, <3>2, <4>1
    <3>3. CASE i # 1
      <4>1. i \in 2..Len(queue)
        BY <1>5, <3>3
      <4> QED
        BY <1>5, <3>1, <4>1
    <3> QED
      BY <3>2, <3>3
  <2>6. \A i \in 1..Len(queue') : IsEmit(queue[i])' <=> IsEmit(queue'[i])
    BY DEF IsEmit
  <2> QED
    BY <1>1, <1>3, <1>6, <2>1, <2>2, <2>3, <2>4, <2>5, <2>6 DEF ShutdownInv
<1>17. ResultsInv'
  BY <1>1 DEF IInv, ResultsInv
<1> QED
  BY <1>6, <1>7, <1>8, <1>12, <1>14, <1>15, <1>16, <1>17 DEF IInv

(* With every sender gone and the queue empty the loop comes to its end.   *)
LEMMA DrainStep ==
  ASSUME IInv, Receive, queue = <<>>
  PROVE  IInv'
<1>1. /\ worker = "recv" /\ ended = "ok" /\ worker' = "final"
      /\ pc[Owner] \in {"join", "done", "dropped"}
      /\ UNCHANGED <<policy, queue, waiting, open, callers, reply, cmd, ended, failure, accepted,
                     delivered, flushed>>
      /\ UNCHANGED <<pc, op, before, result>>
  BY DEF Receive, SendersGone, IInv, WorkerInv, callers, sinkVars
<1>2. CallersInv' /\ LineInv' /\ (Leaving' <=> Leaving)
  BY <1>1, WorkerLeavesCallers
<1>3. Len(queue) = 0
  BY EmptySeq
<1>4. ChannelInv' /\ WorkerInv'
  BY <1>1 DEF IInv, ChannelInv, WorkerInv
<1>5. NumbersInv'
  BY <1>1 DEF IInv, NumbersInv, Sound, InHand, InQueue, IsEmit
<1>6. ControlsInv' /\ FlushesInv'
  BY <1>1, <1>3 DEF IInv, ControlsInv, FlushesInv, InWork
<1>7. ShutdownInv'
  BY <1>1, <1>2, <1>3 DEF IInv, ShutdownInv, Drained, Leaving, Sound
<1>8. ResultsInv'
  BY <1>1 DEF IInv, ResultsInv
<1> QED
  BY <1>2, <1>4, <1>5, <1>6, <1>7, <1>8 DEF IInv

(* What the worker does with the command in its hands leaves the queue and *)
(* the callers alone.                                                      *)
LEMMA HandStep ==
  ASSUME IInv, UNCHANGED <<policy, queue, waiting, callers, reply, cmd, accepted>>,
         open' \in BOOLEAN, WorkerInv', NumbersInv', ShutdownInv', InWork' => InWork,
         worker \notin {"ended", "respond"}, worker' \notin {"ended", "flush"},
         flushed' \in Nat, flushed <= flushed',
         worker' = "respond" /\ ended' = "ok" /\ cmd.by \in Task => before[cmd.by] <= flushed'
  PROVE  IInv'
<1>1. UNCHANGED <<pc, op, before, result>>
  BY DEF callers
<1>2. CallersInv' /\ LineInv'
  BY WorkerLeavesCallers
<1>3. ChannelInv'
  BY DEF IInv, ChannelInv
<1>4. ControlsInv'
  <2>1. \A i \in 1..Len(queue) : Awaited(queue[i])' <=> Awaited(queue[i])
    BY <1>1 DEF Awaited, IsEmit
  <2>2. Awaited(cmd)' <=> Awaited(cmd)
    BY <1>1 DEF Awaited, IsEmit
  <2> QED
    BY <2>1, <2>2 DEF IInv, ControlsInv, IsEmit
<1>5. FlushesInv'
  <2>1. \A t \in Task : before[t] \in Nat
    BY DEF IInv, CallersInv, NumbersInv
  <2>2. flushed \in Nat
    BY LenProperties DEF IInv, NumbersInv
  <2>3. ASSUME NEW t \in Task, pc[t] = "response", reply[t] = "ok"
        PROVE  before[t] <= flushed'
    <3>1. before[t] <= flushed
      BY <2>3 DEF IInv, FlushesInv
    <3> QED
      BY <2>1, <2>2, <3>1
  <2>4. \A i \in 1..Len(queue) : queue[i].kind = "flush" /\ queue[i].by \in Task =>
          \A j \in 1..Len(queue) : i < j /\ IsEmit(queue[j]) => queue[j].n > before[queue[i].by]
    BY DEF IInv, FlushesInv
  <2> QED
    BY <1>1, <2>3, <2>4 DEF FlushesInv, IsEmit
<1>6. ResultsInv'
  <2>1. ended # "panic"
    BY DEF IInv, WorkerInv
  <2> QED
    BY <1>1, <2>1 DEF IInv, ResultsInv
<1> QED
  BY <1>2, <1>3, <1>4, <1>5, <1>6 DEF IInv

LEMMA SinkEmitStep ==
  ASSUME IInv, SinkEmit
  PROVE  IInv'
<1>1. /\ worker = "emit" /\ ended = "ok" /\ Sound /\ cmd.kind = "emit" /\ ~InWork
      /\ UNCHANGED <<policy, queue, waiting, open, callers, reply, cmd, accepted, flushed>>
      /\ UNCHANGED <<pc, op, before, result>>
  BY DEF SinkEmit, IInv, WorkerInv, Sound, InWork, callers, channel
<1>2. /\ accepted \in Nat /\ Len(delivered) \in Nat /\ delivered \in Seq(Nat)
      /\ flushed \in 0..Len(delivered) /\ open \in BOOLEAN
      /\ cmd.n = Len(delivered) + 1 /\ cmd.n <= accepted
      /\ \A i \in 1..Len(queue) : queue[i].n \in Nat
  BY <1>1, CommandFacts, LenProperties DEF IInv, NumbersInv, ChannelInv, Command
<1>3. ASSUME delivered' = Append(delivered, cmd.n), worker' = "recv", UNCHANGED <<ended, failure>>
      PROVE  IInv'
  <2>1. /\ delivered' \in Seq(Nat) /\ Len(delivered') = Len(delivered) + 1
        /\ \A i \in 1..Len(delivered) : delivered'[i] = delivered[i]
        /\ delivered'[Len(delivered) + 1] = cmd.n
    BY <1>2, <1>3, AppendFacts
  <2>2. WorkerInv'
    BY <1>1, <1>3 DEF IInv, WorkerInv
  <2>3. \A i \in 1..Len(queue) : IsEmit(queue[i]) => queue[i].n > Len(delivered')
    BY <1>1, <1>2, <2>1 DEF IInv, NumbersInv
  <2>4. ASSUME NEW n \in 1..accepted
        PROVE  n <= Len(delivered') \/ InQueue(n)
    <3>1. n <= Len(delivered) \/ n = cmd.n \/ InQueue(n)
      BY <1>1 DEF IInv, NumbersInv, InHand
    <3> QED
      BY <1>2, <2>1, <3>1
  <2>5. NumbersInv'
    <3>1. Len(delivered') <= accepted /\ flushed \in 0..Len(delivered')
      BY <1>2, <2>1
    <3>4. \A i \in 1..Len(delivered) : delivered[i] = i
      BY DEF IInv, NumbersInv
    <3>5. \A i \in 1..Len(delivered') : delivered'[i] = i
      BY <1>2, <2>1, <3>4
    <3>2. \A n : InQueue(n)' <=> InQueue(n)
      BY <1>1 DEF InQueue
    <3>3. \A i \in 1..Len(queue) : IsEmit(queue[i]) =>
            /\ queue[i].n <= accepted
            /\ \A j \in 1..Len(queue) : i < j /\ IsEmit(queue[j]) => queue[i].n < queue[j].n
      BY DEF IInv, NumbersInv
    <3> QED
      BY <1>1, <1>2, <1>3, <2>1, <2>3, <2>4, <3>1, <3>2, <3>3, <3>5
         DEF NumbersInv, IsEmit
  <2>6. ShutdownInv'
    BY <1>1, <1>3 DEF IInv, ShutdownInv, Leaving, Sound, IsEmit
  <2> QED
    BY <1>1, <1>2, <1>3, <2>2, <2>5, <2>6, HandStep DEF InWork
<1>4. ASSUME failure' = TRUE, ended' = "worker", worker' = "close", UNCHANGED delivered
      PROVE  IInv'
  <2>1. WorkerInv'
    BY <1>1, <1>4 DEF IInv, WorkerInv
  <2>2. NumbersInv'
    BY <1>1, <1>4 DEF IInv, NumbersInv, Sound, IsEmit
  <2>3. ShutdownInv'
    BY <1>1, <1>4 DEF IInv, ShutdownInv, Leaving, Sound, IsEmit
  <2> QED
    BY <1>1, <1>2, <1>4, <2>1, <2>2, <2>3, HandStep DEF InWork, IsEmit
<1> QED
  BY <1>3, <1>4 DEF SinkEmit, Fail, AfterRefusal

(* Nothing is left once the queue is empty and nothing has gone wrong.     *)
LEMMA AllDelivered ==
  ASSUME IInv, queue = <<>>, worker # "emit", Sound
  PROVE  Len(delivered) = accepted
<1>1. Len(queue) = 0 /\ Len(delivered) \in Nat /\ accepted \in Nat /\ Len(delivered) <= accepted
  BY EmptySeq, LenProperties DEF IInv, NumbersInv
<1>2. SUFFICES ASSUME Len(delivered) < accepted
               PROVE  FALSE
  BY <1>1
<1>3. Len(delivered) + 1 \in 1..accepted /\ ~(Len(delivered) + 1 <= Len(delivered))
  BY <1>1, <1>2
<1> QED
  BY <1>1, <1>3 DEF IInv, NumbersInv, InHand, InQueue

LEMMA SinkFlushStep ==
  ASSUME IInv, SinkFlush
  PROVE  IInv'
<1>1. /\ worker \in {"flush", "shutdown", "final"} /\ ended = "ok" /\ Sound
      /\ worker \in {"flush", "shutdown"} => InWork /\ cmd.kind = worker
      /\ UNCHANGED <<policy, queue, waiting, open, callers, reply, cmd, accepted, delivered>>
      /\ UNCHANGED <<pc, op, before, result>>
  BY DEF SinkFlush, IInv, WorkerInv, Sound, InWork, callers, channel
<1>2. Len(delivered) \in Nat /\ flushed \in 0..Len(delivered) /\ open \in BOOLEAN
  BY LenProperties DEF IInv, NumbersInv, ChannelInv
<1>3. worker # "flush" => Drained /\ Len(delivered) = accepted
  BY <1>1, AllDelivered DEF IInv, ShutdownInv, Drained
<1>4. ASSUME flushed' = Len(delivered), UNCHANGED <<ended, failure>>,
             worker' = IF worker = "final" THEN "return" ELSE "respond"
      PROVE  IInv'
  <2>1. WorkerInv'
    BY <1>1, <1>4 DEF IInv, WorkerInv
  <2>2. NumbersInv'
    BY <1>1, <1>2, <1>4 DEF IInv, NumbersInv, Sound, IsEmit, InHand, InQueue
  <2>3. ShutdownInv'
    BY <1>1, <1>3, <1>4 DEF IInv, ShutdownInv, Drained, Leaving, Sound, IsEmit
  <2>4. worker' = "respond" /\ cmd.by \in Task => before[cmd.by] <= flushed'
    <3>1. SUFFICES ASSUME worker' = "respond", cmd.by \in Task
                   PROVE  before[cmd.by] <= flushed'
      OBVIOUS
    <3>2. worker \in {"flush", "shutdown"}
      BY <1>1, <1>4, <3>1
    <3>3. op[cmd.by] = cmd.kind
      BY <1>1, <3>1, <3>2, AsyncSinkAssumption
         DEF IInv, ControlsInv, Awaited, IsEmit, Caller
    <3>4. worker = "flush"
      BY <1>1, <3>1, <3>2, <3>3 DEF IInv, CallersInv
    <3> QED
      BY <1>4, <3>1, <3>4 DEF IInv, FlushesInv
  <2> QED
    BY <1>1, <1>2, <1>4, <2>1, <2>2, <2>3, <2>4, HandStep DEF InWork
<1>5. ASSUME failure' = TRUE, ended' = "worker", UNCHANGED flushed,
             \/ worker = "flush" /\ worker' = "close"
             \/ worker = "shutdown" /\ worker' = "respond"
             \/ worker = "final" /\ worker' = "return"
      PROVE  IInv'
  <2>1. WorkerInv'
    BY <1>1, <1>5 DEF IInv, WorkerInv
  <2>2. NumbersInv'
    BY <1>1, <1>5 DEF IInv, NumbersInv, Sound, IsEmit
  <2>3. ShutdownInv'
    BY <1>1, <1>3, <1>5 DEF IInv, ShutdownInv, Drained, Leaving, Sound, IsEmit
  <2> QED
    BY <1>1, <1>2, <1>5, <2>1, <2>2, <2>3, HandStep DEF InWork, IsEmit
<1>6. CASE failure' = TRUE
  BY <1>1, <1>5, <1>4 DEF SinkFlush, Fail
<1> QED
  BY <1>1, <1>4, <1>5 DEF SinkFlush, Fail

LEMMA CloseReceiverStep ==
  ASSUME IInv, CloseReceiver
  PROVE  IInv'
<1>1. /\ worker = "close" /\ ended = "worker" /\ ~Sound /\ open' = FALSE
      /\ worker' = IF cmd.kind = "flush" THEN "respond" ELSE "return"
      /\ UNCHANGED <<policy, queue, waiting, callers, reply, cmd, ended, failure, accepted,
                     delivered, flushed>>
      /\ UNCHANGED <<pc, op, before, result>>
  BY DEF CloseReceiver, IInv, WorkerInv, Sound, callers, sinkVars
<1>2. Len(delivered) \in Nat /\ flushed \in 0..Len(delivered)
  BY LenProperties DEF IInv, NumbersInv
<1>3. WorkerInv'
  BY <1>1 DEF IInv, WorkerInv
<1>4. NumbersInv'
  BY <1>1 DEF IInv, NumbersInv, Sound, IsEmit
<1>5. ShutdownInv'
  BY <1>1 DEF IInv, ShutdownInv, Leaving, Sound, IsEmit
<1>6. InWork' => InWork
  BY <1>1 DEF InWork, IsEmit
<1>7. flushed' \in Nat /\ flushed <= flushed'
  <2>1. flushed' = flushed
    BY <1>1
  <2> QED
    BY <1>2, <2>1
<1>8. worker' \notin {"ended", "flush"} /\ ended' # "ok" /\ open' \in BOOLEAN
  BY <1>1
<1> QED
  BY <1>1, <1>3, <1>4, <1>5, <1>6, <1>7, <1>8, HandStep

LEMMA RespondStep ==
  ASSUME IInv, Respond
  PROVE  IInv'
<1>1. /\ worker = "respond" /\ ended \in {"ok", "worker"} /\ InWork /\ ~IsEmit(cmd)
      /\ cmd.kind \in {"flush", "shutdown"}
      /\ reply' = [c \in Caller |-> IF c = cmd.by THEN ended ELSE reply[c]]
      /\ worker' = IF ended = "ok" /\ cmd.kind = "flush" THEN "recv" ELSE "return"
      /\ UNCHANGED <<policy, queue, waiting, open, callers, cmd, ended, failure, accepted,
                     delivered, flushed>>
      /\ UNCHANGED <<pc, op, todo, before, result>>
  BY DEF Respond, IInv, WorkerInv, InWork, IsEmit, callers, channel, sinkVars
<1>2. Nobody \notin Caller /\ Owner \in Caller /\ Task \subseteq Caller
  BY AsyncSinkAssumption DEF Caller
<1>3. ASSUME cmd.by \in Caller
      PROVE  pc[cmd.by] = "response" /\ reply[cmd.by] = "none" /\ op[cmd.by] = cmd.kind
  BY <1>1, <1>2, <1>3 DEF IInv, ControlsInv, Awaited
<1>4. \A c \in Caller : reply'[c] = IF c = cmd.by THEN ended ELSE reply[c]
  BY <1>1
<1>5. CallersInv' /\ LineInv' /\ (Leaving' <=> Leaving)
  <2>1. reply' \in [Caller -> {"none", "ok", "worker"}]
    BY <1>1 DEF IInv, CallersInv
  <2>2. \A c \in Caller : reply'[c] # "none" => pc[c] \in {"response", "dropped"}
    BY <1>3, <1>4 DEF IInv, CallersInv
  <2> QED
    BY <1>1, <2>1, <2>2 DEF IInv, CallersInv, LineInv, Leaving
<1>6. ChannelInv' /\ WorkerInv'
  BY <1>1 DEF IInv, ChannelInv, WorkerInv
<1>7. NumbersInv'
  BY <1>1 DEF IInv, NumbersInv, Sound, IsEmit, InHand, InQueue
<1>8. ControlsInv'
  <2>1. ASSUME NEW i \in 1..Len(queue)
        PROVE  Awaited(queue[i])'
    <3>1. queue[i].by \in Caller \cup {Nobody}
      BY <2>1, CommandFacts DEF IInv, Command
    <3>2. SUFFICES ASSUME ~IsEmit(queue[i]), queue[i].by # Nobody
                   PROVE  /\ pc[queue[i].by] = "response" /\ reply'[queue[i].by] = "none"
                          /\ op[queue[i].by] = queue[i].kind
      BY <1>1 DEF Awaited, IsEmit
    <3>3. /\ pc[queue[i].by] = "response" /\ reply[queue[i].by] = "none"
          /\ op[queue[i].by] = queue[i].kind /\ cmd.by # queue[i].by
      BY <1>1, <2>1, <3>2 DEF IInv, ControlsInv, Awaited
    <3> QED
      BY <1>4, <3>1, <3>2, <3>3
  <2>2. ~InWork'
    BY <1>1 DEF InWork
  <2>3. \A i \in 1..Len(queue) : ~IsEmit(queue[i]) /\ queue[i].by # Nobody =>
          \A j \in 1..Len(queue) : i # j /\ ~IsEmit(queue[j]) => queue[i].by # queue[j].by
    BY DEF IInv, ControlsInv
  <2> QED
    BY <1>1, <2>1, <2>2, <2>3 DEF ControlsInv, IsEmit
<1>9. FlushesInv'
  <2>1. ASSUME NEW t \in Task, pc[t] = "response", reply'[t] = "ok"
        PROVE  before[t] <= flushed
    <3>1. CASE t = cmd.by
      <4>1. ended = "ok"
        BY <1>2, <1>4, <2>1, <3>1
      <4> QED
        BY <1>1, <3>1, <4>1 DEF IInv, FlushesInv
    <3>2. CASE t # cmd.by
      BY <1>2, <1>4, <2>1, <3>2 DEF IInv, FlushesInv
    <3> QED
      BY <3>1, <3>2
  <2> QED
    BY <1>1, <2>1 DEF IInv, FlushesInv, IsEmit
<1>10. ShutdownInv'
  <2>1. pc[Owner] = "response" /\ reply'[Owner] = "none" =>
          reply[Owner] = "none" /\ cmd.by # Owner
    BY <1>1, <1>2, <1>4
  <2> QED
    BY <1>1, <1>5, <2>1 DEF IInv, ShutdownInv, Drained, Sound, IsEmit
<1>11. ResultsInv'
  BY <1>1 DEF IInv, ResultsInv
<1> QED
  BY <1>5, <1>6, <1>7, <1>8, <1>9, <1>10, <1>11 DEF IInv

LEMMA EndStep ==
  ASSUME IInv, End
  PROVE  IInv'
<1>1. /\ worker \in {"return", "emit", "flush", "shutdown", "final"}
      /\ (worker = "return" /\ ended' = ended) \/ ended' = "panic"
      /\ worker' = "ended" /\ open' = FALSE /\ queue' = <<>>
      /\ UNCHANGED <<policy, waiting, callers, reply, cmd, failure, accepted, delivered, flushed>>
      /\ UNCHANGED <<pc, op, before, result>>
  BY DEF End, DropReceiver, callers, sinkVars
<1>2. CallersInv' /\ LineInv' /\ (Leaving' <=> Leaving)
  BY <1>1, WorkerLeavesCallers
<1>3. Len(queue') = 0 /\ queue' \in Seq(Command)
  BY <1>1, EmptySeq
<1>4. ChannelInv'
  <2>1. Len(queue') <= Capacity
    BY <1>3, AsyncSinkAssumption
  <2> QED
    BY <1>1, <1>3, <2>1 DEF IInv, ChannelInv
<1>5. ended # "panic"
  BY <1>1 DEF IInv, WorkerInv
<1>6. WorkerInv'
  BY <1>1, <1>5 DEF IInv, WorkerInv
<1>7. Sound' \/ ended' = "ok" =>
        /\ worker = "return" /\ ended = "ok" /\ Sound
        /\ Drained /\ Len(delivered) = accepted /\ flushed = accepted
  BY <1>1, <1>5 DEF IInv, WorkerInv, ShutdownInv, Sound
<1>8. NumbersInv'
  BY <1>1, <1>3, <1>7 DEF IInv, NumbersInv
<1>9. ControlsInv' /\ FlushesInv'
  BY <1>1, <1>3 DEF IInv, ControlsInv, FlushesInv, InWork
<1>10. ShutdownInv'
  <2>1. Sound => pc[Owner] # "response" \/ reply[Owner] # "none" \/ worker # "return"
                   \/ queue # <<>>
    BY EmptySeq DEF IInv, ShutdownInv
  <2> QED
    BY <1>1, <1>2, <1>3, <1>7, <2>1 DEF ShutdownInv, Drained
<1>11. ResultsInv'
  BY <1>1, <1>5 DEF IInv, ResultsInv
<1> QED
  BY <1>2, <1>4, <1>6, <1>8, <1>9, <1>10, <1>11 DEF IInv

-----------------------------------------------------------------------------
(* The whole sink                                                          *)

LEMMA InitIInv == Init => IInv
<1> SUFFICES ASSUME Init
             PROVE  IInv
  OBVIOUS
<1> USE DEF Init
<1>1. Len(queue) = 0 /\ Len(waiting) = 0 /\ Len(delivered) = 0
  BY EmptySeq
<1>2. Owner \in Caller /\ Task \subseteq Caller /\ 0 \in 0..MaxEmits /\ 0 \in 0..0
  BY AsyncSinkAssumption DEF Caller
<1>3. ChannelInv
  <2>1. IsInjective(waiting)
    BY DEF IsInjective
  <2> QED
    BY <1>1, <2>1, AsyncSinkAssumption DEF ChannelInv
<1>4. CallersInv
  BY <1>2 DEF CallersInv, Results
<1>5. LineInv
  BY <1>1 DEF LineInv
<1>6. WorkerInv
  BY DEF WorkerInv, Idle, Command
<1>7. NumbersInv
  BY <1>1 DEF NumbersInv
<1>8. ControlsInv /\ FlushesInv /\ ShutdownInv /\ ResultsInv
  BY <1>1, <1>2 DEF ControlsInv, FlushesInv, ShutdownInv, ResultsInv, InWork, Leaving
<1> QED
  BY <1>3, <1>4, <1>5, <1>6, <1>7, <1>8 DEF IInv

LEMMA StutterStep ==
  ASSUME IInv, UNCHANGED vars
  PROVE  IInv'
<1> USE DEF vars, channel, callers, working, sinkVars
<1>1. ChannelInv' /\ CallersInv' /\ LineInv' /\ WorkerInv' /\ ResultsInv'
  BY DEF IInv, ChannelInv, CallersInv, LineInv, WorkerInv, ResultsInv
<1>2. NumbersInv'
  BY DEF IInv, NumbersInv, Sound, InHand, InQueue, IsEmit
<1>3. ControlsInv' /\ FlushesInv'
  BY DEF IInv, ControlsInv, FlushesInv, Awaited, InWork, IsEmit
<1>4. ShutdownInv'
  BY DEF IInv, ShutdownInv, Drained, Leaving, Sound, IsEmit
<1> QED
  BY <1>1, <1>2, <1>3, <1>4 DEF IInv

LEMMA PollStep ==
  ASSUME IInv, NEW c \in Caller, Poll(c)
  PROVE  IInv'
<1>1. CASE c \in Task /\ CheckFailure(c)
  BY <1>1, CheckFailureStep
<1>2. CASE c \in Task /\ TrySend(c)
  BY <1>2, TrySendStep
<1>3. CASE Send(c)
  BY <1>3, SendStep
<1>4. CASE SendFails(c)
  BY <1>4, SendFailsStep
<1>5. CASE AwaitResponse(c)
  BY <1>5, AwaitResponseStep
<1>6. CASE JoinWorker
  BY <1>6, JoinWorkerStep
<1> QED
  BY <1>1, <1>2, <1>3, <1>4, <1>5, <1>6 DEF Poll

LEMMA WorkerStep ==
  ASSUME IInv, Worker
  PROVE  IInv'
<1>1. CASE Receive
  BY <1>1, ReceiveStep, DrainStep
<1>2. CASE SinkEmit
  BY <1>2, SinkEmitStep
<1>3. CASE SinkFlush
  BY <1>3, SinkFlushStep
<1>4. CASE CloseReceiver
  BY <1>4, CloseReceiverStep
<1>5. CASE Respond
  BY <1>5, RespondStep
<1>6. CASE End
  BY <1>6, EndStep
<1> QED
  BY <1>1, <1>2, <1>3, <1>4, <1>5, <1>6 DEF Worker

LEMMA NextIInv == IInv /\ [Next]_vars => IInv'
<1> SUFFICES ASSUME IInv, [Next]_vars
             PROVE  IInv'
  OBVIOUS
<1>1. ASSUME NEW t \in Task, NEW n \in 1..MaxEmits, Emit(t, n)
      PROVE  IInv'
  BY <1>1, EmitStep
<1>2. ASSUME NEW t \in Task, Flush(t)
      PROVE  IInv'
  BY <1>2, FlushStep
<1>3. ASSUME NEW t \in Task, Cancel(t)
      PROVE  IInv'
  BY <1>3, CancelStep
<1>4. CASE Shutdown
  BY <1>4, ShutdownStep
<1>5. CASE Drop
  BY <1>5, DropStep
<1>6. ASSUME NEW c \in Caller, Poll(c)
      PROVE  IInv'
  BY <1>6, PollStep
<1>7. CASE Worker
  BY <1>7, WorkerStep
<1>8. CASE UNCHANGED vars
  BY <1>8, StutterStep
<1> QED
  BY <1>1, <1>2, <1>3, <1>4, <1>5, <1>6, <1>7, <1>8 DEF Next

LEMMA IInvHolds == Spec => []IInv
<1>1. Init => IInv
  BY InitIInv
<1>2. IInv /\ [Next]_vars => IInv'
  BY NextIInv
<1> QED
  BY <1>1, <1>2, PTL DEF Spec

(* Every variable keeps its type: the queue never holds more than its      *)
(* capacity, nobody stands in line twice, and the sink never sees a        *)
(* diagnostic that was not accepted.                                       *)
THEOREM TypesHold == Spec => []TypeOK
<1>1. IInv => TypeOK
  <2> SUFFICES ASSUME IInv
               PROVE  TypeOK
    OBVIOUS
  <2>1. delivered \in Seq(1..accepted)
    <3>1. /\ delivered \in Seq(Nat) /\ Len(delivered) \in Nat /\ Len(delivered) <= accepted
          /\ accepted \in Nat /\ \A i \in 1..Len(delivered) : delivered[i] = i
      BY LenProperties DEF IInv, NumbersInv
    <3>2. \A i \in 1..Len(delivered) : delivered[i] \in 1..accepted
      BY <3>1
    <3>3. delivered \in [1..Len(delivered) -> Nat]
      BY <3>1, LenProperties
    <3>4. delivered \in [1..Len(delivered) -> 1..accepted]
      BY <3>2, <3>3
    <3> QED
      BY <3>1, <3>4, SeqDef
  <2> QED
    BY <2>1 DEF TypeOK, IInv, ChannelInv, CallersInv, WorkerInv, NumbersInv
<1> QED
  BY <1>1, IInvHolds, PTL

(* The sink sees what was accepted in that order, from the first one on    *)
(* and without a gap, whoever submits, cancels or fails.                   *)
THEOREM NoGapInSink == Spec => []NoGap
<1>1. IInv => NoGap
  BY LenProperties DEF IInv, NumbersInv, NoGap
<1> QED
  BY <1>1, IInvHolds, PTL

(* What was accepted is in the sink, in the worker's hands or in the queue *)
(* as long as no failure and no panic is on record, and a caller is told   *)
(* Closed only after a panic.                                              *)
THEOREM LossesAreReported == Spec => []LossIsReported
<1>1. IInv => LossIsReported
  <2> SUFFICES ASSUME IInv
               PROVE  LossIsReported
    OBVIOUS
  <2>1. ASSUME Sound, NEW n \in 1..accepted
        PROVE  InSink(n) \/ InHand(n) \/ InQueue(n)
    <3>1. CASE n <= Len(delivered)
      <4>1. accepted \in Nat /\ Len(delivered) \in Nat
        BY LenProperties DEF IInv, NumbersInv
      <4>2. n \in 1..Len(delivered)
        BY <3>1, <4>1
      <4> QED
        BY <4>2 DEF IInv, NumbersInv, InSink
    <3> QED
      BY <2>1, <3>1 DEF IInv, NumbersInv
  <2> QED
    BY <2>1 DEF Sound, LossIsReported, IInv, ResultsInv
<1> QED
  BY <1>1, IInvHolds, PTL

(* A flush answers Ok only when everything accepted before the call is in  *)
(* the sink and flushed, a shutdown only when everything is.               *)
THEOREM OksCover == Spec => []OkCovers
<1>1. IInv => OkCovers
  BY DEF IInv, FlushesInv, ShutdownInv, ResultsInv, OkCovers
<1> QED
  BY <1>1, IInvHolds, PTL
=============================================================================
