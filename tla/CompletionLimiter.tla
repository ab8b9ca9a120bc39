-------------------------- MODULE CompletionLimiter --------------------------
(***************************************************************************)
(* InMemoryCompletionLimiter: at most MaxConcurrent completions run, at     *)
(* most MaxQueued wait in FIFO order, further calls are refused, and a     *)
(* waiting call leaves the queue when its AbortSignal fires.               *)
(*                                                                         *)
(* acquire, release and the abort handler run without an await, so each is *)
(* one action per outcome.  A call of run() is identified by a slot; when  *)
(* it has ended the slot serves another call, with a fresh signal.         *)
(***************************************************************************)
EXTENDS Integers, FiniteSets, SequencesExt

CONSTANTS
  Tasks,           \* slots for calls of run()
  MaxConcurrent,
  MaxQueued

\* The checks of the constructor.
ASSUME MaxConcurrentAssumption == MaxConcurrent \in Nat \ {0}
ASSUME MaxQueuedAssumption == MaxQueued \in Nat
ASSUME TasksAssumption == IsFiniteSet(Tasks)

VARIABLES
  active,    \* this.active
  queue,     \* this.queue, as the slots of the waiting calls
  aborted,   \* slots whose signal has fired
  state      \* where the call of each slot stands

vars == <<active, queue, aborted, state>>

TypeOK ==
  /\ active \in Nat
  /\ queue \in Seq(Tasks)
  /\ aborted \subseteq Tasks
  /\ state \in [Tasks -> {"idle", "queued", "running"}]

Init ==
  /\ active = 0
  /\ queue = <<>>
  /\ aborted = {}
  /\ state = [t \in Tasks |-> "idle"]

Running == {t \in Tasks : state[t] = "running"}

-----------------------------------------------------------------------------
(* acquire() *)

StartNow(t) ==
  /\ state[t] = "idle" /\ t \notin aborted
  /\ active < MaxConcurrent
  /\ active' = active + 1
  /\ state' = [state EXCEPT ![t] = "running"]
  /\ UNCHANGED <<queue, aborted>>

Wait(t) ==
  /\ state[t] = "idle" /\ t \notin aborted
  /\ active >= MaxConcurrent
  /\ Len(queue) < MaxQueued
  /\ queue' = Append(queue, t)
  /\ state' = [state EXCEPT ![t] = "queued"]
  /\ UNCHANGED <<active, aborted>>

\* The signal had already fired, or the queue is full.
Refuse(t) ==
  /\ state[t] = "idle"
  /\ t \in aborted \/ (active >= MaxConcurrent /\ Len(queue) >= MaxQueued)
  /\ aborted' = aborted \ {t}
  /\ UNCHANGED <<active, queue, state>>

-----------------------------------------------------------------------------
(* The caller's AbortSignal *)

(* Mutant: the handler rejects the call but leaves it in the queue. *)
AbortWaitingUnspliced(t) ==
  /\ state[t] = "queued" /\ t \notin aborted
  /\ aborted' = aborted \cup {t}
  /\ state' = [state EXCEPT ![t] = "idle"]
  /\ UNCHANGED <<active, queue>>

\* The handler of a waiting call splices it out and rejects it, which ends it,
\* in the same turn.
AbortWaiting(t) ==
  /\ state[t] = "queued"
  /\ \E i \in 1..Len(queue) : queue[i] = t /\ queue' = RemoveAt(queue, i)
  /\ state' = [state EXCEPT ![t] = "idle"]
  /\ UNCHANGED <<active, aborted>>

\* Before the call there is no handler yet; while it runs there is none any
\* more, and it keeps its place until it ends.
AbortOther(t) ==
  /\ state[t] \in {"idle", "running"} /\ t \notin aborted
  /\ aborted' = aborted \cup {t}
  /\ UNCHANGED <<active, queue, state>>

-----------------------------------------------------------------------------
(* release(), called when the task of t ends.  It shifts the head of the     *)
(* queue; a head whose signal has fired is rejected and release() calls      *)
(* itself, decrementing active once more.                                    *)

(* Mutant: every release counts twice, and nothing clamps the counter. *)
DecrementedTwice(n) == active - 2 * n

Decremented(n) == IF active > n THEN active - n ELSE 0

\* The first k waiting calls have been aborted, the one after them has not.
AbortedPrefix(k) ==
  /\ \A i \in 1..k : queue[i] \in aborted
  /\ k < Len(queue) => queue[k + 1] \notin aborted

\* The calls that end when t does and the first k waiting are rejected.
Ending(t, k) == {t} \cup {queue[i] : i \in 1..k}

StatesAfter(t, k) == [s \in Tasks |-> IF s \in Ending(t, k) THEN "idle" ELSE state[s]]

FinishToIdle(t) ==
  /\ state[t] = "running"
  /\ AbortedPrefix(Len(queue))
  /\ active' = Decremented(Len(queue) + 1)
  /\ queue' = <<>>
  /\ state' = StatesAfter(t, Len(queue))
  /\ aborted' = aborted \ Ending(t, Len(queue))

(* Mutant: the place is freed but no waiting call is woken. *)
FinishWithoutWaking(t) ==
  /\ state[t] = "running"
  /\ queue # <<>>
  /\ active' = Decremented(1)
  /\ state' = StatesAfter(t, 0)
  /\ aborted' = aborted \ {t}
  /\ UNCHANGED queue

(* Mutant: the newest waiting call is woken. *)
FinishWakingLast(t) ==
  /\ state[t] = "running"
  /\ queue # <<>>
  /\ active' = active
  /\ queue' = Front(queue)
  /\ state' = [StatesAfter(t, 0) EXCEPT ![Last(queue)] = "running"]
  /\ aborted' = aborted \ {t}

FinishAndHandOver(t) ==
  /\ state[t] = "running"
  /\ \E k \in 0..(Len(queue) - 1) :
       /\ AbortedPrefix(k)
       /\ active' = Decremented(k + 1) + 1
       /\ queue' = SubSeq(queue, k + 2, Len(queue))
       /\ state' = [StatesAfter(t, k) EXCEPT ![queue[k + 1]] = "running"]
       /\ aborted' = aborted \ Ending(t, k)

-----------------------------------------------------------------------------
Finish(t) == FinishToIdle(t) \/ FinishAndHandOver(t)

Next ==
  \E t \in Tasks :
    \/ StartNow(t) \/ Wait(t) \/ Refuse(t)
    \/ AbortWaiting(t) \/ AbortOther(t)
    \/ Finish(t)

Spec == Init /\ [][Next]_vars

\* Every completion that runs ends (each of its awaits settles).
FairSpec == Spec /\ \A t \in Tasks : WF_vars(Finish(t))

-----------------------------------------------------------------------------
(* Properties *)

\* The counter is the number of running completions and never exceeds
\* maxConcurrent: no path through abort, hand-over and the recursive release
\* leaks a place or frees one twice.
ActiveCountsRunning ==
  /\ active = Cardinality(Running)
  /\ active <= MaxConcurrent

\* Calls wait only while every place is taken.
NoIdlePlace == queue # <<>> => active = MaxConcurrent

\* The queue lists the waiting calls, each once, none of them aborted, and
\* never more than maxQueued: release() can therefore always wake the head.
QueueIsWaiting ==
  /\ \A t \in Tasks : state[t] = "queued" <=> \E i \in 1..Len(queue) : queue[i] = t
  /\ \A i, j \in 1..Len(queue) : queue[i] = queue[j] => i = j
  /\ \A i \in 1..Len(queue) : queue[i] \notin aborted
  /\ Len(queue) <= MaxQueued

\* A waiting call is never overtaken by one that queued behind it.
FirstComeFirstServed ==
  [][\A i, j \in 1..Len(queue) :
       i < j /\ state'[queue[j]] = "running" => state'[queue[i]] # "queued"]_vars

\* A waiting call does not wait for ever.
WaitingServed == \A t \in Tasks : state[t] = "queued" ~> state[t] # "queued"
=============================================================================
