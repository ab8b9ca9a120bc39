----------------------- MODULE CompletionLimiter_proofs -----------------------
(***************************************************************************)
(* Theorems about the completion limiter, and about the completions that   *)
(* retry their storage calls under it.                                     *)
(***************************************************************************)
EXTENDS RetriedCompletions, FiniteSetTheorems, SequenceTheorems,
        WellFoundedInduction, TLAPS

\* The properties hold together: the counter and the queue are only right if
\* release() always finds a waiting call at the head that can be woken.
LimiterInv == TypeOK /\ ActiveCountsRunning /\ NoIdlePlace /\ QueueIsWaiting

\* How the number of running completions changes.
LEMMA RunningCounted ==
  ASSUME TypeOK
  PROVE  /\ IsFiniteSet(Running) /\ Cardinality(Running) \in Nat
         /\ \A t \in Tasks \ Running :
              Cardinality(Running \cup {t}) = Cardinality(Running) + 1
         /\ \A t \in Running :
              /\ Cardinality(Running) > 0
              /\ Cardinality(Running \ {t}) = Cardinality(Running) - 1
         /\ \A t \in Running, w \in Tasks \ Running :
              Cardinality((Running \ {t}) \cup {w}) = Cardinality(Running)
<1>1. IsFiniteSet(Running) /\ Cardinality(Running) \in Nat
  BY TasksAssumption, FS_Subset, FS_CardinalityType DEF Running
<1>2. \A t \in Tasks \ Running : Cardinality(Running \cup {t}) = Cardinality(Running) + 1
  BY <1>1, FS_AddElement
<1>3. ASSUME NEW t \in Running
      PROVE  /\ Cardinality(Running) > 0
             /\ Cardinality(Running \ {t}) = Cardinality(Running) - 1
             /\ IsFiniteSet(Running \ {t})
  <2>1. /\ Cardinality(Running \ {t}) = Cardinality(Running) - 1
        /\ IsFiniteSet(Running \ {t})
    BY <1>1, FS_RemoveElement
  <2>2. Cardinality(Running) # 0
    BY <1>1, FS_EmptySet
  <2>3. QED
    BY <1>1, <2>1, <2>2
<1>4. ASSUME NEW t \in Running, NEW w \in Tasks \ Running
      PROVE  Cardinality((Running \ {t}) \cup {w}) = Cardinality(Running)
  <2>1. w \notin Running \ {t}
    OBVIOUS
  <2>2. Cardinality((Running \ {t}) \cup {w}) = Cardinality(Running \ {t}) + 1
    BY <1>3, <2>1, FS_AddElement
  <2>3. QED
    BY <1>1, <1>3, <2>2
<1>5. QED
  BY <1>1, <1>2, <1>3, <1>4

\* No waiting call is aborted, so release() never has to reject one and shifts
\* exactly the head.
LEMMA ReleaseShiftsHead ==
  ASSUME LimiterInv, NEW t \in Tasks, Finish(t)
  PROVE  /\ state[t] = "running" /\ aborted' = aborted \ {t}
         /\ \/ /\ queue = <<>> /\ queue' = <<>> /\ active' = active - 1
               /\ state' = [state EXCEPT ![t] = "idle"]
            \/ /\ queue # <<>> /\ queue' = SubSeq(queue, 2, Len(queue)) /\ active' = active
               /\ queue[1] \in Tasks /\ state[queue[1]] = "queued"
               /\ state' = [state EXCEPT ![t] = "idle", ![queue[1]] = "running"]
<1>0. /\ queue \in Seq(Tasks) /\ Len(queue) \in Nat /\ active \in Nat
      /\ state \in [Tasks -> {"idle", "queued", "running"}]
  BY DEF LimiterInv, TypeOK
<1>1. state[t] = "running"
  BY DEF Finish, FinishToIdle, FinishAndHandOver
<1>2. active > 0
  BY <1>1, RunningCounted DEF LimiterInv, ActiveCountsRunning, Running
<1>3. \A k \in 0..Len(queue) : AbortedPrefix(k) => k = 0
  BY <1>0 DEF AbortedPrefix, LimiterInv, QueueIsWaiting
<1>4. Ending(t, 0) = {t}
  BY DEF Ending
<1>5. StatesAfter(t, 0) = [state EXCEPT ![t] = "idle"]
  BY <1>0, <1>4 DEF StatesAfter
<1>6. Decremented(1) = active - 1
  BY <1>0, <1>2 DEF Decremented
<1>7. CASE FinishToIdle(t)
  <2>1. Len(queue) = 0
    BY <1>0, <1>3, <1>7 DEF FinishToIdle
  <2>2. queue = <<>>
    BY <1>0, <2>1
  <2>3. QED
    BY <1>0, <1>1, <1>4, <1>5, <1>6, <1>7, <2>1, <2>2 DEF FinishToIdle
<1>8. CASE FinishAndHandOver(t)
  <2>1. /\ 0 \in 0..(Len(queue) - 1)
        /\ active' = Decremented(1) + 1
        /\ queue' = SubSeq(queue, 2, Len(queue))
        /\ state' = [StatesAfter(t, 0) EXCEPT ![queue[1]] = "running"]
        /\ aborted' = aborted \ Ending(t, 0)
    <3>1. PICK k \in 0..(Len(queue) - 1) :
            /\ AbortedPrefix(k)
            /\ active' = Decremented(k + 1) + 1
            /\ queue' = SubSeq(queue, k + 2, Len(queue))
            /\ state' = [StatesAfter(t, k) EXCEPT ![queue[k + 1]] = "running"]
            /\ aborted' = aborted \ Ending(t, k)
      BY <1>8 DEF FinishAndHandOver
    <3>2. k = 0
      BY <1>0, <1>3, <3>1
    <3>3. QED
      BY <3>1, <3>2
  <2>2. queue # <<>> /\ 1 \in 1..Len(queue) /\ queue[1] \in Tasks
    BY <1>0, <2>1
  <2>3. state[queue[1]] = "queued"
    BY <2>2 DEF LimiterInv, QueueIsWaiting
  <2>4. active' = active /\ aborted' = aborted \ {t}
    BY <1>0, <1>4, <1>6, <2>1
  <2>5. state' = [state EXCEPT ![t] = "idle", ![queue[1]] = "running"]
    BY <1>5, <2>1, Zenon
  <2>6. QED
    BY <1>1, <2>1, <2>2, <2>3, <2>4, <2>5
<1>9. QED
  BY <1>7, <1>8 DEF Finish

-----------------------------------------------------------------------------
(* Each step keeps the properties *)

LEMMA StartNowKeeps ==
  ASSUME LimiterInv, NEW t \in Tasks, StartNow(t)
  PROVE  LimiterInv'
<1>0. /\ queue \in Seq(Tasks) /\ active \in Nat /\ MaxConcurrent \in Nat
      /\ state \in [Tasks -> {"idle", "queued", "running"}]
  BY MaxConcurrentAssumption DEF LimiterInv, TypeOK
<1>1. t \in Tasks \ Running /\ Running' = Running \cup {t}
  BY <1>0 DEF StartNow, Running
<1>2. TypeOK'
  BY <1>0 DEF StartNow, LimiterInv, TypeOK
<1>3. ActiveCountsRunning'
  BY <1>0, <1>1, RunningCounted DEF StartNow, LimiterInv, ActiveCountsRunning
<1>4. NoIdlePlace'
  BY <1>0 DEF StartNow, LimiterInv, NoIdlePlace
<1>5. QueueIsWaiting'
  BY <1>0 DEF StartNow, LimiterInv, QueueIsWaiting
<1>6. QED
  BY <1>2, <1>3, <1>4, <1>5 DEF LimiterInv

LEMMA WaitKeeps ==
  ASSUME LimiterInv, NEW t \in Tasks, Wait(t)
  PROVE  LimiterInv'
<1>0. /\ queue \in Seq(Tasks) /\ Len(queue) \in Nat /\ active \in Nat /\ MaxConcurrent \in Nat
      /\ state \in [Tasks -> {"idle", "queued", "running"}] /\ MaxQueued \in Nat
  BY MaxConcurrentAssumption, MaxQueuedAssumption DEF LimiterInv, TypeOK
<1>1. /\ queue' \in Seq(Tasks) /\ Len(queue') = Len(queue) + 1
      /\ \A i \in 1..Len(queue) : queue'[i] = queue[i]
      /\ queue'[Len(queue) + 1] = t
  BY <1>0 DEF Wait
<1>2. Running' = Running
  BY <1>0 DEF Wait, Running
<1>3. TypeOK'
  BY <1>0, <1>1 DEF Wait, LimiterInv, TypeOK
<1>4. ActiveCountsRunning' /\ NoIdlePlace'
  BY <1>0, <1>2 DEF Wait, LimiterInv, ActiveCountsRunning, NoIdlePlace
<1>5. QueueIsWaiting'
  <2>1. \A i \in 1..Len(queue) : queue[i] # t
    BY DEF Wait, LimiterInv, QueueIsWaiting
  <2>2. \A s \in Tasks : state'[s] = IF s = t THEN "queued" ELSE state[s]
    BY <1>0 DEF Wait
  <2>3. \A i \in 1..Len(queue') : i \in 1..Len(queue) \/ i = Len(queue) + 1
    BY <1>0, <1>1
  <2>4. \A s \in Tasks : state'[s] = "queued" <=> \E i \in 1..Len(queue') : queue'[i] = s
    BY <1>0, <1>1, <2>1, <2>2, <2>3 DEF LimiterInv, QueueIsWaiting
  <2>5. \A i, j \in 1..Len(queue') : queue'[i] = queue'[j] => i = j
    BY <1>0, <1>1, <2>1, <2>3 DEF LimiterInv, QueueIsWaiting
  <2>6. \A i \in 1..Len(queue') : queue'[i] \notin aborted'
    BY <1>0, <1>1, <2>3 DEF Wait, LimiterInv, QueueIsWaiting
  <2>7. Len(queue') <= MaxQueued
    BY <1>0, <1>1 DEF Wait
  <2>8. QED
    BY <2>4, <2>5, <2>6, <2>7 DEF QueueIsWaiting
<1>6. QED
  BY <1>3, <1>4, <1>5 DEF LimiterInv

\* What is left of a sequence when one element is spliced out.
LEMMA SplicedOut ==
  ASSUME NEW S, NEW q \in Seq(S), NEW k \in 1..Len(q)
  PROVE  /\ RemoveAt(q, k) \in Seq(S)
         /\ Len(RemoveAt(q, k)) = Len(q) - 1
         /\ \A i \in 1..(k - 1) : RemoveAt(q, k)[i] = q[i]
         /\ \A i \in k..(Len(q) - 1) : RemoveAt(q, k)[i] = q[i + 1]
<1>0. Len(q) \in Nat /\ k \in Nat
  OBVIOUS
<1>1. PICK a \in Seq(S) : /\ a = SubSeq(q, 1, k - 1) /\ Len(a) = k - 1
                          /\ \A i \in 1..(k - 1) : a[i] = q[i]
  <2>1. /\ SubSeq(q, 1, k - 1) \in Seq(S) /\ Len(SubSeq(q, 1, k - 1)) = k - 1
        /\ \A i \in 1..(k - 1) : SubSeq(q, 1, k - 1)[i] = q[i]
    BY <1>0
  <2>2. QED
    BY <2>1
<1>2. PICK b \in Seq(S) : /\ b = SubSeq(q, k + 1, Len(q)) /\ Len(b) = Len(q) - k
                          /\ \A i \in 1..(Len(q) - k) : b[i] = q[k + i]
  <2>1. /\ SubSeq(q, k + 1, Len(q)) \in Seq(S) /\ Len(SubSeq(q, k + 1, Len(q))) = Len(q) - k
        /\ \A i \in 1..(Len(q) - k) : SubSeq(q, k + 1, Len(q))[i] = q[k + i]
    BY <1>0
  <2>2. QED
    BY <2>1
<1>3. RemoveAt(q, k) = a \o b
  BY <1>1, <1>2 DEF RemoveAt
<1>a. Len(a) = k - 1 /\ \A i \in 1..(k - 1) : a[i] = q[i]
  BY <1>1
<1>b. Len(b) = Len(q) - k /\ \A i \in 1..(Len(q) - k) : b[i] = q[k + i]
  BY <1>2
<1>c. /\ a \o b \in Seq(S) /\ Len(a \o b) = Len(a) + Len(b)
      /\ \A i \in 1..(Len(a) + Len(b)) :
           (a \o b)[i] = IF i <= Len(a) THEN a[i] ELSE b[i - Len(a)]
  BY ConcatProperties
<1>4. a \o b \in Seq(S) /\ Len(a \o b) = Len(q) - 1
  BY <1>0, <1>a, <1>b, <1>c
<1>5. ASSUME NEW i \in 1..(k - 1)
      PROVE  (a \o b)[i] = q[i]
  <2>1. i \in 1..(Len(a) + Len(b)) /\ i <= Len(a)
    BY <1>0, <1>a, <1>b
  <2>2. QED
    BY <1>a, <1>c, <2>1
<1>6. ASSUME NEW i \in k..(Len(q) - 1)
      PROVE  (a \o b)[i] = q[i + 1]
  <2>1. i - (k - 1) \in 1..(Len(q) - k) /\ i \in 1..(Len(a) + Len(b)) /\ ~(i <= Len(a))
    BY <1>0, <1>a, <1>b
  <2>2. (a \o b)[i] = b[i - (k - 1)]
    BY <1>a, <1>c, <2>1
  <2>3. b[i - (k - 1)] = q[k + (i - (k - 1))]
    BY <1>b, <2>1
  <2>4. k + (i - (k - 1)) = i + 1
    BY <1>0
  <2>5. QED
    BY <2>2, <2>3, <2>4
<1>7. QED
  BY <1>3, <1>4, <1>5, <1>6

LEMMA AbortWaitingKeeps ==
  ASSUME LimiterInv, NEW t \in Tasks, AbortWaiting(t)
  PROVE  LimiterInv'
<1>0. /\ queue \in Seq(Tasks) /\ Len(queue) \in Nat /\ active \in Nat
      /\ state \in [Tasks -> {"idle", "queued", "running"}] /\ MaxQueued \in Nat
  BY MaxQueuedAssumption DEF LimiterInv, TypeOK
<1>1. PICK k \in 1..Len(queue) : queue[k] = t /\ queue' = RemoveAt(queue, k)
  BY DEF AbortWaiting
<1>2. /\ queue' \in Seq(Tasks) /\ Len(queue') = Len(queue) - 1
      /\ \A i \in 1..(k - 1) : queue'[i] = queue[i]
      /\ \A i \in k..(Len(queue) - 1) : queue'[i] = queue[i + 1]
  BY <1>0, <1>1, SplicedOut
\* Each of the calls that wait now waited before, at another place than the
\* aborted one, and none but that one is gone.
<1>3. ASSUME NEW i \in 1..Len(queue')
      PROVE  \E j \in 1..Len(queue) : /\ j # k /\ queue'[i] = queue[j]
                                      /\ j = IF i < k THEN i ELSE i + 1
  <2>1. CASE i < k
    BY <1>0, <1>2, <2>1
  <2>2. CASE i >= k
    <3>1. i \in k..(Len(queue) - 1) /\ i + 1 \in 1..Len(queue) /\ i + 1 # k /\ ~(i < k)
      BY <1>0, <1>2, <2>2
    <3>2. QED
      BY <1>2, <3>1
  <2>3. QED
    BY <1>0, <1>2, <2>1, <2>2
<1>4. ASSUME NEW j \in 1..Len(queue), j # k
      PROVE  \E i \in 1..Len(queue') : queue'[i] = queue[j]
  <2>1. CASE j < k
    <3>1. j \in 1..(k - 1) /\ j \in 1..Len(queue')
      BY <1>0, <1>2, <2>1
    <3>2. QED
      BY <1>2, <3>1
  <2>2. CASE j > k
    <3>1. j - 1 \in k..(Len(queue) - 1) /\ j - 1 \in 1..Len(queue') /\ (j - 1) + 1 = j
      BY <1>0, <1>2, <2>2
    <3>2. queue'[j - 1] = queue[j]
      BY <1>2, <3>1
    <3>3. QED
      BY <3>1, <3>2
  <2>3. QED
    BY <1>0, <1>4, <2>1, <2>2
<1>5. Running' = Running
  BY <1>0 DEF AbortWaiting, Running
<1>6. TypeOK'
  BY <1>0, <1>2 DEF AbortWaiting, LimiterInv, TypeOK
<1>7. ActiveCountsRunning' /\ NoIdlePlace'
  <2>1. queue # <<>>
    BY <1>0, <1>1
  <2>2. QED
    BY <1>5, <2>1 DEF AbortWaiting, LimiterInv, ActiveCountsRunning, NoIdlePlace
<1>8. QueueIsWaiting'
  <2>0. QueueIsWaiting /\ aborted' = aborted
    BY DEF LimiterInv, AbortWaiting
  <2>1. \A s \in Tasks : state'[s] = IF s = t THEN "idle" ELSE state[s]
    BY <1>0 DEF AbortWaiting
  <2>2. ASSUME NEW s \in Tasks, state'[s] = "queued"
        PROVE  \E i \in 1..Len(queue') : queue'[i] = s
    <3>1. PICK j \in 1..Len(queue) : queue[j] = s
      BY <2>0, <2>1, <2>2 DEF QueueIsWaiting
    <3>2. j # k
      BY <1>1, <2>1, <2>2, <3>1
    <3>3. QED
      BY <1>4, <3>1, <3>2
  <2>3. ASSUME NEW s \in Tasks, NEW i \in 1..Len(queue'), queue'[i] = s
        PROVE  state'[s] = "queued"
    <3>1. PICK j \in 1..Len(queue) : j # k /\ queue'[i] = queue[j]
      BY <1>3
    <3>2. s # t
      BY <1>1, <2>0, <2>3, <3>1 DEF QueueIsWaiting
    <3>3. state[s] = "queued"
      BY <2>0, <2>3, <3>1 DEF QueueIsWaiting
    <3>4. QED
      BY <2>1, <3>2, <3>3
  <2>4. ASSUME NEW i \in 1..Len(queue'), NEW j \in 1..Len(queue'), queue'[i] = queue'[j]
        PROVE  i = j
    <3>1. PICK m \in 1..Len(queue) :
            queue'[i] = queue[m] /\ m = IF i < k THEN i ELSE i + 1
      BY <1>3
    <3>2. PICK n \in 1..Len(queue) :
            queue'[j] = queue[n] /\ n = IF j < k THEN j ELSE j + 1
      BY <1>3
    <3>3. m = n
      BY <2>0, <2>4, <3>1, <3>2, ZenonT(60) DEF QueueIsWaiting
    <3>4. i \in Int /\ j \in Int /\ k \in Int
      BY <1>2
    <3>5. QED
      BY <3>1, <3>2, <3>3, <3>4
  <2>5. ASSUME NEW i \in 1..Len(queue')
        PROVE  queue'[i] \notin aborted'
    <3>1. PICK j \in 1..Len(queue) : queue'[i] = queue[j]
      BY <1>3
    <3>2. QED
      BY <2>0, <3>1 DEF QueueIsWaiting
  <2>6. Len(queue') <= MaxQueued
    BY <1>0, <1>2, <2>0 DEF QueueIsWaiting
  <2>7. QED
    BY <2>2, <2>3, <2>4, <2>5, <2>6 DEF QueueIsWaiting
<1>9. QED
  BY <1>6, <1>7, <1>8 DEF LimiterInv

LEMMA RefuseKeeps ==
  ASSUME LimiterInv, NEW t \in Tasks, Refuse(t)
  PROVE  LimiterInv'
BY DEF Refuse, LimiterInv, TypeOK, ActiveCountsRunning, Running, NoIdlePlace, QueueIsWaiting

LEMMA AbortOtherKeeps ==
  ASSUME LimiterInv, NEW t \in Tasks, AbortOther(t)
  PROVE  LimiterInv'
<1>1. TypeOK' /\ ActiveCountsRunning' /\ NoIdlePlace'
  BY DEF AbortOther, LimiterInv, TypeOK, ActiveCountsRunning, Running, NoIdlePlace
<1>2. \A i \in 1..Len(queue) : queue[i] # t
  BY DEF AbortOther, LimiterInv, QueueIsWaiting
<1>3. QueueIsWaiting'
  BY <1>2 DEF AbortOther, LimiterInv, QueueIsWaiting
<1>4. QED
  BY <1>1, <1>3 DEF LimiterInv

LEMMA FinishKeeps ==
  ASSUME LimiterInv, NEW t \in Tasks, Finish(t)
  PROVE  LimiterInv'
<1>0. /\ queue \in Seq(Tasks) /\ Len(queue) \in Nat /\ active \in Nat /\ MaxConcurrent \in Nat
      /\ state \in [Tasks -> {"idle", "queued", "running"}]
      /\ aborted \subseteq Tasks /\ MaxQueued \in Nat
      /\ ActiveCountsRunning /\ NoIdlePlace /\ QueueIsWaiting
  BY MaxConcurrentAssumption, MaxQueuedAssumption DEF LimiterInv, TypeOK
<1>1. state[t] = "running" /\ aborted' = aborted \ {t} /\ t \in Running
  BY ReleaseShiftsHead DEF Running
<1>2. CASE /\ queue = <<>> /\ queue' = <<>> /\ active' = active - 1
           /\ state' = [state EXCEPT ![t] = "idle"]
  <2>1. Running' = Running \ {t} /\ active > 0 /\ active' = Cardinality(Running \ {t})
    <3>1. Running' = Running \ {t}
      BY <1>0, <1>2 DEF Running
    <3>2. QED
      BY <1>0, <1>1, <1>2, <3>1, RunningCounted DEF LimiterInv, ActiveCountsRunning
  <2>2. TypeOK'
    BY <1>0, <1>1, <1>2, <2>1 DEF TypeOK
  <2>3. ActiveCountsRunning' /\ NoIdlePlace'
    BY <1>0, <1>2, <2>1 DEF ActiveCountsRunning, NoIdlePlace
  <2>4. QueueIsWaiting'
    BY <1>0, <1>2 DEF QueueIsWaiting
  <2>5. QED
    BY <2>2, <2>3, <2>4 DEF LimiterInv
<1>3. CASE /\ queue # <<>> /\ queue' = SubSeq(queue, 2, Len(queue)) /\ active' = active
           /\ queue[1] \in Tasks /\ state[queue[1]] = "queued"
           /\ state' = [state EXCEPT ![t] = "idle", ![queue[1]] = "running"]
  <2>1. PICK h \in Tasks : h = queue[1] /\ state[h] = "queued" /\ h # t
    BY <1>1, <1>3
  <2>2. /\ Len(queue) >= 1 /\ queue' \in Seq(Tasks) /\ Len(queue') = Len(queue) - 1
        /\ \A i \in 1..(Len(queue) - 1) : queue'[i] = queue[i + 1]
    <3>1. queue # <<>> /\ queue' = SubSeq(queue, 2, Len(queue)) /\ queue \in Seq(Tasks)
      BY <1>0, <1>3
    <3>2. Len(queue) >= 1 /\ Len(queue) \in Nat
      BY <3>1
    <3>3. /\ SubSeq(queue, 2, Len(queue)) \in Seq(Tasks)
          /\ Len(SubSeq(queue, 2, Len(queue))) = Len(queue) - 1
          /\ \A i \in 1..(Len(queue) - 1) : SubSeq(queue, 2, Len(queue))[i] = queue[i + 1]
      <4>1. \A i \in 2..Len(queue) : queue[i] \in Tasks
        BY <3>1
      <4>2. /\ SubSeq(queue, 2, Len(queue)) \in Seq(Tasks)
            /\ Len(SubSeq(queue, 2, Len(queue))) = Len(queue) - 1
        <5>1. 2 \in Int /\ Len(queue) \in Int
          BY <3>2
        <5>2. /\ SubSeq(queue, 2, Len(queue)) \in Seq(Tasks)
              /\ Len(SubSeq(queue, 2, Len(queue)))
                   = IF 2 <= Len(queue) THEN Len(queue) - 2 + 1 ELSE 0
          BY <4>1, <5>1, SubSeqProperties
        <5>3. \A n \in Nat : n >= 1 => (IF 2 <= n THEN n - 2 + 1 ELSE 0) = n - 1
          OBVIOUS
        <5>4. QED
          BY <3>2, <5>2, <5>3, Zenon
      <4>3. ASSUME NEW i \in 1..(Len(queue) - 1)
            PROVE  SubSeq(queue, 2, Len(queue))[i] = queue[i + 1]
        <5>1. i \in 1..(1 + Len(queue) - 2) /\ 2 + i - 1 = i + 1
          BY <3>2
        <5>2. SubSeq(queue, 2, Len(queue))[i] = queue[2 + i - 1]
          BY <3>1, <3>2, <4>1, <5>1, SubSeqProperties
        <5>3. QED
          BY <5>1, <5>2
      <4>4. QED
        BY <4>2, <4>3
    <3>4. QED
      BY <3>1, <3>2, <3>3
  <2>3. \A s \in Tasks : state'[s] = IF s = h THEN "running"
                                      ELSE IF s = t THEN "idle" ELSE state[s]
    <3>1. state' = [state EXCEPT ![t] = "idle", ![h] = "running"]
      BY <1>3, <2>1, Zenon
    <3>2. QED
      BY <1>0, <2>1, <3>1
  <2>4. Running' = (Running \ {t}) \cup {h}
    BY <2>1, <2>3 DEF Running
  <2>5. TypeOK'
    <3>1. state' \in [Tasks -> {"idle", "queued", "running"}]
      <4>1. state' = [state EXCEPT ![t] = "idle", ![h] = "running"]
        BY <1>3, <2>1, Zenon
      <4>2. QED
        BY <1>0, <4>1
    <3>2. active' \in Nat /\ aborted' \subseteq Tasks
      BY <1>0, <1>1, <1>3
    <3>3. QED
      BY <2>2, <3>1, <3>2 DEF TypeOK
  <2>6. ActiveCountsRunning'
    <3>1. h \in Tasks \ Running
      BY <2>1 DEF Running
    <3>2. Cardinality(Running') = Cardinality(Running)
      BY <1>1, <2>4, <3>1, RunningCounted DEF LimiterInv
    <3>3. QED
      BY <1>0, <1>3, <3>2 DEF ActiveCountsRunning
  <2>7. NoIdlePlace'
    BY <1>0, <1>3 DEF NoIdlePlace
  <2>8. QueueIsWaiting'
    <3>1. ASSUME NEW s \in Tasks, state'[s] = "queued"
          PROVE  \E i \in 1..Len(queue') : queue'[i] = s
      <4>1. state[s] = "queued" /\ s # h
        BY <2>3, <3>1
      <4>2. PICK j \in 1..Len(queue) : queue[j] = s
        BY <1>0, <4>1 DEF QueueIsWaiting
      <4>3. j # 1
        BY <2>1, <4>1, <4>2
      <4>4. j - 1 \in 1..(Len(queue) - 1) /\ (j - 1) + 1 = j /\ j - 1 \in 1..Len(queue')
        BY <1>0, <2>2, <4>3
      <4>5. queue'[j - 1] = s
        BY <2>2, <4>2, <4>4
      <4>6. QED
        BY <4>4, <4>5
    <3>2. ASSUME NEW i \in 1..Len(queue')
          PROVE  i + 1 \in 1..Len(queue) /\ queue'[i] = queue[i + 1] /\ i + 1 # 1
      BY <1>0, <2>2
    <3>3. ASSUME NEW s \in Tasks, NEW i \in 1..Len(queue'), queue'[i] = s
          PROVE  state'[s] = "queued"
      <4>1. state[s] = "queued"
        BY <1>0, <3>2, <3>3 DEF QueueIsWaiting
      <4>2. s # h
        BY <1>0, <2>1, <2>2, <3>2, <3>3 DEF QueueIsWaiting
      <4>3. QED
        BY <1>1, <2>3, <4>1, <4>2
    <3>4. ASSUME NEW i \in 1..Len(queue'), NEW j \in 1..Len(queue'), queue'[i] = queue'[j]
          PROVE  i = j
      <4>1. i + 1 = j + 1
        BY <1>0, <3>2, <3>4, SMTT(60) DEF QueueIsWaiting
      <4>2. QED
        BY <1>0, <2>2, <4>1
    <3>5. \A i \in 1..Len(queue') : queue'[i] \notin aborted'
      BY <1>0, <1>1, <3>2 DEF QueueIsWaiting
    <3>6. Len(queue') <= MaxQueued
      BY <1>0, <2>2 DEF QueueIsWaiting
    <3>7. QED
      BY <3>1, <3>3, <3>4, <3>5, <3>6 DEF QueueIsWaiting
  <2>9. QED
    BY <2>5, <2>6, <2>7, <2>8 DEF LimiterInv
<1>4. QED
  BY <1>2, <1>3, ReleaseShiftsHead
-----------------------------------------------------------------------------
(* Completions that retry take the limiter's steps, and between them only    *)
(* steps of their own loop.                                                  *)

LEMMA RetriedStepIsLimiterStep ==
  ASSUME [RetryNext]_retryVars
  PROVE  [Next]_vars
<1>1. CASE UNCHANGED retryVars
  BY <1>1 DEF retryVars, vars
<1>2. ASSUME NEW t \in Tasks,
             StartNow(t) \/ Wait(t) \/ Refuse(t) \/ AbortWaiting(t) \/ AbortOther(t)
      PROVE  Next
  BY <1>2 DEF Next
<1>3. ASSUME NEW t \in Tasks, Advance(t)
      PROVE  UNCHANGED vars
  BY <1>3 DEF Advance, Begin, Answer, AttemptFails, Wake
<1>4. ASSUME NEW t \in Tasks, Leave(t)
      PROVE  Next
  BY <1>4 DEF Leave, Next
<1>5. QED
  BY <1>1, <1>2, <1>3, <1>4 DEF RetryNext

LEMMA LimiterInvInductive ==
  /\ Init => LimiterInv
  /\ LimiterInv /\ [Next]_vars => LimiterInv'
<1>1. ASSUME Init PROVE LimiterInv
  <2>1. Running = {} /\ Cardinality({}) = 0
    BY <1>1, FS_EmptySet DEF Init, Running
  <2>2. queue \in Seq(Tasks) /\ Len(queue) = 0
    BY <1>1 DEF Init
  <2>3. TypeOK
    BY <1>1, <2>2 DEF Init, TypeOK
  <2>4. ActiveCountsRunning /\ NoIdlePlace
    BY <1>1, <2>1, MaxConcurrentAssumption DEF Init, ActiveCountsRunning, NoIdlePlace
  <2>5. QueueIsWaiting
    BY <1>1, <2>2, MaxQueuedAssumption DEF Init, QueueIsWaiting
  <2>6. QED
    BY <2>3, <2>4, <2>5 DEF LimiterInv
<1>2. ASSUME LimiterInv, [Next]_vars PROVE LimiterInv'
  <2>1. CASE UNCHANGED vars
    BY <1>2, <2>1 DEF vars, LimiterInv, TypeOK, ActiveCountsRunning, Running,
                      NoIdlePlace, QueueIsWaiting
  <2>2. CASE Next
    BY <1>2, <2>2, StartNowKeeps, WaitKeeps, RefuseKeeps, AbortWaitingKeeps,
       AbortOtherKeeps, FinishKeeps DEF Next
  <2>3. QED
    BY <1>2, <2>1, <2>2
<1>3. QED
  BY <1>1, <1>2

\* Only a wait for a place puts a call behind the others, and only the head is
\* handed one.
LEMMA HeadIsServed ==
  ASSUME LimiterInv, [Next]_vars, NEW i \in 1..Len(queue), NEW j \in 1..Len(queue),
         i < j, state'[queue[j]] = "running"
  PROVE  state'[queue[i]] # "queued"
<1>0. /\ queue \in Seq(Tasks) /\ Len(queue) \in Nat
      /\ state \in [Tasks -> {"idle", "queued", "running"}]
      /\ queue[j] \in Tasks /\ state[queue[j]] = "queued"
  <2>1. queue \in Seq(Tasks) /\ state \in [Tasks -> {"idle", "queued", "running"}]
    BY DEF LimiterInv, TypeOK
  <2>2. queue[j] \in Tasks
    BY <2>1
  <2>3. QED
    BY <2>1, <2>2 DEF LimiterInv, QueueIsWaiting
<1>1. state'[queue[j]] # state[queue[j]]
  BY <1>0
<1>2. CASE UNCHANGED vars
  BY <1>1, <1>2 DEF vars
<1>3. ASSUME NEW t \in Tasks,
             StartNow(t) \/ Wait(t) \/ Refuse(t) \/ AbortWaiting(t) \/ AbortOther(t)
      PROVE  FALSE
  <2>1. CASE StartNow(t)
    BY <1>0, <1>1, <2>1 DEF StartNow
  <2>2. CASE Wait(t)
    BY <1>0, <1>1, <2>2 DEF Wait
  <2>3. CASE Refuse(t) \/ AbortOther(t)
    BY <1>1, <2>3 DEF Refuse, AbortOther
  <2>4. CASE AbortWaiting(t)
    BY <1>0, <1>1, <2>4 DEF AbortWaiting
  <2>5. QED
    BY <1>3, <2>1, <2>2, <2>3, <2>4
<1>4. ASSUME NEW t \in Tasks, Finish(t)
      PROVE  FALSE
  <2>1. queue # <<>>
    BY <1>0
  <2>2. /\ state[t] = "running" /\ queue[1] \in Tasks
        /\ state' = [state EXCEPT ![t] = "idle", ![queue[1]] = "running"]
    BY <1>4, <2>1, ReleaseShiftsHead
  <2>3. PICK h \in Tasks : h = queue[1]
    BY <2>2
  <2>4. state' = [state EXCEPT ![t] = "idle", ![h] = "running"]
    BY <2>2, <2>3, Zenon
  <2>5. queue[j] # t
    BY <1>0, <2>2
  <2>6. queue[j] = h
    BY <1>0, <1>1, <2>4, <2>5
  <2>7. 1 \in 1..Len(queue) /\ j # 1
    BY <1>0
  <2>8. QED
    BY <2>3, <2>6, <2>7 DEF LimiterInv, QueueIsWaiting
<1>5. QED
  BY <1>2, <1>3, <1>4 DEF Next

\* Every behaviour of the retried completions is one of the limiter.
THEOREM RetriedCompletionsUseLimiter == RetrySpec => Spec
<1>1. RetryInit => Init
  BY DEF RetryInit
<1>2. [RetryNext]_retryVars => [Next]_vars
  BY RetriedStepIsLimiterStep
<1>3. QED
  BY <1>1, <1>2, PTL DEF RetrySpec, Spec

\* The counter of the limiter is the number of running completions and never
\* exceeds maxConcurrent, through abort, hand-over and the recursive release.
THEOREM PlacesCounted == Spec => []ActiveCountsRunning
<1>1. LimiterInv => ActiveCountsRunning
  BY DEF LimiterInv
<1>2. QED
  BY <1>1, LimiterInvInductive, PTL DEF Spec

\* While a call waits every place is taken: release() never frees one without
\* waking the head of the queue.
THEOREM PlacesUsed == Spec => []NoIdlePlace
<1>1. LimiterInv => NoIdlePlace
  BY DEF LimiterInv
<1>2. QED
  BY <1>1, LimiterInvInductive, PTL DEF Spec

\* The queue holds exactly the waiting calls, each once and none aborted, and
\* never more than maxQueued.
THEOREM QueueCorrect == Spec => []QueueIsWaiting
<1>1. LimiterInv => QueueIsWaiting
  BY DEF LimiterInv
<1>2. QED
  BY <1>1, LimiterInvInductive, PTL DEF Spec

\* Waiting calls are handed their places in the order in which they queued.
THEOREM ServedInOrder == Spec => FirstComeFirstServed
<1>1. LimiterInv /\ [Next]_vars =>
        [\A i, j \in 1..Len(queue) :
           i < j /\ state'[queue[j]] = "running" => state'[queue[i]] # "queued"]_vars
  BY HeadIsServed
<1>2. QED
  BY <1>1, LimiterInvInductive, PTL DEF Spec, FirstComeFirstServed

-----------------------------------------------------------------------------
(* The retry loop *)

\* A call that does not run has not entered its loop.
LoopInv == LoopTypeOK /\ \A t \in Tasks : state[t] # "running" => loop[t] = Fresh

\* A step of the limiter moves no call out of its place but the one that ends.
LEMMA OnlyFinishEndsRunning ==
  ASSUME LimiterInv, NEW t \in Tasks, NEW s \in Tasks, state[s] = "running",
         StartNow(t) \/ Wait(t) \/ Refuse(t) \/ AbortWaiting(t) \/ AbortOther(t)
         \/ (Finish(t) /\ s # t)
  PROVE  state'[s] = "running"
<1>0. state \in [Tasks -> {"idle", "queued", "running"}]
  BY DEF LimiterInv, TypeOK
<1>1. CASE StartNow(t) \/ Wait(t) \/ Refuse(t) \/ AbortWaiting(t) \/ AbortOther(t)
  BY <1>0, <1>1 DEF StartNow, Wait, Refuse, AbortWaiting, AbortOther
<1>2. CASE Finish(t) /\ s # t
  <2>1. \/ state' = [state EXCEPT ![t] = "idle"]
        \/ queue[1] \in Tasks /\ state' = [state EXCEPT ![t] = "idle", ![queue[1]] = "running"]
    BY <1>2, ReleaseShiftsHead
  <2>2. CASE state' = [state EXCEPT ![t] = "idle"]
    BY <1>0, <1>2, <2>2
  <2>3. CASE queue[1] \in Tasks /\ state' = [state EXCEPT ![t] = "idle", ![queue[1]] = "running"]
    <3>1. PICK h \in Tasks : h = queue[1]
      BY <2>3
    <3>2. state' = [state EXCEPT ![t] = "idle", ![h] = "running"]
      BY <2>3, <3>1, Zenon
    <3>3. QED
      BY <1>0, <1>2, <3>2
  <2>4. QED
    BY <2>1, <2>2, <2>3
<1>3. QED
  BY <1>1, <1>2

LEMMA LoopInvInductive ==
  /\ RetryInit => LoopInv
  /\ LimiterInv /\ LoopInv /\ [RetryNext]_retryVars => LoopInv'
<1>0. InitialDelay \in Nat /\ MaxDelay \in Nat /\ Multiplier \in Nat
  BY RetryPolicyAssumption DEF RetryPolicyAccepted
<1> DEFINE Loops == [phase : {"new", "attempt", "sleep", "over"}, attempt : Nat, delay : Nat]
<1>1. Fresh \in Loops
  BY <1>0 DEF Fresh
<1>2. ASSUME RetryInit PROVE LoopInv
  <2>1. TypeOK
    BY <1>2, LimiterInvInductive DEF RetryInit, LimiterInv
  <2>2. loop = [t \in Tasks |-> Fresh]
    BY <1>2 DEF RetryInit
  <2>3. QED
    BY <1>1, <2>1, <2>2 DEF LoopInv, LoopTypeOK
<1>3. ASSUME LimiterInv, LoopInv, [RetryNext]_retryVars PROVE LoopInv'
  <2>0. /\ loop \in [Tasks -> Loops]
        /\ \A t \in Tasks : state[t] # "running" => loop[t] = Fresh
        /\ TypeOK'
    BY <1>3, LimiterInvInductive, RetriedStepIsLimiterStep DEF LoopInv, LoopTypeOK, LimiterInv
  <2>1. CASE UNCHANGED retryVars
    BY <2>0, <2>1 DEF retryVars, vars, LoopInv, LoopTypeOK
  <2>2. ASSUME NEW t \in Tasks, UNCHANGED loop,
               StartNow(t) \/ Wait(t) \/ Refuse(t) \/ AbortWaiting(t) \/ AbortOther(t)
        PROVE  LoopInv'
    <3>1. \A s \in Tasks : state'[s] # "running" => loop'[s] = Fresh
      BY <1>3, <2>0, <2>2, OnlyFinishEndsRunning
    <3>2. QED
      BY <2>0, <2>2, <3>1 DEF LoopInv, LoopTypeOK
  <2>3. ASSUME NEW t \in Tasks, Advance(t)
        PROVE  LoopInv'
    <3>1. state' = state /\ state[t] = "running"
      BY <2>3 DEF Advance, Begin, Answer, AttemptFails, Wake, In, vars
    <3>2. loop[t].attempt \in Nat /\ loop[t].delay \in Nat
      BY <2>0
    <3>3. \E l \in Loops : loop' = [loop EXCEPT ![t] = l]
      <4>1. CASE Begin(t) \/ Answer(t) \/ AttemptFails(t)
        <5>1. PICK p \in {"over", "attempt", "sleep"} : Enter(t, p)
          BY <4>1 DEF Begin, Answer, AttemptFails
        <5>2. [loop[t] EXCEPT !.phase = p] \in Loops
          BY <2>0
        <5>3. loop' = [loop EXCEPT ![t] = [loop[t] EXCEPT !.phase = p]]
          BY <5>1 DEF Enter
        <5>4. QED
          BY <5>2, <5>3
      <4>2. CASE Wake(t)
        <5> DEFINE next == [phase |-> IF t \in aborted THEN "over" ELSE "attempt",
                            attempt |-> loop[t].attempt + 1,
                            delay |-> IF MaxDelay < loop[t].delay * Multiplier
                                      THEN MaxDelay ELSE loop[t].delay * Multiplier]
        <5>1. loop[t].delay * Multiplier \in Nat /\ loop[t].attempt + 1 \in Nat
          BY <1>0, <3>2
        <5>2. next \in Loops
          BY <1>0, <5>1
        <5>3. loop' = [loop EXCEPT ![t] = next]
          BY <4>2 DEF Wake
        <5>4. QED
          BY <5>2, <5>3
      <4>3. QED
        BY <2>3, <4>1, <4>2 DEF Advance
    <3>4. PICK l \in Loops : loop' = [loop EXCEPT ![t] = l]
      BY <3>3
    <3>5. loop' \in [Tasks -> Loops]
      BY <2>0, <3>4
    <3>6. \A s \in Tasks : state'[s] # "running" => loop'[s] = Fresh
      BY <2>0, <3>1, <3>4
    <3>7. QED
      BY <2>0, <3>5, <3>6 DEF LoopInv, LoopTypeOK
  <2>4. ASSUME NEW t \in Tasks, Leave(t)
        PROVE  LoopInv'
    <3>1. Finish(t) /\ loop' = [loop EXCEPT ![t] = Fresh]
      BY <2>4 DEF Leave
    <3>2. loop' \in [Tasks -> Loops]
      BY <1>1, <2>0, <3>1
    <3>3. ASSUME NEW s \in Tasks, state'[s] # "running"
          PROVE  loop'[s] = Fresh
      <4>1. CASE s = t
        BY <2>0, <3>1, <4>1
      <4>2. CASE s # t
        <5>1. state[s] # "running"
          BY <1>3, <3>1, <3>3, <4>2, OnlyFinishEndsRunning
        <5>2. QED
          BY <2>0, <3>1, <4>2, <5>1
      <4>3. QED
        BY <4>1, <4>2
    <3>4. QED
      BY <2>0, <3>2, <3>3 DEF LoopInv, LoopTypeOK
  <2>5. QED
    BY <1>3, <2>1, <2>2, <2>3, <2>4 DEF RetryNext
<1>4. QED
  BY <1>2, <1>3

LEMMA AbortStopsLoop ==
  ASSUME LoopInv, [RetryNext]_retryVars, NEW t \in Tasks,
         t \in aborted, ~In(t, "attempt")
  PROVE  ~In(t, "attempt")'
<1>0. /\ DOMAIN loop = Tasks /\ (state[t] # "running" => loop[t].phase = "new")
      /\ loop[t] = [phase |-> loop[t].phase, attempt |-> loop[t].attempt,
                    delay |-> loop[t].delay]
  BY DEF LoopInv, LoopTypeOK, Fresh
<1>1. loop[t].phase # "attempt"
  BY <1>0 DEF In
<1>2. SUFFICES loop'[t].phase # "attempt"
  BY DEF In
<1>3. CASE UNCHANGED loop
  BY <1>1, <1>3
<1>4. ASSUME NEW s \in Tasks, Advance(s)
      PROVE  loop'[t].phase # "attempt"
  <2>1. CASE s # t
    <3>1. loop'[t] = loop[t]
      BY <1>0, <1>4, <2>1 DEF Advance, Begin, Answer, AttemptFails, Wake, Enter
    <3>2. QED
      BY <1>1, <3>1
  <2>2. CASE s = t
    <3>1. Begin(t) \/ Wake(t) \/ Answer(t) \/ AttemptFails(t)
      BY <1>4, <2>2 DEF Advance
    <3>2. CASE Begin(t)
      BY <1>0, <3>2 DEF Begin, Enter
    <3>3. CASE Wake(t)
      BY <1>0, <3>3 DEF Wake
    <3>4. CASE Answer(t) \/ AttemptFails(t)
      BY <3>4 DEF Answer, AttemptFails
    <3>5. QED
      BY <3>1, <3>2, <3>3, <3>4
  <2>3. QED
    BY <2>1, <2>2
<1>5. ASSUME NEW s \in Tasks, Leave(s)
      PROVE  loop'[t].phase # "attempt"
  BY <1>0, <1>1, <1>5 DEF Leave, Fresh
<1>6. QED
  BY <1>3, <1>4, <1>5 DEF RetryNext, retryVars

\* The loop of a retried call has its type: the delays it computes stay numbers
\* from the first attempt to the last.
THEOREM LoopTypeCorrect == RetrySpec => []LoopTypeOK
<1>1. RetryInit => LimiterInv /\ LoopInv
  BY LimiterInvInductive, LoopInvInductive DEF RetryInit
<1>2. LimiterInv /\ LoopInv /\ [RetryNext]_retryVars => (LimiterInv /\ LoopInv)'
  BY LimiterInvInductive, LoopInvInductive, RetriedStepIsLimiterStep
<1>3. LoopInv => LoopTypeOK
  BY DEF LoopInv
<1>4. QED
  BY <1>1, <1>2, <1>3, PTL DEF RetrySpec

\* A call whose signal fires while it queues, is handed a place or sleeps between
\* two attempts starts no further attempt.
THEOREM AbortedMakesNoAttempt == RetrySpec => NoAttemptAfterAbort
<1>1. RetryInit => LimiterInv /\ LoopInv
  BY LimiterInvInductive, LoopInvInductive DEF RetryInit
<1>2. LimiterInv /\ LoopInv /\ [RetryNext]_retryVars => (LimiterInv /\ LoopInv)'
  BY LimiterInvInductive, LoopInvInductive, RetriedStepIsLimiterStep
<1>3. LoopInv /\ [RetryNext]_retryVars =>
        [\A t \in Tasks :
           t \in aborted /\ ~In(t, "attempt") => ~(In(t, "attempt"))']_retryVars
  BY AbortStopsLoop
<1>4. QED
  BY <1>1, <1>2, <1>3, PTL DEF RetrySpec, NoAttemptAfterAbort

-----------------------------------------------------------------------------
(* The backoff.  The library's induction theorems take an operator, so the   *)
(* powers are reached through the least number of a set.                     *)

LEMMA LeastNumber ==
  ASSUME NEW T \in SUBSET Nat, T # {}
  PROVE  \E n \in T : \A m \in T : n <= m
<1> DEFINE R == OpToRel(<, Nat)
<1>1. IsWellFoundedOn(R, Nat)
  BY NatLessThanWellFounded
<1>2. PICK n \in T : \A m \in T : <<m, n>> \notin R
  BY <1>1, WFMin
<1>3. \A m \in T : m < n => <<m, n>> \in R
  BY DEF OpToRel
<1>4. \A m \in T : ~(m < n)
  BY <1>2, <1>3
<1>5. QED
  BY <1>4

\* The powers from 0 to n.
Powers(f, n) ==
  /\ f \in [0..n -> Nat]
  /\ f[0] = 1
  /\ \A i \in 1..n : f[i] = Multiplier * f[i - 1]

LEMMA PowersAgree ==
  ASSUME NEW n \in Nat, NEW m \in Nat, NEW f, NEW g, Powers(f, n), Powers(g, m),
         NEW i \in 0..n, i \in 0..m
  PROVE  f[i] = g[i]
<1> DEFINE T == {j \in Nat : j <= n /\ j <= m /\ f[j] # g[j]}
<1>1. SUFFICES T = {}
  OBVIOUS
<1>2. SUFFICES ASSUME T # {} PROVE FALSE
  OBVIOUS
<1>3. PICK j \in T : \A k \in T : j <= k
  BY <1>2, LeastNumber
<1>4. j # 0
  BY DEF Powers
<1>5. j - 1 \in Nat /\ j - 1 \notin T
  BY <1>3, <1>4
<1>6. f[j - 1] = g[j - 1]
  BY <1>5
<1>7. f[j] = Multiplier * f[j - 1] /\ g[j] = Multiplier * g[j - 1]
  BY <1>4 DEF Powers
<1>8. QED
  BY <1>6, <1>7

LEMMA PowersExist ==
  ASSUME NEW n \in Nat
  PROVE  \E f : Powers(f, n)
<1>0. Multiplier \in Nat
  BY RetryPolicyAssumption DEF RetryPolicyAccepted
<1> DEFINE T == {k \in Nat : ~ \E f : Powers(f, k)}
<1>1. SUFFICES ASSUME T # {} PROVE FALSE
  OBVIOUS
<1>2. PICK k \in T : \A l \in T : k <= l
  BY <1>1, LeastNumber
<1>3. Powers([i \in 0..0 |-> 1], 0)
  BY DEF Powers
<1>4. k # 0
  BY <1>3
<1>5. k - 1 \in Nat /\ k - 1 \notin T
  BY <1>2, <1>4
<1>6. PICK f : Powers(f, k - 1)
  BY <1>5
<1> DEFINE g == [i \in 0..k |-> IF i = k THEN Multiplier * f[k - 1] ELSE f[i]]
<1>7. /\ f \in [0..(k - 1) -> Nat] /\ f[0] = 1
      /\ \A i \in 1..(k - 1) : f[i] = Multiplier * f[i - 1]
  BY <1>6 DEF Powers
<1>8. /\ g \in [0..k -> Nat] /\ g[0] = 1
      /\ \A i \in 1..k : g[i] = Multiplier * g[i - 1]
  <2>1. f[k - 1] \in Nat /\ Multiplier * f[k - 1] \in Nat
    BY <1>0, <1>5, <1>7
  <2>2. \A i \in 0..k : i # k => i \in 0..(k - 1) /\ g[i] = f[i]
    BY <1>5
  <2>3. g[k] = Multiplier * f[k - 1]
    OBVIOUS
  <2>4. g \in [0..k -> Nat]
    BY <1>7, <2>1, <2>2
  <2>5. g[0] = 1
    BY <1>4, <1>7, <2>2
  <2>6. ASSUME NEW i \in 1..k PROVE g[i] = Multiplier * g[i - 1]
    <3>1. i - 1 \in 0..k /\ i - 1 # k
      OBVIOUS
    <3>2. g[i - 1] = f[i - 1]
      BY <2>2, <3>1
    <3>3. CASE i = k
      BY <2>3, <3>2, <3>3
    <3>4. CASE i # k
      <4>1. i \in 1..(k - 1) /\ i \in 0..k
        BY <1>5, <3>4
      <4>2. g[i] = f[i] /\ f[i] = Multiplier * f[i - 1]
        BY <1>7, <2>2, <3>4, <4>1
      <4>3. QED
        BY <3>2, <4>2
    <3>5. QED
      BY <3>3, <3>4
  <2>7. QED
    BY <2>4, <2>5, <2>6
<1>9. Powers(g, k)
  BY <1>8 DEF Powers
<1>10. QED
  BY <1>9

\* The recursive function is the one its equation describes.
LEMMA PowerValues ==
  /\ Power[0] = 1
  /\ \A n \in Nat : Power[n] \in Nat /\ Power[n + 1] = Multiplier * Power[n]
<1> DEFINE upto(n) == CHOOSE f : Powers(f, n)
           P == [n \in Nat |-> upto(n)[n]]
<1>1. \A n \in Nat : Powers(upto(n), n)
  BY PowersExist
<1> HIDE DEF upto
<1>2. P[0] = 1
  BY <1>1 DEF Powers
<1>3. ASSUME NEW n \in Nat
      PROVE  P[n] \in Nat /\ P[n + 1] = Multiplier * P[n]
  <2>1. Powers(upto(n), n) /\ Powers(upto(n + 1), n + 1)
    BY <1>1
  <2>2. n \in 0..n /\ n \in 0..(n + 1) /\ n + 1 \in 1..(n + 1)
    OBVIOUS
  <2>3. upto(n)[n] = upto(n + 1)[n]
    BY <2>1, <2>2, PowersAgree
  <2>4. upto(n)[n] \in Nat
    BY <2>1, <2>2 DEF Powers
  <2>5. upto(n + 1)[n + 1] = Multiplier * upto(n + 1)[n]
    BY <2>1, <2>2 DEF Powers
  <2>6. QED
    BY <2>3, <2>4, <2>5
<1> HIDE DEF P
<1>4. P = [n \in Nat |-> IF n = 0 THEN 1 ELSE Multiplier * P[n - 1]]
  <2>1. P = [n \in Nat |-> P[n]]
    BY DEF P
  <2>2. ASSUME NEW n \in Nat
        PROVE  P[n] = IF n = 0 THEN 1 ELSE Multiplier * P[n - 1]
    <3>1. CASE n = 0
      BY <1>2, <3>1
    <3>2. CASE n # 0
      <4>1. n - 1 \in Nat /\ (n - 1) + 1 = n
        BY <3>2
      <4>2. P[(n - 1) + 1] = Multiplier * P[n - 1]
        BY <1>3, <4>1
      <4>3. QED
        BY <3>2, <4>1, <4>2
    <3>3. QED
      BY <3>1, <3>2
  <2>3. QED
    BY <2>1, <2>2
<1>5. Power = [n \in Nat |-> IF n = 0 THEN 1 ELSE Multiplier * Power[n - 1]]
  BY <1>4 DEF Power
<1>6. Power[0] = 1 /\ \A n \in Nat : Power[n + 1] = Multiplier * Power[n]
  <2>1. Power[0] = 1
    BY <1>5
  <2>2. ASSUME NEW n \in Nat PROVE Power[n + 1] = Multiplier * Power[n]
    <3>1. n + 1 \in Nat /\ n + 1 # 0 /\ (n + 1) - 1 = n
      OBVIOUS
    <3>2. Power[n + 1] = IF n + 1 = 0 THEN 1 ELSE Multiplier * Power[(n + 1) - 1]
      BY <1>5, <3>1
    <3>3. QED
      BY <3>1, <3>2
  <2>3. QED
    BY <2>1, <2>2
<1>7. ASSUME NEW n \in Nat PROVE Power[n] \in Nat
  <2>0. Multiplier \in Nat
    BY RetryPolicyAssumption DEF RetryPolicyAccepted
  <2> DEFINE T == {k \in Nat : Power[k] \notin Nat}
  <2>1. SUFFICES ASSUME T # {} PROVE FALSE
    OBVIOUS
  <2>2. PICK k \in T : \A l \in T : k <= l
    BY <2>1, LeastNumber
  <2>3. k # 0
    BY <1>6
  <2>4. k - 1 \in Nat /\ k - 1 \notin T /\ (k - 1) + 1 = k
    BY <2>2, <2>3
  <2>5. Power[k - 1] \in Nat /\ Power[(k - 1) + 1] = Multiplier * Power[k - 1]
    BY <1>6, <2>4
  <2>6. QED
    BY <2>0, <2>4, <2>5
<1>8. QED
  BY <1>6, <1>7

\* The delay after k - 1 sleeps.
Scheduled(k) ==
  IF k = 1 \/ InitialDelay * Power[k - 1] < MaxDelay
  THEN InitialDelay * Power[k - 1] ELSE MaxDelay

\* What a loop that has not ended has counted and computed.
OnSchedule(l) ==
  /\ l.phase = "new" => l = Fresh
  /\ l.phase \in {"attempt", "sleep"} =>
       /\ l.attempt \in 1..MaxAttempts
       /\ l.delay = Scheduled(l.attempt)
  /\ l.phase = "sleep" => l.attempt < MaxAttempts

ScheduleInv == \A t \in Tasks : OnSchedule(loop[t])

\* Capping the capped delay gives what capping the uncapped one would have: the
\* multiplier is at least one, so a delay that reached the cap stays there.
LEMMA ScheduleStep ==
  ASSUME NEW k \in Nat \ {0}
  PROVE  /\ Scheduled(1) = InitialDelay
         /\ Scheduled(k + 1) = IF MaxDelay < Scheduled(k) * Multiplier
                               THEN MaxDelay ELSE Scheduled(k) * Multiplier
<1>0. InitialDelay \in Nat /\ MaxDelay \in Nat /\ Multiplier \in Nat \ {0}
  BY RetryPolicyAssumption DEF RetryPolicyAccepted
<1>1. Scheduled(1) = InitialDelay
  BY <1>0, PowerValues DEF Scheduled
<1>2. PICK x \in Nat : x = InitialDelay * Power[k - 1]
  <2>1. k - 1 \in Nat
    OBVIOUS
  <2>2. Power[k - 1] \in Nat
    BY <2>1, PowerValues
  <2>3. QED
    BY <1>0, <2>2
<1>3. InitialDelay * Power[k] = x * Multiplier
  <2>1. k - 1 \in Nat /\ (k - 1) + 1 = k
    OBVIOUS
  <2>2. PICK p \in Nat : p = Power[k - 1]
    BY <2>1, PowerValues
  <2>3. Power[k] = Multiplier * p
    BY <2>1, <2>2, PowerValues
  <2>4. InitialDelay * (Multiplier * p) = (InitialDelay * p) * Multiplier
    BY <1>0
  <2>5. QED
    BY <1>2, <2>2, <2>3, <2>4
<1>4. Scheduled(k) = IF k = 1 \/ x < MaxDelay THEN x ELSE MaxDelay
  BY <1>2 DEF Scheduled
<1>5. Scheduled(k + 1) = IF x * Multiplier < MaxDelay THEN x * Multiplier ELSE MaxDelay
  <2>1. k + 1 # 1 /\ (k + 1) - 1 = k
    OBVIOUS
  <2>2. QED
    BY <1>3, <2>1 DEF Scheduled
<1>6. x * Multiplier \in Nat /\ MaxDelay * Multiplier \in Nat
  BY <1>0
<1>7. CASE k = 1 \/ x < MaxDelay
  BY <1>0, <1>1, <1>4, <1>5, <1>6, <1>7
<1>8. CASE ~(k = 1 \/ x < MaxDelay)
  <2>1. x >= MaxDelay
    BY <1>0, <1>8
  <2>2. x * Multiplier >= x /\ MaxDelay * Multiplier >= MaxDelay
    BY <1>0
  <2>3. ~(x * Multiplier < MaxDelay)
    BY <1>0, <1>6, <2>1, <2>2
  <2>4. Scheduled(k + 1) = MaxDelay /\ Scheduled(k) = MaxDelay
    BY <1>4, <1>5, <1>8, <2>3
  <2>5. QED
    BY <1>0, <1>1, <1>6, <2>2, <2>4
<1>9. QED
  BY <1>7, <1>8

LEMMA ScheduleInvInductive ==
  /\ RetryInit => ScheduleInv
  /\ LoopInv /\ ScheduleInv /\ [RetryNext]_retryVars => ScheduleInv'
<1>0. MaxAttempts \in Nat \ {0}
  BY RetryPolicyAssumption DEF RetryPolicyAccepted
<1>1. OnSchedule(Fresh)
  BY DEF OnSchedule, Fresh
<1>2. RetryInit => ScheduleInv
  BY <1>1 DEF RetryInit, ScheduleInv
<1>3. ASSUME LoopInv, ScheduleInv, [RetryNext]_retryVars PROVE ScheduleInv'
  <2>0. loop \in [Tasks -> [phase : {"new", "attempt", "sleep", "over"},
                            attempt : Nat, delay : Nat]]
    BY <1>3 DEF LoopInv, LoopTypeOK
  <2>1. SUFFICES ASSUME NEW s \in Tasks PROVE OnSchedule(loop'[s])
    BY DEF ScheduleInv, OnSchedule, Scheduled, Fresh
  <2>2. CASE loop'[s] = loop[s]
    BY <1>3, <2>2 DEF ScheduleInv
  <2>3. ASSUME NEW t \in Tasks, Advance(t)
        PROVE  OnSchedule(loop'[s])
    <3>1. CASE s # t
      <4>1. loop'[s] = loop[s]
        BY <2>0, <2>3, <3>1 DEF Advance, Begin, Answer, AttemptFails, Wake, Enter
      <4>2. QED
        BY <2>2, <4>1
    <3>2. CASE s = t
      <4>0. OnSchedule(loop[t])
        BY <1>3 DEF ScheduleInv
      <4>1. PICK l \in [phase : {"new", "attempt", "sleep", "over"},
                        attempt : Nat, delay : Nat] : l = loop[t]
        BY <2>0
      <4>2. CASE Begin(t)
        <5>1. l = Fresh
          BY <4>0, <4>1, <4>2 DEF Begin, In, OnSchedule
        <5>2. PICK p \in {"over", "attempt"} : loop'[t] = [l EXCEPT !.phase = p]
          BY <2>0, <4>1, <4>2 DEF Begin, Enter
        <5>3. /\ loop'[t].phase = p /\ loop'[t].attempt = 1
              /\ loop'[t].delay = InitialDelay
          BY <5>1, <5>2 DEF Fresh
        <5>4. Scheduled(1) = InitialDelay
          BY ScheduleStep
        <5>5. QED
          BY <1>0, <3>2, <5>2, <5>3, <5>4 DEF OnSchedule
      <4>3. CASE Answer(t)
        <5>1. loop'[t] = [l EXCEPT !.phase = "over"]
          BY <2>0, <4>1, <4>3 DEF Answer, Enter
        <5>2. loop'[t].phase = "over"
          BY <5>1
        <5>3. QED
          BY <3>2, <5>2 DEF OnSchedule
      <4>4. CASE AttemptFails(t)
        <5>1. PICK p \in {"over", "sleep"} : /\ loop'[t] = [l EXCEPT !.phase = p]
                                             /\ p = "sleep" => l.attempt < MaxAttempts
          <6>1. CASE Enter(t, "over")
            BY <2>0, <4>1, <6>1 DEF Enter
          <6>2. CASE ~GivesUp(t) /\ Enter(t, "sleep")
            BY <1>0, <2>0, <4>1, <6>2 DEF Enter, GivesUp
          <6>3. QED
            BY <4>4, <6>1, <6>2 DEF AttemptFails
        <5>2. /\ loop'[t].phase = p /\ loop'[t].attempt = l.attempt
              /\ loop'[t].delay = l.delay
          BY <4>1, <5>1
        <5>3. l.phase = "attempt"
          BY <4>1, <4>4 DEF AttemptFails, In
        <5>4. l.attempt \in 1..MaxAttempts /\ l.delay = Scheduled(l.attempt)
          BY <4>0, <4>1, <5>3 DEF OnSchedule
        <5>5. Scheduled(loop'[t].attempt) = Scheduled(l.attempt)
          BY <5>2
        <5>6. p # "new" /\ (p = "sleep" => loop'[t].attempt < MaxAttempts)
          BY <5>1, <5>2
        <5>7. QED
          BY <3>2, <5>2, <5>4, <5>5, <5>6 DEF OnSchedule
      <4>5. CASE Wake(t)
        <5>1. l.phase = "sleep"
          BY <4>1, <4>5 DEF Wake, In
        <5>2. /\ l.attempt \in 1..MaxAttempts /\ l.attempt < MaxAttempts
              /\ l.delay = Scheduled(l.attempt)
          BY <4>0, <4>1, <5>1 DEF OnSchedule
        <5>3. /\ loop'[t].phase \in {"over", "attempt"}
              /\ loop'[t].attempt = l.attempt + 1
              /\ loop'[t].delay = IF MaxDelay < l.delay * Multiplier
                                  THEN MaxDelay ELSE l.delay * Multiplier
          BY <2>0, <4>1, <4>5 DEF Wake
        <5>4. loop'[t].delay = Scheduled(l.attempt + 1)
          <6>1. l.attempt \in Nat \ {0}
            BY <5>2
          <6>2. QED
            BY <5>2, <5>3, <6>1, ScheduleStep
        <5>5. l.attempt + 1 \in 1..MaxAttempts
          BY <1>0, <5>2
        <5>6. QED
          BY <3>2, <5>3, <5>4, <5>5 DEF OnSchedule
      <4>6. QED
        BY <2>3, <4>2, <4>3, <4>4, <4>5 DEF Advance
    <3>3. QED
      BY <3>1, <3>2
  <2>4. ASSUME NEW t \in Tasks, Leave(t)
        PROVE  OnSchedule(loop'[s])
    <3>1. loop'[s] = loop[s] \/ loop'[s] = Fresh
      BY <2>0, <2>4 DEF Leave
    <3>2. QED
      BY <1>1, <2>2, <3>1
  <2>5. CASE UNCHANGED loop
    BY <2>2, <2>5
  <2>6. QED
    BY <1>3, <2>3, <2>4, <2>5 DEF RetryNext, retryVars
<1>4. QED
  BY <1>2, <1>3

\* A retried call sleeps fewer times than it makes attempts, and its k-th sleep
\* lasts the initial delay times the (k-1)-th power of the multiplier, capped
\* from the second sleep on, for every policy that is accepted.
THEOREM BackoffFollowsPolicy == RetrySpec => []BackoffSchedule
<1>1. RetryInit => LimiterInv /\ LoopInv /\ ScheduleInv
  BY LimiterInvInductive, LoopInvInductive, ScheduleInvInductive DEF RetryInit
<1>2. LimiterInv /\ LoopInv /\ ScheduleInv /\ [RetryNext]_retryVars
        => (LimiterInv /\ LoopInv /\ ScheduleInv)'
  BY LimiterInvInductive, LoopInvInductive, ScheduleInvInductive, RetriedStepIsLimiterStep
<1>3. ScheduleInv => BackoffSchedule
  BY DEF ScheduleInv, OnSchedule, Scheduled, BackoffSchedule, In
<1>4. QED
  BY <1>1, <1>2, <1>3, PTL DEF RetrySpec
=============================================================================
