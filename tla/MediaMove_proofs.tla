--------------------------- MODULE MediaMove_proofs ---------------------------
(***************************************************************************)
(* Theorems about MediaMove, for every set of assets, parts, prefixes and  *)
(* concurrent calls.                                                       *)
(***************************************************************************)
EXTENDS MediaMove, TLAPS

USE DEF outbox

-----------------------------------------------------------------------------
(* Type correctness *)

LEMMA ActiveCall ==
  ASSUME TypeOK, NEW r \in Requests, Active(r)
  PROVE  /\ req[r] \in Call
         /\ req[r].to \in Prefixes
         /\ req[r].seen \in [Parts -> Prefixes]
         /\ req[r].copied \subseteq ToCopy(r)
         /\ ToCopy(r) \subseteq Parts
BY DEF TypeOK, Active, At, Idle, Call, ToCopy, MovedBy

LEMMA KeysTyped ==
  ASSUME TypeOK, NEW r \in Requests, Active(r), NEW p \in Parts
  PROVE  SourceKey(r, p) \in Key /\ TargetKey(r, p) \in Key
BY ActiveCall DEF SourceKey, TargetKey, Key

LEMMA StepTyped ==
  ASSUME TypeOK, NEW r \in Requests, Step(r)
  PROVE  TypeOK'
<1>1. CASE PolicyDenies(r) \/ Return(r) \/ Crash(r)
  <2>1. UNCHANGED <<place, objects, outbox, revisited>> /\ req' = [req EXCEPT ![r] = Idle]
    BY <1>1 DEF PolicyDenies, Return, Crash, Finish
  <2>2. QED
    BY <2>1 DEF TypeOK, Active, At, Idle, ToCopy, MovedBy
<1>2. CASE UpdateKeys(r)
  <2>1. Active(r)
    BY <1>2 DEF UpdateKeys, Active, At
  <2>2. place' \in [Parts -> Prefixes]
    BY <1>2, <2>1, ActiveCall DEF TypeOK, UpdateKeys
  <2>3. jobs' \subseteq Key
    BY <1>2, <2>1, ActiveCall, KeysTyped DEF TypeOK, UpdateKeys
  <2>4. [req[r] EXCEPT !.step = "sources"] \in Call
    BY <2>1, ActiveCall DEF Call
  <2>5. QED
    BY <1>2, <2>1, <2>2, <2>3, <2>4, ActiveCall
    DEF TypeOK, UpdateKeys, Active, At, ToCopy, MovedBy, Call
<1>3. CASE UpdateFails(r)
  <2>1. Active(r)
    BY <1>3 DEF UpdateFails, Active, At
  <2>2. [req[r] EXCEPT !.step = "rollback"] \in Call
    BY <2>1, ActiveCall DEF Call
  <2>3. QED
    BY <1>3, <2>1, <2>2, ActiveCall DEF TypeOK, UpdateFails, Active, At, ToCopy, MovedBy, Call
<1>4. ASSUME NEW p \in Parts, CopyObject(r, p) PROVE TypeOK'
  <2>1. Active(r)
    BY <1>4 DEF CopyObject, Active, At
  <2>2. [req[r] EXCEPT !.copied = @ \cup {p}] \in Call
    BY <2>1, ActiveCall DEF Call
  <2>3. objects' \subseteq Key
    BY <1>4, <2>1, KeysTyped DEF TypeOK, CopyObject
  <2>4. QED
    BY <1>4, <2>1, <2>2, <2>3, ActiveCall
    DEF TypeOK, CopyObject, Active, At, ToCopy, MovedBy, Call
<1>5. ASSUME NEW p \in Parts, CopyFails(r, p) PROVE TypeOK'
  <2>1. Active(r)
    BY <1>5 DEF CopyFails, Active, At
  <2>2. [req[r] EXCEPT !.step = "rollback"] \in Call
    BY <2>1, ActiveCall DEF Call
  <2>3. objects' \subseteq Key
    BY <1>5, <2>1, KeysTyped DEF TypeOK, CopyFails
  <2>4. QED
    BY <1>5, <2>1, <2>2, <2>3, ActiveCall
    DEF TypeOK, CopyFails, Active, At, ToCopy, MovedBy, Call
<1>6. ASSUME NEW p \in Parts, DeleteSource(r, p) \/ RollBack(r, p) PROVE TypeOK'
  <2>1. Active(r)
    BY <1>6 DEF DeleteSource, RollBack, Active, At
  <2>2. [req[r] EXCEPT !.copied = @ \ {p}] \in Call
    BY <2>1, ActiveCall DEF Call
  <2>3. /\ objects' \subseteq objects
        /\ req' = [req EXCEPT ![r].copied = @ \ {p}]
        /\ UNCHANGED <<place, outbox, revisited>>
    BY <1>6 DEF DeleteSource, RollBack, DeleteCopied
  <2>4. QED
    BY <2>1, <2>2, <2>3, ActiveCall DEF TypeOK, Active, At, ToCopy, MovedBy, Call
<1>7. QED
  BY <1>1, <1>2, <1>3, <1>4, <1>5, <1>6 DEF Step

LEMMA NextTyped == TypeOK /\ [Next]_vars => TypeOK'
<1> SUFFICES ASSUME TypeOK, [Next]_vars PROVE TypeOK'
  OBVIOUS
<1>1. ASSUME NEW r \in Requests, NEW assets \in SUBSET Assets, NEW to \in Prefixes,
             StartMove(r, assets, to)
      PROVE  TypeOK'
  <2>1. revisited' \subseteq Key /\ UNCHANGED <<place, objects, jobs, claims>>
    BY <1>1 DEF TypeOK, StartMove
  <2>2. [step |-> "copy", assets |-> assets, to |-> to, seen |-> place, copied |-> {}] \in Call
    BY DEF TypeOK, Call
  <2>3. QED
    BY <1>1, <2>1, <2>2 DEF TypeOK, StartMove, Active, At, ToCopy, MovedBy
<1>2. CASE \E r \in Requests : Step(r)
  BY <1>2, StepTyped
<1>3. CASE \E key \in jobs \cup claims : ClaimJob(key) \/ DeleteClaimed(key) \/ EndPass(key)
  BY <1>3 DEF TypeOK, ClaimJob, DeleteClaimed, EndPass, Active, At, ToCopy, MovedBy
<1>4. CASE UNCHANGED vars
  BY <1>4 DEF TypeOK, vars, Active, At, ToCopy, MovedBy
<1>5. QED
  BY <1>1, <1>2, <1>3, <1>4 DEF Next

LEMMA InitTyped == Init => TypeOK
BY DEF Init, TypeOK, Key, Active, At, Idle

\* Every reachable state is well typed, and copiedObjects only ever holds what
\* had to be copied.
THEOREM MoveTypeCorrect == Spec => []TypeOK
BY InitTyped, NextTyped, PTL DEF Spec

-----------------------------------------------------------------------------
(* Onward moves by coordinated callers lose nothing.  But for the keys that  *)
(* were revisited, a key is only ever deleted when it is spare: no row names *)
(* it, and no call in flight is about to make a row name it.  That takes     *)
(* five facts about the calls in flight.                                     *)

\* No two calls that move a part use each other's keys.
Apart ==
  \A r1, r2 \in Requests, p \in Parts :
    r1 # r2 /\ Active(r1) /\ Active(r2) /\ p \in MovedBy(r1) /\ p \in MovedBy(r2) =>
      ~Conflict(req[r1].to, req[r1].seen[p], req[r2].to, req[r2].seen[p])

\* What a call has copied, or need not copy, is at the target.
CopiesKept ==
  \A r \in Requests, p \in Parts :
    At(r, "copy") /\ p \in MovedBy(r) /\ (p \in req[r].copied \/ p \notin ToCopy(r)) =>
      TargetKey(r, p) \in objects \cup revisited

\* No row names a target of a call that has not updated the rows.
TargetsUnused ==
  \A r \in Requests, p \in Parts :
    (At(r, "copy") \/ At(r, "rollback")) /\ p \in ToCopy(r) => place[p] # req[r].to

\* No row names a source of a call that has updated the rows.
SourcesLeft ==
  \A r \in Requests, p \in Parts :
    At(r, "sources") /\ p \in req[r].copied => place[p] # req[r].seen[p]

\* No row and no target of a call is a key that is still to be deleted.
JobsApart ==
  \A p \in Parts, x \in Prefixes :
    <<x, p>> \in (jobs \cup claims) \ revisited =>
      /\ place[p] # x
      /\ \A r \in Requests : Active(r) /\ p \in MovedBy(r) => req[r].to # x

MoveInv ==
  /\ TypeOK
  /\ Apart
  /\ CopiesKept
  /\ TargetsUnused
  /\ SourcesLeft
  /\ JobsApart
  /\ OnwardMovesKeepObjects

\* Steps that leave the rows and the arguments of calls alone, do not turn
\* back, and delete spare keys only.
KeepsArguments ==
  \A r \in Requests : Active(r)' =>
    /\ Active(r)
    /\ req'[r].assets = req[r].assets
    /\ req'[r].to = req[r].to
    /\ req'[r].seen = req[r].seen

OnlyForward ==
  \A r \in Requests :
    /\ At(r, "copy")' =>
         At(r, "copy") /\ \A p \in req'[r].copied \ req[r].copied : TargetKey(r, p)' \in objects'
    /\ At(r, "rollback")' => At(r, "copy") \/ At(r, "rollback")
    /\ At(r, "sources")' => At(r, "sources") /\ req'[r].copied \subseteq req[r].copied

SpareOnly ==
  \A p \in Parts, x \in Prefixes :
    <<x, p>> \in objects \ (objects' \cup revisited) =>
      /\ place[p] # x
      /\ \A r \in Requests : At(r, "copy")' /\ p \in MovedBy(r)' => req[r].to # x

Calm ==
  /\ place' = place
  /\ jobs' \cup claims' \subseteq jobs \cup claims
  /\ revisited' = revisited
  /\ KeepsArguments
  /\ OnlyForward
  /\ SpareOnly

LEMMA CalmKeepsInv ==
  ASSUME MoveInv, TypeOK', Calm
  PROVE  MoveInv'
<1>1. \A r \in Requests : Active(r)' => MovedBy(r)' = MovedBy(r) /\ ToCopy(r)' = ToCopy(r)
  BY DEF Calm, KeepsArguments, MovedBy, ToCopy
<1>2. \A r \in Requests : At(r, "copy")' \/ At(r, "rollback")' \/ At(r, "sources")' => Active(r)'
  BY DEF At, Active
<1>3. Apart'
  BY <1>1 DEF MoveInv, Calm, KeepsArguments, Apart, Conflict
<1>4. CopiesKept'
  <2> SUFFICES ASSUME NEW r \in Requests, NEW p \in Parts, At(r, "copy")', p \in MovedBy(r)',
                      p \in req'[r].copied \/ p \notin ToCopy(r)'
               PROVE  TargetKey(r, p)' \in objects' \cup revisited'
    BY DEF CopiesKept
  <2>1. /\ At(r, "copy") /\ Active(r) /\ p \in MovedBy(r)
        /\ TargetKey(r, p)' = TargetKey(r, p)
        /\ req[r].to \in Prefixes
    BY <1>1, <1>2, ActiveCall DEF MoveInv, Calm, KeepsArguments, OnlyForward, TargetKey
  <2>2. CASE p \in req'[r].copied \ req[r].copied
    BY <2>2 DEF Calm, OnlyForward
  <2>3. CASE p \in req[r].copied \/ p \notin ToCopy(r)
    <3>1. TargetKey(r, p) \in objects \cup revisited
      BY <2>1, <2>3 DEF MoveInv, CopiesKept
    <3>2. QED
      BY <2>1, <3>1 DEF Calm, SpareOnly, TargetKey
  <2>4. QED
    BY <1>1, <1>2, <2>2, <2>3
<1>5. TargetsUnused'
  BY <1>1, <1>2 DEF MoveInv, Calm, KeepsArguments, OnlyForward, TargetsUnused
<1>6. SourcesLeft'
  BY <1>1, <1>2 DEF MoveInv, Calm, KeepsArguments, OnlyForward, SourcesLeft
<1>7. JobsApart'
  BY <1>1 DEF MoveInv, Calm, KeepsArguments, JobsApart
<1>8. OnwardMovesKeepObjects'
  BY DEF MoveInv, TypeOK, Calm, SpareOnly, OnwardMovesKeepObjects
<1>9. QED
  BY <1>3, <1>4, <1>5, <1>6, <1>7, <1>8 DEF MoveInv

LEMMA StartKeepsInv ==
  ASSUME CallersCoordinate, MoveInv, TypeOK', NEW r \in Requests,
         NEW assets \in SUBSET Assets, NEW to \in Prefixes, StartMove(r, assets, to)
  PROVE  MoveInv'
<1> USE DEF MoveInv
<1>1. /\ ~Active(r)
      /\ req'[r] = [step |-> "copy", assets |-> assets, to |-> to, seen |-> place, copied |-> {}]
      /\ \A r2 \in Requests : r2 # r => req'[r2] = req[r2]
      /\ UNCHANGED <<place, objects, outbox>>
      /\ revisited \subseteq revisited'
      /\ Quiet(assets, to)
  BY DEF TypeOK, StartMove, Active, At
<1>2. MovedBy(r)' = {p \in Parts : AssetOf[p] \in assets}
  BY <1>1 DEF MovedBy
<1>3. \A r2 \in Requests : r2 # r =>
        /\ MovedBy(r2)' = MovedBy(r2) /\ ToCopy(r2)' = ToCopy(r2)
        /\ Active(r2)' <=> Active(r2)
        /\ \A step : At(r2, step)' <=> At(r2, step)
  BY <1>1 DEF MovedBy, ToCopy, Active, At
<1>4. Apart'
  <2> SUFFICES ASSUME NEW r1 \in Requests, NEW r2 \in Requests, NEW p \in Parts, r1 # r2,
                      Active(r1)', Active(r2)', p \in MovedBy(r1)', p \in MovedBy(r2)'
               PROVE  ~Conflict(req'[r1].to, req'[r1].seen[p], req'[r2].to, req'[r2].seen[p])
    BY DEF Apart
  <2>1. CASE r1 # r /\ r2 # r
    BY <1>1, <1>3, <2>1 DEF Apart
  <2>2. ASSUME NEW other \in Requests, other # r, Active(other)', p \in MovedBy(other)',
               p \in MovedBy(r)'
        PROVE  ~Conflict(to, place[p], req[other].to, req[other].seen[p])
    <3>1. AssetOf[p] \in assets /\ Active(other) /\ p \in MovedBy(other)
      BY <1>2, <1>3, <2>2
    <3>2. QED
      BY <1>1, <3>1 DEF Quiet
  <2>3. CASE r1 = r
    BY <1>1, <2>2, <2>3 DEF Conflict
  <2>4. CASE r2 = r
    BY <1>1, <2>2, <2>4 DEF Conflict
  <2>5. QED
    BY <2>1, <2>3, <2>4
<1>5. CopiesKept'
  BY <1>1, <1>3 DEF CopiesKept, OnwardMovesKeepObjects, TargetKey, ToCopy, MovedBy
<1>6. TargetsUnused'
  BY <1>1, <1>3 DEF TargetsUnused, ToCopy, MovedBy
<1>7. SourcesLeft'
  BY <1>1, <1>3 DEF SourcesLeft, At
<1>8. JobsApart'
  <2> SUFFICES ASSUME NEW p \in Parts, NEW x \in Prefixes,
                      <<x, p>> \in (jobs \cup claims) \ revisited'
               PROVE  /\ place[p] # x
                      /\ \A r2 \in Requests :
                           Active(r2)' /\ p \in MovedBy(r2)' => req'[r2].to # x
    BY <1>1 DEF JobsApart
  <2>1. <<x, p>> \notin revisited
    BY <1>1
  <2>2. AssetOf[p] \in assets => x # to
    BY DEF StartMove
  <2>3. QED
    BY <1>1, <1>2, <1>3, <2>1, <2>2 DEF JobsApart
<1>9. OnwardMovesKeepObjects'
  BY <1>1 DEF OnwardMovesKeepObjects
<1>10. QED
  BY <1>4, <1>5, <1>6, <1>7, <1>8, <1>9

LEMMA UpdateKeepsInv ==
  ASSUME MoveInv, TypeOK', NEW r \in Requests, UpdateKeys(r)
  PROVE  MoveInv'
<1> USE DEF MoveInv
<1>1. /\ At(r, "copy") /\ Active(r)
      /\ ToCopy(r) \subseteq req[r].copied
      /\ objects' = objects
      /\ \A p \in Parts : place'[p] = IF p \in MovedBy(r) THEN req[r].to ELSE place[p]
      /\ \A key \in jobs' : key \in jobs \/ \E p \in req[r].copied : key = SourceKey(r, p)
      /\ claims' = claims /\ revisited' = revisited
  BY DEF UpdateKeys, Active, At
<1>2. /\ req[r].copied \subseteq ToCopy(r)
      /\ \A p \in ToCopy(r) : p \in Parts /\ p \in MovedBy(r) /\ req[r].seen[p] # req[r].to
  BY <1>1, ActiveCall DEF ToCopy, MovedBy
<1>3. \A r2 \in Requests :
        /\ MovedBy(r2)' = MovedBy(r2) /\ ToCopy(r2)' = ToCopy(r2)
        /\ Active(r2)' <=> Active(r2)
        /\ Active(r2) => /\ req'[r2].to = req[r2].to /\ req'[r2].seen = req[r2].seen
                         /\ req'[r2].copied = req[r2].copied
  <2>1. req[r] \in Call
    BY <1>1, ActiveCall
  <2>2. QED
    BY <1>1, <2>1 DEF UpdateKeys, TypeOK, Call, MovedBy, ToCopy, Active, At
<1>4. /\ At(r, "sources")' /\ ~At(r, "copy")' /\ ~At(r, "rollback")'
      /\ \A r2 \in Requests, step \in {"copy", "rollback", "sources"} :
           r2 # r => (At(r2, step)' <=> At(r2, step))
      /\ \A r2 \in Requests, step \in {"copy", "rollback", "sources"} :
           At(r2, step) => Active(r2)
  <2>1. req[r] \in Call
    BY <1>1, ActiveCall
  <2>2. QED
    BY <2>1 DEF UpdateKeys, TypeOK, Call, Active, At
<1>5. Apart'
  BY <1>3 DEF Apart
<1>6. CopiesKept'
  BY <1>1, <1>3, <1>4 DEF CopiesKept, TargetKey
<1>7. TargetsUnused'
  <2> SUFFICES ASSUME NEW r2 \in Requests, NEW p \in Parts,
                      At(r2, "copy")' \/ At(r2, "rollback")', p \in ToCopy(r2)'
               PROVE  place'[p] # req'[r2].to
    BY DEF TargetsUnused
  <2>1. r2 # r /\ Active(r2) /\ p \in ToCopy(r2) /\ p \in MovedBy(r2)
    BY <1>3, <1>4 DEF ToCopy
  <2>2. CASE p \in MovedBy(r)
    BY <1>1, <1>3, <2>1, <2>2 DEF Apart, Conflict
  <2>3. CASE p \notin MovedBy(r)
    BY <1>1, <1>3, <1>4, <2>1, <2>3 DEF TargetsUnused
  <2>4. QED
    BY <2>2, <2>3
<1>8. SourcesLeft'
  <2> SUFFICES ASSUME NEW r2 \in Requests, NEW p \in Parts, At(r2, "sources")',
                      p \in req'[r2].copied
               PROVE  place'[p] # req'[r2].seen[p]
    BY DEF SourcesLeft
  <2>1. CASE r2 = r
    BY <1>1, <1>2, <1>3, <2>1
  <2>2. CASE r2 # r
    <3>1. Active(r2) /\ At(r2, "sources") /\ p \in req[r2].copied /\ p \in MovedBy(r2)
      BY <1>3, <1>4, <2>2, ActiveCall DEF ToCopy
    <3>2. QED
      BY <1>1, <1>3, <2>2, <3>1 DEF Apart, Conflict, SourcesLeft
  <2>3. QED
    BY <2>1, <2>2
<1>9. JobsApart'
  <2> SUFFICES ASSUME NEW p \in Parts, NEW x \in Prefixes, <<x, p>> \in (jobs' \cup claims') \ revisited'
               PROVE  /\ place'[p] # x
                      /\ \A r2 \in Requests :
                           Active(r2)' /\ p \in MovedBy(r2)' => req'[r2].to # x
    BY DEF JobsApart
  <2>1. CASE <<x, p>> \in jobs \cup claims
    BY <1>1, <1>3, <2>1 DEF JobsApart
  <2>2. CASE p \in req[r].copied /\ x = req[r].seen[p]
    BY <1>1, <1>2, <1>3, <2>2 DEF Apart, Conflict
  <2>3. QED
    BY <1>1, <2>1, <2>2 DEF SourceKey
<1>10. OnwardMovesKeepObjects'
  BY <1>1 DEF OnwardMovesKeepObjects, CopiesKept, TargetKey
<1>11. QED
  BY <1>5, <1>6, <1>7, <1>8, <1>9, <1>10

LEMMA StepIsCalm ==
  ASSUME MoveInv, NEW r \in Requests, Step(r), ~UpdateKeys(r)
  PROVE  Calm
<1> USE DEF MoveInv
<1>1. CASE PolicyDenies(r) \/ Return(r) \/ Crash(r)
  <2>1. UNCHANGED <<place, objects, outbox, revisited>> /\ req' = [req EXCEPT ![r] = Idle]
    BY <1>1 DEF PolicyDenies, Return, Crash, Finish
  <2>2. QED
    BY <2>1 DEF TypeOK, Calm, KeepsArguments, OnlyForward, SpareOnly, Active, At, Idle
<1>2. CASE UpdateFails(r)
  <2>1. req[r] \in Call
    BY <1>2, ActiveCall DEF UpdateFails, Active, At
  <2>2. QED
    BY <1>2, <2>1
    DEF UpdateFails, TypeOK, Calm, KeepsArguments, OnlyForward, SpareOnly, Active, At, Call
<1>3. ASSUME NEW p \in Parts, CopyObject(r, p) PROVE Calm
  <2>1. req[r] \in Call /\ At(r, "copy")
    BY <1>3, ActiveCall DEF CopyObject, Active, At
  <2>2. KeepsArguments
    BY <1>3, <2>1 DEF CopyObject, TypeOK, KeepsArguments, Active, At, Call
  <2>3. OnlyForward
    BY <1>3, <2>1 DEF CopyObject, TypeOK, OnlyForward, At, Call, TargetKey
  <2>4. QED
    BY <1>3, <2>2, <2>3 DEF CopyObject, Calm, SpareOnly
<1>4. ASSUME NEW p \in Parts, CopyFails(r, p) PROVE Calm
  <2>1. req[r] \in Call /\ At(r, "copy")
    BY <1>4, ActiveCall DEF CopyFails, Active, At
  <2>2. KeepsArguments /\ OnlyForward
    BY <1>4, <2>1 DEF CopyFails, TypeOK, KeepsArguments, OnlyForward, Active, At, Call
  <2>3. objects \subseteq objects'
    BY <1>4 DEF CopyFails
  <2>4. QED
    BY <1>4, <2>2, <2>3 DEF CopyFails, Calm, SpareOnly
<1>5. ASSUME NEW p \in Parts, DeleteSource(r, p) \/ RollBack(r, p) PROVE Calm
  <2>1. /\ Active(r) /\ req[r] \in Call
        /\ ~At(r, "copy")
        /\ p \in req[r].copied /\ p \in MovedBy(r) /\ p \in ToCopy(r)
        /\ req' = [req EXCEPT ![r].copied = @ \ {p}]
        /\ UNCHANGED <<place, outbox, revisited>>
    BY <1>5, ActiveCall DEF DeleteSource, RollBack, DeleteCopied, Active, At, ToCopy
  <2>2. KeepsArguments /\ OnlyForward
    BY <2>1 DEF TypeOK, KeepsArguments, OnlyForward, Active, At, Call
  <2>3. PICK x \in Prefixes :
          /\ objects \ objects' \subseteq {<<x, p>>}
          /\ place[p] # x
          /\ \A r2 \in Requests :
               r2 # r /\ Active(r2) /\ p \in MovedBy(r2) => req[r2].to # x
    <3>1. CASE DeleteSource(r, p)
      <4>1. objects \ objects' \subseteq {<<req[r].seen[p], p>>}
        BY <3>1 DEF DeleteSource, DeleteCopied, SourceKey
      <4>2. place[p] # req[r].seen[p]
        BY <2>1, <3>1 DEF DeleteSource, SourcesLeft
      <4>3. QED
        BY <2>1, <4>1, <4>2, ActiveCall DEF Apart, Conflict
    <3>2. CASE RollBack(r, p)
      <4>1. objects \ objects' \subseteq {<<req[r].to, p>>}
        BY <3>2 DEF RollBack, DeleteCopied, TargetKey
      <4>2. place[p] # req[r].to
        BY <2>1, <3>2 DEF RollBack, TargetsUnused
      <4>3. QED
        BY <2>1, <4>1, <4>2, ActiveCall DEF Apart, Conflict
    <3>3. QED
      BY <1>5, <3>1, <3>2
  <2>4. SpareOnly
    <3> SUFFICES ASSUME NEW r2 \in Requests, At(r2, "copy")', p \in MovedBy(r2)'
                 PROVE  req[r2].to # x
      BY <2>3 DEF SpareOnly
    <3>1. At(r2, "copy") /\ Active(r2) /\ p \in MovedBy(r2)
      BY <2>1, <2>2 DEF KeepsArguments, OnlyForward, Active, At, MovedBy
    <3>2. QED
      BY <2>1, <2>3, <3>1
  <2>5. QED
    BY <2>1, <2>2, <2>4 DEF Calm
<1>6. QED
  BY <1>1, <1>2, <1>3, <1>4, <1>5 DEF Step

LEMMA WorkerIsCalm ==
  ASSUME MoveInv, NEW key \in jobs \cup claims,
         ClaimJob(key) \/ DeleteClaimed(key) \/ EndPass(key)
  PROVE  Calm
<1>1. place' = place /\ req' = req /\ revisited' = revisited
  BY DEF ClaimJob, DeleteClaimed, EndPass
<1>2. jobs' \cup claims' \subseteq jobs \cup claims
  BY DEF ClaimJob, DeleteClaimed, EndPass
<1>3. KeepsArguments /\ OnlyForward
  BY <1>1 DEF KeepsArguments, OnlyForward, Active, At
<1>4. objects \ objects' \subseteq claims
  BY DEF ClaimJob, DeleteClaimed, EndPass
<1>5. SpareOnly
  BY <1>1, <1>4 DEF MoveInv, SpareOnly, JobsApart, MovedBy, Active, At
<1>6. QED
  BY <1>1, <1>2, <1>3, <1>5 DEF Calm

LEMMA NextKeepsInv ==
  ASSUME CallersCoordinate, MoveInv, [Next]_vars
  PROVE  MoveInv'
<1>1. TypeOK'
  BY NextTyped DEF MoveInv
<1>2. CASE \E r \in Requests, assets \in SUBSET Assets, to \in Prefixes :
             StartMove(r, assets, to)
  BY <1>1, <1>2, StartKeepsInv
<1>3. CASE \E r \in Requests : Step(r)
  BY <1>1, <1>3, StepIsCalm, UpdateKeepsInv, CalmKeepsInv
<1>4. CASE \E key \in jobs \cup claims : ClaimJob(key) \/ DeleteClaimed(key) \/ EndPass(key)
  BY <1>1, <1>4, WorkerIsCalm, CalmKeepsInv
<1>5. CASE UNCHANGED vars
  <2>1. Calm
    BY <1>5 DEF vars, Calm, KeepsArguments, OnlyForward, SpareOnly, Active, At
  <2>2. QED
    BY <1>1, <2>1, CalmKeepsInv
<1>6. QED
  BY <1>2, <1>3, <1>4, <1>5 DEF Next

LEMMA InitMoveInv == Init => MoveInv
<1> SUFFICES ASSUME Init PROVE MoveInv
  OBVIOUS
<1>1. \A r \in Requests : ~Active(r) /\ ~At(r, "copy") /\ ~At(r, "rollback") /\ ~At(r, "sources")
  BY DEF Init, Active, At, Idle
<1>2. Apart /\ CopiesKept /\ TargetsUnused /\ SourcesLeft
  BY <1>1 DEF Apart, CopiesKept, TargetsUnused, SourcesLeft
<1>3. JobsApart /\ OnwardMovesKeepObjects
  BY DEF Init, JobsApart, OnwardMovesKeepObjects
<1>4. QED
  BY <1>2, <1>3, InitTyped DEF MoveInv

\* If callers keep moves that touch the same keys apart, what moves on to keys
\* whose deletion is not still to come is never lost, for any number of
\* assets, calls, prefixes and workers, however late and however often the
\* deletion jobs run, with crashes and failures anywhere.
THEOREM CoordinatedMovesKeepObjects ==
  ASSUME CallersCoordinate
  PROVE  Spec => []OnwardMovesKeepObjects
<1>1. MoveInv /\ [Next]_vars => MoveInv'
  BY NextKeepsInv
<1>2. MoveInv => OnwardMovesKeepObjects
  BY DEF MoveInv
<1>3. QED
  BY <1>1, <1>2, InitMoveInv, PTL DEF Spec

\* Without the outbox no deletion outlives its call, and the same holds of
\* every move, back and forth.
THEOREM CoordinatedMovesWithoutOutbox ==
  ASSUME CallersCoordinate, ~OutboxMode
  PROVE  Spec => []LiveObjectsStored
<1> DEFINE NoJobs == jobs = {} /\ claims = {} /\ revisited = {}
<1>1. Init => NoJobs
  BY DEF Init
<1>2. NoJobs /\ [Next]_vars => NoJobs'
  BY DEF Next, Step, vars, StartMove, PolicyDenies, CopyObject, CopyFails, UpdateKeys,
         UpdateFails, DeleteSource, RollBack, DeleteCopied, Return, Crash
<1>3. MoveInv /\ [Next]_vars => MoveInv'
  BY NextKeepsInv
<1>4. MoveInv /\ NoJobs => LiveObjectsStored
  BY DEF MoveInv, OnwardMovesKeepObjects, LiveObjectsStored
<1>5. QED
  BY <1>1, <1>2, <1>3, <1>4, InitMoveInv, PTL DEF Spec
=============================================================================
