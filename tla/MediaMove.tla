------------------------------ MODULE MediaMove ------------------------------
(***************************************************************************)
(* moveAssets: concurrent calls that copy the objects of assets to another *)
(* prefix, point the rows at the copies in one transaction, and delete the *)
(* sources, or the copies if anything failed before.                       *)
(*                                                                         *)
(* With the key strategies of the library a moved object keeps its file    *)
(* name below <prefix>/<assetId>, so a key is a prefix and a part (an      *)
(* original or a variant), and the targets of one call never collide.      *)
(* Objects are copied and deleted in any order; the code's is one of them. *)
(***************************************************************************)

EXTENDS FiniteSets, Naturals

CONSTANTS
  Assets,           \* ready assets
  Parts,            \* their originals and variants
  AssetOf,          \* the asset of each part
  Prefixes,         \* toPrefix arguments and initial prefixes
  Requests,         \* slots for calls in flight
  OutboxMode,       \* policies.objectDeletionMode = "outbox"
  CallersCoordinate,\* moves that touch the same keys do not overlap
  MaxClaims,        \* bound: jobs that workers have claimed at a time
  MaxRevisited,     \* bound: keys that moves go back to before their deletion
  Faults            \* what may go wrong around the program

ASSUME AssetOfAssumption == AssetOf \in [Parts -> Assets]
ASSUME MoveModeAssumption == OutboxMode \in BOOLEAN /\ CallersCoordinate \in BOOLEAN
ASSUME BoundsAssumption == MaxClaims \in Nat /\ MaxRevisited \in Nat
ASSUME MoveFaultsAssumption ==
  Faults \subseteq {"crash",      \* the server process of a call dies
                    "database",   \* the transaction fails and leaves no effect
                    "storage"}    \* a copy or a deletion fails

VARIABLES
  place,     \* database: the prefix of the key in the row of each part
  objects,   \* object store: the keys that exist
  jobs,      \* deletion outbox: the keys with a pending job
  claims,    \* the keys some outbox worker has claimed and may yet delete
  revisited, \* history: the keys a move went to while a worker was, or was
             \*   still to be, about to delete them
  req        \* the calls in flight

outbox == <<jobs, claims>>

vars == <<place, objects, outbox, revisited, req>>

Key == Prefixes \X Parts

\* A call: its arguments, the rows it has read, and copiedObjects.
Call ==
  [step : {"copy", "sources", "rollback"}, assets : SUBSET Assets, to : Prefixes,
   seen : [Parts -> Prefixes], copied : SUBSET Parts]

Idle == [step |-> "idle"]

\* Every asset has been stored below some prefix.
Init ==
  /\ place \in [Parts -> Prefixes]
  /\ \A p, q \in Parts : AssetOf[p] = AssetOf[q] => place[p] = place[q]
  /\ objects = {<<place[p], p>> : p \in Parts}
  /\ jobs = {} /\ claims = {} /\ revisited = {}
  /\ req = [r \in Requests |-> Idle]

-----------------------------------------------------------------------------
At(r, step) == req[r].step = step

Active(r) == ~At(r, "idle")

Finish(r) == req' = [req EXCEPT ![r] = Idle]

MovedBy(r) == {p \in Parts : AssetOf[p] \in req[r].assets}

\* Objects that are already at the target are not copied.
ToCopy(r) == {p \in MovedBy(r) : req[r].seen[p] # req[r].to}

SourceKey(r, p) == <<req[r].seen[p], p>>

TargetKey(r, p) == <<req[r].to, p>>

\* copiedObjects only ever holds what had to be copied.
TypeOK ==
  /\ place \in [Parts -> Prefixes]
  /\ objects \subseteq Key
  /\ jobs \subseteq Key /\ claims \subseteq Key /\ revisited \subseteq Key
  /\ req \in [Requests -> Call \cup {Idle}]
  /\ \A r \in Requests : Active(r) => req[r].copied \subseteq ToCopy(r)

\* Two calls touch the same key of a part they both move, one of them to
\* write or to keep it.
Conflict(to1, seen1, to2, seen2) == to1 = to2 \/ to1 = seen2 \/ to2 = seen1

\* What coordinated callers wait for: no conflicting call.
Quiet(assets, to) ==
  \A p \in Parts, r \in Requests :
    AssetOf[p] \in assets /\ Active(r) /\ p \in MovedBy(r) =>
      ~Conflict(to, place[p], req[r].to, req[r].seen[p])

-----------------------------------------------------------------------------
\* The rows are read; what follows is based on them.
StartMove(r, assets, to) ==
  /\ At(r, "idle")
  /\ assets # {}
  /\ CallersCoordinate => Quiet(assets, to)
  /\ req' = [req EXCEPT ![r] =
       [step |-> "copy", assets |-> assets, to |-> to, seen |-> place, copied |-> {}]]
  /\ revisited' = revisited \cup
       {key \in jobs \cup claims : key[1] = to /\ AssetOf[key[2]] \in assets}
  /\ Cardinality(revisited') <= MaxRevisited
  /\ UNCHANGED <<place, objects, outbox>>

\* assertCanMoveAsset denies before anything has been copied.
PolicyDenies(r) ==
  /\ At(r, "copy")
  /\ req[r].copied = {}
  /\ Finish(r)
  /\ UNCHANGED <<place, objects, outbox, revisited>>

(* Mutant: objects that are already at the target are copied too.            *)
CopyObjectInPlace(r, p) ==
  /\ At(r, "copy")
  /\ p \in MovedBy(r) \ req[r].copied
  /\ SourceKey(r, p) \in objects
  /\ objects' = objects \cup {TargetKey(r, p)}
  /\ req' = [req EXCEPT ![r].copied = @ \cup {p}]
  /\ UNCHANGED <<place, outbox, revisited>>

CopyObject(r, p) ==
  /\ At(r, "copy")
  /\ p \in ToCopy(r) \ req[r].copied
  /\ SourceKey(r, p) \in objects
  /\ objects' = objects \cup {TargetKey(r, p)}
  /\ req' = [req EXCEPT ![r].copied = @ \cup {p}]
  /\ UNCHANGED <<place, outbox, revisited>>

\* The source is missing, or the provider fails; it may have copied then, but
\* the target is not in copiedObjects.
CopyFails(r, p) ==
  /\ At(r, "copy")
  /\ p \in ToCopy(r) \ req[r].copied
  /\ SourceKey(r, p) \notin objects \/ "storage" \in Faults
  /\ objects' \in {objects} \cup
       (IF SourceKey(r, p) \in objects THEN {objects \cup {TargetKey(r, p)}} ELSE {})
  /\ req' = [req EXCEPT ![r].step = "rollback"]
  /\ UNCHANGED <<place, outbox, revisited>>

(* Mutant: the sources of all parts are enqueued, copied or not.             *)
UpdateKeysAllSources(r) ==
  /\ At(r, "copy")
  /\ ToCopy(r) \subseteq req[r].copied
  /\ place' = [p \in Parts |-> IF p \in MovedBy(r) THEN req[r].to ELSE place[p]]
  /\ jobs' = IF OutboxMode THEN jobs \cup {SourceKey(r, p) : p \in MovedBy(r)} ELSE jobs
  /\ req' = [req EXCEPT ![r].step = "sources"]
  /\ UNCHANGED <<objects, claims, revisited>>

\* One transaction: the keys of all assets, whatever the rows hold by now, and
\* the deletion jobs of the copied sources.
UpdateKeys(r) ==
  /\ At(r, "copy")
  /\ ToCopy(r) \subseteq req[r].copied
  /\ place' = [p \in Parts |-> IF p \in MovedBy(r) THEN req[r].to ELSE place[p]]
  /\ jobs' = IF OutboxMode THEN jobs \cup {SourceKey(r, p) : p \in req[r].copied} ELSE jobs
  /\ req' = [req EXCEPT ![r].step = "sources"]
  /\ UNCHANGED <<objects, claims, revisited>>

UpdateFails(r) ==
  /\ "database" \in Faults
  /\ At(r, "copy")
  /\ ToCopy(r) \subseteq req[r].copied
  /\ req' = [req EXCEPT ![r].step = "rollback"]
  /\ UNCHANGED <<place, objects, outbox, revisited>>

\* Best-effort deletion of one object of copiedObjects, which is then done with.
DeleteCopied(r, p, key) ==
  /\ p \in req[r].copied
  /\ objects' \in {objects \ {key}} \cup (IF "storage" \in Faults THEN {objects} ELSE {})
  /\ req' = [req EXCEPT ![r].copied = @ \ {p}]
  /\ UNCHANGED <<place, outbox, revisited>>

(* Mutant: sources are deleted as soon as they have been copied.             *)
DeleteSourceEarly(r, p) ==
  /\ At(r, "copy") \/ At(r, "sources")
  /\ DeleteCopied(r, p, SourceKey(r, p))

DeleteSource(r, p) ==
  /\ At(r, "sources")
  /\ DeleteCopied(r, p, SourceKey(r, p))

RollBack(r, p) ==
  /\ At(r, "rollback")
  /\ DeleteCopied(r, p, TargetKey(r, p))

\* The call returns, or throws the error it has rolled back for.
Return(r) ==
  /\ At(r, "sources") \/ At(r, "rollback")
  /\ req[r].copied = {}
  /\ Finish(r)
  /\ UNCHANGED <<place, objects, outbox, revisited>>

Crash(r) ==
  /\ "crash" \in Faults
  /\ Active(r)
  /\ Finish(r)
  /\ UNCHANGED <<place, objects, outbox, revisited>>

\* The outbox worker, in awaits of its own.  A claim that expires is taken
\* over by another worker, so a key may be deleted by one worker after another
\* has marked its job.
ClaimJob(key) ==
  /\ key \in jobs
  /\ Cardinality(claims) < MaxClaims
  /\ claims' = claims \cup {key}
  /\ UNCHANGED <<place, objects, jobs, revisited, req>>

DeleteClaimed(key) ==
  /\ key \in claims
  /\ objects' = objects \ {key}
  /\ UNCHANGED <<place, outbox, revisited, req>>

\* A pass over a job ends, with its deletion done or failed: the job is done,
\* has failed for good or is left for another attempt, and other workers may
\* still be at it.
EndPass(key) ==
  /\ key \in claims
  /\ jobs' \in {jobs, jobs \ {key}}
  /\ claims' \in {claims, claims \ {key}}
  /\ UNCHANGED <<place, objects, revisited, req>>

-----------------------------------------------------------------------------
Step(r) ==
  \/ PolicyDenies(r) \/ UpdateKeys(r) \/ UpdateFails(r) \/ Return(r) \/ Crash(r)
  \/ \E p \in Parts :
       CopyObject(r, p) \/ CopyFails(r, p) \/ DeleteSource(r, p) \/ RollBack(r, p)

Next ==
  \/ \E r \in Requests, assets \in SUBSET Assets, to \in Prefixes : StartMove(r, assets, to)
  \/ \E r \in Requests : Step(r)
  \/ \E key \in jobs \cup claims : ClaimJob(key) \/ DeleteClaimed(key) \/ EndPass(key)

Spec == Init /\ [][Next]_vars

-----------------------------------------------------------------------------
(* Properties *)

\* The key in the row of every part names an object that exists.  The code
\* does not keep this (FindMoveBack).
LiveObjectsStored == \A p \in Parts : <<place[p], p>> \in objects

\* The same for every key that no move went to while a deletion of it was
\* still to come: however moves, their rollbacks, crashes, late and repeated
\* deletion jobs overlap, what moves on to new keys is never lost.
OnwardMovesKeepObjects ==
  \A p \in Parts : <<place[p], p>> \notin revisited => <<place[p], p>> \in objects
=============================================================================
