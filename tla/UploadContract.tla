---------------------------- MODULE UploadContract ----------------------------
(***************************************************************************)
(* What the upload workflows promise about one upload, without rows,       *)
(* objects, snapshots or error handling: an upload is opened once, is      *)
(* processed by at most one holder at a time, is published only by its     *)
(* holder, and once closed stays closed.                                   *)
(***************************************************************************)
CONSTANTS Uploads, Holders, NoHolder

VARIABLES
  phase,    \* where each upload stands
  holder    \* who is processing it

vars == <<phase, holder>>

Init ==
  /\ phase = [u \in Uploads |-> "absent"]
  /\ holder = [u \in Uploads |-> NoHolder]

Open(u) ==
  /\ phase[u] = "absent"
  /\ phase' = [phase EXCEPT ![u] = "open"]
  /\ UNCHANGED holder

Take(u, h) ==
  /\ phase[u] = "open" /\ holder[u] = NoHolder
  /\ phase' = [phase EXCEPT ![u] = "held"]
  /\ holder' = [holder EXCEPT ![u] = h]

\* The holder gives the upload back, publishes it, or fails it.
Resolve(u) ==
  /\ phase[u] = "held" /\ holder[u] # NoHolder
  /\ \E outcome \in {"open", "published", "closed"} :
       phase' = [phase EXCEPT ![u] = outcome]
  /\ holder' = [holder EXCEPT ![u] = NoHolder]

\* The holder disappears; a held upload then stays held until it is closed.
Vanish(u) ==
  /\ holder[u] # NoHolder
  /\ holder' = [holder EXCEPT ![u] = NoHolder]
  /\ UNCHANGED phase

\* Expiry, cancellation or deletion, by anyone and at any time.
Close(u) ==
  /\ phase[u] \in {"open", "held", "published"}
  /\ phase' = [phase EXCEPT ![u] = "closed"]
  /\ UNCHANGED holder

Next ==
  \E u \in Uploads :
    \/ Open(u)
    \/ \E h \in Holders : Take(u, h)
    \/ Resolve(u) \/ Vanish(u) \/ Close(u)

Spec == Init /\ [][Next]_vars
=============================================================================
