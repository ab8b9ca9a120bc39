------------------------------ MODULE AuthHttp ------------------------------
(***************************************************************************)
(* The HTTP adapters of the auth module over the sessions of Registration: *)
(* what attachAuthContext and enforceRequestOrigin (Express) and           *)
(* getCurrentUser and enforceRequestOrigin (Next) decide about a request.  *)
(*                                                                         *)
(* Each of them awaits validateSession, once or twice.  The sets of        *)
(* sessions that are valid when they do are parameters: between two awaits *)
(* sessions may be revoked or expire, and none comes back.                 *)
(***************************************************************************)
EXTENDS Registration

CONSTANTS
  Unknown,       \* a session token that names no session
  Permissions

ASSUME UnknownAssumption == Unknown \notin Sessions \cup {None}

Presented == Sessions \cup {Unknown, None}

\* The bearer token of the authorization header and the token of the session
\* cookie, None where there is none that can be read; what the role of its user
\* and the user itself are granted.
Request == [bearer : Presented, cookie : Presented, safe : BOOLEAN,
            origin : {"absent", "trusted", "untrusted"},
            role : SUBSET Permissions, own : SUBSET Permissions]

ValidSessions == {s \in Sessions : Valid(s)}

UserPermissions(q) == q.role \cup q.own

HasPermission(q, permission) == permission \in UserPermissions(q)

-----------------------------------------------------------------------------
(* Express *)

SessionTokenContext(q) ==
  CASE q.bearer # None -> [source |-> "bearer", token |-> q.bearer]
    [] q.bearer = None /\ q.cookie # None -> [source |-> "cookie", token |-> q.cookie]
    [] q.bearer = None /\ q.cookie = None -> [source |-> "none", token |-> None]

(* Mutant: the bearer token is the only one asked for, and every failure     *)
(* clears the cookie.                                                        *)
AttachWithoutFallback(q, first, second) ==
  LET asked == SessionTokenContext(q)
      found == asked.token \in first
  IN [session |-> IF found THEN asked.token ELSE None,
      source |-> IF found THEN asked.source ELSE "none",
      clears |-> ~found, sets |-> None]

\* A bearer token that fails gives way to the cookie.
AttachAuthContext(q, first, second) ==
  LET asked == SessionTokenContext(q)
      again == asked.source = "bearer" /\ asked.token \notin first /\ q.cookie # None
      source == IF again THEN "cookie" ELSE asked.source
      token == IF again THEN q.cookie ELSE asked.token
      found == token \in IF again THEN second ELSE first
  IN [session |-> IF found THEN token ELSE None,
      source |-> IF found THEN source ELSE "none",
      clears |-> source = "cookie" /\ ~found,
      sets |-> IF source = "cookie" /\ found /\ Due(token) THEN token ELSE None]

RequireAuth(context) == context.session # None

RequirePermission(q, context, permission) ==
  RequireAuth(context) /\ HasPermission(q, permission)

OriginTrusted(q) == q.origin = "trusted"

(* Mutant: the presence of a bearer token is taken for its validity.         *)
EnforceOnPresence(q, context, valid) == q.safe \/ q.bearer # None \/ OriginTrusted(q)

EnforceRequestOrigin(q, context, valid) ==
  \/ q.safe
  \/ q.bearer # None /\ context.source = "bearer"
  \/ q.bearer \in valid
  \/ OriginTrusted(q)

-----------------------------------------------------------------------------
(* Next: the current user is the cookie's, whatever the headers say. *)

GetCurrentUser(q, valid) ==
  LET found == q.cookie \in valid
  IN [session |-> IF found THEN q.cookie ELSE None,
      source |-> IF found THEN "cookie" ELSE "none",
      clears |-> ~found,
      sets |-> IF found /\ Due(q.cookie) THEN q.cookie ELSE None]

NextRequirePermission(q, valid, permission) ==
  RequireAuth(GetCurrentUser(q, valid)) /\ HasPermission(q, permission)

NextEnforceRequestOrigin(q, valid) ==
  q.safe \/ q.bearer \in valid \/ OriginTrusted(q)

-----------------------------------------------------------------------------
\* Requests are looked at where no other call is in flight; what other calls
\* could do to the sessions is in the sets of each await.
AtRest == \A r \in Requests : At(r, "idle")

\* Neither adapter takes the cookie from a browser whose session is valid, in
\* particular not because the same request carried a bearer token that is not;
\* and a cookie is renewed only with the token the browser sent.
ValidCookieKept ==
  AtRest => \A q \in Request, second \in SUBSET ValidSessions :
    LET express == AttachAuthContext(q, ValidSessions, second)
        next == GetCurrentUser(q, second)
    IN /\ q.cookie \in second => ~express.clears /\ ~next.clears
       /\ express.sets \in {None, q.cookie} /\ next.sets \in {None, q.cookie}

\* A request that changes state and is not from a trusted origin is let through
\* only on the strength of a bearer token that was valid during the request,
\* and Express never runs it as the user of the cookie.
StateChangesProven ==
  AtRest => \A q \in Request, second \in SUBSET ValidSessions :
    \A third \in SUBSET second :
      LET context == AttachAuthContext(q, ValidSessions, second) IN
      ~q.safe /\ ~OriginTrusted(q) =>
        /\ EnforceRequestOrigin(q, context, third) =>
             q.bearer \in ValidSessions /\ context.source = "bearer"
        /\ NextEnforceRequestOrigin(q, third) => q.bearer \in third
        /\ \A p \in Permissions :
             RequirePermission(q, context, p) /\ EnforceRequestOrigin(q, context, third)
               => context.session = q.bearer
        /\ \A p \in Permissions :
             NextRequirePermission(q, third, p) => q.cookie \in third
=============================================================================
