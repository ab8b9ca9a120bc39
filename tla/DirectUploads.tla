---------------------------- MODULE DirectUploads ----------------------------
(***************************************************************************)
(* Uploads through the HTTP adapters and the local storage adapter: the    *)
(* request for a signed URL, the PUT that presents it, the reads of a      *)
(* completion and the deletions, file by file.                             *)
(*                                                                         *)
(* The body and the metadata of an object are two files, written and       *)
(* removed by calls that are suspended at every file operation.  The rows  *)
(* are those of UploadLifecycle; here an upload keeps what its session     *)
(* and its URL fix.                                                        *)
(***************************************************************************)
EXTENDS InputValidation

CONSTANTS
  Uploads,
  Actors,
  Adapters,      \* records of `hook`, whether authorize is configured, and
                 \* `open`, the actions of allowUnauthenticated
  Permitted,     \* what authorize lets pass: pairs of actor and action
  Requests,      \* bodies of createUploadIntent requests
  MimeTexts,     \* Content-Type headers clients send
  Lengths,       \* lengths of the bodies clients send
  Calls,         \* slots for calls in flight
  None, Torn,    \* no row, no file; a file cut off while it is written
  Ticks,         \* milliseconds the clock may advance by
  Horizon        \* bound of the clock

\* The URL lives as long as the session.  presignedUploadTtlMs has a default of
\* its own, so that a policy that sets uploadSessionTtlMs alone can break this.
ASSUME UrlOutlivesAssumption == PresignedTtl >= SessionTtl
ASSUME RequestsAssumption ==
  \A request \in Requests : request.size \in Int /\ request.prefix \in Seq(Segments)
\* An upload with such an id is refused its key.
ASSUME UploadsAssumption == \A u \in Uploads : <<u>> \notin Reserved
ASSUME BoundsAssumption ==
  /\ Uploads # {}
  /\ Lengths \subseteq Nat /\ Ticks \subseteq Nat \ {0} /\ Horizon \in Nat

VARIABLES clock, uploads, body, sidecar, calls, hashed,
          sent   \* history: type and length of the PUTs that ran to their end

vars == <<clock, uploads, body, sidecar, calls, hashed, sent>>

Kinds == DOMAIN AllowedMimeTypes
Types == UNION {AllowedMimeTypes[kind] : kind \in Kinds}
Prefixes == {NormalizePathPrefix(r.prefix) : r \in Requests}

\* The types a PUT may present: those of the policies and of its header.
PresentedTypes == Types \cup {NormalizeMimeType(text) : text \in MimeTexts}

\* A session and its URL, which expires at the end of the second `url`.
Upload == [kind : Kinds, type : Types, size : Nat, prefix : Prefixes,
           owner : Actors, expiresAt : Nat, url : Nat \cup {-1}]
NoUrl == -1

\* The length of the body file, and the content of the metadata file.
Absent == -1
Stored == [type : PresentedTypes, length : Nat]
Sidecar == Stored \cup {None, Torn}

ASSUME SentinelsAssumption ==
  /\ None \notin Upload /\ None # Torn
  /\ {None, Torn} \cap Stored = {}
  /\ None \notin PresentedTypes /\ NoType \notin PresentedTypes

\* `at` is how far the call has written or read.  It goes on in the file it
\* opened after that file is unlinked.
Call == [step : {"idle", "sign", "body", "fill", "metadata", "fill metadata",
                 "stat", "read metadata", "stream", "unlink", "unlink metadata"},
         upload : Uploads, type : PresentedTypes \cup {None}, length : Nat,
         at : Nat, linked : BOOLEAN]

Idle == [step |-> "idle", upload |-> CHOOSE u \in Uploads : TRUE,
         type |-> None, length |-> 0, at |-> 0, linked |-> TRUE]

Init ==
  /\ clock = 0
  /\ uploads = [u \in Uploads |-> None]
  /\ body = [u \in Uploads |-> Absent]
  /\ sidecar = [u \in Uploads |-> None]
  /\ calls = [c \in Calls |-> Idle]
  /\ hashed = [u \in Uploads |-> Absent]
  /\ sent = [u \in Uploads |-> {}]

-----------------------------------------------------------------------------
At(c, step) == calls[c].step = step
Start(c, step, u, type, length) ==
  calls' = [calls EXCEPT ![c] = [step |-> step, upload |-> u, type |-> type,
                                 length |-> length, at |-> 0, linked |-> TRUE]]
Goto(c, step) == calls' = [calls EXCEPT ![c].step = step]
Finish(c) == calls' = [calls EXCEPT ![c] = Idle]

Opened(u) == uploads[u] # None

\* resolveActorAndAuthorize
Authorized(adapter, actor, action) ==
  IF adapter.hook THEN <<actor, action>> \in Permitted ELSE action \in adapter.open

Entitled(actor, action) == \E adapter \in Adapters : Authorized(adapter, actor, action)

-----------------------------------------------------------------------------
(* createUploadIntent: the row, then the URL.                                *)

\* readJsonBody and the readers of its fields: a JSON object whose fields are
\* there and have their types.
WellTyped(request) == request.wellTyped

\* The row of an input that passes validateCreateUploadIntentInput.
HandleCreateUploadIntent(c, u) ==
  /\ At(c, "idle") /\ ~Opened(u)
  /\ \E actor \in Actors, request \in Requests :
       /\ Entitled(actor, "createUploadIntent")
       /\ WellTyped(request)
       /\ ValidIntentInput(request)
       /\ uploads' = [uploads EXCEPT ![u] =
            [kind |-> request.kind, type |-> NormalizeMimeType(request.mime),
             size |-> request.size, prefix |-> NormalizePathPrefix(request.prefix),
             owner |-> actor, expiresAt |-> clock + SessionTtl, url |-> NoUrl]]
  /\ Start(c, "sign", u, None, 0)
  /\ UNCHANGED <<clock, body, sidecar, hashed, sent>>

(* Mutant: Math.floor for Math.ceil.                                         *)
SecondsRoundedDown(ms) == ms \div 1000

\* Math.ceil(ms / 1_000)
Seconds(ms) == (ms + 999) \div 1000

Now == clock \div 1000

\* createPresignedPutUrl reads the clock of the adapter.
SignUpload(c) ==
  /\ At(c, "sign")
  /\ uploads' = [uploads EXCEPT ![calls[c].upload].url = Now + Seconds(PresignedTtl)]
  /\ Finish(c)
  /\ UNCHANGED <<clock, body, sidecar, hashed, sent>>

-----------------------------------------------------------------------------
(* The PUT of the local adapter.                                             *)

\* The parameters of a signed URL, as some client presents them.
Presented == [key : Uploads, expires : 0..(Horizon + PresignedTtl) \div 1000 + 1,
              type : PresentedTypes, length : Lengths]

\* The keys an upload has under the two strategies.
KeysByDate == [prefix \in Prefixes |-> [u \in Uploads |-> [type \in Types |->
                 DateKey(prefix, u, type)]]]
KeysByPrefix == [prefix \in Prefixes |-> [u \in Uploads |-> [type \in Types |->
                   FlatKey(prefix, u, type)]]]

DatedKey(u) == KeysByDate[uploads[u].prefix][u][uploads[u].type]
PrefixedKey(u) == KeysByPrefix[uploads[u].prefix][u][uploads[u].type]

Shadows(w, u) ==
  Continues(DatedKey(w), DatedKey(u)) \/ Continues(PrefixedKey(w), PrefixedKey(u))

\* The uploads whose URL may be presented for the key of `u`.
Signers(u) == {u} \cup {w \in Uploads : Opened(w) /\ Shadows(w, u)}

(* Mutant: the length is not part of the signed payload.                     *)
SignatureValidForType(p) ==
  Opened(p.key) /\ uploads[p.key].url = p.expires /\ uploads[p.key].type = p.type

\* verifyLocalUploadSignature: nobody forges a signature, so the payload is that
\* of some URL.  It joins key, expires, type and length with colons: the length is
\* what follows the last one, and the other parameters are the signed ones if
\* the key is.  Where the signed key goes on with a colon after the key presented,
\* the rest of it is read as the expiry, which may be any here, and as the beginning
\* of the type, which has colons then.
SignatureValid(p) ==
  /\ Opened(p.key)
  /\ \E w \in Uploads :
       /\ Opened(w) /\ uploads[w].url # NoUrl /\ uploads[w].size = p.length
       /\ IF w = p.key THEN uploads[w].url = p.expires /\ uploads[w].type = p.type
                       ELSE p.type \notin Types /\ Shadows(w, p.key)

\* The signature and the header are checked before the body is awaited.
HandleLocalPut(c) ==
  /\ At(c, "idle")
  /\ \E actor \in Actors, adapter \in Adapters :
       adapter.hook => Authorized(adapter, actor, "localPutObject")
  /\ \E p \in Presented :
       /\ SignatureValid(p) /\ Now <= p.expires
       /\ \E header \in MimeTexts : NormalizeMimeType(header) = p.type
       /\ Start(c, "body", p.key, p.type, p.length)
  /\ UNCHANGED <<clock, uploads, body, sidecar, hashed, sent>>

\* writeFile truncates the file or creates it.
OpenForWriting(c) ==
  /\ At(c, "body") /\ calls[c].length \in Lengths
  /\ body' = [body EXCEPT ![calls[c].upload] = 0]
  /\ Goto(c, "fill")
  /\ UNCHANGED <<clock, uploads, sidecar, hashed, sent>>

\* The body has another length than the URL was signed for.
RefuseBody(c) ==
  /\ At(c, "body") /\ \E length \in Lengths : length # calls[c].length
  /\ Finish(c)
  /\ UNCHANGED <<clock, uploads, body, sidecar, hashed, sent>>

\* Another PUT may have truncated the file: what is written after its end
\* leaves a hole.
Fill(c) ==
  LET u == calls[c].upload IN
  /\ At(c, "fill") /\ calls[c].at < calls[c].length
  /\ \E to \in (calls[c].at + 1)..calls[c].length :
       /\ calls' = [calls EXCEPT ![c].at = to]
       /\ body' = [body EXCEPT ![u] =
            IF calls[c].linked /\ body[u] < to THEN to ELSE body[u]]
  /\ UNCHANGED <<clock, uploads, sidecar, hashed, sent>>

CloseBody(c) ==
  /\ At(c, "fill") /\ calls[c].at = calls[c].length
  /\ Goto(c, "metadata")
  /\ UNCHANGED <<clock, uploads, body, sidecar, hashed, sent>>

\* writeMetadataFile truncates its file too; `linked` is now about that file.
TearMetadata(c) ==
  /\ At(c, "metadata")
  /\ sidecar' = [sidecar EXCEPT ![calls[c].upload] = Torn]
  /\ calls' = [calls EXCEPT ![c].step = "fill metadata", ![c].linked = TRUE]
  /\ UNCHANGED <<clock, uploads, body, hashed, sent>>

WriteMetadata(c) ==
  LET u == calls[c].upload
      written == [type |-> calls[c].type, length |-> calls[c].length] IN
  /\ At(c, "fill metadata")
  /\ sidecar' = [sidecar EXCEPT ![u] = IF calls[c].linked THEN written ELSE @]
  /\ sent' = [sent EXCEPT ![u] = @ \cup {written}]
  /\ Finish(c)
  /\ UNCHANGED <<clock, uploads, body, hashed>>

-----------------------------------------------------------------------------
(* completeUpload: getObjectStream, which reads both files, and the stream.  *)

HandleCompleteUpload(c, u) ==
  /\ At(c, "idle") /\ Opened(u) /\ hashed[u] = Absent
  /\ \E actor \in Actors : Entitled(actor, "completeUpload")
  /\ clock < uploads[u].expiresAt
  /\ Start(c, "stat", u, None, 0)
  /\ UNCHANGED <<clock, uploads, body, sidecar, hashed, sent>>

(* Mutant: an object that is not there has the length Absent.                *)
StatAnyObject(c) ==
  /\ At(c, "stat")
  /\ calls' = [calls EXCEPT ![c].step = "read metadata",
                            ![c].length = body[calls[c].upload]]
  /\ UNCHANGED <<clock, uploads, body, sidecar, hashed, sent>>

\* headObject answers null for an object that is not there.
StatObject(c) ==
  LET found == body[calls[c].upload] # Absent IN
  /\ At(c, "stat")
  /\ IF found THEN calls' = [calls EXCEPT ![c].step = "read metadata",
                                          ![c].length = body[calls[c].upload]]
              ELSE Finish(c)
  /\ UNCHANGED <<clock, uploads, body, sidecar, hashed, sent>>

\* A torn metadata file is no JSON.
ReadMetadata(c) ==
  LET u == calls[c].upload
      type == IF sidecar[u] = None THEN NoType ELSE sidecar[u].type
      valid == /\ sidecar[u] # Torn
               /\ ValidStoredMetadata(uploads[u], type, calls[c].length) IN
  /\ At(c, "read metadata")
  /\ IF valid /\ body[u] # Absent THEN Goto(c, "stream") ELSE Finish(c)
  /\ UNCHANGED <<clock, uploads, body, sidecar, hashed, sent>>

\* The stream has what the file holds when a chunk is read.
StreamChunk(c) ==
  LET u == calls[c].upload IN
  /\ At(c, "stream")
  /\ \E to \in (calls[c].at + 1)..uploads[u].size :
       /\ calls[c].linked => to <= body[u]
       /\ calls' = [calls EXCEPT ![c].at = to]
  /\ UNCHANGED <<clock, uploads, body, sidecar, hashed, sent>>

(* Mutant: hashStreamAndMaybeBuffer without validateStreamedObjectSize.      *)
StreamedAnySize(c) == TRUE

\* validateStreamedObjectSize
StreamedWhole(c) == calls[c].at = uploads[calls[c].upload].size

\* The end of the file as it is now.
StreamEnds(c) ==
  LET u == calls[c].upload IN
  /\ At(c, "stream")
  /\ calls[c].linked => body[u] <= calls[c].at
  /\ hashed' = [hashed EXCEPT ![u] =
       IF StreamedWhole(c) THEN calls[c].at ELSE @]
  /\ Finish(c)
  /\ UNCHANGED <<clock, uploads, body, sidecar, sent>>

-----------------------------------------------------------------------------
(* deleteObject, for any of the workflows that remove objects.               *)

HandleDelete(c, u) ==
  /\ At(c, "idle") /\ Opened(u)
  /\ \E actor \in Actors, action \in {"deleteAsset", "cancelUpload", "cleanup"} :
       Entitled(actor, action)
  /\ Start(c, "unlink", u, None, 0)
  /\ UNCHANGED <<clock, uploads, body, sidecar, hashed, sent>>

\* What the calls that have the file open do now is seen by nobody else.
Unlinked(u, steps) ==
  [d \in Calls |-> IF calls[d].upload = u /\ calls[d].step \in steps
                   THEN [calls[d] EXCEPT !.linked = FALSE] ELSE calls[d]]

\* rm without force: a missing body ends the deletion before the metadata.
UnlinkBody(c) ==
  LET u == calls[c].upload IN
  /\ At(c, "unlink")
  /\ IF body[u] = Absent THEN Finish(c)
     ELSE calls' = [Unlinked(u, {"fill", "stream"}) EXCEPT ![c].step = "unlink metadata"]
  /\ body' = [body EXCEPT ![u] = Absent]
  /\ UNCHANGED <<clock, uploads, sidecar, hashed, sent>>

UnlinkMetadata(c) ==
  LET u == calls[c].upload IN
  /\ At(c, "unlink metadata")
  /\ sidecar' = [sidecar EXCEPT ![u] = None]
  /\ calls' = [Unlinked(u, {"fill metadata"}) EXCEPT ![c] = Idle]
  /\ UNCHANGED <<clock, uploads, body, hashed, sent>>

-----------------------------------------------------------------------------
\* An I/O error, an aborted request, or the end of the process, which
\* interrupts one call after the other.
Interrupt(c) ==
  /\ ~At(c, "idle")
  /\ Finish(c)
  /\ UNCHANGED <<clock, uploads, body, sidecar, hashed, sent>>

Tick ==
  /\ \E ms \in Ticks : clock + ms <= Horizon /\ clock' = clock + ms
  /\ UNCHANGED <<uploads, body, sidecar, calls, hashed, sent>>

Next ==
  \/ Tick
  \/ \E c \in Calls :
       \/ \E u \in Uploads : \/ HandleCreateUploadIntent(c, u)
                             \/ HandleCompleteUpload(c, u)
                             \/ HandleDelete(c, u)
       \/ SignUpload(c)
       \/ HandleLocalPut(c) \/ OpenForWriting(c) \/ RefuseBody(c)
       \/ Fill(c) \/ CloseBody(c) \/ TearMetadata(c) \/ WriteMetadata(c)
       \/ StatObject(c) \/ ReadMetadata(c) \/ StreamChunk(c) \/ StreamEnds(c)
       \/ UnlinkBody(c) \/ UnlinkMetadata(c)
       \/ Interrupt(c)

Spec == Init /\ [][Next]_vars

-----------------------------------------------------------------------------
\* Every variable keeps to its type: a stored length is never that of a file
\* that was not found.
TypeOK ==
  /\ clock \in 0..Horizon
  /\ uploads \in [Uploads -> Upload \cup {None}]
  /\ body \in [Uploads -> Nat \cup {Absent}]
  /\ sidecar \in [Uploads -> Sidecar]
  /\ calls \in [Calls -> Call]
  /\ hashed \in [Uploads -> Nat \cup {Absent}]
  /\ sent \in [Uploads -> SUBSET Stored]

\* As long as a session accepts a completion, a URL issued for it is accepted
\* by verifyLocalUploadSignature, whenever the URL was signed and however the
\* milliseconds of the policies fall into seconds.
OpenSessionsUploadable ==
  \A u \in Uploads :
    Opened(u) /\ uploads[u].url # NoUrl /\ clock < uploads[u].expiresAt
      => Now <= uploads[u].url

\* What any interleaving of PUTs, deletions and crashes leaves in storage under the
\* key of an upload was asked for by an actor who may upload, within the policy of
\* its kind, and is no longer than announced: by the upload itself, unless the key of
\* another goes on where its own ends.  If none does, it is described as announced.
StoredWithinPolicy ==
  \A u \in Uploads : body[u] # Absent \/ sidecar[u] # None =>
    /\ Opened(u)
    /\ \E w \in Signers(u) :
         /\ Entitled(uploads[w].owner, "createUploadIntent")
         /\ uploads[w].type \in TypesOf(uploads[w].kind)
         /\ WithinMaxSize(uploads[w].kind, uploads[w].size)
         /\ body[u] <= uploads[w].size
    /\ Signers(u) = {u} =>
         sidecar[u] \in {None, Torn, [type |-> uploads[u].type, length |-> uploads[u].size]}

\* An upload is accepted only after some PUT to its key ran to its end with the
\* announced type and as many bytes as were accepted, although PUTs, deletions and
\* crashes leave bodies and metadata files of different calls side by side, and
\* the stat, the metadata and the chunks are read one after the other.
AcceptedWasSent ==
  \A u \in Uploads : hashed[u] # Absent =>
    [type |-> uploads[u].type, length |-> hashed[u]] \in sent[u]

\* The keys an upload uses under one strategy: the original, its variants,
\* and those it may be moved to, with the variants made afterwards.
OriginalsAndVariants(key, VariantKey(_, _)) ==
  {key} \cup {VariantKey(key, v) : v \in VariantNames}

KeysUnder(u, key, VariantKey(_, _)) ==
  OriginalsAndVariants(key, VariantKey)
    \cup UNION {OriginalsAndVariants(MovedKey(u, key, prefix), VariantKey) :
                  prefix \in {p \in Prefixes \ {NoPrefix} : AllowedPathPrefix(p)}}

KeysIfDated(prefix, u, type) == KeysUnder(u, DateKey(prefix, u, type), DateVariantKey)
KeysIfPrefixed(prefix, u, type) == KeysUnder(u, FlatKey(prefix, u, type), FlatVariantKey)

EveryDated == [prefix \in Prefixes |-> [u \in Uploads |-> [type \in Types |->
                 KeysIfDated(prefix, u, type)]]]
EveryPrefixed == [prefix \in Prefixes |-> [u \in Uploads |-> [type \in Types |->
                    KeysIfPrefixed(prefix, u, type)]]]

\* Two uploads never share an object key, whatever their prefixes and wherever
\* they are moved; every key is valid, and no variant takes the place of its original.
KeysDisjoint ==
  LET keys(u) == EveryDated[uploads[u].prefix][u][uploads[u].type]
      flatKeys(u) == EveryPrefixed[uploads[u].prefix][u][uploads[u].type]
  IN \A u \in Uploads : Opened(u) =>
       /\ \A key \in keys(u) \cup flatKeys(u) : ValidObjectKey(key)
       /\ \A v \in VariantNames : DateVariantKey(DatedKey(u), v) # DatedKey(u)
                                  /\ FlatVariantKey(PrefixedKey(u), v) # PrefixedKey(u)
       /\ \A w \in Uploads \ {u} : Opened(w) =>
            keys(u) \cap keys(w) = {} /\ flatKeys(u) \cap flatKeys(w) = {}
=============================================================================
