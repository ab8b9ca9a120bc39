------------------------- MODULE DirectUploads_proofs -------------------------
(***************************************************************************)
(* Theorems about DirectUploads, for every set of uploads, actors,         *)
(* adapters, requests and calls, every policy and every lifetime in        *)
(* milliseconds.                                                           *)
(***************************************************************************)
EXTENDS DirectUploads, SequenceTheorems, WellFoundedInduction, TLAPS

\* What a row fixes about its upload came through the checks of the request.
RowsSound ==
  \A u \in Uploads : Opened(u) =>
    /\ Entitled(uploads[u].owner, "createUploadIntent")
    /\ uploads[u].type \in TypesOf(uploads[u].kind)
    /\ WithinMaxSize(uploads[u].kind, uploads[u].size)
    /\ AllowedPathPrefix(uploads[u].prefix)

\* A URL is good until after the last millisecond of its session, and until it
\* is signed the session still has a whole lifetime at most.
UrlsSound ==
  \A u \in Uploads : Opened(u) =>
    /\ uploads[u].expiresAt <= clock + SessionTtl
    /\ uploads[u].url # NoUrl => uploads[u].expiresAt < 1000 * (uploads[u].url + 1)

\* The type and length of an upload.
Announced(row) == [type |-> row.type, length |-> row.size]

SignersOf == [u \in Uploads |-> Signers(u)]

PutSteps == {"body", "fill", "metadata", "fill metadata"}

\* A PUT to the key of an upload writes as many bytes as the URL was signed for, and
\* what it writes of the announced type is all that was announced.
SoundPut(put, rows, signers) ==
  /\ put.type \in PresentedTypes /\ put.at <= put.length
  /\ \E w \in signers[put.upload] : put.length = rows[w].size
  /\ signers[put.upload] = {put.upload} => put.type = rows[put.upload].type
  /\ put.type = rows[put.upload].type => put.length = rows[put.upload].size

\* A call in flight is about an upload that was opened, and a completion that reads
\* its object follows a PUT of what was announced.
SoundCall(call, rows, signers, done) == call.step # "idle" =>
  /\ rows[call.upload] # None
  /\ call.step \in PutSteps => SoundPut(call, rows, signers)
  /\ call.step = "stream" => Announced(rows[call.upload]) \in done[call.upload]

CallsSound == \A c \in Calls : SoundCall(calls[c], uploads, SignersOf, sent)

\* What is stored of an upload, and the bytes a completion accepted.
StorageSound ==
  \A u \in Uploads : body[u] # Absent \/ sidecar[u] # None =>
    /\ Opened(u)
    /\ \E w \in SignersOf[u] : body[u] <= uploads[w].size
    /\ SignersOf[u] = {u} => sidecar[u] \in {None, Torn, Announced(uploads[u])}
    /\ sidecar[u] \notin {None, Torn} /\ sidecar[u].type = uploads[u].type
         => Announced(uploads[u]) \in sent[u]

HashedSound ==
  \A u \in Uploads : hashed[u] # Absent =>
    Opened(u) /\ hashed[u] = uploads[u].size /\ Announced(uploads[u]) \in sent[u]

\* The inductive invariant.
Sound == TypeOK /\ CallsSound /\ RowsSound /\ UrlsSound /\ StorageSound /\ HashedSound

-----------------------------------------------------------------------------
(* Type correctness *)

\* The fields of a row, and of a call and what it is about.
LEMMA RowTyped ==
  ASSUME TypeOK, NEW u \in Uploads, Opened(u)
  PROVE  uploads[u] \in Upload
BY DEF TypeOK, Opened

LEMMA CallTyped ==
  ASSUME TypeOK, NEW c \in Calls
  PROVE  calls[c] \in Call /\ calls[c].upload \in Uploads
BY DEF TypeOK, Call

\* A free slot is a call of the type.
LEMMA IdleTyped == Idle \in Call
BY BoundsAssumption DEF Idle, Call

\* How the calls change.
LEMMA CallUpdatesTyped ==
  ASSUME TypeOK, NEW c \in Calls
  PROVE  /\ Finish(c) => calls' \in [Calls -> Call]
         /\ \A u \in Uploads, type \in PresentedTypes \cup {None}, n \in Nat,
               s \in {"sign", "body", "stat", "unlink"} :
              Start(c, s, u, type, n) => calls' \in [Calls -> Call]
         /\ \A s \in {"fill", "metadata", "stream"} :
              Goto(c, s) => calls' \in [Calls -> Call]
         /\ \A u \in Uploads : \A steps : Unlinked(u, steps) \in [Calls -> Call]
<1>1. Finish(c) => calls' \in [Calls -> Call]
  BY IdleTyped DEF TypeOK, Finish
<1>2. \A u \in Uploads, type \in PresentedTypes \cup {None}, n \in Nat,
         s \in {"sign", "body", "stat", "unlink"} :
        Start(c, s, u, type, n) => calls' \in [Calls -> Call]
  <2> SUFFICES ASSUME NEW u \in Uploads, NEW type \in PresentedTypes \cup {None},
                      NEW n \in Nat, NEW s \in {"sign", "body", "stat", "unlink"}
               PROVE  Start(c, s, u, type, n) => calls' \in [Calls -> Call]
    OBVIOUS
  <2>1. [step |-> s, upload |-> u, type |-> type, length |-> n, at |-> 0, linked |-> TRUE]
          \in Call
    BY DEF Call
  <2>2. QED
    BY <2>1 DEF TypeOK, Start
<1>3. \A s \in {"fill", "metadata", "stream"} : Goto(c, s) => calls' \in [Calls -> Call]
  <2> SUFFICES ASSUME NEW s \in {"fill", "metadata", "stream"}
               PROVE  Goto(c, s) => calls' \in [Calls -> Call]
    OBVIOUS
  <2>1. [calls[c] EXCEPT !.step = s] \in Call
    BY CallTyped DEF Call
  <2>2. QED
    BY <2>1 DEF TypeOK, Goto
<1>4. ASSUME NEW u \in Uploads, NEW steps
      PROVE  Unlinked(u, steps) \in [Calls -> Call]
  BY CallTyped DEF TypeOK, Unlinked, Call
<1>5. QED
  BY <1>1, <1>2, <1>3, <1>4

LEMMA InitTyped == Init => TypeOK
BY IdleTyped, BoundsAssumption DEF Init, TypeOK, Absent, Sidecar

\* The row of an accepted request is one.
LEMMA NewRowTyped ==
  ASSUME TypeOK, NEW request \in Requests, NEW actor \in Actors, ValidIntentInput(request)
  PROVE  [kind |-> request.kind, type |-> NormalizeMimeType(request.mime),
          size |-> request.size, prefix |-> NormalizePathPrefix(request.prefix),
          owner |-> actor, expiresAt |-> clock + SessionTtl, url |-> NoUrl] \in Upload
<1>1. request.kind \in Kinds /\ NormalizeMimeType(request.mime) \in Types
  BY DEF ValidIntentInput, TypesOf, Kinds, Types
<1>2. request.size \in Nat
  BY RequestsAssumption DEF ValidIntentInput
<1>3. clock + SessionTtl \in Nat
  BY PoliciesAssumption DEF TypeOK
<1>4. QED
  BY <1>1, <1>2, <1>3 DEF Upload, Prefixes, NoUrl

\* The second a URL expires in.
LEMMA SecondsTyped ==
  ASSUME TypeOK
  PROVE  /\ Now + Seconds(PresignedTtl) \in Nat
         /\ clock + PresignedTtl < 1000 * (Now + Seconds(PresignedTtl) + 1)
BY PoliciesAssumption, SMTT(30) DEF TypeOK, Now, Seconds

\* What a sound call in flight is about.
LEMMA CallOpened ==
  ASSUME CallsSound, NEW c \in Calls, calls[c].step # "idle"
  PROVE  /\ Opened(calls[c].upload)
         /\ calls[c].step \in PutSteps => SoundPut(calls[c], uploads, SignersOf)
         /\ calls[c].step = "stream" =>
              Announced(uploads[calls[c].upload]) \in sent[calls[c].upload]
BY DEF CallsSound, SoundCall, Opened

LEMMA NextTyped == TypeOK /\ CallsSound /\ [Next]_vars => TypeOK'
<1> SUFFICES ASSUME TypeOK, CallsSound, [Next]_vars PROVE TypeOK'
  OBVIOUS
<1>1. CASE Tick
  BY <1>1, BoundsAssumption DEF Tick, TypeOK
<1>2. ASSUME NEW c \in Calls, NEW u \in Uploads, HandleCreateUploadIntent(c, u)
      PROVE  TypeOK'
  <2>1. uploads' \in [Uploads -> Upload \cup {None}]
    BY <1>2, NewRowTyped DEF HandleCreateUploadIntent, TypeOK
  <2>2. calls' \in [Calls -> Call]
    BY <1>2, CallUpdatesTyped DEF HandleCreateUploadIntent
  <2>3. QED
    BY <1>2, <2>1, <2>2 DEF HandleCreateUploadIntent, TypeOK
<1>3. ASSUME NEW c \in Calls, NEW u \in Uploads,
             HandleCompleteUpload(c, u) \/ HandleDelete(c, u)
      PROVE  TypeOK'
  <2>1. calls' \in [Calls -> Call]
    BY <1>3, CallUpdatesTyped DEF HandleCompleteUpload, HandleDelete
  <2>2. QED
    BY <1>3, <2>1 DEF HandleCompleteUpload, HandleDelete, TypeOK
<1>4. ASSUME NEW c \in Calls, SignUpload(c)
      PROVE  TypeOK'
  <2>1. uploads' \in [Uploads -> Upload \cup {None}]
    <3> DEFINE w == calls[c].upload
    <3>1. w \in Uploads /\ Opened(w)
      BY <1>4, CallTyped, CallOpened DEF SignUpload, At
    <3>2. [uploads[w] EXCEPT !.url = Now + Seconds(PresignedTtl)] \in Upload
      BY <3>1, RowTyped, SecondsTyped DEF Upload
    <3>3. QED
      BY <1>4, <3>2 DEF SignUpload, TypeOK
  <2>2. QED
    BY <1>4, <2>1, CallUpdatesTyped DEF SignUpload, TypeOK
<1>5. ASSUME NEW c \in Calls, HandleLocalPut(c)
      PROVE  TypeOK'
  <2>1. PICK p \in Presented : Start(c, "body", p.key, p.type, p.length)
    BY <1>5 DEF HandleLocalPut
  <2>3. p.key \in Uploads /\ p.type \in PresentedTypes \cup {None} /\ p.length \in Nat
    BY BoundsAssumption, ZenonT(60) DEF Presented
  <2>4. calls' \in [Calls -> Call]
    BY <2>1, <2>3, CallUpdatesTyped
  <2>2. QED
    BY <1>5, <2>4 DEF HandleLocalPut, TypeOK
<1>6. ASSUME NEW c \in Calls, OpenForWriting(c) \/ RefuseBody(c) \/ CloseBody(c)
      PROVE  TypeOK'
  <2>1. calls' \in [Calls -> Call]
    BY <1>6, CallUpdatesTyped DEF OpenForWriting, RefuseBody, CloseBody
  <2>2. QED
    BY <1>6, <2>1 DEF OpenForWriting, RefuseBody, CloseBody, TypeOK
<1>7. ASSUME NEW c \in Calls, Fill(c)
      PROVE  TypeOK'
  <2>1. PICK to \in (calls[c].at + 1)..calls[c].length :
          /\ calls' = [calls EXCEPT ![c].at = to]
          /\ body' = [body EXCEPT ![calls[c].upload] =
               IF calls[c].linked /\ body[calls[c].upload] < to
               THEN to ELSE body[calls[c].upload]]
    BY <1>7 DEF Fill
  <2> calls[c].at \in Nat /\ calls[c].length \in Nat
    BY CallTyped DEF Call
  <2>2. to \in Nat
    OBVIOUS
  <2>3. body' \in [Uploads -> Nat \cup {Absent}] /\ calls' \in [Calls -> Call]
    BY <2>1, <2>2, CallTyped, ZenonT(60) DEF TypeOK, Call
  <2>4. QED
    BY <1>7, <2>3 DEF Fill, TypeOK
<1>8. ASSUME NEW c \in Calls, TearMetadata(c)
      PROVE  TypeOK'
  BY <1>8, CallTyped, ZenonT(60) DEF TearMetadata, TypeOK, Call, Sidecar
<1>9. ASSUME NEW c \in Calls, WriteMetadata(c)
      PROVE  TypeOK'
  <2>1. PICK written : written = [type |-> calls[c].type, length |-> calls[c].length]
    OBVIOUS
  <2>2. calls[c].type \in PresentedTypes /\ calls[c].length \in Nat
    BY <1>9, CallTyped, CallOpened DEF WriteMetadata, At, PutSteps, SoundPut, Call
  <2>3. written \in Stored
    BY <2>1, <2>2 DEF Stored
  <2>4. /\ sidecar' = [sidecar EXCEPT ![calls[c].upload] =
                         IF calls[c].linked THEN written ELSE sidecar[calls[c].upload]]
        /\ sent' = [sent EXCEPT ![calls[c].upload] = sent[calls[c].upload] \cup {written}]
    BY <1>9, <2>1 DEF WriteMetadata
  <2>5. sidecar' \in [Uploads -> Sidecar] /\ sent' \in [Uploads -> SUBSET Stored]
    BY <2>3, <2>4, CallTyped DEF TypeOK, Sidecar
  <2>6. QED
    BY <1>9, <2>5, CallUpdatesTyped DEF WriteMetadata, TypeOK
<1>10. ASSUME NEW c \in Calls, StatObject(c)
       PROVE  TypeOK'
  <2>1. calls' \in [Calls -> Call]
    <3>1. CASE body[calls[c].upload] = Absent
      BY <1>10, <3>1, CallUpdatesTyped DEF StatObject
    <3>2. CASE body[calls[c].upload] # Absent
      <4>1. body[calls[c].upload] \in Nat
        BY <3>2, CallTyped DEF TypeOK
      <4>2. [calls[c] EXCEPT !.step = "read metadata", !.length = body[calls[c].upload]]
              \in Call
        BY <4>1, CallTyped DEF Call
      <4>3. QED
        BY <1>10, <3>2, <4>2 DEF StatObject, TypeOK
    <3>3. QED
      BY <3>1, <3>2
  <2>2. QED
    BY <1>10, <2>1 DEF StatObject, TypeOK
<1>11. ASSUME NEW c \in Calls, ReadMetadata(c)
       PROVE  TypeOK'
  <2>1. calls' \in [Calls -> Call]
    BY <1>11, CallUpdatesTyped DEF ReadMetadata
  <2>2. QED
    BY <1>11, <2>1 DEF ReadMetadata, TypeOK
<1>12. ASSUME NEW c \in Calls, StreamChunk(c)
       PROVE  TypeOK'
  <2>1. PICK to \in (calls[c].at + 1)..uploads[calls[c].upload].size :
          calls' = [calls EXCEPT ![c].at = to]
    BY <1>12 DEF StreamChunk
  <2>2. Opened(calls[c].upload)
    BY <1>12, CallOpened DEF StreamChunk, At
  <2>5. uploads[calls[c].upload].size \in Nat
    BY <2>2, CallTyped, RowTyped DEF Upload
  <2>6. calls[c].at \in Nat
    BY CallTyped DEF Call
  <2>3. to \in Nat
    BY <2>5, <2>6
  <2>4. QED
    BY <1>12, <2>1, <2>3, CallTyped, ZenonT(60) DEF StreamChunk, TypeOK, Call
<1>13. ASSUME NEW c \in Calls, StreamEnds(c)
       PROVE  TypeOK'
  <2>1. calls[c].at \in Nat
    BY CallTyped DEF Call
  <2>2. QED
    BY <1>13, <2>1, CallUpdatesTyped DEF StreamEnds, TypeOK
<1>14. ASSUME NEW c \in Calls, UnlinkBody(c)
       PROVE  TypeOK'
  <2>1. calls' \in [Calls -> Call]
    <3>1. Unlinked(calls[c].upload, {"fill", "stream"}) \in [Calls -> Call]
      BY CallTyped, CallUpdatesTyped
    <3>2. [Unlinked(calls[c].upload, {"fill", "stream"}) EXCEPT ![c].step = "unlink metadata"]
            \in [Calls -> Call]
      BY <3>1 DEF Call
    <3>3. QED
      BY <1>14, <3>2, CallUpdatesTyped DEF UnlinkBody
  <2>2. QED
    BY <1>14, <2>1 DEF UnlinkBody, TypeOK
<1>15. ASSUME NEW c \in Calls, UnlinkMetadata(c)
       PROVE  TypeOK'
  <2>1. Unlinked(calls[c].upload, {"fill metadata"}) \in [Calls -> Call]
    BY CallTyped, CallUpdatesTyped
  <2>2. QED
    BY <1>15, <2>1, IdleTyped DEF UnlinkMetadata, TypeOK, Sidecar
<1>16. ASSUME NEW c \in Calls, Interrupt(c)
       PROVE  TypeOK'
  BY <1>16, CallUpdatesTyped DEF Interrupt, TypeOK
<1>17. CASE UNCHANGED vars
  BY <1>17 DEF vars, TypeOK
<1>18. QED
  BY <1>1, <1>2, <1>3, <1>4, <1>5, <1>6, <1>7, <1>8, <1>9, <1>10, <1>11, <1>12,
     <1>13, <1>14, <1>15, <1>16, <1>17 DEF Next

-----------------------------------------------------------------------------
(* Rows, URLs and calls *)

\* A row that is open stays so, with its kind, type, size, prefix, owner and expiry;
\* its URL is the one it had or is signed now.
LEMMA RowsKept ==
  ASSUME TypeOK, CallsSound, [Next]_vars, NEW u \in Uploads, Opened(u)
  PROVE  /\ Opened(u)'
         /\ uploads'[u].kind = uploads[u].kind /\ uploads'[u].type = uploads[u].type
         /\ uploads'[u].size = uploads[u].size /\ uploads'[u].owner = uploads[u].owner
         /\ uploads'[u].prefix = uploads[u].prefix
         /\ uploads'[u].expiresAt = uploads[u].expiresAt
         /\ uploads'[u].url \in {uploads[u].url, Now + Seconds(PresignedTtl)}
<1>1. CASE uploads' = uploads
  BY <1>1 DEF Opened
<1>2. ASSUME NEW c \in Calls, NEW w \in Uploads, HandleCreateUploadIntent(c, w)
      PROVE  uploads'[u] = uploads[u]
  BY <1>2 DEF HandleCreateUploadIntent, TypeOK, Opened
<1>3. ASSUME NEW c \in Calls, SignUpload(c), calls[c].upload = u
      PROVE  uploads' = [uploads EXCEPT ![u] = [uploads[u] EXCEPT !.url = Now + Seconds(PresignedTtl)]]
  BY <1>3 DEF SignUpload
<1>4. uploads[u] \in Upload
  BY RowTyped
<1>5. ASSUME NEW c \in Calls, SignUpload(c), calls[c].upload # u
      PROVE  uploads'[u] = uploads[u]
  BY <1>5 DEF SignUpload, TypeOK
<1>6. ASSUME NEW c \in Calls, SignUpload(c), calls[c].upload = u
      PROVE  /\ uploads'[u] = [uploads[u] EXCEPT !.url = Now + Seconds(PresignedTtl)]
             /\ uploads'[u] \in Upload
  BY <1>3, <1>4, <1>6, SecondsTyped DEF TypeOK, Upload
<1>7. QED
  BY <1>1, <1>2, <1>4, <1>5, <1>6, SentinelsAssumption, ZenonT(60)
  DEF Next, vars, Upload, Opened, Tick, HandleCompleteUpload, HandleDelete, HandleLocalPut,
      OpenForWriting, RefuseBody, Fill, CloseBody, TearMetadata, WriteMetadata, StatObject,
      ReadMetadata, StreamChunk, StreamEnds, UnlinkBody, UnlinkMetadata, Interrupt

\* A row that is opened comes from a request that passed every check.
LEMMA RowOpened ==
  ASSUME TypeOK, CallsSound, [Next]_vars, NEW u \in Uploads,
         uploads[u] = None, uploads'[u] # None
  PROVE  /\ clock' = clock
         /\ \E actor \in Actors, request \in Requests :
              /\ Entitled(actor, "createUploadIntent")
              /\ ValidIntentInput(request)
              /\ uploads'[u].kind = request.kind /\ uploads'[u].owner = actor
              /\ uploads'[u].type = NormalizeMimeType(request.mime)
              /\ uploads'[u].size = request.size
              /\ uploads'[u].prefix = NormalizePathPrefix(request.prefix)
         /\ uploads'[u].expiresAt = clock + SessionTtl /\ uploads'[u].url = NoUrl
<1>1. ASSUME NEW c \in Calls, SignUpload(c) PROVE FALSE
  BY <1>1, CallTyped, CallOpened DEF SignUpload, TypeOK, At, Opened, Upload
<1>2. ASSUME NEW c \in Calls, NEW w \in Uploads, HandleCreateUploadIntent(c, w)
      PROVE  w = u
  BY <1>2 DEF HandleCreateUploadIntent, TypeOK, Opened
<1>3. uploads' # uploads
  BY DEF Opened
<1>4. PICK c \in Calls : HandleCreateUploadIntent(c, u)
  BY <1>1, <1>2, <1>3
  DEF Next, vars, Tick, HandleCompleteUpload, HandleDelete, HandleLocalPut,
      OpenForWriting, RefuseBody, Fill, CloseBody, TearMetadata, WriteMetadata,
      StatObject, ReadMetadata, StreamChunk, StreamEnds, UnlinkBody,
      UnlinkMetadata, Interrupt
<1>5. PICK actor \in Actors, request \in Requests :
        /\ Entitled(actor, "createUploadIntent")
        /\ ValidIntentInput(request)
        /\ uploads' = [uploads EXCEPT ![u] =
             [kind |-> request.kind, type |-> NormalizeMimeType(request.mime),
              size |-> request.size, prefix |-> NormalizePathPrefix(request.prefix),
              owner |-> actor, expiresAt |-> clock + SessionTtl, url |-> NoUrl]]
  BY <1>4 DEF HandleCreateUploadIntent
<1>6. clock' = clock
  BY <1>4 DEF HandleCreateUploadIntent
<1>7. QED
  BY <1>5, <1>6 DEF TypeOK

LEMMA ClockMoves ==
  ASSUME TypeOK, [Next]_vars
  PROVE  clock' >= clock
<1>1. CASE Tick
  BY <1>1, BoundsAssumption DEF Tick, TypeOK
<1>2. CASE ~Tick
  <2>1. clock' = clock
    BY <1>2, ZenonT(60)
    DEF Next, vars, HandleCreateUploadIntent, SignUpload,
        HandleCompleteUpload, HandleDelete, HandleLocalPut, OpenForWriting, RefuseBody,
        Fill, CloseBody, TearMetadata, WriteMetadata, StatObject, ReadMetadata,
        StreamChunk, StreamEnds, UnlinkBody, UnlinkMetadata, Interrupt
  <2>2. QED
    BY <2>1 DEF TypeOK
<1>3. QED
  BY <1>1, <1>2

LEMMA RowsStaySound ==
  ASSUME TypeOK, CallsSound, RowsSound, [Next]_vars
  PROVE  RowsSound'
<1> SUFFICES ASSUME NEW u \in Uploads, Opened(u)'
             PROVE  /\ Entitled(uploads'[u].owner, "createUploadIntent")
                    /\ uploads'[u].type \in TypesOf(uploads'[u].kind)
                    /\ WithinMaxSize(uploads'[u].kind, uploads'[u].size)
                    /\ AllowedPathPrefix(uploads'[u].prefix)
  BY DEF RowsSound, AllowedPathPrefix
<1>1. CASE Opened(u)
  BY <1>1, RowsKept DEF RowsSound
<1>2. CASE ~Opened(u)
  <2>1. PICK actor \in Actors, request \in Requests :
          /\ Entitled(actor, "createUploadIntent")
          /\ ValidIntentInput(request)
          /\ uploads'[u].kind = request.kind /\ uploads'[u].owner = actor
          /\ uploads'[u].type = NormalizeMimeType(request.mime)
          /\ uploads'[u].size = request.size
          /\ uploads'[u].prefix = NormalizePathPrefix(request.prefix)
    <3>1. uploads[u] = None /\ uploads'[u] # None
      BY <1>2 DEF Opened
    <3>2. QED
      BY <3>1, RowOpened
  <2>2. QED
    BY <2>1 DEF ValidIntentInput
<1>3. QED
  BY <1>1, <1>2

LEMMA UrlsStaySound ==
  ASSUME TypeOK, CallsSound, UrlsSound, [Next]_vars, TypeOK'
  PROVE  UrlsSound'
<1> SUFFICES ASSUME NEW u \in Uploads, Opened(u)'
             PROVE  /\ uploads'[u].expiresAt <= clock' + SessionTtl
                    /\ uploads'[u].url # NoUrl =>
                         uploads'[u].expiresAt < 1000 * (uploads'[u].url + 1)
  BY DEF UrlsSound
<1>1. CASE ~Opened(u)
  <2>1. uploads[u] = None /\ uploads'[u] # None
    BY <1>1 DEF Opened
  <2>2. /\ clock' = clock
        /\ uploads'[u].expiresAt = clock + SessionTtl
        /\ uploads'[u].url = NoUrl
    BY <2>1, RowOpened
  <2>3. QED
    BY <2>2, PoliciesAssumption DEF TypeOK
<1>2. CASE Opened(u)
  <2>1. /\ uploads'[u].expiresAt = uploads[u].expiresAt
        /\ uploads'[u].url \in {uploads[u].url, Now + Seconds(PresignedTtl)}
    BY <1>2, RowsKept
  <2>2. clock' >= clock /\ clock \in Nat /\ clock' \in Nat
    BY ClockMoves DEF TypeOK
  <2>3. uploads[u].expiresAt \in Nat /\ uploads[u].expiresAt <= clock + SessionTtl
    BY <1>2, RowTyped DEF UrlsSound, Upload
  <2>4. uploads[u].expiresAt <= clock + PresignedTtl
    BY <2>2, <2>3, PoliciesAssumption, UrlOutlivesAssumption
  <2>5. uploads[u].expiresAt < 1000 * (Now + Seconds(PresignedTtl) + 1)
    BY <2>2, <2>3, <2>4, SecondsTyped, PoliciesAssumption
  <2>6. uploads[u].url # NoUrl => uploads[u].expiresAt < 1000 * (uploads[u].url + 1)
    BY <1>2 DEF UrlsSound
  <2>7. uploads'[u].expiresAt <= clock' + SessionTtl
    BY <2>1, <2>2, <2>3, PoliciesAssumption
  <2>8. QED
    BY <2>1, <2>5, <2>6, <2>7
<1>3. QED
  BY <1>1, <1>2

\* Whoever may sign for an upload goes on to, and was opened.
LEMMA SignersKept ==
  ASSUME TypeOK, CallsSound, [Next]_vars, NEW u \in Uploads, Opened(u)
  PROVE  /\ SignersOf[u] \subseteq SignersOf'[u] /\ u \in SignersOf[u]
         /\ \A w \in SignersOf[u] :
              /\ w \in Uploads /\ Opened(w)
              /\ uploads'[w].size = uploads[w].size /\ uploads'[w].type = uploads[w].type
<1>1. SignersOf[u] = {u} \cup {w \in Uploads : Opened(w) /\ Shadows(w, u)}
  BY DEF SignersOf, Signers
<1>2. SignersOf'[u] = {u} \cup {w \in Uploads : Opened(w)' /\ Shadows(w, u)'}
  BY DEF SignersOf, Signers
<1>3. ASSUME NEW w \in Uploads, Opened(w), Shadows(w, u)
      PROVE  Opened(w)' /\ Shadows(w, u)'
  <2>1. /\ uploads'[w].prefix = uploads[w].prefix /\ uploads'[w].type = uploads[w].type
        /\ uploads'[u].prefix = uploads[u].prefix /\ uploads'[u].type = uploads[u].type
        /\ Opened(w)'
    BY <1>3, RowsKept
  <2>2. QED
    BY <1>3, <2>1 DEF Shadows, DatedKey, PrefixedKey
<1>4. \A w \in SignersOf[u] : w \in Uploads /\ Opened(w)
  BY <1>1
<1>5. QED
  BY <1>1, <1>2, <1>3, <1>4, RowsKept

\* What was sent stays in the history.
LEMMA SentKept ==
  ASSUME TypeOK, [Next]_vars, NEW u \in Uploads
  PROVE  sent[u] \subseteq sent'[u]
<1>1. ASSUME NEW c \in Calls, WriteMetadata(c)
      PROVE  sent[u] \subseteq sent'[u]
  BY <1>1 DEF WriteMetadata, TypeOK
<1>2. CASE \A c \in Calls : ~WriteMetadata(c)
  BY <1>2, ZenonT(60)
  DEF Next, vars, Tick, HandleCreateUploadIntent, SignUpload, HandleCompleteUpload,
      HandleDelete, HandleLocalPut, OpenForWriting, RefuseBody, Fill, CloseBody, TearMetadata,
      StatObject, ReadMetadata, StreamChunk, StreamEnds, UnlinkBody, UnlinkMetadata, Interrupt
<1>3. QED
  BY <1>1, <1>2

\* A sound call stays so while it does not move itself.
LEMMA SoundCallKept ==
  ASSUME TypeOK, CallsSound, [Next]_vars, NEW call \in Call,
         SoundCall(call, uploads, SignersOf, sent)
  PROVE  SoundCall(call, uploads', SignersOf', sent')
<1>1. call.upload \in Uploads
  BY DEF Call
<1>2. CASE call.step = "idle"
  BY <1>2 DEF SoundCall
<1>3. CASE call.step # "idle"
  <2>1. Opened(call.upload)
    BY <1>3 DEF SoundCall, Opened
  <2>2. /\ Opened(call.upload)' /\ sent[call.upload] \subseteq sent'[call.upload]
        /\ uploads'[call.upload].type = uploads[call.upload].type
        /\ uploads'[call.upload].size = uploads[call.upload].size
    BY <1>1, <2>1, RowsKept, SentKept
  <2>3. call.step \in PutSteps => SoundPut(call, uploads', SignersOf')
    BY <1>1, <1>3, <2>1, <2>2, SignersKept DEF SoundCall, SoundPut
  <2>4. call.step = "stream" => Announced(uploads'[call.upload]) \in sent'[call.upload]
    BY <1>3, <2>2 DEF SoundCall, Announced
  <2>5. QED
    BY <2>2, <2>3, <2>4 DEF SoundCall, Opened
<1>4. QED
  BY <1>2, <1>3

\* Calls only move on within what their rows allow.
LEMMA CallsStaySound ==
  ASSUME TypeOK, CallsSound, StorageSound, [Next]_vars, TypeOK'
  PROVE  CallsSound'
<1> SUFFICES ASSUME NEW d \in Calls PROVE SoundCall(calls'[d], uploads', SignersOf', sent')
  BY DEF CallsSound
<1>1. calls'[d] \in Call /\ calls[d] \in Call
  BY DEF TypeOK
<1>2. SoundCall(calls[d], uploads, SignersOf, sent) /\ SoundCall(Idle, uploads, SignersOf, sent)
  BY DEF CallsSound, SoundCall, Idle
<1>3. SoundCall(calls'[d], uploads, SignersOf, sent) => SoundCall(calls'[d], uploads', SignersOf', sent')
  BY <1>1, SoundCallKept
<1>4. calls'[d] = calls[d] \/ calls'[d] = Idle => SoundCall(calls'[d], uploads', SignersOf', sent')
  BY <1>2, <1>3
<1>5. ASSUME NEW c \in Calls, NEW u \in Uploads, HandleCreateUploadIntent(c, u)
      PROVE  SoundCall(calls'[d], uploads', SignersOf', sent')
  <2>1. CASE d = c
    <3>1. calls'[d].step = "sign" /\ calls'[d].upload = u
      BY <1>5, <2>1 DEF HandleCreateUploadIntent, Start, TypeOK, Idle
    <3>2. uploads'[u] # None
      BY <1>5, NewRowTyped, SentinelsAssumption DEF HandleCreateUploadIntent, TypeOK
    <3>3. QED
      BY <3>1, <3>2 DEF SoundCall, PutSteps
  <2>2. CASE d # c
    BY <1>4, <1>5, <2>2 DEF HandleCreateUploadIntent, Start, TypeOK
  <2>3. QED
    BY <2>1, <2>2
<1>6. ASSUME NEW c \in Calls, NEW u \in Uploads,
             HandleCompleteUpload(c, u) \/ HandleDelete(c, u)
      PROVE  SoundCall(calls'[d], uploads', SignersOf', sent')
  <2>1. CASE d = c
    <3>1. /\ calls'[d].step \in {"stat", "unlink"} /\ calls'[d].upload = u
          /\ Opened(u)
      BY <1>6, <2>1 DEF HandleCompleteUpload, HandleDelete, Start, TypeOK, Idle
    <3>2. QED
      BY <1>3, <3>1 DEF SoundCall, PutSteps, Opened
  <2>2. CASE d # c
    BY <1>4, <1>6, <2>2 DEF HandleCompleteUpload, HandleDelete, Start, TypeOK
  <2>3. QED
    BY <2>1, <2>2
<1>7. ASSUME NEW c \in Calls, HandleLocalPut(c)
      PROVE  SoundCall(calls'[d], uploads', SignersOf', sent')
  <2>1. CASE d = c
    <3>1. PICK p \in Presented : SignatureValid(p) /\ Start(c, "body", p.key, p.type, p.length)
      BY <1>7 DEF HandleLocalPut
    <3>2. /\ calls'[d].step = "body" /\ calls'[d].upload = p.key
          /\ calls'[d].type = p.type /\ calls'[d].length = p.length /\ calls'[d].at = 0
      BY <2>1, <3>1 DEF Start, TypeOK, Idle
    <3>3. p.key \in Uploads /\ p.type \in PresentedTypes /\ p.length \in Nat
      BY BoundsAssumption, ZenonT(60) DEF Presented
    <3>4. PICK w \in Uploads :
            /\ Opened(w) /\ uploads[w].size = p.length
            /\ IF w = p.key THEN uploads[w].type = p.type
                            ELSE p.type \notin Types /\ Shadows(w, p.key)
      BY <3>1 DEF SignatureValid
    <3>5. Opened(p.key) /\ w \in SignersOf[p.key]
      BY <3>1, <3>3, <3>4 DEF SignatureValid, SignersOf, Signers
    <3>6. uploads[p.key].type \in Types
      BY <3>3, <3>5, RowTyped DEF Upload
    <3>7. SoundPut(calls'[d], uploads, SignersOf)
      BY <3>2, <3>3, <3>4, <3>5, <3>6 DEF SoundPut
    <3>8. QED
      BY <1>3, <3>2, <3>5, <3>7 DEF SoundCall, Opened
  <2>2. CASE d # c
    BY <1>4, <1>7, <2>2 DEF HandleLocalPut, Start, TypeOK
  <2>3. QED
    BY <2>1, <2>2
<1>8. ASSUME NEW c \in Calls,
             SignUpload(c) \/ RefuseBody(c) \/ WriteMetadata(c) \/ StreamEnds(c) \/ Interrupt(c)
      PROVE  SoundCall(calls'[d], uploads', SignersOf', sent')
  BY <1>4, <1>8
  DEF SignUpload, RefuseBody, WriteMetadata, StreamEnds, Interrupt, Finish, TypeOK
<1>9. ASSUME NEW c \in Calls, OpenForWriting(c) \/ CloseBody(c) \/ TearMetadata(c)
      PROVE  SoundCall(calls'[d], uploads', SignersOf', sent')
  <2>1. CASE d = c
    <3>1. /\ calls[d].step \in PutSteps /\ calls'[d].step \in PutSteps
          /\ calls'[d].upload = calls[d].upload /\ calls'[d].length = calls[d].length
          /\ calls'[d].type = calls[d].type /\ calls'[d].at = calls[d].at
      <4>1. CASE OpenForWriting(c) \/ CloseBody(c)
        <5>1. PICK s \in {"fill", "metadata"} : calls'[c] = [calls[c] EXCEPT !.step = s]
          BY <4>1 DEF OpenForWriting, CloseBody, Goto, TypeOK
        <5>2. calls[c].step \in PutSteps
          BY <4>1 DEF OpenForWriting, CloseBody, At, PutSteps
        <5>3. QED
          BY <1>1, <2>1, <5>1, <5>2 DEF PutSteps, Call
      <4>2. CASE TearMetadata(c)
        <5>1. calls'[c] = [calls[c] EXCEPT !.step = "fill metadata", !.linked = TRUE]
          BY <4>2 DEF TearMetadata, TypeOK
        <5>2. calls[c].step \in PutSteps
          BY <4>2 DEF TearMetadata, At, PutSteps
        <5>3. QED
          BY <1>1, <2>1, <5>1, <5>2 DEF PutSteps, Call
      <4>3. QED
        BY <1>9, <4>1, <4>2
    <3>2. QED
      BY <1>2, <1>3, <3>1 DEF SoundCall, SoundPut, PutSteps
  <2>2. CASE d # c
    BY <1>4, <1>9, <2>2 DEF OpenForWriting, CloseBody, TearMetadata, Goto, TypeOK
  <2>3. QED
    BY <2>1, <2>2
<1>10. ASSUME NEW c \in Calls, Fill(c)
       PROVE  SoundCall(calls'[d], uploads', SignersOf', sent')
  <2>1. CASE d = c
    <3>1. PICK to \in (calls[c].at + 1)..calls[c].length : calls' = [calls EXCEPT ![c].at = to]
      BY <1>10 DEF Fill
    <3>2. to <= calls[c].length
      <4>1. calls[c].at \in Nat /\ calls[c].length \in Nat
        BY CallTyped DEF Call
      <4>2. QED
        BY <4>1
    <3>3. /\ calls[d].step = "fill" /\ calls'[d].step = "fill"
          /\ calls'[d].upload = calls[d].upload /\ calls'[d].length = calls[d].length
          /\ calls'[d].type = calls[d].type /\ calls'[d].at = to
      BY <1>1, <1>10, <2>1, <3>1 DEF Fill, At, TypeOK, Call
    <3>4. QED
      BY <1>2, <1>3, <2>1, <3>2, <3>3 DEF SoundCall, SoundPut, PutSteps
  <2>2. CASE d # c
    BY <1>4, <1>10, <2>2 DEF Fill, TypeOK
  <2>3. QED
    BY <2>1, <2>2
<1>11. ASSUME NEW c \in Calls, StatObject(c) \/ ReadMetadata(c) \/ StreamChunk(c)
       PROVE  SoundCall(calls'[d], uploads', SignersOf', sent')
  <2>1. CASE d = c /\ calls' # [calls EXCEPT ![c] = Idle]
    <3>1. /\ calls[d].step \in {"stat", "read metadata", "stream"}
          /\ calls'[d].step \in {"read metadata", "stream"}
          /\ calls'[d].upload = calls[d].upload
          /\ \/ calls'[d].step # "stream" \/ calls[d].step = "stream"
             \/ Announced(uploads[calls[d].upload]) \in sent[calls[d].upload]
      <4>1. CASE StatObject(c)
        <5>1. calls'[c] = [calls[c] EXCEPT !.step = "read metadata",
                                           !.length = body[calls[c].upload]]
          BY <2>1, <4>1 DEF StatObject, Finish, TypeOK
        <5>2. calls[c].step = "stat"
          BY <4>1 DEF StatObject, At
        <5>3. QED
          BY <1>1, <2>1, <5>1, <5>2 DEF Call
      <4>2. CASE ReadMetadata(c)
        <5>1. calls'[c] = [calls[c] EXCEPT !.step = "stream"]
          BY <2>1, <4>2 DEF ReadMetadata, Goto, Finish, TypeOK
        <5>2. calls[c].step = "read metadata"
          BY <4>2 DEF ReadMetadata, At
        <5>3. /\ sidecar[calls[c].upload] # Torn
              /\ uploads[calls[c].upload].type =
                   IF sidecar[calls[c].upload] = None THEN NoType
                   ELSE sidecar[calls[c].upload].type
          BY <2>1, <4>2 DEF ReadMetadata, ValidStoredMetadata, Finish
        <5>4. uploads[calls[c].upload].type # NoType
          <6>1. uploads[calls[c].upload] \in Upload
            BY <5>2, CallTyped, CallOpened, RowTyped
          <6>2. uploads[calls[c].upload].type \in Types
            BY <6>1 DEF Upload
          <6>3. QED
            BY <6>2, SentinelsAssumption DEF PresentedTypes
        <5>5. Announced(uploads[calls[c].upload]) \in sent[calls[c].upload]
          BY <5>3, <5>4, CallTyped DEF StorageSound
        <5>6. QED
          BY <1>1, <2>1, <5>1, <5>2, <5>5 DEF Call
      <4>3. CASE StreamChunk(c)
        <5>1. PICK to : calls'[c] = [calls[c] EXCEPT !.at = to]
          BY <4>3 DEF StreamChunk, TypeOK
        <5>2. calls[c].step = "stream"
          BY <4>3 DEF StreamChunk, At
        <5>3. QED
          BY <1>1, <2>1, <5>1, <5>2 DEF Call
      <4>4. QED
        BY <1>11, <4>1, <4>2, <4>3
    <3>2. QED
      BY <1>2, <1>3, <3>1 DEF SoundCall, PutSteps
  <2>2. CASE d # c \/ calls' = [calls EXCEPT ![c] = Idle]
    BY <1>4, <1>11, <2>2 DEF StatObject, ReadMetadata, StreamChunk, Goto, Finish, TypeOK
  <2>3. QED
    BY <2>1, <2>2
<1>12. ASSUME NEW c \in Calls, UnlinkBody(c) \/ UnlinkMetadata(c)
       PROVE  SoundCall(calls'[d], uploads', SignersOf', sent')
  <2>1. CASE calls'[d] = Idle
    BY <1>4, <2>1
  <2>2. CASE calls'[d] # Idle
    <3>1. ASSUME NEW steps
          PROVE  LET call == Unlinked(calls[c].upload, steps)[d] IN
                 /\ call.step = calls[d].step /\ call.upload = calls[d].upload
                 /\ call.length = calls[d].length /\ call.at = calls[d].at
                 /\ call.type = calls[d].type
      BY <1>1 DEF Unlinked, Call
    <3>4. ASSUME NEW steps
          PROVE  Unlinked(calls[c].upload, steps) \in [Calls -> Call]
      BY CallTyped, CallUpdatesTyped
    <3>2. /\ calls'[d].upload = calls[d].upload /\ calls'[d].length = calls[d].length
          /\ calls'[d].at = calls[d].at /\ calls'[d].type = calls[d].type
          /\ \/ calls'[d].step = calls[d].step
             \/ calls'[d].step = "unlink metadata" /\ calls[d].step = "unlink"
      <4>1. CASE UnlinkBody(c)
        <5>1. CASE Finish(c)
          BY <2>2, <5>1 DEF Finish, TypeOK
        <5>2. CASE ~Finish(c)
          <6>1. calls' = [Unlinked(calls[c].upload, {"fill", "stream"})
                            EXCEPT ![c].step = "unlink metadata"]
            BY <4>1, <5>2 DEF UnlinkBody
          <6>2. calls[c].step = "unlink"
            BY <4>1 DEF UnlinkBody, At
          <6>3. CASE d = c
            <7>1. calls'[d] = [Unlinked(calls[c].upload, {"fill", "stream"})[c]
                                 EXCEPT !.step = "unlink metadata"]
              BY <3>4, <6>1, <6>3
            <7>2. Unlinked(calls[c].upload, {"fill", "stream"})[c] \in Call
              BY <3>4
            <7>3. QED
              BY <3>1, <6>2, <6>3, <7>1, <7>2, ZenonT(60) DEF Call
          <6>4. CASE d # c
            BY <3>1, <3>4, <6>1, <6>4
          <6>5. QED
            BY <6>3, <6>4
        <5>3. QED
          BY <5>1, <5>2
      <4>2. CASE UnlinkMetadata(c)
        <5>1. calls' = [Unlinked(calls[c].upload, {"fill metadata"}) EXCEPT ![c] = Idle]
          BY <4>2 DEF UnlinkMetadata
        <5>2. QED
          BY <2>2, <3>1, <3>4, <5>1
      <4>3. QED
        BY <1>12, <4>1, <4>2
    <3>3. QED
      BY <1>2, <1>3, <3>2 DEF SoundCall, SoundPut, PutSteps
  <2>3. QED
    BY <2>1, <2>2
<1>13. CASE Tick \/ UNCHANGED vars
  BY <1>4, <1>13 DEF Tick, vars
<1>14. QED
  BY <1>5, <1>6, <1>7, <1>8, <1>9, <1>10, <1>11, <1>12, <1>13 DEF Next

-----------------------------------------------------------------------------
(* Files *)

\* The files of one upload after a step that leaves its row open.
LEMMA StorageStaysSound ==
  ASSUME TypeOK, CallsSound, StorageSound, [Next]_vars
  PROVE  StorageSound'
<1> DEFINE Kept(u, b, s, done) ==
      /\ Opened(u) /\ \E w \in SignersOf[u] : b <= uploads[w].size
      /\ SignersOf[u] = {u} => s \in {None, Torn, Announced(uploads[u])}
      /\ s \notin {None, Torn} /\ s.type = uploads[u].type => Announced(uploads[u]) \in done
<1>0. ASSUME NEW u \in Uploads, Kept(u, body'[u], sidecar'[u], sent'[u])
      PROVE  /\ Opened(u)'
             /\ \E w \in SignersOf'[u] : body'[u] <= uploads'[w].size
             /\ SignersOf'[u] = {u} => sidecar'[u] \in {None, Torn, Announced(uploads'[u])}
             /\ sidecar'[u] \notin {None, Torn} /\ sidecar'[u].type = uploads'[u].type
                  => Announced(uploads'[u]) \in sent'[u]
  <2>1. /\ Opened(u)' /\ uploads'[u].type = uploads[u].type
        /\ uploads'[u].size = uploads[u].size
    BY <1>0, RowsKept
  <2>2. /\ SignersOf[u] \subseteq SignersOf'[u] /\ u \in SignersOf[u]
        /\ \A w \in SignersOf[u] : uploads'[w].size = uploads[w].size
    BY <1>0, SignersKept
  <2>3. Announced(uploads'[u]) = Announced(uploads[u])
    BY <2>1 DEF Announced
  <2>4. QED
    BY <1>0, <2>1, <2>2, <2>3
<1> SUFFICES ASSUME NEW u \in Uploads, body'[u] # Absent \/ sidecar'[u] # None
             PROVE  Kept(u, body'[u], sidecar'[u], sent'[u])
  BY <1>0 DEF StorageSound
<1>1. body[u] # Absent \/ sidecar[u] # None => Kept(u, body[u], sidecar[u], sent[u])
  BY DEF StorageSound
<1>2. Opened(u) => /\ u \in SignersOf[u] /\ uploads[u].size \in Nat
                   /\ Kept(u, body[u], sidecar[u], sent[u])
  <2> SUFFICES ASSUME Opened(u), body[u] = Absent, sidecar[u] = None
               PROVE  Kept(u, body[u], sidecar[u], sent[u])
    BY <1>1, RowTyped, SignersKept DEF Upload
  <2>1. u \in SignersOf[u] /\ uploads[u].size \in Nat
    BY RowTyped, SignersKept DEF Upload
  <2>2. Absent <= uploads[u].size
    BY <2>1 DEF Absent
  <2>3. QED
    BY <2>1, <2>2
<1>3. Kept(u, body[u], sidecar[u], sent[u]) => Kept(u, body[u], sidecar[u], sent'[u])
  BY SentKept
<1>4. CASE body' = body /\ sidecar' = sidecar
  BY <1>1, <1>3, <1>4
<1>5. ASSUME NEW c \in Calls, OpenForWriting(c)
      PROVE  Kept(u, body'[u], sidecar'[u], sent'[u])
  <2>1. Opened(calls[c].upload)
    BY <1>5, CallOpened DEF OpenForWriting, At
  <2>2. sidecar' = sidecar /\ body' = [body EXCEPT ![calls[c].upload] = 0]
    BY <1>5 DEF OpenForWriting
  <2>3. CASE u = calls[c].upload
    <3>1. body'[u] = 0 /\ 0 <= uploads[u].size
      BY <1>2, <2>1, <2>2, <2>3 DEF TypeOK
    <3>2. QED
      BY <1>2, <1>3, <2>1, <2>2, <2>3, <3>1
  <2>4. CASE u # calls[c].upload
    BY <1>1, <1>3, <2>2, <2>4 DEF TypeOK
  <2>5. QED
    BY <2>3, <2>4
<1>6. ASSUME NEW c \in Calls, Fill(c)
      PROVE  Kept(u, body'[u], sidecar'[u], sent'[u])
  <2>1. Opened(calls[c].upload) /\ SoundPut(calls[c], uploads, SignersOf)
    BY <1>6, CallOpened DEF Fill, At, PutSteps
  <2>2. calls[c].at \in Nat /\ calls[c].length \in Nat
    BY CallTyped DEF Call
  <2>3. PICK to \in (calls[c].at + 1)..calls[c].length :
          body' = [body EXCEPT ![calls[c].upload] =
                     IF calls[c].linked /\ body[calls[c].upload] < to
                     THEN to ELSE body[calls[c].upload]]
    BY <1>6 DEF Fill
  <2>4. sidecar' = sidecar
    BY <1>6 DEF Fill
  <2>5. CASE u = calls[c].upload
    <3>1. PICK w \in SignersOf[u] : calls[c].length = uploads[w].size
      BY <2>1, <2>5 DEF SoundPut
    <3>2. to <= uploads[w].size
      BY <2>2, <3>1
    <3>3. body'[u] \in {to, body[u]}
      BY <2>3, <2>5 DEF TypeOK
    <3>4. Kept(u, body[u], sidecar[u], sent'[u])
      BY <1>2, <1>3, <2>1, <2>5
    <3>5. QED
      BY <2>4, <3>2, <3>3, <3>4
  <2>6. CASE u # calls[c].upload
    BY <1>1, <1>3, <2>3, <2>4, <2>6 DEF TypeOK
  <2>7. QED
    BY <2>5, <2>6
<1>7. ASSUME NEW c \in Calls, TearMetadata(c)
      PROVE  Kept(u, body'[u], sidecar'[u], sent'[u])
  <2>1. Opened(calls[c].upload)
    BY <1>7, CallOpened DEF TearMetadata, At
  <2>2. body' = body /\ (sidecar'[u] = sidecar[u] \/ (u = calls[c].upload /\ sidecar'[u] = Torn))
    BY <1>7 DEF TearMetadata, TypeOK
  <2>3. QED
    BY <1>1, <1>2, <1>3, <2>1, <2>2
<1>8. ASSUME NEW c \in Calls, WriteMetadata(c)
      PROVE  Kept(u, body'[u], sidecar'[u], sent'[u])
  <2>1. Opened(calls[c].upload) /\ SoundPut(calls[c], uploads, SignersOf)
    BY <1>8, CallOpened DEF WriteMetadata, At, PutSteps
  <2>2. PICK written : written = [type |-> calls[c].type, length |-> calls[c].length]
    OBVIOUS
  <2>3. /\ body' = body
        /\ sidecar' = [sidecar EXCEPT ![calls[c].upload] =
                         IF calls[c].linked THEN written ELSE sidecar[calls[c].upload]]
        /\ sent' = [sent EXCEPT ![calls[c].upload] = sent[calls[c].upload] \cup {written}]
    BY <1>8, <2>2 DEF WriteMetadata
  <2>4. CASE sidecar'[u] = sidecar[u] /\ u # calls[c].upload
    BY <1>1, <1>3, <2>3, <2>4
  <2>5. CASE u = calls[c].upload
    <3>1. sidecar'[u] \in {sidecar[u], written} /\ written \in sent'[u]
      BY <2>3, <2>5 DEF TypeOK
    <3>2. written.type = uploads[u].type => written = Announced(uploads[u])
      BY <2>1, <2>2, <2>5 DEF SoundPut, Announced
    <3>3. SignersOf[u] = {u} => written.type = uploads[u].type
      BY <2>1, <2>2, <2>5 DEF SoundPut
    <3>4. Kept(u, body[u], sidecar[u], sent'[u])
      BY <1>2, <1>3, <2>1, <2>5
    <3>5. QED
      BY <2>3, <3>1, <3>2, <3>3, <3>4
  <2>6. QED
    BY <2>3, <2>4, <2>5 DEF TypeOK
<1>9. ASSUME NEW c \in Calls, UnlinkBody(c) \/ UnlinkMetadata(c)
      PROVE  Kept(u, body'[u], sidecar'[u], sent'[u])
  <2>1. body'[u] \in {body[u], Absent} /\ sidecar'[u] \in {sidecar[u], None}
    BY <1>9 DEF UnlinkBody, UnlinkMetadata, TypeOK
  <2>2. Opened(u)
    BY <1>1, <2>1
  <2>3. u \in SignersOf[u] /\ Absent <= uploads[u].size /\ Kept(u, body[u], sidecar[u], sent'[u])
    BY <1>2, <1>3, <2>2 DEF Absent
  <2>4. QED
    BY <2>1, <2>3
<1>10. QED
  BY <1>4, <1>5, <1>6, <1>7, <1>8, <1>9, ZenonT(60)
  DEF Next, vars, Tick, HandleCreateUploadIntent, SignUpload, HandleCompleteUpload,
      HandleDelete, HandleLocalPut, RefuseBody, CloseBody, StatObject, ReadMetadata,
      StreamChunk, StreamEnds, Interrupt

LEMMA HashedStaysSound ==
  ASSUME TypeOK, CallsSound, HashedSound, [Next]_vars
  PROVE  HashedSound'
<1> SUFFICES ASSUME NEW u \in Uploads, hashed'[u] # Absent
             PROVE  /\ Opened(u)' /\ hashed'[u] = uploads'[u].size
                    /\ Announced(uploads'[u]) \in sent'[u]
  BY DEF HashedSound
<1>1. /\ Opened(u) /\ hashed'[u] = uploads[u].size
      /\ Announced(uploads[u]) \in sent[u]
  <2>1. CASE hashed'[u] = hashed[u]
    BY <2>1 DEF HashedSound
  <2>2. CASE hashed'[u] # hashed[u]
    <3>1. PICK c \in Calls : StreamEnds(c)
      BY <2>2
      DEF Next, vars, Tick, HandleCreateUploadIntent, SignUpload, HandleCompleteUpload,
          HandleDelete, HandleLocalPut, OpenForWriting, RefuseBody, Fill, CloseBody,
          TearMetadata, WriteMetadata, StatObject, ReadMetadata, StreamChunk, UnlinkBody,
          UnlinkMetadata, Interrupt
    <3>2. /\ u = calls[c].upload /\ StreamedWhole(c)
          /\ hashed'[u] = calls[c].at
      BY <2>2, <3>1 DEF StreamEnds, TypeOK
    <3>3. Opened(u) /\ Announced(uploads[u]) \in sent[u]
      BY <3>1, <3>2, CallOpened DEF StreamEnds, At
    <3>4. QED
      BY <3>2, <3>3 DEF StreamedWhole
  <2>3. QED
    BY <2>1, <2>2
<1>2. /\ Opened(u)' /\ uploads'[u].size = uploads[u].size /\ uploads'[u].type = uploads[u].type
      /\ sent[u] \subseteq sent'[u]
  BY <1>1, RowsKept, SentKept
<1>3. QED
  BY <1>1, <1>2 DEF Announced

-----------------------------------------------------------------------------
(* The theorems *)

LEMMA InitSound == Init => Sound
<1> SUFFICES ASSUME Init PROVE Sound
  OBVIOUS
<1>1. TypeOK
  BY InitTyped
<1>2. \A u \in Uploads : ~Opened(u) /\ body[u] = Absent /\ sidecar[u] = None /\ hashed[u] = Absent
  BY DEF Init, Opened
<1>3. CallsSound
  BY DEF Init, CallsSound, SoundCall, Idle
<1>4. QED
  BY <1>1, <1>2, <1>3 DEF Sound, RowsSound, UrlsSound, StorageSound, HashedSound

LEMMA NextSound == Sound /\ [Next]_vars => Sound'
<1> SUFFICES ASSUME Sound, [Next]_vars PROVE Sound'
  OBVIOUS
<1>1. TypeOK /\ CallsSound /\ RowsSound /\ UrlsSound /\ StorageSound /\ HashedSound
  BY DEF Sound
<1>2. TypeOK'
  BY <1>1, NextTyped
<1>3. CallsSound'
  BY <1>1, <1>2, CallsStaySound
<1>4. RowsSound'
  BY <1>1, RowsStaySound
<1>5. UrlsSound'
  BY <1>1, <1>2, UrlsStaySound
<1>6. StorageSound'
  BY <1>1, StorageStaysSound
<1>7. HashedSound'
  BY <1>1, HashedStaysSound
<1>8. QED
  BY <1>2, <1>3, <1>4, <1>5, <1>6, <1>7 DEF Sound

LEMMA AlwaysSound == Spec => []Sound
BY InitSound, NextSound, PTL DEF Spec

\* Every reachable state of the direct upload path is well typed.
THEOREM DirectUploadsTyped == Spec => []TypeOK
<1>1. Sound => TypeOK
  BY DEF Sound
<1>2. QED
  BY <1>1, AlwaysSound, PTL

\* Whatever the lifetimes in milliseconds are, as long as that of the URL is not
\* shorter: verifyLocalUploadSignature accepts a URL for as long as its session
\* accepts a completion.
THEOREM UrlsOutliveSessions == Spec => []OpenSessionsUploadable
<1>1. Sound => OpenSessionsUploadable
  <2> SUFFICES ASSUME Sound, NEW u \in Uploads, Opened(u),
                      uploads[u].url # NoUrl, clock < uploads[u].expiresAt
               PROVE  Now <= uploads[u].url
    BY DEF OpenSessionsUploadable
  <2>1. uploads[u].expiresAt < 1000 * (uploads[u].url + 1)
    BY DEF Sound, UrlsSound
  <2>2. clock \in Nat /\ uploads[u].expiresAt \in Nat /\ uploads[u].url \in Int
    BY RowTyped DEF Sound, TypeOK, Upload
  <2>3. clock < 1000 * (uploads[u].url + 1)
    BY <2>1, <2>2
  <2>4. QED
    BY <2>2, <2>3, SMTT(30) DEF Now
<1>2. QED
  BY <1>1, AlwaysSound, PTL

\* No interleaving of PUTs, deletions and interruptions stores anything that was
\* not asked for by an entitled actor, within the policies, and signed.
THEOREM StorageKeepsToPolicy == Spec => []StoredWithinPolicy
<1>1. Sound => StoredWithinPolicy
  <2> SUFFICES ASSUME Sound, NEW u \in Uploads, body[u] # Absent \/ sidecar[u] # None
               PROVE  /\ Opened(u)
                      /\ \E w \in Signers(u) :
                           /\ Entitled(uploads[w].owner, "createUploadIntent")
                           /\ uploads[w].type \in TypesOf(uploads[w].kind)
                           /\ WithinMaxSize(uploads[w].kind, uploads[w].size)
                           /\ body[u] <= uploads[w].size
                      /\ Signers(u) = {u} => sidecar[u] \in
                           {None, Torn, [type |-> uploads[u].type, length |-> uploads[u].size]}
    BY DEF StoredWithinPolicy
  <2>1. SignersOf[u] = Signers(u)
    BY DEF SignersOf
  <2>2. /\ Opened(u)
        /\ \E w \in Signers(u) : body[u] <= uploads[w].size
        /\ Signers(u) = {u} => sidecar[u] \in {None, Torn, Announced(uploads[u])}
    BY <2>1 DEF Sound, StorageSound
  <2>3. \A w \in Signers(u) : w \in Uploads /\ Opened(w)
    BY <2>2 DEF Signers
  <2>4. QED
    BY <2>2, <2>3 DEF Sound, RowsSound, Announced
<1>2. QED
  BY <1>1, AlwaysSound, PTL

\* No completion accepts what is left of several PUTs and deletions unless a PUT of
\* that type and length ran to its end.
THEOREM CompletionsFollowPuts == Spec => []AcceptedWasSent
<1>1. Sound => AcceptedWasSent
  BY DEF Sound, AcceptedWasSent, HashedSound, Announced
<1>2. QED
  BY <1>1, AlwaysSound, PTL

-----------------------------------------------------------------------------
(* Object keys *)

LEMMA LeastIndex ==
  ASSUME NEW T \in SUBSET Nat, T # {}
  PROVE  \E n \in T : \A m \in T : n <= m
<1> DEFINE R == OpToRel(<, Nat)
<1>1. IsWellFoundedOn(R, Nat)
  BY NatLessThanWellFounded
<1>2. PICK n \in T : \A m \in T : <<m, n>> \notin R
  BY <1>1, WFMin
<1>3. \A m \in T : m < n => <<m, n>> \in R
  BY DEF OpToRel
<1>4. \A m \in T : ~(m < n)
  BY <1>2, <1>3
<1>5. QED
  BY <1>4

\* A valid key, or prefix, of segments of S.
Path(S, key) == key \in Seq(S) /\ ValidObjectKey(key)

\* What is left of a prefix is one, and nothing is taken from a valid one.
LEMMA CleanPrefixTyped ==
  ASSUME NEW S, NEW prefix \in Seq(S)
  PROVE  CleanPrefix(prefix) \in Seq(S)
<1> DEFINE kept == {i \in DOMAIN prefix : prefix[i] # Empty}
<1>1. CASE kept = {}
  BY <1>1 DEF CleanPrefix, NoPrefix
<1>2. CASE kept # {}
  <2>1. DOMAIN prefix = 1..Len(prefix) /\ Len(prefix) \in Nat /\ kept \subseteq 1..Len(prefix)
    OBVIOUS
  <2>2. \E i \in kept : \A j \in kept : i <= j
    <3>1. kept \in SUBSET Nat
      BY <2>1
    <3> HIDE DEF kept
    <3>2. QED
      BY <1>2, <3>1, LeastIndex
  <2>3. \E i \in kept : \A j \in kept : j <= i
    <3> DEFINE mirrored == {m \in Nat : Len(prefix) - m \in kept}
    <3>1. mirrored # {}
      <4>1. PICK i \in kept : TRUE
        BY <1>2
      <4>2. Len(prefix) - i \in Nat /\ Len(prefix) - (Len(prefix) - i) = i
        BY <2>1
      <4>3. QED
        BY <4>2
    <3>2. PICK m \in mirrored : \A n \in mirrored : m <= n
      BY <3>1, LeastIndex
    <3>3. ASSUME NEW j \in kept PROVE j <= Len(prefix) - m
      <4>1. Len(prefix) - j \in Nat /\ Len(prefix) - (Len(prefix) - j) = j
        BY <2>1
      <4>2. m <= Len(prefix) - j
        BY <3>2, <4>1
      <4>3. QED
        BY <2>1, <4>2
    <3>4. QED
      BY <3>3
  <2> DEFINE first == CHOOSE i \in kept : \A j \in kept : i <= j
             last == CHOOSE i \in kept : \A j \in kept : j <= i
  <2>4. first \in 1..Len(prefix) /\ last \in 1..Len(prefix)
    BY <2>1, <2>2, <2>3
  <2>5. CleanPrefix(prefix) = SubSeq(prefix, first, last)
    BY <1>2 DEF CleanPrefix
  <2> HIDE DEF first, last
  <2>6. QED
    BY <2>4, <2>5
<1>3. QED
  BY <1>1, <1>2

LEMMA CleanPrefixKeeps ==
  ASSUME NEW S, NEW prefix, Path(S, prefix)
  PROVE  CleanPrefix(prefix) = prefix /\ prefix # NoPrefix
<1> DEFINE kept == {i \in DOMAIN prefix : prefix[i] # Empty}
<1>1. prefix \in Seq(S) /\ prefix # <<>> /\ \A i \in DOMAIN prefix : prefix[i] # Empty
  BY DEF Path, ValidObjectKey, Reserved
<1>2. kept = 1..Len(prefix) /\ Len(prefix) \in Nat /\ Len(prefix) >= 1
  BY <1>1
<1>3. (CHOOSE i \in kept : \A j \in kept : i <= j) = 1
  BY <1>2
<1>4. (CHOOSE i \in kept : \A j \in kept : j <= i) = Len(prefix)
  BY <1>2
<1>5. CleanPrefix(prefix) = SubSeq(prefix, 1, Len(prefix))
  <2>1. kept # {}
    BY <1>2
  <2>2. CleanPrefix(prefix) = SubSeq(prefix, CHOOSE i \in kept : \A j \in kept : i <= j,
                                     CHOOSE i \in kept : \A j \in kept : j <= i)
    BY <2>1 DEF CleanPrefix
  <2> HIDE DEF kept
  <2>3. QED
    BY <1>3, <1>4, <2>2
<1>6. QED
  BY <1>1, <1>5 DEF NoPrefix

\* The prefix of an upload, or the one of the strategy, can be put before a key.
LEMMA PrefixPath ==
  ASSUME NEW S, Segments \subseteq S, NEW prefix \in Prefixes, AllowedPathPrefix(prefix)
  PROVE  /\ prefix # NoPrefix => Path(S, prefix)
         /\ Path(S, PrefixOrBase(prefix))
<1>1. Seq(Segments) \subseteq Seq(S)
  OBVIOUS
<1>2. prefix \in Seq(Segments)
  BY RequestsAssumption, CleanPrefixTyped DEF Prefixes, NormalizePathPrefix
<1>3. prefix # NoPrefix => Path(S, prefix)
  BY <1>1, <1>2 DEF AllowedPathPrefix, Path, ValidObjectKey, NoPrefix, Reserved
<1>4. CASE prefix # NoPrefix
  BY <1>3, <1>4, CleanPrefixKeeps DEF PrefixOrBase
<1>5. CASE prefix = NoPrefix
  BY <1>1, <1>3, <1>5, BasePrefixAssumption, CleanPrefixTyped DEF PrefixOrBase, Path
<1>6. QED
  BY <1>3, <1>4, <1>5

\* A path followed by segments that may be in one.
LEMMA Joined ==
  ASSUME NEW S, NEW prefix, Path(S, prefix),
         NEW rest \in Seq(S), rest # <<>>, \A i \in 1..Len(rest) : rest[i] \notin Reserved
  PROVE  /\ Path(S, Join(prefix, rest))
         /\ Filename(Join(prefix, rest)) = rest[Len(rest)]
         /\ Len(rest) >= 2 =>
              /\ Len(Join(prefix, rest)) >= 2
              /\ Join(prefix, rest)[Len(Join(prefix, rest)) - 1] = rest[Len(rest) - 1]
<1>0. PICK key : key = Join(prefix, rest)
  OBVIOUS
<1>1. /\ prefix \in Seq(S) /\ prefix # <<>> /\ Len(prefix) \in Nat \ {0}
      /\ \A i \in 1..Len(prefix) : prefix[i] \notin Reserved
  BY DEF Path, ValidObjectKey
<1>2. key = prefix \o rest
  BY <1>0, <1>1 DEF Join, NoPrefix
<1>3. /\ key \in Seq(S) /\ Len(key) = Len(prefix) + Len(rest)
      /\ \A i \in 1..Len(prefix) : key[i] = prefix[i]
      /\ \A i \in 1..Len(rest) : key[Len(prefix) + i] = rest[i]
  BY <1>1, <1>2
<1>4. ASSUME NEW i \in 1..Len(key) PROVE key[i] \notin Reserved
  <2>1. CASE i \in 1..Len(prefix)
    BY <1>1, <1>3, <2>1
  <2>2. CASE i \notin 1..Len(prefix)
    <3>1. i - Len(prefix) \in 1..Len(rest) /\ Len(prefix) + (i - Len(prefix)) = i
      BY <1>1, <1>3, <2>2
    <3>2. key[i] = rest[i - Len(prefix)]
      BY <1>3, <3>1
    <3>3. QED
      BY <3>1, <3>2
  <2>3. QED
    BY <2>1, <2>2
<1>5. DOMAIN key = 1..Len(key) /\ key # <<>>
  BY <1>1, <1>3
<1>6. Path(S, key)
  BY <1>3, <1>4, <1>5 DEF Path, ValidObjectKey
<1>7. Filename(key) = rest[Len(rest)]
  BY <1>1, <1>3 DEF Filename
<1>8. ASSUME Len(rest) >= 2
      PROVE  Len(key) >= 2 /\ key[Len(key) - 1] = rest[Len(rest) - 1]
  <2>1. Len(rest) - 1 \in 1..Len(rest) /\ Len(prefix) + (Len(rest) - 1) = Len(key) - 1
    BY <1>1, <1>3, <1>8
  <2>2. key[Len(prefix) + (Len(rest) - 1)] = rest[Len(rest) - 1]
    BY <1>3, <2>1
  <2>3. QED
    BY <1>1, <1>3, <1>8, <2>1, <2>2
<1>9. QED
  BY <1>0, <1>6, <1>7, <1>8

\* The file of another name in the same folder.
LEMMA Renamed ==
  ASSUME NEW S, NEW key, Path(S, key), NEW name \in S, name \notin Reserved
  PROVE  /\ Path(S, Append(Folder(key), name))
         /\ Len(Append(Folder(key), name)) = Len(key)
         /\ Filename(Append(Folder(key), name)) = name
         /\ \A i \in 1..(Len(key) - 1) : Append(Folder(key), name)[i] = key[i]
<1>1. /\ key \in Seq(S) /\ Len(key) \in Nat \ {0}
      /\ \A i \in 1..Len(key) : key[i] \notin Reserved
  BY DEF Path, ValidObjectKey
<1> DEFINE folder == Folder(key)
<1>2. /\ folder \in Seq(S) /\ Len(folder) = Len(key) - 1
      /\ \A i \in 1..(Len(key) - 1) : folder[i] = key[i]
  <2>1. 1 \in Int /\ Len(key) - 1 \in Int /\ \A i \in 1..(Len(key) - 1) : key[i] \in S
    BY <1>1
  <2>2. /\ folder \in Seq(S)
        /\ Len(folder) = IF 1 <= Len(key) - 1 THEN (Len(key) - 1) - 1 + 1 ELSE 0
        /\ \A i \in 1..((Len(key) - 1) - 1 + 1) : folder[i] = key[1 + i - 1]
    BY <1>1, <2>1, SubSeqProperties DEF Folder
  <2> HIDE DEF folder
  <2>3. Len(folder) = Len(key) - 1
    <3>1. CASE Len(key) = 1
      BY <2>2, <3>1
    <3>2. CASE Len(key) # 1
      <4>0. PICK n \in Nat \ {0} : n = Len(key)
        BY <1>1
      <4>1. 1 <= Len(key) - 1 /\ (Len(key) - 1) - 1 + 1 = Len(key) - 1
        BY <3>2, <4>0
      <4>2. QED
        BY <2>2, <4>1
    <3>3. QED
      BY <3>1, <3>2
  <2>4. ASSUME NEW i \in 1..(Len(key) - 1) PROVE folder[i] = key[i]
    <3>1. i \in 1..((Len(key) - 1) - 1 + 1) /\ 1 + i - 1 = i
      BY <1>1
    <3>2. QED
      BY <2>2, <3>1
  <2>5. QED
    BY <2>2, <2>3, <2>4
<1>0. PICK renamed : renamed = Append(folder, name)
  OBVIOUS
<1>9. renamed = Append(Folder(key), name)
  BY <1>0
<1> HIDE DEF folder
<1>3. /\ renamed \in Seq(S) /\ Len(renamed) = Len(key) /\ renamed[Len(key)] = name
      /\ \A i \in 1..(Len(key) - 1) : renamed[i] = folder[i]
  BY <1>0, <1>1, <1>2
<1>4. DOMAIN renamed = 1..Len(key) /\ renamed # <<>>
  BY <1>1, <1>3
<1>5. \A i \in 1..Len(key) : renamed[i] \notin Reserved
  BY <1>1, <1>2, <1>3
<1>6. Path(S, renamed)
  BY <1>3, <1>4, <1>5 DEF Path, ValidObjectKey
<1>7. QED
  BY <1>2, <1>3, <1>6, <1>9 DEF Filename

\* Under the first strategy the folder of an object is named after its upload,
\* under the second its file is.
Dated(S, u, key) == Path(S, key) /\ Len(key) >= 2 /\ key[Len(key) - 1] = <<u>>

Flat(S, u, key) == Path(S, key) /\ Filename(key)[1] = u

LEMMA DatedKeys ==
  ASSUME NEW S, Segments \subseteq S, NEW u \in Uploads, NEW type,
         {<<"year">>, <<"month">>, <<u>>, <<"original", ExtensionOf[type]>>} \subseteq S,
         \A v \in VariantNames : <<v, "webp">> \in S,
         NEW prefix \in Prefixes, AllowedPathPrefix(prefix)
  PROVE  LET original == DateKey(prefix, u, type) IN
         /\ \A key \in KeysUnder(u, original, DateVariantKey) : Dated(S, u, key)
         /\ \A v \in VariantNames : DateVariantKey(original, v) # original
<1>1. PICK name : name = <<"original", ExtensionOf[type]>>
  OBVIOUS
<1>2. PICK original : original = DateKey(prefix, u, type)
  OBVIOUS
<1>3. <<u>> \notin Reserved /\ <<"year">> \notin Reserved /\ <<"month">> \notin Reserved
  BY UploadsAssumption DEF Reserved, Empty, Dot, DotDot, Backslash
<1>4. name \in S /\ name \notin Reserved
  BY <1>1 DEF Reserved, Empty, Dot, DotDot, Backslash
<1>5. ASSUME NEW v \in VariantNames
      PROVE  <<v, "webp">> \in S /\ <<v, "webp">> \notin Reserved /\ <<v, "webp">> # name
  <2>1. v # "original"
    BY VariantNamesAssumption
  <2>2. <<v, "webp">> # name
    BY <1>1, <2>1
  <2>3. <<v, "webp">> \notin Reserved
    BY DEF Reserved, Empty, Dot, DotDot, Backslash
  <2>4. QED
    BY <2>2, <2>3
<1>6. Dated(S, u, original) /\ Filename(original) = name
  <2>1. PICK rest : rest = <<<<"year">>, <<"month">>, <<u>>, name>>
    OBVIOUS
  <2>2. /\ rest \in Seq(S) /\ rest # <<>> /\ Len(rest) = 4 /\ rest[3] = <<u>> /\ rest[4] = name
        /\ \A i \in 1..Len(rest) : rest[i] \notin Reserved
    BY <1>3, <1>4, <2>1
  <2>3. PICK base : base = PrefixOrBase(prefix)
    OBVIOUS
  <2>4. Path(S, base)
    BY <2>3, PrefixPath
  <2>5. original = Join(base, rest)
    BY <1>1, <1>2, <2>1, <2>3 DEF DateKey
  <2>6. Path(S, original) /\ Filename(original) = rest[Len(rest)]
    BY <2>2, <2>4, <2>5, Joined
  <2>7. Len(original) >= 2 /\ original[Len(original) - 1] = rest[Len(rest) - 1]
    <3>1. Len(rest) >= 2
      BY <2>2
    <3>2. /\ Len(Join(base, rest)) >= 2
          /\ Join(base, rest)[Len(Join(base, rest)) - 1] = rest[Len(rest) - 1]
      BY <2>2, <2>4, <3>1, Joined
    <3>3. QED
      BY <2>5, <3>2
  <2>8. QED
    BY <2>2, <2>6, <2>7 DEF Dated
<1>7. ASSUME NEW key, Dated(S, u, key), NEW v \in VariantNames
      PROVE  Dated(S, u, DateVariantKey(key, v)) /\ Filename(DateVariantKey(key, v)) = <<v, "webp">>
  <2>1. PICK renamed : renamed = DateVariantKey(key, v)
    OBVIOUS
  <2>2. PICK file : file = <<v, "webp">>
    OBVIOUS
  <2>3. renamed = Append(Folder(key), file)
    BY <2>1, <2>2 DEF DateVariantKey
  <2>4. Path(S, key) /\ Len(key) >= 2 /\ Len(key) \in Nat /\ key[Len(key) - 1] = <<u>>
    BY <1>7 DEF Dated, Path
  <2>5. file \in S /\ file \notin Reserved
    BY <1>5, <2>2
  <2>6. /\ Path(S, renamed) /\ Len(renamed) = Len(key) /\ Filename(renamed) = file
        /\ \A i \in 1..(Len(key) - 1) : renamed[i] = key[i]
    <3>1. /\ Path(S, Append(Folder(key), file)) /\ Len(Append(Folder(key), file)) = Len(key)
          /\ Filename(Append(Folder(key), file)) = file
          /\ \A i \in 1..(Len(key) - 1) : Append(Folder(key), file)[i] = key[i]
      BY <2>4, <2>5, Renamed
    <3>2. QED
      BY <2>3, <3>1
  <2>7. renamed[Len(renamed) - 1] = <<u>>
    BY <2>4, <2>6
  <2>8. QED
    BY <2>1, <2>2, <2>4, <2>6, <2>7 DEF Dated
<1>8. ASSUME NEW key, Dated(S, u, key),
             NEW to \in Prefixes \ {NoPrefix}, AllowedPathPrefix(to)
      PROVE  Dated(S, u, MovedKey(u, key, to))
  <2>1. PICK rest : rest = <<<<u>>, Filename(key)>>
    OBVIOUS
  <2>2. Filename(key) \in S /\ Filename(key) \notin Reserved
    BY <1>8 DEF Dated, Path, ValidObjectKey, Filename
  <2>3. /\ rest \in Seq(S) /\ rest # <<>> /\ Len(rest) = 2 /\ rest[1] = <<u>>
        /\ \A i \in 1..Len(rest) : rest[i] \notin Reserved
    BY <1>3, <2>1, <2>2
  <2>4. Path(S, to)
    BY <1>8, PrefixPath
  <2>5. CleanPrefix(to) = to
    BY <2>4, CleanPrefixKeeps
  <2>6. PICK moved : moved = MovedKey(u, key, to)
    OBVIOUS
  <2>7. moved = Join(to, rest)
    BY <2>1, <2>5, <2>6 DEF MovedKey
  <2>8. Path(S, moved)
    BY <2>3, <2>4, <2>7, Joined
  <2>9. Len(moved) >= 2 /\ moved[Len(moved) - 1] = rest[Len(rest) - 1]
    <3>1. Len(rest) >= 2
      BY <2>3
    <3>2. /\ Len(Join(to, rest)) >= 2
          /\ Join(to, rest)[Len(Join(to, rest)) - 1] = rest[Len(rest) - 1]
      BY <2>3, <2>4, <3>1, Joined
    <3>3. QED
      BY <2>7, <3>2
  <2>10. QED
    BY <2>3, <2>6, <2>8, <2>9 DEF Dated
<1>9. \A key \in KeysUnder(u, original, DateVariantKey) : Dated(S, u, key)
  BY <1>6, <1>7, <1>8 DEF KeysUnder, OriginalsAndVariants
<1>10. \A v \in VariantNames : DateVariantKey(original, v) # original
  BY <1>5, <1>6, <1>7
<1>11. QED
  BY <1>2, <1>9, <1>10

LEMMA FlatKeys ==
  ASSUME NEW S, Segments \subseteq S, NEW u \in Uploads, NEW type,
         {<<u>>, <<u, ExtensionOf[type]>>} \subseteq S,
         \A v \in VariantNames : <<u, v, "webp">> \in S,
         NEW prefix \in Prefixes, AllowedPathPrefix(prefix)
  PROVE  LET original == FlatKey(prefix, u, type) IN
         /\ \A key \in KeysUnder(u, original, FlatVariantKey) : Flat(S, u, key)
         /\ \A v \in VariantNames : FlatVariantKey(original, v) # original
<1>1. PICK name : name = <<u, ExtensionOf[type]>>
  OBVIOUS
<1>2. PICK original : original = FlatKey(prefix, u, type)
  OBVIOUS
<1>3. <<u>> \in S /\ <<u>> \notin Reserved
  BY UploadsAssumption
<1>4. name \in S /\ name \notin Reserved /\ name[1] = u
  BY <1>1 DEF Reserved, Empty, Dot, DotDot, Backslash
<1>5. ASSUME NEW v \in VariantNames, NEW file, file = <<u, v, "webp">>
      PROVE  file \in S /\ file \notin Reserved /\ file # name /\ file[1] = u
  <2>1. Len(file) = 3 /\ Len(name) = 2 /\ file[1] = u
    BY <1>1, <1>5
  <2>2. file \notin Reserved
    BY <1>5 DEF Reserved, Empty, Dot, DotDot, Backslash
  <2>3. QED
    BY <1>5, <2>1, <2>2
<1>6. Flat(S, u, original) /\ Filename(original) = name
  <2>1. PICK rest : rest = <<name>>
    OBVIOUS
  <2>2. /\ rest \in Seq(S) /\ rest # <<>> /\ rest[Len(rest)] = name
        /\ \A i \in 1..Len(rest) : rest[i] \notin Reserved
    BY <1>4, <2>1
  <2>3. PICK base : base = PrefixOrBase(prefix)
    OBVIOUS
  <2>4. Path(S, base)
    BY <2>3, PrefixPath
  <2>5. original = Join(base, rest)
    BY <1>1, <1>2, <2>1, <2>3 DEF FlatKey
  <2>6. Path(S, original) /\ Filename(original) = rest[Len(rest)]
    BY <2>2, <2>4, <2>5, Joined
  <2>7. QED
    BY <1>4, <2>2, <2>6 DEF Flat
<1>7. ASSUME NEW key, Flat(S, u, key), NEW v \in VariantNames
      PROVE  /\ Flat(S, u, FlatVariantKey(key, v))
             /\ Filename(FlatVariantKey(key, v)) # name
  <2>1. PICK renamed : renamed = FlatVariantKey(key, v)
    OBVIOUS
  <2>2. PICK file : file = <<u, v, "webp">>
    OBVIOUS
  <2>3. renamed = Append(Folder(key), file)
    BY <1>7, <2>1, <2>2 DEF FlatVariantKey, Flat
  <2>4. file \in S /\ file \notin Reserved /\ file # name /\ file[1] = u
    BY <1>5, <2>2
  <2>5. Path(S, Append(Folder(key), file)) /\ Filename(Append(Folder(key), file)) = file
    BY <1>7, <2>4, Renamed DEF Flat
  <2>6. QED
    BY <2>1, <2>3, <2>4, <2>5 DEF Flat
<1>8. ASSUME NEW key, Flat(S, u, key),
             NEW to \in Prefixes \ {NoPrefix}, AllowedPathPrefix(to)
      PROVE  Flat(S, u, MovedKey(u, key, to))
  <2>1. PICK rest : rest = <<<<u>>, Filename(key)>>
    OBVIOUS
  <2>2. Filename(key) \in S /\ Filename(key) \notin Reserved /\ Filename(key)[1] = u
    BY <1>8 DEF Flat, Path, ValidObjectKey, Filename
  <2>3. /\ rest \in Seq(S) /\ rest # <<>> /\ rest[Len(rest)] = Filename(key)
        /\ \A i \in 1..Len(rest) : rest[i] \notin Reserved
    BY <1>3, <2>1, <2>2
  <2>4. Path(S, to)
    BY <1>8, PrefixPath
  <2>5. CleanPrefix(to) = to
    BY <2>4, CleanPrefixKeeps
  <2>6. PICK moved : moved = MovedKey(u, key, to)
    OBVIOUS
  <2>7. moved = Join(to, rest)
    BY <2>1, <2>5, <2>6 DEF MovedKey
  <2>8. Path(S, moved) /\ Filename(moved) = rest[Len(rest)]
    BY <2>3, <2>4, <2>7, Joined
  <2>9. QED
    BY <2>2, <2>3, <2>6, <2>8 DEF Flat
<1>9. \A key \in KeysUnder(u, original, FlatVariantKey) : Flat(S, u, key)
  BY <1>6, <1>7, <1>8 DEF KeysUnder, OriginalsAndVariants
<1>10. \A v \in VariantNames : FlatVariantKey(original, v) # original
  BY <1>6, <1>7
<1>11. QED
  BY <1>2, <1>9, <1>10

\* Two uploads never meet in one object key, and no variant in that of its
\* original, whatever the prefixes of the requests, the base prefix, the variants
\* and the ids are, under either strategy and wherever assets are moved.
THEOREM KeysNeverMeet == Spec => []KeysDisjoint
<1>1. ASSUME Sound PROVE KeysDisjoint
  <2> DEFINE A == UNION {Uploads, VariantNames, {"year", "month", "original", "webp"},
                         {ExtensionOf[uploads[u].type] : u \in Uploads}}
             S == Seq(A) \cup Segments
             original(u) == DateKey(uploads[u].prefix, u, uploads[u].type)
             flat(u) == FlatKey(uploads[u].prefix, u, uploads[u].type)
  <2>1. ASSUME NEW u \in Uploads, Opened(u)
        PROVE  uploads[u].prefix \in Prefixes /\ AllowedPathPrefix(uploads[u].prefix)
    <3>1. uploads[u] \in Upload
      BY <1>1, <2>1, RowTyped DEF Sound
    <3>2. QED
      BY <1>1, <2>1, <3>1 DEF Sound, RowsSound, Upload
  <2>2. ASSUME NEW u \in Uploads
        PROVE  /\ {<<"year">>, <<"month">>, <<u>>, <<"original", ExtensionOf[uploads[u].type]>>,
                   <<u, ExtensionOf[uploads[u].type]>>} \subseteq S
               /\ \A v \in VariantNames : <<v, "webp">> \in S /\ <<u, v, "webp">> \in S
    <3>1. /\ {u, "year", "month", "original", "webp", ExtensionOf[uploads[u].type]} \subseteq A
          /\ VariantNames \subseteq A
      OBVIOUS
    <3> HIDE DEF A
    <3>2. /\ <<"year">> \in Seq(A) /\ <<"month">> \in Seq(A) /\ <<u>> \in Seq(A)
          /\ <<"original", ExtensionOf[uploads[u].type]>> \in Seq(A)
          /\ <<u, ExtensionOf[uploads[u].type]>> \in Seq(A)
      BY <3>1
    <3>3. \A v \in VariantNames : <<v, "webp">> \in Seq(A) /\ <<u, v, "webp">> \in Seq(A)
      BY <3>1
    <3>4. QED
      BY <3>2, <3>3
  <2>3. Segments \subseteq S
    OBVIOUS
  <2> HIDE DEF S
  <2>4. ASSUME NEW u \in Uploads, Opened(u)
        PROVE  /\ \A key \in KeysUnder(u, original(u), DateVariantKey) : Dated(S, u, key)
               /\ \A v \in VariantNames : DateVariantKey(original(u), v) # original(u)
    BY <2>1, <2>2, <2>3, <2>4, DatedKeys
  <2>5. ASSUME NEW u \in Uploads, Opened(u)
        PROVE  /\ \A key \in KeysUnder(u, flat(u), FlatVariantKey) : Flat(S, u, key)
               /\ \A v \in VariantNames : FlatVariantKey(flat(u), v) # flat(u)
    BY <2>1, <2>2, <2>3, <2>5, FlatKeys
  <2>6. ASSUME NEW u \in Uploads, NEW w \in Uploads, NEW key,
               (Dated(S, u, key) /\ Dated(S, w, key)) \/ (Flat(S, u, key) /\ Flat(S, w, key))
        PROVE  u = w
    BY <2>6 DEF Dated, Flat
  <2> HIDE DEF original, flat
  <2>7. ASSUME NEW u \in Uploads, Opened(u)
        PROVE  /\ \A key \in KeysUnder(u, original(u), DateVariantKey)
                             \cup KeysUnder(u, flat(u), FlatVariantKey) : ValidObjectKey(key)
               /\ \A v \in VariantNames : /\ DateVariantKey(original(u), v) # original(u)
                                          /\ FlatVariantKey(flat(u), v) # flat(u)
               /\ \A w \in Uploads \ {u} : Opened(w) =>
                    /\ KeysUnder(u, original(u), DateVariantKey)
                         \cap KeysUnder(w, original(w), DateVariantKey) = {}
                    /\ KeysUnder(u, flat(u), FlatVariantKey)
                         \cap KeysUnder(w, flat(w), FlatVariantKey) = {}
    <3>1. \A key \in KeysUnder(u, original(u), DateVariantKey)
                     \cup KeysUnder(u, flat(u), FlatVariantKey) : ValidObjectKey(key)
      BY <2>4, <2>5, <2>7 DEF Dated, Flat, Path
    <3>2. ASSUME NEW w \in Uploads \ {u}, Opened(w)
          PROVE  /\ KeysUnder(u, original(u), DateVariantKey)
                      \cap KeysUnder(w, original(w), DateVariantKey) = {}
                 /\ KeysUnder(u, flat(u), FlatVariantKey)
                      \cap KeysUnder(w, flat(w), FlatVariantKey) = {}
      BY <2>4, <2>5, <2>6, <2>7, <3>2
    <3>3. QED
      BY <2>4, <2>5, <2>7, <3>1, <3>2
  <2>8. ASSUME NEW u \in Uploads, Opened(u)
        PROVE  /\ DatedKey(u) = original(u) /\ PrefixedKey(u) = flat(u)
               /\ EveryDated[uploads[u].prefix][u][uploads[u].type] =
                    KeysUnder(u, original(u), DateVariantKey)
               /\ EveryPrefixed[uploads[u].prefix][u][uploads[u].type] =
                    KeysUnder(u, flat(u), FlatVariantKey)
    <3>1. uploads[u].prefix \in Prefixes /\ uploads[u].type \in Types
      BY <1>1, <2>8, RowTyped DEF Sound, Upload
    <3>2. DatedKey(u) = original(u) /\ PrefixedKey(u) = flat(u)
      BY <3>1 DEF original, flat, DatedKey, PrefixedKey, KeysByDate, KeysByPrefix
    <3>3. /\ EveryDated[uploads[u].prefix][u][uploads[u].type] =
               KeysIfDated(uploads[u].prefix, u, uploads[u].type)
          /\ EveryPrefixed[uploads[u].prefix][u][uploads[u].type] =
               KeysIfPrefixed(uploads[u].prefix, u, uploads[u].type)
      BY <3>1 DEF EveryDated, EveryPrefixed
    <3>4. /\ KeysIfDated(uploads[u].prefix, u, uploads[u].type) =
               KeysUnder(u, original(u), DateVariantKey)
          /\ KeysIfPrefixed(uploads[u].prefix, u, uploads[u].type) =
               KeysUnder(u, flat(u), FlatVariantKey)
      BY DEF KeysIfDated, KeysIfPrefixed, original, flat
    <3>5. QED
      BY <3>2, <3>3, <3>4
  <2>9. QED
    BY <2>7, <2>8 DEF KeysDisjoint
<1>2. QED
  BY <1>1, AlwaysSound, PTL
=============================================================================
