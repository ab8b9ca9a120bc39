--------------------------- MODULE MCDirectUploads ---------------------------
(***************************************************************************)
(* Two uploads, three calls in flight, and a request for every reason to   *)
(* be refused beside three that pass.  The second upload is there for its  *)
(* key and its URL: behaviours that store an object under its key are cut  *)
(* off, and so are those that store one of the first when the first was    *)
(* opened after 0, or the second is open and not filed as a revision of    *)
(* the first, with one call in flight at a time.                           *)
(***************************************************************************)
EXTENDS DirectUploads, TLC

MCVariantNames == {"thumbnail", "card"}
MCExtensionOf == [png |-> "png", webp |-> "webp"]
MCBasePrefix == <<<<"media">>>>
MCAllowedMimeTypes == [image |-> {"png", "webp"}]
MCMaxSize == [image |-> 2]
\* Under the key of the first upload, as a prefix.
RevisionPrefix ==
  <<<<"media">>, <<"year">>, <<"month">>, <<"u1">>, <<"original", "png", ":", "2", ":", "draft">>>>

MCAllowedPrefixes == {<<<<"a">>>>, <<<<"a">>, <<"b">>>>, <<<<"c">>>>, RevisionPrefix}
MCRefusedPrefixes == {<<<<"c">>>>}

MCMimeTexts == {[type |-> "png", text |-> "IMAGE/PNG; q=1"], [type |-> "webp", text |-> "image/webp"],
                [type |-> "draft:webp", text |-> "draft:webp"]}

\* An adapter behind a hook, and one that only lets anybody complete.
MCAdapters == {[hook |-> TRUE, open |-> {}], [hook |-> FALSE, open |-> {"completeUpload"}]}
MCPermitted == {"editor"} \X {"createUploadIntent", "localPutObject", "deleteAsset"}

Tags ==   \* {"tags": [{"k": 1}]}
  [nodes |-> (<<>> :> "object" @@ <<"tags">> :> "array" @@ <<"tags", "0">> :> "object"
                @@ <<"tags", "0", "k">> :> "scalar"),
   shared |-> FALSE, bytes |-> 2]

Plain ==
  [wellTyped |-> TRUE, kind |-> "image", mime |-> [type |-> "png", text |-> "image/png"],
   size |-> 2, prefix |-> NoPrefix, metadata |-> NoMetadata]

Filed ==
  [Plain EXCEPT !.mime = [type |-> "webp", text |-> " Image/WebP"], !.size = 1,
                !.prefix = <<Empty, <<"a">>, <<"b">>, Empty>>, !.metadata = Tags]

Revision ==
  [Plain EXCEPT !.mime = [type |-> "webp", text |-> "image/webp"], !.size = 1,
                !.prefix = RevisionPrefix]

Refused ==
  {[Plain EXCEPT !.wellTyped = FALSE],
   [Plain EXCEPT !.kind = "file"],
   [Plain EXCEPT !.mime = [type |-> "svg", text |-> "image/svg+xml"]],
   [Plain EXCEPT !.size = 0],
   [Plain EXCEPT !.size = 3],
   [Plain EXCEPT !.prefix = <<<<"b">>>>],
   [Plain EXCEPT !.prefix = <<<<"c">>>>],
   [Plain EXCEPT !.prefix = <<<<"a">>, Empty, <<"b">>>>],
   [Plain EXCEPT !.prefix = <<<<"a">>, DotDot, <<"b">>>>],
   [Plain EXCEPT !.metadata = [Tags EXCEPT !.shared = TRUE]],
   [Plain EXCEPT !.metadata = [Tags EXCEPT !.bytes = 3]],
   [Plain EXCEPT !.metadata.nodes = <<>> :> "object" @@ <<"tags">> :> "object"
                                      @@ <<"tags", "constructor">> :> "scalar"],
   [Plain EXCEPT !.metadata.nodes = <<>> :> "object" @@ <<"other">> :> "scalar"]}

MCRequests == {Plain, Filed, Revision} \cup Refused

Symmetry == Permutations(Calls)

StoringCalls(u) == {c \in Calls : calls[c].step \notin {"idle", "sign"} /\ calls[c].upload = u}

Stores(u) == body[u] # Absent \/ sidecar[u] # None \/ StoringCalls(u) # {}

Focus ==
  /\ ~Stores("u2")
  /\ Stores("u1") =>
       /\ clock \in {0, Horizon}
       /\ uploads["u1"].expiresAt = SessionTtl /\ uploads["u1"].prefix # RevisionPrefix
       /\ Opened("u2") =>
            /\ Signers("u1") = Uploads
            /\ Cardinality({c \in Calls : ~At(c, "idle")}) <= 1
=============================================================================
