--------------------------- MODULE InputValidation ---------------------------
(***************************************************************************)
(* The checks between a request and an upload row, and between a stored    *)
(* object and a completed upload.  Each operator says which inputs pass;   *)
(* the others end the request with a 400 and no effect.                    *)
(***************************************************************************)
EXTENDS ObjectKeys, FiniteSets

CONSTANTS
  AllowedMimeTypes,    \* allowedMimeTypesByKind: kind -> set of types
  MaxSize,             \* maxSizeByKind: kind -> bytes, where limited
  AllowedPrefixes,     \* pathPrefixes.allowedPrefixes; {} allows every one
  RefusedPrefixes,     \* those pathPrefixes.allow answers false for
  AllowedKeys,         \* metadata.allowedKeys; {} where it is absent
  MaxKeys, MaxDepth, MaxBytes,   \* metadata limits
  SessionTtl,          \* uploadSessionTtlMs
  PresignedTtl         \* presignedUploadTtlMs

\* validateMediaStoragePolicies.
ASSUME PoliciesAssumption ==
  /\ SessionTtl \in Nat \ {0} /\ PresignedTtl \in Nat \ {0}
  /\ \A kind \in DOMAIN MaxSize : MaxSize[kind] \in Nat \ {0}
  /\ {MaxKeys, MaxDepth, MaxBytes} \subseteq Nat \ {0}

-----------------------------------------------------------------------------
\* A MIME type as a client writes it, with parameters, blanks or capitals
\* around the type it denotes.
NormalizeMimeType(text) == text.type

\* `metadata?.contentType ?? null`: an object without a metadata file has no type.
NoType == ""

\* `policies.allowedMimeTypesByKind[kind] ?? []`
TypesOf(kind) ==
  IF kind \in DOMAIN AllowedMimeTypes THEN AllowedMimeTypes[kind] ELSE {}

WithinMaxSize(kind, size) == kind \in DOMAIN MaxSize => size <= MaxSize[kind]

\* What is left is NoPrefix, or starts and ends with a name.
NormalizePathPrefix(prefix) == CleanPrefix(prefix)

AllowedPathPrefix(prefix) ==
  prefix # NoPrefix =>
    /\ \A i \in DOMAIN prefix : prefix[i] \notin Reserved
    /\ AllowedPrefixes # {} => prefix \in AllowedPrefixes
    /\ prefix \notin RefusedPrefixes

-----------------------------------------------------------------------------
(* Metadata: the JSON value as a function from the path of each of its nodes *)
(* to the kind of the node, with its serialized length, and whether an       *)
(* object occurs in it twice, which a caller in the same process can send.   *)

NoMetadata == [nodes |-> <<>>, shared |-> FALSE, bytes |-> 0]

ForbiddenKeys == {"__proto__", "constructor", "prototype"}

Paths(metadata) == DOMAIN metadata.nodes

Parent(path) == SubSeq(path, 1, Len(path) - 1)

\* countMetadataKeys: the members of the objects, not those of the arrays.
MetadataKeys(metadata) ==
  {path \in Paths(metadata) \ {<<>>} : metadata.nodes[Parent(path)] = "object"}

\* getMetadataDepth: containers count, scalars do not.
WithinDepth(metadata, depth) ==
  \A path \in Paths(metadata) : metadata.nodes[path] # "scalar" => Len(path) < depth

\* validateMetadata.  The repeated-object check of each of its three walks.
ValidMetadata(metadata) ==
  metadata # NoMetadata =>
    /\ metadata.nodes[<<>>] = "object"
    /\ ~metadata.shared
    /\ \A path \in MetadataKeys(metadata) : path[Len(path)] \notin ForbiddenKeys
    /\ AllowedKeys # {} =>
         \A path \in MetadataKeys(metadata) : Len(path) = 1 => path[1] \in AllowedKeys
    /\ Cardinality(MetadataKeys(metadata)) <= MaxKeys
    /\ WithinDepth(metadata, MaxDepth)
    /\ metadata.bytes <= MaxBytes

-----------------------------------------------------------------------------
(* Mutant: maxSizeByKind is not consulted.                                  *)
ValidIntentInputAnySize(input) ==
  /\ input.size >= 1
  /\ NormalizeMimeType(input.mime) \in TypesOf(input.kind)
  /\ AllowedPathPrefix(NormalizePathPrefix(input.prefix))
  /\ ValidMetadata(input.metadata)

\* validateCreateUploadIntentInput.
ValidIntentInput(input) ==
  /\ input.size >= 1
  /\ NormalizeMimeType(input.mime) \in TypesOf(input.kind)
  /\ WithinMaxSize(input.kind, input.size)
  /\ AllowedPathPrefix(NormalizePathPrefix(input.prefix))
  /\ ValidMetadata(input.metadata)

(* Mutant: an object whose metadata file is missing passes.                 *)
ValidStoredMetadataOrNone(upload, type, length) ==
  type \in {upload.type, NoType} /\ length = upload.size

\* validateStoredObjectMetadata, of an object that was found.
ValidStoredMetadata(upload, type, length) ==
  type = upload.type /\ length = upload.size
=============================================================================
