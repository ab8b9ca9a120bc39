------------------------------ MODULE ObjectKeys ------------------------------
(***************************************************************************)
(* Object keys and path prefixes, and how the two key strategies of the    *)
(* library build them.  A key is the sequence of its segments, and a       *)
(* segment the tuple of the parts it is put together from, a colon being a *)
(* part of its own: two keys are equal here iff they are as strings.       *)
(***************************************************************************)
EXTENDS Integers, Sequences

CONSTANTS
  VariantNames,   \* names of policies.variants; their format is webp
  ExtensionOf,    \* mimeExtensions: the extension of each known MIME type
  BasePrefix      \* basePrefix or defaultPrefix of the strategy

\* A variant called "original" would share the key of the original.
ASSUME VariantNamesAssumption == "original" \notin VariantNames

\* The segments a path may be refused for.
Empty == <<"">>
Dot == <<".">>
DotDot == <<"..">>
Backslash == <<"\\">>

Reserved == {Empty, Dot, DotDot, Backslash}

\* What the segments of a prefix are.
Segments == Seq(STRING)

\* The absence of a prefix.
NoPrefix == <<>>

\* cleanPrefix: the prefix without leading and trailing slashes.
CleanPrefix(prefix) ==
  LET kept == {i \in DOMAIN prefix : prefix[i] # Empty}
  IN IF kept = {} THEN NoPrefix
     ELSE SubSeq(prefix, CHOOSE i \in kept : \A j \in kept : i <= j,
                         CHOOSE i \in kept : \A j \in kept : j <= i)

\* `${prefix}/${rest}`: with an empty prefix the key starts with a slash.
Join(prefix, rest) == (IF prefix = NoPrefix THEN <<Empty>> ELSE prefix) \o rest

\* assertValidObjectKey, but for the length.
ValidObjectKey(key) ==
  /\ key # <<>>
  /\ \A i \in DOMAIN key : key[i] \notin Reserved

\* With another one, each upload that names no prefix is refused its key.
ASSUME BasePrefixAssumption ==
  BasePrefix \in Seq(Segments) /\ ValidObjectKey(CleanPrefix(BasePrefix))

Filename(key) == key[Len(key)]

Folder(key) == SubSeq(key, 1, Len(key) - 1)

\* The text of `long` has a colon where that of `short` ends.
Continues(long, short) ==
  LET n == Len(short) IN
  /\ n <= Len(long)
  /\ SubSeq(long, 1, n - 1) = Folder(short)
  /\ Len(short[n]) < Len(long[n])
  /\ SubSeq(long[n], 1, Len(short[n]) + 1) = Append(short[n], ":")

PrefixOrBase(prefix) ==
  IF prefix = NoPrefix THEN CleanPrefix(BasePrefix) ELSE CleanPrefix(prefix)

\* createDatePartitionedKeyStrategy, within one month.
DateKey(prefix, assetId, type) ==
  Join(PrefixOrBase(prefix),
       <<<<"year">>, <<"month">>, <<assetId>>, <<"original", ExtensionOf[type]>>>>)

DateVariantKey(key, variant) == Append(Folder(key), <<variant, "webp">>)

\* createPrefixKeyStrategy, within one millisecond.
FlatKey(prefix, nonce, type) ==
  Join(PrefixOrBase(prefix), <<<<nonce, ExtensionOf[type]>>>>)

FlatVariantKey(key, variant) ==
  Append(Folder(key), <<Filename(key)[1], variant, "webp">>)

(* Mutant: a moved object is filed under its name alone. *)
MovedKeyByName(assetId, key, toPrefix) ==
  Join(CleanPrefix(toPrefix), <<Filename(key)>>)

\* buildDefaultMovedObjectKey.
MovedKey(assetId, key, toPrefix) ==
  Join(CleanPrefix(toPrefix), <<<<assetId>>, Filename(key)>>)
=============================================================================
