------------------------------- MODULE Crypto -------------------------------
(***************************************************************************)
(* CryptoService with its KeyManager (src/crypto/index.ts), CodecService   *)
(* (src/crypto/codec.ts) and the envelope RedisAuthStore puts around their *)
(* output, as operators on one process's services: which process can read  *)
(* what which process has written.  AES-GCM and the compressors are what   *)
(* they promise: the right key, the right tool, and nothing else, opens.   *)
(***************************************************************************)
EXTENDS Integers

CONSTANTS
  MasterKeys,  \* the keys derived from the master keys in use, each its own id
  KeyLife      \* keyRotationDays, in ticks

NoKey == "none"

ASSUME CryptoAssumption ==
  KeyLife \in Nat /\ MasterKeys # {} /\ NoKey \notin MasterKeys

Compressors == {"none", "gzip", "snappy"}

\* selectCompressor; SnappyCompressor falls back to gzip without its module.
SelectCompressor(enableCompression, algorithm, snappyInstalled) ==
  IF ~enableCompression THEN "none"
  ELSE IF algorithm = "snappy" /\ snappyInstalled THEN "snappy" ELSE "gzip"

\* known is the map of the KeyManager, flagged the keys whose active is TRUE,
\* age the ticks since createdAt.
Services ==
  [enabled : BOOLEAN, known : SUBSET MasterKeys, flagged : SUBSET MasterKeys,
   active : MasterKeys \cup {NoKey}, age : [MasterKeys -> 0..(KeyLife + 1)],
   compressor : Compressors]

AddKey(r, k) ==
  [r EXCEPT !.known = @ \cup {k}, !.flagged = (@ \ {r.active}) \cup {k},
            !.active = k, !.age[k] = 0]

Initialize(r, k) == AddKey(r, k)

\* createCryptoService and createCodecService with a master key (or a random
\* one): the keys of an earlier process are not known to this one.
CreateServices(enabled, k, compressor) ==
  Initialize([enabled |-> enabled, known |-> {}, flagged |-> {}, active |-> NoKey,
              age |-> [i \in MasterKeys |-> 0], compressor |-> compressor], k)

RotateKey(r, k) == AddKey(r, k)

KeyExpired(r, k) == r.age[k] > KeyLife

\* Mutant: whatever is not active is taken for expired.
CleanupInactiveKeys(r) == [r EXCEPT !.known = @ \cap r.flagged]

CleanupExpiredKeys(r) ==
  [r EXCEPT !.known = {k \in @ : ~KeyExpired(r, k) \/ k \in r.flagged}]

AgeKeys(r) ==
  [r EXCEPT !.age = [k \in MasterKeys |-> IF @[k] > KeyLife THEN @[k] ELSE @[k] + 1]]

\* serializeForPipeline: encode, encrypt, and store the key's id with it.
Seal(r) ==
  [key |-> IF r.enabled THEN r.active ELSE NoKey, compressor |-> r.compressor]

\* What another compressor has made is no JSON, or not its own format.
Decodes(r, e) == e.compressor = r.compressor

\* decryptAESGCM: the tag is right under the key that made it; plain text has
\* neither nonce nor tag.
Decrypts(e, key) == e.key = key /\ e.key # NoKey

\* decrypt with the id it is given, and decode; without encryption whatever is
\* stored is taken for plain text.
Opens(r, e, keyId) ==
  /\ IF r.enabled /\ keyId # NoKey THEN keyId \in r.known /\ Decrypts(e, keyId)
     ELSE e.key = NoKey
  /\ Decodes(r, e)

\* RedisAuthStore.getField reads the id back.
OpensRedis(r, e) == Opens(r, e, e.key)

\* MongoAuthStore keeps no id, and asks for "auto", which is the active key.  It
\* cuts the nonce off what has none, too, and leaves nothing to decode.
OpensMongo(r, e) == r.enabled /\ Opens(r, e, r.active)

-----------------------------------------------------------------------------
\* encrypt finds an active key, and one key is marked active: no rotation,
\* clean-up or key added again leaves two, or drops the one in use.
OneActiveKey(r) == r.flagged = {r.active} /\ r.active \in r.known
=============================================================================
