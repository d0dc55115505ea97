----------------------------- MODULE SecretData -----------------------------
(***************************************************************************)
(* From the answer of the provider to the data of the Secret and the hash  *)
(* that decides whether it is written: MountContent of                     *)
(* pkg/provider/provider_client.go, pkg/util/secretutil/secret.go and      *)
(* fetchSecretsFromProvider and computeCurrentStateHash of the controller. *)
(* One SecretSync is fetched again and again while the files, its spec and *)
(* its SecretProviderClass change.                                         *)
(*                                                                         *)
(* The content of a file is a sequence of blocks in PEM or PFX format, or  *)
(* anything else ("raw").  A block has its PEM type and what its DER bytes *)
(* parse as.                                                               *)
(***************************************************************************)
EXTENDS Integers, Sequences, FiniteSets, SequencesExt

CONSTANTS
  Symbols,     \* what texts are made of
  Responses,   \* answers of the provider: [error, files]
  Specs,       \* [data, type, force] of the SecretSync
  KeyOrder,    \* the target keys, in the order of json.Marshal
  UIDs,        \* UIDs, as sequences of symbols of equal length
  Generations, \* generations that are looked at
  MaxChanges   \* bound: changes of files, spec and SecretProviderClass

VARIABLES
  response,  \* what the provider answers
  spec,      \* the spec of the SecretSync
  ids,       \* UID and generation of the SecretProviderClass and the SecretSync
  pc,        \* where the fetch is
  next,      \* the entry of spec.data that is looked at next
  files,     \* the files of the answer, by path
  datamap,   \* the data built so far
  syncHash,  \* what was hashed after the last fetch that succeeded; <<>>: none did
  synced,    \* history: the data, spec.force and ids of that time
  changed,   \* currentHash # syncHash, as the last fetch found it
  changes

vars == <<response, spec, ids, pc, next, files, datamap, syncHash, synced, changed, changes>>
inputs == <<response, spec, ids, changes>>

-----------------------------------------------------------------------------
(* Certificates and keys *)

certType == "CERTIFICATE"
privateKeyType == "PRIVATE KEY"
privateKeyTypeRSA == "RSA PRIVATE KEY"
privateKeyTypeEC == "EC PRIVATE KEY"

SecretTypeTLS == "kubernetes.io/tls"
TLSPrivateKeyKey == "tls.key"
TLSCertKey == "tls.crt"

\* The DER bytes that parse as a private key.
KeyDERs == {"PKCS1 RSA", "PKCS8 RSA", "SEC1 EC", "PKCS8 EC", "PKCS8 other"}

PEM(blocks) == [format |-> "pem", blocks |-> blocks]
IsCert(block) == block.type = certType
NotCert(block) == ~IsCert(block)
IsPrivateKey(block) == block.type = privateKeyType

\* The loop that collects the blocks of type CERTIFICATE.
Certs(blocks) ==
  LET certs[n \in 0 .. Len(blocks)] ==
        IF n = 0 THEN <<>>
        ELSE IF IsCert(blocks[n]) THEN Append(certs[n - 1], blocks[n]) ELSE certs[n - 1]
  IN  certs[Len(blocks)]

\* An error, in place of a content.
Error == [format |-> "error", blocks |-> <<>>]

\* pkcs12.ToPEM: a PFX file has no keys but RSA and EC ones, in PKCS #1 and
\* SEC 1; other files are errors, the rest of a PEM file too.
ToPEM(content) == IF content.format = "pfx" THEN content ELSE Error

getCert(content) ==
  LET pem == IF content.format = "pem" THEN Certs(content.blocks) ELSE <<>>
      pfx == ToPEM(content)
  IN  CASE pem # <<>>  -> PEM(pem)
        [] pem = <<>> /\ pfx = Error -> Error
        [] OTHER -> PEM(Certs(pfx.blocks))

\* The last block of another type than CERTIFICATE, or of a PFX file the last
\* private key.
KeyDER(content) ==
  LET pem == IF content.format = "pem" THEN SelectLastInSeq(content.blocks, NotCert) ELSE 0
      pfx == SelectLastInSeq(ToPEM(content).blocks, IsPrivateKey)
  IN  CASE pem # 0 -> content.blocks[pem].der
        [] pem = 0 /\ pfx # 0 -> ToPEM(content).blocks[pfx].der
        [] OTHER -> "nil"

\* Mutant: keys in PKCS #8 are forgotten.
getPrivateKey_NoPKCS8(content) ==
  LET der == KeyDER(content)
  IN  CASE der = "nil" /\ content.format # "pfx" -> Error
        [] der = "PKCS1 RSA" -> PEM(<<[type |-> privateKeyTypeRSA, der |-> "PKCS1 RSA"]>>)
        [] der = "SEC1 EC"   -> PEM(<<[type |-> privateKeyTypeEC, der |-> "SEC1 EC"]>>)
        [] OTHER             -> PEM(<<[type |-> privateKeyType, der |-> ""]>>)

\* What cannot be parsed, and a PFX file without a key, give an empty block and
\* no error.
getPrivateKey(content) ==
  LET der == KeyDER(content)
  IN  CASE der = "nil" /\ content.format # "pfx" -> Error
        [] der = "PKCS8 other" -> Error
        [] der \in {"PKCS1 RSA", "PKCS8 RSA"} ->
             PEM(<<[type |-> privateKeyTypeRSA, der |-> "PKCS1 RSA"]>>)
        [] der \in {"SEC1 EC", "PKCS8 EC"} ->
             PEM(<<[type |-> privateKeyTypeEC, der |-> "SEC1 EC"]>>)
        [] OTHER -> PEM(<<[type |-> privateKeyType, der |-> ""]>>)

GetCertPart(content, key) ==
  CASE key = TLSPrivateKeyKey -> getPrivateKey(content)
    [] key = TLSCertKey       -> getCert(content)
    [] OTHER                  -> Error

-----------------------------------------------------------------------------
(* The bytes that are hashed *)

Digit == <<"0", "1", "2", "3", "4", "5", "6", "7", "8", "9">>

\* The decimal digits of a natural number.
Itoa(n) ==
  LET digits[m \in 0 .. n] ==
        IF m < 10 THEN <<Digit[m + 1]>>
        ELSE Append(digits[m \div 10], Digit[(m % 10) + 1])
  IN  digits[n]

\* A content in the JSON, and the field with a key and its content.
Encode(content) ==
  <<content.format>> \o FlattenSeq([n \in DOMAIN content.blocks |->
                                      <<content.blocks[n].type, content.blocks[n].der>>])
Field(data, key) ==
  IF key \in DOMAIN data THEN <<key>> \o Encode(data[key]) \o <<",">> ELSE <<>>

\* json.Marshal of a map: its fields in the order of the keys.
Marshal(data) ==
  <<"{">> \o FlattenSeq([n \in DOMAIN KeyOrder |-> Field(data, KeyOrder[n])]) \o <<"}">>

\* strings.Join(..., "|") of a first part and the others.
Join(first, others) == first \o <<"|">> \o others

\* Mutant: the parts are not separated.
HashInput_NoSeparator(data, force, id) ==
  LET json == Marshal(data)
  IN  Itoa(Len(json)) \o <<":">> \o (json
        \o id.spcUID \o Itoa(id.spcGeneration) \o id.ssUID \o Itoa(id.ssGeneration) \o force)

\* The first argument of pbkdf2.Key in computeCurrentStateHash.  The derived key
\* is taken to be free of collisions.
HashInput(data, force, id) ==
  LET json == Marshal(data)
      toHash == Join(id.spcUID, Join(Itoa(id.spcGeneration),
                  Join(id.ssUID, Join(Itoa(id.ssGeneration), force))))
  IN  Itoa(Len(json)) \o <<":">> \o (json \o toHash)

-----------------------------------------------------------------------------
ASSUME SymbolsAssumption ==
  /\ ToSet(Digit) \cup {"{", "}", ",", ":", "|"} \subseteq Symbols
  /\ {"pem", "pfx", "raw", "PKCS1 RSA", "SEC1 EC", "",
      certType, privateKeyType, privateKeyTypeRSA, privateKeyTypeEC} \subseteq Symbols

\* What stands in the JSON between two commas has none: keys by the pattern of
\* the API type, contents because they are encoded in base64.
Words == Symbols \ {","}
Blocks == [type : Words, der : Words]
Contents == [format : {"pem", "pfx", "raw"}, blocks : Seq(Blocks)]
Files == [path : Symbols, contents : Contents]
Entries == [sourcePath : Symbols, targetKey : Words]

ASSUME ResponsesAssumption == Responses \subseteq [error : BOOLEAN, files : Seq(Files)]

\* A block holds what its type says: no key is labelled CERTIFICATE.  A PFX file
\* has blocks of two types only, which pkcs12.ToPEM gives it.
ASSUME LabelsAssumption ==
  \A r \in Responses : \A n \in DOMAIN r.files :
    LET content == r.files[n].contents
        blocks == content.blocks
    IN  \A b \in DOMAIN blocks :
          /\ IsCert(blocks[b]) => blocks[b].der \notin KeyDERs
          /\ content.format = "pfx" => IsCert(blocks[b]) \/ IsPrivateKey(blocks[b])

\* targetKey is the key of the list spec.data (listMapKey in secretsync_types.go).
ASSUME SpecsAssumption ==
  /\ Specs \subseteq [data : Seq(Entries), type : Symbols, force : Seq(Symbols)]
  /\ \A s \in Specs : \A m, n \in DOMAIN s.data :
       s.data[m].targetKey = s.data[n].targetKey => m = n

ASSUME KeyOrderAssumption ==
  /\ KeyOrder \in Seq(Words)
  /\ \A s \in Specs : \A n \in DOMAIN s.data : s.data[n].targetKey \in ToSet(KeyOrder)

\* UIDs are UUIDs, written with 36 characters each.
ASSUME IdsAssumption ==
  /\ UIDs \subseteq Seq(Symbols)
  /\ \A u, v \in UIDs : Len(u) = Len(v)
  /\ Generations \subseteq Nat

NoData == [k \in {} |-> Error]

Init ==
  /\ response \in Responses
  /\ spec \in Specs
  /\ \E u \in UIDs, v \in UIDs :
       ids = [spcUID |-> u, spcGeneration |-> 1, ssUID |-> v, ssGeneration |-> 1]
  /\ pc = "mount" /\ next = 1
  /\ files = NoData /\ datamap = NoData
  /\ syncHash = <<>> /\ synced = <<>> /\ changed = FALSE
  /\ changes = 0

\* return nil, reason, err of fetchSecretsFromProvider: nothing is kept.
Fail(reason) ==
  /\ pc' = reason
  /\ files' = NoData /\ datamap' = NoData /\ changed' = FALSE
  /\ UNCHANGED <<inputs, next, syncHash, synced>>

\* MountContent: a failed call, an error code, or no object versions.
MountFails ==
  /\ pc = "mount"
  /\ response.error
  /\ Fail("ProviderError")

\* Of two files with one path the last one counts.
MountContent ==
  /\ pc = "mount"
  /\ ~response.error
  /\ files' = [p \in {f.path : f \in ToSet(response.files)} |->
                 response.files[SelectLastInSeq(response.files, LAMBDA f : f.path = p)].contents]
  /\ pc' = "build"
  /\ next' = 1
  /\ datamap' = NoData
  /\ UNCHANGED <<inputs, syncHash, synced, changed>>

Entry == spec.data[next]
Building == pc = "build" /\ next <= Len(spec.data)

\* What one iteration of BuildKubeSecretData stores, if it does not fail.
Part(content, key) ==
  IF spec.type = SecretTypeTLS THEN GetCertPart(content, key) ELSE content

\* Mutant: an entry without a file is skipped.
FileMissing_Skips ==
  /\ Building
  /\ Entry.sourcePath \notin DOMAIN files
  /\ next' = next + 1
  /\ UNCHANGED <<inputs, pc, files, datamap, syncHash, synced, changed>>

FileMissing ==
  /\ Building
  /\ Entry.sourcePath \notin DOMAIN files
  /\ Fail("RemoteSecretStoreFetchFailed")

\* Mutant: the error is logged, and the content of the file stays in the map.
PartFails_GoesOn ==
  /\ Building
  /\ Entry.sourcePath \in DOMAIN files
  /\ Part(files[Entry.sourcePath], Entry.targetKey) = Error
  /\ datamap' = [k \in DOMAIN datamap \cup {Entry.targetKey} |->
                   IF k = Entry.targetKey THEN files[Entry.sourcePath] ELSE datamap[k]]
  /\ next' = next + 1
  /\ UNCHANGED <<inputs, pc, files, syncHash, synced, changed>>

\* The content of the file is in the map already, which is dropped.
PartFails ==
  /\ Building
  /\ Entry.sourcePath \in DOMAIN files
  /\ Part(files[Entry.sourcePath], Entry.targetKey) = Error
  /\ Fail("RemoteSecretStoreFetchFailed")

\* One iteration of BuildKubeSecretData.  Paths and keys have no spaces to trim
\* and are not empty, and no two entries have one key: the API server sees to it.
BuildEntry ==
  /\ Building
  /\ Entry.sourcePath \in DOMAIN files
  /\ LET part == Part(files[Entry.sourcePath], Entry.targetKey)
     IN  /\ part # Error
         /\ datamap' = [k \in DOMAIN datamap \cup {Entry.targetKey} |->
                          IF k = Entry.targetKey THEN part ELSE datamap[k]]
  /\ next' = next + 1
  /\ UNCHANGED <<inputs, pc, files, syncHash, synced, changed>>

\* The data is complete: Reconcile hashes it, and writes the Secret and its status
\* if the hash is not the recorded one (or if a condition has failed: there is
\* nothing else to record then).
Sync ==
  /\ pc = "build" /\ next > Len(spec.data)
  /\ LET currentHash == HashInput(datamap, spec.force, ids)
     IN  /\ changed' = (currentHash # syncHash)
         /\ syncHash' = currentHash
  /\ synced' = <<datamap, spec.force, ids>>
  /\ pc' = "done"
  /\ UNCHANGED <<inputs, next, files, datamap>>

-----------------------------------------------------------------------------
(* Between two fetches *)

Change ==
  /\ pc \notin {"mount", "build"}
  /\ changes < MaxChanges
  /\ changes' = changes + 1
  /\ pc' = "mount" /\ next' = 1
  /\ files' = NoData /\ datamap' = NoData
  /\ UNCHANGED <<syncHash, synced, changed>>

RotateFiles ==
  /\ \E r \in Responses : response' = r
  /\ Change
  /\ UNCHANGED <<spec, ids>>

\* Any number of edits: the generation grows.
EditSecretSync ==
  /\ \E s \in Specs, g \in Generations :
       /\ g > ids.ssGeneration
       /\ spec' = s /\ ids' = [ids EXCEPT !.ssGeneration = g]
  /\ Change
  /\ UNCHANGED response

EditSecretProviderClass ==
  /\ \E g \in Generations : g > ids.spcGeneration /\ ids' = [ids EXCEPT !.spcGeneration = g]
  /\ Change
  /\ UNCHANGED <<response, spec>>

RecreateSecretProviderClass ==
  /\ \E u \in UIDs \ {ids.spcUID} : ids' = [ids EXCEPT !.spcUID = u, !.spcGeneration = 1]
  /\ Change
  /\ UNCHANGED <<response, spec>>

Next ==
  \/ MountFails
  \/ MountContent
  \/ FileMissing
  \/ PartFails
  \/ BuildEntry
  \/ Sync
  \/ RotateFiles
  \/ EditSecretSync
  \/ EditSecretProviderClass
  \/ RecreateSecretProviderClass

Spec == Init /\ [][Next]_vars

-----------------------------------------------------------------------------
(* Properties *)

\* The hash changes exactly when the data, the SecretProviderClass or the
\* SecretSync is another one than at the last sync: the bytes that are hashed tell
\* all of them apart (lines 373-392), whatever fetches have failed in between.
HashTellsChange ==
  [][ pc # "done" /\ pc' = "done" =>
        (changed' <=> synced # <<datamap, spec.force, ids>>) ]_vars

\* The blocks of a file that hold a key.
KeyBlocks(content) == {n \in DOMAIN content.blocks : content.blocks[n].der \in KeyDERs}

\* A TLS Secret has its parts apart: tls.crt never carries a private key and
\* tls.key never a certificate, although the whole file is stored under the key
\* first (line 173).
PartsApart ==
  pc = "done" /\ spec.type = SecretTypeTLS =>
    /\ TLSCertKey \in DOMAIN datamap => KeyBlocks(datamap[TLSCertKey]) = {}
    /\ TLSPrivateKeyKey \in DOMAIN datamap =>
         \A n \in DOMAIN datamap[TLSPrivateKeyKey].blocks :
           NotCert(datamap[TLSPrivateKeyKey].blocks[n])

\* A Secret is written with a part for every entry of the spec and for nothing
\* else, in whatever order the entries are: one missing file or one bad part and
\* nothing of the fetch is used (fetchSecretsFromProvider, lines 271-276).
DataComplete ==
  pc = "done" =>
    /\ DOMAIN datamap = {e.targetKey : e \in ToSet(spec.data)}
    /\ \A e \in ToSet(spec.data) :
         datamap[e.targetKey] = Part(files[e.sourcePath], e.targetKey)

\* The algorithm of the key that a file with one supported key holds.
Algorithm(content) ==
  LET der == content.blocks[CHOOSE n \in KeyBlocks(content) : TRUE].der
  IN  IF der \in {"PKCS1 RSA", "PKCS8 RSA"} THEN "RSA" ELSE "EC"

\* A file with one supported key and otherwise only certificates gives this key
\* as tls.key, whether it is PEM or PFX, before or after the certificates, and
\* in whichever of the three encodings (getPrivateKey, lines 86-153).
KeyPreserved ==
  pc = "done" /\ spec.type = SecretTypeTLS =>
    \A e \in ToSet(spec.data) :
      LET content == files[e.sourcePath]
          part == datamap[e.targetKey].blocks
      IN  (/\ e.targetKey = TLSPrivateKeyKey
           /\ Cardinality(KeyBlocks(content)) = 1
           /\ \A n \in DOMAIN content.blocks : n \in KeyBlocks(content)
                                               \/ IsCert(content.blocks[n]))
          => /\ Len(part) = 1
             /\ part[1] = IF Algorithm(content) = "RSA"
                          THEN [type |-> privateKeyTypeRSA, der |-> "PKCS1 RSA"]
                          ELSE [type |-> privateKeyTypeEC, der |-> "SEC1 EC"]
=============================================================================
