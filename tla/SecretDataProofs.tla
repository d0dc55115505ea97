-------------------------- MODULE SecretDataProofs --------------------------
(***************************************************************************)
(* The data of a Secret is complete and its parts are the right ones, for  *)
(* files with any number of blocks and specs with any number of entries.   *)
(***************************************************************************)
EXTENDS SecretData, TLAPS, WellFoundedInduction, SequenceTheorems, FiniteSetTheorems

-----------------------------------------------------------------------------
(* Induction, with sets in place of predicates *)

\* A set of naturals has a least member.
LEMMA LeastNat ==
  ASSUME NEW T, T \subseteq Nat, T # {}
  PROVE  \E x \in T : \A y \in T : x <= y
<1>1. \E x \in T : \A y \in T : <<y, x>> \notin OpToRel(<, Nat)
  BY WFMin, NatLessThanWellFounded
<1>2. \A x, y \in T : <<y, x>> \notin OpToRel(<, Nat) => x <= y
  BY DEF OpToRel
<1> QED
  BY <1>1, <1>2

\* A set that has 0, and with each natural its successor, has all of them.
LEMMA SetInduction ==
  ASSUME NEW T, 0 \in T, \A n \in Nat : n \in T => n + 1 \in T
  PROVE  Nat \subseteq T
<1> SUFFICES ASSUME Nat \ T # {} PROVE FALSE
  OBVIOUS
<1>1. PICK x \in Nat \ T : \A y \in Nat \ T : x <= y
  BY LeastNat
<1>2. x - 1 \in Nat
  BY <1>1
<1>3. x - 1 \in T
  BY <1>2, <1>1
<1> QED
  BY <1>2, <1>3

\* A set of positions has a last one, as SelectLastInSeq assumes.
LEMMA LastPosition ==
  ASSUME NEW k \in Nat, NEW I, I \subseteq 1 .. k, I # {}
  PROVE  Max(I) \in I /\ \A i \in I : Max(I) >= i
<1> DEFINE T == {j \in Nat : k - j \in I}
<1>1. PICK i \in I : i \in 1 .. k
  OBVIOUS
<1>2. k - i \in T
  BY <1>1
<1>3. PICK x \in T : \A y \in T : x <= y
  BY <1>2, LeastNat
<1>4. ASSUME NEW n \in I PROVE k - x >= n
  <2>1. k - n \in T
    OBVIOUS
  <2> QED
    BY <2>1, <1>3
<1> HIDE DEF T
<1>5. k - x \in I
  BY DEF T
<1> QED
  BY <1>4, <1>5 DEF Max

-----------------------------------------------------------------------------
(* A loop that builds a sequence *)

\* f[i] is what i iterations of a loop leave that starts with a: step says what
\* an iteration makes of what the one before left.
IsLoop(f, n, a, step) == f[0] = a /\ \A i \in 1 .. n : f[i] = step[<<f[i - 1], i>>]

\* Every loop has its results.
LEMMA LoopExists ==
  ASSUME NEW A, NEW a \in A, NEW step \in [A \X Nat -> A]
  PROVE  \A n \in Nat : \E f \in [0 .. n -> A] : IsLoop(f, n, a, step)
<1> USE DEF IsLoop
<1> DEFINE T == {n \in Nat : \E f \in [0 .. n -> A] : IsLoop(f, n, a, step)}
<1>1. 0 \in T
  <2>1. [i \in 0 .. 0 |-> a] \in [0 .. 0 -> A] /\ IsLoop([i \in 0 .. 0 |-> a], 0, a, step)
    OBVIOUS
  <2> QED
    BY <2>1
<1>2. ASSUME NEW n \in Nat, n \in T PROVE n + 1 \in T
  <2>1. PICK f \in [0 .. n -> A] : IsLoop(f, n, a, step)
    BY <1>2
  <2> DEFINE b == step[<<f[n], n + 1>>]
             g == [i \in 0 .. n + 1 |-> IF i = n + 1 THEN b ELSE f[i]]
  <2>2. b \in A
    OBVIOUS
  <2>3. g \in [0 .. n + 1 -> A]
    BY <2>2
  <2>4. g[0] = a
    BY <2>1
  <2>5. ASSUME NEW i \in 1 .. n + 1 PROVE g[i] = step[<<g[i - 1], i>>]
    <3>1. CASE i = n + 1
      <4>1. g[i] = b /\ g[i - 1] = f[n]
        BY <3>1
      <4> QED
        BY <4>1, <3>1
    <3>2. CASE i # n + 1
      <4>1. i \in 1 .. n
        BY <3>2
      <4>2. g[i] = f[i] /\ g[i - 1] = f[i - 1]
        BY <4>1
      <4> QED
        BY <4>1, <4>2, <2>1
    <3> QED
      BY <3>1, <3>2
  <2> HIDE DEF g
  <2> QED
    BY <2>3, <2>4, <2>5
<1>3. Nat \subseteq T
  <2> HIDE DEF T
  <2> QED
    BY <1>1, <1>2, SetInduction
<1> QED
  BY <1>3

\* getCert collects blocks of the file, and only those of type CERTIFICATE.
LEMMA CertsAreCerts ==
  ASSUME NEW B, NEW blocks \in Seq(B)
  PROVE  Certs(blocks) \in Seq({b \in B : IsCert(b) /\ \E n \in DOMAIN blocks : b = blocks[n]})
<1> DEFINE N == Len(blocks)
           C == {b \in B : IsCert(b) /\ \E n \in DOMAIN blocks : b = blocks[n]}
           A == Seq(C)
           Unfolds(g) == g = [n \in 0 .. N |->
             IF n = 0 THEN <<>>
             ELSE IF IsCert(blocks[n]) THEN Append(g[n - 1], blocks[n]) ELSE g[n - 1]]
           step == [p \in A \X Nat |->
             IF p[2] \in 1 .. N /\ IsCert(blocks[p[2]]) THEN Append(p[1], blocks[p[2]]) ELSE p[1]]
<1>1. N \in Nat /\ DOMAIN blocks = 1 .. N
  OBVIOUS
<1>2. step \in [A \X Nat -> A]
  <2>1. ASSUME NEW q \in A, NEW n \in 1 .. N, IsCert(blocks[n])
        PROVE  Append(q, blocks[n]) \in A
    <3>1. blocks[n] \in C
      BY <1>1, <2>1
    <3> HIDE DEF C
    <3> QED
      BY <3>1
  <2> HIDE DEF A
  <2> QED
    BY <2>1
<1>3. <<>> \in A
  <2> HIDE DEF C
  <2> QED
    OBVIOUS
<1> HIDE DEF A
<1>4. PICK f \in [0 .. N -> A] : f[0] = <<>> /\ \A i \in 1 .. N : f[i] = step[<<f[i - 1], i>>]
  <2> DEFINE empty == <<>>
  <2>1. empty \in A
    BY <1>3
  <2> HIDE DEF step, N, empty
  <2>2. \A n \in Nat : \E f \in [0 .. n -> A] : IsLoop(f, n, empty, step)
    BY <1>2, <2>1, LoopExists, Zenon
  <2> QED
    BY <1>1, <2>2 DEF empty, IsLoop
<1>5. \A i \in 1 .. N : f[i] = IF IsCert(blocks[i]) THEN Append(f[i - 1], blocks[i]) ELSE f[i - 1]
  <2> SUFFICES ASSUME NEW i \in 1 .. N
               PROVE  f[i] = IF IsCert(blocks[i]) THEN Append(f[i - 1], blocks[i]) ELSE f[i - 1]
    OBVIOUS
  <2>1. <<f[i - 1], i>> \in A \X Nat
    BY <1>1
  <2>2. f[i] = step[<<f[i - 1], i>>]
    BY <1>4
  <2> QED
    BY <2>1, <2>2
<1> HIDE DEF step
<1>6. Unfolds(f)
  <2>1. ASSUME NEW n \in 0 .. N
        PROVE  f[n] = IF n = 0 THEN <<>>
                      ELSE IF IsCert(blocks[n]) THEN Append(f[n - 1], blocks[n]) ELSE f[n - 1]
    <3>1. n = 0 \/ n \in 1 .. N
      BY <1>1
    <3> QED
      BY <3>1, <1>4, <1>5
  <2>2. f = [n \in 0 .. N |-> f[n]]
    OBVIOUS
  <2> QED
    BY <2>1, <2>2, Zenon
<1>7. ASSUME NEW g, Unfolds(g) PROVE g[N] = f[N]
  <2> DEFINE T == {n \in Nat : n <= N => g[n] = f[n]}
  <2>1. 0 \in T
    BY <1>1, <1>4, <1>7
  <2>2. ASSUME NEW n \in Nat, n \in T PROVE n + 1 \in T
    <3> SUFFICES ASSUME n + 1 <= N PROVE g[n + 1] = f[n + 1]
      OBVIOUS
    <3>1. g[n] = f[n] /\ n + 1 \in 1 .. N /\ (n + 1) - 1 = n
      BY <1>1, <2>2
    <3>2. n + 1 \in 0 .. N /\ n + 1 # 0
      BY <3>1, <1>1
    <3>3. g[n + 1] = IF IsCert(blocks[n + 1]) THEN Append(g[(n + 1) - 1], blocks[n + 1])
                     ELSE g[(n + 1) - 1]
      BY <3>2, <1>7, Zenon
    <3> QED
      BY <3>1, <3>3, <1>5
  <2>3. Nat \subseteq T
    <3> HIDE DEF T
    <3> QED
      BY <2>1, <2>2, SetInduction
  <2> QED
    BY <1>1, <2>3
<1>8. Certs(blocks) = (CHOOSE g : Unfolds(g))[N]
  BY Zenon DEF Certs
<1>9. Unfolds(CHOOSE g : Unfolds(g))
  BY <1>6
<1> HIDE DEF Unfolds
<1>10. Certs(blocks) = f[N]
  BY <1>7, <1>8, <1>9
<1> QED
  BY <1>1, <1>4, <1>10 DEF A

-----------------------------------------------------------------------------
(* The parts of a file *)

\* A file as the provider sends it, with its blocks labelled.
Labelled(content) ==
  /\ content \in Contents
  /\ \A n \in DOMAIN content.blocks :
       /\ IsCert(content.blocks[n]) => content.blocks[n].der \notin KeyDERs
       /\ content.format = "pfx" => IsCert(content.blocks[n]) \/ IsPrivateKey(content.blocks[n])

\* The certificates of a file hold no key.
LEMMA CertsHoldNoKey ==
  ASSUME NEW content, Labelled(content)
  PROVE  KeyBlocks(PEM(Certs(content.blocks))) = {}
<1> DEFINE blocks == content.blocks
           certs == Certs(blocks)
           C == {b \in Blocks : IsCert(b) /\ \E n \in DOMAIN blocks : b = blocks[n]}
<1>1. blocks \in Seq(Blocks)
  BY DEF Labelled, Contents
<1>2. certs \in Seq(C)
  BY <1>1, CertsAreCerts
<1>3. \A b \in C : b.der \notin KeyDERs
  BY DEF Labelled
<1> HIDE DEF C, certs
<1>4. \A n \in DOMAIN certs : certs[n] \in C
  BY <1>2
<1>5. KeyBlocks(PEM(certs)) = {n \in DOMAIN certs : certs[n].der \in KeyDERs}
  BY DEF KeyBlocks, PEM
<1> QED
  BY <1>3, <1>4, <1>5 DEF certs

\* tls.crt carries no key, whether the file is PEM or PFX.
LEMMA CertPart ==
  ASSUME NEW content, Labelled(content), getCert(content) # Error
  PROVE  KeyBlocks(getCert(content)) = {}
<1>1. content.format = "pfx" \/ ToPEM(content) = Error
  BY DEF ToPEM
<1>2. getCert(content) = PEM(Certs(content.blocks))
  BY <1>1 DEF getCert, ToPEM
<1> QED
  BY <1>2, CertsHoldNoKey

\* tls.key is one block, of a type for keys.
LEMMA KeyPart ==
  ASSUME NEW content, getPrivateKey(content) # Error
  PROVE  \A n \in DOMAIN getPrivateKey(content).blocks : NotCert(getPrivateKey(content).blocks[n])
<1>1. \/ getPrivateKey(content) = PEM(<<[type |-> privateKeyTypeRSA, der |-> "PKCS1 RSA"]>>)
      \/ getPrivateKey(content) = PEM(<<[type |-> privateKeyTypeEC, der |-> "SEC1 EC"]>>)
      \/ getPrivateKey(content) = PEM(<<[type |-> privateKeyType, der |-> ""]>>)
  BY DEF getPrivateKey
<1>2. ASSUME NEW type, NEW der, type # certType
      PROVE  LET blocks == PEM(<<[type |-> type, der |-> der]>>).blocks
             IN  \A n \in DOMAIN blocks : NotCert(blocks[n])
  BY <1>2 DEF PEM, NotCert, IsCert
<1>3. certType \notin {privateKeyTypeRSA, privateKeyTypeEC, privateKeyType}
  BY DEF certType, privateKeyType, privateKeyTypeRSA, privateKeyTypeEC
<1> QED
  BY <1>1, <1>2, <1>3

\* A file with one key and otherwise certificates gives this key.
LEMMA SingleKey ==
  ASSUME NEW content, Labelled(content),
         Cardinality(KeyBlocks(content)) = 1,
         \A n \in DOMAIN content.blocks : n \in KeyBlocks(content) \/ IsCert(content.blocks[n]),
         getPrivateKey(content) # Error
  PROVE  /\ KeyDER(content) \in KeyDERs \ {"PKCS8 other"}
         /\ \A n \in KeyBlocks(content) : content.blocks[n].der = KeyDER(content)
<1> DEFINE blocks == content.blocks
           K == KeyBlocks(content)
<1>1. blocks \in Seq(Blocks) /\ Len(blocks) \in Nat /\ DOMAIN blocks = 1 .. Len(blocks)
  BY DEF Labelled, Contents
<1>2. IsFiniteSet(K)
  <2>1. IsFiniteSet(1 .. Len(blocks))
    BY <1>1, FS_Interval
  <2>2. K \subseteq 1 .. Len(blocks)
    BY <1>1 DEF KeyBlocks
  <2> QED
    BY <2>1, <2>2, FS_Subset
<1>3. PICK k : K = {k}
  BY <1>2, FS_Singleton
<1>4. k \in 1 .. Len(blocks) /\ blocks[k].der \in KeyDERs
  BY <1>1, <1>3 DEF KeyBlocks
<1>5. {n \in 1 .. Len(blocks) : NotCert(blocks[n])} = {k}
  BY <1>1, <1>3, <1>4 DEF NotCert, Labelled
<1>6. /\ SelectLastInSeq(blocks, NotCert) = k
      /\ content.format = "pfx" => SelectLastInSeq(blocks, IsPrivateKey) = k
  <2>1. Max({k}) = k
    BY <1>4 DEF Max
  <2>2. SelectLastInSeq(blocks, NotCert) = k
    BY <1>5, <2>1 DEF SelectLastInSeq
  <2>3. ASSUME content.format = "pfx" PROVE SelectLastInSeq(blocks, IsPrivateKey) = k
    <3>1. \A n \in 1 .. Len(blocks) : IsPrivateKey(blocks[n]) <=> NotCert(blocks[n])
      BY <1>1, <2>3 DEF Labelled, NotCert, IsCert, IsPrivateKey, certType, privateKeyType
    <3>2. {n \in 1 .. Len(blocks) : IsPrivateKey(blocks[n])} = {k}
      BY <1>5, <3>1
    <3> QED
      BY <2>1, <3>2 DEF SelectLastInSeq
  <2> QED
    BY <2>2, <2>3
<1>7. CASE content.format = "raw"
  <2>1. KeyDER(content) = "nil"
    BY <1>7 DEF KeyDER, ToPEM, Error, SelectLastInSeq
  <2> QED
    BY <2>1, <1>7 DEF getPrivateKey
<1>8. CASE content.format # "raw"
  <2>1. content.format \in {"pem", "pfx"}
    BY <1>8 DEF Labelled, Contents
  <2>2. KeyDER(content) = blocks[k].der
    BY <2>1, <1>4, <1>6 DEF KeyDER, ToPEM
  <2> QED
    BY <2>2, <1>3, <1>4 DEF getPrivateKey, KeyDERs
<1> QED
  BY <1>7, <1>8

\* The block that tls.key has then is of the type of this key.
LEMMA SingleKeyPart ==
  ASSUME NEW content, Labelled(content),
         Cardinality(KeyBlocks(content)) = 1,
         \A n \in DOMAIN content.blocks : n \in KeyBlocks(content) \/ IsCert(content.blocks[n]),
         getPrivateKey(content) # Error
  PROVE  /\ Len(getPrivateKey(content).blocks) = 1
         /\ getPrivateKey(content).blocks[1]
              = IF Algorithm(content) = "RSA"
                THEN [type |-> privateKeyTypeRSA, der |-> "PKCS1 RSA"]
                ELSE [type |-> privateKeyTypeEC, der |-> "SEC1 EC"]
<1> DEFINE der == KeyDER(content)
<1>1. /\ der \in KeyDERs \ {"PKCS8 other"}
      /\ \A n \in KeyBlocks(content) : content.blocks[n].der = der
  BY SingleKey
<1>2. (CHOOSE n \in KeyBlocks(content) : TRUE) \in KeyBlocks(content)
  <2>1. KeyBlocks(content) # {}
    BY FS_EmptySet
  <2> QED
    BY <2>1
<1>3. Algorithm(content) = IF der \in {"PKCS1 RSA", "PKCS8 RSA"} THEN "RSA" ELSE "EC"
  BY <1>1, <1>2 DEF Algorithm
<1>4. ASSUME NEW block PROVE PEM(<<block>>).blocks = <<block>>
  BY DEF PEM
<1>5. ASSUME NEW block PROVE Len(<<block>>) = 1 /\ <<block>>[1] = block
  OBVIOUS
<1>6. CASE der \in {"PKCS1 RSA", "PKCS8 RSA"}
  <2>1. getPrivateKey(content) = PEM(<<[type |-> privateKeyTypeRSA, der |-> "PKCS1 RSA"]>>)
    BY <1>6 DEF getPrivateKey
  <2>2. getPrivateKey(content).blocks = <<[type |-> privateKeyTypeRSA, der |-> "PKCS1 RSA"]>>
    BY <2>1, <1>4
  <2>3. Algorithm(content) = "RSA"
    BY <1>3, <1>6
  <2> QED
    BY <2>2, <2>3, <1>5
<1>7. CASE der \notin {"PKCS1 RSA", "PKCS8 RSA"}
  <2>1. getPrivateKey(content) = PEM(<<[type |-> privateKeyTypeEC, der |-> "SEC1 EC"]>>)
    BY <1>1, <1>7 DEF getPrivateKey, KeyDERs
  <2>2. getPrivateKey(content).blocks = <<[type |-> privateKeyTypeEC, der |-> "SEC1 EC"]>>
    BY <2>1, <1>4
  <2>3. Algorithm(content) = "EC"
    BY <1>3, <1>7
  <2> QED
    BY <2>2, <2>3, <1>5
<1> QED
  BY <1>6, <1>7

-----------------------------------------------------------------------------
(* The fetch *)

\* The files are those that the provider sent.
FilesOK == \A p \in DOMAIN files : Labelled(files[p])

\* The entries before the next one have their part in the map, and nothing else
\* is there.
BuiltOK ==
  /\ next \in 1 .. Len(spec.data) + 1
  /\ DOMAIN datamap = {spec.data[n].targetKey : n \in 1 .. next - 1}
  /\ \A n \in 1 .. next - 1 :
       /\ spec.data[n].sourcePath \in DOMAIN files
       /\ datamap[spec.data[n].targetKey]
            = Part(files[spec.data[n].sourcePath], spec.data[n].targetKey)
       /\ datamap[spec.data[n].targetKey] # Error

DataInv ==
  /\ response \in Responses
  /\ spec \in Specs
  /\ pc \in {"build", "done"} => FilesOK /\ BuiltOK
  /\ pc = "done" => next = Len(spec.data) + 1

\* DataInv holds before the first fetch.
LEMMA DataInit == Init => DataInv
BY DEF Init, DataInv

\* The fields of a spec have their types.
LEMMA SpecTypes ==
  ASSUME NEW s \in Specs
  PROVE  /\ s.data \in Seq(Entries)
         /\ Len(s.data) \in Nat
         /\ DOMAIN s.data = 1 .. Len(s.data)
         /\ \A m, n \in 1 .. Len(s.data) : s.data[m].targetKey = s.data[n].targetKey => m = n
<1>1. s.data \in Seq(Entries)
  BY SpecsAssumption
<1>2. Len(s.data) \in Nat /\ DOMAIN s.data = 1 .. Len(s.data)
  BY <1>1
<1> QED
  BY <1>1, <1>2, SpecsAssumption

\* MountContent keeps of each path the last file of the answer.
LEMMA FilesLabelled ==
  ASSUME DataInv, MountContent
  PROVE  FilesOK'
<1> DEFINE sent == response.files
           LastOf(p) == SelectLastInSeq(sent, LAMBDA f : f.path = p)
<1>1. response \in Responses /\ sent \in Seq(Files) /\ DOMAIN sent = 1 .. Len(sent)
      /\ Len(sent) \in Nat
  BY ResponsesAssumption DEF DataInv
<1>2. ASSUME NEW p \in DOMAIN files'
      PROVE  Labelled(files'[p])
  <2>1. files'[p] = sent[LastOf(p)].contents /\ \E f \in ToSet(sent) : f.path = p
    BY DEF MountContent
  <2> DEFINE I == {n \in 1 .. Len(sent) : sent[n].path = p}
  <2>2. I # {} /\ I \subseteq 1 .. Len(sent)
    BY <2>1, <1>1 DEF ToSet
  <2>3. LastOf(p) = Max(I)
    BY <2>2 DEF SelectLastInSeq
  <2>4. LastOf(p) \in 1 .. Len(sent)
    <3> HIDE DEF I
    <3> QED
      BY <1>1, <2>2, <2>3, LastPosition
  <2> HIDE DEF LastOf
  <2>5. sent[LastOf(p)] \in Files
    BY <1>1, <2>4
  <2> QED
    BY <1>1, <2>1, <2>4, <2>5, LabelsAssumption DEF Labelled, Files
<1> QED
  BY <1>2 DEF FilesOK

\* One iteration of BuildKubeSecretData adds the part of its entry and keeps the
\* parts of the entries before, whose keys are other ones.
LEMMA BuildEntryStep ==
  ASSUME DataInv, BuildEntry
  PROVE  BuiltOK'
<1> DEFINE data == spec.data
           part == Part(files[Entry.sourcePath], Entry.targetKey)
<1>1. /\ pc = "build" /\ next <= Len(data)
      /\ Entry.sourcePath \in DOMAIN files
      /\ part # Error
      /\ datamap' = [k \in DOMAIN datamap \cup {Entry.targetKey} |->
                       IF k = Entry.targetKey THEN part ELSE datamap[k]]
      /\ next' = next + 1
      /\ spec' = spec /\ files' = files
  BY DEF BuildEntry, Building, inputs
<1>2. BuiltOK /\ spec \in Specs
  BY <1>1 DEF DataInv
<1>3. Len(data) \in Nat /\ \A m, n \in 1 .. Len(data) : data[m].targetKey = data[n].targetKey => m = n
  BY <1>2, SpecTypes
<1>4. next \in 1 .. Len(data)
  BY <1>1, <1>2, <1>3 DEF BuiltOK
<1>5. next' \in 1 .. Len(data) + 1
  BY <1>1, <1>3, <1>4
<1>6. 1 .. next' - 1 = (1 .. next - 1) \cup {next}
  BY <1>1, <1>4
<1>7. DOMAIN datamap' = {data[n].targetKey : n \in 1 .. next' - 1}
  BY <1>1, <1>2, <1>6 DEF BuiltOK, Entry
<1>8. ASSUME NEW n \in 1 .. next' - 1
      PROVE  /\ data[n].sourcePath \in DOMAIN files
             /\ datamap'[data[n].targetKey] = Part(files[data[n].sourcePath], data[n].targetKey)
             /\ datamap'[data[n].targetKey] # Error
  <2>1. CASE n = next
    BY <2>1, <1>1 DEF Entry
  <2>2. CASE n # next
    <3>1. n \in 1 .. next - 1
      BY <2>2, <1>6
    <3>2. data[n].targetKey # Entry.targetKey
      BY <3>1, <2>2, <1>3, <1>4 DEF Entry
    <3>3. data[n].targetKey \in DOMAIN datamap
      BY <3>1, <1>2 DEF BuiltOK
    <3>4. datamap'[data[n].targetKey] = datamap[data[n].targetKey]
      BY <3>2, <3>3, <1>1
    <3> QED
      BY <3>1, <3>4, <1>2 DEF BuiltOK
  <2> QED
    BY <2>1, <2>2
<1>9. spec' = spec /\ files' = files
  BY <1>1
<1>10. ASSUME NEW n \in 1 .. next' - 1
       PROVE  Part(files[data[n].sourcePath], data[n].targetKey)'
                = Part(files[data[n].sourcePath], data[n].targetKey)
  BY <1>9 DEF Part
<1> QED
  BY <1>5, <1>7, <1>8, <1>9, <1>10 DEF BuiltOK

\* Every step preserves DataInv.
LEMMA DataStep == DataInv /\ [Next]_vars => DataInv'
<1> SUFFICES ASSUME DataInv, [Next]_vars PROVE DataInv'
  OBVIOUS
<1>1. Len(spec.data) \in Nat
  BY SpecTypes DEF DataInv
<1>2. CASE MountFails
  BY <1>2 DEF DataInv, MountFails, Fail, inputs
<1>3. CASE MountContent
  <2>1. BuiltOK'
    BY <1>1, <1>3 DEF MountContent, BuiltOK, NoData, inputs
  <2> QED
    BY <1>3, <2>1, FilesLabelled DEF DataInv, MountContent, inputs
<1>4. CASE FileMissing
  BY <1>4 DEF DataInv, FileMissing, Fail, inputs
<1>5. CASE PartFails
  BY <1>5 DEF DataInv, PartFails, Fail, inputs
<1>6. CASE BuildEntry
  BY <1>6, BuildEntryStep DEF DataInv, BuildEntry, Building, FilesOK, inputs
<1>7. CASE Sync
  <2>1. next = Len(spec.data) + 1
    BY <1>1, <1>7 DEF DataInv, Sync, BuiltOK
  <2> QED
    BY <2>1, <1>7 DEF DataInv, Sync, FilesOK, BuiltOK, Part, inputs
<1>8. CASE RotateFiles
  BY <1>8 DEF DataInv, RotateFiles, Change
<1>9. CASE EditSecretSync
  BY <1>9 DEF DataInv, EditSecretSync, Change
<1>10. CASE EditSecretProviderClass
  BY <1>10 DEF DataInv, EditSecretProviderClass, Change
<1>11. CASE RecreateSecretProviderClass
  BY <1>11 DEF DataInv, RecreateSecretProviderClass, Change
<1>12. CASE UNCHANGED vars
  BY <1>12 DEF DataInv, FilesOK, BuiltOK, Part, vars
<1> QED
  BY <1>2, <1>3, <1>4, <1>5, <1>6, <1>7, <1>8, <1>9, <1>10, <1>11, <1>12 DEF Next

-----------------------------------------------------------------------------
(* Theorems *)

\* At the end of a fetch every entry of the spec has its part.
LEMMA AllBuilt ==
  ASSUME DataInv, pc = "done"
  PROVE  /\ DOMAIN datamap = {e.targetKey : e \in ToSet(spec.data)}
         /\ \A e \in ToSet(spec.data) :
              /\ e.sourcePath \in DOMAIN files
              /\ Labelled(files[e.sourcePath])
              /\ datamap[e.targetKey] = Part(files[e.sourcePath], e.targetKey)
              /\ datamap[e.targetKey] # Error
<1>1. next - 1 = Len(spec.data) /\ BuiltOK /\ FilesOK /\ DOMAIN spec.data = 1 .. Len(spec.data)
  BY SpecTypes DEF DataInv
<1>2. ToSet(spec.data) = {spec.data[n] : n \in 1 .. Len(spec.data)}
  BY <1>1 DEF ToSet
<1>3. DOMAIN datamap = {e.targetKey : e \in ToSet(spec.data)}
  BY <1>1, <1>2 DEF BuiltOK
<1>4. ASSUME NEW e \in ToSet(spec.data)
      PROVE  /\ e.sourcePath \in DOMAIN files
             /\ Labelled(files[e.sourcePath])
             /\ datamap[e.targetKey] = Part(files[e.sourcePath], e.targetKey)
             /\ datamap[e.targetKey] # Error
  <2>1. PICK n \in 1 .. next - 1 : e = spec.data[n]
    BY <1>1, <1>2
  <2> QED
    BY <1>1, <2>1 DEF BuiltOK, FilesOK
<1> QED
  BY <1>3, <1>4

\* A Secret is written with the part of every entry of the spec and with nothing
\* else, for specs of any length and files of any content.
THEOREM DataCompleteHolds == Spec => []DataComplete
<1>1. DataInv => DataComplete
  BY AllBuilt DEF DataComplete
<1> QED
  BY <1>1, DataInit, DataStep, PTL DEF Spec

\* In a TLS Secret tls.crt carries no key and tls.key no certificate, for files
\* with any number of blocks in any order.
THEOREM PartsApartHolds == Spec => []PartsApart
<1>1. DataInv => PartsApart
  <2> SUFFICES ASSUME DataInv, pc = "done", spec.type = SecretTypeTLS
               PROVE  /\ TLSCertKey \in DOMAIN datamap => KeyBlocks(datamap[TLSCertKey]) = {}
                      /\ TLSPrivateKeyKey \in DOMAIN datamap =>
                           \A n \in DOMAIN datamap[TLSPrivateKeyKey].blocks :
                             NotCert(datamap[TLSPrivateKeyKey].blocks[n])
    BY DEF PartsApart
  <2>1. ASSUME NEW key \in DOMAIN datamap
        PROVE  \E p \in DOMAIN files : /\ Labelled(files[p])
                                       /\ datamap[key] = GetCertPart(files[p], key)
                                       /\ datamap[key] # Error
    BY AllBuilt DEF Part
  <2>2. ASSUME TLSCertKey \in DOMAIN datamap PROVE KeyBlocks(datamap[TLSCertKey]) = {}
    BY <2>1, <2>2, CertPart DEF GetCertPart, TLSCertKey, TLSPrivateKeyKey
  <2>3. ASSUME TLSPrivateKeyKey \in DOMAIN datamap,
               NEW n \in DOMAIN datamap[TLSPrivateKeyKey].blocks
        PROVE  NotCert(datamap[TLSPrivateKeyKey].blocks[n])
    BY <2>1, <2>3, KeyPart DEF GetCertPart, TLSCertKey, TLSPrivateKeyKey
  <2> QED
    BY <2>2, <2>3
<1> QED
  BY <1>1, DataInit, DataStep, PTL DEF Spec

\* A file with one supported key and otherwise certificates gives this key as
\* tls.key, wherever it stands in the file and however it is encoded.
THEOREM KeyPreservedHolds == Spec => []KeyPreserved
<1>1. DataInv => KeyPreserved
  <2> SUFFICES ASSUME DataInv, pc = "done", spec.type = SecretTypeTLS,
                      NEW e \in ToSet(spec.data),
                      e.targetKey = TLSPrivateKeyKey,
                      Cardinality(KeyBlocks(files[e.sourcePath])) = 1,
                      \A n \in DOMAIN files[e.sourcePath].blocks :
                        \/ n \in KeyBlocks(files[e.sourcePath])
                        \/ IsCert(files[e.sourcePath].blocks[n])
               PROVE  LET part == datamap[e.targetKey].blocks
                      IN  /\ Len(part) = 1
                          /\ part[1] = IF Algorithm(files[e.sourcePath]) = "RSA"
                                       THEN [type |-> privateKeyTypeRSA, der |-> "PKCS1 RSA"]
                                       ELSE [type |-> privateKeyTypeEC, der |-> "SEC1 EC"]
    BY Zenon DEF KeyPreserved
  <2>1. /\ Labelled(files[e.sourcePath])
        /\ datamap[e.targetKey] = Part(files[e.sourcePath], e.targetKey)
        /\ datamap[e.targetKey] # Error
    BY AllBuilt
  <2>2. datamap[e.targetKey] = getPrivateKey(files[e.sourcePath])
    BY <2>1 DEF Part, GetCertPart, TLSPrivateKeyKey, TLSCertKey
  <2> QED
    BY <2>1, <2>2, SingleKeyPart
<1> QED
  BY <1>1, DataInit, DataStep, PTL DEF Spec
=============================================================================
