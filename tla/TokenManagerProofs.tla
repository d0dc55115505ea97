------------------------- MODULE TokenManagerProofs -------------------------
(***************************************************************************)
(* Proofs about TokenManager, for every number of callers, accounts and    *)
(* audiences and every length of the run.                                  *)
(***************************************************************************)
EXTENDS TokenManager, TLAPS

\* A call that is at an audience has one.
PhaseOK ==
  \A w \in Workers :
    /\ pc[w] \in {"get", "request", "set"} => Audiences # <<>>
    /\ pc[w] = "set" => token[w] # None

TypeInv == TypeOK /\ PhaseOK

\* The position of a call is one of Audiences, as long as there are any.
LEMMA AudienceType ==
  ASSUME NEW i \in 1 .. (IF Audiences = <<>> THEN 1 ELSE Len(Audiences)), Audiences # <<>>
  PROVE  i \in DOMAIN Audiences /\ Audiences[i] \in AudienceSet
  BY AudiencesAssumption DEF AudienceSet

\* Init satisfies the type invariant.
LEMMA TypeInit == Init => TypeInv
  <1>1. 1 \in 1 .. (IF Audiences = <<>> THEN 1 ELSE Len(Audiences))
    BY AudiencesAssumption
  <1> QED BY <1>1 DEF Init, TypeInv, TypeOK, PhaseOK

\* Obtained stores the token and moves on by one audience at most.
LEMMA ObtainedType ==
  ASSUME TypeInv, NEW w \in Workers, pc[w] \in {"get", "request", "set"},
         NEW t \in Tokens, Obtained(w, t)
  PROVE  /\ pc' \in [Workers -> {"idle", "get", "request", "set", "return"}]
         /\ index' \in [Workers -> 1 .. (IF Audiences = <<>> THEN 1 ELSE Len(Audiences))]
         /\ token' \in [Workers -> Tokens \cup {None}]
         /\ outputs' \in [Workers -> [AudienceSet -> Tokens \cup {None}]]
         /\ account' = account
         /\ PhaseOK'
  <1>1. /\ Audiences # <<>> /\ index[w] \in DOMAIN Audiences /\ audience(w) \in AudienceSet
        /\ Len(Audiences) \in Nat /\ DOMAIN Audiences = 1 .. Len(Audiences)
    BY AudienceType, AudiencesAssumption DEF TypeInv, TypeOK, PhaseOK, audience
  <1>2. outputs' \in [Workers -> [AudienceSet -> Tokens \cup {None}]]
    BY <1>1 DEF Obtained, TypeInv, TypeOK
  <1>3. CASE index[w] = Len(Audiences)
    BY <1>1, <1>2, <1>3 DEF Obtained, TypeInv, TypeOK, PhaseOK
  <1>4. CASE index[w] # Len(Audiences)
    <2>1. index[w] + 1 \in 1 .. Len(Audiences)
      BY <1>1, <1>4
    <2>2. /\ index' = [index EXCEPT ![w] = index[w] + 1] /\ pc' = [pc EXCEPT ![w] = "get"]
          /\ token' = [token EXCEPT ![w] = None] /\ account' = account
      BY <1>4 DEF Obtained
    <2>3. index' \in [Workers -> 1 .. (IF Audiences = <<>> THEN 1 ELSE Len(Audiences))]
      BY <1>1, <2>1, <2>2 DEF TypeInv, TypeOK
    <2> QED BY <1>1, <1>2, <2>2, <2>3 DEF TypeInv, TypeOK, PhaseOK
  <1> QED BY <1>3, <1>4

\* Every step preserves the types.
LEMMA TypeStep == TypeInv /\ [Next]_vars => TypeInv'
  <1> SUFFICES ASSUME TypeInv, [Next]_vars PROVE TypeInv'
    OBVIOUS
  <1>1. ASSUME NEW w \in Workers, NEW acc \in Accounts,
               SecretProviderServiceAccountTokenAttrs(w, acc)
        PROVE TypeInv'
    BY <1>1 DEF SecretProviderServiceAccountTokenAttrs, TypeInv, TypeOK, PhaseOK
  <1>2. ASSUME NEW w \in Workers, pc[w] \in {"get", "request", "set"}
        PROVE audience(w) \in AudienceSet /\ Key(w) \in Keys
    BY <1>2, AudienceType DEF TypeInv, TypeOK, PhaseOK, audience, Key, keyFunc, Keys
  <1>3. ASSUME NEW w \in Workers, UseCached(w) \/ UseOld(w) PROVE TypeInv'
    <2>1. PICK t \in Tokens : Obtained(w, t)
      BY <1>2, <1>3 DEF UseCached, UseOld, TypeInv, TypeOK
    <2> QED BY <1>3, <2>1, ObtainedType DEF UseCached, UseOld, TypeInv, TypeOK
  <1>4. ASSUME NEW w \in Workers, RequestToken(w) PROVE TypeInv'
    <2>1. cache[Key(w)] \in Tokens \cup {None}
      BY <1>2, <1>4 DEF RequestToken, TypeInv, TypeOK
    <2> QED BY <1>4, <2>1 DEF RequestToken, TypeInv, TypeOK, PhaseOK
  <1>5. ASSUME NEW w \in Workers, Issue(w) PROVE TypeInv'
    <2>1. PICK ttl \in TTLs :
            token' = [token EXCEPT ![w] = [account |-> account[w], audience |-> audience(w),
                                           exp |-> now + ttl, ttl |-> ttl]]
      BY <1>5 DEF Issue
    <2>2. now + ttl \in Nat /\ account[w] \in Accounts /\ audience(w) \in AudienceSet
      BY <1>2, <1>5, TimesAssumption DEF Issue, TypeInv, TypeOK
    <2> DEFINE t == [account |-> account[w], audience |-> audience(w),
                     exp |-> now + ttl, ttl |-> ttl]
    <2>3. t \in Tokens /\ t # None
      BY <2>2, NoTokenAssumption DEF Tokens
    <2>4. token' = [token EXCEPT ![w] = t] /\ pc' = [pc EXCEPT ![w] = "set"]
          /\ UNCHANGED <<now, cache, account, index, outputs, saved>> /\ pc[w] = "request"
      BY <1>5, <2>1 DEF Issue
    <2> HIDE DEF t
    <2> QED BY <2>3, <2>4 DEF TypeInv, TypeOK, PhaseOK
  <1>6. ASSUME NEW w \in Workers, Save(w) PROVE TypeInv'
    <2>1. token[w] \in Tokens /\ pc[w] = "set" /\ Obtained(w, token[w])
      BY <1>6 DEF Save, TypeInv, TypeOK, PhaseOK
    <2>2. /\ cache' = [cache EXCEPT ![Key(w)] = token[w]]
          /\ saved' = [saved EXCEPT ![Key(w)] = token[w]] /\ now' = now
      BY <1>6 DEF Save
    <2>3. cache' \in [Keys -> Tokens \cup {None}] /\ saved' \in [Keys -> Tokens \cup {None}]
      BY <1>2, <2>1, <2>2 DEF TypeInv, TypeOK
    <2> QED BY <2>1, <2>2, <2>3, ObtainedType DEF TypeInv, TypeOK
  <1>7. ASSUME NEW w \in Workers, RequestFails(w) \/ Return(w) PROVE TypeInv'
    <2>1. 1 \in 1 .. (IF Audiences = <<>> THEN 1 ELSE Len(Audiences))
      BY AudiencesAssumption
    <2>2. Finish(w)
      BY <1>7 DEF RequestFails, Return
    <2>3. [a \in AudienceSet |-> None] \in [AudienceSet -> Tokens \cup {None}]
      OBVIOUS
    <2>4. PhaseOK'
      BY <2>2 DEF Finish, TypeInv, TypeOK, PhaseOK
    <2> QED BY <2>1, <2>2, <2>3, <2>4 DEF Finish, TypeInv, TypeOK
  <1>8. CASE cleanup
    BY <1>8 DEF cleanup, call, TypeInv, TypeOK, PhaseOK
  <1>9. CASE Tick \/ UNCHANGED vars
    BY <1>9 DEF Tick, vars, call, TypeInv, TypeOK, PhaseOK
  <1> QED BY <1>1, <1>3, <1>4, <1>5, <1>6, <1>7, <1>8, <1>9 DEF Next, Call

\* Cache, calls and their tokens always have their types, and no call runs past the
\* last audience, for every number of callers.
THEOREM TokenTypeCorrect == Spec => []TypeOK
  <1>1. TypeInv => TypeOK
    BY DEF TypeInv
  <1> QED BY TypeInit, TypeStep, <1>1, PTL DEF Spec

-----------------------------------------------------------------------------
(* Tokens go to those they were issued for *)

\* t was issued for this account and this audience.
IssuedFor(t, acc, aud) == t # None => t.account = acc /\ t.audience = aud

\* The loop of SecretProviderServiceAccountTokenAttrs: what is behind it is there.
Progress(w) ==
  /\ pc[w] \in {"get", "request", "set"} =>
       \A i \in DOMAIN Audiences : i < index[w] => outputs[w][Audiences[i]] # None
  /\ pc[w] = "return" => \A a \in AudienceSet : outputs[w][a] # None

\* Cached tokens belong to their keys, the token a call holds belongs to the
\* audience it is at, and those it has collected belong to the caller.
OwnerInv ==
  /\ \A acc \in Accounts, aud \in AudienceSet : IssuedFor(cache[<<acc, aud>>], acc, aud)
  /\ \A w \in Workers :
       /\ pc[w] \in {"get", "request", "set"} => IssuedFor(token[w], account[w], audience(w))
       /\ \A a \in AudienceSet : IssuedFor(outputs[w][a], account[w], a)
       /\ pc[w] = "idle" => index[w] = 1 /\ token[w] = None
                            /\ \A a \in AudienceSet : outputs[w][a] = None
       /\ Progress(w)

\* A call that obtains the right token keeps all it has.
LEMMA ObtainedOwner ==
  ASSUME TypeInv, OwnerInv, NEW w \in Workers, pc[w] \in {"get", "request", "set"},
         NEW t \in Tokens, IssuedFor(t, account[w], audience(w)), Obtained(w, t),
         \A acc \in Accounts, aud \in AudienceSet : IssuedFor(cache'[<<acc, aud>>], acc, aud)
  PROVE  OwnerInv'
  <1>1. /\ Audiences # <<>> /\ index[w] \in DOMAIN Audiences /\ audience(w) \in AudienceSet
        /\ Len(Audiences) \in Nat /\ DOMAIN Audiences = 1 .. Len(Audiences)
        /\ index[w] \in Nat
    BY AudienceType, AudiencesAssumption DEF TypeInv, TypeOK, PhaseOK, audience
  <1>2. t # None
    BY NoTokenAssumption
  <1>3. /\ \A a \in AudienceSet : outputs'[w][a] = IF a = audience(w) THEN t ELSE outputs[w][a]
        /\ token'[w] = None /\ account' = account
        /\ \A v \in Workers \ {w} : /\ outputs'[v] = outputs[v] /\ token'[v] = token[v]
                                    /\ index'[v] = index[v] /\ pc'[v] = pc[v]
    BY <1>1 DEF Obtained, TypeInv, TypeOK
  <1>4. \A a \in AudienceSet : IssuedFor(outputs'[w][a], account[w], a)
    BY <1>3 DEF OwnerInv, IssuedFor
  <1>5. \A i \in DOMAIN Audiences : i < index[w] \/ i = index[w] =>
          outputs'[w][Audiences[i]] # None
    <2> SUFFICES ASSUME NEW i \in DOMAIN Audiences, i < index[w] \/ i = index[w]
                 PROVE  outputs'[w][Audiences[i]] # None
      OBVIOUS
    <2>1. Audiences[i] \in AudienceSet
      BY DEF AudienceSet
    <2>2. i < index[w] => outputs[w][Audiences[i]] # None
      BY DEF OwnerInv, Progress
    <2> QED BY <1>2, <1>3, <2>1, <2>2 DEF audience
  <1>6. Progress(w)' /\ pc'[w] # "idle"
    <2>1. CASE index[w] = Len(Audiences)
      <3>1. pc'[w] = "return"
        BY <2>1 DEF Obtained, TypeInv, TypeOK
      <3>2. \A i \in DOMAIN Audiences : outputs'[w][Audiences[i]] # None
        BY <1>1, <1>5, <2>1
      <3> QED BY <3>1, <3>2 DEF Progress, AudienceSet
    <2>2. CASE index[w] # Len(Audiences)
      <3>1. index' = [index EXCEPT ![w] = index[w] + 1] /\ pc'[w] = "get"
        BY <2>2 DEF Obtained, TypeInv, TypeOK
      <3>2. index'[w] = index[w] + 1
        BY <3>1 DEF TypeInv, TypeOK
      <3>3. \A i \in DOMAIN Audiences : i < index'[w] => i < index[w] \/ i = index[w]
        BY <1>1, <3>2
      <3> QED BY <1>5, <3>1, <3>3 DEF Progress
    <2> QED BY <2>1, <2>2
  <1>7. ASSUME NEW v \in Workers \ {w}
        PROVE  /\ pc'[v] \in {"get", "request", "set"} =>
                    IssuedFor(token'[v], account'[v], audience(v)')
               /\ \A a \in AudienceSet : IssuedFor(outputs'[v][a], account'[v], a)
               /\ pc'[v] = "idle" => index'[v] = 1 /\ token'[v] = None
                                     /\ \A a \in AudienceSet : outputs'[v][a] = None
               /\ Progress(v)'
    BY <1>3 DEF OwnerInv, Progress, audience
  <1>8. IssuedFor(token'[w], account'[w], audience(w)')
    BY <1>3 DEF IssuedFor
  <1> QED BY <1>3, <1>4, <1>6, <1>7, <1>8 DEF OwnerInv

\* Every step preserves OwnerInv.
LEMMA OwnerStep ==
  ASSUME TypeInv, TypeInv', OwnerInv, [Next]_vars
  PROVE  OwnerInv'
  <1>2. ASSUME NEW w \in Workers, pc[w] \in {"get", "request", "set"}
        PROVE /\ audience(w) \in AudienceSet /\ Key(w) = <<account[w], audience(w)>>
              /\ account[w] \in Accounts
    BY <1>2, AudienceType DEF TypeInv, TypeOK, PhaseOK, audience, Key, keyFunc
  <1>1. ASSUME NEW w \in Workers, NEW acc \in Accounts,
               SecretProviderServiceAccountTokenAttrs(w, acc)
        PROVE OwnerInv'
    <2>1. /\ pc[w] = "idle" /\ UNCHANGED <<cache, index, token, outputs>>
          /\ pc' = [pc EXCEPT ![w] = IF Audiences = <<>> THEN "return" ELSE "get"]
          /\ account' = [account EXCEPT ![w] = acc]
      BY <1>1 DEF SecretProviderServiceAccountTokenAttrs
    <2>2. \A v \in Workers \ {w} : pc'[v] = pc[v] /\ account'[v] = account[v]
      BY <2>1 DEF TypeInv, TypeOK
    <2>3. pc'[w] \in {"return", "get"} /\ (pc'[w] = "return" => AudienceSet = {})
      BY <2>1 DEF TypeInv, TypeOK, AudienceSet
    <2>4. index[w] = 1 /\ token[w] = None /\ \A a \in AudienceSet : outputs[w][a] = None
      BY <2>1 DEF OwnerInv
    <2>5. Progress(w)'
      <3>1. \A i \in DOMAIN Audiences : ~(i < 1)
        BY AudiencesAssumption
      <3> QED BY <2>1, <2>3, <2>4, <3>1 DEF Progress
    <2>6. \A v \in Workers \ {w} : Progress(v)'
      BY <2>1, <2>2 DEF Progress, OwnerInv
    <2> QED BY <2>1, <2>2, <2>3, <2>4, <2>5, <2>6 DEF OwnerInv, IssuedFor, audience
  <1>3. ASSUME NEW w \in Workers, UseCached(w) PROVE OwnerInv'
    <2>1. /\ pc[w] = "get" /\ cache[Key(w)] # None /\ Obtained(w, cache[Key(w)])
          /\ cache' = cache
      BY <1>3 DEF UseCached
    <2>2. cache[Key(w)] \in Tokens /\ IssuedFor(cache[Key(w)], account[w], audience(w))
      BY <1>2, <2>1 DEF OwnerInv, TypeInv, TypeOK, Keys
    <2> QED BY <2>1, <2>2, ObtainedOwner DEF OwnerInv
  <1>4. ASSUME NEW w \in Workers, UseOld(w) PROVE OwnerInv'
    <2>1. /\ pc[w] = "request" /\ token[w] \in Tokens /\ Obtained(w, token[w])
          /\ cache' = cache
      BY <1>4 DEF UseOld, TypeInv, TypeOK
    <2> QED BY <2>1, ObtainedOwner DEF OwnerInv
  <1>5. ASSUME NEW w \in Workers, Save(w) PROVE OwnerInv'
    <2>1. /\ pc[w] = "set" /\ token[w] \in Tokens /\ Obtained(w, token[w])
          /\ cache' = [cache EXCEPT ![Key(w)] = token[w]]
      BY <1>5 DEF Save, TypeInv, TypeOK, PhaseOK
    <2>2. IssuedFor(token[w], account[w], audience(w))
      BY <2>1 DEF OwnerInv
    <2>3. \A acc \in Accounts, aud \in AudienceSet : IssuedFor(cache'[<<acc, aud>>], acc, aud)
      <3> SUFFICES ASSUME NEW acc \in Accounts, NEW aud \in AudienceSet
                   PROVE  IssuedFor(cache'[<<acc, aud>>], acc, aud)
        OBVIOUS
      <3>1. <<acc, aud>> \in Keys /\ IssuedFor(cache[<<acc, aud>>], acc, aud)
        BY DEF Keys, OwnerInv
      <3>2. cache'[<<acc, aud>>] = IF <<acc, aud>> = Key(w) THEN token[w] ELSE cache[<<acc, aud>>]
        BY <2>1, <3>1 DEF TypeInv, TypeOK
      <3>3. <<acc, aud>> = Key(w) => acc = account[w] /\ aud = audience(w)
        BY <1>2, <2>1
      <3> QED BY <2>2, <3>1, <3>2, <3>3
    <2> QED BY <2>1, <2>2, <2>3, ObtainedOwner
  \* What is left to show when only the token of w and its phase change.
  <1>6. ASSUME NEW w \in Workers, pc[w] \in {"get", "request", "set"},
               pc'[w] \in {"request", "set"}, UNCHANGED <<cache, account, index, outputs>>,
               \A v \in Workers \ {w} : pc'[v] = pc[v] /\ token'[v] = token[v],
               IssuedFor(token'[w], account[w], audience(w))
        PROVE OwnerInv'
    <2>1. \A v \in Workers : Progress(v)'
      BY <1>6 DEF OwnerInv, Progress
    <2> QED BY <1>6, <2>1 DEF OwnerInv, audience
  <1>7. ASSUME NEW w \in Workers, RequestToken(w) PROVE OwnerInv'
    <2>1. /\ pc[w] = "get" /\ pc'[w] = "request" /\ token'[w] = cache[Key(w)]
          /\ UNCHANGED <<cache, account, index, outputs>>
          /\ \A v \in Workers \ {w} : pc'[v] = pc[v] /\ token'[v] = token[v]
      BY <1>7 DEF RequestToken, TypeInv, TypeOK
    <2>2. IssuedFor(cache[Key(w)], account[w], audience(w))
      BY <1>2, <2>1 DEF OwnerInv
    <2> QED BY <1>6, <2>1, <2>2
  <1>8. ASSUME NEW w \in Workers, Issue(w) PROVE OwnerInv'
    <2>1. /\ pc[w] = "request" /\ pc'[w] = "set"
          /\ token'[w].account = account[w] /\ token'[w].audience = audience(w)
          /\ UNCHANGED <<cache, account, index, outputs>>
          /\ \A v \in Workers \ {w} : pc'[v] = pc[v] /\ token'[v] = token[v]
      <3>1. PICK ttl \in TTLs :
              token' = [token EXCEPT ![w] = [account |-> account[w], audience |-> audience(w),
                                             exp |-> now + ttl, ttl |-> ttl]]
        BY <1>8 DEF Issue
      <3> DEFINE t == [account |-> account[w], audience |-> audience(w),
                       exp |-> now + ttl, ttl |-> ttl]
      <3>2. t.account = account[w] /\ t.audience = audience(w)
        OBVIOUS
      <3>3. token' = [token EXCEPT ![w] = t]
        BY <3>1
      <3> HIDE DEF t
      <3> QED BY <1>8, <3>2, <3>3 DEF Issue, TypeInv, TypeOK
    <2> QED BY <1>6, <2>1 DEF IssuedFor
  <1>9. ASSUME NEW w \in Workers, RequestFails(w) \/ Return(w) PROVE OwnerInv'
    <2>1. Finish(w)
      BY <1>9 DEF RequestFails, Return
    <2>2. /\ pc'[w] = "idle" /\ index'[w] = 1 /\ token'[w] = None
          /\ \A a \in AudienceSet : outputs'[w][a] = None
          /\ UNCHANGED <<cache, account>>
          /\ \A v \in Workers \ {w} : /\ outputs'[v] = outputs[v] /\ token'[v] = token[v]
                                      /\ index'[v] = index[v] /\ pc'[v] = pc[v]
      BY <2>1 DEF Finish, TypeInv, TypeOK
    <2>3. \A v \in Workers : Progress(v)'
      BY <2>2 DEF OwnerInv, Progress
    <2> QED BY <2>2, <2>3 DEF OwnerInv, IssuedFor, audience
  <1>10. CASE cleanup
    <2>1. \A k \in Keys : cache'[k] = cache[k] \/ cache'[k] = None
      BY <1>10 DEF cleanup
    <2>2. UNCHANGED call
      BY <1>10 DEF cleanup
    <2>3. \A acc \in Accounts, aud \in AudienceSet : IssuedFor(cache'[<<acc, aud>>], acc, aud)
      BY <2>1 DEF OwnerInv, IssuedFor, Keys
    <2>4. \A v \in Workers : Progress(v)'
      BY <2>2 DEF OwnerInv, Progress, call
    <2> QED BY <2>2, <2>3, <2>4 DEF OwnerInv, audience, call
  <1>11. CASE Tick \/ UNCHANGED vars
    <2>1. UNCHANGED <<cache, call>>
      BY <1>11 DEF Tick, vars
    <2>2. \A v \in Workers : Progress(v)'
      BY <2>1 DEF OwnerInv, Progress, call
    <2> QED BY <2>1, <2>2 DEF OwnerInv, audience, call
  <1> QED BY <1>1, <1>3, <1>4, <1>5, <1>7, <1>8, <1>9, <1>10, <1>11 DEF Next, Call

\* Whatever accounts, audiences and callers share the cache, a call that succeeds
\* has for every audience a token issued for it, to the account of the caller
\* (keyFunc, and the loop of SecretProviderServiceAccountTokenAttrs).
THEOREM TokensOfCallerHolds == Spec => []TokensOfCaller
  <1>1. Init => OwnerInv
    BY DEF Init, OwnerInv, IssuedFor, Progress, Keys
  <1>2. TypeInv /\ OwnerInv /\ [Next]_vars => (TypeInv /\ OwnerInv)'
    BY TypeStep, OwnerStep
  <1>3. OwnerInv => TokensOfCaller
    BY DEF OwnerInv, Progress, IssuedFor, TokensOfCaller
  <1> QED BY TypeInit, <1>1, <1>2, <1>3, PTL DEF Spec

-----------------------------------------------------------------------------
(* No token is handed out late *)

\* A token that needs no refresh has not expired, whatever the jitter is.
LEMMA FreshNotExpired ==
  ASSUME TypeInv, NEW t \in Tokens, NEW j \in Jitters, ~requiresRefresh(t, j)
  PROVE  now <= t.exp
  <1>1. /\ now \in Nat /\ t.exp \in Nat /\ t.ttl \in Nat /\ j \in Nat
    BY TimesAssumption DEF TypeInv, TypeOK, Tokens
  <1>2. (t.ttl * 20) \div 100 \in Nat
    BY <1>1
  <1>3. ~(now > t.exp - (t.ttl * 20) \div 100 - j)
    BY DEF requiresRefresh
  <1> QED BY <1>1, <1>2, <1>3

\* In one step a call obtains a token that has not expired, or one just issued.
LEMMA ObtainedInTime ==
  ASSUME TypeInv, [Next]_vars, NEW w \in Workers, NEW a \in AudienceSet,
         outputs'[w][a] # outputs[w][a], outputs'[w][a] # None
  PROVE  now <= outputs'[w][a].exp \/ pc[w] = "set"
  <1>1. ASSUME NEW v \in Workers, pc[v] \in {"get", "request", "set"}, NEW t \in Tokens,
               Obtained(v, t)
        PROVE  v = w /\ outputs'[w][a] = t
    <2>1. audience(v) \in AudienceSet
      BY <1>1, AudienceType DEF TypeInv, TypeOK, PhaseOK, audience
    <2>2. outputs' = [outputs EXCEPT ![v][audience(v)] = t]
      BY <1>1 DEF Obtained
    <2> QED BY <2>1, <2>2 DEF TypeInv, TypeOK
  <1>2. ASSUME NEW v \in Workers, UseCached(v) PROVE now <= outputs'[w][a].exp
    <2>1. /\ pc[v] = "get" /\ cache[Key(v)] # None /\ Obtained(v, cache[Key(v)])
          /\ \E j \in Jitters : ~requiresRefresh(cache[Key(v)], j)
      BY <1>2 DEF UseCached
    <2>2. cache[Key(v)] \in Tokens
      BY <2>1, AudienceType DEF TypeInv, TypeOK, PhaseOK, audience, Key, keyFunc, Keys
    <2> QED BY <1>1, <2>1, <2>2, FreshNotExpired
  <1>3. ASSUME NEW v \in Workers, UseOld(v) PROVE now <= outputs'[w][a].exp
    <2>1. pc[v] = "request" /\ token[v] \in Tokens /\ Obtained(v, token[v]) /\ ~expired(token[v])
      BY <1>3 DEF UseOld, TypeInv, TypeOK
    <2>2. now \in Nat /\ token[v].exp \in Nat
      BY <2>1 DEF TypeInv, TypeOK, Tokens
    <2> QED BY <1>1, <2>1, <2>2 DEF expired
  <1>4. ASSUME NEW v \in Workers, Save(v) PROVE pc[w] = "set"
    <2>1. pc[v] = "set" /\ token[v] \in Tokens /\ Obtained(v, token[v])
      BY <1>4 DEF Save, TypeInv, TypeOK, PhaseOK
    <2> QED BY <1>1, <2>1
  <1>5. ASSUME NEW v \in Workers, RequestFails(v) \/ Return(v) PROVE FALSE
    <2>1. outputs' = [outputs EXCEPT ![v] = [b \in AudienceSet |-> None]]
      BY <1>5 DEF RequestFails, Return, Finish
    <2> QED BY <2>1 DEF TypeInv, TypeOK
  <1>6. ASSUME UNCHANGED outputs PROVE FALSE
    BY <1>6
  <1>7. ASSUME NEW v \in Workers, Call(v)
        PROVE \/ UseCached(v) \/ UseOld(v) \/ Save(v) \/ RequestFails(v) \/ Return(v)
              \/ UNCHANGED outputs
    BY <1>7 DEF Call, RequestToken, Issue
  <1>8. \/ \E v \in Workers : Call(v)
        \/ UNCHANGED outputs
    BY DEF Next, SecretProviderServiceAccountTokenAttrs, cleanup, Tick, vars, call
  <1> QED BY <1>2, <1>3, <1>4, <1>5, <1>6, <1>7, <1>8

\* No token is handed out after its expiry, be it from the cache or in place of one
\* that could not be requested, for all lifetimes and all jitters (requiresRefresh
\* and expired, lines 154-185); only a token that was just issued may be late.
THEOREM NoExpiredTokenHolds == Spec => NoExpiredToken
  <1>1. TypeInv /\ [Next]_vars =>
          [ \A w \in Workers : \A a \in AudienceSet :
              outputs'[w][a] # outputs[w][a] /\ outputs'[w][a] # None =>
                now <= outputs'[w][a].exp \/ pc[w] = "set" ]_vars
    BY ObtainedInTime
  <1> QED BY TypeInit, TypeStep, <1>1, PTL DEF Spec, NoExpiredToken

-----------------------------------------------------------------------------
(* No token is lost *)

\* t is the token that was last saved under k, or that one has expired.
Kept(k, t) == saved[k] # None => t = saved[k] \/ now > saved[k].exp

\* The cache, and the call that wants to refresh a token, have what was last saved.
KeepInv ==
  /\ \A k \in Keys : Kept(k, cache[k])
  /\ \A w \in Workers : pc[w] = "request" => Kept(Key(w), token[w])

\* Every step of a single worker preserves KeepInv.
LEMMA KeepStep ==
  ASSUME NEW w, Workers = {w}, TypeInv, KeepInv, [Next]_vars
  PROVE  KeepInv'
  <1>t. /\ now \in Nat
        /\ \A k \in Keys : saved[k] # None => saved[k].exp \in Nat
    BY DEF TypeInv, TypeOK, Tokens
  <1>k. pc[w] \in {"get", "request", "set"} => Key(w) \in Keys
    BY AudienceType DEF TypeInv, TypeOK, PhaseOK, audience, Key, keyFunc, Keys
  \* What is left to show when the call makes no request afterwards.
  <1>0. ASSUME UNCHANGED <<now, cache, saved>>, pc'[w] # "request" PROVE KeepInv'
    BY <1>0 DEF KeepInv, Kept
  <1>1. ASSUME NEW t \in Tokens, pc[w] \in {"get", "request", "set"}, Obtained(w, t)
        PROVE pc'[w] # "request"
    BY <1>1 DEF Obtained, TypeInv, TypeOK
  <1>2. CASE UseCached(w) \/ UseOld(w)
    <2>1. PICK t \in Tokens : Obtained(w, t)
      BY <1>2, <1>k DEF UseCached, UseOld, TypeInv, TypeOK
    <2> QED BY <1>0, <1>1, <1>2, <2>1 DEF UseCached, UseOld
  <1>3. CASE RequestToken(w)
    <2>1. /\ token'[w] = cache[Key(w)] /\ Key(w) \in Keys
          /\ UNCHANGED <<now, cache, account, index, saved>>
      BY <1>3, <1>k DEF RequestToken, TypeInv, TypeOK
    <2>2. Key(w)' = Key(w)
      BY <2>1 DEF Key, audience, keyFunc
    <2> QED BY <2>1, <2>2 DEF KeepInv, Kept
  <1>4. CASE Issue(w)
    BY <1>0, <1>4 DEF Issue, TypeInv, TypeOK
  <1>5. CASE Save(w)
    <2>1. /\ Key(w) \in Keys /\ now' = now
          /\ cache' = [cache EXCEPT ![Key(w)] = token[w]]
          /\ saved' = [saved EXCEPT ![Key(w)] = token[w]]
          /\ token[w] \in Tokens /\ pc[w] = "set" /\ Obtained(w, token[w])
      BY <1>5, <1>k DEF Save, TypeInv, TypeOK, PhaseOK
    <2>2. \A k \in Keys : Kept(k, cache[k])'
      BY <2>1 DEF KeepInv, Kept, TypeInv, TypeOK
    <2> QED BY <1>1, <2>1, <2>2 DEF KeepInv
  <1>6. CASE RequestFails(w) \/ Return(w)
    BY <1>0, <1>6 DEF RequestFails, Return, Finish, TypeInv, TypeOK
  <1>7. ASSUME NEW acc \in Accounts, SecretProviderServiceAccountTokenAttrs(w, acc)
        PROVE KeepInv'
    BY <1>0, <1>7 DEF SecretProviderServiceAccountTokenAttrs, TypeInv, TypeOK
  <1>8. CASE cleanup
    <2>1. /\ cache' = [k \in Keys |->
               IF cache[k] # None /\ expired(cache[k]) THEN None ELSE cache[k]]
          /\ UNCHANGED <<now, pc, account, index, token, saved>>
      BY <1>8 DEF cleanup, call
    <2>2. \A k \in Keys : Kept(k, cache[k])'
      BY <2>1 DEF KeepInv, Kept, expired
    <2>3. Key(w)' = Key(w)
      BY <2>1 DEF Key, audience, keyFunc
    <2> QED BY <2>1, <2>2, <2>3 DEF KeepInv, Kept
  <1>9. CASE Tick
    <2>1. now' = now + 1 /\ UNCHANGED <<cache, pc, account, index, token, saved>>
      BY <1>9 DEF Tick, call
    <2>2. Key(w)' = Key(w)
      BY <2>1 DEF Key, audience, keyFunc
    <2> QED BY <1>t, <1>k, <2>1, <2>2 DEF KeepInv, Kept
  <1>10. CASE UNCHANGED vars
    <2>1. Key(w)' = Key(w)
      BY <1>10 DEF Key, audience, keyFunc, vars, call
    <2> QED BY <1>10, <2>1 DEF KeepInv, Kept, vars, call
  <1> QED BY <1>2, <1>3, <1>4, <1>5, <1>6, <1>7, <1>8, <1>9, <1>10 DEF Next, Call

\* With one worker, as the controller has, a call fails only if the token that was
\* last obtained for its account and audience has expired: neither the cleanup nor
\* a refresh that fails takes a valid token away (lines 110-144), for all lifetimes.
THEOREM NoNeedlessErrorHolds ==
  ASSUME \E v : Workers = {v} PROVE Spec => NoNeedlessError
  <1>1. Init => KeepInv
    BY DEF Init, KeepInv, Kept
  <1>2. TypeInv /\ KeepInv /\ [Next]_vars => (TypeInv /\ KeepInv)'
    BY TypeStep, KeepStep
  <1>3. TypeInv /\ KeepInv /\ [Next]_vars =>
          [ \A w \in Workers :
              pc[w] = "request" /\ pc'[w] = "idle" =>
                saved[Key(w)] = None \/ now > saved[Key(w)].exp ]_vars
    <2> SUFFICES ASSUME NEW v, Workers = {v}, TypeInv, KeepInv, Next,
                        pc[v] = "request", pc'[v] = "idle"
                 PROVE  saved[Key(v)] = None \/ now > saved[Key(v)].exp
      OBVIOUS
    <2>1. ASSUME NEW t \in Tokens, Obtained(v, t) PROVE FALSE
      BY <2>1 DEF Obtained, TypeInv, TypeOK
    <2>2. RequestFails(v)
      BY <2>1 DEF Next, Call, UseCached, RequestToken, Issue, Save, UseOld, Return, Finish,
             SecretProviderServiceAccountTokenAttrs, cleanup, Tick, call, TypeInv, TypeOK
    <2>3. token[v] # None => now > token[v].exp
      BY <2>2 DEF RequestFails, expired
    <2> QED BY <2>3 DEF KeepInv, Kept
  <1> QED BY TypeInit, <1>1, <1>2, <1>3, PTL DEF Spec, NoNeedlessError
=============================================================================
