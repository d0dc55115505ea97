---------------------------- MODULE TokenManager ----------------------------
(***************************************************************************)
(* The token manager of pkg/token/token_manager.go: service account tokens *)
(* are taken from a cache or requested from the API server, for each       *)
(* audience in turn, while a goroutine drops expired ones.                 *)
(*                                                                         *)
(* A call is cut where it waits for the API server and where it takes the  *)
(* mutex of the cache.  Time passes between any two steps.                 *)
(***************************************************************************)
EXTENDS Integers, Sequences

CONSTANTS
  Workers,     \* goroutines that ask for tokens
  Accounts,    \* namespace and name of service accounts
  Audiences,   \* SecretSyncReconciler.Audiences, a sequence
  tokenRequestAudience, \* the audiences of values.yaml, which the policy admits
  TTLs,        \* lifetimes in seconds that the API server may grant
  maxTTL,      \* 24 hours, in seconds
  Jitters,     \* the random jitter, in seconds
  MaxTime,     \* bound: seconds
  None         \* no token

AudienceSet == {Audiences[i] : i \in DOMAIN Audiences}

ASSUME AudiencesAssumption == Audiences \in Seq(AudienceSet)
ASSUME TimesAssumption ==
  TTLs \cup Jitters \cup {maxTTL, MaxTime} \subseteq Nat

VARIABLES
  now,      \* the clock
  cache,    \* cache[k]: the token under key k, or None
  pc,       \* pc[w]: where the call by w is
  account,  \* account[w]: the service account it is for
  index,    \* index[w]: the position in Audiences of the audience it is at
  token,    \* token[w]: ctr, then tr: the cached, then the requested token
  outputs,  \* outputs[w]: the token for each audience so far, or None
  saved     \* history: the token last saved under each key

call == <<pc, account, index, token, outputs>>
vars == <<now, cache, call, saved>>

\* What a TokenRequest holds once it was answered.
Tokens == [account : Accounts, audience : AudienceSet, exp : Nat, ttl : TTLs]

Keys == Accounts \X AudienceSet

ASSUME NoTokenAssumption == None \notin Tokens

\* Mutant: the audience is not part of the key.
keyFunc_NoAudience(acc, aud) == <<acc, Audiences[1]>>

\* The requested lifetime and the bound object are the same in every request.
keyFunc(acc, aud) == <<acc, aud>>

audience(w) == Audiences[index[w]]
Key(w) == keyFunc(account[w], audience(w))

\* Mutant: off by one.
expired_AtExpiry(t) == now >= t.exp

\* Mutant: nothing ever expires.
expired_Never(t) == FALSE

expired(t) == now > t.exp

\* The API server always returns the lifetime that it has granted.
requiresRefresh(t, jitter) ==
  \/ now > (t.exp - t.ttl) + maxTTL - jitter
  \/ now > t.exp - (t.ttl * 20) \div 100 - jitter

Init ==
  /\ now = 0
  /\ cache = [k \in Keys |-> None]
  /\ pc = [w \in Workers |-> "idle"]
  /\ account \in [Workers -> Accounts]
  /\ index = [w \in Workers |-> 1]
  /\ token = [w \in Workers |-> None]
  /\ outputs = [w \in Workers |-> [a \in AudienceSet |-> None]]
  /\ saved = [k \in Keys |-> None]

-----------------------------------------------------------------------------
(* SecretProviderServiceAccountTokenAttrs and GetServiceAccountToken *)

SecretProviderServiceAccountTokenAttrs(w, acc) ==
  /\ pc[w] = "idle"
  /\ pc' = [pc EXCEPT ![w] = IF Audiences = <<>> THEN "return" ELSE "get"]
  /\ account' = [account EXCEPT ![w] = acc]
  /\ UNCHANGED <<now, cache, index, token, outputs, saved>>

\* Mutant: the loop runs one audience too far.
Obtained_OffByOne(w, t) ==
  /\ outputs' = [outputs EXCEPT ![w][audience(w)] = t]
  /\ token' = [token EXCEPT ![w] = None]
  /\ index' = [index EXCEPT ![w] = @ + 1]
  /\ pc' = [pc EXCEPT ![w] = IF index[w] > Len(Audiences) THEN "return" ELSE "get"]
  /\ UNCHANGED account

\* GetServiceAccountToken returns t, and the loop goes on to the next audience.
Obtained(w, t) ==
  /\ outputs' = [outputs EXCEPT ![w][audience(w)] = t]
  /\ token' = [token EXCEPT ![w] = None]
  /\ IF index[w] = Len(Audiences)
     THEN pc' = [pc EXCEPT ![w] = "return"] /\ UNCHANGED index
     ELSE index' = [index EXCEPT ![w] = @ + 1] /\ pc' = [pc EXCEPT ![w] = "get"]
  /\ UNCHANGED account

UseCached(w) ==
  /\ pc[w] = "get"
  /\ cache[Key(w)] # None
  /\ \E j \in Jitters : ~requiresRefresh(cache[Key(w)], j)
  /\ Obtained(w, cache[Key(w)])
  /\ UNCHANGED <<now, cache, saved>>

RequestToken(w) ==
  /\ pc[w] = "get"
  /\ cache[Key(w)] # None => \E j \in Jitters : requiresRefresh(cache[Key(w)], j)
  /\ token' = [token EXCEPT ![w] = cache[Key(w)]]
  /\ pc' = [pc EXCEPT ![w] = "request"]
  /\ UNCHANGED <<now, cache, account, index, outputs, saved>>

\* validate_token_config.yaml: one audience and 600 seconds are what every request
\* has, so that only the audience counts.
hasCorrectAudience(aud) == aud \in tokenRequestAudience

\* The API server issues a token; the answer is on its way.
Issue(w) ==
  /\ pc[w] = "request"
  /\ hasCorrectAudience(audience(w))
  /\ \E ttl \in TTLs :
       token' = [token EXCEPT ![w] = [account |-> account[w], audience |-> audience(w),
                                      exp |-> now + ttl, ttl |-> ttl]]
  /\ pc' = [pc EXCEPT ![w] = "set"]
  /\ UNCHANGED <<now, cache, account, index, outputs, saved>>

\* The answer arrives: m.set(key, tr).
Save(w) ==
  /\ pc[w] = "set"
  /\ cache' = [cache EXCEPT ![Key(w)] = token[w]]
  /\ saved' = [saved EXCEPT ![Key(w)] = token[w]]
  /\ Obtained(w, token[w])
  /\ UNCHANGED now

\* The request fails or is denied, and the old token is still valid.
UseOld(w) ==
  /\ pc[w] = "request"
  /\ token[w] # None /\ ~expired(token[w])
  /\ Obtained(w, token[w])
  /\ UNCHANGED <<now, cache, saved>>

\* The call returns, and its variables are gone.
Finish(w) ==
  /\ pc' = [pc EXCEPT ![w] = "idle"]
  /\ index' = [index EXCEPT ![w] = 1]
  /\ token' = [token EXCEPT ![w] = None]
  /\ outputs' = [outputs EXCEPT ![w] = [a \in AudienceSet |-> None]]
  /\ UNCHANGED <<now, cache, account, saved>>

\* The request fails and there is no valid token: the whole call fails.
RequestFails(w) ==
  /\ pc[w] = "request"
  /\ token[w] # None => expired(token[w])
  /\ Finish(w)

\* The tokens are handed to the caller.
Return(w) ==
  /\ pc[w] = "return"
  /\ Finish(w)

Call(w) ==
  \/ UseCached(w) \/ RequestToken(w) \/ Issue(w) \/ Save(w)
  \/ UseOld(w) \/ RequestFails(w) \/ Return(w)

-----------------------------------------------------------------------------
cleanup ==
  /\ cache' = [k \in Keys |->
       IF cache[k] # None /\ expired(cache[k]) THEN None ELSE cache[k]]
  /\ UNCHANGED <<now, call, saved>>

Tick ==
  /\ now < MaxTime
  /\ now' = now + 1
  /\ UNCHANGED <<cache, call, saved>>

Next ==
  \/ \E w \in Workers :
       \/ Call(w)
       \/ \E acc \in Accounts : SecretProviderServiceAccountTokenAttrs(w, acc)
  \/ cleanup
  \/ Tick

Spec == Init /\ [][Next]_vars

\* cleanup runs every gcPeriod; callers and the API server owe nothing.
FairSpec == Spec /\ WF_vars(cleanup)

-----------------------------------------------------------------------------
(* Properties *)

\* The type invariant; a call never runs past the last audience.
TypeOK ==
  /\ now \in Nat
  /\ cache \in [Keys -> Tokens \cup {None}]
  /\ pc \in [Workers -> {"idle", "get", "request", "set", "return"}]
  /\ account \in [Workers -> Accounts]
  /\ index \in [Workers -> 1 .. (IF Audiences = <<>> THEN 1 ELSE Len(Audiences))]
  /\ token \in [Workers -> Tokens \cup {None}]
  /\ outputs \in [Workers -> [AudienceSet -> Tokens \cup {None}]]
  /\ saved \in [Keys -> Tokens \cup {None}]

\* A call that succeeds returns a token for every audience, issued for that
\* audience and to the service account of the SecretSync, whichever accounts and
\* audiences share the cache (keyFunc, line 189).
TokensOfCaller ==
  \A w \in Workers : pc[w] = "return" => \A a \in AudienceSet :
    /\ outputs[w][a] # None
    /\ outputs[w][a].account = account[w]
    /\ outputs[w][a].audience = a

\* No token is handed out after its expiry, from the cache or in place of one
\* that could not be requested; a token that was just issued may be late.
NoExpiredToken ==
  [][ \A w \in Workers : \A a \in AudienceSet :
        outputs'[w][a] # outputs[w][a] /\ outputs'[w][a] # None =>
          now <= outputs'[w][a].exp \/ pc[w] = "set" ]_vars

\* A call fails only if the token that was last obtained for this account and
\* audience has expired: neither cleanup nor a refresh that fails takes a token
\* away before (lines 108 and 140).  For one worker.
NoNeedlessError ==
  [][ \A w \in Workers :
        pc[w] = "request" /\ pc'[w] = "idle" =>
          saved[Key(w)] = None \/ now > saved[Key(w)].exp ]_vars

\* A token that has expired does not stay in the cache, used or not.
ExpiredDropped ==
  \A k \in Keys :
    (cache[k] # None /\ now > cache[k].exp) ~> (cache[k] = None \/ now <= cache[k].exp)

-----------------------------------------------------------------------------
(* What the documentation says and the code does not do *)

\* "Audience for the token request, comma separated." (cmd/main.go:53): a token is
\* only ever requested for an audience of the list that the flag was made from.
RequestsConfigured ==
  \A w \in Workers : pc[w] = "request" => hasCorrectAudience(audience(w))
=============================================================================
