---------------------------- MODULE PollingLoop ----------------------------
(***************************************************************************)
(* Provider polling, from the ticker to the worker: providerPollingFunc    *)
(* and SetupWithManager of internal/controller/secretsync_controller.go,   *)
(* the channel between the poll goroutine and the controller, the work     *)
(* queue with its backoff, one worker, and shutdown.  Of a reconcile only  *)
(* what can keep the worker matters here: whether the SecretSync is found, *)
(* and the two calls without a deadline of their own, the token request,   *)
(* whose context.TODO() never ends, and Mount, which ends with the context *)
(* of the manager.  The other calls have that context too and return.      *)
(***************************************************************************)
EXTENDS Naturals, Sequences, FiniteSets

CONSTANTS
  Names,      \* names of SecretSyncs
  None,       \* no name
  Capacity,   \* of periodicChannel; 1024 in the code
  MaxChanges, \* bound: SecretSyncs created and deleted
  MaxFaults   \* bound: failed lists and failed reconciles

ASSUME PollingAssumption == None \notin Names /\ Capacity \in Nat \ {0}

VARIABLES
  listed,          \* the SecretSyncs in the informer cache
  cacheSynced,     \* the informers have their first list
  done,            \* ctx.Done() of the manager is closed
  ticker,          \* a tick waits in ticker.C, which holds one
  poll,            \* where the poll goroutine is
  items,           \* the items of ssList that are still to be sent
  periodicChannel,
  watching,        \* the channel source reads periodicChannel
  queue,           \* the work queue, in order
  dirty,           \* the names that are to be processed
  worker,          \* the name the worker processes, or None
  call,            \* the call it is in: "token" or "mount"; "none"
  backoff,         \* the names that wait for a retry
  changes,
  faults

env == <<listed, changes>>
polling == <<cacheSynced, ticker, poll, items>>
work == <<queue, dirty, worker, call, backoff>>
vars == <<env, polling, work, done, periodicChannel, watching, faults>>

Init ==
  /\ listed \in SUBSET Names
  /\ cacheSynced = FALSE /\ done = FALSE /\ ticker = FALSE
  /\ poll = "start" /\ items = {}
  /\ periodicChannel = <<>> /\ watching = TRUE
  /\ queue = <<>> /\ dirty = {} /\ worker = None /\ call = "none"
  /\ backoff = {}
  /\ changes = 0 /\ faults = 0

Fault == faults < MaxFaults /\ faults' = faults + 1

-----------------------------------------------------------------------------
(* The work queue of client-go: a name is in it once, a name that is added    *)
(* while it is processed waits until that is over, and nothing is added after *)
(* the context has ended.                                                     *)

Add(n) ==
  /\ dirty' = IF done THEN dirty ELSE dirty \cup {n}
  /\ queue' = IF done \/ n \in dirty \cup {worker} THEN queue ELSE Append(queue, n)

\* Done(n), with a retry if the reconcile has failed.
Finish(n, retry) ==
  /\ worker' = None /\ call' = "none"
  /\ queue' = IF n \in dirty THEN Append(queue, n) ELSE queue
  /\ backoff' = IF retry /\ ~done THEN backoff \cup {n} ELSE backoff
  /\ UNCHANGED dirty

-----------------------------------------------------------------------------
(* The poll goroutine *)

\* WaitForCacheSync: false if the context ends first.
CacheSync ==
  /\ poll = "start" /\ cacheSynced
  /\ poll' = "select"
  /\ UNCHANGED <<env, cacheSynced, ticker, items, work, done, periodicChannel, watching, faults>>

Tick ==
  /\ poll \in {"select", "send"} /\ ~ticker
  /\ ticker' = TRUE
  /\ UNCHANGED <<env, cacheSynced, poll, items, work, done, periodicChannel, watching, faults>>

List ==
  /\ poll = "select" /\ ticker
  /\ ticker' = FALSE
  /\ \/ items' = listed /\ poll' = "send" /\ UNCHANGED faults
     \/ Fault /\ UNCHANGED <<items, poll>>     \* logged, wait for the next tick
  /\ UNCHANGED <<env, cacheSynced, work, done, periodicChannel, watching>>

\* Mutant: an event that does not fit into the channel is dropped.
Send_DropsWhenFull ==
  /\ poll = "send" /\ items # {}
  /\ \E n \in items :
       /\ items' = items \ {n}
       /\ periodicChannel' = IF Len(periodicChannel) < Capacity
                             THEN Append(periodicChannel, n) ELSE periodicChannel
  /\ UNCHANGED <<env, cacheSynced, ticker, poll, work, done, watching, faults>>

\* The send blocks while the channel is full.  The order of a list from the cache
\* is not defined.
Send ==
  /\ poll = "send" /\ items # {}
  /\ Len(periodicChannel) < Capacity
  /\ \E n \in items :
       /\ items' = items \ {n}
       /\ periodicChannel' = Append(periodicChannel, n)
  /\ UNCHANGED <<env, cacheSynced, ticker, poll, work, done, watching, faults>>

AllSent ==
  /\ poll = "send" /\ items = {}
  /\ poll' = "select"
  /\ UNCHANGED <<env, cacheSynced, ticker, items, work, done, periodicChannel, watching, faults>>

\* Mutant: only the outer select looks at the context.
HandleContextDone_OuterOnly ==
  /\ done /\ poll \in {"start", "select"}
  /\ poll' = "closed" /\ items' = {}
  /\ UNCHANGED <<env, cacheSynced, ticker, work, done, periodicChannel, watching, faults>>

\* Each select has ctx.Done(); the channel is closed on return.
HandleContextDone ==
  /\ done
  /\ poll \in {"start", "select"} \/ (poll = "send" /\ items # {})
  /\ poll' = "closed" /\ items' = {}
  /\ UNCHANGED <<env, cacheSynced, ticker, work, done, periodicChannel, watching, faults>>

-----------------------------------------------------------------------------
(* The controller *)

\* The channel source takes an event and its handler adds the name.
ChannelEvent ==
  /\ watching /\ periodicChannel # <<>>
  /\ periodicChannel' = Tail(periodicChannel)
  /\ Add(Head(periodicChannel))
  /\ UNCHANGED <<env, polling, worker, call, backoff, done, watching, faults>>

\* The source stops with the context, or when the channel is closed and empty.
SourceStops ==
  /\ watching
  /\ done \/ (poll = "closed" /\ periodicChannel = <<>>)
  /\ watching' = FALSE
  /\ UNCHANGED <<env, polling, work, done, periodicChannel, faults>>

\* A SecretSync that is not found is an error like any other: it is retried.
ReconcileNotFound ==
  /\ worker = None /\ queue # <<>>
  /\ Head(queue) \notin listed
  /\ queue' = Tail(queue)
  /\ dirty' = dirty \ {Head(queue)}
  /\ backoff' = IF done THEN backoff ELSE backoff \cup {Head(queue)}
  /\ UNCHANGED <<env, polling, worker, call, done, periodicChannel, watching, faults>>

\* Reconcile, up to the token request of prepareCSIProviderParams.
Reconcile ==
  /\ worker = None /\ queue # <<>>
  /\ Head(queue) \in listed
  /\ queue' = Tail(queue)
  /\ dirty' = dirty \ {Head(queue)}
  /\ worker' = Head(queue) /\ call' = "token"
  /\ UNCHANGED <<env, polling, backoff, done, periodicChannel, watching, faults>>

\* A token, at once if it is cached, or an error; or neither, for nothing ends
\* the context of the request.
TokenReturns ==
  /\ call = "token"
  /\ \/ call' = "mount" /\ UNCHANGED <<queue, dirty, worker, backoff, faults>>
     \/ Finish(worker, TRUE) /\ Fault
  /\ UNCHANGED <<env, polling, done, periodicChannel, watching>>

\* Mount returns and Reconcile ends, in time or not at all: only the end of the
\* context makes sure that it does.
MountReturns ==
  /\ call = "mount"
  /\ \/ Finish(worker, FALSE) /\ UNCHANGED faults
     \/ Finish(worker, TRUE) /\ Fault
  /\ UNCHANGED <<env, polling, done, periodicChannel, watching>>

MountCancelled ==
  /\ call = "mount" /\ done
  /\ Finish(worker, TRUE)
  /\ UNCHANGED <<env, polling, done, periodicChannel, watching, faults>>

Retry(n) ==
  /\ n \in backoff /\ ~done
  /\ backoff' = backoff \ {n}
  /\ Add(n)
  /\ UNCHANGED <<env, polling, worker, call, done, periodicChannel, watching, faults>>

-----------------------------------------------------------------------------
(* The manager and the users *)

StartCaches ==
  /\ ~cacheSynced /\ ~done
  /\ cacheSynced' = TRUE
  /\ dirty' = listed
  /\ \E q \in [1 .. Cardinality(listed) -> listed] :
       /\ \A i, j \in DOMAIN q : i # j => q[i] # q[j]
       /\ queue' = q
  /\ UNCHANGED <<env, ticker, poll, items, worker, call, backoff, done, periodicChannel,
                 watching, faults>>

\* SIGTERM: the queue is shut down with the context, what is in it is still taken.
Stop ==
  /\ ~done
  /\ done' = TRUE
  /\ UNCHANGED <<env, polling, work, periodicChannel, watching, faults>>

Change == cacheSynced /\ changes < MaxChanges /\ changes' = changes + 1

CreateSecretSync(n) ==
  /\ n \notin listed
  /\ listed' = listed \cup {n}
  /\ Add(n)
  /\ Change
  /\ UNCHANGED <<polling, worker, call, backoff, done, periodicChannel, watching, faults>>

\* DeleteFunc drops the event: the name stays wherever it is.
DeleteSecretSync(n) ==
  /\ n \in listed
  /\ listed' = listed \ {n}
  /\ Change
  /\ UNCHANGED <<polling, work, done, periodicChannel, watching, faults>>

PollGoroutine == CacheSync \/ List \/ Send \/ AllSent \/ HandleContextDone
Worker == ReconcileNotFound \/ Reconcile

Next ==
  \/ PollGoroutine
  \/ Tick
  \/ ChannelEvent
  \/ SourceStops
  \/ Worker
  \/ TokenReturns
  \/ MountReturns
  \/ MountCancelled
  \/ StartCaches
  \/ Stop
  \/ \E n \in Names : Retry(n) \/ CreateSecretSync(n) \/ DeleteSecretSync(n)

Spec == Init /\ [][Next]_vars

\* Goroutines, ticker and timers run on; a select that finds ctx.Done() ready
\* again and again takes it in the end.  Mount owes nothing until the context
\* ends, a token request never does, neither do users and the signal.
Fairness ==
  /\ WF_vars(PollGoroutine) /\ SF_vars(HandleContextDone)
  /\ WF_vars(Tick)
  /\ WF_vars(ChannelEvent) /\ WF_vars(SourceStops)
  /\ WF_vars(Worker) /\ WF_vars(MountCancelled)
  /\ WF_vars(StartCaches)
  /\ \A n \in Names : WF_vars(Retry(n))

FairSpec == Spec /\ Fairness

-----------------------------------------------------------------------------
(* Properties *)

\* The fetch of every SecretSync that stays comes to its Mount again and again,
\* unless the process stops or some call never returns (the token request,
\* token_manager.go:77, or Mount, provider_client.go:240): a full channel, failed
\* lists and the endless retries of names that were deleted (line 117) hold nobody
\* up.
EveryonePolled ==
  \A n \in Names :
    (<>[](n \in listed /\ ~done) /\ []<>(worker = None))
      => []<>(worker = n /\ call = "mount")

\* After the context ends the poll goroutine ends, even when its channel is full
\* and nobody reads it any more, and so does the source.  The worker ends too,
\* whatever Mount does, unless a token request never returns.
ShutdownCompletes ==
  /\ done ~> [](poll = "closed" /\ ~watching)
  /\ []<>(call # "token") => (done ~> [](worker = None))
=============================================================================
