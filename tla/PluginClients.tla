---------------------------- MODULE PluginClients ----------------------------
(***************************************************************************)
(* PluginClientBuilder of pkg/provider/provider_client.go: the map from    *)
(* providers to their gRPC clients, read and filled by Get, emptied by     *)
(* Cleanup and walked by HealthCheck, under a sync.RWMutex.                *)
(*                                                                         *)
(* Get has two critical sections and dials between them.  A critical       *)
(* section that calls nothing is one step; HealthCheck holds the read lock *)
(* across its calls, so it has steps of its own.  A goroutine at "lock"    *)
(* has called Lock: from then on the mutex admits no new reader.           *)
(***************************************************************************)
EXTENDS Integers

CONSTANTS
  Providers,   \* names that Get is asked for
  Invalid,     \* those that pluginNameRe rejects
  Getters,     \* goroutines that call Get
  MaxDials,    \* bound: Get is called while fewer connections were dialed
  None         \* no client

ASSUME InvalidAssumption == Invalid \subseteq Providers
ASSUME MaxDialsAssumption == MaxDials \in Nat
ASSUME NoClientAssumption == None \notin Nat

VARIABLES
  clients,   \* clients[p]: the connection in the maps clients and conns, or None
  dialed,    \* the connections dialed so far; their numbers name them
  open,      \* those that were not closed
  sockets,   \* the providers whose socket exists in one of the socketPaths
  pc,        \* pc[g]: where the call of Get by g is
  provider,  \* provider[g]: its argument
  out,       \* out[g]: the connection that g has dialed or was given, or None
  cleanup,   \* where the call of Cleanup is
  checking,  \* HealthCheck holds the read lock
  health     \* the providers that it has still to call

locals == <<pc, provider, out>>
vars == <<clients, dialed, open, sockets, locals, cleanup, checking, health>>

Registered == {p \in Providers : clients[p] # None}

Init ==
  /\ clients = [p \in Providers |-> None]
  /\ dialed = 0
  /\ open = {}
  /\ sockets \in SUBSET Providers
  /\ pc = [g \in Getters |-> "idle"]
  /\ provider \in [Getters -> Providers]
  /\ out = [g \in Getters |-> None]
  /\ cleanup = "idle"
  /\ checking = FALSE
  /\ health = {}

-----------------------------------------------------------------------------
(* The mutex *)

\* RLock waits for writers, those that wait included.
CanRead == cleanup # "lock" /\ \A g \in Getters : pc[g] # "lock"

\* Lock waits for readers; HealthCheck is the only one between two steps.
CanWrite == ~checking

-----------------------------------------------------------------------------
(* Get *)

Get(g, p) ==
  /\ pc[g] = "idle" /\ dialed < MaxDials
  /\ pc' = [pc EXCEPT ![g] = "load"]
  /\ provider' = [provider EXCEPT ![g] = p]
  /\ UNCHANGED <<clients, dialed, open, sockets, out, cleanup, checking, health>>

\* The first critical section.  From RUnlock on (line 117) the client is in use:
\* Cleanup may close it before Get has returned it, as it may afterwards.
Load(g) ==
  /\ pc[g] = "load" /\ CanRead
  /\ out' = [out EXCEPT ![g] = clients[provider[g]]]
  /\ pc' = [pc EXCEPT ![g] = IF provider[g] \in Registered THEN "using" ELSE "dial"]
  /\ UNCHANGED <<clients, dialed, open, sockets, provider, cleanup, checking, health>>

\* An invalid name, no socket, or an error of grpc.NewClient.
GetFails(g) ==
  /\ pc[g] = "dial"
  /\ pc' = [pc EXCEPT ![g] = "idle"]
  /\ UNCHANGED <<clients, dialed, open, sockets, provider, out, cleanup, checking, health>>

\* grpc.NewClient, and the call of Lock.
Dial(g) ==
  /\ pc[g] = "dial" /\ provider[g] \in sockets \ Invalid
  /\ dialed' = dialed + 1
  /\ open' = open \cup {dialed'}
  /\ out' = [out EXCEPT ![g] = dialed']
  /\ pc' = [pc EXCEPT ![g] = "lock"]
  /\ UNCHANGED <<clients, sockets, provider, cleanup, checking, health>>

\* Mutant: the map is not read again.
Register_Overwrites(g) ==
  /\ pc[g] = "lock" /\ CanWrite
  /\ clients' = [clients EXCEPT ![provider[g]] = out[g]]
  /\ pc' = [pc EXCEPT ![g] = "using"]
  /\ UNCHANGED <<dialed, open, sockets, provider, out, cleanup, checking, health>>

\* Mutant: what was read from the map is returned even if there was nothing.
Register_ReturnsRead(g) ==
  /\ pc[g] = "lock" /\ CanWrite
  /\ out' = [out EXCEPT ![g] = clients[provider[g]]]
  /\ clients' = [clients EXCEPT ![provider[g]] = IF @ = None THEN out[g] ELSE @]
  /\ pc' = [pc EXCEPT ![g] = "using"]
  /\ UNCHANGED <<dialed, open, sockets, provider, cleanup, checking, health>>

\* The second critical section.  If another Get was faster, its client is
\* returned and the connection dialed by this one is dropped, still open.
Register(g) ==
  /\ pc[g] = "lock" /\ CanWrite
  /\ IF provider[g] \in Registered
     THEN out' = [out EXCEPT ![g] = clients[provider[g]]] /\ UNCHANGED clients
     ELSE clients' = [clients EXCEPT ![provider[g]] = out[g]] /\ UNCHANGED out
  /\ pc' = [pc EXCEPT ![g] = "using"]
  /\ UNCHANGED <<dialed, open, sockets, provider, cleanup, checking, health>>

\* The caller is done with the client.
Release(g) ==
  /\ pc[g] = "using"
  /\ pc' = [pc EXCEPT ![g] = "idle"]
  /\ UNCHANGED <<clients, dialed, open, sockets, provider, out, cleanup, checking, health>>

-----------------------------------------------------------------------------
(* Cleanup *)

\* The process ends: Cleanup is called once, and calls Lock.
Cleanup ==
  /\ cleanup = "idle"
  /\ cleanup' = "lock"
  /\ UNCHANGED <<clients, dialed, open, sockets, locals, checking, health>>

\* Mutant: the maps are not replaced.
CloseAll_KeepsMaps ==
  /\ cleanup = "lock" /\ CanWrite
  /\ open' = open \ {clients[p] : p \in Registered}
  /\ cleanup' = "done"
  /\ UNCHANGED <<clients, dialed, sockets, locals, checking, health>>

\* Mutant: the lock is not awaited.
CloseAll_NoLock ==
  /\ cleanup = "lock"
  /\ open' = open \ {clients[p] : p \in Registered}
  /\ clients' = [p \in Providers |-> None]
  /\ cleanup' = "done"
  /\ UNCHANGED <<dialed, sockets, locals, checking, health>>

\* The critical section; an error of Close is only logged.
CloseAll ==
  /\ cleanup = "lock" /\ CanWrite
  /\ open' = open \ {clients[p] : p \in Registered}
  /\ clients' = [p \in Providers |-> None]
  /\ cleanup' = "done"
  /\ UNCHANGED <<dialed, sockets, locals, checking, health>>

-----------------------------------------------------------------------------
(* HealthCheck *)

\* A tick: the read lock is taken and the clients are walked.
HealthTick ==
  /\ ~checking /\ CanRead
  /\ checking' = TRUE
  /\ health' = Registered
  /\ UNCHANGED <<clients, dialed, open, sockets, locals, cleanup>>

\* A call that answers, fails or runs into its deadline of five seconds.
Version(p) ==
  /\ checking /\ p \in health
  /\ health' = health \ {p}
  /\ UNCHANGED <<clients, dialed, open, sockets, locals, cleanup, checking>>

\* Mutant: the lock is released only if there was a client to call.
HealthUnlock_OnlyIfClients ==
  /\ checking /\ health = {} /\ Registered # {}
  /\ checking' = FALSE
  /\ UNCHANGED <<clients, dialed, open, sockets, locals, cleanup, health>>

HealthUnlock ==
  /\ checking /\ health = {}
  /\ checking' = FALSE
  /\ UNCHANGED <<clients, dialed, open, sockets, locals, cleanup, health>>

\* Provider plugins are installed and removed.
SocketChange ==
  /\ sockets' \in SUBSET Providers \ {sockets}
  /\ UNCHANGED <<clients, dialed, open, locals, cleanup, checking, health>>

-----------------------------------------------------------------------------
GetStep(g) == Load(g) \/ GetFails(g) \/ Dial(g) \/ Register(g)

HealthStep == HealthUnlock \/ \E p \in Providers : Version(p)

Next ==
  \/ \E g \in Getters : GetStep(g) \/ Release(g) \/ \E p \in Providers : Get(g, p)
  \/ Cleanup
  \/ CloseAll
  \/ HealthTick
  \/ HealthStep
  \/ SocketChange

Spec == Init /\ [][Next]_vars

\* A goroutine inside Get or Cleanup runs on, and so does a health check: its
\* calls have a deadline.  The ticker and the callers owe nothing.
Fairness ==
  /\ \A g \in Getters : WF_vars(GetStep(g))
  /\ WF_vars(CloseAll)
  /\ WF_vars(HealthStep)

FairSpec == Spec /\ Fairness

-----------------------------------------------------------------------------
(* Properties *)

\* The type invariant.  In particular a Get that has dialed holds a connection,
\* and one that returned without an error returned a client (lines 117-119, 169).
TypeOK ==
  /\ dialed \in Nat
  /\ clients \in [Providers -> (1 .. dialed) \cup {None}]
  /\ open \subseteq 1 .. dialed
  /\ sockets \subseteq Providers
  /\ pc \in [Getters -> {"idle", "load", "dial", "lock", "using"}]
  /\ provider \in [Getters -> Providers]
  /\ out \in [Getters -> (1 .. dialed) \cup {None}]
  /\ \A g \in Getters : pc[g] \in {"lock", "using"} => out[g] # None
  /\ cleanup \in {"idle", "lock", "done"}
  /\ checking \in BOOLEAN
  /\ health \subseteq Providers

\* A client in the map has an open connection: what Get reads there, and returns
\* without a look (lines 115-119), is open at the time it is read.  It may be
\* closed by the time it is used, if Cleanup runs in between.
RegisteredOpen == \A p \in Registered : clients[p] \in open

\* Until Cleanup has run, all callers of one provider use the same client, that
\* of the map, however their dials and critical sections interleave (line 162).
SharedClient ==
  cleanup # "done" =>
    \A g \in Getters : pc[g] = "using" => out[g] = clients[provider[g]]

\* The clients that a health check is walking stay registered and open until it
\* releases the read lock, whoever wants to register or to clean up meanwhile.
HealthChecksOpen == \A p \in health : p \in Registered /\ clients[p] \in open

\* Get and Cleanup return: neither the second lock of Get nor health checks that
\* hold the read lock across calls make them wait for ever.
LocksGranted ==
  /\ \A g \in Getters :
       pc[g] \in {"load", "dial", "lock"} ~> pc[g] \in {"using", "idle"}
  /\ cleanup = "lock" ~> cleanup = "done"
==============================================================================
