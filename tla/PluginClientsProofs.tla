------------------------- MODULE PluginClientsProofs -------------------------
(***************************************************************************)
(* The safety of PluginClients, for any providers and any number of        *)
(* goroutines.                                                             *)
(***************************************************************************)
EXTENDS PluginClients, TLAPS

\* The inductive invariant.  Between the critical sections of Get the map only
\* grows, so the parts support each other: a client in use is a client of the map
\* (SharedClient), a client of the map is open (RegisteredOpen), and so is one that
\* was dialed and waits to be registered (DialedOpen).  Cleanup does not close that
\* one because only one goroutine knows it (DialedOwned).
DialedOpen == \A g \in Getters : pc[g] = "lock" => out[g] \in open

DialedOwned ==
  \A g \in Getters : pc[g] = "lock" =>
    /\ \A p \in Providers : clients[p] # out[g]
    /\ \A h \in Getters \ {g} : pc[h] = "lock" => out[h] # out[g]

\* HealthCheck has nothing to call when it does not hold the lock.
IdleHealth == ~checking => health = {}

ClientsInv ==
  /\ RegisteredOpen
  /\ DialedOpen
  /\ DialedOwned
  /\ SharedClient
  /\ IdleHealth
  /\ HealthChecksOpen

USE InvalidAssumption, MaxDialsAssumption, NoClientAssumption

\* Every step of Get, Cleanup and HealthCheck keeps the types.
LEMMA ClientsTypeStep == TypeOK /\ [Next]_vars => TypeOK'
<1> SUFFICES ASSUME TypeOK, [Next]_vars PROVE TypeOK'
  OBVIOUS
<1> USE DEF TypeOK, locals
<1>1. ASSUME NEW g \in Getters, NEW p \in Providers, Get(g, p) PROVE TypeOK'
  BY <1>1 DEF Get
<1>2. ASSUME NEW g \in Getters, Load(g) PROVE TypeOK'
  BY <1>2 DEF Load, Registered
<1>3. ASSUME NEW g \in Getters, GetFails(g) PROVE TypeOK'
  BY <1>3 DEF GetFails
<1>4. ASSUME NEW g \in Getters, Dial(g) PROVE TypeOK'
  <2>1. dialed' \in Nat /\ 1 .. dialed \subseteq 1 .. dialed' /\ dialed' \in 1 .. dialed'
    BY <1>4 DEF Dial
  <2> QED BY <1>4, <2>1 DEF Dial
<1>5. ASSUME NEW g \in Getters, Register(g) PROVE TypeOK'
  BY <1>5 DEF Register, Registered
<1>6. ASSUME NEW g \in Getters, Release(g) PROVE TypeOK'
  BY <1>6 DEF Release
<1>7. CASE Cleanup
  BY <1>7 DEF Cleanup
<1>8. CASE CloseAll
  BY <1>8 DEF CloseAll
<1>9. CASE HealthTick
  BY <1>9 DEF HealthTick, Registered
<1>10. CASE HealthStep
  BY <1>10 DEF HealthStep, HealthUnlock, Version
<1>11. CASE SocketChange
  BY <1>11 DEF SocketChange
<1>12. CASE UNCHANGED vars
  BY <1>12 DEF vars
<1> QED
  BY <1>1, <1>2, <1>3, <1>4, <1>5, <1>6, <1>7, <1>8, <1>9, <1>10, <1>11, <1>12
     DEF Next, GetStep

\* A goroutine of Get, Cleanup or HealthCheck that takes a step leaves registered,
\* used and walked clients as ClientsInv says.
LEMMA ClientsStep == TypeOK /\ ClientsInv /\ [Next]_vars => ClientsInv'
<1> SUFFICES ASSUME TypeOK, ClientsInv, [Next]_vars PROVE ClientsInv'
  OBVIOUS
<1> USE DEF TypeOK, locals, ClientsInv, RegisteredOpen, DialedOpen, DialedOwned,
            SharedClient, IdleHealth, HealthChecksOpen, Registered
<1>1. ASSUME NEW g \in Getters, NEW p \in Providers, Get(g, p) PROVE ClientsInv'
  BY <1>1 DEF Get
<1>2. ASSUME NEW g \in Getters, Load(g) PROVE ClientsInv'
  BY <1>2 DEF Load
<1>3. ASSUME NEW g \in Getters, GetFails(g) PROVE ClientsInv'
  BY <1>3 DEF GetFails
<1>4. ASSUME NEW g \in Getters, Dial(g) PROVE ClientsInv'
  <2>1. open \subseteq open' /\ dialed' \in open' /\ dialed' \notin 1 .. dialed /\ dialed' \in Nat
    BY <1>4 DEF Dial
  <2> QED BY <1>4, <2>1 DEF Dial
<1>5. ASSUME NEW g \in Getters, Register(g) PROVE ClientsInv'
  BY <1>5 DEF Register, CanWrite
<1>6. ASSUME NEW g \in Getters, Release(g) PROVE ClientsInv'
  BY <1>6 DEF Release
<1>7. CASE Cleanup
  BY <1>7 DEF Cleanup
<1>8. CASE CloseAll
  BY <1>8 DEF CloseAll, CanWrite
<1>9. CASE HealthTick
  BY <1>9 DEF HealthTick
<1>10. CASE HealthStep
  BY <1>10 DEF HealthStep, HealthUnlock, Version
<1>11. CASE SocketChange
  BY <1>11 DEF SocketChange
<1>12. CASE UNCHANGED vars
  BY <1>12 DEF vars
<1> QED
  BY <1>1, <1>2, <1>3, <1>4, <1>5, <1>6, <1>7, <1>8, <1>9, <1>10, <1>11, <1>12
     DEF Next, GetStep

\* Get, Cleanup and HealthCheck keep the types of TypeOK: a Get that returns
\* without an error returns a client.
THEOREM ClientsTypeCorrect == Spec => []TypeOK
<1>1. Init => TypeOK
  <2> SUFFICES ASSUME Init PROVE TypeOK
    OBVIOUS
  <2>1. dialed \in Nat /\ open \subseteq 1 .. dialed
    BY DEF Init
  <2>2. clients \in [Providers -> (1 .. dialed) \cup {None}]
    BY DEF Init
  <2>3. out \in [Getters -> (1 .. dialed) \cup {None}]
    BY DEF Init
  <2>4. \A g \in Getters : pc[g] = "idle"
    BY DEF Init
  <2>5. pc \in [Getters -> {"idle", "load", "dial", "lock", "using"}]
    BY DEF Init
  <2>6. sockets \subseteq Providers /\ provider \in [Getters -> Providers]
    BY DEF Init
  <2>7. checking \in BOOLEAN /\ cleanup \in {"idle", "lock", "done"} /\ health \subseteq Providers
    BY DEF Init
  <2> QED BY <2>1, <2>2, <2>3, <2>4, <2>5, <2>6, <2>7 DEF TypeOK
<1> QED
  BY <1>1, ClientsTypeStep, PTL DEF Spec

\* The invariant of the map of clients holds, for any number of goroutines.
THEOREM ClientsInvHolds == Spec => []ClientsInv
<1>1. Init => ClientsInv
  BY DEF Init, ClientsInv, RegisteredOpen, DialedOpen, DialedOwned, SharedClient,
         IdleHealth, HealthChecksOpen, Registered
<1> QED
  BY <1>1, ClientsStep, ClientsTypeCorrect, PTL DEF Spec

\* What Get reads from the map is never a client that Cleanup has closed.
THEOREM RegisteredOpenHolds == Spec => []RegisteredOpen
  BY ClientsInvHolds, PTL DEF ClientsInv

\* All callers of Get for one provider share one client until Cleanup has run.
THEOREM SharedClientHolds == Spec => []SharedClient
  BY ClientsInvHolds, PTL DEF ClientsInv

\* A health check only ever calls clients that are registered and open.
THEOREM HealthChecksOpenHolds == Spec => []HealthChecksOpen
  BY ClientsInvHolds, PTL DEF ClientsInv
=============================================================================
