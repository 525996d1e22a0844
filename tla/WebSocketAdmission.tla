------------------------- MODULE WebSocketAdmission -------------------------
(***************************************************************************)
(* How a WebSocket gets its place: the counters of its replica, the ticket *)
(* that opens one socket, and two leases (one for all connections, one for *)
(* its network) in Redis.  The connection handler awaits between its steps *)
(* and the socket may close at any of them; a listener attached to a       *)
(* socket that has closed already is never called.                         *)
(***************************************************************************)
EXTENDS Integers, FiniteSets

CONSTANTS
    Connections,     \* connection attempts
    NetworkOf,       \* the address a connection comes from
    Replicas,        \* the gateway processes
    TicketOf,        \* the ticket its URL carries
    ConnectionLimit, \* MAX_WS_CONNECTIONS
    ScopedMax,       \* the most acquireScopedCapacity grants of any limit
    NetworkLimit,    \* MAX_WS_CONNECTIONS_PER_NETWORK, below that maximum
    LeaseLife        \* life of a lease that is not renewed

ASSUME AdmissionAssumption ==
    /\ IsFiniteSet(Connections)
    /\ ConnectionLimit \in Nat \ {0} /\ ScopedMax \in Nat \ {0}
    /\ NetworkLimit \in 1..ScopedMax
    /\ LeaseLife \in Nat \ {0, 1}

VARIABLES
    replica,       \* the process a connection is routed to
    socket,        \* readyState of the socket
    stage,         \* which await its connection handler is at
    heard,         \* close listeners attached while it was not closed
    placed,        \* connections counted by their replica
    claimed,       \* tickets claimed in Redis
    globalLease,   \* time left in the websocket-global set, 0: not in it
    networkLease,  \* the same in the websocket-network set of its address
    timer,         \* connections whose renewal timer runs
    clients,       \* clientData
    stopping       \* replicas that were told to stop

admissionVars == <<replica, socket, stage, heard, placed, claimed, globalLease,
                   networkLease, timer, clients, stopping>>
leases == <<globalLease, networkLease>>

SocketState == {"absent", "open", "closing", "closed"}
Stage == {"idle", "config", "ticket", "global", "network", "backout",
          "granted", "hydrate", "serving", "over"}
Tickets  == {TicketOf[c] : c \in Connections}

AdmissionTypeOK ==
    /\ replica \in [Connections -> Replicas]
    /\ socket \in [Connections -> SocketState]
    /\ stage \in [Connections -> Stage]
    /\ heard \in [Connections -> SUBSET {"place", "lease", "client"}]
    /\ placed \subseteq Connections
    /\ claimed \subseteq Tickets
    /\ globalLease \in [Connections -> 0..LeaseLife]
    /\ networkLease \in [Connections -> 0..LeaseLife]
    /\ timer \subseteq Connections
    /\ clients \subseteq Connections
    /\ stopping \subseteq Replicas

AdmissionInit ==
    /\ replica \in [Connections -> Replicas]
    /\ socket = [c \in Connections |-> "absent"]
    /\ stage = [c \in Connections |-> "idle"]
    /\ heard = [c \in Connections |-> {}]
    /\ placed = {}
    /\ claimed = {}
    /\ globalLease = [c \in Connections |-> 0]
    /\ networkLease = [c \in Connections |-> 0]
    /\ timer = {}
    /\ clients = {}
    /\ stopping = {}

At(c, s)   == stage' = [stage EXCEPT ![c] = s]
Live(c)    == socket[c] \in {"open", "closing"}

\* ws.close on a socket that is closing or closed does nothing.
Close(c) == socket' = [socket EXCEPT ![c] = IF @ = "open" THEN "closing" ELSE @]
Attach(c, listener) ==
    heard' = [heard EXCEPT ![c] = IF Live(c) THEN @ \union {listener} ELSE @]
Refuse(c) == Close(c) /\ At(c, "over")

Connect(c) ==
    /\ socket[c] = "absent"
    /\ replica[c] \notin stopping
    /\ socket' = [socket EXCEPT ![c] = "open"]
    /\ At(c, "config")
    /\ UNCHANGED <<heard, placed, claimed, leases, timer, clients, stopping>>

ConfigUnavailable(c) ==
    /\ stage[c] = "config"
    /\ Refuse(c)
    /\ UNCHANGED <<heard, placed, claimed, leases, timer, clients, stopping>>

\* wss.clients.size - 1 and the counter of the address, on this replica.
ReplicaFull(c) ==
    LET here == {d \in Connections : replica[d] = replica[c]} IN
    \/ Cardinality({d \in here : Live(d)}) - 1 >= ConnectionLimit
    \/ Cardinality({d \in placed \intersect here : NetworkOf[d] = NetworkOf[c]}) >= NetworkLimit

CapRefuses(c) ==
    /\ stage[c] = "config"
    /\ ReplicaFull(c)
    /\ Refuse(c)
    /\ UNCHANGED <<heard, placed, claimed, leases, timer, clients, stopping>>

\* The place is taken before the origin and the ticket's signature are tested.
AdmitLocally(c) ==
    /\ stage[c] = "config"
    /\ ~ReplicaFull(c)
    /\ placed' = placed \union {c}
    /\ Attach(c, "place")
    /\ \/ Refuse(c)
       \/ At(c, "ticket") /\ UNCHANGED socket
    /\ UNCHANGED <<claimed, leases, timer, clients, stopping>>

\* claimOnce: SET NX.
ClaimTicket(c) ==
    /\ stage[c] = "ticket"
    /\ TicketOf[c] \notin claimed
    /\ claimed' = claimed \union {TicketOf[c]}
    /\ At(c, "global")
    /\ UNCHANGED <<socket, heard, placed, leases, timer, clients, stopping>>

\* The ticket was used, or the call failed, before or after Redis ran it.
TicketRefused(c) ==
    /\ stage[c] = "ticket"
    /\ claimed' \in {claimed, claimed \union {TicketOf[c]}}
    /\ Refuse(c)
    /\ UNCHANGED <<heard, placed, leases, timer, clients, stopping>>

\* numberFromEnv in acquireScopedCapacity clamps the configured limit.
GlobalCap == IF ConnectionLimit < ScopedMax THEN ConnectionLimit ELSE ScopedMax

GlobalHolders     == {c \in Connections : globalLease[c] > 0}
NetworkHolders(n) == {c \in Connections : networkLease[c] > 0 /\ NetworkOf[c] = n}

\* Mutant: the set is full when it is over its limit.
HasRoomAtLimit(holders, cap) == Cardinality(holders) <= cap

\* SEMAPHORE_ACQUIRE_SCRIPT: expired members are dropped, the rest counted.
HasRoom(holders, cap) == Cardinality(holders) < cap

AcquireGlobal(c) ==
    /\ stage[c] = "global"
    /\ IF HasRoom(GlobalHolders, GlobalCap)
       THEN /\ globalLease' = [globalLease EXCEPT ![c] = LeaseLife]
            /\ At(c, "network")
            /\ UNCHANGED socket
       ELSE Refuse(c) /\ UNCHANGED globalLease
    /\ UNCHANGED <<heard, placed, claimed, networkLease, timer, clients, stopping>>

\* The call throws; when Redis ran it, nobody knows the token it left there.
AcquireGlobalFails(c) ==
    /\ stage[c] = "global"
    /\ \/ UNCHANGED globalLease
       \/ /\ HasRoom(GlobalHolders, GlobalCap)
          /\ globalLease' = [globalLease EXCEPT ![c] = LeaseLife]
    /\ Refuse(c)
    /\ UNCHANGED <<heard, placed, claimed, networkLease, timer, clients, stopping>>

AcquireNetwork(c) ==
    /\ stage[c] = "network"
    /\ IF HasRoom(NetworkHolders(NetworkOf[c]), NetworkLimit)
       THEN networkLease' = [networkLease EXCEPT ![c] = LeaseLife] /\ At(c, "granted")
       ELSE At(c, "backout") /\ UNCHANGED networkLease
    /\ UNCHANGED <<socket, heard, placed, claimed, globalLease, timer, clients, stopping>>

AcquireNetworkFails(c) ==
    /\ stage[c] = "network"
    /\ \/ UNCHANGED networkLease
       \/ /\ HasRoom(NetworkHolders(NetworkOf[c]), NetworkLimit)
          /\ networkLease' = [networkLease EXCEPT ![c] = LeaseLife]
    /\ At(c, "backout")
    /\ UNCHANGED <<socket, heard, placed, claimed, globalLease, timer, clients, stopping>>

\* A release swallows its error: the lease is gone, or it stays to expire.
ReleasedOrLeft(lease, c) == {lease, [lease EXCEPT ![c] = 0]}

\* The network refused, or its call failed: the global lease is given back.
BackOut(c) ==
    /\ stage[c] = "backout"
    /\ globalLease' \in ReleasedOrLeft(globalLease, c)
    /\ Refuse(c)
    /\ UNCHANGED <<heard, placed, claimed, networkLease, timer, clients, stopping>>

\* installDistributedWebSocketLease, then clientData.set, in one turn of the loop.
InstallLease(c) ==
    /\ stage[c] = "granted"
    /\ timer' = timer \union {c}
    /\ Attach(c, "lease")
    /\ clients' = clients \union {c}
    /\ At(c, "hydrate")
    /\ UNCHANGED <<socket, placed, claimed, leases, stopping>>

\* The verified states are restored or given up; then the handlers are attached.
Serve(c) ==
    /\ stage[c] = "hydrate"
    /\ Attach(c, "client")
    /\ At(c, "serving")
    /\ UNCHANGED <<socket, placed, claimed, leases, timer, clients, stopping>>

\* The close event, whatever closed the socket; each listener does its part.
SocketCloses(c) ==
    /\ Live(c)
    /\ socket' = [socket EXCEPT ![c] = "closed"]
    /\ placed' = IF "place" \in heard[c] THEN placed \ {c} ELSE placed
    /\ IF "lease" \in heard[c]
       THEN /\ timer' = timer \ {c}
            /\ globalLease' \in ReleasedOrLeft(globalLease, c)
            /\ networkLease' \in ReleasedOrLeft(networkLease, c)
       ELSE UNCHANGED <<timer, leases>>
    /\ clients' = IF "client" \in heard[c] THEN clients \ {c} ELSE clients
    /\ stage' = [stage EXCEPT ![c] = IF @ = "serving" THEN "over" ELSE @]
    /\ UNCHANGED <<heard, claimed, stopping>>

\* SEMAPHORE_RENEW_SCRIPT: a token that is not in the set stays out of it.
LeasesRenewed(left) == IF left > 0 THEN LeaseLife ELSE 0

\* The timer: one lost lease closes the socket, the other was renewed with it.
RenewLease(c) ==
    /\ c \in timer
    /\ globalLease' = [globalLease EXCEPT ![c] = LeasesRenewed(@)]
    /\ networkLease' = [networkLease EXCEPT ![c] = LeasesRenewed(@)]
    /\ IF globalLease'[c] > 0 /\ networkLease'[c] > 0 THEN UNCHANGED socket ELSE Close(c)
    /\ UNCHANGED <<stage, heard, placed, claimed, timer, clients, stopping>>

RenewLeaseFails(c) ==
    /\ c \in timer
    /\ globalLease' \in {globalLease, [globalLease EXCEPT ![c] = LeasesRenewed(@)]}
    /\ networkLease' \in {networkLease, [networkLease EXCEPT ![c] = LeasesRenewed(@)]}
    /\ Close(c)
    /\ UNCHANGED <<stage, heard, placed, claimed, timer, clients, stopping>>

\* revokeCustomerSockets: a logout closes the socket and forgets the client.
Revoke(c) ==
    /\ c \in clients
    /\ Close(c)
    /\ clients' = clients \ {c}
    /\ UNCHANGED <<stage, heard, placed, claimed, leases, timer, stopping>>

\* stopGateway: no connection is accepted any more and every socket is closed.
StopGateway(r) ==
    /\ r \notin stopping
    /\ stopping' = stopping \union {r}
    /\ socket' = [c \in Connections |->
                     IF replica[c] = r /\ socket[c] = "open" THEN "closing" ELSE socket[c]]
    /\ UNCHANGED <<stage, heard, placed, claimed, leases, timer, clients>>

\* The process exits after a stop, or dies; its leases stay in Redis.
ReplicaDies(r) ==
    LET mine == {c \in Connections : replica[c] = r /\ socket[c] # "absent"} IN
    /\ mine # {}
    /\ socket' = [c \in Connections |-> IF c \in mine THEN "closed" ELSE socket[c]]
    /\ stage' = [c \in Connections |-> IF c \in mine THEN "over" ELSE stage[c]]
    /\ heard' = [c \in Connections |-> IF c \in mine THEN {} ELSE heard[c]]
    /\ placed' = placed \ mine
    /\ timer' = timer \ mine
    /\ clients' = clients \ mine
    /\ stopping' = stopping \ {r}
    /\ UNCHANGED <<claimed, leases>>

\* An open socket renews three times per lease, an admission is shorter than
\* one: no lease of either runs out while Redis answers.
Holding(c) == stage[c] \in {"network", "granted", "hydrate", "serving"}
RenewsInTime == \A c \in Connections :
    Holding(c) /\ socket[c] = "open" => globalLease[c] # 1 /\ networkLease[c] # 1

Older(lease) == [c \in Connections |-> IF lease[c] > 0 THEN lease[c] - 1 ELSE 0]

LeasesAge ==
    /\ RenewsInTime
    /\ globalLease' = Older(globalLease)
    /\ networkLease' = Older(networkLease)
    /\ UNCHANGED <<socket, stage, heard, placed, claimed, timer, clients, stopping>>

Admit(c) ==
    \/ Connect(c) \/ ConfigUnavailable(c) \/ CapRefuses(c) \/ AdmitLocally(c)
    \/ ClaimTicket(c) \/ TicketRefused(c)
    \/ AcquireGlobal(c) \/ AcquireGlobalFails(c)
    \/ AcquireNetwork(c) \/ AcquireNetworkFails(c) \/ BackOut(c)
    \/ InstallLease(c) \/ Serve(c)

AdmissionNext ==
    /\ UNCHANGED replica
    /\ \/ \E c \in Connections :
             Admit(c) \/ SocketCloses(c) \/ RenewLease(c) \/ RenewLeaseFails(c) \/ Revoke(c)
       \/ \E r \in Replicas : StopGateway(r) \/ ReplicaDies(r)
       \/ LeasesAge

AdmissionSpec == AdmissionInit /\ [][AdmissionNext]_admissionVars

(***************************************************************************)
(* Properties                                                              *)
(***************************************************************************)
Served(c) == stage[c] \in {"hydrate", "serving"} /\ socket[c] = "open"

\* Whatever sockets closed, replicas died, releases or renewals failed before: the
\* open sockets that are served, on all replicas together, never outnumber the shared
\* limit, nor those of one address its own.  No renewal is a whole lease late
\* (RenewsInTime).
OpenSocketsWithinLimits ==
    /\ Cardinality({c \in Connections : Served(c)}) <= GlobalCap
    /\ \A n \in {NetworkOf[c] : c \in Connections} :
          Cardinality({c \in Connections : Served(c) /\ NetworkOf[c] = n}) <= NetworkLimit

\* "Keep a shared WebSocket lease alive and release it when the socket closes":
\* no timer goes on renewing the leases of a socket that has closed.
ClosedSocketRenewsNothing == \A c \in timer : socket[c] # "closed"
=============================================================================
