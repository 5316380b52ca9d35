---------------------------- MODULE GatewayPool ----------------------------
(***************************************************************************)
(* How the requests of the service reach the peers of the blockchain: the  *)
(* pool of gateways (grpc.client.pool.ts), filled the first time that a    *)
(* peer is asked for, and the communicators that it is filled from.        *)
(*                                                                         *)
(* getClientForPeer looks into the pool, then awaits three files, then     *)
(* puts what it has made there: requests that come before the first is     *)
(* done make a client each. A client is named after its request.           *)
(***************************************************************************)
EXTENDS Naturals, FiniteSets

CONSTANTS
    Request,    \* the requests, each of one peer
    Peer,       \* Org1Peer, Org2Peer and Org3Peer
    Org,        \* the organization of each: Org[p]
    Known,      \* the organizations that are told by name, and ...
    Other,      \* ... the one that any other is taken to be
    Asked,      \* the peers that the controllers ask for
    None        \* no client

CONSTANT MaxFaults  \* a bound of the model: files not read and peers that stop

GatewayPoolAssumption ==
    /\ Asked \subseteq Peer /\ Asked # {} /\ Org \in [Peer -> Known \cup {Other}]
    /\ None \notin Request /\ MaxFaults \in Nat

VARIABLES
    pc,         \* pc[r]: how far a request is
    peer,       \* peer[r]: the peer that it asks for
    clients,    \* clients[p]: the pool
    communicator, \* communicator[c]: what a client is made from
    opened,     \* the gRPC clients that have been made, none is ever closed
    connected,  \* those with an identity and a signer: the gateways
    used,       \* used[r]: the gateway that the request uses
    up,         \* the peers that answer
    faults

vars == <<pc, peer, clients, communicator, opened, connected, used, up, faults>>
pool == <<clients, communicator, opened, connected>>

Steps(r, step) == pc' = [pc EXCEPT ![r] = step]

----------------------------------------------------------------------------
(* peer.enum.ts and the factory of the communicators *)

\* The fields of a communicator, each of an organization or of a peer.
Communicator ==
    [keyPath : Known \cup {Other}, certPath : Known \cup {Other},
     peerTlsPath : Known \cup {Other}, peerEndpoint : Peer, mspId : Known \cup {Other}]

\* org1WithEndpoint, org2WithEndpoint and org3WithEndpoint.
WithEndpoint(org, p) ==
    [keyPath |-> org, certPath |-> org, peerTlsPath |-> org,
     peerEndpoint |-> p, mspId |-> org]

\* The communicator of the organization in the name of the peer.
CommunicatorOf(p) == WithEndpoint(IF Org[p] \in Known THEN Org[p] ELSE Other, p)

----------------------------------------------------------------------------
(* getClientForPeer *)

\* The pool has a client of the peer, or one is to be made.
Ask(r, p) ==
    /\ pc[r] = "none"
    /\ peer' = [peer EXCEPT ![r] = p]
    /\ IF clients[p] # None
       THEN Steps(r, "got") /\ used' = [used EXCEPT ![r] = clients[p]] /\ UNCHANGED communicator
       ELSE /\ Steps(r, "tls") /\ UNCHANGED used
            /\ communicator' = [communicator EXCEPT ![r] = CommunicatorOf(p)]
    /\ UNCHANGED <<clients, opened, connected, up, faults>>

\* Mutant of CreateGrpcClient: the pool is filled at once.
CreateGrpcClientInPool(r) ==
    /\ pc[r] = "tls"
    /\ opened' = opened \cup {r}
    /\ clients' = [clients EXCEPT ![peer[r]] = r]
    /\ Steps(r, "identity")
    /\ UNCHANGED <<peer, communicator, connected, used, up, faults>>

\* The certificate of the peer is read, and the client is made.
CreateGrpcClient(r) ==
    /\ pc[r] = "tls"
    /\ opened' = opened \cup {r}
    /\ Steps(r, "identity")
    /\ UNCHANGED <<peer, clients, communicator, connected, used, up, faults>>

CreateIdentity(r) ==
    /\ pc[r] = "identity"
    /\ Steps(r, "signer")
    /\ UNCHANGED <<peer, pool, used, up, faults>>

\* The key is read; the gateway is connected, put in the pool, and returned.
CreateSigner(r) ==
    /\ pc[r] = "signer"
    /\ connected' = connected \cup {r}
    /\ clients' = [clients EXCEPT ![peer[r]] = r]
    /\ used' = [used EXCEPT ![r] = r]
    /\ Steps(r, "got")
    /\ UNCHANGED <<peer, communicator, opened, up, faults>>

\* A file cannot be read: the request fails, and the pool is as it was.
FailToRead(r) ==
    /\ pc[r] \in {"tls", "identity", "signer"} /\ faults < MaxFaults
    /\ faults' = faults + 1
    /\ Steps(r, "failed")
    /\ UNCHANGED <<peer, pool, used, up>>

----------------------------------------------------------------------------
(* The calls of the contracts *)

Call(r) ==
    /\ pc[r] = "got" /\ communicator[used[r]].peerEndpoint \in up
    /\ Steps(r, "done")
    /\ UNCHANGED <<peer, pool, used, up, faults>>

\* Mutant of TimeOut: a call with no deadline.
WaitForEver(r) == pc[r] = "got" /\ UNCHANGED vars

\* A call has a deadline.
TimeOut(r) ==
    /\ pc[r] = "got" /\ communicator[used[r]].peerEndpoint \notin up
    /\ Steps(r, "unavailable")
    /\ UNCHANGED <<peer, pool, used, up, faults>>

Stop(p) ==
    /\ p \in up /\ faults < MaxFaults
    /\ faults' = faults + 1
    /\ up' = up \ {p}
    /\ UNCHANGED <<pc, peer, pool, used>>

----------------------------------------------------------------------------

Init ==
    /\ pc = [r \in Request |-> "none"]
    /\ peer \in [Request -> {CHOOSE p \in Asked : TRUE}]
    /\ clients = [p \in Peer |-> None]
    /\ communicator = [r \in Request |-> CommunicatorOf(peer[r])]
    /\ opened = {} /\ connected = {}
    /\ used = [r \in Request |-> None]
    /\ up = Peer /\ faults = 0

Next ==
    \/ \E r \in Request : \/ \E p \in Asked : Ask(r, p)
                          \/ CreateGrpcClient(r) \/ CreateIdentity(r) \/ CreateSigner(r)
                          \/ FailToRead(r) \/ Call(r) \/ TimeOut(r)
    \/ \E p \in Peer : Stop(p)

Spec == Init /\ [][Next]_vars

\* What the service and the network do for a request.
Work(r) == CreateGrpcClient(r) \/ CreateIdentity(r) \/ CreateSigner(r) \/ Call(r) \/ TimeOut(r)

\* Files are read or not, and calls are answered or time out.
FairSpec == Spec /\ \A r \in Request : WF_vars(Work(r))

----------------------------------------------------------------------------
(* Properties *)

Ended == {"done", "failed", "unavailable"}

GatewayPoolTypeOK ==
    /\ pc \in [Request -> {"none", "tls", "identity", "signer", "got"} \cup Ended]
    /\ peer \in [Request -> Asked]
    /\ clients \in [Peer -> Request \cup {None}]
    /\ communicator \in [Request -> Communicator]
    /\ connected \subseteq opened /\ opened \subseteq Request
    /\ used \in [Request -> Request \cup {None}]
    /\ up \subseteq Peer /\ faults \in 0 .. MaxFaults

\* Whoever makes the clients and in whatever order, a request uses a gateway
\* that is ready, that leads to the peer it asked for, and whose certificates,
\* key and identity are those of the organization of that peer.
GatewayIsOfThePeer ==
    \A r \in Request : pc[r] = "got" =>
        /\ used[r] \in connected
        /\ communicator[used[r]] = WithEndpoint(Org[peer[r]], peer[r])

\* What the pool hands out is ready and of the peer that it is kept under, and a
\* client is made, whoever else makes one meanwhile, from the communicator of the
\* peer that its request asked for (grpc.client.pool.ts:42-75).
PoolIsOfItsPeers ==
    /\ \A p \in Peer : clients[p] # None =>
          /\ clients[p] \in connected
          /\ communicator[clients[p]] = CommunicatorOf(p)
    /\ \A r \in Request :
          /\ r \in connected => pc[r] # "none"
          /\ pc[r] \in {"tls", "identity", "signer"} =>
                communicator[r] = CommunicatorOf(peer[r])
          /\ pc[r] \in {"identity", "signer"} => r \in opened

\* The invariant: the gateways in use are ready, and of the peers asked for.
GatewayPoolInv ==
    /\ GatewayPoolTypeOK
    /\ GatewayIsOfThePeer
    /\ PoolIsOfItsPeers

\* A request that asks the blockchain ends, also when the peer does not answer
\* and when others fail (the deadlines of grpc.client.pool.ts:59-70).
RequestsEnd == \A r \in Request : pc[r] # "none" ~> pc[r] \in Ended
=============================================================================
