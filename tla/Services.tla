------------------------------ MODULE Services ------------------------------
(***************************************************************************)
(* What a request meets in the services: the limiter (RateLimiter), the    *)
(* handlers of its route (Api), and the pool of the gateways               *)
(* (GatewayPool), as parts that share no state.                            *)
(***************************************************************************)
EXTENDS RateLimiter

CONSTANTS
    Handled, MaxBare,              \* of Api: Request, MaxBare
    Asker, NoClient, Peer, Org, Known, Other, Asked, MaxFaults \* of GatewayPool

VARIABLES
    handled, bare,                                    \* of Api
    pc, peer, clients, communicator, opened, connected, used, up, faults \* of GatewayPool

handling == <<handled, bare>>
pooling  == <<pc, peer, clients, communicator, opened, connected, used, up, faults>>

Handlers == INSTANCE Api WITH call <- handled, Request <- Handled

Pool == INSTANCE GatewayPool WITH Request <- Asker, None <- NoClient

ASSUME HandlersAssumption == Handlers!ApiAssumption
ASSUME PoolAssumption     == Pool!GatewayPoolAssumption

----------------------------------------------------------------------------
(* Properties of Api and of GatewayPool *)

\* Api.ApiInv: a request that is answered with success has done all it was for,
\* and is not one that a handler has refused before it went on.
ApiInv == Handlers!ApiInv

\* Api.EveryRequestIsAnswered: a request is answered, unless a failure that nobody
\* catches has stopped the process.
EveryRequestIsAnswered == Handlers!EveryRequestIsAnswered

\* GatewayPool.GatewayPoolInv: a gateway that is used is ready, and has the
\* certificates of the organization of the peer that was asked for.
GatewayPoolInv == Pool!GatewayPoolInv

\* GatewayPool.RequestsEnd: a request that asks the blockchain ends, whoever fails.
RequestsEnd == Pool!RequestsEnd
=============================================================================
