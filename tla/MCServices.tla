----------------------------- MODULE MCServices -----------------------------
(***************************************************************************)
(* A small instance of Services for TLC, which follows one of the parts at *)
(* a time: `part' is the one that moves, and never changes.                *)
(***************************************************************************)
EXTENDS Services, TLC

CONSTANTS r1, r2, r3

VARIABLE part

all == <<part, vars, handling, pooling>>

Of(route, id) == [route |-> route, id |-> id]

\* What a client sends: to two endpoints that share a key, and to one of them with an
\* identifier whose sign takes it away from its rule; to two that share a key with rules
\* of different times.
MCSent == [reads |-> { Of(ReadInfo, "12"), Of(ReadElection, "12"), Of(ReadInfo, "-12") },
           posts |-> { Of(CreateUser, "12"), Of(CreateElection, "12") }]
MCLimited == MCSent.reads \cup MCSent.posts

ASSUME { q \in MCLimited : ~Limited(q) } = { Of(ReadInfo, "-12") }
ASSUME { Ticks(q) : q \in Sharing(Of(CreateUser, "12")) } = {1, 2}

\* Every route of the services.
MCServices ==
    { Of(r, "12") : r \in
        { GenerateCode, CheckCode, VerifyOwner, GetAllInfo, ReadInfo, CreateInfo,
          DeleteInfo, GetAllElections, ReadElection, CreateElection, CastVote,
          DeleteElection, GetNotifications, ReadNotification, GetProfile,
          EditProfile, DeleteProfile, CreateUser, PasswordForgotten, Login,
          Logout, Refresh } }

\* Each of their requests reaches its route, no router before lets it in by a
\* route of its own or counts it, and two of them are not limited.
ASSUME \A q \in MCServices : \A v \in ToSet(Visited(Mounts(q), Path(q))) :
    \A p \in MCServices :
        /\ p.route.router = v[1] /\ p.route.method = q.route.method
        /\ Matches(p.route, v[2])
        => p = q
ASSUME \A q \in MCServices : Cardinality(Limits(q)) <= 1
ASSUME { q.route : q \in { r \in MCServices : ~Limited(r) } }
         = { ReadNotification, PasswordForgotten }

\* The requests of Api: every route but those of the authentication, and only
\* those about users may name another user.
MCRequests ==
    { q \in [route : { q.route : q \in MCServices } \ {Login, Logout, Refresh},
             role : {"admin", "user"}, other : BOOLEAN] :
        q.other => q.route.router = "users" }

\* A bound: two requests at once are of routes whose controllers work each in a
\* way of its own.
MCAlone ==
    \A s \in Slot : handled'[s] # Idle =>
        \/ handled'[s].req.route \in {CastVote, GenerateCode, EditProfile}
        \/ \A t \in Slot \ {s} : handled'[t] = Idle

\* A bound: a client sends requests of one of the two kinds.
MCSends ==
    /\ \A s \in Slot : call'[s] \in MCSent[part] \cup {Idle}
    /\ \A q \in Request \ MCSent[part] : admitted'[q] = admitted[q]

\* The peers of peer.enum.ts, those that the controllers name, and three requests.
MCPeer == {"peer1-org1", "peer1-org2", "peer2-org2", "peer1-org3", "peer2-org3"}
MCOrg  == [p \in MCPeer |-> CASE p = "peer1-org1" -> "org1"
                              [] p \in {"peer1-org2", "peer2-org2"} -> "org2"
                              [] OTHER -> "org3"]

----------------------------------------------------------------------------

MCInit == part \in DOMAIN MCSent \cup {"api", "pool"} /\ Init /\ Handlers!Init /\ Pool!Init

MCNext ==
    /\ UNCHANGED part
    /\ \/ part \in DOMAIN MCSent /\ Next /\ MCSends /\ UNCHANGED <<handling, pooling>>
       \/ part = "api" /\ Handlers!Next /\ MCAlone /\ UNCHANGED <<vars, pooling>>
       \/ part = "pool" /\ Pool!Next /\ UNCHANGED <<vars, handling>>

\* The fairness of each, of the one that moves.
MCSpec ==
    /\ MCInit /\ [][MCNext]_all
    /\ \A s \in Slot : WF_vars(part \in DOMAIN MCSent /\ SetExpiration(s))
    /\ WF_vars(part \in DOMAIN MCSent /\ Tick)
    /\ \A s \in Slot : WF_handling(part = "api" /\ Handlers!Work(s))
    /\ \A r \in Asker : WF_pooling(part = "pool" /\ Pool!Work(r))

=============================================================================
