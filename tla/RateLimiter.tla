---------------------------- MODULE RateLimiter ----------------------------
(***************************************************************************)
(* The limiter of the requests of one client: a middleware of every router *)
(* (common/src/middleware/limiter.middleware.ts) that keeps a counter in   *)
(* Redis for each method and endpoint.                                     *)
(*                                                                         *)
(* A request that is counted and not refused renews the expiration of its  *)
(* counter in a second command: between the two the counter may expire,    *)
(* others may be counted, and the service may stop.                        *)
(***************************************************************************)
EXTENDS Routes, FiniteSets

CONSTANTS
    Slot,        \* requests of the client that may be at work at once
    Request,     \* what the client sends: [route, id], the id of the path
    Idle,        \* no request
    Digits,      \* segments of a path that are numbers without a sign
    TickLength   \* seconds of a tick of the clock

CONSTANTS        \* bounds of the model
    Memory,      \* ticks that the history goes back
    MaxCrashes   \* times that the service stops

ASSUME LimiterAssumption ==
    /\ Limit \in Nat \ {0}
    /\ TickLength \in Nat \ {0}
    /\ Memory \in Nat \ {0}
    /\ MaxCrashes \in Nat
    /\ IsFiniteSet(Slot)
    /\ Idle \notin Request

VARIABLES
    counter,   \* counter[k]: how many requests Redis has counted for the key
    expires,   \* expires[k]: ticks before the counter is removed, 0: never
    call,      \* call[s]: the request of slot s, counted and not yet let in
    admitted,  \* history: admitted[q][w], the requests q let in within w ticks
    crashes    \* how many times the service has stopped

vars == <<counter, expires, call, admitted, crashes>>

----------------------------------------------------------------------------
(* Endpoints, rules and keys *)

\* The services, and the path of a request with the id in its place.
Mounts(q) == IF q.route.router = "auth" THEN AuthMounts ELSE ApiMounts

Path(q) ==
    LET mount == CHOOSE m \in ToSet(Mounts(q)) : m[1] = q.route.router
    IN  mount[2] \o [i \in DOMAIN q.route.path |->
                        IF q.route.path[i] = ":id" THEN q.id ELSE q.route.path[i]]

\* getBaseEndpoint: the numbers are taken away, `/\/\d+/g'.
BaseEndpoint(path) == SelectSeq(path, LAMBDA segment : segment \notin Digits)

\* apiLimiter: what the limiters of the routers that see the request find,
\* the key of a counter (clientId, the address being the client's) with a rule.
Limits(q) ==
    UNION { { <<q.route.method, BaseEndpoint(v[2]), rule>> :
                rule \in { r \in v[3] : r.method = q.route.method
                                        /\ r.path = BaseEndpoint(v[2]) } } :
            v \in ToSet(Visited(Mounts(q), Path(q))) }

Limited(q) == Limits(q) # {}
Limiter    == [q \in { r \in Request : Limited(r) } |-> CHOOSE l \in Limits(q) : TRUE]
KeyOf(q)   == <<Limiter[q][1], Limiter[q][2]>>
RuleOf(q)  == Limiter[q][3]
Ticks(q)   == RuleOf(q).time \div TickLength

Key == { KeyOf(q) : q \in DOMAIN Limiter }

\* No request of the client is counted by the limiters of two routers.
ASSUME OneLimiterAssumption ==
    \A q \in Request :
        /\ Cardinality(Limits(q)) <= 1
        /\ \E v \in ToSet(Visited(Mounts(q), Path(q))) : Matches(q.route, v[2])

\* The history is as long as the rules.
ASSUME RulesAssumption ==
    \A q \in DOMAIN Limiter : RuleOf(q).limit = Limit /\ Ticks(q) \in 1 .. Memory

\* What is past the limit is not told apart.
Ceiling == Limit + 1
Capped(n) == IF n > Ceiling THEN Ceiling ELSE n

----------------------------------------------------------------------------
(* History *)

Window == 0 .. Memory

Logged(log, q) == [log EXCEPT ![q] = [w \in Window |-> IF w = 0 THEN 0 ELSE @[w] + 1]]
Aged(log) == [q \in Request |-> [w \in Window |-> IF w = 0 THEN 0 ELSE log[q][w - 1]]]

----------------------------------------------------------------------------
(* Actions *)

\* A request without a rule is not counted: next().
Pass(q) ==
    /\ q \notin DOMAIN Limiter
    /\ admitted[q][1] <= Limit + Cardinality(Slot)
    /\ admitted' = Logged(admitted, q)
    /\ UNCHANGED <<counter, expires, call, crashes>>

\* Mutant of Increase: the counter is compared as it was before.
IncreaseLate(s, q) ==
    LET k == KeyOf(q)
    IN  /\ q \in DOMAIN Limiter
        /\ call[s] = Idle
        /\ counter' = [counter EXCEPT ![k] = Capped(@ + 1)]
        /\ call' = [call EXCEPT ![s] = IF counter[k] > RuleOf(q).limit THEN Idle ELSE q]
        /\ UNCHANGED <<expires, admitted, crashes>>

\* Mutant of Increase: a refused request renews the expiration too.
IncreaseRenewing(s, q) ==
    LET k == KeyOf(q)
    IN  /\ q \in DOMAIN Limiter
        /\ call[s] = Idle
        /\ counter' = [counter EXCEPT ![k] = Capped(@ + 1)]
        /\ call' = [call EXCEPT ![s] = IF counter[k] + 1 > RuleOf(q).limit
                                       THEN Idle ELSE q]
        /\ expires' = [expires EXCEPT ![k] = IF counter[k] + 1 > RuleOf(q).limit
                                             THEN Ticks(q) ELSE @]
        /\ UNCHANGED <<admitted, crashes>>

\* RedisLimiterStorage.increaseEntry: a key that is missing is made, and has
\* no expiration until it is given one. Not past the limit, the request waits
\* for it; past it, it is refused.
Increase(s, q) ==
    LET k == KeyOf(q)
    IN  /\ q \in DOMAIN Limiter
        /\ call[s] = Idle
        /\ counter' = [counter EXCEPT ![k] = Capped(@ + 1)]
        /\ call' = [call EXCEPT ![s] = IF counter[k] + 1 > RuleOf(q).limit
                                       THEN Idle ELSE q]
        /\ UNCHANGED <<expires, admitted, crashes>>

Admits(s) ==
    /\ call[s] # Idle
    /\ call' = [call EXCEPT ![s] = Idle]
    /\ admitted' = Logged(admitted, call[s])
    /\ UNCHANGED <<counter, crashes>>

\* RedisLimiterStorage.setExpiration, nothing if the key is gone; next().
SetExpiration(s) ==
    /\ Admits(s)
    /\ expires' = [expires EXCEPT ![KeyOf(call[s])] =
                     IF counter[KeyOf(call[s])] = 0 THEN 0 ELSE Ticks(call[s])]

\* Time passes, and Redis removes the counters that expire.
Tick ==
    /\ counter' = [k \in Key |-> IF expires[k] = 1 THEN 0 ELSE counter[k]]
    /\ expires' = [k \in Key |-> IF expires[k] = 0 THEN 0 ELSE expires[k] - 1]
    /\ admitted' = Aged(admitted)
    /\ UNCHANGED <<call, crashes>>

\* The service stops and starts again: a command of Redis that fails rejects
\* the middleware, which nobody catches. The counters stay.
Crash ==
    /\ crashes < MaxCrashes
    /\ crashes' = crashes + 1
    /\ call' = [s \in Slot |-> Idle]
    /\ UNCHANGED <<counter, expires, admitted>>

Init ==
    /\ counter  = [k \in Key |-> 0]
    /\ expires  = [k \in Key |-> 0]
    /\ call     = [s \in Slot |-> Idle]
    /\ admitted = [q \in Request |-> [w \in Window |-> 0]]
    /\ crashes  = 0

Next ==
    \/ \E q \in Request : Pass(q)
    \/ \E s \in Slot, q \in Request : Increase(s, q)
    \/ \E s \in Slot : SetExpiration(s)
    \/ Tick
    \/ Crash

Spec == Init /\ [][Next]_vars

\* Redis answers, and time passes.
FairSpec ==
    /\ Spec
    /\ \A s \in Slot : WF_vars(SetExpiration(s))
    /\ WF_vars(Tick)

----------------------------------------------------------------------------
(* Properties *)

LimiterTypeOK ==
    /\ counter \in [Key -> 0 .. Ceiling]
    /\ expires \in [Key -> Nat]
    /\ call \in [Slot -> Request \cup {Idle}]
    /\ admitted \in [Request -> [Window -> Nat]]
    /\ crashes \in 0 .. MaxCrashes

\* The requests that share the counter of q, and the windows that it can watch over:
\* each of them renews its expiration by the time of its own rule.
Sharing(q) == { p \in DOMAIN Limiter : KeyOf(p) = KeyOf(q) }
Watched(q) == { w \in Window : \A p \in Sharing(q) : w <= Ticks(p) }

\* In any window that is no longer than the times of the rules of a counter, no more
\* requests of a kind that it counts are let in than the limit and those that can be
\* at work at once, for INCR and EXPIRE are two commands. report-ds.tex:742: "The
\* maximum number of requests that can be sent in the specified time window."
AdmittedNearLimit ==
    \A q \in DOMAIN Limiter : \A w \in Watched(q) :
        admitted[q][w] <= Limit + Cardinality(Slot)

\* A counter that will not expire by itself is one that a request is about to
\* give an expiration to, unless the service has stopped between the commands.
LastingOnlyByCrash ==
    \A k \in Key :
        counter[k] > 0 /\ expires[k] = 0 =>
            \/ crashes > 0
            \/ \E s \in Slot : call[s] # Idle /\ KeyOf(call[s]) = k

\* What makes it inductive: the requests let in within a window, and those that wait
\* to be, are in the counter, but for those counted before it expired; and nothing was
\* let in for as long as the expiration is gone by.
AtWork(q) == { s \in Slot : call[s] = q }

Within(n) == IF n > Limit THEN Limit ELSE n

Covered(q) ==
    \A w \in Watched(q) :
        /\ admitted[q][w] + Cardinality(AtWork(q))
             <= Cardinality(Slot) + Within(counter[KeyOf(q)])
        /\ \A d \in Window :
             expires[KeyOf(q)] > 0 /\ d + expires[KeyOf(q)] <= w => admitted[q][d] = 0

CounterCoversTheWindow ==
    \A q \in Request : /\ admitted[q][0] = 0
                       /\ IF Limited(q) THEN Covered(q) ELSE AtWork(q) = {}

\* The invariant: what is let in is near the limits, by counters that expire.
LimiterInv ==
    /\ LimiterTypeOK
    /\ CounterCoversTheWindow
    /\ AdmittedNearLimit
    /\ LastingOnlyByCrash

\* A client that is refused is let in again at some time, even if it goes on
\* sending: what is refused does not put off the expiration (`if (currentEntries
\* > limit) return next(new TooManyRequests(...))' before setExpiration).
RefusedIsReadmitted ==
    \A k \in Key : counter[k] > Limit ~> counter[k] = 0 \/ crashes > 0
=============================================================================
