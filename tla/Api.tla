-------------------------------- MODULE Api --------------------------------
(***************************************************************************)
(* The process of the API service and the requests it has at work.         *)
(*                                                                         *)
(* A request passes the limiter, the guards of its route and its           *)
(* controller. Each is a sequence of steps, and between two of them, where *)
(* the code awaits, the steps of other requests run. The answer is the     *)
(* first one given: a second `next' finds nothing left to do.              *)
(*                                                                         *)
(* A step that fails is TOLD to the client when the controller catches     *)
(* what it throws, and the error handler answers. Some failures are not    *)
(* caught: a rejection that nobody handles ends the process, and with it   *)
(* every request. pm2 starts it again.                                     *)
(***************************************************************************)
EXTENDS Routes, FiniteSets

CONSTANTS
    Slot,       \* requests at work at once
    Request,    \* what clients send: [route, role, other]
    Idle        \* no request

CONSTANTS       \* bounds of the model
    MaxBare     \* failures that nobody catches

VARIABLES
    call,       \* call[s]: the request in slot s, what is left of it, its answer
    bare        \* how many failures were not caught

vars == <<call, bare>>

----------------------------------------------------------------------------
(* Access control *)

OnAny(verbs, resource) == { <<v, resource>> : v \in verbs }

\* What the roles may do with the resources of ANY user (not only their own).
Grants ==
    [admin |-> OnAny({"read", "update", "delete", "create"}, "electionInfo")
                 \cup OnAny({"read", "update", "delete"}, "users")
                 \cup OnAny({"read", "create", "delete"}, "election")
                 \cup OnAny({"read", "update"}, "code"),
     user  |-> OnAny({"read"}, "electionInfo")
                 \cup OnAny({"read", "update"}, "election")
                 \cup OnAny({"read", "create"}, "code")]

----------------------------------------------------------------------------
(* Answers *)

\* The errors that the code throws, and what the error handler answers for an
\* error of any other kind.
Status ==
    [Success |-> 200, BadRequestError |-> 400, UnauthorizedError |-> 401,
     NotFoundError |-> 404, TooManyRequests |-> 429, OtherError |-> 500]

None == 0

\* What the failure of a step of a controller is told as: transformHyperledgerError
\* makes a bad request of what is thrown beside the gateway, createUser of what the
\* database throws, and editProfile of a body without data; castVote has an error of
\* its own for a result that is not true.
Told(controller, step) ==
    CASE step = "limit" -> {"TooManyRequests"}
      [] step = "auth"  -> {"BadRequestError", "NotFoundError", "UnauthorizedError"}
      [] step = "submit" /\ controller = "castVote" -> {"BadRequestError", "OtherError"}
      [] step = "write" /\ controller = "editProfile" -> {"BadRequestError", "OtherError"}
      [] \/ step \in {"valid", "evaluate", "submit", "schedule"}
         \/ step = "write" /\ controller = "createUser" -> {"BadRequestError"}
      [] step = "find"  -> {"NotFoundError", "OtherError"}
      [] OTHER          -> {"OtherError"}

----------------------------------------------------------------------------
(* Controllers: what they ask the role for, and their steps.               *)
(*   permit            the role is checked, without awaiting               *)
(*   evaluate, submit  a transaction of the chaincodes                     *)
(*   find, read        a query of MongoDB; `find' the user of the body     *)
(*   write, schedule   a change of MongoDB                                 *)
(*   mail              a mail is sent                                      *)
(*   send              the response handler answers                        *)
(*   emit              a query that is not awaited, after the answer       *)

Controller(verb, resource, steps) ==
    [asks |-> <<verb, resource>>, steps |-> steps]

isValid         == Controller("read", "code", <<"permit", "evaluate", "send">>)
verifyCodeOwner == Controller("read", "code", <<"permit", "evaluate", "send">>)

generateCodeFor ==
    Controller("create", "code", <<"permit", "submit", "mail", "send">>)

getAllElection == Controller("read", "election", <<"permit", "evaluate", "send">>)
readElection   == Controller("read", "election", <<"permit", "evaluate", "send">>)
createElection == Controller("create", "election",
                     <<"permit", "submit", "evaluate", "schedule", "send">>)
castVote       == Controller("update", "election",
                     <<"permit", "submit", "send", "emit">>)
deleteElection == Controller("delete", "election", <<"permit", "submit", "send">>)

getAllElectionInfo == Controller("read", "electionInfo",
                         <<"permit", "evaluate", "send">>)
readElectionInfo   == Controller("read", "electionInfo",
                         <<"permit", "evaluate", "send">>)
createElectionInfo == Controller("create", "electionInfo",
                         <<"permit", "submit", "send">>)
deleteElectionInfo == Controller("delete", "electionInfo",
                         <<"permit", "submit", "send">>)

getProfile    == Controller("read", "users", <<"permit", "find", "send">>)
editProfile   == Controller("update", "users", <<"permit", "find", "write", "send">>)
deleteProfile == Controller("delete", "users", <<"permit", "find", "write", "send">>)
createUser    == Controller("create", "users", <<"write", "send">>)
passwordForgotten == Controller("update", "users", <<"write", "mail", "send">>)

getAllNotifications == Controller("read", "notifications", <<"read", "send">>)
readNotification    == Controller("update", "notifications", <<"write", "send">>)

Controllers ==
    [isValid |-> isValid, verifyCodeOwner |-> verifyCodeOwner,
     generateCodeFor |-> generateCodeFor, getAllElection |-> getAllElection,
     readElection |-> readElection, createElection |-> createElection,
     castVote |-> castVote, deleteElection |-> deleteElection,
     getAllElectionInfo |-> getAllElectionInfo, readElectionInfo |-> readElectionInfo,
     createElectionInfo |-> createElectionInfo, deleteElectionInfo |-> deleteElectionInfo,
     getProfile |-> getProfile, editProfile |-> editProfile,
     deleteProfile |-> deleteProfile, createUser |-> createUser,
     passwordForgotten |-> passwordForgotten,
     getAllNotifications |-> getAllNotifications, readNotification |-> readNotification]

ControllerOf(q) == Controllers[q.route.controller]

\* setWorkData looks for a user only if the body names another one, and is
\* told whether that is allowed; the other resources are everybody's.
StepsOf(q) ==
    IF ControllerOf(q).asks[2] = "users" /\ ~q.other
    THEN SelectSeq(ControllerOf(q).steps, LAMBDA step : step \notin {"permit", "find"})
    ELSE ControllerOf(q).steps

Granted(q) == ControllerOf(q).asks \in Grants[q.role]

Effect == {"submit", "write", "schedule", "mail"}
Step   == {"limit", "auth", "valid", "permit", "evaluate", "find", "read", "send", "emit"}
            \cup Effect

Effects(q)     == ToSet(StepsOf(q)) \cap Effect
NeedsPermit(q) == "permit" \in ToSet(StepsOf(q))

\* All that a request goes through: every router uses the limiter first.
Plan(q) == <<"limit">> \o q.route.guards \o StepsOf(q)

\* The steps before the i-th.
Before(steps, i) == { steps[j] : j \in 1 .. i - 1 }

Answer == {None, 200, 400, 401, 404, 429, 500}
AtWork == [req : Request, answer : Answer, did : SUBSET Effect, todo : Seq(Step)]

\* The plan of a route has its effects, and its check of the role, before the
\* answer: castVote alone goes on after it, with a query. (TLC evaluates this for
\* every route of Routes.)
ApiAssumption ==
    /\ MaxBare \in Nat
    /\ Idle \notin AtWork
    /\ \A q \in Request :
         /\ Plan(q) \in Seq(Step)
         /\ ToSet(Plan(q)) \cap Effect = Effects(q)
         /\ \A i \in DOMAIN Plan(q) : Plan(q)[i] = "send" =>
              /\ Effects(q) \subseteq Before(Plan(q), i)
              /\ NeedsPermit(q) => "permit" \in Before(Plan(q), i)

----------------------------------------------------------------------------
(* Steps *)

\* What the failure of the next step of a request may be told as.
Failures(c) == Told(c.req.route.controller, Head(c.todo))

\* The step that request s is about to take.
At(s, steps) == call[s] # Idle /\ call[s].todo # <<>> /\ Head(call[s].todo) \in steps

\* The first answer is sent; what comes after finds the headers sent.
Answered(c, kind) == [c EXCEPT !.answer = IF @ = None THEN Status[kind] ELSE @]

\* On with the next step, or to the end of the request.
Onward(c) == [c EXCEPT !.todo = Tail(@)]
Over(c)   == [c EXCEPT !.todo = <<>>]

\* What a step does to the ledger or the database, if it does, is remembered.
Did(c) == [c EXCEPT !.did = @ \cup ({Head(c.todo)} \cap Effect)]

Becomes(s, c) == call' = [call EXCEPT ![s] = c]

\* A request of a client arrives.
Arrive(s, q) ==
    /\ call[s] = Idle
    /\ Becomes(s, [req |-> q, answer |-> None, did |-> {},
                   todo |-> Plan(q)])
    /\ UNCHANGED bare

\* The limiter, authenticationHandler, validationHandler: next(), or an error.
Guard(s) ==
    /\ At(s, {"limit", "auth", "valid"})
    /\ \/ Becomes(s, Onward(call[s]))
       \/ \E kind \in Failures(call[s]) : Becomes(s, Over(Answered(call[s], kind)))
    /\ UNCHANGED bare

\* The role is checked: next(new UnauthorizedError(...)), and the handler goes
\* on, for nothing returns.
Permit(s) ==
    /\ At(s, {"permit"})
    /\ Becomes(s, Onward(IF Granted(call[s].req) THEN call[s]
                         ELSE Answered(call[s], "UnauthorizedError")))
    /\ UNCHANGED bare

\* A step does what it is for.
Succeed(s) ==
    /\ At(s, {"evaluate", "find", "read", "emit"} \cup Effect)
    /\ Becomes(s, Onward(Did(call[s])))
    /\ UNCHANGED bare

\* Mutant of Fail: the error of a query is caught and not passed on.
FailSilently(s) ==
    /\ At(s, {"evaluate", "submit", "find", "read", "write", "schedule"})
    /\ \E kind \in Failures(call[s]) :
         Becomes(s, IF At(s, {"find"}) THEN Over(call[s])
                    ELSE Over(Answered(call[s], kind)))
    /\ UNCHANGED bare

\* A step fails and its controller catches it: return next(...). A user that
\* is not found is an error too, of setWorkData and then of its caller.
Fail(s) ==
    /\ At(s, {"evaluate", "submit", "find", "read", "write", "schedule"})
    /\ \E kind \in Failures(call[s]) : Becomes(s, Over(Answered(call[s], kind)))
    /\ UNCHANGED bare

\* Mutant of FailToMail: the error is caught and the handler goes on.
FailToMailUntold(s) ==
    /\ At(s, {"mail"})
    /\ Becomes(s, Onward(call[s]))
    /\ UNCHANGED bare

\* sendMail(message).catch(error => next(error)), and the handler goes on.
FailToMail(s) ==
    /\ At(s, {"mail"})
    /\ Becomes(s, Onward(Answered(call[s], "OtherError")))
    /\ UNCHANGED bare

\* defaultResponseHandler.
SendAnswer(s) ==
    /\ At(s, {"send"})
    /\ Becomes(s, Onward(Answered(call[s], "Success")))
    /\ UNCHANGED bare

\* A failure that nobody catches: a command of Redis; an error of the gateway
\* with no details, on which transformHyperledgerError throws within the catch;
\* the query that castVote does not await. The process ends. What was submitted
\* may be committed all the same.
Collapse(s) ==
    /\ bare < MaxBare
    /\ At(s, {"limit", "evaluate", "submit", "emit"})
    /\ bare' = bare + 1
    /\ \E committed \in SUBSET { t \in Slot : At(t, {"submit"}) } :
         call' = [t \in Slot |->
                    IF call[t] = Idle THEN Idle
                    ELSE Over(IF t \in committed THEN Did(call[t]) ELSE call[t])]

\* The slot is free once the client has its answer, or gives up.
Leave(s) ==
    /\ call[s] # Idle
    /\ call[s].todo = <<>>
    /\ Becomes(s, Idle)
    /\ UNCHANGED bare

Init ==
    /\ call = [s \in Slot |-> Idle]
    /\ bare = 0

\* The work of a request, but for its failures.
Work(s) == Guard(s) \/ Permit(s) \/ Succeed(s) \/ Fail(s) \/ FailToMail(s) \/ SendAnswer(s)

Next ==
    \E s \in Slot :
        \/ \E q \in Request : Arrive(s, q)
        \/ Guard(s)
        \/ Permit(s)
        \/ Succeed(s)
        \/ Fail(s)
        \/ FailToMail(s)
        \/ SendAnswer(s)
        \/ Collapse(s)
        \/ Leave(s)

Spec == Init /\ [][Next]_vars

\* Every await ends, in one way or another.
FairSpec == Spec /\ \A s \in Slot : WF_vars(Work(s))

----------------------------------------------------------------------------
(* Properties *)

ApiTypeOK ==
    /\ call \in [Slot -> {Idle} \cup AtWork]
    /\ bare \in 0 .. MaxBare

\* The requests at work do what is of their controllers.
WorkIsOfTheController ==
    \A s \in Slot : call[s] # Idle =>
        /\ call[s].did \subseteq Effects(call[s].req)
        /\ ToSet(call[s].todo) \cap Effect \subseteq Effects(call[s].req)

\* What makes the invariant inductive: of a request that is not answered, all that
\* is to be done before the answer is done or still before it.
NothingIsSkipped ==
    \A s \in Slot : call[s] # Idle /\ call[s].answer = None =>
        \A i \in DOMAIN call[s].todo : call[s].todo[i] = "send" =>
            LET q == call[s].req
                before == Before(call[s].todo, i)
            IN  /\ Effects(q) \subseteq call[s].did \cup before
                /\ NeedsPermit(q) => Granted(q) \/ "permit" \in before

\* A request that is answered with success has done all it was for: whatever
\* failed on the way was answered first (codes.ts:136 goes on to `next()' after
\* a mail that failed; castVote answers before its update is sent).
SuccessMeansDone ==
    \A s \in Slot : call[s] # Idle /\ call[s].answer = Status.Success =>
        Effects(call[s].req) \subseteq call[s].did

\* A handler goes on to its end after a refusal (no `return' before
\* next(new UnauthorizedError(...))): the client must be told the refusal and
\* never the success that follows.
SuccessMeansAllowed ==
    \A s \in Slot :
        call[s] # Idle /\ call[s].answer = Status.Success /\ NeedsPermit(call[s].req)
            => Granted(call[s].req)

\* The invariant: an answer of success is true.
ApiInv ==
    /\ ApiTypeOK
    /\ WorkIsOfTheController
    /\ NothingIsSkipped
    /\ SuccessMeansDone
    /\ SuccessMeansAllowed

\* Every request is answered, unless a failure that nobody catches has stopped
\* the process. error.handling.ts:4: "Transform an error from
\* the http module to an HTTP-based error".
EveryRequestIsAnswered ==
    \A s \in Slot : call[s] # Idle /\ call[s].answer = None
        ~> bare > 0 \/ (call[s] # Idle /\ call[s].answer # None)
=============================================================================
