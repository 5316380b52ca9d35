------------------------------- MODULE Routes -------------------------------
(***************************************************************************)
(* The routes of the two services of ChainVote: where each router is       *)
(* mounted, which guards a request of a route passes before its            *)
(* controller, and the rules of the limiter of each router.                *)
(*                                                                         *)
(* A path is a sequence of segments; ":id" stands for a parameter. What    *)
(* the validators ask of a body is left out: a request is well formed or   *)
(* not. Every router uses the limiter, with its own rules, before any of   *)
(* its routes.                                                             *)
(***************************************************************************)
EXTENDS Integers, Sequences, SequencesExt

CONSTANT Limit     \* the limit of every rule: 100 requests in the code

\* A route of a router: method, path, guards in the order they are passed
\* ("auth": authenticationHandler, "valid": validationHandler), controller.
Route(router, method, path, guards, controller) ==
    [router |-> router, method |-> method, path |-> path,
     guards |-> guards, controller |-> controller]

Guarded  == <<"auth", "valid">>
SignedIn == <<"auth">>
WellFormed == <<"valid">>

----------------------------------------------------------------------------
(* The routes *)

GenerateCode == Route("code", "POST", <<"generate">>, Guarded, "generateCodeFor")
CheckCode    == Route("code", "POST", <<"check">>, Guarded, "isValid")
VerifyOwner  == Route("code", "POST", <<"verify-owner">>, Guarded, "verifyCodeOwner")

GetAllInfo == Route("info", "GET", <<"all">>, SignedIn, "getAllElectionInfo")
ReadInfo   == Route("info", "GET", <<"detail", ":id">>, Guarded, "readElectionInfo")
CreateInfo == Route("info", "POST", <<>>, Guarded, "createElectionInfo")
DeleteInfo == Route("info", "DELETE", <<>>, Guarded, "deleteElectionInfo")

GetAllElections == Route("election", "GET", <<"all">>, SignedIn, "getAllElection")
ReadElection   == Route("election", "GET", <<"detail", ":id">>, Guarded, "readElection")
CreateElection == Route("election", "POST", <<>>, Guarded, "createElection")
CastVote       == Route("election", "PUT", <<"vote", ":id">>, Guarded, "castVote")
DeleteElection == Route("election", "DELETE", <<>>, Guarded, "deleteElection")

GetNotifications ==
    Route("notifications", "GET", <<"all">>, SignedIn, "getAllNotifications")
ReadNotification ==
    Route("notifications", "PUT", <<":id">>, SignedIn, "readNotification")

GetProfile    == Route("users", "GET", <<>>, SignedIn, "getProfile")
EditProfile   == Route("users", "PUT", <<>>, Guarded, "editProfile")
DeleteProfile == Route("users", "DELETE", <<>>, Guarded, "deleteProfile")
CreateUser    == Route("users", "POST", <<>>, WellFormed, "createUser")
PasswordForgotten ==
    Route("users", "PUT", <<"password-forgotten">>, WellFormed, "passwordForgotten")

Login   == Route("auth", "POST", <<"login">>, WellFormed, "login")
Logout  == Route("auth", "POST", <<"logout">>, SignedIn, "logout")
Refresh == Route("auth", "POST", <<"refresh">>, WellFormed, "refreshToken")

----------------------------------------------------------------------------
(* The rules of the limiter: at most `limit' requests in `time' seconds *)

Rule(method, path, time) ==
    [method |-> method, path |-> path, time |-> time, limit |-> Limit]

CodeRules == { Rule("POST", <<p>>, 20) : p \in {"generate", "check", "verify-owner"} }

InfoRules == { Rule("GET", <<"all">>, 10), Rule("GET", <<"detail">>, 20),
               Rule("POST", <<>>, 20), Rule("DELETE", <<>>, 20) }

ElectionRules ==
    { Rule("GET", <<"all">>, 10), Rule("GET", <<"detail">>, 20),
      Rule("PUT", <<"vote">>, 20), Rule("POST", <<>>, 20), Rule("DELETE", <<>>, 20) }

NotificationRules == { Rule("GET", <<"all">>, 10) }

UserRules == { Rule(m, <<>>, 20) : m \in {"GET", "PUT", "DELETE"} }
               \cup { Rule("POST", <<>>, 10) }

AuthRules == { Rule("POST", <<p>>, 20) : p \in {"login", "logout", "refresh"} }

----------------------------------------------------------------------------
(* The services: the prefixes of their routers, in the order they are used *)

ApiMounts ==
    << <<"users", <<"users">>, UserRules>>,
       <<"election", <<"election">>, ElectionRules>>,
       <<"info", <<"election", "info">>, InfoRules>>,
       <<"code", <<"code">>, CodeRules>>,
       <<"notifications", <<"notifications">>, NotificationRules>> >>

AuthMounts == << <<"auth", <<"auth">>, AuthRules>> >>

\* The routers that see a request of that path, in order, with what is left
\* of the path once their prefix is taken away.
Visited(mounts, path) ==
    LET seen == SelectSeq(mounts, LAMBDA m : IsPrefix(m[2], path))
    IN  [i \in DOMAIN seen |->
           <<seen[i][1], SubSeq(path, Len(seen[i][2]) + 1, Len(path)), seen[i][3]>>]

\* The path of a router matches the one of a route.
Matches(route, path) ==
    /\ Len(route.path) = Len(path)
    /\ \A i \in DOMAIN path : route.path[i] \in {":id", path[i]}
=============================================================================
