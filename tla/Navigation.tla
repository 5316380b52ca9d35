----------------------------- MODULE Navigation -----------------------------
(***************************************************************************)
(* The pages of ChainVote in one tab: the routes and whom they allow, the  *)
(* guard of the router, what a page does when it is mounted, the login and *)
(* the logout, and the links that each page shows.                         *)
(*                                                                         *)
(* The links are anchors: a click, like an address that is typed, loads    *)
(* the application again, with the session that the tab keeps; only what   *)
(* the application itself pushes to the router does not. Whether a token   *)
(* is still good is the matter of Sessions.                                *)
(***************************************************************************)
EXTENDS Integers, FiniteSets

CONSTANTS      \* bounds of the model
    MaxVisits, \* links followed and addresses typed
    MaxFaults  \* requests of the pages that fail

ASSUME NavigationAssumption == MaxVisits \in Nat /\ MaxFaults \in Nat

VARIABLES
    token,     \* the tab has an access token
    role,      \* the role that the store keeps, or None
    code,      \* the tab has a code to vote with
    page,      \* the page that is shown
    going,     \* the path that the router is going to, or None
    asking,    \* the logins in flight: the role of the form, and that of the account
    visits, faults

vars == <<token, role, code, page, going, asking, visits, faults>>
session == <<token, role>>
tab == <<token, role, code>>
bounds == <<visits, faults>>

Role == {"user", "admin"}
None == "none"

----------------------------------------------------------------------------
(* Routes and links *)

\* The routes with meta.allowed.
Allowed == [dashboard       |-> Role,   vote              |-> {"user"},
            elections       |-> Role,   insert_code       |-> {"user"},
            create_election |-> {"admin"}, election_details  |-> Role,
            user_area       |-> Role,   notifications     |-> Role,
            unknown_details |-> Role]   \* election_details of no election

Guarded == DOMAIN Allowed
Free == {"home", "login", "password_forgotten", "register", "not_found"}
Path == Guarded \cup Free

\* Mutant of Permitted: the role is not asked for.
PermittedToAll(p) == p \in Guarded => token

\* beforeEach
Permitted(p) == p \in Guarded => token /\ role \in Allowed[p]

\* Where a page pushes the router when it is mounted.
OnMounted(p) ==
    IF p \in {"login", "password_forgotten"} /\ token THEN "dashboard"
    ELSE IF p = "create_election" /\ ~token THEN "login"
    ELSE IF p = "create_election" /\ role = "user" THEN "not_found"
    ELSE IF p = "unknown_details" \/ (p = "vote" /\ ~code) THEN "not_found"
    ELSE None

\* The bar of the application, but for the logout.
NavBar ==
    {"home"} \cup (IF token THEN {"dashboard", "user_area", "notifications"} ELSE {"login"})
             \cup (IF token /\ role = "admin" THEN {"create_election"} ELSE {})

\* A voting that is open.
VotingLinks == {"election_details"} \cup (IF role # "admin" THEN {"insert_code"} ELSE {})

\* The bar, the footer, and what the page has, its breadcrumbs first. Those of
\* the details lead to no election, those of the forgotten password nowhere.
Links ==
    NavBar \cup {"user_area"} \cup
    (CASE page = "dashboard" -> {"dashboard", "elections"} \cup VotingLinks
       [] page = "elections" -> {"elections"} \cup VotingLinks
       [] page = "election_details" -> {"dashboard", "unknown_details"}
       [] page = "login" -> {"login", "password_forgotten", "register"}
       [] page = "password_forgotten" -> {"login", "not_found", "register"}
       [] page = "create_election" -> {"elections", "create_election"}
       [] page \in {"register", "notifications"} -> {page}
       [] OTHER -> {})

----------------------------------------------------------------------------
(* The tab *)

\* An address is typed, or a link followed: the application is loaded.
Visit(p) ==
    /\ visits < MaxVisits
    /\ visits' = visits + 1
    /\ page' = "blank" /\ going' = p /\ asking' = {}
    /\ UNCHANGED <<tab, faults>>

\* The router: the guard, then the page, which may push it on.
Enter ==
    /\ going # None
    /\ IF Permitted(going) THEN page' = going /\ going' = OnMounted(going)
                           ELSE UNCHANGED page /\ going' = "login"
    /\ UNCHANGED <<tab, asking, bounds>>

\* beforeEnter of the notifications awaits their list, and rejects.
FailToEnter ==
    /\ going = "notifications" /\ Permitted(going) /\ faults < MaxFaults
    /\ faults' = faults + 1
    /\ going' = None
    /\ UNCHANGED <<tab, page, asking, visits>>

\* What a page shows cannot be read, when it is mounted or later.
FailToLoad ==
    /\ page \in {"dashboard", "elections", "election_details", "user_area"}
    /\ going = None /\ faults < MaxFaults
    /\ faults' = faults + 1
    /\ going' = "not_found"
    /\ UNCHANGED <<tab, page, asking, visits>>

\* submitCode: a code that is good is kept, and the application loaded.
InsertCode ==
    /\ page = "insert_code" /\ going = None
    /\ code' = TRUE
    /\ page' = "blank" /\ going' = "vote" /\ asking' = {}
    /\ UNCHANGED <<session, visits, faults>>

\* castVote of the store.
CastVote ==
    /\ page = "vote" /\ going = None /\ code
    /\ code' = FALSE
    /\ UNCHANGED <<session, page, going, asking, bounds>>

\* The page of the vote two seconds later.
LeaveVote ==
    /\ page = "vote" /\ going = None /\ ~code
    /\ going' = "election_details"
    /\ UNCHANGED <<tab, page, asking, bounds>>

\* onFormSubmit of the login; the button can be clicked again.
Login(form, account) ==
    /\ page = "login" /\ going = None /\ Cardinality(asking) < 2
    /\ asking' = asking \cup {[form |-> form, account |-> account]}
    /\ UNCHANGED <<tab, page, going, bounds>>

\* Mutant of SignIn: the role is stored by a page that is gone.
SignInWithoutRole(a) ==
    /\ a \in asking
    /\ asking' = asking \ {a}
    /\ IF a.form = a.account THEN token' = TRUE /\ going' = "dashboard" /\ UNCHANGED role
                             ELSE UNCHANGED <<session, going>>
    /\ UNCHANGED <<code, page, bounds>>

\* login of the store, after its answers: verifyRole, the setters, the push.
SignIn(a) ==
    /\ a \in asking
    /\ asking' = asking \ {a}
    /\ IF a.form = a.account THEN token' = TRUE /\ role' = a.form /\ going' = "dashboard"
                             ELSE UNCHANGED <<session, going>>
    /\ UNCHANGED <<code, page, bounds>>

\* logout of the store, by the user or by a refresh that is refused.
SignOut ==
    /\ token
    /\ token' = FALSE /\ role' = None
    /\ page' = "blank" /\ going' = "login" /\ asking' = {}
    /\ UNCHANGED <<code, visits, faults>>

----------------------------------------------------------------------------

Init ==
    /\ token = FALSE /\ role = None /\ code = FALSE
    /\ page = "blank" /\ going \in Path /\ asking = {}
    /\ visits = 0 /\ faults = 0

Next ==
    \/ \E p \in Path : Visit(p)
    \/ Enter \/ FailToEnter \/ FailToLoad
    \/ InsertCode \/ CastVote \/ LeaveVote
    \/ \E form, account \in Role : Login(form, account)
    \/ \E a \in asking : SignIn(a)
    \/ SignOut

Spec == Init /\ [][Next]_vars

\* The router goes on.
FairSpec == Spec /\ WF_vars(Enter)

----------------------------------------------------------------------------
(* Properties *)

NavigationTypeOK ==
    /\ token \in BOOLEAN /\ role \in Role \cup {None} /\ (token <=> role # None)
    /\ code \in BOOLEAN
    /\ page \in Path \cup {"blank"} /\ going \in Path \cup {None}
    /\ asking \subseteq [form : Role, account : Role]
    /\ visits \in 0 .. MaxVisits /\ faults \in 0 .. MaxFaults

\* Whatever is pushed, answered or logged out, in any order, a page that is
\* shown and stays is one that the session allows (router/index.ts:123-133,
\* auth.ts:22-31, 55-67).
PageIsAllowed ==
    going = None /\ page \in Guarded => token /\ role \in Allowed[page]

\* No link that a page shows sends a user that is logged in to the login
\* (NavbarComponent.vue:46-72, ElectionComponent.vue:8-10).
LinksArePermitted == token => \A p \in Links : Permitted(p)

\* Why: the page that asks for the admin stays with one, for a login that is still
\* awaited is of a page that was reached from the login; and the page that cannot be
\* entered is asked for by an application that has just been loaded.
SessionIsOfThePage ==
    /\ page = "create_election" => token /\ role = "admin"
    /\ asking # {} => /\ page \in {"login", "dashboard", "not_found"}
                      /\ going \in {"login", "dashboard", "not_found", None}
    /\ going = "notifications" => page = "blank"

\* The invariant: what is shown, and what it links to, is for the session.
NavigationInv ==
    /\ NavigationTypeOK
    /\ SessionIsOfThePage
    /\ PageIsAllowed
    /\ LinksArePermitted

\* The guard and the pages never push the router to and fro: as long as nobody
\* clicks it comes to rest.
NavigationSettles == going # None ~> going = None
=============================================================================
