------------------------------ MODULE Sessions ------------------------------
(***************************************************************************)
(* The sessions of ChainVote: the pairs of tokens that the authentication  *)
(* service signs and keeps in MongoDB (collection jwts), and the tabs of   *)
(* the frontend that hold one pair each, send it with their requests and   *)
(* renew it when it expires.                                               *)
(*                                                                         *)
(* An asynchronous handler runs alone from one await to the next: each     *)
(* action below is an access to the database with what follows it up to    *)
(* the next access. Between two of them the other handlers run.            *)
(*                                                                         *)
(* The two tokens of a pair are told apart by how long they last only: a   *)
(* JWT is a function of the user and of the SECOND it was signed in.       *)
(* Passwords and signatures are right, and users are not removed.          *)
(***************************************************************************)
EXTENDS Integers, Sequences, FiniteSets, SequencesExt

CONSTANTS
    User,      \* accounts
    Tab,       \* tabs of browsers
    Slot,      \* the requests that a tab may have in flight at once
    ATLife,    \* seconds that an access token lasts (15 minutes)
    RTLife,    \* seconds that a refresh token lasts (30 minutes)
    NoPair     \* the tab holds no tokens

CONSTANTS      \* bounds of the model
    MaxTime,   \* the last second of the clock
    MaxPairs,  \* no login once so many pairs have been made
    MaxFails   \* requests that may fail half way

ASSUME CallAssumption == IsFiniteSet(Tab) /\ IsFiniteSet(Slot)
ASSUME LifeAssumption == ATLife \in Nat \ {0} /\ RTLife \in Nat \ {0}
ASSUME SessionsBoundAssumption ==
    MaxTime \in Nat /\ MaxPairs \in Nat /\ MaxFails \in Nat

VARIABLES
    account,  \* account[t]: the account that logs in from tab t, always the same
    now,      \* the clock, in seconds
    jwts,     \* the documents of the collection jwts, in their natural order
    session,  \* session[t]: the pair in the sessionStorage of tab t, or NoPair
    call,     \* call[c]: the request in flight in slot c, and how far it got
    left,     \* history: the pairs that a logout has disabled
    fails     \* how many requests have failed half way

vars == <<account, now, jwts, session, call, left, fails>>

----------------------------------------------------------------------------
(* Tokens and their documents *)

Pair == [user : User, iat : Nat]

ASSUME NoPairAssumption == NoPair \notin Pair

\* JwtHandler.signJwt: the payload is the user, `iat' the second of the clock.
Signed(u) == [user |-> u, iat |-> now]

AccessExpired(pair)  == now >= pair.iat + ATLife
RefreshExpired(pair) == now >= pair.iat + RTLife

\* Jwt.findOne: the first document with that token, 0 if there is none.
FindOne(docs, pair) == SelectInSeq(docs, LAMBDA doc : doc.pair = pair)

\* The document that is found is enabled.
Enabled(pair) ==
    LET i == FindOne(jwts, pair)
    IN  i # 0 /\ jwts[i].enabled

\* Mutant of DisabledFor: the first document of the user alone.
DisabledFirstFor(u) ==
    LET i == SelectInSeq(jwts, LAMBDA doc : doc.pair.user = u)
    IN  [j \in DOMAIN jwts |->
           IF j = i THEN [jwts[j] EXCEPT !.enabled = FALSE] ELSE jwts[j]]

\* updateMany({email: user.email}, {enabled: false})
DisabledFor(u) ==
    [j \in DOMAIN jwts |->
       IF jwts[j].pair.user = u THEN [jwts[j] EXCEPT !.enabled = FALSE]
                                ELSE jwts[j]]

----------------------------------------------------------------------------
(* Requests *)

Call == Tab \X Slot

Idle == [at |-> "idle"]

\* Why a tab sent it: a request of the API ("get") or of logout, or a login.
\* A request of a page that is gone is for "nobody": only the server goes on.
Purpose == {"get", "logout", "login", "nobody"}

\* A pair of tokens is being made.
Creating == {"signed", "disabled", "saved"}

Stage == {"sent", "expired", "refresh", "leaving", "verify"} \cup Creating

Request(at, pair, for) == [at |-> at, pair |-> pair, for |-> for]

Becomes(c, r) == call' = [call EXCEPT ![c] = r]

\* What a page that is left leaves behind: the handlers already at work.
Orphan(r) ==
    IF r.at \in {"refresh", "leaving"} \cup Creating
    THEN [r EXCEPT !.for = "nobody"] ELSE Idle

\* authStore.logout: the storage is cleared and the page is left.
SignOut(t, calls) ==
    /\ session' = [session EXCEPT ![t] = NoPair]
    /\ call' = [c \in Call |-> IF c[1] = t THEN Orphan(calls[c]) ELSE calls[c]]

RoomForLogin ==
    Len(jwts) + Cardinality({c \in Call : call[c].at \in {"signed", "disabled"}})
      < MaxPairs

\* authStore.login, and the login handler up to the first await of
\* createTokenPair. One login of a tab at a time: the form is of a page
\* without a session.
Login(c) ==
    LET t == c[1]
    IN  /\ session[t] = NoPair
        /\ call[c] = Idle
        /\ \A s \in Slot : call[<<t, s>>] # Idle => call[<<t, s>>].for # "login"
        /\ RoomForLogin
        /\ Becomes(c, Request("signed", Signed(account[t]), "login"))
        /\ UNCHANGED <<account, now, jwts, session, left, fails>>

\* A request of the frontend: the interceptor adds the access token.
Send(c, for) ==
    /\ session[c[1]] # NoPair
    /\ call[c] = Idle
    /\ Becomes(c, Request("sent", session[c[1]], for))
    /\ UNCHANGED <<account, now, jwts, session, left, fails>>

\* authenticationHandler: a disabled or unknown token is Unauthorized or Not
\* found, which the frontend gives up on; an expired one is the Bad request
\* that it answers by a refresh. A document that has been read is not read again.
Authenticate(c) ==
    /\ call[c].at = "sent"
    /\ Becomes(c, CASE ~Enabled(call[c].pair) -> Idle
                    [] Enabled(call[c].pair) /\ AccessExpired(call[c].pair) ->
                         [call[c] EXCEPT !.at = "expired"]
                    [] OTHER -> IF call[c].for = "logout"
                                THEN [call[c] EXCEPT !.at = "leaving"] ELSE Idle)
    /\ UNCHANGED <<account, now, jwts, session, left, fails>>

\* The logout handler: findOneAndUpdate.
Leave(c) ==
    /\ call[c].at = "leaving"
    /\ jwts' = [jwts EXCEPT ![FindOne(jwts, call[c].pair)].enabled = FALSE]
    /\ left' = left \cup {call[c].pair}
    /\ Becomes(c, Idle)
    /\ UNCHANGED <<account, now, session, fails>>

\* The answer "jwt expired" arrives: authStore.refreshAccessToken sends the
\* refresh token that the tab has by then.
RefreshAccessToken(c) ==
    /\ call[c].at = "expired"
    /\ Becomes(c, Request("refresh", session[c[1]], call[c].for))
    /\ UNCHANGED <<account, now, jwts, session, left, fails>>

\* Mutant of RefreshToken: the interceptor answers an expired refresh token as
\* it answers an expired access token, by a refresh.
RefreshTokenAgain(c) ==
    LET r == call[c]
    IN  /\ r.at = "refresh"
        /\ \/ /\ ~Enabled(r.pair)
              /\ Becomes(c, Idle)
           \/ /\ Enabled(r.pair) /\ RefreshExpired(r.pair)
              /\ Becomes(c, IF r.for = "nobody" THEN Idle
                            ELSE [r EXCEPT !.at = "expired"])
           \/ /\ Enabled(r.pair) /\ ~RefreshExpired(r.pair)
              /\ Becomes(c, Request("signed", Signed(r.pair.user), r.for))
        /\ UNCHANGED <<account, now, jwts, session, left, fails>>

\* The refreshToken handler up to the first await of createTokenPair. A
\* disabled token is Unauthorized and the request fails; an expired one is a
\* Bad request, on which the interceptor signs the tab out.
RefreshToken(c) ==
    LET r == call[c]
    IN  /\ r.at = "refresh"
        /\ \/ /\ ~Enabled(r.pair)
              /\ Becomes(c, Idle)
              /\ UNCHANGED session
           \/ /\ Enabled(r.pair) /\ RefreshExpired(r.pair) /\ r.for = "nobody"
              /\ Becomes(c, Idle)
              /\ UNCHANGED session
           \/ /\ Enabled(r.pair) /\ RefreshExpired(r.pair) /\ r.for # "nobody"
              /\ SignOut(c[1], [call EXCEPT ![c] = Idle])
           \/ /\ Enabled(r.pair) /\ ~RefreshExpired(r.pair)
              /\ Becomes(c, Request("signed", Signed(r.pair.user), r.for))
              /\ UNCHANGED session
        /\ UNCHANGED <<account, now, jwts, left, fails>>

\* createTokenPair: updateMany.
DisableOthers(c) ==
    /\ call[c].at = "signed"
    /\ jwts' = DisabledFor(call[c].pair.user)
    /\ Becomes(c, [call[c] EXCEPT !.at = "disabled"])
    /\ UNCHANGED <<account, now, session, left, fails>>

\* createTokenPair: save, of a document enabled by default.
Save(c) ==
    /\ call[c].at = "disabled"
    /\ jwts' = Append(jwts, [pair |-> call[c].pair, enabled |-> TRUE])
    /\ Becomes(c, [call[c] EXCEPT !.at = "saved"])
    /\ UNCHANGED <<account, now, session, left, fails>>

\* Mutant of Answer: the request is repeated, and the new pair is not stored.
AnswerUnstored(c) ==
    LET r == call[c]
    IN  /\ r.at = "saved"
        /\ Becomes(c, CASE r.for = "nobody" -> Idle
                        [] r.for = "login"  -> [r EXCEPT !.at = "verify"]
                        [] OTHER            -> [r EXCEPT !.at = "sent"])
        /\ UNCHANGED <<account, now, jwts, session, left, fails>>

\* The new pair arrives: a login goes on to verifyRole, a refresh stores it and
\* sends the request again with it.
Answer(c) ==
    LET r == call[c]
    IN  /\ r.at = "saved"
        /\ Becomes(c, CASE r.for = "nobody" -> Idle
                        [] r.for = "login"  -> [r EXCEPT !.at = "verify"]
                        [] OTHER            -> [r EXCEPT !.at = "sent"])
        /\ session' = IF r.for \in {"get", "logout"}
                      THEN [session EXCEPT ![c[1]] = r.pair] ELSE session
        /\ UNCHANGED <<account, now, jwts, left, fails>>

\* authStore.verifyRole, a request with the new token: the tab stores the pair
\* once it is admitted and the user has the role that was chosen. An expired
\* one is refreshed with no token, which is a Bad request.
VerifyRole(c) ==
    LET r == call[c]
    IN  /\ r.at = "verify"
        /\ \/ /\ ~Enabled(r.pair) \/ ~AccessExpired(r.pair)
              /\ Becomes(c, Idle)
              /\ UNCHANGED session
           \/ /\ Enabled(r.pair) /\ AccessExpired(r.pair)
              /\ SignOut(c[1], [call EXCEPT ![c] = Idle])
           \/ /\ Enabled(r.pair) /\ ~AccessExpired(r.pair)
              /\ session' = [session EXCEPT ![c[1]] = r.pair]
              /\ Becomes(c, Idle)
        /\ UNCHANGED <<account, now, jwts, left, fails>>

\* The user logs out in the frontend: the server is not told.
Logout(t) ==
    /\ session[t] # NoPair
    /\ SignOut(t, call)
    /\ UNCHANGED <<account, now, jwts, left, fails>>

\* The service stops or the answer is lost, wherever the request has got to:
\* the interceptor finds no response, and the request fails.
Fail(c) ==
    /\ fails < MaxFails
    /\ call[c].at \notin {"idle", "expired"}
    /\ Becomes(c, Idle)
    /\ fails' = fails + 1
    /\ UNCHANGED <<account, now, jwts, session, left>>

Tick ==
    /\ now < MaxTime
    /\ now' = now + 1
    /\ UNCHANGED <<account, jwts, session, call, left, fails>>

----------------------------------------------------------------------------

Init ==
    /\ account \in [Tab -> User]
    /\ now = 0
    /\ jwts = << >>
    /\ session = [t \in Tab |-> NoPair]
    /\ call = [c \in Call |-> Idle]
    /\ left = {}
    /\ fails = 0

\* What moves a request on, whoever it waits for.
Serve(c) ==
    \/ Authenticate(c) \/ Leave(c)
    \/ RefreshAccessToken(c) \/ RefreshToken(c)
    \/ DisableOthers(c) \/ Save(c) \/ Answer(c) \/ VerifyRole(c)

Next ==
    \/ \E c \in Call :
         \/ Login(c)
         \/ \E for \in {"get", "logout"} : Send(c, for)
         \/ Serve(c)
         \/ Fail(c)
    \/ \E t \in Tab : Logout(t)
    \/ Tick

Spec == Init /\ [][Next]_vars

\* The services and the network answer every request at last.
FairSpec == Spec /\ \A c \in Call : WF_vars(Serve(c))

----------------------------------------------------------------------------

\* The type invariant; a tab holds a pair of its own account, and one that the
\* service has kept.
SessionsTypeOK ==
    /\ account \in [Tab -> User]
    /\ now \in Nat
    /\ jwts \in Seq([pair : Pair, enabled : BOOLEAN])
    /\ session \in [Tab -> Pair \cup {NoPair}]
    /\ \A t \in Tab : session[t] # NoPair =>
         session[t].user = account[t] /\ FindOne(jwts, session[t]) # 0
    /\ call \in [Call -> {Idle} \cup [at : Stage, pair : Pair, for : Purpose]]
    /\ \A c \in Call : call[c] # Idle => call[c].pair.user = account[c[1]]
    /\ left \subseteq Pair
    /\ fails \in 0..MaxFails

\* While no pair is being made for it, a tab that is alone with its account holds
\* tokens that the services honour, unless it was logged out or a request failed
\* half way.
IsLive(t) ==
    fails = 0 =>
        \/ \E o \in Tab \ {t} : account[o] = account[t]
        \/ session[t] = NoPair
        \/ session[t] \in left
        \/ \E s \in Slot : call[<<t, s>>].at \in Creating
        \/ Enabled(session[t])

\* "If the refresh token expires, the user must log in again"
\* (report-ds.tex:398), and not before. It does not hold of a tab that renews its
\* tokens for two requests at once (axios.ts:26-29).
SessionIsLive == \A t \in Tab : IsLive(t)

\* A request that has been told that its token expired, or what comes of it.
Renewing == {"expired", "refresh"} \cup Creating

\* No two requests of the tab renew its tokens at once.
Apart(t) ==
    \A s, o \in Slot :
        call[<<t, s>>].at \in Renewing /\ call[<<t, o>>].at \in Renewing => s = o

\* What holds of the sessions is that nothing else ends them: however the requests
\* of a tab overlap, before a refresh, during it and after it, the tab stays live as
\* long as no two of them renew its tokens at once.
LiveUnlessRaced == \A t \in Tab : []Apart(t) => []IsLive(t)

\* The documents of an account that are enabled, the requests that it can have in
\* flight, and those that have disabled the others and are to save their own.
EnabledOf(u) == {i \in DOMAIN jwts : jwts[i].enabled /\ jwts[i].pair.user = u}
CallsOf(u)   == {c \in Call : account[c[1]] = u}
SavesOf(u)   == {c \in CallsOf(u) : call[c].at = "disabled"}

\* What createTokenPair does guarantee, however its calls overlap: no more
\* enabled pairs of an account than requests that it can have in flight, since
\* each was saved after the last updateMany (jwt.ts:57-58). Alone, one.
FewEnabledPairs ==
    \A u \in User : Cardinality(EnabledOf(u)) <= Cardinality(CallsOf(u))

\* Why there are few: a pair that is about to be saved will be one of them, and
\* the updateMany that made room for it has disabled all that were there.
RoomForTheSaves ==
    \A u \in User :
        Cardinality(EnabledOf(u)) + Cardinality(SavesOf(u)) <= Cardinality(CallsOf(u))

\* A request that may be refreshed is of a tab that has a pair, a pair that is on
\* its way to a tab has been kept, and one that leaves is found again.
CallsHaveTheirPairs ==
    \A c \in Call :
        /\ call[c].at \in {"sent", "expired"} => session[c[1]] # NoPair
        /\ call[c].at \in {"saved", "verify", "leaving"} =>
              FindOne(jwts, call[c].pair) # 0

\* The invariant: tokens of a few pairs are honoured.
SessionsInv ==
    /\ SessionsTypeOK
    /\ CallsHaveTheirPairs
    /\ RoomForTheSaves
    /\ FewEnabledPairs

\* Every request of a tab ends: the interceptor, which sends a request again
\* after a refresh, is itself an interceptor of that refresh.
RequestsEnd ==
    \A c \in Call : call[c].at = "sent" ~> call[c].at = "idle"
=============================================================================
