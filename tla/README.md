# ChainVote: a TLA+ development

ChainVote is an electronic voting application: two chaincodes on Hyperledger
Fabric keep the elections, the votes and the one-time codes; an API service
and an authentication service (Express, MongoDB, Redis) stand between them and
a web frontend. This directory holds TLA+ modules translated from the source,
TLC configurations that check them on small instances, and proofs that TLAPS
checks for every instance.

## 1. Inventory

| component (sources) | state | operations | interacts with | modules |
|---|---|---|---|---|
| election domain (`smart-contracts/core`: `factory`, `elections`, `manager`, `utils`) | none of its own: values | build an ElectionInfo or an Election, check and record a ballot | called by the contracts on what they read | `Elections`, `Counts` |
| one-time codes (`core/codes`) | a code and a `consumed` flag | generate, isValid, verifyCodeOwner, invalidate | called by the contracts | `OneTimeCodes` |
| `chaincode-elections` on ch1 (`ElectionInfoContract`) | ElectionInfo by identifier | create, delete, read | read across channels by ch2 | `VotesLedger` |
| `chaincode-votes` on ch2 (`ElectionContract`, `CodesManagerContract`) | Election by identifier; private collection of codes by (election, user) | create, delete, castVote, generateCodeFor, invalidate | reads ch1 | `VotesLedger`, `BallotBox` |
| election facade (`facade/ElectionFacadeImpl`) | none | status, turnout, results hidden while open | read by the page of an election | `ElectionPage` |
| dates (`presentation` converters, `date.utils.ts`, `utils.ts`) | none | from the form to the ledger and to a browser | ledger values, API answers | `Dates` |
| API routes, guards, controllers (`api-service`) | requests at work | authenticate, validate, permit, transact, mail, schedule, push the turnout | gateway, MongoDB, mail, sockets | `Routes`, `Api` |
| delivery of the codes (`codes.ts`, the modal, the pages of the code and of the vote) | the two halves of a code | ask, mail, type, vote | `chaincode-votes` | `CodeDelivery` |
| creation of a voting (`CreateElectionView.vue`, `stores/voting.ts`) | the form and its requests | create in two requests, compensate, list | both chaincodes | `Creation` |
| gateway pool and communicators (`grpc.client.pool.ts`, `communicator`) | map from peer to client | getClientForPeer, calls with deadlines | every controller | `GatewayPool` |
| authentication (`api-service/auth`, `common/models/jwt`, `stores/auth.ts`, `axios.ts`) | token records in MongoDB, session storage | login, refresh, logout, authenticate a request | every authenticated request | `Sessions` |
| user accounts (`common/models/users`, `controllers/users.ts`, user pages) | users in MongoDB, a form | create, edit, delete, new password by mail | authentication | `Accounts`, `Profile` |
| rate limiter (`limiter.middleware.ts`) | counters with an expiration in Redis | count a request | every request | `RateLimiter` |
| notifications (`real-time/notifications.ts`, `common/models/*notification*`, `notificationsStore.ts`) | timers in the process; scheduled, sent and read notifications in MongoDB; the list of a browser | schedule, fire, list, mark as read | createElection, sockets | `Notifications`, `NotificationsPage` |
| pages of the frontend (`router`, `views`, `components`) | a tab | navigate, list votings, show one | all of the above | `Navigation`, `ElectionLists`, `ElectionPage` |
| Fabric network (`blockchain/`) | ledgers, versions, pending transactions | endorse, order, validate | runs the chaincodes | in `VotesLedger` |

What makes the system correct, and is hard:

* **Ledger.** Transactions are simulated, then ordered, then validated by the
  versions of the keys they read. Two votes with one code, two votes that
  rewrite one Election, a vote against a deletion and re-creation, a vote
  against the clock and against the other channel all overlap. Wanted: at most
  one vote per user and election, no vote lost, counts that agree with ballots,
  codes that are final, and votes inside the dates and the limit.
* **API.** Each request is several steps (endorse, submit, wait, mail, answer)
  with a timeout at each and no idempotency; a failure between two of them
  leaves the ledger ahead of the user.
* **Authentication.** A token pair is created in two database operations that
  interleave with those of other logins, refreshes and logouts.
* **Timers, sockets, counters.** State in the process that a restart loses,
  answers emitted out of order, counters whose expiration is set in a second call.
* **Browser.** Requests that overlap because a button stays enabled, answers
  that find another page than the one that asked, a clock that is copied.

`PROJECT.json` lists every component with its status, and the hazards with the line
where each bites and the properties that would catch it; what no property forbids,
because the code does it, is in section 6.

## 2. Modules

| module | models | kind |
|---|---|---|
| `Elections` | `ElectionFactory`, `ElectionManagerImpl`, `ElectionImpl`, `ElectionInfoImpl`, `Utils` | operators |
| `OneTimeCodes` | `CodesManagerImpl`, `OneTimeCodeImpl`, `HashGenerator` | operators |
| `BallotBox` | what ch2 promises: each operation in one step | abstract specification |
| `VotesLedger` | both chaincodes, with the life of their transactions | detailed specification; implements `BallotBox` |
| `Counts` | the sums of counts as Java longs | specification |
| `Sessions` | the authentication service, its tokens in MongoDB, the tabs that hold them | specification |
| `Routes` | the routers of the two services, their guards and limits | operators |
| `RateLimiter` | the limiter over the routes | specification |
| `Api` | the requests of the API service, step by step | specification |
| `GatewayPool` | the pool of gateways and the calls over it | specification |
| `CodeDelivery` | a user, a code and a vote, from the modal to the ledger and back | specification |
| `Creation` | the form of a voting, its two requests, a dashboard that reads | specification |
| `Dates` | the dates of a voting through four formats and three clocks | specification |
| `Notifications` | the timers of the service and what they send and save | specification |
| `NotificationsPage` | the list and the count in a browser | specification |
| `Accounts` | registration, forgotten passwords, removal | specification |
| `Profile` | the form that changes a name | specification |
| `ElectionPage` | the details of an election, its turnout and its events | specification |
| `ElectionLists` | the dashboard and the page of the elections | specification |
| `Navigation` | the router of a tab | specification |
| `Users` | `Accounts` with `Profile` | composition |
| `Services` | `RateLimiter` with `Api` and `GatewayPool` | composition |
| `Pages` | `Navigation` with `ElectionPage` and `ElectionLists` | composition |
| `Notices` | `NotificationsPage` with `Notifications` | composition |
| `Votings` | `Creation` with `Dates` and `Counts` | composition |
| `VotesLedgerProofs`, `CodeDeliveryProofs`, `SessionsProofs` | theorems about one module | TLAPS |
| `UsersProofs`, `ServicesProofs`, `PagesProofs`, `NoticesProofs`, `VotingsProofs` | theorems about the parts of a composition | TLAPS |
| `MCVotesLedger`, `MCSessions`, `MCCreation` | instances of one module (`CodeDelivery` needs none) | TLC |
| `MCUsers`, `MCServices`, `MCPages`, `MCNotices`, `MCVotings` | instances of a composition | TLC |

*Compositions.* The parts of a composition are specifications whose variables are
disjoint: one is extended and the others are instances, with names for the
variables that would clash. Their steps would only multiply one another's
states, so the MC module of a composition adds one variable, `part` (`view` in
`MCVotings`), which is chosen in the initial state and never changes: it says
which part moves, while the others stay in one initial state. The behaviours
are the union of those of the parts, so one run checks them all, each as
thoroughly as alone. The fairness of each part is stated for the variables of that part
and for when it is the one that moves. The theorems are about the specification
of each part (`Form!Spec`, `Pool!Spec`, `Lists!Spec` and so on), and have nothing of `part`.

*Invariants.* The invariant that a run checks of a component is the conjunction of
its type invariant and of its safety properties, `DeliveryInv`, `ApiInv` and so on;
each part is a definition with a comment of its own. Those of `VotesLedger` are
given one by one, as the theorems about it are.

Mutants: an operator whose comment says "Mutant of" is not part of any
specification; put in the place of the definition it names, it makes the run of
the property that `PROJECT.json` gives for it fail.

### Elections and OneTimeCodes

Translated function by function. A Java method that throws is a predicate
(`checkInfo`, `checkResults`, `checkBallot`, `mayGenerate`, `mayInvalidate`);
the value it would build is an operator (`buildElectionInfo`, `buildElection`,
`recordBallot`, `newCode`, `consume`). Dates are natural numbers; `isDateBetween`
is strict at both ends as `isAfter` and `isBefore` are. Of an election's
identifier only what it is a hash of matters (`Terms`): the number of voters is
not part of it (`Utils.calculateID`). `Total` is the sum of the counts, written
as the cardinality of a set of (choice, index) pairs, a form without recursion
that proofs can use; counts are mathematical integers here; `Counts` has them as Java longs.

### VotesLedger

*State.* `ledger` maps each key (`InfoKey` on ch1, `ElectionKey` on ch2, `CodeKey` in the
private collection of ch2) to its committed value or `Missing`. `pending` holds the
transactions that were endorsed and are not resolved, each with an identifier of its own:
the keys they found with a value, the keys they found absent, whether a found key was
written since (`stale`), and their writes. `now` is the clock. `voted`, `roll`, `base` and
`limit` are history: they are written by commits and read only by properties.

*Actions.* One per `@Transaction` method that submits: its guard is what must
hold for the method to return without throwing, in the state of the endorsing
peers, and it adds one transaction to `pending`. `castVote` reads the Election
and the code on its own channel, and the ElectionInfo on the other: the latter
is in its guard and not in its read set, as Fabric does not version-check what
an `invokeChaincode` on another channel reads. `Commit` applies a transaction
whose reads are current and marks as stale those that it overtakes, `Abort`
drops one whose reads are not, `Lose` drops one that never gets ordered, `Tick`
advances the clock.

*Abstractions.* Both organisations of ch2 must endorse, and must answer the
same; endorsements that differ produce no transaction and are not modelled. A
peer endorses on its committed state, taken to be the latest one: a transaction
endorsed on an older state is one whose reads are stale, and it is aborted as if
another had overtaken it. A method whose outcome depends on the clock reads it
once. Blocks are not modelled: the order of commits is the order inside and
across blocks.

### BallotBox

The same five operations of ch2, each in one step, with no pending transaction
and no clock. `VotesLedger` implements it by the mapping
`box[e] <- ledger[ElectionKey(e)]`, `code[e, u] <- ledger[CodeKey(e, u)]`:
endorsing, losing and aborting are stuttering, a commit is one operation. The
dates and the limit are not promised by the box, because the ledger does not
keep them at the moment of the commit (run `late_vote`).

### Sessions

*State.* `jwts` is the collection of token documents in its natural order, each a pair and
its `enabled` flag; `account[t]` the account that logs in from a tab, always the same;
`session[t]` the pair in the session storage of a tab; `call[c]` the request in flight in a
slot of a tab and the stage it has reached, on the server or on its way back. `left` is
history, `fails` counts.

*Actions.* The handlers are asynchronous functions of one process: each action
is an access to the database together with the code up to the next one
(`RefreshToken` finds the document, validates it and signs the new pair;
`DisableOthers` is the `updateMany` of `createTokenPair`, `Save` its `save`), so
everything that can run between two awaits does. The interceptors of the
frontend are `Send`, `RefreshAccessToken`, `Answer` and the part of
`RefreshToken` that signs the tab out on a Bad request. Leaving a page drops
what the browser waits for and not what the server is doing (`Orphan`). Nothing
in the code keeps the requests of a tab apart, so a tab has as many in flight as it has slots.

*Abstractions.* A pair is the user and the second it was signed in, because a
JWT is a function of the payload, the key and that second; its two tokens differ
in how long they last. Passwords and signatures are right, the address in a
refresh is the tab's own, users are not removed, and one login of a tab runs at
a time. The action takes the clock when it accesses the database.

### Routes, RateLimiter and Api

*Routes* is a table: each router with the places where it is mounted, its
routes in order with their guards, and its rules of the limiter. A path is a
sequence of segments. `Visited` is what Express does with it: the routers that
see a request, one after the other, until a route matches. Every route of both
services is there, and assumptions that TLC evaluates say that each of their
requests reaches its own route and is counted once.

*RateLimiter* keeps the counters of one client. `Increase` is INCR with the
comparison that follows it, `SetExpiration` the EXPIRE that only a request that
is let in sends; between the two, `Tick` may let the counter expire and `Crash`
may stop the service. `Pass` is a request for which no rule is found: the
endpoint is the path without the segments that are numbers, so that a negative
identifier stays in it. Routes of two routers may share a counter, each with the
time of its own rule. What is past the limit is not told apart.

*Api* keeps, for each request at work, the steps it has left: the limiter, the
guards, then those of its controller, in the order of the source. A step
succeeds (`Guard`, `Permit`, `Succeed`), fails and is told to the client
(`Fail`), fails in a mail, after which the handler goes on (`FailToMail`), or
fails where nobody catches it and ends the process and every request in it
(`Collapse`). A handler that refuses does not return: it goes on, and only the
first answer is sent (`SendAnswer`). What a step does to the ledger or the
database is a member of `did`. `Told` is the status that a failure of a step is told as.

### GatewayPool

One process per request: look into the pool (`Ask`), and if the peer has no
client read three files in three awaits and fill the pool (`CreateSigner`);
then the call, which is answered or ends by its deadline. Peers stop, files are
not read. The organization, the certificates and the endpoint of a communicator
are told apart, because the factory takes them from the name of the peer. A
client whose identity cannot be read stays open: `opened` keeps it.

### CodeDelivery

One user and one open election. `code` and `ballots` are what the ledger has,
`mailed` and `noted` the halves that reached the user, `request` and `vote` the
requests that overlap. The ledger is taken at its promise (a code is final,
spent by a vote), which `VotesLedger` shows. Failures before the commit are
`AbortCode` and `AbortVote`; after it, `LoseCode` and `LoseVote`, where the
transaction may be committed all the same. A page that is left keeps its
request going (`LeaveVote`).

### Creation, Dates and Counts

*Creation.* `Submit` is `onFormSubmit` up to its first request, `CreateInfo` and
`CreateVoting` the two handlers, each on its ledger, `Schedule` the
notifications that the second sets up before it answers, `Created` and `Fail`
what the page does with the answers. axios throws on any status that is not
2xx, so the compensation that deletes the ElectionInfo is never reached, and it
is not an action. A dashboard reads the infos and the elections one after the
other.

*Dates.* An instant is an hour. Rome changes its clock twice, so that one
reading does not occur and one occurs twice. A date is picked on a browser's
clock, sent, made UTC with the offset of its day, kept without a zone, printed
in a format that drops a fraction of a second when it is zero, read with the
one that the chaincode has, and shown. Each conversion is what the code
computes; a text is the record of what it tells.

*Counts.* The sums of `ElectionFactory.checkResults` and
`ElectionManagerImpl.checkBallot` with longs up to `MaxLong`, for an Election
that is created with results and voted in until it is full, with every limit up
to the largest long. `StartsAddUp` says that the starting counts add up to a
long: TLC evaluates it on the instance, and the theorem is about counts for which it
holds. When they do not, the sum wraps and the check lets them pass (section 6); the
service starts every election with no counts.

### Notifications and NotificationsPage

*Notifications.* `Create` puts an election on the ledger, `Schedule` saves a
ScheduledNotification and starts its timer, three per election; `Fire` sends
and, but for the closing of the page, starts the save that `Store` ends.
`FailSchedule` and `Restart` are the two ways in which the process stops or
goes on without a timer. `Due` is setTimeout: a delay that is negative or does
not fit into 31 bits is none. A timer and what it sent keep the moment when the timer was
started, so that the notices whose delay was too long are told from those that are early.

*NotificationsPage.* Each request of the list is a task, whoever asks for it:
`App.vue`, the router before the page is entered, the watch of the count. Its
two queries are two steps (`Find`), its answer replaces the list and the count,
and the page marks what is new one by one (`Put`). A page load starts anew.
A list that cannot be had (`FailFind`) ends its task: the watch of the page then
marks nothing and leaves the count, and the router does not enter the page. `missed` is
history: the watch has failed and nothing has asked again since.

### Accounts and Profile

*Accounts.* `users` is the collection; a request is a registration or a new
password, served in the steps between its awaits. The unique index, the hooks
that hash and `updateOne` are the ones of the schema. A password that is
generated is a number, made once; bcrypt tells any two apart. The update and
its mail are two steps, and a mail may be lost.

*Profile.* One form of the user area: the buttons, the input, the old value and
the messages are the elements that the code shows and hides, one by one. Submit
can be clicked while a request is in flight, and Enter clicks Change.

### ElectionPage, ElectionLists and Navigation

*ElectionPage.* The ledger's side is short: a vote is endorsed, committed, read
for the turnout and sent. The facade reads the clock twice (`ReadStatus`,
`ReadResults`). The events of a socket keep their order; answers do not. A
socket that connects again is in no room (`Reconnect`). An update of the turnout
that cannot be read is a rejection that nobody handles (`FailToEvaluate`): the process of
the service ends, and with it its timers, its rooms and what it was asked (`Restart`). An
administrator may delete the election at any time (`Delete`). Its closing and its opening are
taken not to be too far ahead for a timer, which is what `Notifications` is about. `regressed`
is history: an older answer was shown after a newer one.

*ElectionLists.* What is derived from data, filter, page and time is rendered
at once (`Render`), the last conjunct of each action that changes one of them;
the component of a voting keeps the time it was made with. A page that cannot
have the votings gives way to the page not found (`FailGetVotings`). The modal is looked
for once. The variable `dashboard` says which of the two pages it is: it is chosen at the
start and never changes. A sorted list is any list of the votings, each once, in
the order of their starts, which is what a sort promises.

*Navigation.* `Visit` loads the application, whatever link or address it was;
`Enter` is the guard of the router with what the page pushes when it is
mounted. Two logins may be in flight. Whether a token is still good is left to
`Sessions`.

## 3. Runs

| run | bounds | shows |
|---|---|---|
| `votes_ledger` | 1 election, 2 users, 2 seeds, 2 listed choices, one unlisted and the blank one, limits 2 and 3, times 0..2, 2 pending | type invariant, six safety invariants, finality of codes, refinement of `BallotBox` |
| `votes_progress` | 1 election, 2 users, limit 2, times 0..2, 2 pending | a persistent voter votes |
| `late_vote` | as `votes_ledger`, 1 seed, times 0..3 | **violation**: a vote committed after the end |
| `sessions` | 2 tabs, one account or an account each, 1 request each; 1 tab, 2 requests; tokens of 1 and 2 seconds, times 0..2, logins up to 2 pairs, 1 failure | few enabled pairs, sessions that only a race of two refreshes ends, requests that end |
| `refresh_race` | 1 tab, 2 requests | **violation**: a tab left with disabled tokens |
| `delivery` | 2 requests of a code and 2 of a vote at once, 1 abort, 2 faults | the halves are of the code, a vote shown is counted, a persistent user votes |
| `votings` | 2 forms at once, 4 typed ones, times 0..1, 1 fault; dates in hours 0..6 with both changes of the clock; longs up to 7 | elections have an info, dates are shown as picked, sums stay within the voters |
| `creation_alone` | 1 form, 1 fault | **violation**: an info without its election |
| `services` | limiter: 2 routes that share a counter, one also with a negative identifier, or 2 that share one with other times; limit 2, 2 requests, windows of 1 and 2 ticks, 1 crash; handlers: every route but the three of authentication, 2 requests at once; pool: 5 peers, 3 requests, 2 faults | limits hold, answers are true, gateways are of the peer |
| `notices` | service: one of 2 elections, times 0..5, delays up to 3, 1 fault; browser: 2 notifications, 2 requests, 2 loads, 1 fault | notices are true, sent once, kept, and read |
| `users` | accounts: 1 address, 2 passwords, 2 requests, 1 reset, fault and removal; form: 2 names and a refused one, 2 requests | one account per address, passwords that somebody knows, a form that comes to rest |
| `pages` | tab: 4 visits, 1 fault; details: 2 votes, 2 requests, a deletion, times 0..3, 1 fault; lists: 3 votings, 2 on a page, times 0..4 | pages that are allowed, numbers that are real, results that stay, lists that follow the clock |

The parts of the invariants, and what they say:

| invariant | part | says |
|---|---|---|
| `SessionsInv` | `FewEnabledPairs` | an account has no more enabled pairs than requests that may overlap |
| | `RoomForTheSaves` | nor does it when those that are about to be saved are |
| `DeliveryInv` | `HalvesAreOfTheCode` | the halves in the mailbox and on the screen are of the code on the ledger |
| | `ShownVoteIsCounted` | a vote shown as cast is counted, once |
| `CreationInv` | `EveryElectionHasInfo` | no election without its info, nothing scheduled without its election |
| | `CreatedIsWhole` | what the page says is created is there with both and its notices |
| | `ShownHasElection` | a dashboard shows what can be voted |
| | `FormAgreesWithChaincode` | what the form accepts is well formed for the factory, but for a blank vote as one of two choices |
| `DatesInv` | `ShownIsPicked` | a browser in Italy shows the reading that was picked |
| | `StatusesAgree` | browsers and chaincode agree on what is open |
| | `AllAreListed` | a date from the form can be read again |
| `CountsInv` | `WithinVoters`, `EveryVoteCounts` | the counts stay within the voters and lose no vote |
| `LimiterInv` | `AdmittedNearLimit` | of a kind that is counted, not many more are let in than the limit, in any window up to the shortest time of the rules of the counter |
| | `CounterCoversTheWindow` | a counter covers what its window has let in, so it does not forget |
| | `LastingOnlyByCrash` | only a stop leaves a counter without expiration |
| `ApiInv` | `NothingIsSkipped` | what a request was for is done or still to do when its success is sent |
| | `SuccessMeansDone`, `SuccessMeansAllowed` | a success is answered to what was done and allowed only |
| `GatewayPoolInv` | `GatewayIsOfThePeer` | a gateway in use is ready and of the peer asked for |
| `NotificationsInv` | `NoticesAreTrue` | a notice is true when it is sent, unless its delay was too long for a timer |
| | `NobodyIsToldTwice`, `StoredWasSent` | a notice is sent once, and in the list only if sent |
| `PageInv` | `CountIsAttended` | a count on the page of the notifications is some task's to clear, or its list could not be had |
| | `MarkedWasShown`, `ViewLeavesNoCount` | marks are of what was seen, and the page leaves no count, with the same exception |
| `AccountsInv` | `OneAccountPerEmail`, `CreatedAccountIsTheirs` | registrations that overlap make one account, of who was told so |
| | `PasswordIsTypedOrMailed` | a password is one that its owner can know |
| `ProfileInv` | `OldValueWasStored` | what the form restores was stored |
| `NavigationInv` | `PageIsAllowed`, `LinksArePermitted` | pages and links are those of the session |
| `ElectionPageInv` | `TurnoutIsReal`, `NoEarlyResults` | no number is ahead of the ledger, no result comes before the end |
| `ListsInv` | `PagesPartitionTheList` | each voting of a filter is on one page |
| | (the dashboard) `LinksFollowTheStatus`, `ModalIsOfTheVoting` | links and modal are of the voting they are for |

*Why the bounds are enough.*

* **Ledger.** Two pending transactions are the smallest number in which one
  overtakes another. Two users give votes that conflict on the Election only
  and, with one user twice, on the code as well. The election is open at time 1
  only, so that a transaction endorsed at 1 can commit at 2, the end. A limit of
  2 is reached by the votes of the two users or by one vote and a start of one;
  a limit of 3 leaves room, and a deletion and a creation replace one by the
  other. Deletions and re-creations are never bounded. The users are symmetric
  in the safety runs; the liveness run uses no symmetry. `VotesLedgerProofs`
  has no bound.
* **Sessions.** With tokens of one and two seconds a pair expires, is refreshed,
  and its successor expires too. Several pairs are signed in one second, which
  in the code is the rule for requests that overlap. Two requests are the least
  that overlap: `sessions` has them in two tabs and in one, `refresh_race` in one.
* **Delivery.** Two requests are two clicks; a third does what the second does.
  Aborts come before the commit and faults after it, so both are needed. Two
  faults lose both ways to learn that something has happened.
* **Votings.** Two forms overlap with one another and with a dashboard; of
  four, one is refused by the rules and one, with a blank vote as one of two
  choices, by the chaincode only. Each reading of the clock that is skipped or
  occurs twice is picked (3, 6), and one that is neither (7). Longs up to 7
  hold three counts that votes make as large as the largest long, and limits go up to it.
* **Services.** A limit of two is passed by three requests, of which two are at
  work. A client sends requests of one of two kinds: to two endpoints that share a
  counter, to one of them also with an identifier whose sign takes it away from its rule; or to
  the two that share a counter with times that differ, POST to the roots of the users and of
  the elections, as an endpoint is the path within its router. A pair of requests is
  explored for the controllers that work in a way of their own, and any other route
  is explored alone: two requests of `Api` meet only in the process that a failure
  ends. Of the pool, three requests ask two peers, so that two make a client for one.
* **Notices.** An election is created at any time: before it starts, while it is open,
  too late for the notice of its closing, or after its end. A delay of more than 3 units is not
  representable, and the later of the two elections has such delays, if it is created early.
  One election is created, as those of two have nothing in common. Two tasks ask for the list,
  and with a load each of the two ways into the page is tried after another.
* **Users.** An address is enough: the index is by address. Two requests make the
  registration that finds the account there and the update that comes between.
* **Pages.** Three votings on pages of two make a second page; they open one by
  one and two together, and close one by one. One visit more than three lets a
  login end on a page that was left. Two requests of the details let an older answer come last.

*Deadlock* is checked in the runs of the ledger. In the others it is not
(`CHECK_DEADLOCK FALSE`), because there the system may stop: users stop
clicking, time or the number of visits is bounded, and once every request has
ended nothing is left to do.

*What the violations say.* In `late_vote`, castVote is endorsed while the
election is open, the clock passes the end, and the transaction commits: the
contract looks at the clock during the simulation only. The report says that
writing the vote succeeds only if the election is open. In `refresh_race`, two
requests of a page are answered "jwt expired" and each refreshes; the second
passes its check before the first disables the old pair, and disables the pair
that the first has saved; the two pairs, signed in one second, are the same
text, of which the disabled document is found first (or the answers arrive the
other way round). The interceptor does not sign the tab out on Unauthorized, so
it stays with tokens that nothing honours. What holds is `LiveUnlessRaced`: a tab
that is alone with its account keeps its session as long as no two of its requests renew
the tokens at once, however they overlap otherwise. In `creation_alone`, the second of
the two requests of createVoting fails; axios throws, and the branch that was written to delete the
info is not reached. What holds is `EveryElectionHasInfo`, and
`EveryInfoGetsElection` when nothing fails.

### Fairness, and why the code justifies it

* `votes_progress`. Weak fairness of resolving a pending transaction: the ordering service
  and the peers do not stop. Strong fairness of `castVote` for each user: the user submits
  again whenever it is possible; the code itself does not retry, so this is an assumption
  about the person. Strong fairness of the commit of a user's valid vote: the network does
  not lose the votes of one user for ever. No fairness of the clock.
* `Sessions` (`Serve`), `Api` (`Work`), `Creation` (`Work`), `Accounts` (`Serve`). Weak
  fairness of the step that each request waits for: promises are resolved, the database
  answers, and axios is told of a connection that breaks; the frontend sets no timeout. None
  of the user or of the clock.
* `GatewayPool` (`Work`). The same; a call that is never answered ends by its deadline,
  which the client sets on each.
* `RateLimiter`. Weak fairness of `SetExpiration` (Redis answers) and of `Tick` (time
  passes): Redis removes a counter that expires.
* `CodeDelivery`. Weak fairness of each step of the services. Strong fairness of the user:
  asks for a code, goes to the page of the code with both halves and back without, types and
  votes, whenever it is possible. That is the person who goes on trying; no fairness of
  failures.
* `Accounts`. Strong fairness of asking for a new password as long as none that the user
  knows opens the account; no fairness of the mail.
* `Notifications`. Weak fairness of `Tick`, of the timers (`Fire`), of the rest of
  createElection (`Schedule`) and of the saves (`Store`): the event loop runs what is due,
  and the database answers.
* `NotificationsPage`. Weak fairness of `Store` and `Event` (the service and the socket) and
  of each task. None of the visits of the user.
* `ElectionPage`. Weak fairness of `Tick`, of the timer of the closing, of the socket
  (`Join`, `Receive`) and of each answer.
* `Profile`. Weak fairness of the update and of the timers of the messages; strong fairness
  of `Succeed` and `Fail`, because a message may hide the element that an answer writes to
  for some time.
* `ElectionLists`. On both pages, weak fairness of the clock of the page (setInterval) and
  of the answer of getVotings, which may also be that it failed. `Navigation`. Weak fairness
  of `Enter`: the router goes on with a navigation that was begun.

Where a failure really prevents the good end, the property says so and no
more: `PersistentUserVotes` exempts a code of which a half was lost;
`EveryNoticeIsSent`, `VisitReadsAll` and
`EveryInfoGetsElection` are promised as long as no fault has occurred,
`ClosingIsShown` as long as there is none, the election is not deleted and no older answer
is shown after a newer one, `OpenIsOffered` unless the votings could not be read,
`EveryRequestIsAnswered` as long as no failure that nobody catches has,
`RefusedIsReadmitted` as long as the service has not stopped. Faults are bounded and always
explored, so that the safety properties hold with them.

## 4. Proofs

Every safety property that a passing run checks, invariants, action properties and
the refinement alike, is also a theorem: for every set of users, tabs, requests,
peers or votings, for every bound, and for all dates and lengths of time that the
named assumptions allow.

| module | theorem | states |
|---|---|---|
| `VotesLedgerProofs` | `Invariance`, `TypeCorrectness`, `Serializability` | `[]IInv`, `[]TypeOK`, `[]PendingIsCurrent` |
| | `AtMostOneVote` | `[]OneVotePerUser` |
| | `CodesNeverChangeHands` | the action property `CodesAreFinal` |
| | `Implementation` | `ImplementsBallotBox`: every step is one of the box, or none |
| | `HistoryInvariance` | `[]HistoryInv`, from which come the next four |
| | `NoVoteIsLost`, `ResultsAgree`, `VotersHaveSpentTheirCode`, `NeverBeyondEveryLimit` | `[]EveryVoteIsListed`, `[]ResultsMatchBallots`, `[]ListedVotersSpentTheirCode`, `[]WithinSomeLimit` |
| `CodeDeliveryProofs` | `DeliveryIsTrue` | `[]DeliveryInv` |
| `SessionsProofs` | `FewPairsAreEnabled` | `[]SessionsInv` |
| | `SessionsLastUnlessRaced` | `LiveUnlessRaced`: `[]Apart(t) => []IsLive(t)` of each tab `t` |
| `UsersProofs` | `AccountsAreTheirs`, `OldValuesWereStored` | `[]AccountsInv`, `[]ProfileInv` |
| `ServicesProofs` | `LimitsHold` | `[]LimiterInv` |
| | `SuccessIsTrue`, `PoolIsSafe` | `[]ApiInv`, `[]GatewayPoolInv` |
| `PagesProofs` | `PagesAreAllowed`, `ResultsInTheirTime`, `ListsAreWhole` | `[]NavigationInv`, `[]ElectionPageInv`, `[]ListsInv` |
| `NoticesProofs` | `NoticesAreToldOnce` | `[](NobodyIsToldTwice /\ StoredWasSent)`, whatever the delays |
| | `NoticesAreInTime` | `[]NotificationsInv`, with what is told early |
| | `MarksAreOfTheShown` | `[]PageInv` |
| `VotingsProofs` | `VotingsAreWhole` | `[]CreationInv` |
| | `DatesAreTheSame`, `FormRefusesElapsed` | `[]DatesInv`, the action property `AcceptedIsNotOver` |
| | `CountsAddUp` | `[]CountsInv`, under `StartsAddUp` |

### Arguments

*The ledger.* `IInv == TypeOK /\ PendingIsCurrent /\ ChannelsMatchTerms /\
VotersSpentTheirCode`. `OneVotePerUser` alone is not inductive: a pending castVote of
somebody who has voted would break it. `PendingIsCurrent` excludes it: it says, for
each kind of transaction, which keys it reads and writes and that, unless it is stale,
its reads are still what the ledger says. So a castVote that would pass the version
check has an unspent code in front of it, and `VotersSpentTheirCode` turns an unspent
code into "has not voted". `ChannelsMatchTerms` is needed for types only: a vote adds to
a count that must exist, and castVote checks the choice against the ElectionInfo of
ch1, not against the Election. For a commit, `CommitEffect` says what is written;
`CommitOnCodes` and `CommitOnBox` say what it means for the codes and for the box;
every other pending transaction either shared a written key, and is now stale, or did
not, and its reads are as they were.

*Its history.* `HistoryInv` rests on `IInv`. That the results stay below the largest
limit the election ever had is not inductive: a vote that is endorsed now is
committed when the ElectionInfo may be another. Two parts bridge the time between:
`InfosWithinLimit` (the ElectionInfo of the moment allows no more than was ever
allowed) is what the endorsement needs, and `PendingWithinLimit` (the
Election a pending transaction would write holds no more than that) is what the commit needs.
That the results match the ballots needs `Total` of one more vote, by counting the
set of pairs that it is the cardinality of.

*Delivery and services.* `DeliveryInv`, `GatewayPoolInv` and `AccountsInv` have
the part that makes them inductive among their own (`AnswersAreTrue`,
`PoolIsOfItsPeers`, the types). `ApiInv` needs `NothingIsSkipped`: as long as a request
has no answer, what it is for is done or stands before its `send`; so a handler
that fails on the way has answered before, and its `send` changes nothing.
`LimiterInv` needs `CounterCoversTheWindow`: what a window has let in, and what
still waits to be, is in the counter but for as many as can be at work at once, and
nothing was let in for as long as its expiration is gone by. When the counter expires, the
window is empty. It is said of the windows that all the rules of the counter watch over
(`Watched`): a request of a shorter rule may bring the expiration forward, but never to less
than the shortest time.

*Sessions.* `FewEnabledPairs` is not inductive, as a save adds a pair:
`RoomForTheSaves` counts the saves to come with the pairs there are, and an
updateMany, after which a save is to come, has disabled all the pairs there were.
`SessionsLastUnlessRaced` is about a tab alone with its account, whatever its
slots are doing, and `Apart` is a hypothesis on the behaviour and not on the constants. Its
invariant, `Orderly`, has three parts. Of each request (`InOrder`): a pair that is being
made is later than all the documents of the account, because the access token that it
replaces had to expire first; once the updateMany is past, the account has no enabled pair, or the
one just saved. Of all of them: one at most acts, that is renews or ends a login, and the
others read, log out or wait. Of the tab: but for what that one is doing, it holds the latest of
the pairs of the account, the only one that may be enabled, so that the first document with
that text is the one last saved. The steps are those of a request that does not act
(`CalmKeepsOrder`), of the one that does (`ActingKeepsOrder`), the end of either
(`EndKeepsOrder`), the tab signed out (`SignOutKeepsOrder`), and what others do to the
collection or to the clock (`DocumentsKeepOrder`). That `Apart` is needed is what `refresh_race` shows.

*Notices.* That a notice is sent once needs that it is in one place: to be
scheduled, in a timer, or sent (`NoticesAreInOnePlace`); a restart only takes away.
That it is not early is a fact of its timer and of the moment when that was started, which
both the timer and what it sends keep (`Overflows`).
`PageInv` needs `CountIsAttended`: when the page is shown and the count is not
zero, there is a task that is going to clear it, so that when all is quiet it is zero; unless the
watch could not have the list, and nothing has asked since (`missed`).
`RoomForTheEvents` bounds the count, for an event counts a notification again that a load
has counted.

*Pages.* That a page is allowed needs `SessionIsOfThePage`: a login that is still
awaited is of a tab that is between the login and the dashboard, so its answer cannot
change the role under the page of the administrator. `ElectionPageInv` needs
`CountedAfterTheEnd` of the answers in flight as well as of the page: a result other than
zero was read after the end, and the end stays past; a deletion, and a process that ends, take
answers away and add none. `ListsInv` on the dashboard
needs that each component was made with a time at which the voting had the status
of the list it is in, and still has (`DashboardIsLive`); that the pages partition a
list is arithmetic of positions (`PageOfPosition`) for lists and pages of any length.

*Votings.* `CreationInv` needs that what is in flight was accepted by the form
(`CallsAreAccepted`) and that the form always has what can be typed (`FormIsTyped`).
`DatesInv` needs `KeptIsAsked`, that the ledger keeps instants of the dates that were sent,
in order, and for any two dates of the changes of the clock that an instant of a reading
reads as it again. `CountsInv` needs that a sum of natural numbers whose total
is a long never wraps on the way, whichever order the counts are added in.

*Induction.* The folds of `Counts` and the sorted lists of `ElectionLists` are about sets of
any size. The library's induction theorems take a predicate as a parameter, which the provers
cannot instantiate. `SubsetInduction` states it without: for the *set* of the subsets of which a
claim holds, with a least counterexample under strict inclusion (`WFMin`). With it
`VotingsProofs` proves what a fold is for every function on a finite set, and
`PagesProofs` that a finite set of votings has a sorted list.

### What is assumed

Assumptions named in the modules are about the types of the constants (finite sets where the
code has finite ones, natural numbers, model values that are apart) and are evaluated by TLC
on every instance: `BlankAssumption`, `TermsAssumption`, `RequestAssumption`,
`BoundAssumption` and `MissingAssumption` (ledger), `DeliveryAssumption`, `CallAssumption`,
`LifeAssumption`, `SessionsBoundAssumption`, `NoPairAssumption`, `AccountsAssumption`,
`FormAssumption`, `LimiterAssumption`, `OneLimiterAssumption`, `HandlersAssumption`,
`PoolAssumption`, `NavigationAssumption`, `DetailsAssumption`, `ListsAssumption`,
`ServiceAssumption`, `PageAssumption`, `RulesAssumption`, `CreationAssumption`,
`TypedAssumption`, `DatingAssumption`, `CountingAssumption`. Those that say more than a
type:

* `CreationAssumption`: the form shows at least two choices (`MaxChoices >= 2`), as it does
  when it is loaded;
* `DetailsAssumption`, `ListsAssumption`: a voting starts before it ends, which the factory checks;
* `OneLimiterAssumption`: a request meets one limiter at most and reaches its route;
* `RulesAssumption`: the rules have one limit, as those of the source do, and the history goes back
  as far as their times;
* `DatingAssumption`: Rome's two changes are more than an hour apart.

One theorem, `CountsAddUp`, has a hypothesis of its own, because the chaincode does not
ensure it: `StartsAddUp`, that the counts an Election starts with add up to a long. The
service starts every election with none. TLC evaluates it on the instance of `votings`, and section 6
tells what happens without. `LiveUnlessRaced` has its condition, that no two requests of the tab
renew at once, in the property.

The bounds of the instances (`MaxTime`, `MaxFaults` and the like) are natural numbers that the
proofs say nothing of; a bound on the clock stays a guard of `Tick`.

*Only model-checked.* Liveness under fairness is beyond the prover:
`PersistentVoterVotes`, `PersistentUserVotes`, `RequestsEnd` (of `Sessions` and of
`GatewayPool`), `EveryInfoGetsElection`, `RefusedIsReadmitted`, `EveryRequestIsAnswered`,
`VisitReadsAll`, `EveryNoticeIsSent`, `ForgetfulUserGetsIn`, `SpinnerStops`, `TabSettles`,
`ClosingIsShown`, `OpenIsOffered`. So are the three violations, which are
counterexamples of one instance. That `part` makes the union of the behaviours of the parts is
how the MC modules are made, and no theorem.

## 5. Not modelled, and the plan

Left out for good:

* presentation: what a page looks like, titles, charts, styles, the wording of
  messages, the toasts. What the pages do is modelled;
* serialization of everything but dates: values are written and read in one
  layout, and a Ballot is never stored;
* what the validators ask of each field of a request, beyond that they accept or
  refuse;
* deployment: scripts, certificates on disk, containers. The endorsement policies
  that they state are used in `VotesLedger`;
* of Fabric: blocks, several ordering nodes, peers that diverge. It is not in
  this repository, and is modelled from how the chaincodes and the gateway use it.

The plan so far is carried out: the components above are modelled, and the safety
properties of the runs are proved. What is left to add:

1. an abstract specification of the participation of a user (a code is made, told in two
   halves, spent) that `CodeDelivery` implements, with the proof of it, as
   `VotesLedger` does of `BallotBox`;
2. the turnout of `ElectionPage`: which of the updates are shown, and when the last one is.

## 6. Where the code differs from what is expected of it

Met while modelling, besides the three runs that expect a violation. The
properties of the runs are stated so that they hold with all of these, and the
models have the behaviours (but for the ones marked *).

**Ledger.**
A vote that is endorsed under an ElectionInfo, deleted and created again with
fewer voters before the vote commits, is recorded beyond the limit that stands:
cross-channel reads are not version-checked (`ElectionContract.java:261`), and the
identifier does not cover the number of voters (`Utils.java:35-42`); what holds is
`WithinSomeLimit`. The sum of the starting counts is a long that wraps
(`ElectionFactory.java:175`), so two huge ones pass the limit*; the API passes none.
The facade reads the clock twice, so that an election that closes in between is
answered open with results (`ElectionFacadeImpl.java:31, 37`), and results are
answered while votes that were endorsed in time still commit.

**Tokens.**
Overlapping logins disable first and save after (`jwt.ts:57-58`): two pairs of a
user are enabled, where `jwt.test.ts:66` expects one. Two pairs signed in the same
second are the same text (`jwt.handler.ts:126`), and the first document that is found
may be the disabled one (`authentication.middleware.ts:20`). The interceptor starts a refresh
for each request that finds the token expired (`axios.ts:26-29`): nothing keeps two of a tab apart,
and App.vue asks for the list while the page asks for its own. What holds is `LiveUnlessRaced`.

**Code and vote.**
The code is committed before its halves are mailed and answered (`codes.ts:118-142`),
nothing keeps it, and a second request is refused: a half that is lost ends the
participation of the user (`CodeIsLost`). A lost answer of a vote leaves "submitting"
for ever, as the catch reads a response that is not there (`VoteView.vue:26`). The
button stays enabled (`VoteView.vue:62`): a second click is refused, and its error
replaces the success of a vote that is counted.

**Creation.**
createElection saves the notifications after the election (`election.ts:112-119`): a
failure in between leaves an election of which nobody is told. getVotings pairs two
reads (`stores/voting.ts:64-73`): a voting created in between, or an info without its
election, turns the dashboard of everybody into the page not found. onFormSubmit does
not catch (`CreateElectionView.vue:172-177`): the form submits for ever. isValidList
accepts the blank choice as one of two (`CreateElectionView.vue:126`), and the factory
refuses it (`FormAgreesWithChaincode` exempts it).

**Dates.**
formatDate has the format of Italy and not its zone (`utils.ts:25-30`, whose comment
says "w.r.t. italian timezone"). validValue compares the end with the clock of the
browser (`CreateElectionView.vue:108`), the API reads it on that of Rome. A date with
milliseconds, which the API accepts, is written in a format that deserialize does not
read (`ElectionInfoConverter.java:56`): the info can be neither read nor deleted.
createElectionInfo answers dates one or two hours before those that were sent
(`election.info.ts:127`).

**Requests.**
transformHyperledgerError reads a detail that errors of the gateway do not have
(`error.handling.ts:9-11`): it throws in the catch of the controller and ends the
process. A check that fails calls `next` and does not return (`users.ts:22-30` and
the checks of the role): the client is told the refusal, and the handler goes on;
what holds is `SuccessMeansAllowed`.

**Gateways.**
getClientForPeer fills the pool after an await (`grpc.client.pool.ts:90-91`): requests
that overlap make a client each, and the replaced ones are never closed. Controllers
name one peer and try no other (`election.ts:145`), where `report-ds.tex:807` says that
the others of the organization answer.

**Limiter.**
A request that is let in renews the expiration of the counter
(`limiter.middleware.ts:41`): a client that sends slowly is refused in the end although
no window holds more than its limit. INCR and EXPIRE are two commands (37, 41): a stop
between them leaves a counter that never expires (`LastingOnlyByCrash`). A negative
identifier, as about half of those that the hash of the chaincode gives are, stays in the
endpoint, which then finds no rule (21): such a request is not limited. Endpoints of two
routers with one path share a counter although their times differ (33): the requests of one
use up the limit of the other, and the longer of two windows is not kept.

**Notifications.**
Timers live in the process and the saved ScheduledNotifications are never read
(`notifications.ts:16`): a restart loses them. A delay of 25 days or more fires at once
(38): an election created that long before is told to be open, or to close, when it is
created. The event is sent before the notification is saved (44): the list that the page
asks for may miss it, and the count may be off until the next load. The watch of the page
catches nothing (`NotificationsView.vue:13-18`, `notificationsStore.ts:20`): when the list
cannot be had, nothing is marked, and the count stays until the next notification or load.

**Page of an election.**
The page asks first and joins the room after (`ElectionDetails.vue:34-36`), turnout is
emitted by a call that nobody awaits (`election.ts:168, 181-188`): a vote in between is
not shown, and of two updates the older may come last. A socket that connects again is
in no room (`ElectionDetails.vue:44`): the results are not shown until the page is
loaded again. Answers have no order (44-54): one that was asked for at the opening and comes after
that of the closing hides the results again, and nothing asks once more. When the update of the
turnout is rejected, as for an election deleted meanwhile, nobody handles it and the process ends.
The deletion itself is told to no page.

**Lists.**
The component of a voting keeps the time it was made with (`ElectionComponent.vue:59`):
in the list of all elections its links do not follow the clock. currentPage is reset by
a click only (`ElectionsView.vue:129-149`): a last page that time empties shows nothing.
Each row has a modal with one id, and the page takes the first (`ElectionsView.vue:166-169`):
when that row leaves, the modal opens with another election, or goes while it is open.
On the dashboard the modal keeps the code when it is opened for another election
(`RequestCodeModal.vue:11-15`), and shows an answer whichever it is open for.

**Navigation.**
The guard of the notifications awaits a request that nobody catches
(`router/index.ts:110`): a tab whose address is loaded stays blank. The breadcrumb of
the forgotten password leads to a path that is no route (`PasswordForgotten.vue:2`), and
that of the details to one that is taken for an identifier.

**Users.**
The password is replaced before the new one is mailed (`users.ts:187, 200`): a lost mail
leaves an account that nobody opens until another is asked for (`ForgetfulUserGetsIn`);
two mails may leave in another order than their updates; an address without an account
is mailed too (`users.ts:186-200`). onSubmit of the registration is not wrapped in
handleSubmit (`RegisterView.vue:33-44`): a password that was mistyped is sent. Its form
asks less of names than the route does (`RegisterView.vue:16-17`)*. The form that changes a
name stays usable while it waits (`UserPropertyComponent.vue:86-93`): it may show a name
that is not stored, hide the spinner of a request at work, and tells that the name was
changed into undefined, because editProfile answers `true` (`stores/user.ts:33`).

\* Not in the checked instance, or not in the model: the bound or the abstraction that
leaves it out is named in the module (`Counts`, `Accounts`) or is the detail of a field.
