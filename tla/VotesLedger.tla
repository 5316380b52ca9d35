---------------------------- MODULE VotesLedger ----------------------------
(***************************************************************************)
(* The two chaincodes of ChainVote on Hyperledger Fabric, and the life of  *)
(* their transactions.                                                     *)
(*                                                                         *)
(*   ch1  chaincode-elections (ElectionInfoContract): the ElectionInfos    *)
(*   ch2  chaincode-votes (ElectionContract, CodesManagerContract): the    *)
(*        Elections, and the private collection of the one-time codes      *)
(*                                                                         *)
(* A transaction is first SIMULATED by the endorsing peers on the state    *)
(* they have (one action per @Transaction method of type SUBMIT below):    *)
(* a method that throws leaves nothing behind, a method that returns       *)
(* leaves a transaction with the keys it read and the values it wrote.     *)
(* Later it is COMMITTED if every key it read on its own channel still has *)
(* the version that was read, and ABORTED otherwise; or it is LOST on the  *)
(* way (the API service crashed, a timeout, an orderer failed). What is    *)
(* read on the other channel is not among the keys so checked: the votes   *)
(* chaincode reads the ElectionInfo of ch1 with no protection.             *)
(*                                                                         *)
(* The two endorsers of ch2 (org2 and org3, both required) are one         *)
(* simulation here: endorsements that differ make no transaction.          *)
(***************************************************************************)
EXTENDS Elections, OneTimeCodes

CONSTANTS
    Election,        \* election identifiers
    Terms,           \* Terms[e]: what e is the hash of: start, end, choices
    User,            \* user identifiers
    Seed,            \* seeds of codes (not blank)
    VotersNumber,    \* numbers of voters that administrators ask for
    InitialResults,  \* results that administrators ask to start from
    NoVote           \* the transaction is not a castVote

CONSTANTS            \* bounds of the model
    MaxTime,         \* the last instant of the clock
    TxId             \* identifiers of transactions that may be pending at once

ASSUME TermsAssumption ==
    \A e \in Election : /\ Terms[e].start \in Nat
                        /\ Terms[e].end \in Nat
                        /\ Terms[e].choices \in Seq(Choice)

\* What a request may ask for is an integer (a Java long), or a map to integers.
ASSUME RequestAssumption ==
    /\ VotersNumber \subseteq Int
    /\ \A r \in InitialResults : r \in [DOMAIN r -> Int]

ASSUME BoundAssumption == MaxTime \in Nat

VARIABLES
    now,      \* the clock that LocalDateTime.now() reads
    ledger,   \* ledger[k]: the value of key k, or Missing
    pending,  \* transactions endorsed and not yet resolved
    voted,    \* history: votes of u for e ever committed, for each <<e, u>>
    roll,     \* history: roll[e], the votes committed since e was created
    base,     \* history: base[e], the results that e was created with
    limit     \* history: the largest number of voters ever recorded for e

vars == <<now, ledger, pending, voted, roll, base, limit>>

----------------------------------------------------------------------------
(* Keys and values *)

InfoKey(e)     == <<"info", e>>
ElectionKey(e) == <<"election", e>>
CodeKey(e, u)  == <<"code", <<e, u>>>>

Key ==
    {InfoKey(e) : e \in Election} \cup {ElectionKey(e) : e \in Election}
      \cup {CodeKey(e, u) : e \in Election, u \in User}

Code == {generateCode(e, u, s) : e \in Election, u \in User, s \in Seed}

electionInfoExists(e) == ledger[InfoKey(e)] # Missing
electionExists(e)     == ledger[ElectionKey(e)] # Missing

----------------------------------------------------------------------------
(* Endorsement *)

Put(k, v) == [x \in {k} |-> v]

\* What the endorsing peers answer: the keys of its own channel that the
\* transaction read, `found' those that had a value (and so a version) and
\* `absent' those that had none, and its writes. It is `stale' once a key that
\* it found has been written again.
Endorsement(id, op, e, vote, reads, writes) ==
    [ id     |-> id,
      op     |-> op,
      e      |-> e,
      vote   |-> vote,
      found  |-> {k \in reads : ledger[k] # Missing},
      absent |-> {k \in reads : ledger[k] = Missing},
      stale  |-> FALSE,
      writes |-> writes ]

Endorse(op, e, vote, reads, writes) ==
    /\ \E id \in TxId \ {t.id : t \in pending} :
         pending' = pending \cup {Endorsement(id, op, e, vote, reads, writes)}
    /\ UNCHANGED <<now, ledger, voted, roll, base, limit>>

\* ElectionInfoContract.createElectionInfo
createElectionInfo(e, voters) ==
    /\ ~electionInfoExists(e)
    /\ checkInfo(Terms[e], voters)
    /\ Endorse("createElectionInfo", e, NoVote, {InfoKey(e)},
               Put(InfoKey(e), buildElectionInfo(Terms[e], voters)))

\* ElectionInfoContract.deleteElectionInfo: the Election is not looked at.
deleteElectionInfo(e) ==
    /\ electionInfoExists(e)
    /\ Endorse("deleteElectionInfo", e, NoVote, {InfoKey(e)},
               Put(InfoKey(e), Missing))

\* ElectionContract.createElection
createElection(e, results) ==
    /\ ~electionExists(e)
    /\ electionInfoExists(e)
    /\ checkResults(ledger[InfoKey(e)], results, now)
    /\ Endorse("createElection", e, NoVote, {ElectionKey(e)},
               Put(ElectionKey(e), buildElection(ledger[InfoKey(e)], results)))

\* ElectionContract.deleteElection
deleteElection(e) ==
    /\ electionExists(e)
    /\ Endorse("deleteElection", e, NoVote, {ElectionKey(e)},
               Put(ElectionKey(e), Missing))

\* ElectionContract.castVote: user u presents `code' and votes `choice'.
castVote(e, u, code, choice) ==
    LET election == ledger[ElectionKey(e)]
        stored   == ledger[CodeKey(e, u)]
    IN  /\ electionExists(e)
        /\ isValid(stored, code)
        /\ electionInfoExists(e)
        /\ checkBallot(ledger[InfoKey(e)], election, choice, now)
        /\ mayInvalidate(stored, code)
        /\ Endorse("castVote", e, [voter |-> u, choice |-> choice],
                   {ElectionKey(e), CodeKey(e, u)},
                   [k \in {ElectionKey(e), CodeKey(e, u)} |->
                      IF k = ElectionKey(e) THEN recordBallot(election, choice)
                                            ELSE consume(stored)])

\* CodesManagerContract.generateCodeFor
generateCodeFor(e, u, seed) ==
    /\ electionExists(e)
    /\ mayGenerate(ledger[CodeKey(e, u)])
    /\ Endorse("generateCodeFor", e, NoVote, {ElectionKey(e), CodeKey(e, u)},
               Put(CodeKey(e, u), newCode(generateCode(e, u, seed))))

\* CodesManagerContract.invalidate
invalidate(e, u, code) ==
    /\ mayInvalidate(ledger[CodeKey(e, u)], code)
    /\ Endorse("invalidate", e, NoVote, {CodeKey(e, u)},
               Put(CodeKey(e, u), consume(ledger[CodeKey(e, u)])))

----------------------------------------------------------------------------
(* Ordering and validation *)

\* The version check of the committing peers: a key found by the simulation
\* has not been written since, a key not found is (again) without a value.
Valid(t) ==
    /\ ~t.stale
    /\ \A k \in t.absent : ledger[k] = Missing

\* Mutant of Overtaken: stale only when every key that was read is rewritten.
OvertakenEntirely(t, keys) == [t EXCEPT !.stale = @ \/ t.found \subseteq keys]

\* What the writing of `keys' does to the standing of a pending transaction.
Overtaken(t, keys) == [t EXCEPT !.stale = @ \/ t.found \cap keys # {}]

Commit(t) ==
    /\ Valid(t)
    /\ ledger' = [k \in Key |-> IF k \in DOMAIN t.writes THEN t.writes[k]
                                                         ELSE ledger[k]]
    /\ pending' = {Overtaken(p, DOMAIN t.writes) : p \in pending \ {t}}
    /\ voted' = IF t.op = "castVote"
                THEN [voted EXCEPT ![<<t.e, t.vote.voter>>] = @ + 1]
                ELSE voted
    /\ roll' = CASE t.op = "castVote" -> [roll EXCEPT ![t.e] = Append(@, t.vote)]
                 [] t.op = "createElection" -> [roll EXCEPT ![t.e] = << >>]
                 [] OTHER -> roll
    /\ base' = IF t.op = "createElection"
               THEN [base EXCEPT ![t.e] = t.writes[ElectionKey(t.e)].results]
               ELSE base
    /\ limit' = IF /\ t.op = "createElectionInfo"
                   /\ t.writes[InfoKey(t.e)].voters > limit[t.e]
                THEN [limit EXCEPT ![t.e] = t.writes[InfoKey(t.e)].voters]
                ELSE limit
    /\ UNCHANGED now

\* A transaction that fails the version check is recorded as invalid.
Abort(t) ==
    /\ ~Valid(t)
    /\ pending' = pending \ {t}
    /\ UNCHANGED <<now, ledger, voted, roll, base, limit>>

\* A transaction never reaches the ordering service.
Lose(t) ==
    /\ pending' = pending \ {t}
    /\ UNCHANGED <<now, ledger, voted, roll, base, limit>>

Tick ==
    /\ now < MaxTime
    /\ now' = now + 1
    /\ UNCHANGED <<ledger, pending, voted, roll, base, limit>>

----------------------------------------------------------------------------

Init ==
    /\ now = 0
    /\ ledger = [k \in Key |-> Missing]
    /\ pending = {}
    /\ voted = [eu \in Election \X User |-> 0]
    /\ roll = [e \in Election |-> << >>]
    /\ base = [e \in Election |-> << >>]
    /\ limit = [e \in Election |-> 0]

Next ==
    \/ \E e \in Election :
         \/ \E n \in VotersNumber : createElectionInfo(e, n)
         \/ deleteElectionInfo(e)
         \/ \E results \in InitialResults : createElection(e, results)
         \/ deleteElection(e)
         \/ \E u \in User :
              \/ \E code \in Code, choice \in Choice : castVote(e, u, code, choice)
              \/ \E seed \in Seed : generateCodeFor(e, u, seed)
              \/ \E code \in Code : invalidate(e, u, code)
    \/ \E t \in pending : Commit(t) \/ Abort(t) \/ Lose(t)
    \/ Tick

Spec == Init /\ [][Next]_vars

----------------------------------------------------------------------------
(* Types *)

Info           == [start : Nat, end : Nat, choices : SUBSET Choice, voters : Nat]
StoredCode     == [code : Code, consumed : BOOLEAN]
Vote           == [voter : User, choice : Choice]

\* The answer to a read that finds nothing is told apart from a code.
ASSUME MissingAssumption == Missing \notin StoredCode

IsResults(r) == DOMAIN r \subseteq Choice /\ r \in [DOMAIN r -> Nat]

IsElection(v) ==
    /\ v = [results |-> v.results, ballots |-> v.ballots]
    /\ IsResults(v.results)
    /\ v.ballots \in Seq(Choice)

\* k holds a value of its kind, or none.
ValueOK(k, v) ==
    \/ v = Missing
    \/ k[1] = "info" /\ v \in Info
    \/ k[1] = "election" /\ IsElection(v)
    \/ k[1] = "code" /\ v \in StoredCode

TxOK(t) ==
    /\ t = [id |-> t.id, op |-> t.op, e |-> t.e, vote |-> t.vote, found |-> t.found,
            absent |-> t.absent, stale |-> t.stale, writes |-> t.writes]
    /\ t.id \in TxId
    /\ t.op \in {"createElectionInfo", "deleteElectionInfo", "createElection",
                 "deleteElection", "castVote", "generateCodeFor", "invalidate"}
    /\ t.e \in Election
    /\ t.vote \in Vote \cup {NoVote}
    /\ t.found \subseteq Key /\ t.absent \subseteq Key
    /\ t.stale \in BOOLEAN
    /\ DOMAIN t.writes \subseteq Key
    /\ \A k \in DOMAIN t.writes : ValueOK(k, t.writes[k])

\* The type invariant: each key of the ledger holds a value of its own kind,
\* each pending transaction writes such values, and the history is well formed.
TypeOK ==
    /\ now \in Nat
    /\ DOMAIN ledger = Key
    /\ \A k \in Key : ValueOK(k, ledger[k])
    /\ \A t \in pending : TxOK(t)
    /\ voted \in [Election \X User -> Nat]
    /\ roll \in [Election -> Seq(Vote)]
    /\ DOMAIN base = Election /\ \A e \in Election : IsResults(base[e])
    /\ limit \in [Election -> Nat]

----------------------------------------------------------------------------
(* Safety *)

\* "A user can cast a vote up to once per ballot" (report-ds.tex:67): however
\* castVote transactions with the same code overlap, at most one of a user for
\* an election is ever committed; also when the election is deleted and created
\* again, because deleteElection leaves the codes.
OneVotePerUser == \A eu \in Election \X User : voted[eu] <= 1

\* No vote is lost and none is made up: castVote rewrites the whole Election it
\* read (ElectionContract.java:269), and still the ballots of an election are
\* those of the votes committed since its creation, in their order.
EveryVoteIsListed ==
    \A e \in Election : electionExists(e) =>
        ledger[ElectionKey(e)].ballots = [i \in DOMAIN roll[e] |-> roll[e][i].choice]

\* How many ballots of a list are for choice c.
BallotsFor(ballots, c) == Cardinality({i \in DOMAIN ballots : ballots[i] = c})

\* The published results agree with the ballots: for every choice, what the
\* election was created with plus one for each ballot (ElectionImpl.castVote).
ResultsMatchBallots ==
    \A e \in Election : electionExists(e) =>
        LET election == ledger[ElectionKey(e)]
        IN  /\ DOMAIN election.results = DOMAIN base[e]
            /\ \A c \in DOMAIN base[e] :
                 election.results[c] = base[e][c] + BallotsFor(election.ballots, c)

\* A listed vote has used up its code: whoever is on the roll of an election
\* holds a consumed code for it (castVote writes both keys in one transaction).
ListedVotersSpentTheirCode ==
    \A e \in Election : \A i \in DOMAIN roll[e] :
        LET stored == ledger[CodeKey(e, roll[e][i].voter)]
        IN  stored # Missing /\ stored.consumed

\* The results never exceed the largest number of voters that any ElectionInfo
\* of that identifier allowed, however many castVotes run at the limit
\* (ElectionManagerImpl.checkBallot). The CURRENT ElectionInfo may allow fewer.
WithinSomeLimit ==
    \A e \in Election : electionExists(e) =>
        Total(ledger[ElectionKey(e)].results) <= limit[e]

\* "the writing to the ledger of the newly cast vote is successful only if the
\* election is open" (report-ds.tex:424): checkBallot looks at the clock when
\* the vote is endorsed, and nothing does when it is committed.
VotesCommittedWhileOpen ==
    [][\A e \in Election : Len(roll'[e]) > Len(roll[e]) =>
         electionInfoExists(e) /\ isOpen(ledger[InfoKey(e)], now)]_vars

\* A code, once issued, is that user's code for ever: never replaced, never
\* removed (not even with its election), never usable again once consumed.
CodesAreFinal ==
    [][\A e \in Election, u \in User :
         LET old == ledger[CodeKey(e, u)]
             new == ledger'[CodeKey(e, u)]
         IN  old # Missing =>
               /\ new # Missing
               /\ new.code = old.code
               /\ old.consumed => new.consumed]_vars

----------------------------------------------------------------------------
(* Progress *)

\* Nothing but the others stands between user u and a vote for e: the election
\* is there, open and below its limit, and the user's code has not been used.
MayVote(e, u) ==
    /\ electionExists(e) /\ electionInfoExists(e)
    /\ isOpen(ledger[InfoKey(e)], now)
    /\ Total(ledger[ElectionKey(e)].results) < ledger[InfoKey(e)].voters
    /\ ledger[CodeKey(e, u)] # Missing /\ ~ledger[CodeKey(e, u)].consumed

\* The user submits the vote again whenever it failed, the ordering service and
\* the peers resolve what is pending, and do not lose the votes of one user for
\* ever. The clock may stop: an election may close before anything happens.
Fairness ==
    /\ WF_vars(\E t \in pending : Commit(t) \/ Abort(t))
    /\ \A e \in Election, u \in User :
         /\ SF_vars(\E code \in Code, choice \in Choice : castVote(e, u, code, choice))
         /\ SF_vars(\E t \in pending : t.vote # NoVote /\ t.e = e
                                         /\ t.vote.voter = u /\ Commit(t))

FairSpec == Spec /\ Fairness

\* A castVote that meets another one on the same election is aborted (both
\* rewrite the Election), and a user may be overtaken again and again; but each
\* overtaking is a vote, with a code spent. So a user who may vote and keeps
\* trying does not stay so for ever: the vote is recorded, or is no longer due.
PersistentVoterVotes == \A e \in Election, u \in User : []<>~MayVote(e, u)

----------------------------------------------------------------------------
(* The pending transactions, kind by kind: the keys that each reads and      *)
(* writes, and, while it is not stale, that simulating it again on the       *)
(* present ledger would give the same writes.                                *)

CreatesInfo(t) ==
    /\ t.op = "createElectionInfo"
    /\ t.found = {} /\ t.absent = {InfoKey(t.e)}
    /\ \E n \in VotersNumber :
         t.writes = Put(InfoKey(t.e), buildElectionInfo(Terms[t.e], n))

DeletesInfo(t) ==
    /\ t.op = "deleteElectionInfo"
    /\ t.found = {InfoKey(t.e)} /\ t.absent = {}
    /\ t.writes = Put(InfoKey(t.e), Missing)

CreatesElection(t) ==
    /\ t.op = "createElection"
    /\ t.found = {} /\ t.absent = {ElectionKey(t.e)}
    /\ \E n \in VotersNumber, r \in InitialResults :
         LET built == buildElection(buildElectionInfo(Terms[t.e], n), r)
         IN  IsElection(built) /\ t.writes = Put(ElectionKey(t.e), built)

DeletesElection(t) ==
    /\ t.op = "deleteElection"
    /\ t.found = {ElectionKey(t.e)} /\ t.absent = {}
    /\ t.writes = Put(ElectionKey(t.e), Missing)
    /\ ~t.stale => electionExists(t.e)

\* `stored' is a code that can still be spent.
Unspent(stored) == stored # Missing /\ ~stored.consumed

CastsVote(t) ==
    LET ek == ElectionKey(t.e)
        ck == CodeKey(t.e, t.vote.voter)
    IN  /\ t.op = "castVote"
        /\ t.vote \in Vote
        /\ t.found = {ek, ck} /\ t.absent = {}
        /\ DOMAIN t.writes = {ek, ck}
        /\ t.writes[ck] # Missing /\ t.writes[ck].consumed
        /\ ~t.stale => /\ electionExists(t.e)
                       /\ Unspent(ledger[ck])
                       /\ t.vote.choice \in DOMAIN ledger[ek].results
                       /\ t.writes[ek] = recordBallot(ledger[ek], t.vote.choice)
                       /\ t.writes[ck] = consume(ledger[ck])

GeneratesCode(t) ==
    /\ t.op = "generateCodeFor"
    /\ t.found = {ElectionKey(t.e)}
    /\ \E u \in User, s \in Seed :
         /\ t.absent = {CodeKey(t.e, u)}
         /\ t.writes = Put(CodeKey(t.e, u), newCode(generateCode(t.e, u, s)))
    /\ ~t.stale => electionExists(t.e)

VoidsCode(t) ==
    /\ t.op = "invalidate"
    /\ t.absent = {}
    /\ \E u \in User :
         LET ck == CodeKey(t.e, u)
         IN  /\ t.found = {ck} /\ DOMAIN t.writes = {ck}
             /\ t.writes[ck] # Missing /\ t.writes[ck].consumed
             /\ ~t.stale => /\ Unspent(ledger[ck])
                            /\ t.writes[ck] = consume(ledger[ck])

AsIfSimulatedNow(t) ==
    \/ CreatesInfo(t)     \/ DeletesInfo(t)
    \/ CreatesElection(t) \/ DeletesElection(t)
    \/ CastsVote(t) \/ GeneratesCode(t) \/ VoidsCode(t)

\* A transaction that the version check would let through does what it would do
\* if it were executed at its commit: its reads, made at endorsement, are still
\* what the ledger says. This is what makes the overlapping executions serial.
PendingIsCurrent == \A t \in pending : AsIfSimulatedNow(t)

\* The two channels agree on what an identifier stands for, although neither
\* checks the other when it writes: the ElectionInfo has the terms that the
\* identifier is the hash of, and the Election a count for each of its choices.
ChannelsMatchTerms ==
    \A e \in Election :
        /\ electionInfoExists(e) =>
             \E n \in VotersNumber : ledger[InfoKey(e)] = buildElectionInfo(Terms[e], n)
        /\ electionExists(e) =>
             DOMAIN ledger[ElectionKey(e)].results = Range(Terms[e].choices) \cup {Blank}

\* Whoever has voted once has spent the code, and nobody has voted twice.
VotersSpentTheirCode ==
    \A e \in Election, u \in User :
        \/ voted[<<e, u>>] = 0
        \/ /\ voted[<<e, u>>] = 1
           /\ ledger[CodeKey(e, u)] # Missing
           /\ ledger[CodeKey(e, u)].consumed

\* The inductive invariant that the proofs of VotesLedgerProofs rest on.
IInv == TypeOK /\ PendingIsCurrent /\ ChannelsMatchTerms /\ VotersSpentTheirCode

\* What keeps the results within a limit: the ElectionInfo of the moment allows
\* no more than was ever allowed, and neither the Elections of the ledger nor
\* those that pending transactions may still write hold more votes than that.
InfosWithinLimit ==
    \A e \in Election : electionInfoExists(e) => ledger[InfoKey(e)].voters <= limit[e]

WritesElection(t) == t.op \in {"createElection", "castVote"}

PendingWithinLimit ==
    \A t \in pending : WritesElection(t) /\ ~t.stale =>
        Total(t.writes[ElectionKey(t.e)].results) <= limit[t.e]

\* The inductive invariant of the history (VotesLedgerProofs), beside IInv.
HistoryInv ==
    /\ EveryVoteIsListed /\ ResultsMatchBallots /\ ListedVotersSpentTheirCode
    /\ InfosWithinLimit /\ PendingWithinLimit /\ WithinSomeLimit

----------------------------------------------------------------------------
(* Implementation of the atomic ballot box *)

\* Every Election that the factory can build from what is asked of it.
StartingResults ==
    {buildElection(buildElectionInfo(Terms[e], n), r).results :
       e \in Election, n \in VotersNumber, r \in InitialResults}

\* The refinement mapping: the committed state of ch2.
BoxOf  == [e \in Election |-> ledger[ElectionKey(e)]]
CodeOf == [eu \in Election \X User |-> ledger[CodeKey(eu[1], eu[2])]]

Box == INSTANCE BallotBox WITH box <- BoxOf, code <- CodeOf

\* Endorsement, ordering and the version check make the operations of ch2 look
\* as if each happened in one step, although votes, deletions, creations and
\* code requests overlap while they are pending.
ImplementsBallotBox == Box!BoxSpec
============================================================================
