------------------------- MODULE VotesLedgerProofs -------------------------
(***************************************************************************)
(* Proofs about VotesLedger, for every set of elections, users and         *)
(* requests, and any number of pending transactions.                       *)
(***************************************************************************)
EXTENDS VotesLedger, FiniteSetTheorems, TLAPS

----------------------------------------------------------------------------
(* Keys *)

\* Keys of different kinds differ, and a key determines what it is the key of.
LEMMA KeysDiffer ==
    ASSUME NEW e, NEW f, NEW u, NEW v
    PROVE  /\ InfoKey(e) # ElectionKey(f)
           /\ InfoKey(e) # CodeKey(f, u)
           /\ ElectionKey(e) # CodeKey(f, u)
           /\ InfoKey(e) = InfoKey(f) => e = f
           /\ ElectionKey(e) = ElectionKey(f) => e = f
           /\ CodeKey(e, u) = CodeKey(f, v) => e = f /\ u = v
BY DEF InfoKey, ElectionKey, CodeKey

\* A value of the kind of its key.
LEMMA KindOfKey ==
    ASSUME NEW e, NEW u, NEW v, v # Missing
    PROVE  /\ ValueOK(InfoKey(e), v) <=> v \in Info
           /\ ValueOK(ElectionKey(e), v) <=> IsElection(v)
           /\ ValueOK(CodeKey(e, u), v) <=> v \in StoredCode
BY DEF ValueOK, InfoKey, ElectionKey, CodeKey

\* The keys of an election, and what is found there.
LEMMA LedgerTypes ==
    ASSUME TypeOK, NEW e \in Election
    PROVE  /\ InfoKey(e) \in Key /\ ElectionKey(e) \in Key
           /\ \A u \in User : CodeKey(e, u) \in Key
           /\ ledger[InfoKey(e)] # Missing => ledger[InfoKey(e)] \in Info
           /\ ledger[ElectionKey(e)] # Missing => IsElection(ledger[ElectionKey(e)])
           /\ \A u \in User : ledger[CodeKey(e, u)] # Missing =>
                                ledger[CodeKey(e, u)] \in StoredCode
<1>1. /\ InfoKey(e) \in Key /\ ElectionKey(e) \in Key
      /\ \A u \in User : CodeKey(e, u) \in Key
  BY DEF Key
<1>2. /\ ValueOK(InfoKey(e), ledger[InfoKey(e)])
      /\ ValueOK(ElectionKey(e), ledger[ElectionKey(e)])
      /\ \A u \in User : ValueOK(CodeKey(e, u), ledger[CodeKey(e, u)])
  BY <1>1 DEF TypeOK
<1> QED
  BY <1>1, <1>2, KindOfKey

----------------------------------------------------------------------------
(* Simulations that stand *)

\* A transaction keeps its meaning when its `stale' mark is set, or when the
\* keys that it found keep their values.
LEMMA Frame ==
    ASSUME NEW t, TxOK(t), AsIfSimulatedNow(t),
           NEW q, NEW stale \in BOOLEAN, q = [t EXCEPT !.stale = stale],
           ~stale => ~t.stale /\ \A k \in t.found : ledger'[k] = ledger[k]
    PROVE  TxOK(q) /\ AsIfSimulatedNow(q)'
<1>1. /\ q = [id |-> t.id, op |-> t.op, e |-> t.e, vote |-> t.vote, found |-> t.found,
              absent |-> t.absent, stale |-> stale, writes |-> t.writes]
      /\ q.id = t.id /\ q.op = t.op /\ q.e = t.e /\ q.vote = t.vote /\ q.found = t.found
      /\ q.absent = t.absent /\ q.stale = stale /\ q.writes = t.writes
  BY DEF TxOK
<1>2. TxOK(q)
  BY <1>1 DEF TxOK
<1>3. ASSUME CreatesInfo(t) PROVE CreatesInfo(q)'
  BY <1>1, <1>3 DEF CreatesInfo
<1>4. ASSUME DeletesInfo(t) PROVE DeletesInfo(q)'
  BY <1>1, <1>4 DEF DeletesInfo
<1>5. ASSUME CreatesElection(t) PROVE CreatesElection(q)'
  BY <1>1, <1>5 DEF CreatesElection
<1>6. ASSUME DeletesElection(t) PROVE DeletesElection(q)'
  BY <1>1, <1>6 DEF DeletesElection, electionExists
<1>7. ASSUME CastsVote(t) PROVE CastsVote(q)'
  BY <1>1, <1>7 DEF CastsVote, electionExists, Unspent
<1>8. ASSUME GeneratesCode(t) PROVE GeneratesCode(q)'
  BY <1>1, <1>8 DEF GeneratesCode, electionExists
<1>9. ASSUME VoidsCode(t) PROVE VoidsCode(q)'
  BY <1>1, <1>9 DEF VoidsCode, Unspent
<1> QED
  BY <1>2, <1>3, <1>4, <1>5, <1>6, <1>7, <1>8, <1>9 DEF AsIfSimulatedNow

----------------------------------------------------------------------------
(* Endorsements *)

\* An endorsement preserves the invariant when what it adds to the pending
\* transactions is well formed and agrees with the ledger.
LEMMA EndorseKeepsIInv ==
    ASSUME IInv, NEW t0, TxOK(t0), AsIfSimulatedNow(t0),
           pending' = pending \cup {t0},
           UNCHANGED <<now, ledger, voted, roll, base, limit>>
    PROVE  IInv'
<1>1. /\ UNCHANGED <<now, ledger, voted, roll, base, limit>>
      /\ pending' = pending \cup {t0}
  OBVIOUS
<1>2. \A t \in pending' : TxOK(t) /\ AsIfSimulatedNow(t)'
  <2> SUFFICES ASSUME NEW t \in pending' PROVE TxOK(t) /\ AsIfSimulatedNow(t)'
    OBVIOUS
  <2>1. TxOK(t) /\ AsIfSimulatedNow(t)
    BY <1>1 DEF IInv, TypeOK, PendingIsCurrent
  <2>2. t = [t EXCEPT !.stale = t.stale] /\ t.stale \in BOOLEAN
    BY <2>1 DEF TxOK
  <2> QED
    BY <1>1, <2>1, <2>2, Frame
<1>3. TypeOK'
  BY <1>1, <1>2 DEF IInv, TypeOK
<1>4. PendingIsCurrent'
  BY <1>2 DEF PendingIsCurrent
<1>5. ChannelsMatchTerms'
  BY <1>1 DEF IInv, ChannelsMatchTerms, electionInfoExists, electionExists
<1>6. VotersSpentTheirCode'
  BY <1>1 DEF IInv, VotersSpentTheirCode
<1> QED
  BY <1>3, <1>4, <1>5, <1>6 DEF IInv

\* The ElectionInfos that the factory builds are of their type.
LEMMA BuiltInfoType ==
    ASSUME NEW e \in Election, NEW n \in VotersNumber, checkInfo(Terms[e], n)
    PROVE  buildElectionInfo(Terms[e], n) \in Info
<1>1. Terms[e].start \in Nat /\ Terms[e].end \in Nat /\ Terms[e].choices \in Seq(Choice)
  BY TermsAssumption
<1>2. n \in Nat
  BY RequestAssumption DEF checkInfo
<1>3. Range(Terms[e].choices) \cup {Blank} \subseteq Choice
  BY <1>1, BlankAssumption DEF Range
<1> QED
  BY <1>1, <1>2, <1>3 DEF buildElectionInfo, Info

\* The transaction of a new ElectionInfo reads that there is none.
LEMMA CreateElectionInfoKeepsIInv ==
    ASSUME IInv, NEW e \in Election, NEW n \in VotersNumber, createElectionInfo(e, n)
    PROVE  IInv'
<1> DEFINE w == Put(InfoKey(e), buildElectionInfo(Terms[e], n))
<1>1. /\ ledger[InfoKey(e)] = Missing
      /\ Endorse("createElectionInfo", e, NoVote, {InfoKey(e)}, w)
  BY DEF createElectionInfo, electionInfoExists
<1>a. PICK id \in TxId :
           pending' = pending \cup {Endorsement(id, "createElectionInfo", e, NoVote, {InfoKey(e)}, w)}
  BY <1>1 DEF Endorse
<1>b. UNCHANGED <<now, ledger, voted, roll, base, limit>>
  BY <1>1 DEF Endorse
<1> DEFINE t == Endorsement(id, "createElectionInfo", e, NoVote, {InfoKey(e)}, w)
<1>2. /\ t.id = id /\ t.op = "createElectionInfo" /\ t.e = e /\ t.vote = NoVote /\ t.found = {}
      /\ t.absent = {InfoKey(e)} /\ t.stale = FALSE /\ t.writes = w
  BY <1>1 DEF Endorsement
<1>3. TxOK(t)
  <2>1. ValueOK(InfoKey(e), w[InfoKey(e)])
    BY BuiltInfoType DEF ValueOK, InfoKey, Put, createElectionInfo
  <2> QED
    BY <1>2, <2>1 DEF TxOK, Endorsement, Put, Key
<1>4. AsIfSimulatedNow(t)
  BY <1>2 DEF AsIfSimulatedNow, CreatesInfo
<1> QED
  BY <1>a, <1>b, <1>3, <1>4, EndorseKeepsIInv

\* The transaction that deletes one reads what it deletes.
LEMMA DeleteElectionInfoKeepsIInv ==
    ASSUME IInv, NEW e \in Election, deleteElectionInfo(e)
    PROVE  IInv'
<1> DEFINE w == Put(InfoKey(e), Missing)
<1>1. /\ ledger[InfoKey(e)] # Missing
      /\ Endorse("deleteElectionInfo", e, NoVote, {InfoKey(e)}, w)
  BY DEF deleteElectionInfo, electionInfoExists
<1>a. PICK id \in TxId :
           pending' = pending \cup {Endorsement(id, "deleteElectionInfo", e, NoVote, {InfoKey(e)}, w)}
  BY <1>1 DEF Endorse
<1>b. UNCHANGED <<now, ledger, voted, roll, base, limit>>
  BY <1>1 DEF Endorse
<1> DEFINE t == Endorsement(id, "deleteElectionInfo", e, NoVote, {InfoKey(e)}, w)
<1>2. /\ t.id = id /\ t.op = "deleteElectionInfo" /\ t.e = e /\ t.vote = NoVote
      /\ t.found = {InfoKey(e)} /\ t.absent = {} /\ t.stale = FALSE /\ t.writes = w
  BY <1>1 DEF Endorsement
<1>3. TxOK(t)
  BY <1>2 DEF TxOK, Endorsement, Put, Key, ValueOK
<1>4. AsIfSimulatedNow(t)
  BY <1>2 DEF AsIfSimulatedNow, DeletesInfo
<1> QED
  BY <1>a, <1>b, <1>3, <1>4, EndorseKeepsIInv

\* The Elections that the factory builds are of their type.
LEMMA BuiltElectionType ==
    ASSUME NEW info \in Info, NEW r \in InitialResults, NEW t \in Nat,
           checkResults(info, r, t)
    PROVE  /\ buildElection(info, r) =
                [results |-> buildElection(info, r).results, ballots |-> << >>]
           /\ IsResults(buildElection(info, r).results)
           /\ IsElection(buildElection(info, r))
<1> DEFINE b == buildElection(info, r)
<1>1. info.choices \subseteq Choice
  BY DEF Info
<1>2. \A c \in DOMAIN r : r[c] \in Nat
  BY RequestAssumption DEF checkResults
<1>3. /\ b.results = [c \in info.choices |-> IF c \in DOMAIN r THEN r[c] ELSE 0]
      /\ b.ballots = << >>
      /\ b = [results |-> b.results, ballots |-> b.ballots]
  BY DEF buildElection
<1>4. IsResults(b.results)
  BY <1>1, <1>2, <1>3 DEF IsResults
<1> QED
  BY <1>3, <1>4 DEF IsElection

\* The transaction of a new election reads the ElectionInfo of the other channel.
LEMMA CreateElectionKeepsIInv ==
    ASSUME IInv, NEW e \in Election, NEW r \in InitialResults, createElection(e, r)
    PROVE  IInv'
<1> DEFINE info == ledger[InfoKey(e)]
           w == Put(ElectionKey(e), buildElection(info, r))
<1>1. /\ ledger[ElectionKey(e)] = Missing
      /\ info # Missing
      /\ checkResults(info, r, now)
      /\ Endorse("createElection", e, NoVote, {ElectionKey(e)}, w)
  BY DEF createElection, electionInfoExists, electionExists
<1>a. PICK id \in TxId :
           pending' = pending \cup {Endorsement(id, "createElection", e, NoVote, {ElectionKey(e)}, w)}
  BY <1>1 DEF Endorse
<1>b. UNCHANGED <<now, ledger, voted, roll, base, limit>>
  BY <1>1 DEF Endorse
<1> DEFINE t == Endorsement(id, "createElection", e, NoVote, {ElectionKey(e)}, w)
<1>2. /\ t.id = id /\ t.op = "createElection" /\ t.e = e /\ t.vote = NoVote /\ t.found = {}
      /\ t.absent = {ElectionKey(e)} /\ t.stale = FALSE /\ t.writes = w
  BY <1>1 DEF Endorsement
<1>3. info \in Info
  BY <1>1, LedgerTypes DEF IInv
<1>4. PICK n \in VotersNumber : info = buildElectionInfo(Terms[e], n)
  BY <1>1 DEF IInv, ChannelsMatchTerms, electionInfoExists
<1>5. /\ buildElection(info, r) =
           [results |-> buildElection(info, r).results, ballots |-> << >>]
      /\ IsResults(buildElection(info, r).results)
      /\ IsElection(buildElection(info, r))
  BY <1>1, <1>3, BuiltElectionType DEF IInv, TypeOK
<1>6. TxOK(t)
  <2>1. ValueOK(ElectionKey(e), w[ElectionKey(e)])
    BY <1>5 DEF ValueOK, ElectionKey, Put
  <2> QED
    BY <1>2, <2>1 DEF TxOK, Endorsement, Put, Key
<1>7. AsIfSimulatedNow(t)
  <2>1. CreatesElection(t)
    BY <1>2, <1>4, <1>5 DEF CreatesElection
  <2> QED
    BY <2>1 DEF AsIfSimulatedNow
<1> QED
  BY <1>a, <1>b, <1>6, <1>7, EndorseKeepsIInv

\* The transaction that deletes an election.
LEMMA DeleteElectionKeepsIInv ==
    ASSUME IInv, NEW e \in Election, deleteElection(e)
    PROVE  IInv'
<1> DEFINE w == Put(ElectionKey(e), Missing)
<1>1. /\ electionExists(e)
      /\ Endorse("deleteElection", e, NoVote, {ElectionKey(e)}, w)
  BY DEF deleteElection
<1>a. PICK id \in TxId :
           pending' = pending \cup {Endorsement(id, "deleteElection", e, NoVote, {ElectionKey(e)}, w)}
  BY <1>1 DEF Endorse
<1>b. UNCHANGED <<now, ledger, voted, roll, base, limit>>
  BY <1>1 DEF Endorse
<1> DEFINE t == Endorsement(id, "deleteElection", e, NoVote, {ElectionKey(e)}, w)
<1>2. /\ t.id = id /\ t.op = "deleteElection" /\ t.e = e /\ t.vote = NoVote
      /\ t.found = {ElectionKey(e)} /\ t.absent = {} /\ t.stale = FALSE /\ t.writes = w
  BY <1>1 DEF Endorsement, electionExists
<1>3. TxOK(t)
  BY <1>2 DEF TxOK, Endorsement, Put, Key, ValueOK
<1>4. AsIfSimulatedNow(t)
  BY <1>1, <1>2 DEF AsIfSimulatedNow, DeletesElection
<1> QED
  BY <1>a, <1>b, <1>3, <1>4, EndorseKeepsIInv

\* A recorded ballot gives an Election again.
LEMMA RecordedBallotType ==
    ASSUME NEW x, IsElection(x), NEW c \in Choice, c \in DOMAIN x.results
    PROVE  IsElection(recordBallot(x, c))
<1>1. [x.results EXCEPT ![c] = @ + 1] \in [DOMAIN x.results -> Nat]
  BY DEF IsElection, IsResults
<1>2. IsResults([x.results EXCEPT ![c] = @ + 1])
  BY <1>1 DEF IsElection, IsResults
<1>3. Append(x.ballots, c) \in Seq(Choice)
  BY DEF IsElection
<1> QED
  BY <1>2, <1>3 DEF IsElection, recordBallot

\* A code that is spent is still a code.
LEMMA ConsumedType ==
    ASSUME NEW x \in StoredCode
    PROVE  /\ consume(x) \in StoredCode
           /\ consume(x).consumed /\ consume(x).code = x.code
BY DEF StoredCode, consume

\* The transaction of a vote reads the election, its ElectionInfo and the code that it consumes.
LEMMA CastVoteKeepsIInv ==
    ASSUME IInv, NEW e \in Election, NEW u \in User, NEW code \in Code,
           NEW choice \in Choice, castVote(e, u, code, choice)
    PROVE  IInv'
<1> DEFINE ek == ElectionKey(e)
           ck == CodeKey(e, u)
           vote == [voter |-> u, choice |-> choice]
           w == [k \in {ek, ck} |-> IF k = ek THEN recordBallot(ledger[ek], choice)
                                             ELSE consume(ledger[ck])]
<1>1. /\ ledger[ek] # Missing
      /\ Unspent(ledger[ck])
      /\ electionInfoExists(e)
      /\ choice \in ledger[InfoKey(e)].choices
      /\ Endorse("castVote", e, vote, {ek, ck}, w)
  BY DEF castVote, electionExists, isValid, verifyCodeOwner, Unspent, checkBallot
<1>a. PICK id \in TxId :
           pending' = pending \cup {Endorsement(id, "castVote", e, vote, {ek, ck}, w)}
  BY <1>1 DEF Endorse
<1>b. UNCHANGED <<now, ledger, voted, roll, base, limit>>
  BY <1>1 DEF Endorse
<1> DEFINE t == Endorsement(id, "castVote", e, vote, {ek, ck}, w)
<1>2. ek # ck
  BY KeysDiffer
<1>3. /\ t.id = id /\ t.op = "castVote" /\ t.e = e /\ t.vote = vote /\ t.found = {ek, ck}
      /\ t.absent = {} /\ t.stale = FALSE /\ t.writes = w
      /\ t.vote.voter = u /\ t.vote.choice = choice
  BY <1>1 DEF Endorsement, Unspent
<1>4. IsElection(ledger[ek]) /\ ledger[ck] \in StoredCode
  BY <1>1, LedgerTypes DEF IInv, Unspent
<1>5. choice \in DOMAIN ledger[ek].results
  <2>1. PICK n \in VotersNumber : ledger[InfoKey(e)] = buildElectionInfo(Terms[e], n)
    BY <1>1 DEF IInv, ChannelsMatchTerms
  <2>2. ledger[InfoKey(e)].choices = Range(Terms[e].choices) \cup {Blank}
    BY <2>1 DEF buildElectionInfo
  <2> QED
    BY <1>1, <2>2 DEF IInv, ChannelsMatchTerms, electionExists
<1>6. /\ w[ek] = recordBallot(ledger[ek], choice) /\ IsElection(w[ek])
      /\ w[ck] = consume(ledger[ck]) /\ w[ck] \in StoredCode /\ w[ck].consumed
  BY <1>2, <1>4, <1>5, RecordedBallotType, ConsumedType
<1>7. TxOK(t)
  <2>1. ValueOK(ek, w[ek]) /\ ValueOK(ck, w[ck])
    BY <1>6 DEF ValueOK, ElectionKey, CodeKey
  <2>2. ek \in Key /\ ck \in Key /\ vote \in Vote
    BY DEF Key, Vote
  <2>3. t = [id |-> t.id, op |-> t.op, e |-> t.e, vote |-> t.vote, found |-> t.found,
             absent |-> t.absent, stale |-> t.stale, writes |-> t.writes]
    BY DEF Endorsement
  <2> QED
    BY <1>3, <2>1, <2>2, <2>3 DEF TxOK
<1>8. AsIfSimulatedNow(t)
  <2>1. vote \in Vote
    BY DEF Vote
  <2>2. w[ck] # Missing
    BY <1>6, MissingAssumption
  <2>3. CastsVote(t)
    BY <1>1, <1>2, <1>3, <1>5, <1>6, <2>1, <2>2 DEF CastsVote, electionExists
  <2> QED
    BY <2>3 DEF AsIfSimulatedNow
<1> QED
  BY <1>a, <1>b, <1>7, <1>8, EndorseKeepsIInv

\* The transaction of a code reads that the user has none.
LEMMA GenerateCodeKeepsIInv ==
    ASSUME IInv, NEW e \in Election, NEW u \in User, NEW s \in Seed,
           generateCodeFor(e, u, s)
    PROVE  IInv'
<1> DEFINE ek == ElectionKey(e)
           ck == CodeKey(e, u)
           w == Put(ck, newCode(generateCode(e, u, s)))
<1>1. /\ ledger[ek] # Missing
      /\ ledger[ck] = Missing
      /\ Endorse("generateCodeFor", e, NoVote, {ek, ck}, w)
  BY DEF generateCodeFor, electionExists, mayGenerate
<1>a. PICK id \in TxId :
           pending' = pending \cup {Endorsement(id, "generateCodeFor", e, NoVote, {ek, ck}, w)}
  BY <1>1 DEF Endorse
<1>b. UNCHANGED <<now, ledger, voted, roll, base, limit>>
  BY <1>1 DEF Endorse
<1> DEFINE t == Endorsement(id, "generateCodeFor", e, NoVote, {ek, ck}, w)
<1>2. /\ t.id = id /\ t.op = "generateCodeFor" /\ t.e = e /\ t.vote = NoVote /\ t.found = {ek}
      /\ t.absent = {ck} /\ t.stale = FALSE /\ t.writes = w
  BY <1>1, KeysDiffer DEF Endorsement
<1>3. TxOK(t)
  <2>1. newCode(generateCode(e, u, s)) \in StoredCode
    BY DEF newCode, StoredCode, Code
  <2>2. ValueOK(ck, w[ck])
    BY <2>1 DEF ValueOK, CodeKey, Put
  <2> QED
    BY <1>2, <2>2 DEF TxOK, Endorsement, Put, Key
<1>4. AsIfSimulatedNow(t)
  BY <1>1, <1>2 DEF AsIfSimulatedNow, GeneratesCode, electionExists
<1> QED
  BY <1>a, <1>b, <1>3, <1>4, EndorseKeepsIInv

\* The transaction that invalidates a code.
LEMMA InvalidateKeepsIInv ==
    ASSUME IInv, NEW e \in Election, NEW u \in User, NEW code \in Code,
           invalidate(e, u, code)
    PROVE  IInv'
<1> DEFINE ck == CodeKey(e, u)
           w == Put(ck, consume(ledger[ck]))
<1>1. Unspent(ledger[ck]) /\ Endorse("invalidate", e, NoVote, {ck}, w)
  BY DEF invalidate, mayInvalidate, verifyCodeOwner, Unspent
<1>a. PICK id \in TxId :
           pending' = pending \cup {Endorsement(id, "invalidate", e, NoVote, {ck}, w)}
  BY <1>1 DEF Endorse
<1>b. UNCHANGED <<now, ledger, voted, roll, base, limit>>
  BY <1>1 DEF Endorse
<1> DEFINE t == Endorsement(id, "invalidate", e, NoVote, {ck}, w)
<1>2. /\ t.id = id /\ t.op = "invalidate" /\ t.e = e /\ t.vote = NoVote /\ t.found = {ck}
      /\ t.absent = {} /\ t.stale = FALSE /\ t.writes = w
  BY <1>1 DEF Endorsement, Unspent
<1>3. ledger[ck] \in StoredCode
  BY <1>1, LedgerTypes DEF IInv, Unspent
<1>4. /\ w[ck] = consume(ledger[ck]) /\ w[ck] \in StoredCode /\ w[ck].consumed
      /\ DOMAIN w = {ck}
  BY <1>3, ConsumedType DEF Put
<1> w[ck] # Missing
  BY <1>4, MissingAssumption
<1>5. TxOK(t)
  <2>1. ValueOK(ck, w[ck])
    BY <1>4 DEF ValueOK, CodeKey
  <2> QED
    BY <1>2, <1>4, <2>1 DEF TxOK, Endorsement, Key
<1>6. AsIfSimulatedNow(t)
  BY <1>1, <1>2, <1>4 DEF AsIfSimulatedNow, VoidsCode, Unspent
<1> QED
  BY <1>a, <1>b, <1>5, <1>6, EndorseKeepsIInv

----------------------------------------------------------------------------
(* Commits *)

\* What a commit does to one key, and to the transactions left pending.
LEMMA CommitEffect ==
    ASSUME IInv, NEW t \in pending, Commit(t)
    PROVE  /\ TxOK(t) /\ AsIfSimulatedNow(t) /\ t.e \in Election
           /\ \A k \in t.found : ~t.stale
           /\ \A k \in t.absent : ledger[k] = Missing
           /\ \A k \in Key : ledger'[k] = IF k \in DOMAIN t.writes THEN t.writes[k]
                                                                  ELSE ledger[k]
           /\ \A p \in pending' : TxOK(p) /\ AsIfSimulatedNow(p)'
<1>1. TxOK(t) /\ AsIfSimulatedNow(t) /\ t.e \in Election
  BY DEF IInv, TypeOK, PendingIsCurrent, TxOK
<1>2. /\ ~t.stale
      /\ \A k \in t.absent : ledger[k] = Missing
      /\ ledger' = [k \in Key |-> IF k \in DOMAIN t.writes THEN t.writes[k] ELSE ledger[k]]
      /\ pending' = {Overtaken(p, DOMAIN t.writes) : p \in pending \ {t}}
  BY DEF Commit, Valid
<1>3. ASSUME NEW p \in pending' PROVE TxOK(p) /\ AsIfSimulatedNow(p)'
  <2>1. PICK q \in pending : p = Overtaken(q, DOMAIN t.writes)
    BY <1>2
  <2>2. TxOK(q) /\ AsIfSimulatedNow(q) /\ q.found \subseteq Key /\ q.stale \in BOOLEAN
    BY DEF IInv, TypeOK, PendingIsCurrent, TxOK
  <2> DEFINE stale == q.stale \/ q.found \cap DOMAIN t.writes # {}
  <2>3. stale \in BOOLEAN /\ p = [q EXCEPT !.stale = stale]
    BY <2>1, <2>2 DEF Overtaken
  <2>4. ~stale => ~q.stale /\ \A k \in q.found : ledger'[k] = ledger[k]
    BY <1>2, <2>2
  <2> HIDE DEF stale
  <2> QED
    BY <2>2, <2>3, <2>4, Frame
<1> QED
  BY <1>1, <1>2, <1>3

\* What is committed is of the type of the ledger.
LEMMA CommitKeepsTypeOK ==
    ASSUME IInv, NEW t \in pending, Commit(t)
    PROVE  TypeOK'
<1>1. /\ TxOK(t) /\ AsIfSimulatedNow(t) /\ t.e \in Election
      /\ \A k \in Key : ledger'[k] = IF k \in DOMAIN t.writes THEN t.writes[k]
                                                             ELSE ledger[k]
      /\ \A p \in pending' : TxOK(p)
  BY CommitEffect
<1>2. now' \in Nat
  BY DEF Commit, IInv, TypeOK
<1>3. DOMAIN ledger' = Key
  BY DEF Commit
<1>4. \A k \in Key : ValueOK(k, ledger'[k])
  BY <1>1 DEF IInv, TypeOK, TxOK
<1>5. t.op = "castVote" => t.vote \in Vote /\ t.vote.voter \in User
  BY <1>1 DEF AsIfSimulatedNow, CreatesInfo, DeletesInfo, CreatesElection,
              DeletesElection, CastsVote, GeneratesCode, VoidsCode, Vote
<1>6. voted' \in [Election \X User -> Nat]
  BY <1>1, <1>5 DEF Commit, IInv, TypeOK
<1>7. roll' \in [Election -> Seq(Vote)]
  <2>1. CASE t.op = "castVote"
    BY <1>1, <1>5, <2>1 DEF Commit, IInv, TypeOK
  <2>2. CASE t.op = "createElection"
    <3>1. << >> \in Seq(Vote)
      OBVIOUS
    <3> QED
      BY <1>1, <2>2, <3>1 DEF Commit, IInv, TypeOK
  <2>3. CASE t.op # "castVote" /\ t.op # "createElection"
    BY <2>3 DEF Commit, IInv, TypeOK
  <2> QED
    BY <2>1, <2>2, <2>3
<1>8. DOMAIN base' = Election /\ \A e \in Election : IsResults(base'[e])
  <2>1. CASE t.op = "createElection"
    <3>1. IsElection(t.writes[ElectionKey(t.e)])
      BY <1>1, <2>1 DEF AsIfSimulatedNow, CreatesInfo, DeletesInfo, CreatesElection,
                        DeletesElection, CastsVote, GeneratesCode, VoidsCode, Put
    <3>2. IsResults(t.writes[ElectionKey(t.e)].results)
      BY <3>1 DEF IsElection
    <3> QED
      BY <1>1, <2>1, <3>2 DEF Commit, IInv, TypeOK
  <2>2. CASE t.op # "createElection"
    BY <2>2 DEF Commit, IInv, TypeOK
  <2> QED
    BY <2>1, <2>2
<1>9. limit' \in [Election -> Nat]
  <2>1. CASE /\ t.op = "createElectionInfo"
             /\ t.writes[InfoKey(t.e)].voters > limit[t.e]
    <3>1. PICK n \in VotersNumber :
             t.writes = Put(InfoKey(t.e), buildElectionInfo(Terms[t.e], n))
      BY <1>1, <2>1 DEF AsIfSimulatedNow, CreatesInfo, DeletesInfo, CreatesElection,
                        DeletesElection, CastsVote, GeneratesCode, VoidsCode
    <3>2. t.writes[InfoKey(t.e)].voters = n
      BY <3>1 DEF Put, buildElectionInfo
    <3>3. n \in Nat
      BY <1>1, <2>1, <3>2, RequestAssumption DEF IInv, TypeOK
    <3> QED
      BY <1>1, <2>1, <3>2, <3>3 DEF Commit, IInv, TypeOK
  <2>2. CASE ~ (/\ t.op = "createElectionInfo"
                /\ t.writes[InfoKey(t.e)].voters > limit[t.e])
    BY <2>2 DEF Commit, IInv, TypeOK
  <2> QED
    BY <2>1, <2>2
<1> QED
  BY <1>1, <1>2, <1>3, <1>4, <1>6, <1>7, <1>8, <1>9 DEF TypeOK

\* What is committed is what its term has.
LEMMA CommitKeepsChannelsMatchTerms ==
    ASSUME IInv, NEW t \in pending, Commit(t)
    PROVE  ChannelsMatchTerms'
<1>1. /\ TxOK(t) /\ AsIfSimulatedNow(t) /\ t.e \in Election
      /\ \A k \in t.found : ~t.stale
      /\ \A k \in Key : ledger'[k] = IF k \in DOMAIN t.writes THEN t.writes[k]
                                                             ELSE ledger[k]
  BY CommitEffect
<1> SUFFICES ASSUME NEW e \in Election
             PROVE  /\ ledger'[InfoKey(e)] # Missing =>
                         \E n \in VotersNumber :
                            ledger'[InfoKey(e)] = buildElectionInfo(Terms[e], n)
                    /\ ledger'[ElectionKey(e)] # Missing =>
                         DOMAIN ledger'[ElectionKey(e)].results =
                           Range(Terms[e].choices) \cup {Blank}
  BY DEF ChannelsMatchTerms, electionInfoExists, electionExists
<1> DEFINE ik == InfoKey(e)
           ek == ElectionKey(e)
<1>2. ik \in Key /\ ek \in Key
  BY DEF Key
<1>3. /\ ledger[ik] # Missing =>
           \E n \in VotersNumber : ledger[ik] = buildElectionInfo(Terms[e], n)
      /\ ledger[ek] # Missing =>
           DOMAIN ledger[ek].results = Range(Terms[e].choices) \cup {Blank}
  BY DEF IInv, ChannelsMatchTerms, electionInfoExists, electionExists
<1>4. CASE ik \notin DOMAIN t.writes /\ ek \notin DOMAIN t.writes
  BY <1>1, <1>2, <1>3, <1>4
<1>5. CASE CreatesInfo(t)
  BY <1>1, <1>2, <1>3, <1>5, KeysDiffer DEF CreatesInfo, Put
<1>6. CASE DeletesInfo(t)
  BY <1>1, <1>2, <1>3, <1>6, KeysDiffer DEF DeletesInfo, Put
<1>7. CASE CreatesElection(t)
  <2>1. PICK n \in VotersNumber, r \in InitialResults :
           t.writes = Put(ElectionKey(t.e),
                          buildElection(buildElectionInfo(Terms[t.e], n), r))
    BY <1>7 DEF CreatesElection
  <2>2. DOMAIN t.writes[ElectionKey(t.e)].results = Range(Terms[t.e].choices) \cup {Blank}
    BY <2>1 DEF Put, buildElection, buildElectionInfo
  <2> QED
    BY <1>1, <1>2, <1>3, <2>1, <2>2, KeysDiffer DEF Put
<1>8. CASE DeletesElection(t)
  BY <1>1, <1>2, <1>3, <1>8, KeysDiffer DEF DeletesElection, Put
<1>9. CASE CastsVote(t)
  <2>1. /\ ik \notin DOMAIN t.writes
        /\ ek \in DOMAIN t.writes <=> e = t.e
        /\ e = t.e => /\ ledger[ek] # Missing
                      /\ t.writes[ek] = recordBallot(ledger[ek], t.vote.choice)
    BY <1>1, <1>9, KeysDiffer DEF CastsVote, electionExists
  <2>2. e = t.e => DOMAIN recordBallot(ledger[ek], t.vote.choice).results =
                     DOMAIN ledger[ek].results
    BY DEF recordBallot
  <2> QED
    BY <1>1, <1>2, <1>3, <2>1, <2>2
<1>10. CASE GeneratesCode(t)
  BY <1>4, <1>10, KeysDiffer DEF GeneratesCode, Put
<1>11. CASE VoidsCode(t)
  BY <1>4, <1>11, KeysDiffer DEF VoidsCode, Put
<1> QED
  BY <1>1, <1>5, <1>6, <1>7, <1>8, <1>9, <1>10, <1>11 DEF AsIfSimulatedNow

\* A commit leaves a code as it is, issues a code where there was none, or
\* spends one that was not spent; a vote always does the last.
LEMMA CommitOnCodes ==
    ASSUME IInv, NEW t \in pending, Commit(t), NEW e \in Election, NEW u \in User
    PROVE  LET k == CodeKey(e, u)
               votes == t.op = "castVote" /\ t.e = e /\ t.vote.voter = u
           IN  \/ ~votes /\ ledger'[k] = ledger[k]
               \/ ~votes /\ ledger[k] = Missing
               \/ Unspent(ledger[k]) /\ ledger'[k] = consume(ledger[k])
<1> DEFINE k == CodeKey(e, u)
<1>1. /\ AsIfSimulatedNow(t) /\ t.e \in Election
      /\ \A x \in t.found : ~t.stale
      /\ \A x \in t.absent : ledger[x] = Missing
      /\ \A x \in Key : ledger'[x] = IF x \in DOMAIN t.writes THEN t.writes[x]
                                                             ELSE ledger[x]
  BY CommitEffect
<1>2. k \in Key
  BY DEF Key
<1>3. CASE k \notin DOMAIN t.writes /\ t.op # "castVote"
  BY <1>1, <1>2, <1>3
<1>4. CASE CreatesInfo(t)
  BY <1>3, <1>4, KeysDiffer DEF CreatesInfo, Put
<1>5. CASE DeletesInfo(t)
  BY <1>3, <1>5, KeysDiffer DEF DeletesInfo, Put
<1>6. CASE CreatesElection(t)
  BY <1>3, <1>6, KeysDiffer DEF CreatesElection, Put
<1>7. CASE DeletesElection(t)
  BY <1>3, <1>7, KeysDiffer DEF DeletesElection, Put
<1>8. CASE CastsVote(t)
  <2>1. CASE t.e = e /\ t.vote.voter = u
    BY <1>1, <1>2, <1>8, <2>1 DEF CastsVote
  <2>2. CASE ~(t.e = e /\ t.vote.voter = u)
    <3>1. k \notin DOMAIN t.writes
      BY <1>8, <2>2, KeysDiffer DEF CastsVote
    <3> QED
      BY <1>1, <1>2, <2>2, <3>1
  <2> QED
    BY <2>1, <2>2
<1>9. CASE GeneratesCode(t)
  <2>1. t.op # "castVote"
    BY <1>9 DEF GeneratesCode
  <2>2. k \in DOMAIN t.writes => ledger[k] = Missing
    BY <1>1, <1>9 DEF GeneratesCode, Put
  <2> QED
    BY <1>1, <1>2, <2>1, <2>2
<1>10. CASE VoidsCode(t)
  <2>1. t.op # "castVote"
    BY <1>10 DEF VoidsCode
  <2>2. k \in DOMAIN t.writes => Unspent(ledger[k]) /\ t.writes[k] = consume(ledger[k])
    BY <1>1, <1>10 DEF VoidsCode
  <2> QED
    BY <1>1, <1>2, <2>1, <2>2
<1> QED
  BY <1>1, <1>4, <1>5, <1>6, <1>7, <1>8, <1>9, <1>10 DEF AsIfSimulatedNow

\* Whoever a commit lists has spent the code.
LEMMA CommitKeepsVotersSpentTheirCode ==
    ASSUME IInv, NEW t \in pending, Commit(t)
    PROVE  VotersSpentTheirCode'
<1> SUFFICES ASSUME NEW e \in Election, NEW u \in User
             PROVE  \/ voted'[<<e, u>>] = 0
                    \/ /\ voted'[<<e, u>>] = 1
                       /\ ledger'[CodeKey(e, u)] # Missing
                       /\ ledger'[CodeKey(e, u)].consumed
  BY DEF VotersSpentTheirCode
<1> DEFINE k == CodeKey(e, u)
           votes == t.op = "castVote" /\ t.e = e /\ t.vote.voter = u
<1>1. \/ voted[<<e, u>>] = 0
      \/ voted[<<e, u>>] = 1 /\ ledger[k] # Missing /\ ledger[k].consumed
  BY DEF IInv, VotersSpentTheirCode
<1>2. \/ ~votes /\ ledger'[k] = ledger[k]
      \/ ~votes /\ ledger[k] = Missing
      \/ Unspent(ledger[k]) /\ ledger'[k] = consume(ledger[k])
  BY CommitOnCodes
<1>3. voted \in [Election \X User -> Nat] /\ <<e, u>> \in Election \X User
  BY DEF IInv, TypeOK
<1>4. CASE votes
  <2>1. Unspent(ledger[k]) /\ ledger'[k] = consume(ledger[k])
    BY <1>2, <1>4
  <2>2. voted[<<e, u>>] = 0
    BY <1>1, <2>1 DEF Unspent
  <2>3. voted'[<<e, u>>] = 1
    BY <1>3, <1>4, <2>2 DEF Commit
  <2>4. ledger'[k] \in StoredCode /\ ledger'[k].consumed
    BY <2>1, ConsumedType, LedgerTypes DEF IInv, Unspent
  <2> QED
    BY <2>3, <2>4, MissingAssumption
<1>5. CASE ~votes
  <2>1. voted'[<<e, u>>] = voted[<<e, u>>]
    <3>1. CASE t.op = "castVote"
      <4>1. <<t.e, t.vote.voter>> # <<e, u>>
        BY <1>5, <3>1
      <4> QED
        BY <1>3, <3>1, <4>1 DEF Commit
    <3>2. CASE t.op # "castVote"
      BY <3>2 DEF Commit
    <3> QED
      BY <3>1, <3>2
  <2>2. CASE voted[<<e, u>>] = 0
    BY <2>1, <2>2
  <2>3. CASE voted[<<e, u>>] = 1 /\ ledger[k] # Missing /\ ledger[k].consumed
    BY <1>2, <2>1, <2>3 DEF Unspent
  <2> QED
    BY <1>1, <2>2, <2>3
<1> QED
  BY <1>4, <1>5

----------------------------------------------------------------------------
(* The inductive invariant *)

\* At first the ledger is empty.
LEMMA InitIInv == Init => IInv
<1> SUFFICES ASSUME Init PROVE IInv
  OBVIOUS
<1>1. \A e \in Election, u \in User :
         InfoKey(e) \in Key /\ ElectionKey(e) \in Key /\ CodeKey(e, u) \in Key
  BY DEF Key
<1>2. TypeOK
  <2>1. << >> \in Seq(Vote) /\ IsResults(<< >>)
    BY DEF IsResults
  <2> QED
    BY <2>1 DEF Init, TypeOK, ValueOK
<1>3. PendingIsCurrent
  BY DEF Init, PendingIsCurrent
<1>4. ChannelsMatchTerms
  <2>1. \A e \in Election : InfoKey(e) \in Key /\ ElectionKey(e) \in Key
    BY DEF Key
  <2> QED
    BY <2>1 DEF Init, ChannelsMatchTerms, electionInfoExists, electionExists
<1>5. VotersSpentTheirCode
  BY DEF Init, VotersSpentTheirCode
<1> QED
  BY <1>2, <1>3, <1>4, <1>5 DEF IInv

\* A step that leaves the ledger and the history alone and adds no transaction.
LEMMA QuietStepKeepsIInv ==
    ASSUME IInv, UNCHANGED <<ledger, voted, roll, base, limit>>,
           pending' \subseteq pending, now' \in Nat
    PROVE  IInv'
<1>1. ASSUME NEW t \in pending' PROVE TxOK(t) /\ AsIfSimulatedNow(t)'
  <2>1. TxOK(t) /\ AsIfSimulatedNow(t)
    BY DEF IInv, TypeOK, PendingIsCurrent
  <2>2. t = [t EXCEPT !.stale = t.stale] /\ t.stale \in BOOLEAN
    BY <2>1 DEF TxOK
  <2> QED
    BY <2>1, <2>2, Frame
<1>2. TypeOK'
  BY <1>1 DEF IInv, TypeOK
<1>3. PendingIsCurrent'
  BY <1>1 DEF PendingIsCurrent
<1>4. ChannelsMatchTerms'
  BY DEF IInv, ChannelsMatchTerms, electionInfoExists, electionExists
<1>5. VotersSpentTheirCode'
  BY DEF IInv, VotersSpentTheirCode
<1> QED
  BY <1>2, <1>3, <1>4, <1>5 DEF IInv

\* A commit keeps each part of the invariant.
LEMMA CommitKeepsIInv ==
    ASSUME IInv, NEW t \in pending, Commit(t)
    PROVE  IInv'
<1>1. PendingIsCurrent'
  BY CommitEffect DEF PendingIsCurrent
<1> QED
  BY <1>1, CommitKeepsTypeOK, CommitKeepsChannelsMatchTerms,
     CommitKeepsVotersSpentTheirCode DEF IInv

\* Every step preserves the inductive invariant.
LEMMA NextKeepsIInv == IInv /\ [Next]_vars => IInv'
<1> SUFFICES ASSUME IInv, [Next]_vars PROVE IInv'
  OBVIOUS
<1>1. ASSUME NEW e \in Election, NEW n \in VotersNumber, createElectionInfo(e, n)
      PROVE IInv'
  BY <1>1, CreateElectionInfoKeepsIInv
<1>2. ASSUME NEW e \in Election, deleteElectionInfo(e) PROVE IInv'
  BY <1>2, DeleteElectionInfoKeepsIInv
<1>3. ASSUME NEW e \in Election, NEW r \in InitialResults, createElection(e, r)
      PROVE IInv'
  BY <1>3, CreateElectionKeepsIInv
<1>4. ASSUME NEW e \in Election, deleteElection(e) PROVE IInv'
  BY <1>4, DeleteElectionKeepsIInv
<1>5. ASSUME NEW e \in Election, NEW u \in User, NEW c \in Code, NEW choice \in Choice,
             castVote(e, u, c, choice)
      PROVE IInv'
  BY <1>5, CastVoteKeepsIInv
<1>6. ASSUME NEW e \in Election, NEW u \in User, NEW s \in Seed, generateCodeFor(e, u, s)
      PROVE IInv'
  BY <1>6, GenerateCodeKeepsIInv
<1>7. ASSUME NEW e \in Election, NEW u \in User, NEW c \in Code, invalidate(e, u, c)
      PROVE IInv'
  BY <1>7, InvalidateKeepsIInv
<1>8. ASSUME NEW t \in pending, Commit(t) PROVE IInv'
  BY <1>8, CommitKeepsIInv
<1>9. ASSUME NEW t \in pending, Abort(t) \/ Lose(t) PROVE IInv'
  <2>1. /\ UNCHANGED <<ledger, voted, roll, base, limit>>
        /\ pending' \subseteq pending /\ now' \in Nat
    BY <1>9 DEF Abort, Lose, IInv, TypeOK
  <2> QED
    BY <2>1, QuietStepKeepsIInv
<1>10. ASSUME Tick \/ UNCHANGED vars PROVE IInv'
  <2>1. /\ UNCHANGED <<ledger, voted, roll, base, limit>>
        /\ pending' \subseteq pending /\ now' \in Nat
    BY <1>10 DEF Tick, vars, IInv, TypeOK
  <2> QED
    BY <2>1, QuietStepKeepsIInv
<1> QED
  BY <1>1, <1>2, <1>3, <1>4, <1>5, <1>6, <1>7, <1>8, <1>9, <1>10 DEF Next

\* The inductive invariant holds in every reachable state.
THEOREM Invariance == Spec => []IInv
BY InitIInv, NextKeepsIInv, PTL DEF Spec

\* Type correctness: each key of the ledger holds a value of its own kind, and
\* so does every write that is pending (all contracts, VotesLedger.TypeOK).
THEOREM TypeCorrectness == Spec => []TypeOK
<1>1. IInv => TypeOK
  BY DEF IInv
<1> QED
  BY <1>1, Invariance, PTL

\* Overlapping transactions are serial: whatever passes the version check at its
\* commit does what it would do if it were simulated then (the endorsement and
\* commit of every SUBMIT transaction of the two chaincodes).
THEOREM Serializability == Spec => []PendingIsCurrent
<1>1. IInv => PendingIsCurrent
  BY DEF IInv
<1> QED
  BY <1>1, Invariance, PTL

\* No user has more than one vote committed for an election, however castVote
\* requests overlap and however often the election is deleted and created again
\* (ElectionContract.castVote with CodesManagerImpl.invalidate).
THEOREM AtMostOneVote == Spec => []OneVotePerUser
<1>1. IInv => OneVotePerUser
  BY DEF IInv, TypeOK, VotersSpentTheirCode, OneVotePerUser
<1> QED
  BY <1>1, Invariance, PTL

----------------------------------------------------------------------------
(* Codes *)

\* A step that commits nothing leaves the ledger and the history as they are.
LEMMA OnlyCommitsWrite ==
    ASSUME [Next]_vars
    PROVE  UNCHANGED <<ledger, voted, roll, base, limit>> \/ \E t \in pending : Commit(t)
<1>1. ASSUME NEW op, NEW e, NEW vote, NEW reads, NEW writes,
             Endorse(op, e, vote, reads, writes)
      PROVE  UNCHANGED <<ledger, voted, roll, base, limit>>
  BY <1>1 DEF Endorse
<1>2. ASSUME NEW e \in Election, NEW n \in VotersNumber, createElectionInfo(e, n)
      PROVE  UNCHANGED <<ledger, voted, roll, base, limit>>
  BY <1>1, <1>2 DEF createElectionInfo
<1>3. ASSUME NEW e \in Election, deleteElectionInfo(e) PROVE UNCHANGED <<ledger, voted, roll, base, limit>>
  BY <1>1, <1>3 DEF deleteElectionInfo
<1>4. ASSUME NEW e \in Election, NEW r \in InitialResults, createElection(e, r)
      PROVE  UNCHANGED <<ledger, voted, roll, base, limit>>
  BY <1>1, <1>4 DEF createElection
<1>5. ASSUME NEW e \in Election, deleteElection(e) PROVE UNCHANGED <<ledger, voted, roll, base, limit>>
  BY <1>1, <1>5 DEF deleteElection
<1>6. ASSUME NEW e \in Election, NEW u \in User, NEW c \in Code, NEW choice \in Choice,
             castVote(e, u, c, choice)
      PROVE  UNCHANGED <<ledger, voted, roll, base, limit>>
  BY <1>1, <1>6 DEF castVote
<1>7. ASSUME NEW e \in Election, NEW u \in User, NEW s \in Seed, generateCodeFor(e, u, s)
      PROVE  UNCHANGED <<ledger, voted, roll, base, limit>>
  BY <1>1, <1>7 DEF generateCodeFor
<1>8. ASSUME NEW e \in Election, NEW u \in User, NEW c \in Code, invalidate(e, u, c)
      PROVE  UNCHANGED <<ledger, voted, roll, base, limit>>
  BY <1>1, <1>8 DEF invalidate
<1>9. ASSUME NEW t \in pending, Abort(t) \/ Lose(t) PROVE UNCHANGED <<ledger, voted, roll, base, limit>>
  BY <1>9 DEF Abort, Lose
<1>10. ASSUME Tick \/ UNCHANGED vars PROVE UNCHANGED <<ledger, voted, roll, base, limit>>
  BY <1>10 DEF Tick, vars
<1> QED
  BY <1>2, <1>3, <1>4, <1>5, <1>6, <1>7, <1>8, <1>9, <1>10 DEF Next

\* No step replaces, removes or revives a one-time code (CodesManagerImpl).
THEOREM CodesNeverChangeHands == Spec => CodesAreFinal
<1> DEFINE Final(e, u) ==
             LET old == ledger[CodeKey(e, u)]
                 new == ledger'[CodeKey(e, u)]
             IN  old # Missing =>
                   /\ new # Missing
                   /\ new.code = old.code
                   /\ old.consumed => new.consumed
<1>1. ASSUME IInv, [Next]_vars PROVE \A e \in Election, u \in User : Final(e, u)
  <2> SUFFICES ASSUME NEW e \in Election, NEW u \in User, ledger[CodeKey(e, u)] # Missing
               PROVE  /\ ledger'[CodeKey(e, u)] # Missing
                      /\ ledger'[CodeKey(e, u)].code = ledger[CodeKey(e, u)].code
                      /\ ledger[CodeKey(e, u)].consumed => ledger'[CodeKey(e, u)].consumed
    OBVIOUS
  <2>1. CASE UNCHANGED ledger
    BY <2>1
  <2>2. CASE \E t \in pending : Commit(t)
    <3>1. \/ ledger'[CodeKey(e, u)] = ledger[CodeKey(e, u)]
          \/ ledger'[CodeKey(e, u)] = consume(ledger[CodeKey(e, u)])
      BY <1>1, <2>2, CommitOnCodes
    <3>2. ledger[CodeKey(e, u)] \in StoredCode
      BY <1>1, LedgerTypes DEF IInv
    <3> QED
      BY <3>1, <3>2, ConsumedType, MissingAssumption
  <2> QED
    BY <1>1, <2>1, <2>2, OnlyCommitsWrite
<1>2. IInv /\ [Next]_vars =>
        [\A e \in Election, u \in User :
           LET old == ledger[CodeKey(e, u)]
               new == ledger'[CodeKey(e, u)]
           IN  old # Missing =>
                 /\ new # Missing
                 /\ new.code = old.code
                 /\ old.consumed => new.consumed]_vars
  BY <1>1
<1> QED
  BY <1>2, Invariance, PTL DEF Spec, CodesAreFinal

----------------------------------------------------------------------------
(* Implementation of the atomic ballot box *)

\* A commit that writes no Election, or no code, leaves that part of the box
\* alone; one that writes a single one changes the box at that place only.
LEMMA CommitOnBox ==
    ASSUME IInv, NEW t \in pending, Commit(t)
    PROVE  /\ (\A f \in Election : ElectionKey(f) \notin DOMAIN t.writes) =>
                 BoxOf' = BoxOf
           /\ (\A f \in Election, v \in User : CodeKey(f, v) \notin DOMAIN t.writes) =>
                 CodeOf' = CodeOf
           /\ \A e \in Election :
                (\A f \in Election : ElectionKey(f) \in DOMAIN t.writes <=> f = e) =>
                   BoxOf' = [BoxOf EXCEPT ![e] = t.writes[ElectionKey(e)]]
           /\ \A e \in Election, u \in User :
                (\A f \in Election, v \in User :
                   CodeKey(f, v) \in DOMAIN t.writes <=> f = e /\ v = u) =>
                   CodeOf' = [CodeOf EXCEPT ![<<e, u>>] = t.writes[CodeKey(e, u)]]
<1> DEFINE W == DOMAIN t.writes
<1>0. \A k \in Key : ledger'[k] = IF k \in W THEN t.writes[k] ELSE ledger[k]
  BY CommitEffect
<1>1. /\ \A e \in Election : ElectionKey(e) \in Key
      /\ \A e \in Election, u \in User : CodeKey(e, u) \in Key
  BY DEF Key
<1> HIDE DEF W
<1>2. (\A f \in Election : ElectionKey(f) \notin W) => BoxOf' = BoxOf
  BY <1>0, <1>1 DEF BoxOf
<1>3. (\A f \in Election, v \in User : CodeKey(f, v) \notin W) => CodeOf' = CodeOf
  BY <1>0, <1>1 DEF CodeOf
<1>4. ASSUME NEW e \in Election, \A f \in Election : ElectionKey(f) \in W <=> f = e
      PROVE  BoxOf' = [BoxOf EXCEPT ![e] = t.writes[ElectionKey(e)]]
  <2>1. \A f \in Election : BoxOf'[f] = [BoxOf EXCEPT ![e] = t.writes[ElectionKey(e)]][f]
    BY <1>0, <1>1, <1>4 DEF BoxOf
  <2> QED
    BY <2>1 DEF BoxOf
<1>5. ASSUME NEW e \in Election, NEW u \in User,
             \A f \in Election, v \in User : CodeKey(f, v) \in W <=> f = e /\ v = u
      PROVE  CodeOf' = [CodeOf EXCEPT ![<<e, u>>] = t.writes[CodeKey(e, u)]]
  <2>1. ASSUME NEW fv \in Election \X User
        PROVE  CodeOf'[fv] = [CodeOf EXCEPT ![<<e, u>>] = t.writes[CodeKey(e, u)]][fv]
    <3>1. PICK f \in Election, v \in User : fv = <<f, v>>
      OBVIOUS
    <3>2. CodeOf[fv] = ledger[CodeKey(f, v)] /\ CodeOf'[fv] = ledger'[CodeKey(f, v)]
      BY <3>1 DEF CodeOf
    <3>3. CASE fv = <<e, u>>
      BY <1>0, <1>1, <1>5, <3>1, <3>2, <3>3 DEF CodeOf
    <3>4. CASE fv # <<e, u>>
      BY <1>0, <1>1, <1>5, <3>1, <3>2, <3>4 DEF CodeOf
    <3> QED
      BY <3>3, <3>4
  <2> QED
    BY <2>1 DEF CodeOf
<1> QED
  BY <1>2, <1>3, <1>4, <1>5 DEF W

\* An empty ledger is an empty ballot box.
LEMMA InitMapsToBoxInit == Init => Box!BoxInit
<1> SUFFICES ASSUME Init PROVE Box!BoxInit
  OBVIOUS
<1>1. /\ \A e \in Election : ElectionKey(e) \in Key
      /\ \A e \in Election, u \in User : CodeKey(e, u) \in Key
  BY DEF Key
<1>2. BoxOf = [e \in Election |-> Missing]
  BY <1>1 DEF Init, BoxOf
<1>3. CodeOf = [eu \in Election \X User |-> Missing]
  BY <1>1 DEF Init, CodeOf
<1> QED
  BY <1>2, <1>3 DEF Box!BoxInit

\* A code that can still be spent is one that the box can void or vote with.
LEMMA UnspentIsValid ==
    ASSUME TypeOK, NEW e \in Election, NEW u \in User, Unspent(ledger[CodeKey(e, u)])
    PROVE  /\ \E c \in Code : mayInvalidate(CodeOf[<<e, u>>], c)
           /\ CodeOf[<<e, u>>] = ledger[CodeKey(e, u)]
<1>1. CodeOf[<<e, u>>] = ledger[CodeKey(e, u)]
  BY DEF CodeOf
<1>2. ledger[CodeKey(e, u)] \in StoredCode
  BY LedgerTypes DEF Unspent
<1> QED
  BY <1>1, <1>2 DEF StoredCode, mayInvalidate, verifyCodeOwner, Unspent

\* A commit is one operation of the ballot box, or none.
LEMMA CommitMapsToBox ==
    ASSUME IInv, NEW t \in pending, Commit(t)
    PROVE  Box!BoxNext \/ UNCHANGED <<BoxOf, CodeOf>>
<1> DEFINE e == t.e
           ek == ElectionKey(t.e)
           W == DOMAIN t.writes
<1>1. /\ TxOK(t) /\ AsIfSimulatedNow(t) /\ e \in Election
      /\ \A k \in t.found : ~t.stale
      /\ \A k \in t.absent : ledger[k] = Missing
      /\ \A k \in Key : ledger'[k] = IF k \in W THEN t.writes[k] ELSE ledger[k]
  BY CommitEffect
<1>2. BoxOf[e] = ledger[ek]
  BY <1>1 DEF BoxOf
<1>3. CASE CreatesInfo(t) \/ DeletesInfo(t)
  <2>1. W = {InfoKey(e)}
    BY <1>3 DEF CreatesInfo, DeletesInfo, Put
  <2>2. /\ \A f \in Election : ElectionKey(f) \notin W
        /\ \A f \in Election, v \in User : CodeKey(f, v) \notin W
    BY <2>1, KeysDiffer
  <2> QED
    BY <2>2, CommitOnBox
<1>4. CASE CreatesElection(t)
  <2>1. PICK n \in VotersNumber, r \in InitialResults :
           t.writes = Put(ek, buildElection(buildElectionInfo(Terms[e], n), r))
    BY <1>4 DEF CreatesElection
  <2> DEFINE built == buildElection(buildElectionInfo(Terms[e], n), r)
  <2>2. W = {ek} /\ t.writes[ek] = built
    BY <2>1 DEF Put
  <2>3. BoxOf' = [BoxOf EXCEPT ![e] = built] /\ CodeOf' = CodeOf
    <3>1. /\ \A f \in Election : ElectionKey(f) \in W <=> f = e
          /\ \A f \in Election, v \in User : CodeKey(f, v) \notin W
      BY <2>2, KeysDiffer
    <3> QED
      BY <1>1, <2>2, <3>1, CommitOnBox
  <2>4. /\ built.results \in StartingResults
        /\ built = [results |-> built.results, ballots |-> << >>]
    BY <1>1 DEF StartingResults, buildElection
  <2>5. BoxOf[e] = Missing
    BY <1>1, <1>2, <1>4 DEF CreatesElection
  <2>6. Box!Open(e)
    BY <2>3, <2>4, <2>5 DEF Box!Open
  <2> QED
    BY <1>1, <2>6 DEF Box!BoxNext
<1>5. CASE DeletesElection(t)
  <2>1. W = {ek} /\ t.writes[ek] = Missing /\ BoxOf[e] # Missing
    BY <1>1, <1>2, <1>5 DEF DeletesElection, Put, electionExists
  <2>2. BoxOf' = [BoxOf EXCEPT ![e] = Missing] /\ CodeOf' = CodeOf
    <3>1. /\ \A f \in Election : ElectionKey(f) \in W <=> f = e
          /\ \A f \in Election, v \in User : CodeKey(f, v) \notin W
      BY <2>1, KeysDiffer
    <3> QED
      BY <1>1, <2>1, <3>1, CommitOnBox
  <2>3. Box!Remove(e)
    BY <2>1, <2>2 DEF Box!Remove
  <2> QED
    BY <1>1, <2>3 DEF Box!BoxNext
<1>6. CASE CastsVote(t)
  <2> DEFINE u == t.vote.voter
             c == t.vote.choice
             ck == CodeKey(e, u)
  <2>1. /\ u \in User /\ c \in Choice /\ W = {ek, ck}
        /\ ledger[ek] # Missing /\ Unspent(ledger[ck])
        /\ c \in DOMAIN ledger[ek].results
        /\ t.writes[ek] = recordBallot(ledger[ek], c)
        /\ t.writes[ck] = consume(ledger[ck])
    BY <1>1, <1>6 DEF CastsVote, Vote, electionExists
  <2>2. BoxOf' = [BoxOf EXCEPT ![e] = t.writes[ek]]
    <3>1. \A f \in Election : ElectionKey(f) \in W <=> f = e
      BY <2>1, KeysDiffer
    <3> QED
      BY <1>1, <3>1, CommitOnBox
  <2>3. CodeOf' = [CodeOf EXCEPT ![<<e, u>>] = t.writes[ck]]
    <3>1. \A f \in Election, v \in User : CodeKey(f, v) \in W <=> f = e /\ v = u
      BY <2>1, KeysDiffer
    <3> QED
      BY <1>1, <2>1, <3>1, CommitOnBox
  <2>4. /\ \E d \in Code : mayInvalidate(CodeOf[<<e, u>>], d)
        /\ CodeOf[<<e, u>>] = ledger[ck]
    BY <1>1, <2>1, UnspentIsValid DEF IInv
  <2>5. Box!Vote(e, u, c)
    <3>1. /\ BoxOf[e] = ledger[ek]
          /\ BoxOf' = [BoxOf EXCEPT ![e] = recordBallot(BoxOf[e], c)]
          /\ CodeOf' = [CodeOf EXCEPT ![<<e, u>>] = consume(CodeOf[<<e, u>>])]
      BY <1>2, <2>1, <2>2, <2>3, <2>4
    <3> QED
      BY <2>1, <2>4, <3>1
         DEF Box!Vote, Box!mayInvalidate, Box!verifyCodeOwner, Box!recordBallot,
             Box!consume, mayInvalidate, verifyCodeOwner, recordBallot, consume
  <2> QED
    BY <1>1, <2>1, <2>5 DEF Box!BoxNext
<1>7. CASE GeneratesCode(t)
  <2>1. PICK u \in User, s \in Seed :
           /\ t.absent = {CodeKey(e, u)}
           /\ t.writes = Put(CodeKey(e, u), newCode(generateCode(e, u, s)))
    BY <1>7 DEF GeneratesCode
  <2> DEFINE ck == CodeKey(e, u)
             d == generateCode(e, u, s)
  <2>2. W = {ck} /\ t.writes[ck] = newCode(d) /\ ledger[ck] = Missing
    BY <1>1, <2>1 DEF Put
  <2>3. BoxOf' = BoxOf
    <3>1. \A f \in Election : ElectionKey(f) \notin W
      BY <2>2, KeysDiffer
    <3> QED
      BY <3>1, CommitOnBox
  <2>4. CodeOf' = [CodeOf EXCEPT ![<<e, u>>] = newCode(d)]
    <3>1. \A f \in Election, v \in User : CodeKey(f, v) \in W <=> f = e /\ v = u
      BY <2>2, KeysDiffer
    <3> QED
      BY <1>1, <2>2, <3>1, CommitOnBox
  <2>5. d \in Code /\ BoxOf[e] # Missing /\ mayGenerate(CodeOf[<<e, u>>])
    BY <1>1, <1>2, <1>7, <2>2 DEF Code, GeneratesCode, electionExists, CodeOf, mayGenerate
  <2>6. Box!Issue(e, u)
    BY <2>3, <2>4, <2>5 DEF Box!Issue, Box!mayGenerate, Box!newCode, mayGenerate, newCode
  <2> QED
    BY <1>1, <2>6 DEF Box!BoxNext
<1>8. CASE VoidsCode(t)
  <2>1. PICK u \in User :
           /\ t.found = {CodeKey(e, u)} /\ W = {CodeKey(e, u)}
           /\ Unspent(ledger[CodeKey(e, u)])
           /\ t.writes[CodeKey(e, u)] = consume(ledger[CodeKey(e, u)])
    BY <1>1, <1>8 DEF VoidsCode
  <2> DEFINE ck == CodeKey(e, u)
  <2>2. BoxOf' = BoxOf
    <3>1. \A f \in Election : ElectionKey(f) \notin W
      BY <2>1, KeysDiffer
    <3> QED
      BY <3>1, CommitOnBox
  <2>3. CodeOf' = [CodeOf EXCEPT ![<<e, u>>] = t.writes[ck]]
    <3>1. \A f \in Election, v \in User : CodeKey(f, v) \in W <=> f = e /\ v = u
      BY <2>1, KeysDiffer
    <3> QED
      BY <1>1, <2>1, <3>1, CommitOnBox
  <2>4. /\ \E d \in Code : mayInvalidate(CodeOf[<<e, u>>], d)
        /\ CodeOf[<<e, u>>] = ledger[ck]
    BY <1>1, <2>1, UnspentIsValid DEF IInv
  <2>5. Box!Void(e, u)
    <3>1. CodeOf' = [CodeOf EXCEPT ![<<e, u>>] = consume(CodeOf[<<e, u>>])]
      BY <2>1, <2>3, <2>4
    <3> QED
      BY <2>2, <2>4, <3>1
         DEF Box!Void, Box!mayInvalidate, Box!verifyCodeOwner, Box!consume,
             mayInvalidate, verifyCodeOwner, consume
  <2> QED
    BY <1>1, <2>5 DEF Box!BoxNext
<1> QED
  BY <1>1, <1>3, <1>4, <1>5, <1>6, <1>7, <1>8 DEF AsIfSimulatedNow

\* Every behaviour of the ledger is one of the atomic ballot box, on the
\* committed state of ch2: endorsing, ordering and aborting are not observable
\* (ElectionContract and CodesManagerContract under Fabric's version check).
THEOREM Implementation == Spec => ImplementsBallotBox
<1>1. IInv /\ [Next]_vars => [Box!BoxNext]_<<BoxOf, CodeOf>>
  <2> SUFFICES ASSUME IInv, [Next]_vars
               PROVE  Box!BoxNext \/ UNCHANGED <<BoxOf, CodeOf>>
    OBVIOUS
  <2>1. CASE UNCHANGED ledger
    BY <2>1 DEF BoxOf, CodeOf
  <2>2. CASE \E t \in pending : Commit(t)
    BY <2>2, CommitMapsToBox
  <2> QED
    BY <2>1, <2>2, OnlyCommitsWrite
<1> QED
  BY <1>1, InitMapsToBoxInit, Invariance, PTL
     DEF Spec, ImplementsBallotBox, Box!BoxSpec, Box!boxVars

----------------------------------------------------------------------------
(* Counting votes *)

\* A finite number of choices with natural counts has finitely many votes.
LEMMA VotesAreFinite ==
    ASSUME NEW D, IsFiniteSet(D), NEW r \in [D -> Nat]
    PROVE  IsFiniteSet(Votes(r)) /\ Total(r) \in Nat
<1> DEFINE Of(c) == {c} \X (1..r[c])
           f == [c \in D |-> Of(c)]
           S == {Of(c) : c \in D}
<1>1. \A c \in D : IsFiniteSet(Of(c))
  <2> TAKE c \in D
  <2>1. r[c] \in Nat
    OBVIOUS
  <2>2. IsFiniteSet(1..r[c])
    BY <2>1, FS_Interval
  <2>3. IsFiniteSet({c})
    BY FS_Singleton
  <2> QED
    BY <2>2, <2>3, FS_Product
<1>2. IsFiniteSet(S)
  <2>1. f \in Surjection(D, S)
    BY DEF Surjection
  <2> QED
    BY <2>1, FS_Surjection
<1>3. IsFiniteSet(UNION S)
  BY <1>1, <1>2, FS_UNION
<1>4. Votes(r) = UNION S
  BY DEF Votes
<1> QED
  BY <1>3, <1>4, FS_CardinalityType DEF Total

\* One more vote for a choice adds one to the total.
LEMMA TotalOfOneMore ==
    ASSUME NEW D, IsFiniteSet(D), NEW r \in [D -> Nat], NEW c \in D
    PROVE  Total([r EXCEPT ![c] = @ + 1]) = Total(r) + 1
<1> DEFINE q == [r EXCEPT ![c] = @ + 1]
           x == <<c, r[c] + 1>>
<1>1. Votes(q) = Votes(r) \cup {x}
  <2>1. \A d \in D : {d} \X (1..q[d]) = IF d = c THEN ({c} \X (1..r[c])) \cup {x}
                                                 ELSE {d} \X (1..r[d])
    <3> TAKE d \in D
    <3>1. CASE d = c
      BY <3>1
    <3>2. CASE d # c
      BY <3>2
    <3> QED
      BY <3>1, <3>2
  <2>2. DOMAIN q = D /\ DOMAIN r = D
    OBVIOUS
  <2> HIDE DEF q, x
  <2> QED
    BY <2>1, <2>2 DEF Votes
<1>2. x \notin Votes(r)
  BY DEF Votes
<1>3. IsFiniteSet(Votes(r))
  BY VotesAreFinite
<1> QED
  BY <1>1, <1>2, <1>3, FS_AddElement DEF Total

\* The choices of an election are finitely many.
LEMMA FinitelyManyChoices ==
    ASSUME NEW e \in Election
    PROVE  IsFiniteSet(Range(Terms[e].choices) \cup {Blank})
<1> DEFINE s == Terms[e].choices
<1>1. s \in Seq(Choice) /\ DOMAIN s = 1..Len(s) /\ Len(s) \in Nat
  BY TermsAssumption
<1>2. s \in Surjection(1..Len(s), Range(s))
  BY <1>1 DEF Surjection, Range
<1>3. IsFiniteSet(1..Len(s))
  BY <1>1, FS_Interval
<1> QED
  BY <1>2, <1>3, FS_Surjection, FS_AddElement

\* Choices that nobody asked to start from add no vote (ElectionFactory).
LEMMA TotalOfBuilt ==
    ASSUME NEW info, NEW r, DOMAIN r \subseteq info.choices
    PROVE  Total(buildElection(info, r).results) = Total(r)
<1> DEFINE b == buildElection(info, r).results
<1>1. DOMAIN b = info.choices /\ \A c \in info.choices : b[c] = IF c \in DOMAIN r THEN r[c] ELSE 0
  BY DEF buildElection
<1>2. \A c \in DOMAIN b : c \notin DOMAIN r => {c} \X (1..b[c]) = {}
  BY <1>1
<1>3. Votes(b) = Votes(r)
  <2> HIDE DEF b
  <2> QED
    BY <1>1, <1>2 DEF Votes
<1> QED
  BY <1>3 DEF Total

----------------------------------------------------------------------------
(* Commits and the history *)

\* What a commit does to an Election and to its history: nothing but, perhaps,
\* to delete it; or one vote; or to create it.
LEMMA CommitOnElection ==
    ASSUME IInv, NEW t \in pending, Commit(t), NEW e \in Election
    PROVE  LET ek == ElectionKey(e)
           IN  \/ /\ ~(WritesElection(t) /\ t.e = e)
                  /\ ledger'[ek] \in {ledger[ek], Missing}
                  /\ roll'[e] = roll[e] /\ base'[e] = base[e]
               \/ /\ t.op = "castVote" /\ t.e = e /\ t.vote \in Vote
                  /\ ledger[ek] # Missing /\ IsElection(ledger[ek])
                  /\ t.vote.choice \in DOMAIN ledger[ek].results
                  /\ ledger'[ek] = recordBallot(ledger[ek], t.vote.choice)
                  /\ ledger'[ek] = t.writes[ek]
                  /\ roll'[e] = Append(roll[e], t.vote) /\ base'[e] = base[e]
               \/ /\ t.op = "createElection" /\ t.e = e
                  /\ ledger'[ek] = t.writes[ek] /\ IsElection(ledger'[ek])
                  /\ ledger'[ek].ballots = << >>
                  /\ roll'[e] = << >> /\ base'[e] = ledger'[ek].results
<1> DEFINE ek == ElectionKey(e)
<1>1. /\ TxOK(t) /\ AsIfSimulatedNow(t) /\ t.e \in Election
      /\ \A k \in t.found : ~t.stale
      /\ \A k \in Key : ledger'[k] = IF k \in DOMAIN t.writes THEN t.writes[k]
                                                             ELSE ledger[k]
  BY CommitEffect
<1>2. ek \in Key
  BY DEF Key
<1>3. roll \in [Election -> Seq(Vote)] /\ DOMAIN base = Election
  BY DEF IInv, TypeOK
<1>4. ASSUME t.op \notin {"createElection", "castVote"},
             ek \in DOMAIN t.writes => t.writes[ek] = Missing
      PROVE  /\ ~(WritesElection(t) /\ t.e = e)
             /\ ledger'[ek] \in {ledger[ek], Missing}
             /\ roll'[e] = roll[e] /\ base'[e] = base[e]
  BY <1>1, <1>2, <1>4 DEF Commit, WritesElection
<1>5. CASE CreatesInfo(t)
  BY <1>4, <1>5, KeysDiffer DEF CreatesInfo, Put
<1>6. CASE DeletesInfo(t)
  BY <1>4, <1>6, KeysDiffer DEF DeletesInfo, Put
<1>7. CASE CreatesElection(t)
  <2>1. PICK n \in VotersNumber, r \in InitialResults :
          LET built == buildElection(buildElectionInfo(Terms[t.e], n), r)
          IN  IsElection(built) /\ t.writes = Put(ElectionKey(t.e), built)
    BY <1>7 DEF CreatesElection
  <2> DEFINE built == buildElection(buildElectionInfo(Terms[t.e], n), r)
  <2>2. IsElection(built) /\ built.ballots = << >>
    BY <2>1 DEF buildElection
  <2>3. DOMAIN t.writes = {ElectionKey(t.e)} /\ t.writes[ElectionKey(t.e)] = built
    BY <2>1 DEF Put
  <2>4. t.op = "createElection" /\ t.op # "castVote"
    BY <1>7 DEF CreatesElection
  <2>5. CASE t.e = e
    <3>1. roll'[e] = << >> /\ base'[e] = built.results
      BY <1>3, <2>3, <2>4, <2>5 DEF Commit
    <3> QED
      BY <1>1, <1>2, <2>2, <2>3, <2>4, <2>5, <3>1
  <2>6. CASE t.e # e
    <3>1. roll'[e] = roll[e] /\ base'[e] = base[e]
      BY <1>3, <2>4, <2>6 DEF Commit
    <3>2. ek \notin DOMAIN t.writes
      BY <2>3, <2>6, KeysDiffer
    <3> QED
      BY <1>1, <1>2, <2>6, <3>1, <3>2
  <2> QED
    BY <2>5, <2>6
<1>8. CASE DeletesElection(t)
  BY <1>4, <1>8, KeysDiffer DEF DeletesElection, Put
<1>9. CASE CastsVote(t)
  <2>1. /\ t.op = "castVote" /\ t.op # "createElection" /\ t.vote \in Vote
        /\ DOMAIN t.writes = {ElectionKey(t.e), CodeKey(t.e, t.vote.voter)}
        /\ ledger[ElectionKey(t.e)] # Missing
        /\ t.vote.choice \in DOMAIN ledger[ElectionKey(t.e)].results
        /\ t.writes[ElectionKey(t.e)] = recordBallot(ledger[ElectionKey(t.e)], t.vote.choice)
    BY <1>1, <1>9 DEF CastsVote, electionExists
  <2>2. base'[e] = base[e]
    BY <2>1 DEF Commit
  <2>3. CASE t.e = e
    <3>1. roll'[e] = Append(roll[e], t.vote)
      BY <1>3, <2>1, <2>3 DEF Commit
    <3>2. IsElection(ledger[ek])
      BY <2>1, <2>3, LedgerTypes DEF IInv
    <3> QED
      BY <1>1, <1>2, <2>1, <2>2, <2>3, <3>1, <3>2
  <2>4. CASE t.e # e
    <3>1. roll'[e] = roll[e]
      BY <1>3, <2>1, <2>4 DEF Commit
    <3>2. ek \notin DOMAIN t.writes
      BY <2>1, <2>4, KeysDiffer
    <3> QED
      BY <1>1, <1>2, <2>2, <2>4, <3>1, <3>2
  <2> QED
    BY <2>3, <2>4
<1>10. CASE GeneratesCode(t)
  BY <1>4, <1>10, KeysDiffer DEF GeneratesCode, Put
<1>11. CASE VoidsCode(t)
  BY <1>4, <1>11, KeysDiffer DEF VoidsCode, Put
<1> QED
  BY <1>1, <1>5, <1>6, <1>7, <1>8, <1>9, <1>10, <1>11 DEF AsIfSimulatedNow

----------------------------------------------------------------------------
(* The votes, the ballots and the results *)

\* A commit lists the votes that it counts.
LEMMA CommitKeepsEveryVoteIsListed ==
    ASSUME IInv, EveryVoteIsListed, NEW t \in pending, Commit(t)
    PROVE  EveryVoteIsListed'
<1> SUFFICES ASSUME NEW e \in Election, ledger'[ElectionKey(e)] # Missing
             PROVE  ledger'[ElectionKey(e)].ballots =
                      [i \in DOMAIN roll'[e] |-> roll'[e][i].choice]
  BY DEF EveryVoteIsListed, electionExists
<1> DEFINE ek == ElectionKey(e)
<1>1. ledger[ek] # Missing =>
        ledger[ek].ballots = [i \in DOMAIN roll[e] |-> roll[e][i].choice]
  BY DEF EveryVoteIsListed, electionExists
<1>2. roll[e] \in Seq(Vote)
  BY DEF IInv, TypeOK
<1>3. CASE ledger'[ek] \in {ledger[ek], Missing} /\ roll'[e] = roll[e]
  BY <1>1, <1>3
<1>4. CASE /\ t.vote \in Vote /\ ledger[ek] # Missing /\ IsElection(ledger[ek])
           /\ ledger'[ek] = recordBallot(ledger[ek], t.vote.choice)
           /\ roll'[e] = Append(roll[e], t.vote)
  <2> DEFINE n == Len(roll[e])
             b == ledger[ek].ballots
  <2>1. /\ n \in Nat /\ DOMAIN roll[e] = 1..n /\ DOMAIN roll'[e] = 1..(n + 1)
        /\ roll'[e][n + 1] = t.vote /\ \A i \in 1..n : roll'[e][i] = roll[e][i]
    BY <1>2, <1>4
  <2>2. b \in Seq(Choice) /\ t.vote.choice \in Choice
    BY <1>4 DEF IsElection, Vote
  <2>3. DOMAIN b = 1..n /\ Len(b) = n /\ \A i \in 1..n : b[i] = roll[e][i].choice
    BY <1>1, <1>4, <2>1, <2>2
  <2>4. ledger'[ek].ballots = Append(b, t.vote.choice)
    BY <1>4 DEF recordBallot
  <2> DEFINE c == t.vote.choice
  <2>5. /\ DOMAIN Append(b, c) = 1..(n + 1) /\ Append(b, c) \in Seq(Choice)
        /\ Append(b, c)[n + 1] = c /\ \A i \in 1..n : Append(b, c)[i] = b[i]
    BY <2>1, <2>2, <2>3
  <2> HIDE DEF b, c, n
  <2>6. ASSUME NEW i \in 1..(n + 1) PROVE Append(b, c)[i] = roll'[e][i].choice
    <3>1. CASE i = n + 1
      BY <2>1, <2>5, <3>1 DEF c
    <3>2. CASE i \in 1..n
      <4>1. Append(b, c)[i] = b[i] /\ roll'[e][i] = roll[e][i] /\ b[i] = roll[e][i].choice
        BY <2>1, <2>3, <2>5, <3>2
      <4> QED
        BY <4>1
    <3>3. n \in Nat
      BY <2>1
    <3>4. i = n + 1 \/ i \in 1..n
      BY <3>3
    <3> QED
      BY <3>1, <3>2, <3>4
  <2> QED
    BY <2>1, <2>4, <2>5, <2>6 DEF b, c
<1>5. CASE ledger'[ek].ballots = << >> /\ roll'[e] = << >>
  BY <1>5
<1> QED
  BY <1>3, <1>4, <1>5, CommitOnElection

\* The ballots for a choice, counted after one more ballot.
LEMMA BallotsOfOneMore ==
    ASSUME NEW b \in Seq(Choice), NEW c \in Choice, NEW d
    PROVE  /\ BallotsFor(b, d) \in Nat
           /\ BallotsFor(Append(b, c), d) = BallotsFor(b, d) + (IF d = c THEN 1 ELSE 0)
<1> DEFINE n == Len(b)
           q == Append(b, c)
           B == {i \in DOMAIN b : b[i] = d}
           Q == {i \in DOMAIN q : q[i] = d}
<1>1. /\ n \in Nat /\ DOMAIN b = 1..n /\ DOMAIN q = 1..(n + 1)
      /\ q[n + 1] = c /\ \A i \in 1..n : q[i] = b[i]
  OBVIOUS
<1>2. IsFiniteSet(B)
  <2>1. B \in SUBSET (1..n)
    BY <1>1
  <2>2. IsFiniteSet(1..n)
    BY <1>1, FS_Interval
  <2> QED
    BY <2>1, <2>2, FS_Subset
<1>3. n + 1 \notin B
  BY <1>1
<1> HIDE DEF q, n
<1>4. Q = IF d = c THEN B \cup {n + 1} ELSE B
  BY <1>1
<1> HIDE DEF B, Q
<1>5. Cardinality(B) \in Nat
  BY <1>2, FS_CardinalityType
<1>6. Cardinality(B \cup {n + 1}) = Cardinality(B) + 1
  BY <1>2, <1>3, FS_AddElement
<1>7. Cardinality(Q) = Cardinality(B) + (IF d = c THEN 1 ELSE 0)
  BY <1>4, <1>5, <1>6
<1> QED
  BY <1>5, <1>7 DEF B, Q, q, BallotsFor

\* A commit counts the vote that it lists.
LEMMA CommitKeepsResultsMatchBallots ==
    ASSUME IInv, ResultsMatchBallots, NEW t \in pending, Commit(t)
    PROVE  ResultsMatchBallots'
<1> DEFINE Matches(x, b) ==
             /\ DOMAIN x.results = DOMAIN b
             /\ \A c \in DOMAIN b :
                  x.results[c] = b[c] + BallotsFor(x.ballots, c)
<1> SUFFICES ASSUME NEW e \in Election, ledger'[ElectionKey(e)] # Missing
             PROVE  Matches(ledger'[ElectionKey(e)], base'[e])
  BY DEF ResultsMatchBallots, electionExists
<1> DEFINE ek == ElectionKey(e)
<1>1. ledger[ek] # Missing => Matches(ledger[ek], base[e])
  BY DEF ResultsMatchBallots, electionExists
<1>2. CASE ledger'[ek] \in {ledger[ek], Missing} /\ base'[e] = base[e]
  BY <1>1, <1>2
<1>3. CASE /\ t.vote \in Vote /\ ledger[ek] # Missing /\ IsElection(ledger[ek])
           /\ t.vote.choice \in DOMAIN ledger[ek].results
           /\ ledger'[ek] = recordBallot(ledger[ek], t.vote.choice)
           /\ base'[e] = base[e]
  <2> DEFINE x == ledger[ek]
             v == t.vote.choice
  <2>1. /\ x.ballots \in Seq(Choice) /\ x.results \in [DOMAIN x.results -> Nat]
        /\ v \in Choice /\ v \in DOMAIN x.results
    BY <1>3 DEF IsElection, IsResults, Vote
  <2>2. /\ ledger'[ek].results = [x.results EXCEPT ![v] = @ + 1]
        /\ ledger'[ek].ballots = Append(x.ballots, v)
    BY <1>3 DEF recordBallot
  <2>3. DOMAIN ledger'[ek].results = DOMAIN base'[e] /\ DOMAIN base[e] = DOMAIN x.results
    BY <1>1, <1>3, <2>1, <2>2
  <2>4. ASSUME NEW c \in DOMAIN base'[e]
        PROVE  ledger'[ek].results[c] =
                 base'[e][c] + BallotsFor(ledger'[ek].ballots, c)
    <3>1. /\ BallotsFor(x.ballots, c) \in Nat
          /\ BallotsFor(ledger'[ek].ballots, c) =
               BallotsFor(x.ballots, c) + (IF c = v THEN 1 ELSE 0)
      BY <2>1, <2>2, BallotsOfOneMore
    <3>2. x.results[c] = base[e][c] + BallotsFor(x.ballots, c) /\ x.results[c] \in Nat
      BY <1>1, <1>3, <2>1, <2>3
    <3>3. ledger'[ek].results[c] = x.results[c] + (IF c = v THEN 1 ELSE 0)
      BY <1>3, <2>1, <2>2, <2>3, <3>2
    <3>4. base[e][c] \in Nat
      BY <1>3, <2>4 DEF IInv, TypeOK, IsResults
    <3> QED
      BY <1>3, <3>1, <3>2, <3>3, <3>4
  <2> QED
    BY <2>3, <2>4
<1>4. CASE /\ IsElection(ledger'[ek]) /\ ledger'[ek].ballots = << >>
           /\ base'[e] = ledger'[ek].results
  <2>1. \A c : {i \in DOMAIN << >> : << >>[i] = c} = {}
    OBVIOUS
  <2>2. \A c : BallotsFor(<< >>, c) = 0
    BY <2>1, FS_EmptySet DEF BallotsFor
  <2>3. \A c \in DOMAIN base'[e] : base'[e][c] \in Nat
    BY <1>4 DEF IsElection, IsResults
  <2> QED
    BY <1>4, <2>2, <2>3
<1> QED
  BY <1>2, <1>3, <1>4, CommitOnElection

----------------------------------------------------------------------------
(* The roll and the codes *)

\* A commit lists those whose code it consumes.
LEMMA CommitKeepsListedVotersSpentTheirCode ==
    ASSUME IInv, ListedVotersSpentTheirCode, NEW t \in pending, Commit(t)
    PROVE  ListedVotersSpentTheirCode'
<1> DEFINE Spent(x) == x # Missing /\ x.consumed
<1> SUFFICES ASSUME NEW e \in Election, NEW i \in DOMAIN roll'[e]
             PROVE  Spent(ledger'[CodeKey(e, roll'[e][i].voter)])
  BY DEF ListedVotersSpentTheirCode
<1>1. roll[e] \in Seq(Vote)
  BY DEF IInv, TypeOK
\* A code that was spent still is.
<1>2. ASSUME NEW u \in User, Spent(ledger[CodeKey(e, u)])
      PROVE  Spent(ledger'[CodeKey(e, u)])
  BY <1>2, CommitOnCodes DEF Unspent
<1>3. \A j \in DOMAIN roll[e] : roll[e][j].voter \in User
                                  /\ Spent(ledger[CodeKey(e, roll[e][j].voter)])
  <2>1. \A j \in DOMAIN roll[e] : roll[e][j] \in Vote
    BY <1>1
  <2> QED
    BY <2>1 DEF ListedVotersSpentTheirCode, Vote
<1>4. CASE roll'[e] = roll[e]
  BY <1>2, <1>3, <1>4
<1>5. CASE roll'[e] = << >>
  BY <1>5
<1>6. CASE t.op = "castVote" /\ t.e = e /\ t.vote \in Vote /\ roll'[e] = Append(roll[e], t.vote)
  <2>1. CASE i \in DOMAIN roll[e]
    <3>1. roll'[e][i] = roll[e][i]
      BY <1>1, <1>6, <2>1
    <3> QED
      BY <1>2, <1>3, <2>1, <3>1
  <2>2. CASE i \notin DOMAIN roll[e]
    <3> DEFINE u == t.vote.voter
               ck == CodeKey(e, u)
    <3>1. roll'[e][i] = t.vote /\ u \in User
      BY <1>1, <1>6, <2>2 DEF Vote
    <3>2. Unspent(ledger[ck]) /\ ledger'[ck] = consume(ledger[ck])
      BY <1>6, <3>1, CommitOnCodes
    <3>3. ledger[ck] \in StoredCode
      BY <3>1, <3>2, LedgerTypes DEF IInv, Unspent
    <3> QED
      BY <3>1, <3>2, <3>3, ConsumedType, MissingAssumption
  <2> QED
    BY <2>1, <2>2
<1> QED
  BY <1>4, <1>5, <1>6, CommitOnElection

----------------------------------------------------------------------------
(* The limit *)

\* The limit of an election never falls.
LEMMA LimitGrows ==
    ASSUME IInv, NEW t \in pending, Commit(t)
    PROVE  \A e \in Election : limit'[e] \in Nat /\ limit'[e] >= limit[e]
<1>1. limit \in [Election -> Nat] /\ limit' \in [Election -> Nat]
  BY CommitKeepsTypeOK DEF IInv, TypeOK
<1> QED
  BY <1>1 DEF Commit

\* A commit leaves an ElectionInfo whose limit is one of those there were.
LEMMA CommitKeepsInfosWithinLimit ==
    ASSUME IInv, InfosWithinLimit, NEW t \in pending, Commit(t)
    PROVE  InfosWithinLimit'
<1> SUFFICES ASSUME NEW e \in Election, ledger'[InfoKey(e)] # Missing
             PROVE  ledger'[InfoKey(e)].voters <= limit'[e]
  BY DEF InfosWithinLimit, electionInfoExists
<1> DEFINE ik == InfoKey(e)
<1>1. /\ TxOK(t) /\ AsIfSimulatedNow(t) /\ t.e \in Election /\ ik \in Key
      /\ \A k \in Key : ledger'[k] = IF k \in DOMAIN t.writes THEN t.writes[k]
                                                             ELSE ledger[k]
  BY CommitEffect DEF Key
<1>2. CASE ik \notin DOMAIN t.writes
  <2>1. ledger[ik] # Missing /\ ledger'[ik] = ledger[ik]
    BY <1>1, <1>2
  <2>2. ledger[ik].voters \in Nat /\ ledger[ik].voters <= limit[e] /\ limit[e] \in Nat
    BY <2>1, LedgerTypes DEF InfosWithinLimit, electionInfoExists, IInv, TypeOK, Info
  <2> QED
    BY <2>1, <2>2, LimitGrows
<1>3. CASE CreatesInfo(t) /\ t.e = e
  <2>1. /\ t.op = "createElectionInfo" /\ DOMAIN t.writes = {ik}
        /\ ledger'[ik] = t.writes[ik]
    BY <1>1, <1>3 DEF CreatesInfo, Put
  <2>2. t.writes[ik].voters \in Nat
    <3>1. t.writes[ik] \in Info
      BY <1>1, <2>1, KindOfKey DEF TxOK
    <3> QED
      BY <3>1 DEF Info
  <2>3. limit \in [Election -> Nat]
    BY DEF IInv, TypeOK
  <2> QED
    BY <1>3, <2>1, <2>2, <2>3 DEF Commit
<1>4. CASE DeletesInfo(t) /\ t.e = e
  BY <1>1, <1>4 DEF DeletesInfo, Put
<1>5. ik \in DOMAIN t.writes => (CreatesInfo(t) \/ DeletesInfo(t)) /\ t.e = e
  <2>1. CreatesInfo(t) \/ DeletesInfo(t) => DOMAIN t.writes = {InfoKey(t.e)}
    BY DEF CreatesInfo, DeletesInfo, Put
  <2>2. CreatesElection(t) \/ DeletesElection(t) => ik \notin DOMAIN t.writes
    <3>1. CreatesElection(t) \/ DeletesElection(t) => DOMAIN t.writes = {ElectionKey(t.e)}
      BY DEF CreatesElection, DeletesElection, Put
    <3> QED
      BY <3>1, KeysDiffer
  <2>3. CastsVote(t) => ik \notin DOMAIN t.writes
    BY KeysDiffer DEF CastsVote
  <2>4. GeneratesCode(t) => ik \notin DOMAIN t.writes
    BY KeysDiffer DEF GeneratesCode, Put
  <2>5. VoidsCode(t) => ik \notin DOMAIN t.writes
    BY KeysDiffer DEF VoidsCode
  <2> QED
    BY <1>1, <2>1, <2>2, <2>3, <2>4, <2>5, KeysDiffer DEF AsIfSimulatedNow
<1> QED
  BY <1>2, <1>3, <1>4, <1>5

\* The Elections of the ledger, and those about to be written, have counts
\* whose total is a number.
LEMMA TotalIsNat ==
    ASSUME IInv, NEW e \in Election, ledger[ElectionKey(e)] # Missing
    PROVE  /\ IsFiniteSet(DOMAIN ledger[ElectionKey(e)].results)
           /\ Total(ledger[ElectionKey(e)].results) \in Nat
<1> DEFINE r == ledger[ElectionKey(e)].results
<1>1. IsFiniteSet(DOMAIN r)
  BY FinitelyManyChoices DEF IInv, ChannelsMatchTerms, electionExists
<1>2. r \in [DOMAIN r -> Nat]
  BY LedgerTypes DEF IInv, IsElection, IsResults
<1> HIDE DEF r
<1>3. Total(r) \in Nat
  BY <1>1, <1>2, VotesAreFinite
<1> QED
  BY <1>1, <1>3 DEF r

\* The votes of an election that is about to be committed are a number.
LEMMA PendingTotalIsNat ==
    ASSUME IInv, NEW t \in pending, WritesElection(t), ~t.stale
    PROVE  Total(t.writes[ElectionKey(t.e)].results) \in Nat
<1> DEFINE ek == ElectionKey(t.e)
           r == t.writes[ek].results
<1>1. TxOK(t) /\ AsIfSimulatedNow(t) /\ t.e \in Election
  BY DEF IInv, TypeOK, PendingIsCurrent, TxOK
<1>2. CASE CreatesElection(t)
  <2>1. PICK n \in VotersNumber, s \in InitialResults :
          LET built == buildElection(buildElectionInfo(Terms[t.e], n), s)
          IN  IsElection(built) /\ t.writes = Put(ek, built)
    BY <1>2 DEF CreatesElection
  <2>2. t.writes[ek] = buildElection(buildElectionInfo(Terms[t.e], n), s) /\ IsElection(t.writes[ek])
    BY <2>1 DEF Put
  <2>3. DOMAIN r = Range(Terms[t.e].choices) \cup {Blank}
    BY <2>2 DEF buildElection, buildElectionInfo
  <2>4. IsFiniteSet(DOMAIN r) /\ r \in [DOMAIN r -> Nat]
    BY <1>1, <2>2, <2>3, FinitelyManyChoices DEF IsElection, IsResults
  <2> QED
    BY <2>4, VotesAreFinite
<1>3. CASE CastsVote(t)
  <2>1. /\ ledger[ek] # Missing /\ t.vote.choice \in DOMAIN ledger[ek].results
        /\ t.vote.choice \in Choice
        /\ t.writes[ek] = recordBallot(ledger[ek], t.vote.choice)
    BY <1>3 DEF CastsVote, electionExists, Vote
  <2>2. DOMAIN r = DOMAIN ledger[ek].results
    BY <2>1 DEF recordBallot
  <2>3. IsElection(t.writes[ek])
    BY <1>1, <2>1, LedgerTypes, RecordedBallotType DEF IInv
  <2>4. IsFiniteSet(DOMAIN r) /\ r \in [DOMAIN r -> Nat]
    BY <1>1, <2>1, <2>2, <2>3, TotalIsNat DEF IsElection, IsResults
  <2> QED
    BY <2>4, VotesAreFinite
<1> QED
  BY <1>1, <1>2, <1>3 DEF WritesElection, AsIfSimulatedNow, CreatesInfo, DeletesInfo,
                          DeletesElection, GeneratesCode, VoidsCode

\* A commit counts no more than what it checked.
LEMMA CommitKeepsWithinSomeLimit ==
    ASSUME IInv, WithinSomeLimit, PendingWithinLimit, NEW t \in pending, Commit(t)
    PROVE  WithinSomeLimit'
<1> SUFFICES ASSUME NEW e \in Election, ledger'[ElectionKey(e)] # Missing
             PROVE  Total(ledger'[ElectionKey(e)].results) <= limit'[e]
  BY DEF WithinSomeLimit, electionExists
<1> DEFINE ek == ElectionKey(e)
<1>1. limit[e] \in Nat /\ limit'[e] \in Nat /\ limit'[e] >= limit[e]
  BY LimitGrows DEF IInv, TypeOK
<1>2. CASE ledger'[ek] = ledger[ek]
  <2>1. Total(ledger[ek].results) \in Nat /\ Total(ledger[ek].results) <= limit[e]
    BY <1>2, TotalIsNat DEF WithinSomeLimit, electionExists
  <2> QED
    BY <1>1, <1>2, <2>1
<1>3. CASE WritesElection(t) /\ t.e = e /\ ledger'[ek] = t.writes[ek]
  <2>1. ~t.stale
    BY DEF Commit, Valid
  <2>2. /\ Total(t.writes[ek].results) \in Nat
        /\ Total(t.writes[ek].results) <= limit[e]
    BY <1>3, <2>1, PendingTotalIsNat DEF PendingWithinLimit
  <2> QED
    BY <1>1, <1>3, <2>2
<1> QED
  BY <1>2, <1>3, CommitOnElection DEF WritesElection

\* What is about to be committed was checked against a limit.
LEMMA CommitKeepsPendingWithinLimit ==
    ASSUME IInv, PendingWithinLimit, NEW t \in pending, Commit(t)
    PROVE  PendingWithinLimit'
<1> SUFFICES ASSUME NEW p \in pending', WritesElection(p), ~p.stale
             PROVE  Total(p.writes[ElectionKey(p.e)].results) <= limit'[p.e]
  BY DEF PendingWithinLimit
<1>1. PICK q \in pending : p = Overtaken(q, DOMAIN t.writes)
  BY DEF Commit
<1>2. TxOK(q) /\ q.stale \in BOOLEAN /\ q.e \in Election
  BY DEF IInv, TypeOK, TxOK
<1>3. /\ p.op = q.op /\ p.e = q.e /\ p.writes = q.writes
      /\ p.stale = (q.stale \/ q.found \cap DOMAIN t.writes # {})
  BY <1>1, <1>2 DEF Overtaken, TxOK
<1>4. WritesElection(q) /\ ~q.stale
  BY <1>3 DEF WritesElection
<1>5. /\ Total(q.writes[ElectionKey(q.e)].results) \in Nat
      /\ Total(q.writes[ElectionKey(q.e)].results) <= limit[q.e]
  BY <1>4, PendingTotalIsNat DEF PendingWithinLimit
<1>6. limit[q.e] \in Nat /\ limit'[q.e] \in Nat /\ limit'[q.e] >= limit[q.e]
  BY <1>2, LimitGrows DEF IInv, TypeOK
<1> QED
  BY <1>3, <1>5, <1>6

\* The choices of an ElectionInfo are those of its terms.
LEMMA ChoicesOfInfo ==
    ASSUME IInv, NEW e \in Election, ledger[InfoKey(e)] # Missing
    PROVE  ledger[InfoKey(e)].choices = Range(Terms[e].choices) \cup {Blank}
<1>1. PICK n \in VotersNumber : ledger[InfoKey(e)] = buildElectionInfo(Terms[e], n)
  BY DEF IInv, ChannelsMatchTerms, electionInfoExists
<1> QED
  BY <1>1 DEF buildElectionInfo

\* An endorsement that finds a vote allowed leaves it within the limit
\* (ElectionContract.castVote, ElectionManagerImpl.checkBallot).
LEMMA CastVoteStaysWithinLimit ==
    ASSUME IInv, InfosWithinLimit, NEW e \in Election, NEW u \in User, NEW code \in Code,
           NEW choice \in Choice, castVote(e, u, code, choice)
    PROVE  Total(recordBallot(ledger[ElectionKey(e)], choice).results) <= limit[e]
<1> DEFINE x == ledger[ElectionKey(e)]
           info == ledger[InfoKey(e)]
           r == x.results
<1>1. /\ x # Missing /\ info # Missing /\ choice \in info.choices
      /\ Total(r) < info.voters
  BY DEF castVote, checkBallot, electionExists, electionInfoExists
<1>2. info.voters \in Nat /\ info.voters <= limit[e] /\ limit[e] \in Nat
  BY <1>1, LedgerTypes DEF IInv, TypeOK, Info, InfosWithinLimit, electionInfoExists
<1>3. IsFiniteSet(DOMAIN r) /\ r \in [DOMAIN r -> Nat] /\ Total(r) \in Nat
  BY <1>1, TotalIsNat, LedgerTypes DEF IInv, IsElection, IsResults
<1>4. choice \in DOMAIN r
  BY <1>1, ChoicesOfInfo DEF IInv, ChannelsMatchTerms, electionExists
<1> HIDE DEF r
<1>5. Total([r EXCEPT ![choice] = @ + 1]) = Total(r) + 1
  BY <1>3, <1>4, TotalOfOneMore
<1>6. recordBallot(x, choice).results = [r EXCEPT ![choice] = @ + 1]
  BY DEF recordBallot, r
<1> QED
  BY <1>1, <1>2, <1>3, <1>5, <1>6

\* The same of an Election created from results (ElectionFactory.checkResults).
LEMMA CreateElectionStaysWithinLimit ==
    ASSUME IInv, InfosWithinLimit, NEW e \in Election, NEW s \in InitialResults,
           createElection(e, s)
    PROVE  Total(buildElection(ledger[InfoKey(e)], s).results) <= limit[e]
<1> DEFINE info == ledger[InfoKey(e)]
<1>1. /\ info # Missing /\ DOMAIN s \subseteq info.choices
      /\ Total(s) <= info.voters /\ \A c \in DOMAIN s : s[c] >= 0
  BY DEF createElection, checkResults, electionInfoExists
<1>2. info.voters \in Nat /\ info.voters <= limit[e] /\ limit[e] \in Nat
  BY <1>1, LedgerTypes DEF IInv, TypeOK, Info, InfosWithinLimit, electionInfoExists
<1>3. Total(s) \in Nat
  <2>1. s \in [DOMAIN s -> Nat]
    BY <1>1, RequestAssumption
  <2>2. IsFiniteSet(info.choices)
    BY <1>1, ChoicesOfInfo, FinitelyManyChoices
  <2>3. IsFiniteSet(DOMAIN s)
    BY <1>1, <2>2, FS_Subset
  <2> QED
    BY <2>1, <2>3, VotesAreFinite
<1>4. Total(buildElection(info, s).results) = Total(s)
  BY <1>1, TotalOfBuilt
<1> QED
  BY <1>1, <1>2, <1>3, <1>4

----------------------------------------------------------------------------
(* The inductive invariant of the history *)

\* An endorsement, which changes nothing that is recorded, preserves it when
\* what it adds to the pending transactions is within the limit.
LEMMA EndorseKeepsHistoryInv ==
    ASSUME HistoryInv, NEW op, NEW e \in Election, NEW vote, NEW reads, NEW writes,
           Endorse(op, e, vote, reads, writes),
           op \in {"createElection", "castVote"} =>
             Total(writes[ElectionKey(e)].results) <= limit[e]
    PROVE  HistoryInv'
<1>1. PICK id \in TxId : pending' = pending \cup {Endorsement(id, op, e, vote, reads, writes)}
  BY DEF Endorse
<1>2. UNCHANGED <<ledger, roll, base, limit>>
  BY DEF Endorse
<1>3. PendingWithinLimit'
  BY <1>1, <1>2 DEF HistoryInv, PendingWithinLimit, Endorsement, WritesElection
<1>4. EveryVoteIsListed' /\ ResultsMatchBallots'
  BY <1>2 DEF HistoryInv, EveryVoteIsListed, ResultsMatchBallots, electionExists
<1>5. ListedVotersSpentTheirCode'
  BY <1>2 DEF HistoryInv, ListedVotersSpentTheirCode
<1>6. InfosWithinLimit' /\ WithinSomeLimit'
  BY <1>2 DEF HistoryInv, InfosWithinLimit, WithinSomeLimit, electionExists,
              electionInfoExists
<1> QED
  BY <1>3, <1>4, <1>5, <1>6 DEF HistoryInv

\* What commits nothing keeps what the ledger has.
LEMMA QuietStepKeepsHistoryInv ==
    ASSUME HistoryInv, UNCHANGED <<ledger, roll, base, limit>>, pending' \subseteq pending
    PROVE  HistoryInv'
<1>1. EveryVoteIsListed' /\ ResultsMatchBallots'
  BY DEF HistoryInv, EveryVoteIsListed, ResultsMatchBallots, electionExists
<1>2. ListedVotersSpentTheirCode'
  BY DEF HistoryInv, ListedVotersSpentTheirCode
<1>3. InfosWithinLimit' /\ PendingWithinLimit' /\ WithinSomeLimit'
  BY DEF HistoryInv, InfosWithinLimit, PendingWithinLimit, WithinSomeLimit,
         electionExists, electionInfoExists
<1> QED
  BY <1>1, <1>2, <1>3 DEF HistoryInv

\* An empty ledger has no vote to lose.
LEMMA InitHistoryInv == Init => HistoryInv
<1> SUFFICES ASSUME Init PROVE HistoryInv
  OBVIOUS
<1>1. \A e \in Election : /\ ledger[InfoKey(e)] = Missing
                          /\ ledger[ElectionKey(e)] = Missing
                          /\ roll[e] = << >>
  BY DEF Init, Key
<1>2. \A e \in Election : DOMAIN roll[e] = {}
  BY <1>1
<1> QED
  BY <1>1, <1>2
     DEF Init, HistoryInv, EveryVoteIsListed, ResultsMatchBallots, InfosWithinLimit,
         ListedVotersSpentTheirCode, PendingWithinLimit, WithinSomeLimit,
         electionExists, electionInfoExists

\* Each step keeps it, of a ledger that keeps the invariant of the types and versions.
LEMMA NextKeepsHistoryInv == IInv /\ HistoryInv /\ [Next]_vars => HistoryInv'
<1> SUFFICES ASSUME IInv, HistoryInv, [Next]_vars PROVE HistoryInv'
  OBVIOUS
<1>1. ASSUME NEW e \in Election, NEW n \in VotersNumber, createElectionInfo(e, n)
      PROVE  HistoryInv'
  BY <1>1, EndorseKeepsHistoryInv DEF createElectionInfo
<1>2. ASSUME NEW e \in Election, deleteElectionInfo(e) PROVE HistoryInv'
  BY <1>2, EndorseKeepsHistoryInv DEF deleteElectionInfo
<1>3. ASSUME NEW e \in Election, NEW s \in InitialResults, createElection(e, s)
      PROVE  HistoryInv'
  <2> DEFINE built == buildElection(ledger[InfoKey(e)], s)
             w == Put(ElectionKey(e), built)
  <2>1. Endorse("createElection", e, NoVote, {ElectionKey(e)}, w)
    BY <1>3 DEF createElection
  <2>2. w[ElectionKey(e)] = built
    BY DEF Put
  <2>3. Total(built.results) <= limit[e]
    BY <1>3, CreateElectionStaysWithinLimit DEF HistoryInv
  <2> HIDE DEF w, built
  <2> QED
    BY <2>1, <2>2, <2>3, EndorseKeepsHistoryInv
<1>4. ASSUME NEW e \in Election, deleteElection(e) PROVE HistoryInv'
  BY <1>4, EndorseKeepsHistoryInv DEF deleteElection
<1>5. ASSUME NEW e \in Election, NEW u \in User, NEW c \in Code, NEW choice \in Choice,
             castVote(e, u, c, choice)
      PROVE  HistoryInv'
  <2> DEFINE ek == ElectionKey(e)
             ck == CodeKey(e, u)
             cast == recordBallot(ledger[ek], choice)
             w == [k \in {ek, ck} |-> IF k = ek THEN cast ELSE consume(ledger[ck])]
  <2>1. Endorse("castVote", e, [voter |-> u, choice |-> choice], {ek, ck}, w)
    BY <1>5 DEF castVote
  <2>2. w[ek] = cast
    OBVIOUS
  <2>3. Total(cast.results) <= limit[e]
    BY <1>5, CastVoteStaysWithinLimit DEF HistoryInv
  <2> HIDE DEF w, cast, ck
  <2> QED
    BY <2>1, <2>2, <2>3, EndorseKeepsHistoryInv
<1>6. ASSUME NEW e \in Election, NEW u \in User, NEW s \in Seed, generateCodeFor(e, u, s)
      PROVE  HistoryInv'
  BY <1>6, EndorseKeepsHistoryInv DEF generateCodeFor
<1>7. ASSUME NEW e \in Election, NEW u \in User, NEW c \in Code, invalidate(e, u, c)
      PROVE  HistoryInv'
  BY <1>7, EndorseKeepsHistoryInv DEF invalidate
<1>8. ASSUME NEW t \in pending, Commit(t) PROVE HistoryInv'
  BY <1>8, CommitKeepsEveryVoteIsListed, CommitKeepsResultsMatchBallots,
     CommitKeepsListedVotersSpentTheirCode, CommitKeepsInfosWithinLimit,
     CommitKeepsPendingWithinLimit, CommitKeepsWithinSomeLimit DEF HistoryInv
<1>9. ASSUME NEW t \in pending, Abort(t) \/ Lose(t) PROVE HistoryInv'
  BY <1>9, QuietStepKeepsHistoryInv DEF Abort, Lose
<1>10. CASE Tick
  BY <1>10, QuietStepKeepsHistoryInv DEF Tick
<1>11. CASE UNCHANGED vars
  BY <1>11, QuietStepKeepsHistoryInv DEF vars
<1> QED
  BY <1>1, <1>2, <1>3, <1>4, <1>5, <1>6, <1>7, <1>8, <1>9, <1>10, <1>11 DEF Next

\* The ledger agrees with its history in every reachable state.
THEOREM HistoryInvariance == Spec => []HistoryInv
BY InitHistoryInv, NextKeepsHistoryInv, Invariance, PTL DEF Spec

\* No vote is lost and none is made up: the ballots of an Election, rewritten
\* whole by every castVote, are the votes committed since it was created
\* (ElectionContract.castVote under the version check).
THEOREM NoVoteIsLost == Spec => []EveryVoteIsListed
<1>1. HistoryInv => EveryVoteIsListed
  BY DEF HistoryInv
<1> QED
  BY <1>1, HistoryInvariance, PTL

\* The results are those that the Election was created with plus one for each
\* ballot (ElectionImpl.castVote, for any number of choices and of votes).
THEOREM ResultsAgree == Spec => []ResultsMatchBallots
<1>1. HistoryInv => ResultsMatchBallots
  BY DEF HistoryInv
<1> QED
  BY <1>1, HistoryInvariance, PTL

\* Whoever is on the roll of an election holds a consumed code for it
\* (castVote writes the Election and the code in one transaction).
THEOREM VotersHaveSpentTheirCode == Spec => []ListedVotersSpentTheirCode
<1>1. HistoryInv => ListedVotersSpentTheirCode
  BY DEF HistoryInv
<1> QED
  BY <1>1, HistoryInvariance, PTL

\* However many castVotes run at the limit, the counts of an election never
\* exceed the largest number of voters that its ElectionInfos ever allowed
\* (ElectionManagerImpl.checkBallot, ElectionFactory.checkResults).
THEOREM NeverBeyondEveryLimit == Spec => []WithinSomeLimit
<1>1. HistoryInv => WithinSomeLimit
  BY DEF HistoryInv
<1> QED
  BY <1>1, HistoryInvariance, PTL

=============================================================================
