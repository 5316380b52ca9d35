--------------------------- MODULE SessionsProofs ---------------------------
(***************************************************************************)
(* Proofs about Sessions, for any accounts and tabs, any number of         *)
(* requests in flight, and tokens that last as long as one likes: few      *)
(* pairs of an account are enabled, and a tab that is alone with its       *)
(* account keeps its session, unless two of its requests renew it at once. *)
(***************************************************************************)
EXTENDS Sessions, FiniteSetTheorems, WellFoundedInduction, TLAPS

----------------------------------------------------------------------------
(* Documents *)

Doc == [pair : Pair, enabled : BOOLEAN]

\* A set of natural numbers has a least one.
LEMMA LeastOfNaturals ==
    ASSUME NEW I \in SUBSET Nat, I # {}
    PROVE  Min(I) \in I /\ \A y \in I : Min(I) <= y
<1>1. PICK x \in I : \A y \in I : ~ (<<y, x>> \in OpToRel(<, Nat))
  BY NatLessThanWellFounded, WFMin
<1>2. \A y \in I : x =< y
  <2> TAKE y \in I
  <2>1. ~ (y < x)
    BY <1>1 DEF OpToRel
  <2> QED
    BY <2>1
<1> QED
  BY <1>2 DEF Min

\* Jwt.findOne finds the first document of the pair whenever there is one.
LEMMA FindOneFinds ==
    ASSUME NEW docs \in Seq(Doc), NEW pair
    PROVE  /\ FindOne(docs, pair) # 0 <=> \E i \in DOMAIN docs : docs[i].pair = pair
           /\ FindOne(docs, pair) # 0 =>
                /\ FindOne(docs, pair) \in DOMAIN docs
                /\ docs[FindOne(docs, pair)].pair = pair
                /\ \A i \in DOMAIN docs : docs[i].pair = pair => FindOne(docs, pair) <= i
<1> DEFINE I == {i \in 1 .. Len(docs) : docs[i].pair = pair}
<1>1. FindOne(docs, pair) = IF I # {} THEN Min(I) ELSE 0
  BY DEF FindOne, SelectInSeq
<1>2. DOMAIN docs = 1 .. Len(docs) /\ I \in SUBSET Nat
  OBVIOUS
<1>3. I # {} => Min(I) \in I /\ \A i \in I : Min(I) <= i
  BY <1>2, LeastOfNaturals
<1> QED
  BY <1>1, <1>2, <1>3

\* What changes documents in their places leaves a sequence of them.
LEMMA SameLength ==
    ASSUME NEW docs \in Seq(Doc), NEW more,
           more = [i \in DOMAIN docs |-> more[i]],
           \A i \in DOMAIN docs : more[i] \in Doc
    PROVE  more \in Seq(Doc) /\ DOMAIN more = DOMAIN docs
<1>1. DOMAIN docs = 1 .. Len(docs) /\ Len(docs) \in Nat
  OBVIOUS
<1>2. more \in [1 .. Len(docs) -> Doc]
  BY <1>1
<1> QED
  BY <1>1, <1>2

\* A pair that was kept is found for ever: documents are added and disabled, and
\* never removed.
LEMMA KeptIsFound ==
    ASSUME NEW docs \in Seq(Doc), NEW more \in Seq(Doc), NEW pair,
           \A i \in DOMAIN docs : i \in DOMAIN more /\ more[i].pair = docs[i].pair,
           FindOne(docs, pair) # 0
    PROVE  FindOne(more, pair) # 0
BY FindOneFinds

----------------------------------------------------------------------------
(* Counts *)

\* The counts are numbers: the slots of the tabs and the documents are finite.
LEMMA CountsAreFinite ==
    ASSUME jwts \in Seq(Doc), NEW u
    PROVE  /\ IsFiniteSet(EnabledOf(u)) /\ Cardinality(EnabledOf(u)) \in Nat
           /\ IsFiniteSet(CallsOf(u)) /\ Cardinality(CallsOf(u)) \in Nat
           /\ IsFiniteSet(SavesOf(u)) /\ Cardinality(SavesOf(u)) \in Nat
<1>1. IsFiniteSet(Call)
  BY CallAssumption, FS_Product DEF Call
<1>2. IsFiniteSet(CallsOf(u))
  BY <1>1, FS_Subset DEF CallsOf
<1>3. IsFiniteSet(SavesOf(u))
  BY <1>2, FS_Subset DEF SavesOf
<1>4. IsFiniteSet(1 .. Len(jwts))
  BY FS_Interval
<1>5. EnabledOf(u) \in SUBSET (1 .. Len(jwts))
  BY DEF EnabledOf
<1>6. IsFiniteSet(EnabledOf(u))
  BY <1>4, <1>5, FS_Subset
<1> QED
  BY <1>2, <1>3, <1>6, FS_CardinalityType

\* There are as few pairs as before when no document is enabled and no other
\* request has come to its save.
LEMMA NoMoreSaves ==
    ASSUME jwts \in Seq(Doc), RoomForTheSaves, UNCHANGED account,
           \A i \in DOMAIN jwts' : jwts'[i].enabled =>
               i \in DOMAIN jwts /\ jwts[i].enabled /\ jwts'[i].pair = jwts[i].pair,
           \A c \in Call : call'[c].at = "disabled" => call[c].at = "disabled"
    PROVE  RoomForTheSaves'
<1> SUFFICES ASSUME NEW u \in User
             PROVE  Cardinality(EnabledOf(u)') + Cardinality(SavesOf(u)')
                      <= Cardinality(CallsOf(u)')
  BY DEF RoomForTheSaves
<1>1. CallsOf(u)' = CallsOf(u)
  BY DEF CallsOf
<1>2. EnabledOf(u)' \in SUBSET EnabledOf(u)
  BY DEF EnabledOf
<1>3. SavesOf(u)' \in SUBSET SavesOf(u)
  BY <1>1 DEF SavesOf, CallsOf
<1>4. /\ IsFiniteSet(EnabledOf(u)) /\ Cardinality(EnabledOf(u)) \in Nat
      /\ IsFiniteSet(SavesOf(u)) /\ Cardinality(SavesOf(u)) \in Nat
      /\ Cardinality(CallsOf(u)) \in Nat
  BY CountsAreFinite
<1>5. IsFiniteSet(EnabledOf(u)') /\ Cardinality(EnabledOf(u)') <= Cardinality(EnabledOf(u))
  BY <1>2, <1>4, FS_Subset
<1>6. IsFiniteSet(SavesOf(u)') /\ Cardinality(SavesOf(u)') <= Cardinality(SavesOf(u))
  BY <1>3, <1>4, FS_Subset
<1>7. Cardinality(EnabledOf(u)') \in Nat /\ Cardinality(SavesOf(u)') \in Nat
  BY <1>5, <1>6, FS_CardinalityType
<1>8. Cardinality(EnabledOf(u)) + Cardinality(SavesOf(u)) <= Cardinality(CallsOf(u))
  BY DEF RoomForTheSaves
<1> QED
  BY <1>1, <1>4, <1>5, <1>6, <1>7, <1>8

\* updateMany leaves no document of the account enabled: there is room for the
\* pair of the request, and of every other that has got as far.
LEMMA DisableOthersMakesRoom ==
    ASSUME SessionsTypeOK, RoomForTheSaves, NEW c \in Call, DisableOthers(c)
    PROVE  RoomForTheSaves'
<1> DEFINE o == account[c[1]]
<1>1. call[c].pair.user = o
  BY DEF SessionsTypeOK, DisableOthers, Idle
<1>2. /\ DOMAIN jwts' = DOMAIN jwts
      /\ \A i \in DOMAIN jwts : /\ jwts'[i].pair = jwts[i].pair
                                /\ jwts'[i].enabled <=>
                                     jwts[i].enabled /\ jwts[i].pair.user # o
  BY <1>1 DEF SessionsTypeOK, DisableOthers, DisabledFor
<1>3. \A d \in Call \ {c} : call'[d] = call[d]
  BY DEF SessionsTypeOK, DisableOthers, Becomes
<1>4. UNCHANGED account /\ jwts \in Seq(Doc)
  BY DEF DisableOthers, SessionsTypeOK, Doc
<1> SUFFICES ASSUME NEW u \in User
             PROVE  Cardinality(EnabledOf(u)') + Cardinality(SavesOf(u)')
                      <= Cardinality(CallsOf(u)')
  BY DEF RoomForTheSaves
<1>5. CallsOf(u)' = CallsOf(u)
  BY <1>4 DEF CallsOf
<1>6. /\ IsFiniteSet(EnabledOf(u)) /\ Cardinality(EnabledOf(u)) \in Nat
      /\ IsFiniteSet(SavesOf(u)) /\ Cardinality(SavesOf(u)) \in Nat
      /\ IsFiniteSet(CallsOf(u)) /\ Cardinality(CallsOf(u)) \in Nat
  BY <1>4, CountsAreFinite
<1>7. CASE u = o
  <2>1. EnabledOf(u)' = {}
    BY <1>2, <1>7 DEF EnabledOf
  <2>2. Cardinality(EnabledOf(u)') = 0
    BY <2>1, FS_EmptySet
  <2>3. SavesOf(u)' \in SUBSET CallsOf(u)
    BY <1>5 DEF SavesOf
  <2>4. IsFiniteSet(SavesOf(u)') /\ Cardinality(SavesOf(u)') <= Cardinality(CallsOf(u))
    BY <1>6, <2>3, FS_Subset
  <2>5. Cardinality(SavesOf(u)') \in Nat
    BY <2>4, FS_CardinalityType
  <2> QED
    BY <1>5, <1>6, <2>2, <2>4, <2>5
<1>8. CASE u # o
  <2>1. EnabledOf(u)' = EnabledOf(u)
    BY <1>2, <1>8 DEF EnabledOf
  <2>2. SavesOf(u)' = SavesOf(u)
    BY <1>3, <1>5, <1>8 DEF SavesOf, CallsOf
  <2> QED
    BY <1>5, <2>1, <2>2 DEF RoomForTheSaves
<1> QED
  BY <1>7, <1>8

\* The pair that is saved takes the place that was kept for it.
LEMMA SaveTakesItsPlace ==
    ASSUME SessionsTypeOK, RoomForTheSaves, NEW c \in Call, Save(c)
    PROVE  RoomForTheSaves'
<1> DEFINE o == account[c[1]]
           n == Len(jwts) + 1
<1>1. /\ call[c].pair.user = o /\ call[c].at = "disabled"
      /\ call[c] \in [at : Stage, pair : Pair, for : Purpose]
  BY DEF SessionsTypeOK, Save, Idle
<1>2. jwts \in Seq(Doc) /\ UNCHANGED account /\ n \notin DOMAIN jwts
  BY DEF SessionsTypeOK, Save, Doc
<1>3. /\ DOMAIN jwts' = DOMAIN jwts \cup {n}
      /\ \A i \in DOMAIN jwts : jwts'[i] = jwts[i]
      /\ jwts'[n] = [pair |-> call[c].pair, enabled |-> TRUE]
  BY <1>1, <1>2 DEF SessionsTypeOK, Save, Doc
<1>4. (\A d \in Call \ {c} : call'[d] = call[d]) /\ call'[c].at = "saved"
  BY <1>1 DEF SessionsTypeOK, Save, Becomes
<1> SUFFICES ASSUME NEW u \in User
             PROVE  Cardinality(EnabledOf(u)') + Cardinality(SavesOf(u)')
                      <= Cardinality(CallsOf(u)')
  BY DEF RoomForTheSaves
<1>5. CallsOf(u)' = CallsOf(u)
  BY <1>2 DEF CallsOf
<1>6. /\ IsFiniteSet(EnabledOf(u)) /\ Cardinality(EnabledOf(u)) \in Nat
      /\ IsFiniteSet(SavesOf(u)) /\ Cardinality(SavesOf(u)) \in Nat
      /\ Cardinality(CallsOf(u)) \in Nat
  BY <1>2, CountsAreFinite
<1>7. Cardinality(EnabledOf(u)) + Cardinality(SavesOf(u)) <= Cardinality(CallsOf(u))
  BY DEF RoomForTheSaves
<1>8. CASE u = o
  <2>1. EnabledOf(u)' = EnabledOf(u) \cup {n} /\ n \notin EnabledOf(u)
    BY <1>1, <1>2, <1>3, <1>8 DEF EnabledOf
  <2>2. SavesOf(u)' = SavesOf(u) \ {c} /\ c \in SavesOf(u)
    BY <1>1, <1>4, <1>5, <1>8 DEF SavesOf, CallsOf
  <2>3. Cardinality(EnabledOf(u)') = Cardinality(EnabledOf(u)) + 1
    BY <1>6, <2>1, FS_AddElement
  <2>4. Cardinality(SavesOf(u)') = Cardinality(SavesOf(u)) - 1
    BY <1>6, <2>2, FS_RemoveElement
  <2> QED
    BY <1>5, <1>6, <1>7, <2>3, <2>4
<1>9. CASE u # o
  <2>1. EnabledOf(u)' = EnabledOf(u)
    BY <1>1, <1>2, <1>3, <1>9 DEF EnabledOf
  <2>2. SavesOf(u)' = SavesOf(u)
    BY <1>4, <1>5, <1>9 DEF SavesOf, CallsOf
  <2> QED
    BY <1>5, <1>7, <2>1, <2>2
<1> QED
  BY <1>8, <1>9

\* With room for those to come there are few.
LEMMA RoomMeansFew ==
    ASSUME jwts \in Seq(Doc), RoomForTheSaves
    PROVE  FewEnabledPairs
<1> SUFFICES ASSUME NEW u \in User
             PROVE  Cardinality(EnabledOf(u)) <= Cardinality(CallsOf(u))
  BY DEF FewEnabledPairs
<1>1. /\ Cardinality(EnabledOf(u)) \in Nat /\ Cardinality(SavesOf(u)) \in Nat
      /\ Cardinality(CallsOf(u)) \in Nat
  BY CountsAreFinite
<1> QED
  BY <1>1 DEF RoomForTheSaves

----------------------------------------------------------------------------
(* Types, and the pairs of the requests *)

RequestType == [at : Stage, pair : Pair, for : Purpose]

\* What SessionsTypeOK and CallsHaveTheirPairs say of a request r of slot c.
CallOK(c, r) ==
    /\ r \in {Idle} \cup RequestType
    /\ r # Idle => r.pair.user = account[c[1]]
    /\ r.at \in {"sent", "expired"} => session[c[1]] # NoPair
    /\ r.at \in {"saved", "verify", "leaving"} => FindOne(jwts, r.pair) # 0

\* What they say of the tabs and of the service.
RestOK ==
    /\ account \in [Tab -> User]
    /\ now \in Nat
    /\ jwts \in Seq(Doc)
    /\ session \in [Tab -> Pair \cup {NoPair}]
    /\ \A t \in Tab : session[t] # NoPair =>
         session[t].user = account[t] /\ FindOne(jwts, session[t]) # 0
    /\ left \subseteq Pair
    /\ fails \in 0..MaxFails

\* The two invariants, of the tabs and of each request.
LEMMA Parts ==
    SessionsTypeOK /\ CallsHaveTheirPairs
      <=> RestOK /\ DOMAIN call = Call /\ call = [c \in Call |-> call[c]]
                 /\ \A c \in Call : CallOK(c, call[c])
BY DEF SessionsTypeOK, CallsHaveTheirPairs, RestOK, CallOK, RequestType, Doc, Idle

\* A request moves on, and nothing else does.
LEMMA OneCallMoves ==
    ASSUME SessionsTypeOK, CallsHaveTheirPairs, NEW c \in Call, NEW r,
           Becomes(c, r), CallOK(c, r)',
           RestOK', UNCHANGED account,
           \A t \in Tab : session[t] # NoPair => session'[t] # NoPair,
           \A pair : FindOne(jwts, pair) # 0 => FindOne(jwts', pair) # 0
    PROVE  SessionsTypeOK' /\ CallsHaveTheirPairs'
<1>1. DOMAIN call = Call /\ \A d \in Call : CallOK(d, call[d])
  BY Parts
<1>2. call' = [d \in Call |-> IF d = c THEN r ELSE call[d]]
  BY <1>1 DEF Becomes
<1>3. ASSUME NEW d \in Call PROVE CallOK(d, call[d])'
  <2>1. CASE d = c
    BY <1>2, <2>1
  <2>2. CASE d # c
    <3>1. CallOK(d, call[d]) /\ call'[d] = call[d] /\ d[1] \in Tab
      BY <1>1, <1>2, <2>2 DEF Call
    <3> QED
      BY <3>1 DEF CallOK
  <2> QED
    BY <2>1, <2>2
<1> QED
  BY <1>2, <1>3 DEF SessionsTypeOK, CallsHaveTheirPairs, RestOK, CallOK,
                      RequestType, Doc, Idle

\* A tab is signed out: what it leaves behind is of nobody.
LEMMA SignOutLeavesNobody ==
    ASSUME SessionsTypeOK, CallsHaveTheirPairs, NEW t \in Tab,
           NEW calls, \A d \in Call : calls[d] \in {call[d], Idle},
           SignOut(t, calls), UNCHANGED <<account, now, jwts, left, fails>>
    PROVE  SessionsTypeOK' /\ CallsHaveTheirPairs'
<1>1. RestOK /\ DOMAIN call = Call /\ \A d \in Call : CallOK(d, call[d])
  BY Parts
<1>2. RestOK'
  BY <1>1 DEF RestOK, SignOut
<1>3. ASSUME NEW d \in Call PROVE CallOK(d, call[d])'
  <2>1. CallOK(d, call[d]) /\ calls[d] \in {call[d], Idle} /\ d[1] \in Tab
    BY <1>1 DEF Call
  <2>2. CASE d[1] = t
    <3>1. call'[d] = Orphan(calls[d])
      BY <2>2 DEF SignOut
    <3>2. CASE calls[d].at \in {"refresh", "leaving"} \cup Creating
      <4>1. calls[d] = call[d] /\ call[d] \in RequestType
        BY <2>1, <3>2 DEF CallOK, Idle, Creating
      <4>2. call'[d] = [call[d] EXCEPT !.for = "nobody"]
        BY <3>1, <3>2, <4>1 DEF Orphan
      <4>3. /\ call'[d] \in RequestType
            /\ call'[d].pair = call[d].pair /\ call'[d].at = call[d].at
        BY <4>1, <4>2 DEF RequestType, Purpose
      <4> QED
        BY <2>1, <3>2, <4>1, <4>3 DEF CallOK, Idle, Creating
    <3>3. CASE ~(calls[d].at \in {"refresh", "leaving"} \cup Creating)
      BY <3>1, <3>3 DEF Orphan, CallOK, Idle
    <3> QED
      BY <3>2, <3>3
  <2>3. CASE d[1] # t
    <3>1. call'[d] = calls[d] /\ session'[d[1]] = session[d[1]]
      BY <1>1, <2>1, <2>3 DEF SignOut, RestOK
    <3> QED
      BY <2>1, <3>1 DEF CallOK, Idle
  <2> QED
    BY <2>2, <2>3
<1> QED
  BY <1>2, <1>3 DEF SessionsTypeOK, CallsHaveTheirPairs, RestOK, CallOK,
                      RequestType, Doc, Idle, SignOut

----------------------------------------------------------------------------
(* Steps *)

\* What a request is made of.
LEMMA RequestIsOfItsParts ==
    ASSUME NEW at \in Stage, NEW pair \in Pair, NEW for \in Purpose
    PROVE  /\ Request(at, pair, for) \in RequestType
           /\ Request(at, pair, for).at = at /\ Request(at, pair, for).pair = pair
           /\ Request(at, pair, for).for = for
BY DEF Request, RequestType

\* The pairs that are signed are of the account of the tab, now.
LEMMA SignedIsAPair ==
    ASSUME now \in Nat, NEW u \in User
    PROVE  Signed(u) \in Pair /\ Signed(u).user = u
BY DEF Signed, Pair

\* The requests that a tab starts.
LEMMA StartKeepsSessionsInv ==
    ASSUME SessionsInv, NEW c \in Call,
           Login(c) \/ \E for \in {"get", "logout"} : Send(c, for)
    PROVE  SessionsTypeOK' /\ CallsHaveTheirPairs' /\ RoomForTheSaves'
<1>1. RestOK /\ DOMAIN call = Call /\ CallOK(c, call[c]) /\ c[1] \in Tab
  BY Parts DEF SessionsInv, Call
<1>2. CASE Login(c)
  <2>0. PICK r : r = Request("signed", Signed(account[c[1]]), "login")
    OBVIOUS
  <2>1. Becomes(c, r) /\ UNCHANGED <<account, now, jwts, session, left, fails>>
    BY <1>2, <2>0 DEF Login
  <2>2. r \in RequestType /\ r.at = "signed" /\ r.pair.user = account[c[1]]
    <3>1. Signed(account[c[1]]) \in Pair /\ Signed(account[c[1]]).user = account[c[1]]
      BY <1>1, SignedIsAPair DEF RestOK
    <3>2. "signed" \in Stage /\ "login" \in Purpose
      BY DEF Stage, Creating, Purpose
    <3> QED
      BY <2>0, <3>1, <3>2, RequestIsOfItsParts
  <2>3. CallOK(c, r)' /\ RestOK'
    BY <1>1, <2>1, <2>2 DEF CallOK, RestOK
  <2>4. SessionsTypeOK' /\ CallsHaveTheirPairs'
    BY <2>1, <2>3, OneCallMoves DEF SessionsInv
  <2>5. RoomForTheSaves'
    BY <1>1, <2>1, <2>2, NoMoreSaves DEF SessionsInv, RestOK, Becomes
  <2> QED
    BY <2>4, <2>5
<1>3. ASSUME NEW for \in {"get", "logout"}, Send(c, for)
      PROVE  SessionsTypeOK' /\ CallsHaveTheirPairs' /\ RoomForTheSaves'
  <2>0. PICK r : r = Request("sent", session[c[1]], for)
    OBVIOUS
  <2>1. /\ Becomes(c, r) /\ UNCHANGED <<account, now, jwts, session, left, fails>>
        /\ session[c[1]] # NoPair
    BY <1>3, <2>0 DEF Send
  <2>2. r \in RequestType /\ r.at = "sent" /\ r.pair.user = account[c[1]]
    <3>1. session[c[1]] \in Pair /\ session[c[1]].user = account[c[1]]
      BY <1>1, <2>1 DEF RestOK
    <3>2. "sent" \in Stage /\ for \in Purpose
      BY DEF Stage, Purpose
    <3> QED
      BY <2>0, <3>1, <3>2, RequestIsOfItsParts
  <2>3. CallOK(c, r)' /\ RestOK'
    BY <1>1, <2>1, <2>2 DEF CallOK, RestOK
  <2>4. SessionsTypeOK' /\ CallsHaveTheirPairs'
    BY <2>1, <2>3, OneCallMoves DEF SessionsInv
  <2>5. RoomForTheSaves'
    BY <1>1, <2>1, <2>2, NoMoreSaves DEF SessionsInv, RestOK, Becomes
  <2> QED
    BY <2>4, <2>5
<1> QED
  BY <1>2, <1>3

\* The services that read the documents, and the refresh that a tab sends.
LEMMA ReadKeepsSessionsInv ==
    ASSUME SessionsInv, NEW c \in Call,
           Authenticate(c) \/ RefreshAccessToken(c) \/ Fail(c)
    PROVE  SessionsTypeOK' /\ CallsHaveTheirPairs' /\ RoomForTheSaves'
<1>1. RestOK /\ DOMAIN call = Call /\ CallOK(c, call[c]) /\ c[1] \in Tab
  BY Parts DEF SessionsInv, Call
<1>2. ASSUME NEW r, Becomes(c, r), CallOK(c, r)', r.at # "disabled",
             UNCHANGED <<account, jwts, session>>, RestOK'
      PROVE  SessionsTypeOK' /\ CallsHaveTheirPairs' /\ RoomForTheSaves'
  <2>1. SessionsTypeOK' /\ CallsHaveTheirPairs'
    BY <1>2, OneCallMoves DEF SessionsInv
  <2>2. RoomForTheSaves'
    BY <1>1, <1>2, NoMoreSaves DEF SessionsInv, RestOK, Becomes
  <2> QED
    BY <2>1, <2>2
<1>3. CallOK(c, Idle)' /\ Idle.at # "disabled"
  BY DEF CallOK, Idle
<1>4. CASE Authenticate(c)
  <2>1. UNCHANGED <<account, now, jwts, session, left, fails>> /\ RestOK'
    BY <1>1, <1>4 DEF Authenticate, RestOK
  <2>2. call[c] \in RequestType /\ call[c].at = "sent"
    BY <1>1, <1>4 DEF Authenticate, CallOK, Idle
  <2>3. ASSUME Enabled(call[c].pair) PROVE FindOne(jwts, call[c].pair) # 0
    BY <2>3 DEF Enabled
  <2>4. \E r \in {Idle, [call[c] EXCEPT !.at = "expired"], [call[c] EXCEPT !.at = "leaving"]} :
          Becomes(c, r) /\ (r # Idle => Enabled(call[c].pair))
    BY <1>4 DEF Authenticate
  <2>5. ASSUME Enabled(call[c].pair),
               NEW r \in {[call[c] EXCEPT !.at = "expired"], [call[c] EXCEPT !.at = "leaving"]}
        PROVE  CallOK(c, r)' /\ r.at # "disabled"
    <3>1. /\ r \in RequestType /\ r.at \in {"expired", "leaving"}
          /\ r.pair = call[c].pair
      BY <2>2 DEF RequestType, Stage
    <3> QED
      BY <1>1, <2>1, <2>2, <2>3, <2>5, <3>1 DEF CallOK, Idle
  <2> QED
    BY <1>2, <1>3, <2>1, <2>4, <2>5
<1>5. CASE RefreshAccessToken(c)
  <2>0. PICK r : r = Request("refresh", session[c[1]], call[c].for)
    OBVIOUS
  <2>1. /\ Becomes(c, r) /\ UNCHANGED <<account, now, jwts, session, left, fails>>
        /\ call[c] \in RequestType /\ call[c].at = "expired" /\ RestOK'
    BY <1>1, <1>5, <2>0 DEF RefreshAccessToken, CallOK, Idle, RestOK
  <2>2. r \in RequestType /\ r.at = "refresh" /\ r.pair.user = account[c[1]]
    <3>1. session[c[1]] \in Pair /\ session[c[1]].user = account[c[1]]
      BY <1>1, <2>1 DEF CallOK, RestOK
    <3>2. "refresh" \in Stage /\ call[c].for \in Purpose
      BY <2>1 DEF Stage, RequestType
    <3> QED
      BY <2>0, <3>1, <3>2, RequestIsOfItsParts
  <2>3. CallOK(c, r)'
    BY <2>1, <2>2 DEF CallOK
  <2> QED
    BY <1>2, <2>1, <2>2, <2>3
<1>6. CASE Fail(c)
  <2>1. RestOK'
    BY <1>1, <1>6, SessionsBoundAssumption DEF Fail, RestOK
  <2> QED
    BY <1>2, <1>3, <1>6, <2>1 DEF Fail
<1> QED
  BY <1>4, <1>5, <1>6
\* The requests that change the documents: these keep their pairs.
LEMMA WriteKeepsSessionsInv ==
    ASSUME SessionsInv, NEW c \in Call,
           Leave(c) \/ DisableOthers(c) \/ Save(c)
    PROVE  SessionsTypeOK' /\ CallsHaveTheirPairs' /\ RoomForTheSaves'
<1>1. RestOK /\ DOMAIN call = Call /\ CallOK(c, call[c]) /\ c[1] \in Tab
  BY Parts DEF SessionsInv, Call
<1>2. call[c] \in RequestType /\ call[c].pair.user = account[c[1]]
  BY <1>1 DEF Leave, DisableOthers, Save, CallOK, Idle
<1>3. CASE Leave(c)
  <2> DEFINE k == FindOne(jwts, call[c].pair)
  <2>1. jwts' = [jwts EXCEPT ![k].enabled = FALSE]
    BY <1>3 DEF Leave
  <2>2. jwts \in Seq(Doc)
    BY <1>1 DEF RestOK
  <2> HIDE DEF k
  <2>3. /\ jwts' \in Seq(Doc) /\ DOMAIN jwts' = DOMAIN jwts
        /\ \A i \in DOMAIN jwts : /\ jwts'[i].pair = jwts[i].pair
                                  /\ jwts'[i].enabled => jwts[i].enabled
    <3>1. \A i \in DOMAIN jwts : jwts[i] \in Doc
      BY <2>2
    <3>2. \A i \in DOMAIN jwts : /\ jwts'[i] \in Doc
                                 /\ jwts'[i].pair = jwts[i].pair
                                 /\ jwts'[i].enabled => jwts[i].enabled
      BY <2>1, <3>1 DEF Doc
    <3>3. jwts' = [i \in DOMAIN jwts |-> jwts'[i]]
      BY <2>1
    <3> QED
      BY <2>2, <3>2, <3>3, SameLength
  <2>4. \A pair : FindOne(jwts, pair) # 0 => FindOne(jwts', pair) # 0
    BY <2>2, <2>3, KeptIsFound
  <2>5. RestOK' /\ CallOK(c, Idle)'
    BY <1>1, <1>2, <1>3, <2>3, <2>4 DEF Leave, RestOK, CallOK, Idle, RequestType
  <2>6. SessionsTypeOK' /\ CallsHaveTheirPairs'
    BY <1>3, <2>4, <2>5, OneCallMoves DEF SessionsInv, Leave
  <2>7. \A d \in Call : call'[d].at = "disabled" => call[d].at = "disabled"
    BY <1>1, <1>3 DEF Leave, Becomes, Idle
  <2> QED
    BY <1>3, <2>2, <2>3, <2>6, <2>7, NoMoreSaves DEF SessionsInv, Leave
<1>4. CASE DisableOthers(c)
  <2>0. PICK r : r = [call[c] EXCEPT !.at = "disabled"]
    OBVIOUS
  <2>1. r \in RequestType /\ r.at = "disabled" /\ r.pair = call[c].pair
    BY <1>2, <2>0 DEF RequestType, Stage, Creating
  <2>2. jwts \in Seq(Doc) /\ jwts' = DisabledFor(call[c].pair.user)
    BY <1>1, <1>4 DEF RestOK, DisableOthers
  <2>3. /\ jwts' \in Seq(Doc) /\ DOMAIN jwts' = DOMAIN jwts
        /\ \A i \in DOMAIN jwts : jwts'[i].pair = jwts[i].pair
    <3>1. \A i \in DOMAIN jwts : jwts[i] \in Doc
      BY <2>2
    <3>2. \A i \in DOMAIN jwts : /\ jwts'[i] \in Doc
                                 /\ jwts'[i].pair = jwts[i].pair
      BY <2>2, <3>1 DEF DisabledFor, Doc
    <3>3. jwts' = [i \in DOMAIN jwts |-> jwts'[i]]
      BY <2>2 DEF DisabledFor
    <3> QED
      BY <2>2, <3>2, <3>3, SameLength
  <2>4. \A pair : FindOne(jwts, pair) # 0 => FindOne(jwts', pair) # 0
    BY <2>2, <2>3, KeptIsFound
  <2>5. RestOK' /\ CallOK(c, r)'
    BY <1>1, <1>2, <1>4, <2>1, <2>3, <2>4 DEF DisableOthers, RestOK, CallOK
  <2>6. SessionsTypeOK' /\ CallsHaveTheirPairs'
    BY <1>4, <2>0, <2>4, <2>5, OneCallMoves DEF SessionsInv, DisableOthers
  <2> QED
    BY <1>4, <2>6, DisableOthersMakesRoom DEF SessionsInv
<1>5. CASE Save(c)
  <2>0. PICK r : r = [call[c] EXCEPT !.at = "saved"]
    OBVIOUS
  <2>1. r \in RequestType /\ r.at = "saved" /\ r.pair = call[c].pair
    BY <1>2, <2>0 DEF RequestType, Stage, Creating
  <2>2. /\ jwts \in Seq(Doc)
        /\ jwts' = Append(jwts, [pair |-> call[c].pair, enabled |-> TRUE])
    BY <1>1, <1>5 DEF RestOK, Save
  <2>3. [pair |-> call[c].pair, enabled |-> TRUE] \in Doc
    BY <1>2 DEF RequestType, Doc
  <2>4. /\ jwts' \in Seq(Doc) /\ DOMAIN jwts \subseteq DOMAIN jwts'
        /\ \A i \in DOMAIN jwts : jwts'[i] = jwts[i]
        /\ \E i \in DOMAIN jwts' : jwts'[i].pair = call[c].pair
    <3>1. Len(jwts') = Len(jwts) + 1 /\ jwts'[Len(jwts) + 1].pair = call[c].pair
      BY <2>2, <2>3
    <3>2. jwts' \in Seq(Doc) /\ \A i \in DOMAIN jwts : jwts'[i] = jwts[i]
      BY <2>2, <2>3
    <3>3. DOMAIN jwts' = 1 .. Len(jwts') /\ DOMAIN jwts = 1 .. Len(jwts) /\ Len(jwts) \in Nat
      BY <2>2, <3>2
    <3> QED
      BY <3>1, <3>2, <3>3
  <2>5. \A pair : FindOne(jwts, pair) # 0 => FindOne(jwts', pair) # 0
    BY <2>2, <2>4, KeptIsFound
  <2>6. FindOne(jwts', call[c].pair) # 0
    BY <2>4, FindOneFinds
  <2>7. RestOK' /\ CallOK(c, r)'
    BY <1>1, <1>2, <1>5, <2>1, <2>4, <2>5, <2>6 DEF Save, RestOK, CallOK
  <2>8. SessionsTypeOK' /\ CallsHaveTheirPairs'
    BY <1>5, <2>0, <2>5, <2>7, OneCallMoves DEF SessionsInv, Save
  <2> QED
    BY <1>5, <2>8, SaveTakesItsPlace DEF SessionsInv
<1> QED
  BY <1>3, <1>4, <1>5

\* A tab is signed out, and there are as few pairs as before.
LEMMA SignOutKeepsSessionsInv ==
    ASSUME SessionsInv, NEW t \in Tab,
           NEW calls, \A d \in Call : calls[d] \in {call[d], Idle},
           SignOut(t, calls), UNCHANGED <<account, now, jwts, left, fails>>
    PROVE  SessionsTypeOK' /\ CallsHaveTheirPairs' /\ RoomForTheSaves'
<1>1. SessionsTypeOK' /\ CallsHaveTheirPairs'
  BY SignOutLeavesNobody DEF SessionsInv
<1>2. RestOK /\ \A d \in Call : CallOK(d, call[d])
  BY Parts DEF SessionsInv
<1>3. ASSUME NEW d \in Call, call'[d].at = "disabled" PROVE call[d].at = "disabled"
  <2>1. call'[d] \in {calls[d], Orphan(calls[d])}
    BY DEF SignOut
  <2>2. calls[d] \in {Idle} \cup RequestType
    BY <1>2 DEF CallOK
  <2>3. Orphan(calls[d]) = Idle \/ Orphan(calls[d]).at = calls[d].at
    BY <2>2 DEF Orphan, RequestType, Idle
  <2> QED
    BY <1>3, <2>1, <2>3 DEF Idle
<1> QED
  BY <1>1, <1>2, <1>3, NoMoreSaves DEF SessionsInv, RestOK

\* The answers that give a tab a pair, or take its own away.
LEMMA AnswerKeepsSessionsInv ==
    ASSUME SessionsInv, NEW c \in Call,
           RefreshToken(c) \/ Answer(c) \/ VerifyRole(c)
    PROVE  SessionsTypeOK' /\ CallsHaveTheirPairs' /\ RoomForTheSaves'
<1>1. RestOK /\ DOMAIN call = Call /\ CallOK(c, call[c]) /\ c[1] \in Tab
  BY Parts DEF SessionsInv, Call
<1>2. call[c] \in RequestType /\ call[c].pair.user = account[c[1]] /\ call[c].pair \in Pair
  BY <1>1 DEF RefreshToken, Answer, VerifyRole, CallOK, Idle, RequestType
<1>3. ASSUME NEW r, Becomes(c, r), CallOK(c, r)', r.at # "disabled",
             UNCHANGED <<account, now, jwts, left, fails>>,
             session' \in {session, [session EXCEPT ![c[1]] = call[c].pair]},
             session' # session => FindOne(jwts, call[c].pair) # 0
      PROVE  SessionsTypeOK' /\ CallsHaveTheirPairs' /\ RoomForTheSaves'
  <2>1. RestOK' /\ \A t \in Tab : session[t] # NoPair => session'[t] # NoPair
    BY <1>1, <1>2, <1>3, NoPairAssumption DEF RestOK
  <2>2. SessionsTypeOK' /\ CallsHaveTheirPairs'
    BY <1>3, <2>1, OneCallMoves DEF SessionsInv
  <2>3. RoomForTheSaves'
    BY <1>1, <1>3, NoMoreSaves DEF SessionsInv, RestOK, Becomes
  <2> QED
    BY <2>2, <2>3
<1>4. CallOK(c, Idle)' /\ Idle.at # "disabled"
  BY DEF CallOK, Idle
<1>5. PICK calls : calls = [call EXCEPT ![c] = Idle]
  OBVIOUS
<1>6. \A d \in Call : calls[d] \in {call[d], Idle}
  BY <1>1, <1>5
<1>7. CASE RefreshToken(c)
  <2>0. PICK r : r = Request("signed", Signed(call[c].pair.user), call[c].for)
    OBVIOUS
  <2>1. UNCHANGED <<account, now, jwts, left, fails>>
    BY <1>7 DEF RefreshToken
  <2>2. \/ Becomes(c, Idle) /\ UNCHANGED session
        \/ SignOut(c[1], calls)
        \/ Becomes(c, r) /\ UNCHANGED session
    BY <1>5, <1>7, <2>0 DEF RefreshToken
  <2>3. r \in RequestType /\ r.at = "signed" /\ r.pair.user = account[c[1]]
    <3>1. Signed(account[c[1]]) \in Pair /\ Signed(account[c[1]]).user = account[c[1]]
      BY <1>1, SignedIsAPair DEF RestOK
    <3>2. "signed" \in Stage /\ call[c].for \in Purpose
      BY <1>2 DEF Stage, Creating, RequestType
    <3> QED
      BY <1>2, <2>0, <3>1, <3>2, RequestIsOfItsParts
  <2>4. CallOK(c, r)'
    BY <2>1, <2>3 DEF CallOK
  <2>5. CASE SignOut(c[1], calls)
    BY <1>1, <1>6, <2>1, <2>5, SignOutKeepsSessionsInv
  <2> QED
    BY <1>3, <1>4, <2>1, <2>2, <2>3, <2>4, <2>5
<1>8. CASE Answer(c)
  <2>1. /\ UNCHANGED <<account, now, jwts, left, fails>> /\ call[c].at = "saved"
        /\ FindOne(jwts, call[c].pair) # 0
    BY <1>1, <1>8 DEF Answer, CallOK
  <2>2. session' = IF call[c].for \in {"get", "logout"}
                   THEN [session EXCEPT ![c[1]] = call[c].pair] ELSE session
    BY <1>8 DEF Answer
  <2>3. CASE call[c].for = "nobody"
    BY <1>3, <1>4, <1>8, <2>1, <2>2, <2>3 DEF Answer
  <2>4. CASE call[c].for = "login"
    <3>0. PICK r : r = [call[c] EXCEPT !.at = "verify"]
      OBVIOUS
    <3>1. r \in RequestType /\ r.at = "verify" /\ r.pair = call[c].pair
      BY <1>2, <3>0 DEF RequestType, Stage
    <3>2. Becomes(c, r) /\ session' = session
      BY <1>8, <2>2, <2>4, <3>0 DEF Answer
    <3>3. CallOK(c, r)'
      BY <1>2, <2>1, <3>1 DEF CallOK
    <3> QED
      BY <1>3, <2>1, <3>1, <3>2, <3>3
  <2>5. CASE call[c].for \in {"get", "logout"}
    <3>0. PICK r : r = [call[c] EXCEPT !.at = "sent"]
      OBVIOUS
    <3>1. r \in RequestType /\ r.at = "sent" /\ r.pair = call[c].pair
      BY <1>2, <3>0 DEF RequestType, Stage
    <3>2. Becomes(c, r) /\ session' = [session EXCEPT ![c[1]] = call[c].pair]
      BY <1>8, <2>2, <2>5, <3>0 DEF Answer
    <3>3. session'[c[1]] = call[c].pair /\ call[c].pair # NoPair
      BY <1>1, <1>2, <3>2, NoPairAssumption DEF RestOK
    <3>4. CallOK(c, r)'
      BY <1>2, <2>1, <3>1, <3>3 DEF CallOK
    <3> QED
      BY <1>3, <2>1, <3>1, <3>2, <3>4
  <2> QED
    BY <1>2, <2>3, <2>4, <2>5 DEF RequestType, Purpose
<1>9. CASE VerifyRole(c)
  <2>1. UNCHANGED <<account, now, jwts, left, fails>>
    BY <1>9 DEF VerifyRole
  <2>2. \/ Becomes(c, Idle) /\ UNCHANGED session
        \/ SignOut(c[1], calls)
        \/ /\ Becomes(c, Idle) /\ session' = [session EXCEPT ![c[1]] = call[c].pair]
           /\ Enabled(call[c].pair)
    BY <1>5, <1>9 DEF VerifyRole
  <2>3. Enabled(call[c].pair) => FindOne(jwts, call[c].pair) # 0
    BY DEF Enabled
  <2>4. CASE SignOut(c[1], calls)
    BY <1>1, <1>6, <2>1, <2>4, SignOutKeepsSessionsInv
  <2> QED
    BY <1>3, <1>4, <2>1, <2>2, <2>3, <2>4
<1> QED
  BY <1>7, <1>8, <1>9

----------------------------------------------------------------------------

\* At first nobody has a pair.
LEMMA InitSessionsInv == Init => SessionsTypeOK /\ CallsHaveTheirPairs /\ RoomForTheSaves
<1> SUFFICES ASSUME Init PROVE SessionsTypeOK /\ CallsHaveTheirPairs /\ RoomForTheSaves
  OBVIOUS
<1>1. SessionsTypeOK /\ CallsHaveTheirPairs
  BY SessionsBoundAssumption DEF Init, SessionsTypeOK, CallsHaveTheirPairs, Idle, Stage
<1>2. ASSUME NEW u \in User
      PROVE  Cardinality(EnabledOf(u)) + Cardinality(SavesOf(u)) <= Cardinality(CallsOf(u))
  <2>1. EnabledOf(u) = {} /\ SavesOf(u) = {}
    BY DEF Init, EnabledOf, SavesOf, CallsOf, Idle
  <2>2. Cardinality(EnabledOf(u)) = 0 /\ Cardinality(SavesOf(u)) = 0
    BY <2>1, FS_EmptySet
  <2>3. Cardinality(CallsOf(u)) \in Nat
    BY <1>1, CountsAreFinite DEF SessionsTypeOK, Doc
  <2> QED
    BY <2>2, <2>3
<1> QED
  BY <1>1, <1>2 DEF RoomForTheSaves

\* However the logins, the refreshes and the failures overlap, an account has no
\* more enabled pairs of tokens than requests that it can have in flight, and a
\* tab holds a pair of its own account that the service has kept (jwt.ts:57-58).
THEOREM FewPairsAreEnabled == Spec => []SessionsInv
<1> DEFINE IInv == SessionsTypeOK /\ CallsHaveTheirPairs /\ RoomForTheSaves
<1>1. IInv => SessionsInv
  BY RoomMeansFew DEF SessionsInv, SessionsTypeOK, Doc
<1>2. IInv /\ [Next]_vars => IInv'
  <2> SUFFICES ASSUME IInv, [Next]_vars PROVE IInv'
    OBVIOUS
  <2>0. SessionsInv
    BY <1>1
  <2>1. CASE UNCHANGED vars
    BY <2>1 DEF vars, SessionsTypeOK, CallsHaveTheirPairs, RoomForTheSaves,
                EnabledOf, SavesOf, CallsOf
  <2>2. ASSUME NEW c \in Call,
               \/ Login(c) \/ \E for \in {"get", "logout"} : Send(c, for)
               \/ Serve(c) \/ Fail(c)
        PROVE  IInv'
    BY <2>0, <2>2, StartKeepsSessionsInv, ReadKeepsSessionsInv,
       WriteKeepsSessionsInv, AnswerKeepsSessionsInv DEF Serve
  <2>3. ASSUME NEW t \in Tab, Logout(t) PROVE IInv'
    <3>1. PICK calls : calls = call
      OBVIOUS
    <3>2. SignOut(t, calls) /\ UNCHANGED <<account, now, jwts, left, fails>>
      BY <2>3, <3>1 DEF Logout
    <3> QED
      BY <2>0, <3>1, <3>2, SignOutKeepsSessionsInv
  <2>4. CASE Tick
    BY <2>4 DEF Tick, SessionsTypeOK, CallsHaveTheirPairs, RoomForTheSaves,
                EnabledOf, SavesOf, CallsOf
  <2> QED
    BY <2>1, <2>2, <2>3, <2>4 DEF Next
<1> QED
  BY <1>1, <1>2, InitSessionsInv, PTL DEF Spec

----------------------------------------------------------------------------
(* A tab that is alone with its account *)

\* The first document of the pair is enabled.
EnabledIn(docs, pair) ==
    \E i \in DOMAIN docs :
        /\ docs[i].pair = pair /\ docs[i].enabled
        /\ \A j \in DOMAIN docs : j < i => docs[j].pair # pair

\* It is what the model asks of a pair.
LEMMA EnabledIs ==
    ASSUME NEW docs \in Seq(Doc), NEW pair
    PROVE  FindOne(docs, pair) # 0 /\ docs[FindOne(docs, pair)].enabled <=> EnabledIn(docs, pair)
<1>1. PICK k : k = FindOne(docs, pair)
  OBVIOUS
<1>2. DOMAIN docs = 1 .. Len(docs) /\ Len(docs) \in Nat
  OBVIOUS
<1>3. /\ k # 0 <=> \E i \in DOMAIN docs : docs[i].pair = pair
      /\ k # 0 => /\ k \in DOMAIN docs /\ docs[k].pair = pair
                  /\ \A i \in DOMAIN docs : docs[i].pair = pair => k <= i
  BY <1>1, FindOneFinds
<1>4. ASSUME k # 0, docs[k].enabled PROVE EnabledIn(docs, pair)
  <2>1. \A j \in DOMAIN docs : j < k => docs[j].pair # pair
    BY <1>2, <1>3, <1>4
  <2> QED
    BY <1>3, <1>4, <2>1 DEF EnabledIn
<1>5. ASSUME EnabledIn(docs, pair) PROVE k # 0 /\ docs[k].enabled
  <2>1. PICK i \in DOMAIN docs : /\ docs[i].pair = pair /\ docs[i].enabled
                                 /\ \A j \in DOMAIN docs : j < i => docs[j].pair # pair
    BY <1>5 DEF EnabledIn
  <2>2. k # 0 /\ k \in DOMAIN docs /\ docs[k].pair = pair /\ k <= i
    BY <1>3, <2>1
  <2>3. k = i
    BY <1>2, <2>1, <2>2
  <2> QED
    BY <2>1, <2>2, <2>3
<1> QED
  BY <1>1, <1>4, <1>5

\* The documents of an account were signed by, or before, some second; the ones that
\* are enabled have a certain pair, or none is.
Upto(docs, u, n)   == \A i \in DOMAIN docs : docs[i].pair.user = u => docs[i].pair.iat <= n
Before(docs, u, n) == \A i \in DOMAIN docs : docs[i].pair.user = u => docs[i].pair.iat < n

OnlyEnabled(docs, u, pairs) ==
    \A i \in DOMAIN docs : docs[i].pair.user = u /\ docs[i].enabled => docs[i].pair \in pairs

Own == {"get", "logout"}

\* Its document is enabled, but for a logout.
Honoured(docs, gone, pair) == pair \in gone \/ EnabledIn(docs, pair)

\* What is kept of a request r of a tab that is alone with its account u and holds p: a
\* pair that is made for it is later than those there were, since the token that it
\* replaces had to expire first.
InOrder(u, r, docs, p, gone, time) ==
    /\ r # Idle /\ r.for \in Own => p # NoPair
    /\ r.at \in {"sent", "expired"} => r.for \in Own
    /\ r.at = "verify" => r.for = "login"
    /\ r.at \in Renewing \cup {"verify"} /\ r.for \notin Own => p = NoPair
    /\ r.at \in {"expired", "refresh"} /\ r.for \in Own => r.pair = p /\ p.iat + ATLife <= time
    /\ r.at \in Creating \cup {"verify"} => r.pair.iat <= time /\ Upto(docs, u, r.pair.iat)
    /\ r.at \in {"signed", "disabled"} /\ r.for \in Own => Before(docs, u, r.pair.iat)
    /\ r.at = "disabled" => OnlyEnabled(docs, u, {})
    /\ r.at \in {"saved", "verify"} => OnlyEnabled(docs, u, {r.pair})
    /\ r.at = "saved" /\ r.for \in Own => Honoured(docs, gone, r.pair)

\* None of the requests rs has disabled the pairs, or makes one.
NoneDisables(rs) == \A s \in Slot : rs[s].at \notin {"disabled", "saved"}
NoneCreates(rs)  == \A s \in Slot : rs[s].at \notin Creating

\* One that renews, or that ends a login.
Acts(r) == r.at \in Renewing \cup {"verify"}

\* What is kept of the tab: one request acts, and but for what that is doing the tab
\* holds the latest of the pairs of its account, the only one that is enabled.
Orderly(u, rs, docs, p, gone, time) ==
    /\ Upto(docs, u, time)
    /\ \A s \in Slot : InOrder(u, rs[s], docs, p, gone, time)
    /\ \A s, o \in Slot : Acts(rs[s]) /\ Acts(rs[o]) => s = o
    /\ p # NoPair /\ NoneDisables(rs) => OnlyEnabled(docs, u, {p})
    /\ p # NoPair /\ NoneCreates(rs) => Upto(docs, u, p.iat) /\ Honoured(docs, gone, p)

\* What is known of the types.
Typed(u, rs, docs, p, time) ==
    /\ u \in User /\ docs \in Seq(Doc) /\ time \in Nat
    /\ p \in Pair \cup {NoPair} /\ (p # NoPair => p.user = u)
    /\ rs \in [Slot -> {Idle} \cup RequestType]
    /\ \A s \in Slot : rs[s] # Idle => rs[s].pair.user = u

\* Time goes by, pairs leave, and the documents of others change: it is kept.
LEMMA DocumentsKeepOrder ==
    ASSUME NEW u, NEW rs, NEW docs, NEW p, NEW gone, NEW time,
           Typed(u, rs, docs, p, time), Orderly(u, rs, docs, p, gone, time),
           NEW more \in Seq(Doc), NEW left2, gone \subseteq left2,
           NEW later \in Nat, time <= later,
           \A i \in DOMAIN docs :
              /\ i \in DOMAIN more /\ more[i].pair = docs[i].pair
              /\ docs[i].pair.user = u /\ more[i].enabled => docs[i].enabled
              /\ docs[i].pair.user = u /\ docs[i].enabled =>
                    more[i].enabled \/ docs[i].pair \in left2,
           \A i \in DOMAIN more : i \in DOMAIN docs \/ more[i].pair.user # u
    PROVE  Orderly(u, rs, more, p, left2, later)
<1>1. \A i \in DOMAIN docs : docs[i].pair.iat \in Nat
  <2>1. \A i \in DOMAIN docs : docs[i] \in Doc
    BY DEF Typed
  <2> QED
    BY <2>1 DEF Doc, Pair
<1>2. /\ \A n : Upto(docs, u, n) => Upto(more, u, n)
      /\ \A n : Before(docs, u, n) => Before(more, u, n)
      /\ \A pairs : OnlyEnabled(docs, u, pairs) => OnlyEnabled(more, u, pairs)
  BY DEF Upto, Before, OnlyEnabled
<1>3. ASSUME NEW q, q.user = u, Honoured(docs, gone, q) PROVE Honoured(more, left2, q)
  <2>1. CASE q \in gone
    BY <2>1 DEF Honoured
  <2>2. CASE EnabledIn(docs, q)
    <3>1. PICK i \in DOMAIN docs : /\ docs[i].pair = q /\ docs[i].enabled
                                   /\ \A j \in DOMAIN docs : j < i => docs[j].pair # q
      BY <2>2 DEF EnabledIn
    <3>2. /\ i \in DOMAIN more /\ more[i].pair = q
          /\ more[i].enabled \/ q \in left2
      BY <1>3, <3>1
    <3>3. \A j \in DOMAIN more : j < i => more[j].pair # q
      BY <1>3, <3>1
    <3> QED
      BY <3>2, <3>3 DEF EnabledIn, Honoured
  <2> QED
    BY <1>3, <2>1, <2>2 DEF Honoured
<1>4. Upto(more, u, later)
  <2>1. Upto(docs, u, time) /\ time \in Nat
    BY DEF Orderly, Typed
  <2>2. Upto(docs, u, later)
    BY <1>1, <2>1 DEF Upto
  <2> QED
    BY <1>2, <2>2
<1>5. ASSUME NEW s \in Slot PROVE InOrder(u, rs[s], more, p, left2, later)
  <2>1. PICK r : r = rs[s]
    OBVIOUS
  <2>2. /\ InOrder(u, r, docs, p, gone, time) /\ time \in Nat
        /\ r # Idle => r.pair.iat \in Nat /\ r.pair.user = u
        /\ p # NoPair => p.iat \in Nat
    BY <2>1 DEF Orderly, Typed, RequestType, Pair
  <2>3. r.at \in {"expired", "refresh"} /\ r.for \in Own => r.pair = p /\ p.iat + ATLife <= later
    <3> SUFFICES ASSUME r.at \in {"expired", "refresh"}, r.for \in Own
                 PROVE  r.pair = p /\ p.iat + ATLife <= later
      OBVIOUS
    <3>1. r # Idle
      BY DEF Idle
    <3>2. r.pair = p /\ p.iat + ATLife <= time /\ p.iat \in Nat
      BY <2>2, <3>1 DEF InOrder
    <3> QED
      BY <2>2, <3>2, LifeAssumption
  <2>4. r.at \in Creating \cup {"verify"} => r.pair.iat <= later /\ Upto(more, u, r.pair.iat)
    <3> SUFFICES ASSUME r.at \in Creating \cup {"verify"}
                 PROVE  r.pair.iat <= later /\ Upto(more, u, r.pair.iat)
      OBVIOUS
    <3>1. r # Idle
      BY DEF Idle, Creating
    <3> QED
      BY <1>2, <2>2, <3>1 DEF InOrder
  <2>5. r.at = "saved" /\ r.for \in Own => Honoured(more, left2, r.pair)
    <3>1. r.at = "saved" => r # Idle
      BY DEF Idle
    <3> QED
      BY <1>3, <2>2, <3>1 DEF InOrder
  <2>6. InOrder(u, r, more, p, left2, later)
    BY <1>2, <2>2, <2>3, <2>4, <2>5 DEF InOrder
  <2> QED
    BY <2>1, <2>6
<1>6. p # NoPair => p.user = u
  BY DEF Typed
<1>7. /\ \A s, o \in Slot : Acts(rs[s]) /\ Acts(rs[o]) => s = o
      /\ p # NoPair /\ NoneDisables(rs) => OnlyEnabled(more, u, {p})
      /\ p # NoPair /\ NoneCreates(rs) => Upto(more, u, p.iat) /\ Honoured(more, left2, p)
  BY <1>2, <1>3, <1>6 DEF Orderly
<1> QED
  BY <1>4, <1>5, <1>7 DEF Orderly

\* A request that does not act ends, or goes on and still does not act.
LEMMA CalmKeepsOrder ==
    ASSUME NEW u, NEW rs, NEW docs, NEW p, NEW gone, NEW time,
           Typed(u, rs, docs, p, time), Orderly(u, rs, docs, p, gone, time),
           NEW s \in Slot, ~Acts(rs[s]),
           NEW q, ~Acts(q), InOrder(u, q, docs, p, gone, time)
    PROVE  Orderly(u, [rs EXCEPT ![s] = q], docs, p, gone, time)
<1>1. PICK rs2 : rs2 = [rs EXCEPT ![s] = q]
  OBVIOUS
<1>2. rs2[s] = q /\ \A o \in Slot : o # s => rs2[o] = rs[o]
  BY <1>1 DEF Typed
<1>3. /\ NoneDisables(rs2) => NoneDisables(rs)
      /\ NoneCreates(rs2) => NoneCreates(rs)
  BY <1>2 DEF NoneDisables, NoneCreates, Acts, Renewing, Creating
<1>4. \A a, b \in Slot : Acts(rs2[a]) /\ Acts(rs2[b]) => a = b
  <2>1. \A a \in Slot : Acts(rs2[a]) => a # s /\ Acts(rs[a])
    BY <1>2
  <2> QED
    BY <2>1 DEF Orderly
<1>5. \A o \in Slot : InOrder(u, rs2[o], docs, p, gone, time)
  BY <1>2 DEF Orderly
<1>6. Orderly(u, rs2, docs, p, gone, time)
  BY <1>3, <1>4, <1>5 DEF Orderly
<1> QED
  BY <1>1, <1>6

\* The only request of the tab that acts moves on: what matters is what becomes of it.
LEMMA ActingKeepsOrder ==
    ASSUME NEW u, NEW rs, NEW docs, NEW p, NEW gone, NEW time,
           Typed(u, rs, docs, p, time), Orderly(u, rs, docs, p, gone, time),
           NEW s \in Slot, \A o \in Slot : Acts(rs[o]) => o = s,
           NEW q, NEW more, NEW p2, p2 # NoPair \/ p2 = p,
           Upto(more, u, time), InOrder(u, q, more, p2, gone, time),
           p2 # NoPair /\ q.at \notin {"disabled", "saved"} => OnlyEnabled(more, u, {p2}),
           p2 # NoPair /\ q.at \notin Creating => Upto(more, u, p2.iat) /\ Honoured(more, gone, p2)
    PROVE  Orderly(u, [rs EXCEPT ![s] = q], more, p2, gone, time)
<1>1. PICK rs2 : rs2 = [rs EXCEPT ![s] = q]
  OBVIOUS
<1>2. rs2[s] = q /\ \A o \in Slot : o # s => rs2[o] = rs[o]
  BY <1>1 DEF Typed
<1>3. /\ NoneDisables(rs2) => q.at \notin {"disabled", "saved"}
      /\ NoneCreates(rs2) => q.at \notin Creating
  BY <1>2 DEF NoneDisables, NoneCreates
<1>4. \A a, b \in Slot : Acts(rs2[a]) /\ Acts(rs2[b]) => a = b
  BY <1>2
<1>5. ASSUME NEW o \in Slot, o # s PROVE InOrder(u, rs2[o], more, p2, gone, time)
  <2>1. PICK r : r = rs[o]
    OBVIOUS
  <2>2. ~Acts(r) /\ InOrder(u, r, docs, p, gone, time)
    BY <1>5, <2>1 DEF Orderly
  <2>3. InOrder(u, r, more, p2, gone, time)
    BY <2>2 DEF InOrder, Acts, Renewing, Creating
  <2> QED
    BY <1>2, <1>5, <2>1, <2>3
<1>6. \A o \in Slot : InOrder(u, rs2[o], more, p2, gone, time)
  BY <1>2, <1>5
<1>7. Orderly(u, rs2, more, p2, gone, time)
  BY <1>3, <1>4, <1>6 DEF Orderly
<1> QED
  BY <1>1, <1>7

\* A request ends that makes no pair, or when the tab has none.
LEMMA EndKeepsOrder ==
    ASSUME NEW u, NEW rs, NEW docs, NEW p, NEW gone, NEW time,
           Typed(u, rs, docs, p, time), Orderly(u, rs, docs, p, gone, time),
           NEW s \in Slot, p = NoPair \/ rs[s].at \notin Creating
    PROVE  Orderly(u, [rs EXCEPT ![s] = Idle], docs, p, gone, time)
<1>1. PICK rs2 : rs2 = [rs EXCEPT ![s] = Idle]
  OBVIOUS
<1>2. rs2[s] = Idle /\ \A o \in Slot : o # s => rs2[o] = rs[o]
  BY <1>1 DEF Typed
<1>3. InOrder(u, Idle, docs, p, gone, time) /\ ~Acts(Idle)
  BY DEF InOrder, Idle, Renewing, Creating, Acts
<1>4. p # NoPair => /\ NoneDisables(rs2) => NoneDisables(rs)
                    /\ NoneCreates(rs2) => NoneCreates(rs)
  BY <1>2 DEF NoneDisables, NoneCreates, Creating
<1>5. \A a, b \in Slot : Acts(rs2[a]) /\ Acts(rs2[b]) => a = b
  BY <1>2, <1>3 DEF Orderly
<1>6. \A o \in Slot : InOrder(u, rs2[o], docs, p, gone, time)
  BY <1>2, <1>3 DEF Orderly
<1>7. Orderly(u, rs2, docs, p, gone, time)
  BY <1>4, <1>5, <1>6 DEF Orderly
<1> QED
  BY <1>1, <1>7

\* The tab is signed out: what is at work goes on for nobody.
LEMMA SignOutKeepsOrder ==
    ASSUME NEW u, NEW rs, NEW docs, NEW p, NEW gone, NEW time,
           Typed(u, rs, docs, p, time), Orderly(u, rs, docs, p, gone, time),
           NEW rs2, \A o \in Slot : rs2[o] = Idle \/ rs2[o] = Orphan(rs[o])
    PROVE  Orderly(u, rs2, docs, NoPair, gone, time)
<1>1. ASSUME NEW o \in Slot
      PROVE  /\ InOrder(u, rs2[o], docs, NoPair, gone, time)
             /\ Acts(rs2[o]) => Acts(rs[o])
  <2>1. PICK r, q : r = rs[o] /\ q = rs2[o]
    OBVIOUS
  <2>2. InOrder(u, r, docs, p, gone, time) /\ r \in {Idle} \cup RequestType
    BY <2>1 DEF Orderly, Typed
  <2>3. CASE q = Idle
    BY <2>1, <2>3 DEF InOrder, Idle, Renewing, Creating, Acts
  <2>4. CASE q # Idle
    <3>1. r.at \in {"refresh", "leaving"} \cup Creating /\ q = [r EXCEPT !.for = "nobody"]
      BY <1>1, <2>1, <2>4 DEF Orphan
    <3>2. r \in RequestType /\ r # Idle
      BY <2>2, <3>1 DEF Idle, Creating
    <3>3. q.at = r.at /\ q.pair = r.pair /\ q.for = "nobody"
      BY <3>1, <3>2 DEF RequestType
    <3>4. InOrder(u, q, docs, NoPair, gone, time)
      BY <2>2, <3>1, <3>3 DEF InOrder, Own, Creating
    <3> QED
      BY <2>1, <3>3, <3>4 DEF Acts
  <2> QED
    BY <2>3, <2>4
<1> QED
  BY <1>1 DEF Orderly

----------------------------------------------------------------------------
(* The steps of a tab that is alone with its account *)

Requests(t) == [s \in Slot |-> call[<<t, s>>]]

InItsOrder(t) == Orderly(account[t], Requests(t), jwts, session[t], left, now)

\* The types of a tab, and its documents.
LEMMA TabIsTyped ==
    ASSUME SessionsInv, NEW t \in Tab
    PROVE  /\ Typed(account[t], Requests(t), jwts, session[t], now)
           /\ DOMAIN call = Call
           /\ \A s \in Slot : <<t, s>> \in Call /\ CallOK(<<t, s>>, call[<<t, s>>])
           /\ session \in [Tab -> Pair \cup {NoPair}]
<1>1. RestOK /\ DOMAIN call = Call /\ \A c \in Call : CallOK(c, call[c])
  BY Parts DEF SessionsInv
<1>2. \A s \in Slot : <<t, s>> \in Call /\ CallOK(<<t, s>>, call[<<t, s>>])
  BY <1>1 DEF Call
<1>3. /\ Requests(t) \in [Slot -> {Idle} \cup RequestType]
      /\ \A s \in Slot : Requests(t)[s] # Idle => Requests(t)[s].pair.user = account[t]
  BY <1>2 DEF Requests, CallOK
<1> QED
  BY <1>1, <1>2, <1>3 DEF RestOK, Typed

\* A request of the tab moves on.
LEMMA RequestMoves ==
    ASSUME SessionsInv, NEW t \in Tab, NEW s \in Slot, NEW q, Becomes(<<t, s>>, q)
    PROVE  Requests(t)' = [Requests(t) EXCEPT ![s] = q]
BY TabIsTyped DEF Becomes, Requests

\* The tab is signed out.
LEMMA RequestsAreLeft ==
    ASSUME SessionsInv, NEW t \in Tab, NEW calls, SignOut(t, calls)
    PROVE  /\ session'[t] = NoPair
           /\ \A s \in Slot : Requests(t)'[s] = Orphan(calls[<<t, s>>])
BY TabIsTyped DEF SignOut, Requests

\* Records that become others: what is left of them.
LEMMA NextStage ==
    ASSUME NEW r \in RequestType, NEW at \in Stage, NEW q, q = [r EXCEPT !.at = at]
    PROVE  q.at = at /\ q.pair = r.pair /\ q.for = r.for /\ q # Idle
BY DEF RequestType, Idle

\* A request of the tab, what it holds and its documents, as constants.
LEMMA OwnIsTyped ==
    ASSUME SessionsInv, NEW t \in Tab, InItsOrder(t), NEW s \in Slot, call[<<t, s>>] # Idle
    PROVE  \E u \in User, rs \in [Slot -> {Idle} \cup RequestType], r \in RequestType,
              docs \in Seq(Doc), p \in Pair \cup {NoPair}, time \in Nat :
              /\ u = account[t] /\ rs = Requests(t) /\ r = call[<<t, s>>] /\ r = rs[s]
              /\ docs = jwts /\ p = session[t] /\ time = now
              /\ r # Idle /\ r.pair.user = u /\ (p # NoPair => p.user = u)
              /\ r.pair \in Pair /\ r.pair.iat \in Nat
              /\ (p # NoPair => p \in Pair /\ p.iat \in Nat)
              /\ Typed(u, rs, docs, p, time)
              /\ Orderly(u, rs, docs, p, left, time)
              /\ InOrder(u, r, docs, p, left, time)
<1>1. Typed(account[t], Requests(t), jwts, session[t], now)
  BY TabIsTyped
<1>2. /\ account[t] \in User /\ jwts \in Seq(Doc)
      /\ Requests(t) \in [Slot -> {Idle} \cup RequestType]
      /\ session[t] \in Pair \cup {NoPair} /\ now \in Nat
      /\ session[t] # NoPair => session[t].user = account[t]
  BY <1>1 DEF Typed
<1>3. Requests(t)[s] = call[<<t, s>>]
  BY DEF Requests
<1>4. call[<<t, s>>] \in RequestType /\ call[<<t, s>>].pair.user = account[t]
  BY <1>1, <1>2, <1>3 DEF Typed
<1>5. /\ call[<<t, s>>].pair \in Pair /\ call[<<t, s>>].pair.iat \in Nat
      /\ session[t] # NoPair => session[t] \in Pair /\ session[t].iat \in Nat
  BY <1>2, <1>4 DEF RequestType, Pair
<1>6. /\ Orderly(account[t], Requests(t), jwts, session[t], left, now)
      /\ InOrder(account[t], call[<<t, s>>], jwts, session[t], left, now)
  BY <1>3 DEF InItsOrder, Orderly
<1> QED
  BY <1>1, <1>2, <1>3, <1>4, <1>5, <1>6

\* No other request of the tab acts when one does.
LEMMA OneActs ==
    ASSUME NEW t \in Tab, InItsOrder(t), NEW s \in Slot, Acts(call[<<t, s>>])
    PROVE  \A o \in Slot : Acts(Requests(t)[o]) => o = s
BY DEF InItsOrder, Orderly, Requests

\* What is enabled is the pair of the tab, but while another is made.
LEMMA EnabledIsHeld ==
    ASSUME NEW u, NEW rs, NEW docs, NEW p, NEW gone, NEW time,
           Orderly(u, rs, docs, p, gone, time), p # NoPair, NoneDisables(rs),
           NEW q, q.user = u, EnabledIn(docs, q)
    PROVE  q = p
<1>1. OnlyEnabled(docs, u, {p})
  BY DEF Orderly
<1> QED
  BY <1>1 DEF OnlyEnabled, EnabledIn

\* The service reads the token of a request. One that is told that it expired was sent
\* with the pair that the tab holds, as that is the one which is enabled.
LEMMA AuthenticateKeepsOrder ==
    ASSUME SessionsInv, NEW t \in Tab, InItsOrder(t), NEW s \in Slot,
           Authenticate(<<t, s>>), Apart(t)'
    PROVE  InItsOrder(t)'
<1>1. call[<<t, s>>] # Idle
  BY DEF Authenticate, Idle
<1>2. PICK u \in User, rs \in [Slot -> {Idle} \cup RequestType], r \in RequestType,
           docs \in Seq(Doc), p \in Pair \cup {NoPair}, time \in Nat :
              /\ u = account[t] /\ rs = Requests(t) /\ r = call[<<t, s>>] /\ r = rs[s]
              /\ docs = jwts /\ p = session[t] /\ time = now
              /\ r # Idle /\ r.pair.user = u /\ (p # NoPair => p.user = u)
              /\ r.pair \in Pair /\ r.pair.iat \in Nat
              /\ (p # NoPair => p \in Pair /\ p.iat \in Nat)
              /\ Typed(u, rs, docs, p, time)
              /\ Orderly(u, rs, docs, p, left, time)
              /\ InOrder(u, r, docs, p, left, time)
  BY <1>1, OwnIsTyped
<1>3. PICK q : /\ Becomes(<<t, s>>, q)
               /\ \/ q = Idle
                  \/ /\ q = [r EXCEPT !.at = "expired"]
                     /\ Enabled(r.pair) /\ time >= r.pair.iat + ATLife
                  \/ q = [r EXCEPT !.at = "leaving"]
  BY <1>2 DEF Authenticate, AccessExpired
<1>4. /\ UNCHANGED <<account, now, jwts, session, left>> /\ r.at = "sent"
      /\ Requests(t)' = [rs EXCEPT ![s] = q]
  BY <1>2, <1>3, RequestMoves DEF Authenticate
<1>5. ~Acts(r) /\ r.at \notin Creating /\ r.for \in Own /\ p # NoPair
  BY <1>2, <1>4 DEF Acts, Renewing, Creating, InOrder
<1>6. CASE q = Idle
  <2>1. Orderly(u, [rs EXCEPT ![s] = Idle], docs, p, left, time)
    BY <1>2, <1>5, EndKeepsOrder
  <2> QED
    BY <1>2, <1>4, <1>6, <2>1 DEF InItsOrder
<1>7. CASE q = [r EXCEPT !.at = "leaving"]
  <2>0. "leaving" \in Stage
    BY DEF Stage
  <2>1. q.at = "leaving" /\ q.pair = r.pair /\ q.for = r.for /\ q # Idle
    BY <1>7, <2>0, NextStage
  <2>2. InOrder(u, q, docs, p, left, time) /\ ~Acts(q)
    BY <1>5, <2>1 DEF InOrder, Acts, Renewing, Creating
  <2>3. Orderly(u, [rs EXCEPT ![s] = q], docs, p, left, time)
    BY <1>2, <1>5, <2>2, CalmKeepsOrder
  <2> QED
    BY <1>2, <1>4, <2>3 DEF InItsOrder
<1>8. CASE q = [r EXCEPT !.at = "expired"] /\ Enabled(r.pair) /\ time >= r.pair.iat + ATLife
  <2>0. "expired" \in Stage
    BY DEF Stage
  <2>1. q.at = "expired" /\ q.pair = r.pair /\ q.for = r.for /\ q # Idle
    BY <1>8, <2>0, NextStage
  <2>2. PICK rs2 : /\ rs2 = [rs EXCEPT ![s] = q] /\ rs2 = Requests(t)'
                   /\ rs2[s] = q /\ \A o \in Slot : o # s => rs2[o] = rs[o]
    BY <1>4
  <2>3. \A o \in Slot : rs2[o].at \in Renewing => o = s
    <3>1. \A a, b \in Slot : rs2[a].at \in Renewing /\ rs2[b].at \in Renewing => a = b
      BY <2>2 DEF Apart, Requests
    <3> QED
      BY <2>1, <2>2, <3>1 DEF Renewing
  <2>4. \A o \in Slot : Acts(rs[o]) => o = s
    <3> SUFFICES ASSUME NEW o \in Slot, Acts(rs[o]), o # s PROVE FALSE
      OBVIOUS
    <3>1. rs[o].at = "verify"
      BY <2>2, <2>3 DEF Acts
    <3>2. p = NoPair
      BY <1>2, <3>1 DEF Orderly, InOrder, Own
    <3> QED
      BY <1>5, <3>2
  <2>5. NoneDisables(rs) /\ NoneCreates(rs)
    BY <1>2, <1>4, <2>4 DEF NoneDisables, NoneCreates, Acts, Renewing, Creating
  <2>6. r.pair = p
    <3>1. EnabledIn(docs, r.pair)
      BY <1>2, <1>8, EnabledIs DEF Enabled
    <3> QED
      BY <1>2, <1>5, <2>5, <3>1, EnabledIsHeld
  <2>7. p.iat + ATLife <= time
    BY <1>2, <1>8, <2>6, LifeAssumption
  <2>8. InOrder(u, q, docs, p, left, time)
    BY <1>2, <1>5, <2>1, <2>6, <2>7 DEF InOrder, Creating
  <2>9. /\ Upto(docs, u, time) /\ OnlyEnabled(docs, u, {p})
        /\ Upto(docs, u, p.iat) /\ Honoured(docs, left, p)
    BY <1>2, <1>5, <2>5 DEF Orderly
  <2>10. Orderly(u, [rs EXCEPT ![s] = q], docs, p, left, time)
    BY <1>2, <2>4, <2>8, <2>9, ActingKeepsOrder
  <2> QED
    BY <1>2, <1>4, <2>10 DEF InItsOrder
<1> QED
  BY <1>3, <1>6, <1>7, <1>8

\* A refresh: what it signs is later than what the tab holds, which has expired.
LEMMA RefreshKeepsOrder ==
    ASSUME SessionsInv, NEW t \in Tab, InItsOrder(t), NEW s \in Slot,
           RefreshAccessToken(<<t, s>>) \/ RefreshToken(<<t, s>>)
    PROVE  InItsOrder(t)'
<1>1. call[<<t, s>>] # Idle
  BY DEF RefreshAccessToken, RefreshToken, Idle
<1>2. PICK u \in User, rs \in [Slot -> {Idle} \cup RequestType], r \in RequestType,
           docs \in Seq(Doc), p \in Pair \cup {NoPair}, time \in Nat :
              /\ u = account[t] /\ rs = Requests(t) /\ r = call[<<t, s>>] /\ r = rs[s]
              /\ docs = jwts /\ p = session[t] /\ time = now
              /\ r # Idle /\ r.pair.user = u /\ (p # NoPair => p.user = u)
              /\ r.pair \in Pair /\ r.pair.iat \in Nat
              /\ (p # NoPair => p \in Pair /\ p.iat \in Nat)
              /\ Typed(u, rs, docs, p, time)
              /\ Orderly(u, rs, docs, p, left, time)
              /\ InOrder(u, r, docs, p, left, time)
  BY <1>1, OwnIsTyped
<1>3. /\ UNCHANGED <<account, now, jwts, left>>
      /\ r.at \in {"expired", "refresh"} /\ Acts(r) /\ r.at \notin Creating
  BY <1>2 DEF RefreshAccessToken, RefreshToken, Acts, Renewing, Creating
<1>4. \A o \in Slot : Acts(rs[o]) => o = s
  BY <1>2, <1>3, OneActs
<1>5. NoneDisables(rs) /\ NoneCreates(rs)
  BY <1>2, <1>3, <1>4 DEF NoneDisables, NoneCreates, Acts, Renewing, Creating
<1>6. /\ Upto(docs, u, time)
      /\ p # NoPair => /\ OnlyEnabled(docs, u, {p})
                       /\ Upto(docs, u, p.iat) /\ Honoured(docs, left, p)
  BY <1>2, <1>5 DEF Orderly
<1>7. CASE RefreshAccessToken(<<t, s>>)
  <2>1. PICK q : q = Request("refresh", p, r.for)
    OBVIOUS
  <2>2. r.at = "expired" /\ Becomes(<<t, s>>, q) /\ session' = session
    BY <1>2, <1>7, <2>1 DEF RefreshAccessToken
  <2>3. r.for \in Own /\ p = r.pair /\ p # NoPair /\ p.iat + ATLife <= time
    BY <1>2, <2>2 DEF InOrder
  <2>4. q.at = "refresh" /\ q.pair = p /\ q.for = r.for
    BY <2>1 DEF Request
  <2>5. InOrder(u, q, docs, p, left, time)
    BY <2>3, <2>4 DEF InOrder, Creating
  <2>6. Orderly(u, [rs EXCEPT ![s] = q], docs, p, left, time)
    BY <1>2, <1>4, <1>6, <2>5, ActingKeepsOrder
  <2>7. Requests(t)' = [rs EXCEPT ![s] = q]
    BY <1>2, <2>2, RequestMoves
  <2> QED
    BY <1>2, <1>3, <2>2, <2>6, <2>7 DEF InItsOrder
<1>8. CASE RefreshToken(<<t, s>>)
  <2>1. PICK q, calls : /\ q = Request("signed", Signed(u), r.for)
                        /\ calls = [call EXCEPT ![<<t, s>>] = Idle]
    OBVIOUS
  <2>2. \/ Becomes(<<t, s>>, Idle) /\ session' = session
        \/ SignOut(t, calls)
        \/ /\ Becomes(<<t, s>>, q) /\ session' = session /\ r.at = "refresh"
           /\ Enabled(r.pair) /\ r.pair.user = u
    BY <1>2, <1>8, <2>1 DEF RefreshToken
  <2>3. CASE Becomes(<<t, s>>, Idle) /\ session' = session
    <3>1. Orderly(u, [rs EXCEPT ![s] = Idle], docs, p, left, time)
      BY <1>2, <1>3, EndKeepsOrder
    <3>2. Requests(t)' = [rs EXCEPT ![s] = Idle]
      BY <1>2, <2>3, RequestMoves
    <3> QED
      BY <1>2, <1>3, <2>3, <3>1, <3>2 DEF InItsOrder
  <2>4. CASE SignOut(t, calls)
    <3>1. PICK rs2 : rs2 = Requests(t)'
      OBVIOUS
    <3>2. session'[t] = NoPair /\ \A o \in Slot : rs2[o] = Orphan(calls[<<t, o>>])
      BY <2>4, <3>1, RequestsAreLeft
    <3>3. \A o \in Slot : calls[<<t, o>>] = Idle \/ calls[<<t, o>>] = rs[o]
      <4>1. \A o \in Slot : rs[o] = call[<<t, o>>] /\ <<t, o>> \in DOMAIN call
        BY <1>2, TabIsTyped DEF Requests
      <4> QED
        BY <2>1, <4>1
    <3>4. Orphan(Idle) = Idle
      BY DEF Orphan, Idle, Creating
    <3>5. Orderly(u, rs2, docs, NoPair, left, time)
      BY <1>2, <3>2, <3>3, <3>4, SignOutKeepsOrder
    <3> QED
      BY <1>2, <1>3, <3>1, <3>2, <3>5 DEF InItsOrder
  <2>5. CASE /\ Becomes(<<t, s>>, q) /\ session' = session /\ r.at = "refresh"
             /\ Enabled(r.pair) /\ r.pair.user = u
    <3>1. q.at = "signed" /\ q.for = r.for /\ q.pair.iat = time /\ q # Idle
      BY <1>2, <2>1 DEF Request, Signed, Idle
    <3>2. r.for \in Own => Before(docs, u, time) /\ p # NoPair
      <4> SUFFICES ASSUME r.for \in Own
                   PROVE  Before(docs, u, time) /\ p # NoPair
        OBVIOUS
      <4>1. p = r.pair /\ p.iat + ATLife <= time /\ p # NoPair /\ p.iat \in Nat
        BY <1>2, <2>5 DEF InOrder
      <4>2. ASSUME NEW i \in DOMAIN docs, docs[i].pair.user = u
            PROVE  docs[i].pair.iat < time
        <5>1. docs[i].pair.iat <= p.iat
          BY <1>6, <4>1, <4>2 DEF Upto
        <5>2. docs[i] \in Doc
          BY <1>2
        <5>3. docs[i].pair.iat \in Nat
          BY <5>2 DEF Doc, Pair
        <5> QED
          BY <4>1, <5>1, <5>3, LifeAssumption
      <4> QED
        BY <4>1, <4>2 DEF Before
    <3>3. r.for \notin Own => p = NoPair
      BY <1>2, <1>3 DEF InOrder, Renewing
    <3>4. InOrder(u, q, docs, p, left, time)
      BY <1>2, <1>6, <3>1, <3>2, <3>3 DEF InOrder, Creating
    <3>5. Orderly(u, [rs EXCEPT ![s] = q], docs, p, left, time)
      BY <1>2, <1>4, <1>6, <3>4, ActingKeepsOrder
    <3>6. Requests(t)' = [rs EXCEPT ![s] = q]
      BY <1>2, <2>5, RequestMoves
    <3> QED
      BY <1>2, <1>3, <2>5, <3>5, <3>6 DEF InItsOrder
  <2> QED
    BY <2>2, <2>3, <2>4, <2>5
<1> QED
  BY <1>7, <1>8

\* A logout that the server is told of: the pair that is disabled has left.
LEMMA LeaveKeepsOrder ==
    ASSUME SessionsInv, SessionsInv', NEW t \in Tab, InItsOrder(t), NEW s \in Slot,
           Leave(<<t, s>>)
    PROVE  InItsOrder(t)'
<1>1. call[<<t, s>>] # Idle
  BY DEF Leave, Idle
<1>2. PICK u \in User, rs \in [Slot -> {Idle} \cup RequestType], r \in RequestType,
           docs \in Seq(Doc), p \in Pair \cup {NoPair}, time \in Nat :
              /\ u = account[t] /\ rs = Requests(t) /\ r = call[<<t, s>>] /\ r = rs[s]
              /\ docs = jwts /\ p = session[t] /\ time = now
              /\ r # Idle /\ r.pair.user = u /\ (p # NoPair => p.user = u)
              /\ r.pair \in Pair /\ r.pair.iat \in Nat
              /\ (p # NoPair => p \in Pair /\ p.iat \in Nat)
              /\ Typed(u, rs, docs, p, time)
              /\ Orderly(u, rs, docs, p, left, time)
              /\ InOrder(u, r, docs, p, left, time)
  BY <1>1, OwnIsTyped
<1>3. PICK rs2, more, gone : rs2 = Requests(t)' /\ more = jwts' /\ gone = left'
  OBVIOUS
<1>4. /\ UNCHANGED <<account, now, session>> /\ gone = left \cup {r.pair}
      /\ r.at = "leaving" /\ rs2 = [rs EXCEPT ![s] = Idle]
  <2>1. Becomes(<<t, s>>, Idle) /\ r.at = "leaving" /\ gone = left \cup {r.pair}
        /\ UNCHANGED <<account, now, session>>
    BY <1>2, <1>3 DEF Leave
  <2> QED
    BY <1>2, <1>3, <2>1, RequestMoves
<1>5. Orderly(u, rs2, docs, p, left, time)
  <2>1. r.at \notin Creating
    BY <1>4 DEF Creating
  <2> QED
    BY <1>2, <1>4, <2>1, EndKeepsOrder
<1>6. PICK k : k = FindOne(docs, r.pair)
  OBVIOUS
<1>7. k \in DOMAIN docs /\ docs[k].pair = r.pair
  <2>1. FindOne(docs, r.pair) # 0
    BY <1>2, <1>4, TabIsTyped DEF CallOK
  <2> QED
    BY <1>2, <1>6, <2>1, FindOneFinds
<1>8. /\ DOMAIN more = DOMAIN docs
      /\ \A i \in DOMAIN docs : /\ more[i].pair = docs[i].pair
                                /\ more[i].enabled => docs[i].enabled
                                /\ i # k => more[i] = docs[i]
  <2>1. more = [docs EXCEPT ![k].enabled = FALSE]
    BY <1>2, <1>3, <1>6 DEF Leave
  <2>2. \A i \in DOMAIN docs : docs[i] \in Doc
    BY <1>2
  <2> QED
    BY <2>1, <2>2 DEF Doc
<1>9. more \in Seq(Doc)
  BY <1>3 DEF SessionsInv, SessionsTypeOK, Doc
<1>10. Typed(u, rs2, docs, p, time)
  BY <1>2, <1>4 DEF Typed
<1>11. \A i \in DOMAIN docs :
          /\ i \in DOMAIN more /\ more[i].pair = docs[i].pair
          /\ docs[i].pair.user = u /\ more[i].enabled => docs[i].enabled
          /\ docs[i].pair.user = u /\ docs[i].enabled => more[i].enabled \/ docs[i].pair \in gone
  BY <1>4, <1>7, <1>8
<1>12. Orderly(u, rs2, more, p, gone, time)
  BY <1>2, <1>4, <1>5, <1>8, <1>9, <1>10, <1>11, DocumentsKeepOrder
<1> QED
  BY <1>2, <1>3, <1>4, <1>12 DEF InItsOrder

\* A pair is made: the others of the account are disabled, and it is added.
LEMMA WriteKeepsOrder ==
    ASSUME SessionsInv, NEW t \in Tab, InItsOrder(t), NEW s \in Slot,
           DisableOthers(<<t, s>>) \/ Save(<<t, s>>)
    PROVE  InItsOrder(t)'
<1>1. call[<<t, s>>] # Idle
  BY DEF DisableOthers, Save, Idle
<1>2. PICK u \in User, rs \in [Slot -> {Idle} \cup RequestType], r \in RequestType,
           docs \in Seq(Doc), p \in Pair \cup {NoPair}, time \in Nat :
              /\ u = account[t] /\ rs = Requests(t) /\ r = call[<<t, s>>] /\ r = rs[s]
              /\ docs = jwts /\ p = session[t] /\ time = now
              /\ r # Idle /\ r.pair.user = u /\ (p # NoPair => p.user = u)
              /\ r.pair \in Pair /\ r.pair.iat \in Nat
              /\ (p # NoPair => p \in Pair /\ p.iat \in Nat)
              /\ Typed(u, rs, docs, p, time)
              /\ Orderly(u, rs, docs, p, left, time)
              /\ InOrder(u, r, docs, p, left, time)
  BY <1>1, OwnIsTyped
<1>3. UNCHANGED <<account, now, session, left>>
  BY DEF DisableOthers, Save
<1>4. PICK more : more = jwts'
  OBVIOUS
<1>5. /\ \A i \in DOMAIN docs : docs[i] \in Doc
      /\ r.at \in {"signed", "disabled"} /\ Acts(r) /\ r.at \in Creating
  BY <1>2 DEF DisableOthers, Save, Acts, Renewing, Creating
<1>6. /\ \A o \in Slot : Acts(rs[o]) => o = s
      /\ Upto(docs, u, time) /\ r.pair.iat <= time /\ Upto(docs, u, r.pair.iat)
      /\ r.for \in Own => p # NoPair /\ Before(docs, u, r.pair.iat)
      /\ r.for \notin Own => p = NoPair
  BY <1>2, <1>5, OneActs DEF InOrder, Orderly, Renewing
<1>7. CASE DisableOthers(<<t, s>>)
  <2>1. PICK q : q = [r EXCEPT !.at = "disabled"]
    OBVIOUS
  <2>2. Becomes(<<t, s>>, q)
    BY <1>2, <1>7, <2>1 DEF DisableOthers
  <2>3. q.at = "disabled" /\ q.pair = r.pair /\ q.for = r.for /\ q # Idle
    <3>1. "disabled" \in Stage
      BY DEF Stage, Creating
    <3> QED
      BY <2>1, <3>1, NextStage
  <2>4. /\ DOMAIN more = DOMAIN docs
        /\ \A i \in DOMAIN docs : more[i].pair = docs[i].pair
        /\ \A i \in DOMAIN docs : docs[i].pair.user = u => ~more[i].enabled
    BY <1>2, <1>4, <1>5, <1>7 DEF DisableOthers, DisabledFor, Doc
  <2>5. /\ \A n : Upto(docs, u, n) => Upto(more, u, n)
        /\ \A n : Before(docs, u, n) => Before(more, u, n)
        /\ OnlyEnabled(more, u, {})
    BY <2>4 DEF Upto, Before, OnlyEnabled
  <2>6. InOrder(u, q, more, p, left, time)
    BY <1>6, <2>3, <2>5 DEF InOrder, Creating
  <2>7. Orderly(u, [rs EXCEPT ![s] = q], more, p, left, time)
    BY <1>2, <1>6, <2>3, <2>5, <2>6, ActingKeepsOrder DEF Creating
  <2>8. Requests(t)' = [rs EXCEPT ![s] = q]
    BY <1>2, <2>2, RequestMoves
  <2> QED
    BY <1>2, <1>3, <1>4, <2>7, <2>8 DEF InItsOrder
<1>8. CASE Save(<<t, s>>)
  <2>1. PICK q : q = [r EXCEPT !.at = "saved"]
    OBVIOUS
  <2>2. Becomes(<<t, s>>, q) /\ r.at = "disabled"
    BY <1>2, <1>8, <2>1 DEF Save
  <2>3. q.at = "saved" /\ q.pair = r.pair /\ q.for = r.for /\ q # Idle
    <3>1. "saved" \in Stage
      BY DEF Stage, Creating
    <3> QED
      BY <2>1, <3>1, NextStage
  <2>4. PICK n \in Nat : n = Len(docs) /\ DOMAIN docs = 1 .. n
    BY <1>2
  <2>5. PICK doc \in Doc : more = Append(docs, doc) /\ doc.pair = r.pair /\ doc.enabled
    <3>1. PICK doc : doc = [pair |-> r.pair, enabled |-> TRUE]
      OBVIOUS
    <3>2. doc \in Doc /\ doc.pair = r.pair /\ doc.enabled
      BY <1>2, <3>1 DEF Doc
    <3>3. more = Append(docs, doc)
      BY <1>2, <1>4, <1>8, <3>1 DEF Save
    <3> QED
      BY <3>2, <3>3
  <2>6. /\ DOMAIN more = 1 .. n + 1 /\ more[n + 1] = doc
        /\ \A i \in 1 .. n : more[i] = docs[i]
    BY <1>2, <2>4, <2>5
  <2>7. \A m \in Nat : Upto(docs, u, m) /\ r.pair.iat <= m => Upto(more, u, m)
    BY <2>4, <2>5, <2>6 DEF Upto
  <2>8. Upto(more, u, time) /\ Upto(more, u, r.pair.iat)
    BY <1>2, <1>6, <2>7
  <2>9. OnlyEnabled(more, u, {r.pair})
    <3>1. OnlyEnabled(docs, u, {})
      BY <1>2, <2>2 DEF InOrder
    <3> QED
      BY <2>4, <2>5, <2>6, <3>1 DEF OnlyEnabled
  <2>10. r.for \in Own => Honoured(more, left, r.pair)
    <3> SUFFICES ASSUME r.for \in Own PROVE EnabledIn(more, r.pair)
      BY DEF Honoured
    <3>1. \A j \in 1 .. n : docs[j].pair # r.pair
      <4> SUFFICES ASSUME NEW j \in 1 .. n, docs[j].pair = r.pair PROVE FALSE
        OBVIOUS
      <4>1. r.pair.iat < r.pair.iat
        BY <1>2, <1>6, <2>4 DEF Before
      <4> QED
        BY <1>2, <4>1
    <3>2. \A j \in DOMAIN more : j < n + 1 => more[j].pair # r.pair
      BY <2>6, <3>1
    <3> QED
      BY <2>5, <2>6, <3>2 DEF EnabledIn
  <2>11. InOrder(u, q, more, p, left, time)
    BY <1>6, <2>3, <2>8, <2>9, <2>10 DEF InOrder
  <2>12. Orderly(u, [rs EXCEPT ![s] = q], more, p, left, time)
    BY <1>2, <1>6, <2>3, <2>8, <2>11, ActingKeepsOrder DEF Creating
  <2>13. Requests(t)' = [rs EXCEPT ![s] = q]
    BY <1>2, <2>2, RequestMoves
  <2> QED
    BY <1>2, <1>3, <1>4, <2>12, <2>13 DEF InItsOrder
<1> QED
  BY <1>7, <1>8

\* The pair that has been made arrives.
LEMMA AnswerKeepsOrder ==
    ASSUME SessionsInv, NEW t \in Tab, InItsOrder(t), NEW s \in Slot, Answer(<<t, s>>)
    PROVE  InItsOrder(t)'
<1>1. call[<<t, s>>] # Idle
  BY DEF Answer, Idle
<1>2. PICK u \in User, rs \in [Slot -> {Idle} \cup RequestType], r \in RequestType,
           docs \in Seq(Doc), p \in Pair \cup {NoPair}, time \in Nat :
              /\ u = account[t] /\ rs = Requests(t) /\ r = call[<<t, s>>] /\ r = rs[s]
              /\ docs = jwts /\ p = session[t] /\ time = now
              /\ r # Idle /\ r.pair.user = u /\ (p # NoPair => p.user = u)
              /\ r.pair \in Pair /\ r.pair.iat \in Nat
              /\ (p # NoPair => p \in Pair /\ p.iat \in Nat)
              /\ Typed(u, rs, docs, p, time)
              /\ Orderly(u, rs, docs, p, left, time)
              /\ InOrder(u, r, docs, p, left, time)
  BY <1>1, OwnIsTyped
<1>3. PICK q, p2 :
        /\ UNCHANGED <<account, now, jwts, left>> /\ r.at = "saved"
        /\ q = CASE r.for = "nobody" -> Idle
                 [] r.for = "login"  -> [r EXCEPT !.at = "verify"]
                 [] OTHER            -> [r EXCEPT !.at = "sent"]
        /\ Becomes(<<t, s>>, q)
        /\ p2 = IF r.for \in Own THEN r.pair ELSE p
        /\ session'[t] = p2
  BY <1>2, TabIsTyped DEF Answer, Own
<1>4. Requests(t)' = [rs EXCEPT ![s] = q]
  BY <1>2, <1>3, RequestMoves
<1>5. Acts(r) /\ \A o \in Slot : Acts(rs[o]) => o = s
  <2>1. Acts(r)
    BY <1>3 DEF Acts, Renewing, Creating
  <2> QED
    BY <1>2, <2>1, OneActs
<1>6. /\ Upto(docs, u, time) /\ r.pair.iat <= time /\ Upto(docs, u, r.pair.iat)
      /\ OnlyEnabled(docs, u, {r.pair})
      /\ r.for \in Own => Honoured(docs, left, r.pair)
      /\ r.for \notin Own => p = NoPair
  BY <1>2, <1>3 DEF InOrder, Orderly, Renewing, Creating
<1>7. CASE r.for = "nobody"
  <2>1. q = Idle /\ p2 = NoPair /\ p = NoPair
    BY <1>3, <1>6, <1>7 DEF Own
  <2>2. Orderly(u, [rs EXCEPT ![s] = q], docs, p2, left, time)
    BY <1>2, <2>1, EndKeepsOrder
  <2> QED
    BY <1>2, <1>3, <1>4, <2>2 DEF InItsOrder
<1>8. CASE r.for = "login"
  <2>1. q = [r EXCEPT !.at = "verify"] /\ p2 = NoPair /\ p = NoPair /\ "verify" \in Stage
    BY <1>3, <1>6, <1>8 DEF Own, Stage
  <2>2. q.at = "verify" /\ q.pair = r.pair /\ q.for = r.for /\ q # Idle
    BY <2>1, NextStage
  <2>3. InOrder(u, q, docs, p2, left, time)
    BY <1>6, <1>8, <2>1, <2>2 DEF InOrder, Creating, Own
  <2>4. Orderly(u, [rs EXCEPT ![s] = q], docs, p2, left, time)
    BY <1>2, <1>5, <1>6, <2>1, <2>3, ActingKeepsOrder
  <2> QED
    BY <1>2, <1>3, <1>4, <2>4 DEF InItsOrder
<1>9. CASE r.for \in Own
  <2>1. q = [r EXCEPT !.at = "sent"] /\ p2 = r.pair /\ "sent" \in Stage
    BY <1>3, <1>9 DEF Own, Stage
  <2>2. q.at = "sent" /\ q.pair = r.pair /\ q.for = r.for /\ q # Idle
    BY <2>1, NextStage
  <2>3. p2 # NoPair
    BY <1>2, <2>1, NoPairAssumption
  <2>4. InOrder(u, q, docs, p2, left, time)
    BY <1>9, <2>2, <2>3 DEF InOrder, Creating, Renewing
  <2>5. Orderly(u, [rs EXCEPT ![s] = q], docs, p2, left, time)
    BY <1>2, <1>5, <1>6, <1>9, <2>1, <2>3, <2>4, ActingKeepsOrder
  <2> QED
    BY <1>2, <1>3, <1>4, <2>5 DEF InItsOrder
<1> QED
  BY <1>2, <1>7, <1>8, <1>9 DEF RequestType, Purpose, Own

\* The end of a login.
LEMMA VerifyRoleKeepsOrder ==
    ASSUME SessionsInv, NEW t \in Tab, InItsOrder(t), NEW s \in Slot, VerifyRole(<<t, s>>)
    PROVE  InItsOrder(t)'
<1>1. call[<<t, s>>] # Idle
  BY DEF VerifyRole, Idle
<1>2. PICK u \in User, rs \in [Slot -> {Idle} \cup RequestType], r \in RequestType,
           docs \in Seq(Doc), p \in Pair \cup {NoPair}, time \in Nat :
              /\ u = account[t] /\ rs = Requests(t) /\ r = call[<<t, s>>] /\ r = rs[s]
              /\ docs = jwts /\ p = session[t] /\ time = now
              /\ r # Idle /\ r.pair.user = u /\ (p # NoPair => p.user = u)
              /\ r.pair \in Pair /\ r.pair.iat \in Nat
              /\ (p # NoPair => p \in Pair /\ p.iat \in Nat)
              /\ Typed(u, rs, docs, p, time)
              /\ Orderly(u, rs, docs, p, left, time)
              /\ InOrder(u, r, docs, p, left, time)
  BY <1>1, OwnIsTyped
<1>3. PICK calls :
        /\ UNCHANGED <<account, now, jwts, left>> /\ r.at = "verify"
        /\ calls = [call EXCEPT ![<<t, s>>] = Idle]
        /\ \/ Becomes(<<t, s>>, Idle) /\ session'[t] = p
           \/ SignOut(t, calls)
           \/ Becomes(<<t, s>>, Idle) /\ Enabled(r.pair) /\ session'[t] = r.pair
  BY <1>2, TabIsTyped DEF VerifyRole
<1>4. CASE Becomes(<<t, s>>, Idle) /\ session'[t] = p
  <2>1. Orderly(u, [rs EXCEPT ![s] = Idle], docs, p, left, time)
    BY <1>2, <1>3, EndKeepsOrder DEF Creating
  <2>2. Requests(t)' = [rs EXCEPT ![s] = Idle]
    BY <1>2, <1>4, RequestMoves
  <2> QED
    BY <1>2, <1>3, <1>4, <2>1, <2>2 DEF InItsOrder
<1>5. CASE SignOut(t, calls)
  <2>1. PICK rs2 : rs2 = Requests(t)'
    OBVIOUS
  <2>2. session'[t] = NoPair /\ \A o \in Slot : rs2[o] = Orphan(calls[<<t, o>>])
    BY <1>5, <2>1, RequestsAreLeft
  <2>3. \A o \in Slot : calls[<<t, o>>] = Idle \/ calls[<<t, o>>] = rs[o]
    <3>1. \A o \in Slot : rs[o] = call[<<t, o>>] /\ <<t, o>> \in DOMAIN call
      BY <1>2, TabIsTyped DEF Requests
    <3> QED
      BY <1>3, <3>1
  <2>4. Orphan(Idle) = Idle
    BY DEF Orphan, Idle, Creating
  <2>5. Orderly(u, rs2, docs, NoPair, left, time)
    BY <1>2, <2>2, <2>3, <2>4, SignOutKeepsOrder
  <2> QED
    BY <1>2, <1>3, <2>1, <2>2, <2>5 DEF InItsOrder
<1>6. CASE Becomes(<<t, s>>, Idle) /\ Enabled(r.pair) /\ session'[t] = r.pair
  <2>1. Acts(r) /\ \A o \in Slot : Acts(rs[o]) => o = s
    <3>1. Acts(r)
      BY <1>3 DEF Acts
    <3> QED
      BY <1>2, <3>1, OneActs
  <2>2. /\ Upto(docs, u, time) /\ Upto(docs, u, r.pair.iat)
        /\ OnlyEnabled(docs, u, {r.pair})
    BY <1>2, <1>3 DEF InOrder, Orderly
  <2>3. Honoured(docs, left, r.pair) /\ r.pair # NoPair
    BY <1>2, <1>6, EnabledIs, NoPairAssumption DEF Enabled, Honoured
  <2>4. InOrder(u, Idle, docs, r.pair, left, time)
    BY DEF InOrder, Idle, Renewing, Creating
  <2>5. Orderly(u, [rs EXCEPT ![s] = Idle], docs, r.pair, left, time)
    BY <1>2, <2>1, <2>2, <2>3, <2>4, ActingKeepsOrder
  <2>6. Requests(t)' = [rs EXCEPT ![s] = Idle]
    BY <1>2, <1>6, RequestMoves
  <2> QED
    BY <1>2, <1>3, <1>6, <2>5, <2>6 DEF InItsOrder
<1> QED
  BY <1>3, <1>4, <1>5, <1>6

\* What the tab begins.
LEMMA BeginKeepsOrder ==
    ASSUME SessionsInv, NEW t \in Tab, InItsOrder(t), NEW s \in Slot, Apart(t)',
           Login(<<t, s>>) \/ \E for \in Own : Send(<<t, s>>, for)
    PROVE  InItsOrder(t)'
<1>1. PICK u, rs, docs, p, time :
        /\ u = account[t] /\ rs = Requests(t) /\ docs = jwts /\ p = session[t] /\ time = now
  OBVIOUS
<1>2. /\ Typed(u, rs, docs, p, time) /\ Orderly(u, rs, docs, p, left, time)
      /\ UNCHANGED <<account, now, jwts, session, left>>
      /\ rs[s] = Idle /\ time \in Nat /\ rs \in [Slot -> {Idle} \cup RequestType]
  BY <1>1, TabIsTyped DEF InItsOrder, Login, Send, Requests, Typed
<1>3. CASE Login(<<t, s>>)
  <2>1. PICK q : q = Request("signed", Signed(u), "login")
    OBVIOUS
  <2>2. p = NoPair /\ Becomes(<<t, s>>, q)
    BY <1>1, <1>3, <2>1 DEF Login
  <2>3. q.at = "signed" /\ q.for = "login" /\ q.pair.iat = time /\ q # Idle
    BY <1>1, <2>1 DEF Request, Signed, Idle
  <2>4. Requests(t)' = [rs EXCEPT ![s] = q]
    BY <1>1, <2>2, RequestMoves
  <2>5. ASSUME NEW o \in Slot, Acts(rs[o]) PROVE o = s
    <3>1. CASE rs[o].at = "verify"
      <4>0. InOrder(u, rs[o], docs, p, left, time)
        BY <1>2, <2>5 DEF Orderly
      <4>1. rs[o].for = "login" /\ rs[o] # Idle
        BY <3>1, <4>0 DEF InOrder, Idle
      <4>2. rs[o] = call[<<t, o>>]
        BY <1>1 DEF Requests
      <4> QED
        BY <1>3, <4>1, <4>2 DEF Login
    <3>2. CASE rs[o].at \in Renewing
      <4>1. PICK rs2 : /\ rs2 = Requests(t)' /\ rs2 = [rs EXCEPT ![s] = q]
                       /\ rs2[s] = q /\ (o # s => rs2[o] = rs[o])
        BY <1>2, <2>4
      <4>2. rs2[s].at \in Renewing /\ (rs2[o].at \in Renewing => o = s)
        BY <2>3, <4>1 DEF Apart, Requests, Renewing, Creating
      <4> QED
        BY <3>2, <4>1, <4>2
    <3> QED
      BY <2>5, <3>1, <3>2 DEF Acts
  <2>6. Upto(docs, u, time)
    BY <1>2 DEF Orderly
  <2>7. InOrder(u, q, docs, p, left, time)
    BY <1>2, <2>2, <2>3, <2>6 DEF InOrder, Creating, Own
  <2>8. Orderly(u, [rs EXCEPT ![s] = q], docs, p, left, time)
    BY <1>2, <2>2, <2>5, <2>6, <2>7, ActingKeepsOrder
  <2> QED
    BY <1>1, <1>2, <2>4, <2>8 DEF InItsOrder
<1>4. ASSUME NEW for \in Own, Send(<<t, s>>, for) PROVE InItsOrder(t)'
  <2>1. PICK q : q = Request("sent", p, for)
    OBVIOUS
  <2>2. p # NoPair /\ Becomes(<<t, s>>, q)
    BY <1>1, <1>4, <2>1 DEF Send
  <2>3. q.at = "sent" /\ q.for \in Own /\ q # Idle
    BY <2>1 DEF Request, Idle
  <2>4. InOrder(u, q, docs, p, left, time) /\ ~Acts(q) /\ ~Acts(rs[s])
    BY <1>2, <2>2, <2>3 DEF InOrder, Acts, Renewing, Creating, Idle
  <2>5. Orderly(u, [rs EXCEPT ![s] = q], docs, p, left, time)
    BY <1>2, <2>4, CalmKeepsOrder
  <2>6. Requests(t)' = [rs EXCEPT ![s] = q]
    BY <1>1, <2>2, RequestMoves
  <2> QED
    BY <1>1, <1>2, <2>5, <2>6 DEF InItsOrder
<1> QED
  BY <1>3, <1>4

\* A logout in the frontend leaves what is at work to nobody.
LEMMA LogoutKeepsOrder ==
    ASSUME SessionsInv, NEW t \in Tab, InItsOrder(t), Logout(t)
    PROVE  InItsOrder(t)'
<1>1. PICK u, rs, docs, p, time, rs2, calls :
        /\ u = account[t] /\ rs = Requests(t) /\ docs = jwts /\ p = session[t] /\ time = now
        /\ rs2 = Requests(t)' /\ calls = call
  OBVIOUS
<1>2. /\ Typed(u, rs, docs, p, time) /\ Orderly(u, rs, docs, p, left, time)
      /\ UNCHANGED <<account, now, jwts, left>> /\ SignOut(t, calls)
  BY <1>1, TabIsTyped DEF InItsOrder, Logout
<1>3. session'[t] = NoPair /\ \A o \in Slot : rs2[o] = Orphan(rs[o])
  <2>1. session'[t] = NoPair /\ \A o \in Slot : rs2[o] = Orphan(calls[<<t, o>>])
    BY <1>1, <1>2, RequestsAreLeft
  <2> QED
    BY <1>1, <2>1 DEF Requests
<1>4. Orderly(u, rs2, docs, NoPair, left, time)
  BY <1>2, <1>3, SignOutKeepsOrder
<1> QED
  BY <1>1, <1>2, <1>3, <1>4 DEF InItsOrder

\* A step of another account: its requests, and its documents.
LEMMA OthersStep ==
    ASSUME SessionsInv, SessionsInv', NEW t \in Tab, InItsOrder(t), NEW c \in Call,
           account[c[1]] # account[t], Serve(c)
    PROVE  InItsOrder(t)'
<1>1. /\ RestOK /\ RestOK' /\ DOMAIN call = Call /\ c[1] \in Tab /\ CallOK(c, call[c])
      /\ c[1] # t /\ \A s \in Slot : <<t, s>> \in Call /\ <<t, s>> # c
      /\ Typed(account[t], Requests(t), jwts, session[t], now)
  <2>1. RestOK /\ c[1] \in Tab /\ CallOK(c, call[c])
    BY Parts DEF SessionsInv, Call
  <2>2. RestOK'
    BY DEF SessionsInv, SessionsTypeOK, RestOK, Doc
  <2> QED
    BY <2>1, <2>2, TabIsTyped
<1>2. PICK calls : calls = [call EXCEPT ![c] = Idle]
  OBVIOUS
<1>3. UNCHANGED <<account, now, fails>> /\ left \subseteq left'
  BY DEF Serve, Authenticate, Leave, RefreshAccessToken, RefreshToken, DisableOthers, Save,
         Answer, VerifyRole
<1>4. Requests(t)' = Requests(t)
  <2>1. ASSUME NEW r, Becomes(c, r) PROVE Requests(t)' = Requests(t)
    BY <1>1, <2>1 DEF Becomes, Requests
  <2>2. ASSUME SignOut(c[1], calls) PROVE Requests(t)' = Requests(t)
    BY <1>1, <1>2, <2>2 DEF SignOut, Requests
  <2> QED
    BY <1>2, <2>1, <2>2 DEF Serve, Authenticate, Leave, RefreshAccessToken, RefreshToken,
       DisableOthers, Save, Answer, VerifyRole
<1>5. session'[t] = session[t]
  BY <1>1 DEF RestOK, Serve, Authenticate, Leave, RefreshAccessToken, RefreshToken,
     DisableOthers, Save, Answer, VerifyRole, SignOut
<1>6. /\ jwts' \in Seq(Doc)
      /\ \A i \in DOMAIN jwts :
           /\ i \in DOMAIN jwts' /\ jwts'[i].pair = jwts[i].pair
           /\ jwts[i].pair.user = account[t] => jwts'[i] = jwts[i]
      /\ \A i \in DOMAIN jwts' : i \in DOMAIN jwts \/ jwts'[i].pair.user # account[t]
  <2>0. jwts \in Seq(Doc) /\ jwts' \in Seq(Doc) /\ \A i \in DOMAIN jwts : jwts[i] \in Doc
    BY <1>1 DEF RestOK
  <2>1. CASE UNCHANGED jwts
    BY <2>0, <2>1
  <2>2. ASSUME Leave(c) \/ DisableOthers(c) \/ Save(c)
        PROVE  call[c].pair.user = account[c[1]] /\ call[c].pair \in Pair
    BY <1>1, <2>2 DEF CallOK, Leave, DisableOthers, Save, Idle, RequestType
  <2>3. CASE Leave(c)
    <3>1. PICK k : k = FindOne(jwts, call[c].pair)
      OBVIOUS
    <3>2. k \in DOMAIN jwts /\ jwts[k].pair = call[c].pair
      <4>1. k # 0
        BY <1>1, <2>3, <3>1 DEF CallOK, Leave
      <4> QED
        BY <2>0, <3>1, <4>1, FindOneFinds
    <3>3. jwts' = [jwts EXCEPT ![k].enabled = FALSE]
      BY <2>3, <3>1 DEF Leave
    <3>4. DOMAIN jwts' = DOMAIN jwts /\ \A i \in DOMAIN jwts :
             jwts'[i].pair = jwts[i].pair /\ (i # k => jwts'[i] = jwts[i])
      BY <2>0, <3>3 DEF Doc
    <3> QED
      BY <2>0, <2>2, <2>3, <3>2, <3>4
  <2>4. CASE DisableOthers(c)
    <3>1. /\ DOMAIN jwts' = DOMAIN jwts
          /\ \A i \in DOMAIN jwts :
               /\ jwts'[i].pair = jwts[i].pair
               /\ jwts[i].pair.user # account[c[1]] => jwts'[i] = jwts[i]
      BY <2>0, <2>2, <2>4 DEF DisableOthers, DisabledFor, Doc
    <3> QED
      BY <2>0, <3>1
  <2>5. CASE Save(c)
    <3>1. PICK doc \in Doc : jwts' = Append(jwts, doc) /\ doc.pair = call[c].pair
      <4>1. PICK doc : doc = [pair |-> call[c].pair, enabled |-> TRUE]
        OBVIOUS
      <4>2. doc \in Doc /\ doc.pair = call[c].pair
        BY <2>2, <2>5, <4>1 DEF Doc
      <4>3. jwts' = Append(jwts, doc)
        BY <2>5, <4>1 DEF Save
      <4> QED
        BY <4>2, <4>3
    <3>2. /\ Len(jwts) \in Nat /\ DOMAIN jwts = 1 .. Len(jwts)
          /\ DOMAIN jwts' = 1 .. Len(jwts) + 1
          /\ \A i \in DOMAIN jwts : jwts'[i] = jwts[i]
          /\ jwts'[Len(jwts) + 1] = doc
      BY <2>0, <3>1
    <3> QED
      BY <2>0, <2>2, <2>5, <3>1, <3>2
  <2> QED
    BY <2>1, <2>3, <2>4, <2>5
       DEF Serve, Authenticate, RefreshAccessToken, RefreshToken, Answer, VerifyRole
<1>7. now \in Nat /\ now <= now
  BY <1>1 DEF RestOK
<1>8. Orderly(account[t], Requests(t), jwts', session[t], left', now)
  <2>1. PICK u, rs, docs, p, time, more, gone :
           /\ u = account[t] /\ rs = Requests(t) /\ docs = jwts /\ p = session[t]
           /\ time = now /\ more = jwts' /\ gone = left'
    OBVIOUS
  <2>2. Typed(u, rs, docs, p, time) /\ Orderly(u, rs, docs, p, left, time)
    BY <1>1, <2>1 DEF InItsOrder
  <2>3. \A i \in DOMAIN docs :
           /\ i \in DOMAIN more /\ more[i].pair = docs[i].pair
           /\ docs[i].pair.user = u => more[i] = docs[i]
    BY <1>6, <2>1
  <2>4. Orderly(u, rs, more, p, gone, time)
    BY <1>3, <1>6, <1>7, <2>1, <2>2, <2>3, DocumentsKeepOrder
  <2> QED
    BY <2>1, <2>4
<1> QED
  BY <1>3, <1>4, <1>5, <1>8 DEF InItsOrder

\* What other tabs begin or leave, and the time, change nothing of the tab.
LEMMA RestKeepsOrder ==
    ASSUME SessionsInv, NEW t \in Tab, InItsOrder(t),
           \/ Tick
           \/ \E o \in Tab \ {t} : Logout(o)
           \/ \E c \in Call : c[1] # t /\ (Login(c) \/ \E for \in Own : Send(c, for))
    PROVE  InItsOrder(t)'
<1>1. /\ DOMAIN call = Call /\ (\A s \in Slot : <<t, s>> \in Call) /\ now \in Nat
      /\ session \in [Tab -> Pair \cup {NoPair}] /\ jwts \in Seq(Doc)
      /\ Typed(account[t], Requests(t), jwts, session[t], now)
  BY TabIsTyped DEF SessionsInv, SessionsTypeOK, Doc
<1>2. UNCHANGED <<account, jwts, left>> /\ now' \in Nat /\ now <= now'
  BY <1>1 DEF Tick, Logout, Login, Send
<1>3. Requests(t)' = Requests(t) /\ session'[t] = session[t]
  <2>1. CASE Tick
    BY <2>1 DEF Tick, Requests
  <2>2. ASSUME NEW o \in Tab \ {t}, Logout(o)
        PROVE  Requests(t)' = Requests(t) /\ session'[t] = session[t]
    BY <1>1, <2>2 DEF Logout, SignOut, Requests
  <2>3. ASSUME NEW c \in Call, c[1] # t, Login(c) \/ \E for \in Own : Send(c, for)
        PROVE  Requests(t)' = Requests(t) /\ session'[t] = session[t]
    BY <1>1, <2>3 DEF Login, Send, Becomes, Requests
  <2> QED
    BY <2>1, <2>2, <2>3
<1>4. Orderly(account[t], Requests(t), jwts, session[t], left, now')
  <2>1. PICK u, rs, p, later : /\ u = account[t] /\ rs = Requests(t) /\ p = session[t]
                               /\ later = now'
    OBVIOUS
  <2>2. Typed(u, rs, jwts, p, now) /\ Orderly(u, rs, jwts, p, left, now)
    BY <1>1, <2>1 DEF InItsOrder
  <2>3. Orderly(u, rs, jwts, p, left, later)
    BY <1>1, <1>2, <2>1, <2>2, DocumentsKeepOrder
  <2> QED
    BY <2>1, <2>3
<1> QED
  BY <1>2, <1>3, <1>4 DEF InItsOrder

----------------------------------------------------------------------------

\* The tab is alone with its account, and nothing has failed.
Alone(t) == \A o \in Tab \ {t} : account[o] # account[t]

Undisturbed(t) == fails = 0 /\ Alone(t)

\* It was so before.
LEMMA UndisturbedBefore ==
    ASSUME SessionsInv, NEW t \in Tab, [Next]_vars, Undisturbed(t)'
    PROVE  Undisturbed(t) /\ ~(\E c \in Call : Fail(c))
<1>1. fails \in Nat
  BY SessionsBoundAssumption DEF SessionsInv, SessionsTypeOK
<1>2. \A c \in Call : ~Fail(c)
  BY <1>1 DEF Fail, Undisturbed
<1>3. \A c \in Call : Serve(c) => UNCHANGED <<account, fails>>
  BY DEF Serve, Authenticate, Leave, RefreshAccessToken, RefreshToken, DisableOthers,
         Save, Answer, VerifyRole
<1>4. UNCHANGED <<account, fails>>
  BY <1>2, <1>3 DEF Next, vars, Login, Send, Logout, Tick
<1> QED
  BY <1>2, <1>4 DEF Undisturbed, Alone

\* What the tab and its account do, and what others do, leave it in order.
LEMMA StepKeepsOrder ==
    ASSUME SessionsInv, SessionsInv', NEW t \in Tab, Apart(t)', InItsOrder(t),
           [Next]_vars, Undisturbed(t)'
    PROVE  InItsOrder(t)'
<1>1. ~(\E c \in Call : Fail(c)) /\ Undisturbed(t)
  BY UndisturbedBefore
<1>2. Alone(t)
  BY <1>1 DEF Undisturbed
<1>3. CASE UNCHANGED vars
  BY <1>3 DEF vars, InItsOrder, Requests
<1>4. ASSUME NEW c \in Call, Login(c) \/ (\E for \in {"get", "logout"} : Send(c, for)) \/ Serve(c)
      PROVE  InItsOrder(t)'
  <2>1. CASE c[1] = t
    <3>1. PICK s \in Slot : c = <<t, s>>
      BY <2>1 DEF Call
    <3> QED
      BY <1>4, <3>1, AuthenticateKeepsOrder, RefreshKeepsOrder, LeaveKeepsOrder,
         WriteKeepsOrder, AnswerKeepsOrder, VerifyRoleKeepsOrder, BeginKeepsOrder
         DEF Serve, Own
  <2>2. CASE c[1] # t
    <3>1. account[c[1]] # account[t]
      BY <1>2, <2>2 DEF Alone, Call
    <3> QED
      BY <1>4, <2>2, <3>1, OthersStep, RestKeepsOrder DEF Own
  <2> QED
    BY <2>1, <2>2
<1>5. ASSUME NEW o \in Tab, Logout(o) PROVE InItsOrder(t)'
  BY <1>5, LogoutKeepsOrder, RestKeepsOrder
<1>6. CASE Tick
  BY <1>6, RestKeepsOrder
<1> QED
  BY <1>1, <1>3, <1>4, <1>5, <1>6 DEF Next

\* What is in order holds a pair that is enabled, or has none.
LEMMA OrderlyIsLive ==
    ASSUME SessionsInv, NEW t \in Tab, Undisturbed(t) => InItsOrder(t)
    PROVE  IsLive(t)
<1> SUFFICES ASSUME fails = 0, Alone(t), session[t] # NoPair, session[t] \notin left,
                    \A s \in Slot : call[<<t, s>>].at \notin Creating
             PROVE  Enabled(session[t])
  BY DEF IsLive, Alone
<1>1. Orderly(account[t], Requests(t), jwts, session[t], left, now)
  BY DEF Undisturbed, InItsOrder
<1>2. NoneCreates(Requests(t))
  BY DEF NoneCreates, Requests
<1>3. EnabledIn(jwts, session[t])
  BY <1>1, <1>2 DEF Orderly, Honoured
<1>4. jwts \in Seq(Doc)
  BY DEF SessionsInv, SessionsTypeOK, Doc
<1> QED
  BY <1>3, <1>4, EnabledIs DEF Enabled

\* However long tokens last, however many requests a tab has in flight and whatever the
\* others do, a tab that has its account to itself is not logged out by its refreshes as
\* long as no two of its requests renew the tokens at once (axios.ts:26-29). Two that
\* do may log it out: the run refresh_race shows how.
THEOREM SessionsLastUnlessRaced == Spec => LiveUnlessRaced
<1>1. ASSUME NEW t \in Tab PROVE Spec => ([]Apart(t) => []IsLive(t))
  <2> DEFINE Kept == Undisturbed(t) => InItsOrder(t)
  <2>1. Init => Kept
    <3> SUFFICES ASSUME Init PROVE InItsOrder(t)
      OBVIOUS
    <3>1. /\ \A s \in Slot : Requests(t)[s] = Idle
          /\ session[t] = NoPair /\ DOMAIN jwts = {}
      BY DEF Init, Call, Requests
    <3>2. Upto(jwts, account[t], now)
      BY <3>1 DEF Upto
    <3>3. \A s \in Slot : /\ InOrder(account[t], Requests(t)[s], jwts, session[t], left, now)
                          /\ ~Acts(Requests(t)[s])
      BY <3>1 DEF InOrder, Idle, Renewing, Creating, Acts
    <3> QED
      BY <3>1, <3>2, <3>3 DEF InItsOrder, Orderly
  <2>2. SessionsInv /\ SessionsInv' /\ Apart(t)' /\ Kept /\ [Next]_vars => Kept'
    <3> SUFFICES ASSUME SessionsInv, SessionsInv', Apart(t)', Kept, [Next]_vars,
                        Undisturbed(t)'
                 PROVE  InItsOrder(t)'
      OBVIOUS
    <3>1. Undisturbed(t)
      BY UndisturbedBefore
    <3> QED
      BY <3>1, StepKeepsOrder
  <2>3. SessionsInv /\ Kept => IsLive(t)
    BY OrderlyIsLive
  <2> QED
    BY <2>1, <2>2, <2>3, FewPairsAreEnabled, PTL DEF Spec
<1> QED
  BY <1>1 DEF LiveUnlessRaced
=============================================================================
