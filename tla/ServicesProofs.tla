--------------------------- MODULE ServicesProofs ---------------------------
(***************************************************************************)
(* Proofs about Services: about Api for any requests whose routes are well *)
(* made, about GatewayPool for any peers of any organizations, for any     *)
(* number of requests that overlap and of failures.                        *)
(***************************************************************************)
EXTENDS Services, FiniteSetTheorems, TLAPS

----------------------------------------------------------------------------
(* GatewayPool *)

\* The factory gives every peer the communicator of its own organization, also
\* to those of the organization that is not told by name.
LEMMA CommunicatorIsOfThePeer ==
    ASSUME Pool!GatewayPoolAssumption, NEW p \in Peer
    PROVE  /\ Pool!CommunicatorOf(p) = Pool!WithEndpoint(Org[p], p)
           /\ Pool!CommunicatorOf(p) \in Pool!Communicator
BY DEF Pool!GatewayPoolAssumption, Pool!CommunicatorOf, Pool!WithEndpoint, Pool!Communicator

\* At first the pool is empty and nobody uses it.
LEMMA InitGatewayPoolInv ==
    ASSUME Pool!GatewayPoolAssumption, Pool!Init
    PROVE  Pool!GatewayPoolInv
<1>1. /\ peer \in [Asker -> Asked]
      /\ \A r \in Asker : peer[r] \in Peer
  BY DEF Pool!GatewayPoolAssumption, Pool!Init
<1>2. communicator \in [Asker -> Pool!Communicator]
  BY <1>1, CommunicatorIsOfThePeer DEF Pool!Init
<1> QED
  BY <1>1, <1>2
     DEF Pool!GatewayPoolAssumption, Pool!Init, Pool!GatewayPoolInv, Pool!GatewayPoolTypeOK,
         Pool!GatewayIsOfThePeer, Pool!PoolIsOfItsPeers, Pool!Ended

\* A request finds a gateway of its peer in the pool or starts to make one, and
\* no gateway in use is made anew: it is not of a request that has yet to ask.
LEMMA AskKeepsGatewayPoolInv ==
    ASSUME Pool!GatewayPoolAssumption, Pool!GatewayPoolInv,
           NEW r \in Asker, NEW p \in Asked, Pool!Ask(r, p)
    PROVE  Pool!GatewayPoolInv'
<1> USE DEF Pool!Ask, Pool!Steps
<1>0. p \in Peer /\ r \notin connected
  BY DEF Pool!GatewayPoolAssumption, Pool!GatewayPoolInv, Pool!PoolIsOfItsPeers
<1>1. CASE clients[p] # NoClient
  <2>1. communicator[clients[p]] = Pool!WithEndpoint(Org[p], p) /\ clients[p] \in connected
    BY <1>0, <1>1, CommunicatorIsOfThePeer DEF Pool!GatewayPoolInv, Pool!PoolIsOfItsPeers
  <2>2. Pool!GatewayPoolTypeOK'
    BY <1>0, <1>1 DEF Pool!GatewayPoolInv, Pool!GatewayPoolTypeOK
  <2>3. Pool!GatewayIsOfThePeer'
    BY <1>0, <1>1, <2>1 DEF Pool!GatewayPoolInv, Pool!GatewayPoolTypeOK, Pool!GatewayIsOfThePeer
  <2>4. Pool!PoolIsOfItsPeers'
    BY <1>0, <1>1 DEF Pool!GatewayPoolInv, Pool!GatewayPoolTypeOK, Pool!PoolIsOfItsPeers
  <2> QED
    BY <2>2, <2>3, <2>4 DEF Pool!GatewayPoolInv
<1>2. CASE clients[p] = NoClient
  <2>1. communicator' \in [Asker -> Pool!Communicator]
    BY <1>0, <1>2, CommunicatorIsOfThePeer DEF Pool!GatewayPoolInv, Pool!GatewayPoolTypeOK
  <2>2. Pool!GatewayPoolTypeOK'
    BY <1>0, <1>2, <2>1 DEF Pool!GatewayPoolInv, Pool!GatewayPoolTypeOK
  <2>3. Pool!GatewayIsOfThePeer'
    BY <1>0, <1>2 DEF Pool!GatewayPoolInv, Pool!GatewayPoolTypeOK, Pool!GatewayIsOfThePeer
  <2>4. Pool!PoolIsOfItsPeers'
    BY <1>0, <1>2 DEF Pool!GatewayPoolInv, Pool!GatewayPoolTypeOK, Pool!PoolIsOfItsPeers
  <2> QED
    BY <2>2, <2>3, <2>4 DEF Pool!GatewayPoolInv
<1> QED
  BY <1>1, <1>2

\* The gateway is put in the pool in the place of whatever others have put there
\* since the pool was looked into.
LEMMA CreateSignerKeepsGatewayPoolInv ==
    ASSUME Pool!GatewayPoolAssumption, Pool!GatewayPoolInv,
           NEW r \in Asker, Pool!CreateSigner(r)
    PROVE  Pool!GatewayPoolInv'
<1> USE DEF Pool!CreateSigner, Pool!Steps
<1>1. /\ peer[r] \in Peer /\ r \in opened
      /\ communicator[r] = Pool!CommunicatorOf(peer[r])
      /\ communicator[r] = Pool!WithEndpoint(Org[peer[r]], peer[r])
  <2>1. peer[r] \in Peer
    BY DEF Pool!GatewayPoolAssumption, Pool!GatewayPoolInv, Pool!GatewayPoolTypeOK
  <2> QED
    BY <2>1, CommunicatorIsOfThePeer DEF Pool!GatewayPoolInv, Pool!PoolIsOfItsPeers
<1>2. Pool!GatewayPoolTypeOK'
  BY <1>1 DEF Pool!GatewayPoolInv, Pool!GatewayPoolTypeOK
<1>3. Pool!GatewayIsOfThePeer'
  BY <1>1 DEF Pool!GatewayPoolInv, Pool!GatewayPoolTypeOK, Pool!GatewayIsOfThePeer
<1>4. Pool!PoolIsOfItsPeers'
  BY <1>1 DEF Pool!GatewayPoolAssumption, Pool!GatewayPoolInv, Pool!GatewayPoolTypeOK, Pool!PoolIsOfItsPeers
<1> QED
  BY <1>2, <1>3, <1>4 DEF Pool!GatewayPoolInv

\* The other steps leave the pool as it was.
LEMMA OtherStepKeepsGatewayPoolInv ==
    ASSUME Pool!GatewayPoolAssumption, Pool!GatewayPoolInv,
           \/ \E r \in Asker : \/ Pool!CreateGrpcClient(r) \/ Pool!CreateIdentity(r)
                               \/ Pool!FailToRead(r) \/ Pool!Call(r) \/ Pool!TimeOut(r)
           \/ \E p \in Peer : Pool!Stop(p)
    PROVE  Pool!GatewayPoolInv'
<1> USE DEF Pool!GatewayPoolAssumption, Pool!GatewayPoolInv, Pool!GatewayPoolTypeOK,
            Pool!GatewayIsOfThePeer, Pool!PoolIsOfItsPeers, Pool!Ended, Pool!Steps, Pool!pool
<1>1. ASSUME NEW r \in Asker, Pool!CreateGrpcClient(r) PROVE Pool!GatewayPoolInv'
  BY <1>1 DEF Pool!CreateGrpcClient
<1>2. ASSUME NEW r \in Asker, Pool!CreateIdentity(r) PROVE Pool!GatewayPoolInv'
  BY <1>2 DEF Pool!CreateIdentity
<1>3. ASSUME NEW r \in Asker, Pool!FailToRead(r) PROVE Pool!GatewayPoolInv'
  BY <1>3 DEF Pool!FailToRead
<1>4. ASSUME NEW r \in Asker, Pool!Call(r) \/ Pool!TimeOut(r) PROVE Pool!GatewayPoolInv'
  BY <1>4 DEF Pool!Call, Pool!TimeOut
<1>5. ASSUME NEW p \in Peer, Pool!Stop(p) PROVE Pool!GatewayPoolInv'
  BY <1>5 DEF Pool!Stop
<1> QED
  BY <1>1, <1>2, <1>3, <1>4, <1>5

----------------------------------------------------------------------------

\* A request uses a gateway that is ready and of the organization of the peer it
\* asked for, however many requests fill the pool at once and in whatever order
\* the files they await are read (grpc.client.pool.ts).
THEOREM PoolIsSafe == Pool!Spec => []GatewayPoolInv
<1>1. Pool!GatewayPoolInv /\ [Pool!Next]_Pool!vars => Pool!GatewayPoolInv'
  <2> SUFFICES ASSUME Pool!GatewayPoolInv, [Pool!Next]_Pool!vars
               PROVE  Pool!GatewayPoolInv'
    OBVIOUS
  <2>1. CASE UNCHANGED Pool!vars
    BY <2>1 DEF Pool!vars, Pool!GatewayPoolInv, Pool!GatewayPoolTypeOK,
                Pool!GatewayIsOfThePeer, Pool!PoolIsOfItsPeers
  <2>2. CASE Pool!Next
    BY <2>2, PoolAssumption, AskKeepsGatewayPoolInv, CreateSignerKeepsGatewayPoolInv,
       OtherStepKeepsGatewayPoolInv DEF PoolAssumption, Pool!Next
  <2> QED
    BY <2>1, <2>2
<1>2. Pool!Init => Pool!GatewayPoolInv
  BY PoolAssumption, InitGatewayPoolInv DEF PoolAssumption
<1> QED
  BY <1>1, <1>2, PTL DEF Pool!Spec, GatewayPoolInv

----------------------------------------------------------------------------
(* Api *)

\* What ApiInv says of one request.
Sound(c) ==
    /\ c.did \subseteq Handlers!Effects(c.req)
    /\ Handlers!ToSet(c.todo) \cap Handlers!Effect \subseteq Handlers!Effects(c.req)
    /\ c.answer = Handlers!None =>
         \A i \in DOMAIN c.todo : c.todo[i] = "send" =>
             /\ Handlers!Effects(c.req) \subseteq c.did \cup Handlers!Before(c.todo, i)
             /\ Handlers!NeedsPermit(c.req) =>
                  Handlers!Granted(c.req) \/ "permit" \in Handlers!Before(c.todo, i)
    /\ c.answer = 200 =>
         /\ Handlers!Effects(c.req) \subseteq c.did
         /\ Handlers!NeedsPermit(c.req) => Handlers!Granted(c.req)

\* The invariant says that every request at work is sound,
LEMMA RequestsAreSound ==
    ASSUME Handlers!ApiInv, NEW s \in Slot, handled[s] # Idle
    PROVE  Sound(handled[s])
<1>0. Handlers!Status.Success = 200
  BY DEF Handlers!Status
<1>1. Handlers!WorkIsOfTheController
  BY DEF Handlers!ApiInv
<1>2. Handlers!NothingIsSkipped
  BY DEF Handlers!ApiInv
<1>3. Handlers!SuccessMeansDone /\ Handlers!SuccessMeansAllowed
  BY DEF Handlers!ApiInv
<1>4. /\ handled[s].did \subseteq Handlers!Effects(handled[s].req)
      /\ Handlers!ToSet(handled[s].todo) \cap Handlers!Effect \subseteq Handlers!Effects(handled[s].req)
  BY <1>1, Zenon DEF Handlers!WorkIsOfTheController
<1>5. ASSUME handled[s].answer = Handlers!None,
             NEW i \in DOMAIN handled[s].todo, handled[s].todo[i] = "send"
      PROVE  /\ Handlers!Effects(handled[s].req) \subseteq handled[s].did \cup Handlers!Before(handled[s].todo, i)
             /\ Handlers!NeedsPermit(handled[s].req) =>
                  Handlers!Granted(handled[s].req) \/ "permit" \in Handlers!Before(handled[s].todo, i)
  BY <1>2, <1>5, Zenon DEF Handlers!NothingIsSkipped
<1>6. ASSUME handled[s].answer = 200
      PROVE  /\ Handlers!Effects(handled[s].req) \subseteq handled[s].did
             /\ Handlers!NeedsPermit(handled[s].req) => Handlers!Granted(handled[s].req)
  <2>1. handled[s].answer = Handlers!Status.Success
    BY <1>0, <1>6
  <2> QED
    BY <1>3, <2>1, Zenon DEF Handlers!SuccessMeansDone, Handlers!SuccessMeansAllowed
<1> QED
  BY <1>4, <1>5, <1>6, Zenon DEF Sound

\* and is no more than that, in the next state too.
LEMMA SoundIsApiInv ==
    ASSUME Handlers!ApiTypeOK', \A s \in Slot : handled'[s] # Idle => Sound(handled'[s])
    PROVE  Handlers!ApiInv'
<1>0. Handlers!Status.Success = 200
  BY DEF Handlers!Status
<1>1. Handlers!WorkIsOfTheController'
  BY Zenon DEF Sound, Handlers!WorkIsOfTheController
<1>2. Handlers!NothingIsSkipped'
  BY Zenon DEF Sound, Handlers!NothingIsSkipped
<1>3. Handlers!SuccessMeansDone'
  BY <1>0, Zenon DEF Sound, Handlers!SuccessMeansDone
<1>4. Handlers!SuccessMeansAllowed'
  BY <1>0, Zenon DEF Sound, Handlers!SuccessMeansAllowed
<1> QED
  BY <1>1, <1>2, <1>3, <1>4 DEF Handlers!ApiInv

\* The steps that are left when the first is done, and what is before each.
LEMMA TailOfSteps ==
    ASSUME NEW S, NEW steps \in Seq(S), steps # <<>>
    PROVE  /\ Tail(steps) \in Seq(S) /\ Head(steps) \in Handlers!ToSet(steps)
           /\ Handlers!ToSet(Tail(steps)) \subseteq Handlers!ToSet(steps)
           /\ \A i \in DOMAIN Tail(steps) :
                /\ i + 1 \in DOMAIN steps /\ Tail(steps)[i] = steps[i + 1]
                /\ Handlers!Before(steps, i + 1)
                     = {Head(steps)} \cup Handlers!Before(Tail(steps), i)
<1>1. /\ Tail(steps) \in Seq(S) /\ DOMAIN steps = 1 .. Len(steps) /\ Len(steps) \in Nat \ {0}
      /\ DOMAIN Tail(steps) = 1 .. Len(steps) - 1
      /\ \A i \in 1 .. Len(steps) - 1 : Tail(steps)[i] = steps[i + 1]
      /\ Head(steps) = steps[1]
  OBVIOUS
<1>2. ASSUME NEW i \in DOMAIN Tail(steps)
      PROVE  Handlers!Before(steps, i + 1)
               = {Head(steps)} \cup Handlers!Before(Tail(steps), i)
  <2>0. i \in 1 .. Len(steps) - 1
    BY <1>1
  <2>1. ASSUME NEW j \in 1 .. i, j # 1
        PROVE  j - 1 \in 1 .. i - 1 /\ steps[j] = Tail(steps)[j - 1]
    <3>1. j - 1 \in 1 .. i - 1 /\ j - 1 \in 1 .. Len(steps) - 1 /\ j - 1 + 1 = j
      BY <1>1, <2>0, <2>1
    <3> QED
      BY <1>1, <3>1, Zenon
  <2>2. ASSUME NEW j \in 1 .. i - 1
        PROVE  j + 1 \in 1 .. i /\ steps[j + 1] = Tail(steps)[j]
    <3>1. j + 1 \in 1 .. i /\ j \in 1 .. Len(steps) - 1
      BY <1>1, <2>0
    <3> QED
      BY <1>1, <3>1, Zenon
  <2>3. 1 \in 1 .. i /\ i \in Nat /\ i + 1 - 1 = i
    BY <1>1
  <2>4. /\ Handlers!Before(steps, i + 1) = { steps[j] : j \in 1 .. i }
        /\ Handlers!Before(Tail(steps), i) = { Tail(steps)[j] : j \in 1 .. i - 1 }
    BY <2>3 DEF Handlers!Before
  <2>5. ASSUME NEW j \in 1 .. i
        PROVE  steps[j] \in {Head(steps)} \cup Handlers!Before(Tail(steps), i)
    BY <1>1, <2>1, <2>4, Zenon
  <2>6. ASSUME NEW j \in 1 .. i - 1
        PROVE  Tail(steps)[j] \in Handlers!Before(steps, i + 1)
    BY <2>2, <2>4, Zenon
  <2>7. Head(steps) \in Handlers!Before(steps, i + 1)
    BY <1>1, <2>3, <2>4, Zenon
  <2> QED
    BY <2>4, <2>5, <2>6, <2>7, Zenon
<1> QED
  BY <1>1, <1>2 DEF Handlers!ToSet

\* A step is over that has done what it is for, and whose refusal, if any, is told.
LEMMA OnwardIsSound ==
    ASSUME NEW c \in Handlers!AtWork, Sound(c), c.todo # <<>>,
           c.answer = Handlers!None =>
               /\ Head(c.todo) \in Handlers!Effect => Head(c.todo) \in c.did
               /\ Head(c.todo) = "permit" => Handlers!Granted(c.req)
    PROVE  Handlers!Onward(c) \in Handlers!AtWork /\ Sound(Handlers!Onward(c))
<1>1. c.todo \in Seq(Handlers!Step)
  BY DEF Handlers!AtWork
<1>2. PICK d : d = Handlers!Onward(c)
  OBVIOUS
<1>3. /\ d \in Handlers!AtWork /\ d.todo = Tail(c.todo)
      /\ d.req = c.req /\ d.did = c.did /\ d.answer = c.answer
  <2>1. PICK rest \in Seq(Handlers!Step) : rest = Tail(c.todo)
    BY <1>1, TailOfSteps
  <2>2. d = [c EXCEPT !.todo = rest]
    BY <1>2, <2>1 DEF Handlers!Onward
  <2>3. d \in Handlers!AtWork
    BY <2>1, <2>2 DEF Handlers!AtWork
  <2>4. d.todo = rest /\ d.req = c.req /\ d.did = c.did /\ d.answer = c.answer
    BY <2>1, <2>2 DEF Handlers!AtWork
  <2> QED
    BY <2>1, <2>3, <2>4
<1>4. ASSUME c.answer = Handlers!None, NEW i \in DOMAIN d.todo, d.todo[i] = "send"
      PROVE  /\ Handlers!Effects(c.req) \subseteq c.did \cup Handlers!Before(d.todo, i)
             /\ Handlers!NeedsPermit(c.req) =>
                  Handlers!Granted(c.req) \/ "permit" \in Handlers!Before(d.todo, i)
  <2>1. /\ i + 1 \in DOMAIN c.todo /\ c.todo[i + 1] = "send"
        /\ Handlers!Before(c.todo, i + 1)
             = {Head(c.todo)} \cup Handlers!Before(d.todo, i)
    BY <1>1, <1>3, <1>4, TailOfSteps
  <2>2. Handlers!Effects(c.req) \subseteq Handlers!Effect
    BY DEF Handlers!Effects
  <2> QED
    BY <1>4, <2>1, <2>2 DEF Sound
<1>5. Handlers!ToSet(d.todo) \subseteq Handlers!ToSet(c.todo)
  BY <1>1, <1>3, TailOfSteps
<1>6. Sound(d)
  BY <1>3, <1>4, <1>5 DEF Sound
<1> QED
  BY <1>2, <1>3, <1>6

\* A request that arrives has all of its plan to do.
LEMMA ArriveKeepsApiInv ==
    ASSUME Handlers!ApiAssumption, Handlers!ApiInv,
           NEW s \in Slot, NEW q \in Handled, Handlers!Arrive(s, q)
    PROVE  Handlers!ApiInv'
<1> DEFINE c == [req |-> q, answer |-> Handlers!None, did |-> {},
                 todo |-> Handlers!Plan(q)]
<1>1. handled' = [handled EXCEPT ![s] = c] /\ bare' = bare
  BY DEF Handlers!Arrive, Handlers!Becomes
<1>2. c \in Handlers!AtWork /\ c # Idle
  BY DEF Handlers!ApiAssumption, Handlers!AtWork, Handlers!Answer, Handlers!None
<1>3. /\ c.req = q /\ c.answer = Handlers!None /\ c.did = {}
      /\ c.todo = Handlers!Plan(q)
  OBVIOUS
<1> HIDE DEF c
<1> USE DEF Handlers!ApiInv
<1>4. Handlers!ApiTypeOK'
  BY <1>1, <1>2 DEF Handlers!ApiTypeOK
<1>5. Handlers!WorkIsOfTheController'
  BY <1>1, <1>3 DEF Handlers!ApiTypeOK, Handlers!WorkIsOfTheController, Handlers!ApiAssumption
<1>6. Handlers!NothingIsSkipped'
  BY <1>1, <1>3 DEF Handlers!ApiTypeOK, Handlers!NothingIsSkipped, Handlers!ApiAssumption
<1>7. Handlers!SuccessMeansDone' /\ Handlers!SuccessMeansAllowed'
  BY <1>1, <1>3 DEF Handlers!ApiTypeOK, Handlers!SuccessMeansDone, Handlers!None,
                    Handlers!SuccessMeansAllowed, Handlers!Status
<1> QED
  BY <1>4, <1>5, <1>6, <1>7

\* What a step does is one of the effects of the request.
LEMMA DidIsSound ==
    ASSUME NEW c \in Handlers!AtWork, Sound(c), c.todo # <<>>
    PROVE  /\ Handlers!Did(c) \in Handlers!AtWork /\ Sound(Handlers!Did(c))
           /\ Handlers!Did(c).req = c.req /\ Handlers!Did(c).todo = c.todo
           /\ Head(c.todo) \in Handlers!Effect => Head(c.todo) \in Handlers!Did(c).did
<1>1. PICK did : did = c.did \cup ({Head(c.todo)} \cap Handlers!Effect)
  OBVIOUS
<1>2. PICK d : d = Handlers!Did(c)
  OBVIOUS
<1>3. d = [c EXCEPT !.did = did]
  BY <1>1, <1>2 DEF Handlers!Did
<1>4. did \in SUBSET Handlers!Effect /\ c.todo \in Seq(Handlers!Step)
  BY <1>1 DEF Handlers!AtWork
<1>5. /\ d \in Handlers!AtWork /\ d.todo = c.todo /\ d.req = c.req
      /\ d.answer = c.answer /\ d.did = did
  BY <1>3, <1>4 DEF Handlers!AtWork
<1>6. Head(c.todo) \in Handlers!ToSet(c.todo)
  BY <1>4, TailOfSteps
<1>7. Sound(d)
  BY <1>1, <1>5, <1>6 DEF Sound
<1> QED
  BY <1>1, <1>2, <1>5, <1>7

\* The first answer stays: an error, or the success of a request that has come to
\* its answer.
LEMMA AnsweredIsSound ==
    ASSUME NEW c \in Handlers!AtWork, Sound(c), c.todo # <<>>,
           NEW kind \in DOMAIN Handlers!Status,
           kind = "Success" => Head(c.todo) = "send"
    PROVE  /\ Handlers!Answered(c, kind) \in Handlers!AtWork
           /\ Sound(Handlers!Answered(c, kind))
           /\ Handlers!Answered(c, kind).todo = c.todo
           /\ Handlers!Answered(c, kind).answer # Handlers!None
<1>1. PICK answer : answer = IF c.answer = Handlers!None THEN Handlers!Status[kind]
                             ELSE c.answer
  OBVIOUS
<1>2. PICK d : d = Handlers!Answered(c, kind)
  OBVIOUS
<1>3. d = [c EXCEPT !.answer = answer]
  BY <1>1, <1>2 DEF Handlers!Answered
<1>4. /\ Handlers!Status[kind] \in Handlers!Answer \ {Handlers!None}
      /\ Handlers!Status[kind] = 200 <=> kind = "Success"
  BY DEF Handlers!Status, Handlers!Answer, Handlers!None
<1>5. c.answer \in Handlers!Answer /\ c.todo \in Seq(Handlers!Step)
  BY DEF Handlers!AtWork
<1>6. /\ d \in Handlers!AtWork /\ d.todo = c.todo /\ d.req = c.req /\ d.did = c.did
      /\ d.answer = answer /\ answer # Handlers!None
  BY <1>1, <1>3, <1>4, <1>5 DEF Handlers!AtWork
<1>7. ASSUME c.answer = Handlers!None, kind = "Success"
      PROVE  /\ Handlers!Effects(c.req) \subseteq c.did
             /\ Handlers!NeedsPermit(c.req) => Handlers!Granted(c.req)
  <2>1. 1 \in DOMAIN c.todo /\ c.todo[1] = "send"
    BY <1>5, <1>7
  <2>2. Handlers!Before(c.todo, 1) = {}
    BY DEF Handlers!Before
  <2> QED
    BY <1>7, <2>1, <2>2 DEF Sound
<1>8. Sound(d)
  BY <1>1, <1>4, <1>6, <1>7 DEF Sound
<1> QED
  BY <1>2, <1>6, <1>8

\* A request that goes no further says nothing that it has not said.
LEMMA OverIsSound ==
    ASSUME NEW c \in Handlers!AtWork, Sound(c)
    PROVE  Handlers!Over(c) \in Handlers!AtWork /\ Sound(Handlers!Over(c))
<1>1. PICK d : d = Handlers!Over(c)
  OBVIOUS
<1>0. <<>> \in Seq(Handlers!Step)
  OBVIOUS
<1>2. PICK none \in Seq(Handlers!Step) : none = <<>>
  BY <1>0
<1>3. d = [c EXCEPT !.todo = none]
  BY <1>1, <1>2 DEF Handlers!Over
<1>4. /\ d \in Handlers!AtWork /\ d.todo = none /\ d.req = c.req /\ d.did = c.did
      /\ d.answer = c.answer
  BY <1>3 DEF Handlers!AtWork
<1>5. DOMAIN none = {} /\ Handlers!ToSet(none) = {}
  BY <1>2 DEF Handlers!ToSet
<1>6. Sound(d)
  BY <1>4, <1>5 DEF Sound
<1> QED
  BY <1>1, <1>4, <1>6

\* A step of one request leaves the others as they are.
LEMMA SoundStepKeepsApiInv ==
    ASSUME Handlers!ApiAssumption, Handlers!ApiInv, NEW s \in Slot,
           NEW d \in Handlers!AtWork, Sound(d),
           handled' = [handled EXCEPT ![s] = d], bare' = bare
    PROVE  Handlers!ApiInv'
<1>1. Handlers!ApiTypeOK'
  BY DEF Handlers!ApiInv, Handlers!ApiTypeOK
<1>2. \A t \in Slot : handled'[t] # Idle => Sound(handled'[t])
  BY RequestsAreSound DEF Handlers!ApiInv, Handlers!ApiTypeOK
<1> QED
  BY <1>1, <1>2, SoundIsApiInv

\* The errors that a step is told as.
LEMMA ToldIsAnError ==
    ASSUME NEW controller, NEW step, NEW kind \in Handlers!Told(controller, step)
    PROVE  kind \in DOMAIN Handlers!Status /\ kind # "Success"
BY DEF Handlers!Told, Handlers!Status

\* What a request does by itself: each step leaves it sound.
LEMMA WorkKeepsApiInv ==
    ASSUME Handlers!ApiAssumption, Handlers!ApiInv, NEW s \in Slot, Handlers!Work(s)
    PROVE  Handlers!ApiInv'
<1> DEFINE c == handled[s]
<1>1. c # Idle /\ c.todo # <<>> /\ bare' = bare
  BY DEF Handlers!Work, Handlers!Guard, Handlers!Permit, Handlers!Succeed, Handlers!Fail,
         Handlers!FailToMail, Handlers!SendAnswer, Handlers!At
<1>2. c \in Handlers!AtWork /\ Sound(c)
  BY <1>1, RequestsAreSound DEF Handlers!ApiInv, Handlers!ApiTypeOK
<1>3. ASSUME NEW d \in Handlers!AtWork, Sound(d), handled' = [handled EXCEPT ![s] = d]
      PROVE  Handlers!ApiInv'
  BY <1>1, <1>3, SoundStepKeepsApiInv
<1> HIDE DEF c
<1>4. CASE Handlers!Succeed(s)
  <2>1. handled' = [handled EXCEPT ![s] = Handlers!Onward(Handlers!Did(c))]
        /\ Head(c.todo) \in {"evaluate", "find", "read", "emit"} \cup Handlers!Effect
    BY <1>4 DEF Handlers!Succeed, Handlers!Becomes, Handlers!At, c
  <2>2. PICK d : d = Handlers!Did(c)
    OBVIOUS
  <2>3. /\ d \in Handlers!AtWork /\ Sound(d) /\ d.todo = c.todo
        /\ Head(d.todo) \in Handlers!Effect => Head(d.todo) \in d.did
    BY <1>1, <1>2, <2>2, DidIsSound
  <2>4. Head(d.todo) # "permit"
    BY <2>1, <2>3 DEF Handlers!Effect
  <2>5. Handlers!Onward(d) \in Handlers!AtWork /\ Sound(Handlers!Onward(d))
    BY <1>1, <2>3, <2>4, OnwardIsSound
  <2> QED
    BY <1>3, <2>1, <2>2, <2>5
<1>5. ASSUME NEW kind \in DOMAIN Handlers!Status, kind # "Success",
             handled' = [handled EXCEPT ![s] = Handlers!Over(Handlers!Answered(c, kind))]
      PROVE  Handlers!ApiInv'
  <2>1. PICK d : d = Handlers!Answered(c, kind)
    OBVIOUS
  <2>2. d \in Handlers!AtWork /\ Sound(d)
    BY <1>1, <1>2, <1>5, <2>1, AnsweredIsSound
  <2>3. Handlers!Over(d) \in Handlers!AtWork /\ Sound(Handlers!Over(d))
    BY <2>2, OverIsSound
  <2> QED
    BY <1>3, <1>5, <2>1, <2>3
<1>6. ASSUME NEW kind \in DOMAIN Handlers!Status, kind = "Success" => Head(c.todo) = "send",
             handled' = [handled EXCEPT ![s] = Handlers!Onward(Handlers!Answered(c, kind))]
      PROVE  Handlers!ApiInv'
  <2>1. PICK d : d = Handlers!Answered(c, kind)
    OBVIOUS
  <2>2. d \in Handlers!AtWork /\ Sound(d) /\ d.todo = c.todo /\ d.answer # Handlers!None
    BY <1>1, <1>2, <1>6, <2>1, AnsweredIsSound
  <2>3. Handlers!Onward(d) \in Handlers!AtWork /\ Sound(Handlers!Onward(d))
    BY <1>1, <2>2, OnwardIsSound
  <2> QED
    BY <1>3, <1>6, <2>1, <2>3
<1>7. ASSUME Head(c.todo) \notin Handlers!Effect,
             Head(c.todo) = "permit" => Handlers!Granted(c.req),
             handled' = [handled EXCEPT ![s] = Handlers!Onward(c)]
      PROVE  Handlers!ApiInv'
  <2>1. Handlers!Onward(c) \in Handlers!AtWork /\ Sound(Handlers!Onward(c))
    BY <1>1, <1>2, <1>7, OnwardIsSound
  <2> QED
    BY <1>3, <1>7, <2>1
<1>8. CASE Handlers!Guard(s)
  <2>1. Head(c.todo) \in {"limit", "auth", "valid"}
    BY <1>8 DEF Handlers!Guard, Handlers!At, c
  <2>2. CASE handled' = [handled EXCEPT ![s] = Handlers!Onward(c)]
    BY <1>7, <2>1, <2>2 DEF Handlers!Effect
  <2>3. ASSUME NEW kind \in Handlers!Failures(c),
               handled' = [handled EXCEPT ![s] = Handlers!Over(Handlers!Answered(c, kind))]
        PROVE  Handlers!ApiInv'
    BY <1>5, <2>3, ToldIsAnError DEF Handlers!Failures
  <2> QED
    BY <1>8, <2>2, <2>3 DEF Handlers!Guard, Handlers!Becomes, c
<1>9. CASE Handlers!Permit(s)
  <2>1. Head(c.todo) = "permit"
    BY <1>9 DEF Handlers!Permit, Handlers!At, c
  <2>2. CASE Handlers!Granted(c.req)
    <3>1. handled' = [handled EXCEPT ![s] = Handlers!Onward(c)]
      BY <1>9, <2>2 DEF Handlers!Permit, Handlers!Becomes, c
    <3> QED
      BY <1>7, <2>1, <2>2, <3>1 DEF Handlers!Effect
  <2>3. CASE ~Handlers!Granted(c.req)
    <3>1. handled' = [handled EXCEPT ![s] =
                        Handlers!Onward(Handlers!Answered(c, "UnauthorizedError"))]
      BY <1>9, <2>3 DEF Handlers!Permit, Handlers!Becomes, c
    <3>2. "UnauthorizedError" \in DOMAIN Handlers!Status
      BY DEF Handlers!Status
    <3> QED
      BY <1>6, <3>1, <3>2
  <2> QED
    BY <2>2, <2>3
<1>10. CASE Handlers!Fail(s)
  BY <1>5, <1>10, ToldIsAnError DEF Handlers!Fail, Handlers!Failures, Handlers!Becomes, c
<1>11. CASE Handlers!FailToMail(s)
  <2>1. handled' = [handled EXCEPT ![s] = Handlers!Onward(Handlers!Answered(c, "OtherError"))]
    BY <1>11 DEF Handlers!FailToMail, Handlers!Becomes, c
  <2>2. "OtherError" \in DOMAIN Handlers!Status
    BY DEF Handlers!Status
  <2> QED
    BY <1>6, <2>1, <2>2
<1>12. CASE Handlers!SendAnswer(s)
  <2>1. handled' = [handled EXCEPT ![s] = Handlers!Onward(Handlers!Answered(c, "Success"))]
        /\ Head(c.todo) = "send"
    BY <1>12 DEF Handlers!SendAnswer, Handlers!Becomes, Handlers!At, c
  <2>2. "Success" \in DOMAIN Handlers!Status
    BY DEF Handlers!Status
  <2> QED
    BY <1>6, <2>1, <2>2
<1> QED
  BY <1>4, <1>8, <1>9, <1>10, <1>11, <1>12 DEF Handlers!Work

\* A failure that nobody catches ends every request, and what was submitted may
\* be done all the same.
LEMMA CollapseKeepsApiInv ==
    ASSUME Handlers!ApiAssumption, Handlers!ApiInv, NEW s \in Slot, Handlers!Collapse(s)
    PROVE  Handlers!ApiInv'
<1>1. PICK committed \in SUBSET { t \in Slot : Handlers!At(t, {"submit"}) } :
        handled' = [t \in Slot |->
                      IF handled[t] = Idle THEN Idle
                      ELSE Handlers!Over(IF t \in committed THEN Handlers!Did(handled[t])
                                         ELSE handled[t])]
  BY DEF Handlers!Collapse
<1>2. ASSUME NEW t \in Slot, handled[t] # Idle
      PROVE  handled'[t] \in Handlers!AtWork /\ Sound(handled'[t])
  <2>1. handled[t] \in Handlers!AtWork /\ Sound(handled[t])
    BY <1>2, RequestsAreSound DEF Handlers!ApiInv, Handlers!ApiTypeOK
  <2>2. CASE t \in committed
    <3>1. handled[t].todo # <<>>
      BY <2>2 DEF Handlers!At
    <3>2. PICK d : d = Handlers!Did(handled[t])
      OBVIOUS
    <3>3. d \in Handlers!AtWork /\ Sound(d)
      BY <2>1, <3>1, <3>2, DidIsSound
    <3>4. handled'[t] = Handlers!Over(d)
      BY <1>1, <1>2, <2>2, <3>2
    <3> QED
      BY <3>3, <3>4, OverIsSound
  <2>3. CASE t \notin committed
    <3>1. handled'[t] = Handlers!Over(handled[t])
      BY <1>1, <1>2, <2>3
    <3> QED
      BY <2>1, <3>1, OverIsSound
  <2> QED
    BY <2>2, <2>3
<1>3. handled' \in [Slot -> {Idle} \cup Handlers!AtWork]
      /\ \A t \in Slot : handled'[t] # Idle => Sound(handled'[t])
  BY <1>1, <1>2
<1>4. bare' \in 0 .. MaxBare
  BY DEF Handlers!Collapse, Handlers!ApiAssumption, Handlers!ApiInv, Handlers!ApiTypeOK
<1> QED
  BY <1>3, <1>4, SoundIsApiInv DEF Handlers!ApiTypeOK

\* An answer of success is true: the request has done all it was for, and was
\* allowed, whatever fails on the way and although no handler stops at a refusal
\* (codes.ts:136, users.ts:22, and the checks of the role in every controller).
THEOREM SuccessIsTrue == Handlers!Spec => []ApiInv
<1>1. Handlers!Init => Handlers!ApiInv
  <2> SUFFICES ASSUME Handlers!Init PROVE Handlers!ApiInv
    OBVIOUS
  <2>1. Handlers!ApiTypeOK
    BY HandlersAssumption DEF HandlersAssumption, Handlers!ApiAssumption, Handlers!Init,
                              Handlers!ApiTypeOK
  <2>2. \A s \in Slot : handled[s] = Idle
    BY DEF Handlers!Init
  <2> QED
    BY <2>1, <2>2 DEF Handlers!ApiInv, Handlers!WorkIsOfTheController,
       Handlers!NothingIsSkipped, Handlers!SuccessMeansDone, Handlers!SuccessMeansAllowed
<1>2. Handlers!ApiInv /\ [Handlers!Next]_Handlers!vars => Handlers!ApiInv'
  <2> SUFFICES ASSUME Handlers!ApiInv, [Handlers!Next]_Handlers!vars
               PROVE  Handlers!ApiInv'
    OBVIOUS
  <2>0. Handlers!ApiAssumption
    BY HandlersAssumption DEF HandlersAssumption
  <2>1. CASE UNCHANGED Handlers!vars
    BY <2>1 DEF Handlers!vars, Handlers!ApiInv, Handlers!ApiTypeOK,
       Handlers!WorkIsOfTheController, Handlers!NothingIsSkipped,
       Handlers!SuccessMeansDone, Handlers!SuccessMeansAllowed
  <2>2. ASSUME NEW s \in Slot, Handlers!Leave(s) PROVE Handlers!ApiInv'
    <3>1. handled' = [handled EXCEPT ![s] = Idle] /\ bare' = bare
      BY <2>2 DEF Handlers!Leave, Handlers!Becomes
    <3>2. Handlers!ApiTypeOK'
      BY <3>1 DEF Handlers!ApiInv, Handlers!ApiTypeOK
    <3>3. \A t \in Slot : handled'[t] # Idle => Sound(handled'[t])
      BY <3>1, RequestsAreSound DEF Handlers!ApiInv, Handlers!ApiTypeOK
    <3> QED
      BY <3>2, <3>3, SoundIsApiInv
  <2>3. ASSUME NEW s \in Slot, Handlers!Work(s) PROVE Handlers!ApiInv'
    BY <2>0, <2>3, WorkKeepsApiInv
  <2>4. ASSUME NEW s \in Slot, Handlers!Collapse(s) PROVE Handlers!ApiInv'
    BY <2>0, <2>4, CollapseKeepsApiInv
  <2>5. ASSUME NEW s \in Slot, NEW q \in Handled, Handlers!Arrive(s, q)
        PROVE  Handlers!ApiInv'
    BY <2>0, <2>5, ArriveKeepsApiInv
  <2> QED
    BY <2>1, <2>2, <2>3, <2>4, <2>5 DEF Handlers!Next, Handlers!Work
<1> QED
  BY <1>1, <1>2, PTL DEF Handlers!Spec, ApiInv

----------------------------------------------------------------------------
(* RateLimiter *)

\* The counters and the rules of the requests that are limited.
LEMMA LimitedHasKey ==
    ASSUME NEW q \in Request, Limited(q)
    PROVE  /\ q \in DOMAIN Limiter /\ KeyOf(q) \in Key
           /\ RuleOf(q).limit = Limit /\ Ticks(q) \in 1 .. Memory
BY RulesAssumption DEF RulesAssumption, Limiter, Key, KeyOf

\* The limiter keeps the routes that are limited, and no others.
LEMMA DomainIsLimited == \A q : q \in DOMAIN Limiter <=> q \in Request /\ Limited(q)
BY DEF Limiter

\* Requests at work are some of the slots.
LEMMA SlotsAreCounted ==
    /\ Cardinality(Slot) \in Nat
    /\ \A S \in SUBSET Slot :
         /\ IsFiniteSet(S)
         /\ Cardinality(S) \in Nat /\ Cardinality(S) <= Cardinality(Slot)
         /\ \A s \in Slot \ S : Cardinality(S \cup {s}) = Cardinality(S) + 1
         /\ \A s \in S : Cardinality(S \ {s}) = Cardinality(S) - 1
<1>1. IsFiniteSet(Slot)
  BY LimiterAssumption DEF LimiterAssumption
<1>2. Cardinality(Slot) \in Nat
  BY <1>1, FS_CardinalityType
<1>3. ASSUME NEW S \in SUBSET Slot
      PROVE  /\ IsFiniteSet(S)
             /\ Cardinality(S) \in Nat /\ Cardinality(S) <= Cardinality(Slot)
  <2>1. IsFiniteSet(S) /\ Cardinality(S) <= Cardinality(Slot)
    BY <1>1, FS_Subset
  <2> QED
    BY <2>1, FS_CardinalityType
<1>4. ASSUME NEW S \in SUBSET Slot, NEW s \in Slot \ S
      PROVE  Cardinality(S \cup {s}) = Cardinality(S) + 1
  BY <1>3, FS_AddElement
<1>5. ASSUME NEW S \in SUBSET Slot, NEW s \in S
      PROVE  Cardinality(S \ {s}) = Cardinality(S) - 1
  BY <1>3, FS_RemoveElement
<1> QED
  BY <1>2, <1>3, <1>4, <1>5

\* The numbers that the invariant relates are natural numbers.
LEMMA LimiterNumbers ==
    ASSUME LimiterTypeOK, NEW q \in Request, Limited(q)
    PROVE  /\ Limit \in Nat \ {0} /\ Memory \in Nat /\ Ticks(q) \in 1 .. Memory
           /\ Cardinality(Slot) \in Nat
           /\ Cardinality(AtWork(q)) \in Nat /\ Cardinality(AtWork(q)) <= Cardinality(Slot)
           /\ KeyOf(q) \in Key
           /\ counter[KeyOf(q)] \in 0 .. Limit + 1 /\ expires[KeyOf(q)] \in Nat
           /\ \A w \in 0 .. Memory : admitted[q][w] \in Nat
<1>1. AtWork(q) \in SUBSET Slot
  BY DEF AtWork
<1>2. Limit \in Nat \ {0} /\ Memory \in Nat
  BY LimiterAssumption DEF LimiterAssumption
<1>3. KeyOf(q) \in Key /\ Ticks(q) \in 1 .. Memory
  BY LimitedHasKey
<1> QED
  BY <1>1, <1>2, <1>3, SlotsAreCounted DEF LimiterTypeOK, Window, Ceiling

\* A window that a counter watches over, and a shorter one.
LEMMA WatchedWindows ==
    ASSUME NEW q, NEW w \in Watched(q)
    PROVE  /\ w \in 0 .. Memory /\ w \in Nat
           /\ \A p \in Sharing(q) : w <= Ticks(p)
           /\ \A d \in 0 .. w : d \in Watched(q)
<1>1. Memory \in Nat /\ \A p \in Sharing(q) : Ticks(p) \in Nat
  BY LimiterAssumption, RulesAssumption DEF LimiterAssumption, RulesAssumption, Sharing
<1>2. w \in 0 .. Memory /\ \A p \in Sharing(q) : w <= Ticks(p)
  BY DEF Watched, Window
<1>3. ASSUME NEW d \in 0 .. w PROVE d \in Watched(q)
  BY <1>1, <1>2 DEF Watched, Window
<1> QED
  BY <1>1, <1>2, <1>3

\* A window that a counter watches over is near the limit, since the counter covers it.
LEMMA CoveredIsNearLimit ==
    ASSUME LimiterTypeOK', CounterCoversTheWindow'
    PROVE  AdmittedNearLimit'
<1> SUFFICES ASSUME NEW q \in DOMAIN Limiter, NEW w \in Watched(q)
             PROVE  admitted'[q][w] <= Limit + Cardinality(Slot)
  BY DEF AdmittedNearLimit
<1>1. q \in Request /\ Limited(q)
  BY DomainIsLimited
<1>2. PICK S \in SUBSET Slot : S = AtWork(q)'
  BY DEF AtWork
<1>3. Cardinality(S) \in Nat /\ Cardinality(Slot) \in Nat /\ Limit \in Nat
  BY SlotsAreCounted, LimiterAssumption DEF LimiterAssumption
<1>4. counter'[KeyOf(q)] \in Nat /\ admitted'[q][w] \in Nat
  <2>1. KeyOf(q) \in Key /\ w \in Window
    BY <1>1, LimitedHasKey, WatchedWindows DEF Window
  <2>2. counter' \in [Key -> 0 .. Limit + 1] /\ admitted' \in [Request -> [Window -> Nat]]
    BY DEF LimiterTypeOK, Ceiling
  <2> QED
    BY <1>1, <1>3, <2>1, <2>2
<1>5. admitted'[q][w] + Cardinality(S) <= Cardinality(Slot) + Within(counter'[KeyOf(q)])
  BY <1>1, <1>2 DEF CounterCoversTheWindow, Covered
<1> QED
  BY <1>3, <1>4, <1>5 DEF Within

\* What is logged is in every window of its request, and in none of another.
LEMMA LoggedInWindows ==
    ASSUME NEW log \in [Request -> [Window -> Nat]], NEW q \in Request
    PROVE  /\ Logged(log, q) \in [Request -> [Window -> Nat]]
           /\ \A p \in Request \ {q} : Logged(log, q)[p] = log[p]
           /\ Logged(log, q)[q][0] = 0
           /\ \A w \in 1 .. Memory : Logged(log, q)[q][w] = log[q][w] + 1
<1>1. PICK row : row = [w \in Window |-> IF w = 0 THEN 0 ELSE log[q][w] + 1]
  OBVIOUS
<1>2. Logged(log, q) = [log EXCEPT ![q] = row]
  BY <1>1 DEF Logged
<1>3. Memory \in Nat
  BY LimiterAssumption DEF LimiterAssumption
<1>4. row \in [Window -> Nat] /\ row[0] = 0 /\ \A w \in 1 .. Memory : row[w] = log[q][w] + 1
  BY <1>1, <1>3 DEF Window
<1> QED
  BY <1>2, <1>4

\* A tick makes each window of the one that was shorter by a tick.
LEMMA AgedByATick ==
    ASSUME NEW log \in [Request -> [Window -> Nat]]
    PROVE  /\ Aged(log) \in [Request -> [Window -> Nat]]
           /\ \A q \in Request : /\ Aged(log)[q][0] = 0
                                 /\ \A w \in 1 .. Memory : Aged(log)[q][w] = log[q][w - 1]
<1>1. Memory \in Nat /\ 0 \in Window /\ \A w \in 1 .. Memory : w \in Window /\ w # 0
  BY LimiterAssumption DEF LimiterAssumption, Window
<1>2. ASSUME NEW q \in Request
      PROVE  /\ Aged(log)[q] \in [Window -> Nat]
             /\ Aged(log)[q][0] = 0
             /\ \A w \in 1 .. Memory : Aged(log)[q][w] = log[q][w - 1]
  <2>1. Aged(log)[q] = [w \in Window |-> IF w = 0 THEN 0 ELSE log[q][w - 1]]
    BY DEF Aged
  <2>2. \A w \in Window : w # 0 => w - 1 \in Window
    BY <1>1 DEF Window
  <2> QED
    BY <1>1, <2>1, <2>2
<1> QED
  BY <1>2 DEF Aged

\* A request without a rule is let in and no counter knows.
LEMMA PassKeepsLimiterInv ==
    ASSUME LimiterInv, NEW q \in Request, Pass(q)
    PROVE  LimiterInv'
<1>1. ~Limited(q)
  BY DomainIsLimited DEF Pass
<1>2. admitted' = Logged(admitted, q) /\ UNCHANGED <<counter, expires, call, crashes>>
  BY DEF Pass
<1>3. Memory \in Nat /\ admitted \in [Request -> [Window -> Nat]]
  BY LimiterAssumption DEF LimiterAssumption, LimiterInv, LimiterTypeOK
<1>4. LimiterTypeOK'
  BY <1>2, <1>3, LoggedInWindows DEF LimiterInv, LimiterTypeOK
<1>5. CounterCoversTheWindow'
  <2> SUFFICES ASSUME NEW p \in Request
               PROVE  /\ admitted'[p][0] = 0
                      /\ IF Limited(p) THEN Covered(p)' ELSE AtWork(p)' = {}
    BY DEF CounterCoversTheWindow
  <2>1. admitted[p][0] = 0 /\ IF Limited(p) THEN Covered(p) ELSE AtWork(p) = {}
    BY DEF LimiterInv, CounterCoversTheWindow
  <2>2. AtWork(p)' = AtWork(p)
    BY <1>2 DEF AtWork
  <2>3. CASE p = q
    <3>1. admitted'[p][0] = 0
      BY <1>2, <1>3, <2>3, LoggedInWindows
    <3> QED
      BY <1>1, <2>1, <2>2, <2>3, <3>1
  <2>4. CASE p # q
    <3>1. admitted'[p] = admitted[p]
      BY <1>2, <1>3, <2>4, LoggedInWindows
    <3> QED
      BY <1>2, <2>1, <2>2, <3>1 DEF Covered
  <2> QED
    BY <2>3, <2>4
<1>6. LastingOnlyByCrash'
  BY <1>2 DEF LimiterInv, LastingOnlyByCrash
<1> QED
  BY <1>4, <1>5, <1>6, CoveredIsNearLimit DEF LimiterInv

\* A request is counted: it is let in only as long as the counter, and so the
\* window, is within the limit.
LEMMA IncreaseKeepsLimiterInv ==
    ASSUME LimiterInv, NEW s \in Slot, NEW q \in Request, Increase(s, q)
    PROVE  LimiterInv'
<1> DEFINE k == KeyOf(q)
           refused == counter[k] + 1 > RuleOf(q).limit
<1>1. /\ Limited(q) /\ k \in Key /\ RuleOf(q).limit = Limit
      /\ Limit \in Nat \ {0} /\ counter[k] \in 0 .. Limit + 1
  <2>1. Limited(q)
    BY DomainIsLimited DEF Increase
  <2> QED
    BY <2>1, LimiterNumbers, LimitedHasKey DEF LimiterInv
<1>2. /\ call[s] = Idle /\ counter' = [counter EXCEPT ![k] = Capped(counter[k] + 1)]
      /\ call' = [call EXCEPT ![s] = IF refused THEN Idle ELSE q]
      /\ UNCHANGED <<expires, admitted, crashes>>
  BY DEF Increase
<1>3. /\ Capped(counter[k] + 1) \in 1 .. Limit + 1 /\ Capped(counter[k] + 1) >= counter[k]
      /\ counter[k] + 1 <= Limit => Capped(counter[k] + 1) = counter[k] + 1
  BY <1>1 DEF Capped, Ceiling
<1>4. /\ counter \in [Key -> 0 .. Limit + 1] /\ call \in [Slot -> Request \cup {Idle}]
      /\ Idle \notin Request
  BY LimiterAssumption DEF LimiterAssumption, LimiterInv, LimiterTypeOK, Ceiling
<1> HIDE DEF k, refused
<1>5. LimiterTypeOK'
  BY <1>1, <1>2, <1>3, <1>4 DEF LimiterInv, LimiterTypeOK, Ceiling
<1>6. CounterCoversTheWindow'
  <2> SUFFICES ASSUME NEW p \in Request
               PROVE  /\ admitted'[p][0] = 0
                      /\ IF Limited(p) THEN Covered(p)' ELSE AtWork(p)' = {}
    BY DEF CounterCoversTheWindow
  <2>1. admitted[p][0] = 0 /\ IF Limited(p) THEN Covered(p) ELSE AtWork(p) = {}
    BY DEF LimiterInv, CounterCoversTheWindow
  <2>2. admitted'[p][0] = 0
    BY <1>2, <2>1
  <2>3. AtWork(p)' = IF p = q /\ ~refused THEN AtWork(p) \cup {s} ELSE AtWork(p)
    BY <1>2, <1>4 DEF AtWork
  <2>4. AtWork(p) \in SUBSET Slot /\ s \notin AtWork(p)
    BY <1>2, <1>4 DEF AtWork
  <2>5. CASE ~Limited(p)
    BY <1>1, <2>1, <2>2, <2>3, <2>5
  <2>6. CASE Limited(p)
    <3>1. PICK n : n = Cardinality(AtWork(p))
      OBVIOUS
    <3>2. PICK m : m = Cardinality(AtWork(p)')
      OBVIOUS
    <3>3. m = IF p = q /\ ~refused THEN n + 1 ELSE n
      BY <2>3, <2>4, <3>1, <3>2, SlotsAreCounted
    <3>4. /\ n \in Nat /\ Cardinality(Slot) \in Nat /\ KeyOf(p) \in Key
          /\ counter[KeyOf(p)] \in 0 .. Limit + 1
          /\ \A w \in 0 .. Memory : admitted[p][w] \in Nat
      BY <2>6, <3>1, LimiterNumbers DEF LimiterInv
    <3>5. counter'[KeyOf(p)] = IF KeyOf(p) = k THEN Capped(counter[k] + 1)
                               ELSE counter[KeyOf(p)]
      BY <1>2, <1>4, <3>4
    <3>6. ASSUME NEW w \in Watched(p)
          PROVE  admitted[p][w] + m <= Cardinality(Slot) + Within(counter'[KeyOf(p)])
      <4>0. /\ admitted[p][w] + n <= Cardinality(Slot) + Within(counter[KeyOf(p)])
            /\ admitted[p][w] \in Nat
        BY <2>1, <2>6, <3>1, <3>4, WatchedWindows DEF Covered
      <4>1. CASE p = q /\ ~refused
        <5>1. counter[k] + 1 <= Limit /\ KeyOf(p) = k
          BY <1>1, <4>1 DEF refused, k
        <5> QED
          BY <1>1, <1>3, <3>3, <3>4, <3>5, <4>0, <4>1, <5>1 DEF Within
      <4>2. CASE ~(p = q /\ ~refused)
        BY <1>1, <1>3, <3>3, <3>4, <3>5, <4>0, <4>2 DEF Within
      <4> QED
        BY <4>1, <4>2
    <3>7. Covered(p)'
      BY <1>2, <2>1, <2>6, <3>2, <3>6 DEF Covered
    <3> QED
      BY <2>2, <2>6, <3>7
  <2> QED
    BY <2>5, <2>6
<1>7. LastingOnlyByCrash'
  <2> SUFFICES ASSUME NEW l \in Key, counter'[l] > 0, expires[l] = 0, ~(crashes > 0)
               PROVE  \E t \in Slot : call'[t] # Idle /\ KeyOf(call'[t]) = l
    BY <1>2 DEF LastingOnlyByCrash
  <2>1. counter[l] > 0 => \E t \in Slot : call[t] # Idle /\ KeyOf(call[t]) = l
    BY DEF LimiterInv, LastingOnlyByCrash
  <2>2. CASE counter[l] > 0
    BY <1>2, <2>1, <2>2
  <2>3. CASE ~(counter[l] > 0)
    <3>1. l = k /\ counter[k] = 0
      BY <1>1, <1>2, <1>4, <2>3
    <3>2. ~refused
      BY <1>1, <3>1 DEF refused
    <3> QED
      BY <1>2, <1>4, <3>1, <3>2 DEF k
  <2> QED
    BY <2>2, <2>3
<1> QED
  BY <1>5, <1>6, <1>7, CoveredIsNearLimit DEF LimiterInv

\* A request that was counted is let in: it leaves those at work for the window,
\* and its counter, if it is still there, lasts for the whole of the window.
LEMMA SetExpirationKeepsLimiterInv ==
    ASSUME LimiterInv, NEW s \in Slot, SetExpiration(s)
    PROVE  LimiterInv'
<1> DEFINE q == call[s]
           k == KeyOf(q)
<1>0. /\ counter \in [Key -> 0 .. Limit + 1] /\ call \in [Slot -> Request \cup {Idle}]
      /\ expires \in [Key -> Nat] /\ admitted \in [Request -> [Window -> Nat]]
      /\ Idle \notin Request
  BY LimiterAssumption DEF LimiterAssumption, LimiterInv, LimiterTypeOK, Ceiling
<1>1. q \in Request /\ q # Idle
  BY <1>0 DEF SetExpiration, Admits
<1>2. Limited(q)
  BY <1>1 DEF LimiterInv, CounterCoversTheWindow, AtWork
<1>3. k \in Key /\ Ticks(q) \in 1 .. Memory
  BY <1>1, <1>2, LimitedHasKey
<1>4. /\ call' = [call EXCEPT ![s] = Idle] /\ admitted' = Logged(admitted, q)
      /\ expires' = [expires EXCEPT ![k] = IF counter[k] = 0 THEN 0 ELSE Ticks(q)]
      /\ UNCHANGED <<counter, crashes>>
  BY DEF SetExpiration, Admits
<1>5. LimiterTypeOK'
  <2>1. Ticks(q) \in Nat
    BY <1>3
  <2>2. Logged(admitted, q) \in [Request -> [Window -> Nat]]
    BY <1>0, <1>1, LoggedInWindows
  <2> QED
    BY <1>0, <1>3, <1>4, <2>1, <2>2 DEF LimiterInv, LimiterTypeOK, Ceiling
<1> HIDE DEF q, k
<1>6. CounterCoversTheWindow'
  <2> SUFFICES ASSUME NEW p \in Request
               PROVE  /\ admitted'[p][0] = 0
                      /\ IF Limited(p) THEN Covered(p)' ELSE AtWork(p)' = {}
    BY DEF CounterCoversTheWindow
  <2>1. admitted[p][0] = 0 /\ IF Limited(p) THEN Covered(p) ELSE AtWork(p) = {}
    BY DEF LimiterInv, CounterCoversTheWindow
  <2>2. p # q => admitted'[p] = admitted[p]
    BY <1>0, <1>1, <1>4, LoggedInWindows
  <2>3. admitted'[p][0] = 0
    BY <1>0, <1>1, <1>4, <2>1, <2>2, LoggedInWindows
  <2>4. /\ AtWork(p)' = IF p = q THEN AtWork(p) \ {s} ELSE AtWork(p)
        /\ AtWork(p) \in SUBSET Slot /\ p = q => s \in AtWork(p)
    BY <1>0, <1>1, <1>4 DEF AtWork, q
  <2>5. CASE ~Limited(p)
    BY <1>2, <2>1, <2>3, <2>4, <2>5
  <2>6. CASE Limited(p)
    <3>1. PICK n : n = Cardinality(AtWork(p))
      OBVIOUS
    <3>2. PICK m : m = Cardinality(AtWork(p)')
      OBVIOUS
    <3>3. m = IF p = q THEN n - 1 ELSE n
      <4>1. CASE p = q
        <5>1. PICK S \in SUBSET Slot : S = AtWork(p)
          BY DEF AtWork
        <5>2. s \in S /\ m = Cardinality(S \ {s}) /\ n = Cardinality(S)
          BY <2>4, <3>1, <3>2, <4>1, <5>1
        <5> QED
          BY <4>1, <5>2, SlotsAreCounted
      <4>2. CASE p # q
        BY <2>4, <3>1, <3>2, <4>2
      <4> QED
        BY <4>1, <4>2
    <3>4. /\ n \in Nat /\ Cardinality(Slot) \in Nat /\ KeyOf(p) \in Key
          /\ Limit \in Nat /\ Memory \in Nat /\ counter[KeyOf(p)] \in 0 .. Limit + 1
          /\ \A w \in 0 .. Memory : admitted[p][w] \in Nat
      BY <2>6, <3>1, LimiterNumbers DEF LimiterInv
    <3>5. \A w \in 0 .. Memory :
            admitted'[p][w] <= IF p = q THEN admitted[p][w] + 1 ELSE admitted[p][w]
      <4>1. CASE p = q
        <5>1. \A w \in 1 .. Memory : admitted'[q][w] = admitted[q][w] + 1
          BY <1>0, <1>1, <1>4, LoggedInWindows
        <5>2. ASSUME NEW w \in 0 .. Memory PROVE admitted'[p][w] <= admitted[p][w] + 1
          BY <2>3, <3>4, <4>1, <5>1
        <5> QED
          BY <4>1, <5>2
      <4>2. CASE p # q
        BY <2>2, <3>4, <4>2
      <4> QED
        BY <4>1, <4>2
    <3>6. ASSUME NEW w \in Watched(p)
          PROVE  admitted'[p][w] + m <= Cardinality(Slot) + Within(counter'[KeyOf(p)])
      <4>1. /\ admitted[p][w] + n <= Cardinality(Slot) + Within(counter[KeyOf(p)])
            /\ w \in 0 .. Memory
        BY <2>1, <2>6, <3>1, WatchedWindows DEF Covered
      <4>2. /\ admitted'[p][w] \in Nat /\ admitted[p][w] \in Nat
            /\ admitted'[p][w] <= IF p = q THEN admitted[p][w] + 1 ELSE admitted[p][w]
        BY <1>5, <3>4, <3>5, <4>1 DEF LimiterTypeOK, Window
      <4> QED
        BY <1>4, <3>3, <3>4, <4>1, <4>2 DEF Within
    <3>7. ASSUME NEW w \in Watched(p), NEW d \in Window,
                 expires'[KeyOf(p)] > 0, d + expires'[KeyOf(p)] <= w
          PROVE  admitted'[p][d] = 0
      <4>0. w \in Nat /\ d \in Nat
        BY <3>4, WatchedWindows DEF Window
      <4>1. CASE KeyOf(p) = k
        <5>1. expires'[k] = Ticks(q)
          BY <1>0, <1>3, <1>4, <3>7, <4>1
        <5>2. q \in Sharing(p)
          BY <1>1, <1>2, <4>1, DomainIsLimited DEF Sharing, k
        <5>3. w <= Ticks(q)
          BY <5>2, WatchedWindows
        <5>4. d = 0
          BY <1>3, <3>7, <4>0, <4>1, <5>1, <5>3
        <5> QED
          BY <2>3, <5>4
      <4>2. CASE KeyOf(p) # k
        <5>1. p # q
          BY <4>2 DEF k
        <5>2. expires'[KeyOf(p)] = expires[KeyOf(p)]
          BY <1>0, <1>4, <3>4, <4>2
        <5> QED
          BY <2>1, <2>2, <2>6, <3>7, <5>1, <5>2 DEF Covered
      <4> QED
        BY <4>1, <4>2
    <3>8. Covered(p)'
      BY <3>2, <3>6, <3>7 DEF Covered
    <3> QED
      BY <2>3, <2>6, <3>8
  <2> QED
    BY <2>5, <2>6
<1>7. LastingOnlyByCrash'
  <2> SUFFICES ASSUME NEW l \in Key, counter[l] > 0, expires'[l] = 0, ~(crashes > 0)
               PROVE  \E t \in Slot : call'[t] # Idle /\ KeyOf(call'[t]) = l
    BY <1>4 DEF LastingOnlyByCrash
  <2>1. l # k
    BY <1>0, <1>3, <1>4
  <2>2. PICK t \in Slot : call[t] # Idle /\ KeyOf(call[t]) = l
    BY <1>0, <1>4, <2>1 DEF LimiterInv, LastingOnlyByCrash
  <2>3. t # s
    BY <2>1, <2>2 DEF k, q
  <2> QED
    BY <1>0, <1>4, <2>2, <2>3
<1> QED
  BY <1>5, <1>6, <1>7, CoveredIsNearLimit DEF LimiterInv

\* When a counter expires, nothing was let in for the time of its rule, but for
\* requests that were counted before it expired.
LEMMA TickKeepsLimiterInv ==
    ASSUME LimiterInv, Tick
    PROVE  LimiterInv'
<1>0. /\ counter \in [Key -> 0 .. Limit + 1] /\ expires \in [Key -> Nat]
      /\ admitted \in [Request -> [Window -> Nat]] /\ Limit \in Nat /\ Memory \in Nat
  BY LimiterAssumption DEF LimiterAssumption, LimiterInv, LimiterTypeOK, Ceiling
<1>1. /\ counter' = [k \in Key |-> IF expires[k] = 1 THEN 0 ELSE counter[k]]
      /\ expires' = [k \in Key |-> IF expires[k] = 0 THEN 0 ELSE expires[k] - 1]
      /\ admitted' = Aged(admitted)
      /\ UNCHANGED <<call, crashes>>
  BY DEF Tick
<1>2. /\ counter' \in [Key -> 0 .. Limit + 1] /\ expires' \in [Key -> Nat]
      /\ admitted' \in [Request -> [Window -> Nat]]
  BY <1>0, <1>1, AgedByATick
<1>3. LimiterTypeOK'
  BY <1>1, <1>2 DEF LimiterInv, LimiterTypeOK, Ceiling
<1>4. CounterCoversTheWindow'
  <2> SUFFICES ASSUME NEW p \in Request
               PROVE  /\ admitted'[p][0] = 0
                      /\ IF Limited(p) THEN Covered(p)' ELSE AtWork(p)' = {}
    BY DEF CounterCoversTheWindow
  <2>1. admitted[p][0] = 0 /\ IF Limited(p) THEN Covered(p) ELSE AtWork(p) = {}
    BY DEF LimiterInv, CounterCoversTheWindow
  <2>2. /\ admitted'[p][0] = 0
        /\ \A w \in 1 .. Memory : admitted'[p][w] = admitted[p][w - 1]
    BY <1>0, <1>1, AgedByATick
  <2>3. \A w \in 0 .. Memory : admitted[p][w] \in Nat
    BY <1>0 DEF Window
  <2>5. AtWork(p)' = AtWork(p)
    BY <1>1 DEF AtWork
  <2>6. CASE ~Limited(p)
    BY <2>1, <2>2, <2>5, <2>6
  <2>7. CASE Limited(p)
    <3> DEFINE k == KeyOf(p)
               n == Cardinality(AtWork(p))
    <3>1. n \in Nat /\ n <= Cardinality(Slot) /\ Cardinality(Slot) \in Nat /\ k \in Key
      BY <2>7, LimiterNumbers DEF LimiterInv
    <3>2. ASSUME NEW w \in Watched(p)
          PROVE  /\ admitted[p][w] + n <= Cardinality(Slot) + Within(counter[k])
                 /\ \A d \in Window : expires[k] > 0 /\ d + expires[k] <= w
                                        => admitted[p][d] = 0
      BY <2>1, <2>7 DEF Covered
    <3>3. /\ counter'[k] = IF expires[k] = 1 THEN 0 ELSE counter[k]
          /\ expires'[k] = IF expires[k] = 0 THEN 0 ELSE expires[k] - 1
          /\ counter[k] \in 0 .. Limit + 1 /\ expires[k] \in Nat
      BY <1>0, <1>1, <3>1
    <3> HIDE DEF k, n
    <3>4. ASSUME NEW w \in Watched(p)
          PROVE  admitted'[p][w] + n <= Cardinality(Slot) + Within(counter'[k])
      <4>1. w \in 0 .. Memory /\ \A d \in 0 .. w : d \in Watched(p)
        BY WatchedWindows
      <4>2. CASE w = 0
        BY <1>0, <2>2, <3>1, <3>3, <4>2 DEF Within
      <4>3. CASE w # 0
        <5>1. w - 1 \in Watched(p) /\ w - 1 \in Window /\ w \in 1 .. Memory
          BY <1>0, <4>1, <4>3 DEF Window
        <5>2. admitted'[p][w] = admitted[p][w - 1] /\ admitted[p][w - 1] \in Nat
          BY <2>2, <2>3, <5>1 DEF Window
        <5>3. admitted[p][w - 1] + n <= Cardinality(Slot) + Within(counter[k])
          BY <3>2, <5>1
        <5>4. CASE expires[k] = 1
          <6>1. (w - 1) + expires[k] <= w
            BY <1>0, <5>1, <5>4
          <6>2. w \in Watched(p)
            OBVIOUS
          <6>3. admitted[p][w - 1] = 0
            BY <3>2, <5>1, <5>4, <6>1, <6>2
          <6> QED
            BY <1>0, <3>1, <3>3, <5>2, <5>4, <6>3 DEF Within
        <5>5. CASE expires[k] # 1
          BY <3>3, <5>2, <5>3, <5>5
        <5> QED
          BY <5>4, <5>5
      <4> QED
        BY <4>2, <4>3
    <3>5. ASSUME NEW w \in Watched(p), NEW d \in Window,
                 expires'[k] > 0, d + expires'[k] <= w
          PROVE  admitted'[p][d] = 0
      <4>1. w \in Nat /\ d \in 0 .. Memory
        BY WatchedWindows DEF Window
      <4>2. CASE d = 0
        BY <2>2, <4>2
      <4>3. CASE d # 0
        <5>1. d \in 1 .. Memory /\ d - 1 \in Window
          BY <1>0, <4>1, <4>3 DEF Window
        <5>2. expires[k] > 0 /\ (d - 1) + expires[k] <= w
          BY <1>0, <3>3, <3>5, <4>1, <5>1
        <5>3. admitted[p][d - 1] = 0
          BY <3>2, <5>1, <5>2
        <5> QED
          BY <2>2, <5>1, <5>3
      <4> QED
        BY <4>2, <4>3
    <3>6. Covered(p)'
      BY <2>5, <3>4, <3>5 DEF Covered, k, n
    <3> QED
      BY <2>2, <2>7, <3>6
  <2> QED
    BY <2>6, <2>7
<1>5. LastingOnlyByCrash'
  <2> SUFFICES ASSUME NEW l \in Key, counter'[l] > 0, expires'[l] = 0, ~(crashes > 0)
               PROVE  \E t \in Slot : call[t] # Idle /\ KeyOf(call[t]) = l
    BY <1>1 DEF LastingOnlyByCrash
  <2>1. counter[l] > 0 /\ expires[l] = 0
    BY <1>0, <1>1
  <2> QED
    BY <2>1 DEF LimiterInv, LastingOnlyByCrash
<1> QED
  BY <1>3, <1>4, <1>5, CoveredIsNearLimit DEF LimiterInv

\* A stop of the service ends the requests at work, and leaves the counters.
LEMMA CrashKeepsLimiterInv ==
    ASSUME LimiterInv, Crash
    PROVE  LimiterInv'
<1>1. /\ crashes \in 0 .. MaxCrashes /\ MaxCrashes \in Nat /\ crashes' = crashes + 1
      /\ crashes < MaxCrashes /\ call' = [s \in Slot |-> Idle]
      /\ UNCHANGED <<counter, expires, admitted>>
  BY LimiterAssumption DEF LimiterAssumption, LimiterInv, LimiterTypeOK, Crash
<1>2. LimiterTypeOK'
  BY <1>1 DEF LimiterInv, LimiterTypeOK
<1>3. CounterCoversTheWindow'
  <2> SUFFICES ASSUME NEW p \in Request
               PROVE  /\ admitted'[p][0] = 0
                      /\ IF Limited(p) THEN Covered(p)' ELSE AtWork(p)' = {}
    BY DEF CounterCoversTheWindow
  <2>1. admitted[p][0] = 0 /\ IF Limited(p) THEN Covered(p) ELSE AtWork(p) = {}
    BY DEF LimiterInv, CounterCoversTheWindow
  <2>2. AtWork(p)' = {}
    BY <1>1, LimiterAssumption DEF AtWork, LimiterAssumption
  <2>3. admitted'[p][0] = 0
    BY <1>1, <2>1
  <2>4. ASSUME Limited(p) PROVE Covered(p)'
    <3>1. PICK n : n = Cardinality(AtWork(p))
      OBVIOUS
    <3>2. PICK m : m = Cardinality(AtWork(p)')
      OBVIOUS
    <3>3. m = 0
      BY <2>2, <3>2, FS_EmptySet
    <3>4. /\ n \in Nat /\ Cardinality(Slot) \in Nat /\ Limit \in Nat
          /\ counter[KeyOf(p)] \in 0 .. Limit + 1
          /\ \A w \in 0 .. Memory : admitted[p][w] \in Nat
      BY <2>4, <3>1, LimiterNumbers DEF LimiterInv
    <3>5. ASSUME NEW w \in Watched(p)
          PROVE  admitted[p][w] + m <= Cardinality(Slot) + Within(counter[KeyOf(p)])
      <4>1. /\ admitted[p][w] + n <= Cardinality(Slot) + Within(counter[KeyOf(p)])
            /\ admitted[p][w] \in Nat
        BY <2>1, <2>4, <3>1, <3>4, WatchedWindows DEF Covered
      <4> QED
        BY <3>3, <3>4, <4>1 DEF Within
    <3> QED
      BY <1>1, <2>1, <2>4, <3>2, <3>5 DEF Covered
  <2> QED
    BY <2>2, <2>3, <2>4
<1>4. LastingOnlyByCrash'
  BY <1>1 DEF LastingOnlyByCrash
<1> QED
  BY <1>2, <1>3, <1>4, CoveredIsNearLimit DEF LimiterInv

\* At first nothing is counted.
LEMMA InitLimiterInv ==
    ASSUME Init
    PROVE  LimiterInv
<1>1. Limit \in Nat \ {0} /\ Memory \in Nat \ {0} /\ MaxCrashes \in Nat /\ Idle \notin Request
  BY LimiterAssumption DEF LimiterAssumption
<1>2. /\ counter = [k \in Key |-> 0] /\ expires = [k \in Key |-> 0]
      /\ call = [s \in Slot |-> Idle] /\ crashes = 0
      /\ admitted = [q \in Request |-> [w \in Window |-> 0]]
  BY DEF Init
<1>3. LimiterTypeOK
  BY <1>1, <1>2 DEF LimiterTypeOK, Ceiling
<1>4. ASSUME NEW q \in Request
      PROVE  admitted[q][0] = 0 /\ AtWork(q) = {} /\ (Limited(q) => Covered(q))
  <2>1. AtWork(q) = {} /\ \A w \in 0 .. Memory : admitted[q][w] = 0
    BY <1>1, <1>2 DEF AtWork, Window
  <2>2. ASSUME Limited(q) PROVE Covered(q)
    <3>1. counter[KeyOf(q)] = 0 /\ expires[KeyOf(q)] = 0
      BY <1>2, <2>2, LimitedHasKey
    <3>2. Cardinality(AtWork(q)) = 0 /\ Cardinality(Slot) \in Nat
      BY <2>1, FS_EmptySet, SlotsAreCounted
    <3>3. \A w \in Watched(q) : admitted[q][w] = 0
      BY <2>1, WatchedWindows
    <3> QED
      BY <1>1, <3>1, <3>2, <3>3 DEF Covered, Within
  <2> QED
    BY <1>1, <2>1, <2>2
<1>5. AdmittedNearLimit
  <2> SUFFICES ASSUME NEW q \in DOMAIN Limiter, NEW w \in Watched(q)
               PROVE  admitted[q][w] <= Limit + Cardinality(Slot)
    BY DEF AdmittedNearLimit
  <2>1. admitted[q][w] = 0
    BY <1>1, <1>2, DomainIsLimited, WatchedWindows DEF Window
  <2> QED
    BY <1>1, <2>1, SlotsAreCounted
<1>6. LastingOnlyByCrash
  BY <1>2 DEF LastingOnlyByCrash
<1> QED
  BY <1>3, <1>4, <1>5, <1>6 DEF LimiterInv, CounterCoversTheWindow

\* Whatever a client sends, with any identifier and to routes that share a counter or
\* not: while its rules last no more requests of a kind that is counted are let in than
\* the limit and those at work at once, and only a stop of the service between the two
\* commands leaves a counter that never expires (limiter.middleware.ts:37-42).
THEOREM LimitsHold == Spec => []LimiterInv
<1>1. LimiterInv /\ [Next]_vars => LimiterInv'
  <2> SUFFICES ASSUME LimiterInv, [Next]_vars PROVE LimiterInv'
    OBVIOUS
  <2>1. CASE UNCHANGED vars
    BY <2>1 DEF vars, LimiterInv, LimiterTypeOK, CounterCoversTheWindow,
                Covered, AtWork, AdmittedNearLimit, LastingOnlyByCrash
  <2>2. CASE Next
    BY <2>2, PassKeepsLimiterInv, IncreaseKeepsLimiterInv, SetExpirationKeepsLimiterInv,
       TickKeepsLimiterInv, CrashKeepsLimiterInv DEF Next
  <2> QED
    BY <2>1, <2>2
<1> QED
  BY <1>1, InitLimiterInv, PTL DEF Spec
=============================================================================
