------------------------- MODULE CodeDeliveryProofs -------------------------
(***************************************************************************)
(* Proofs about CodeDelivery, for any number of requests in flight and of  *)
(* failures.                                                               *)
(***************************************************************************)
EXTENDS CodeDelivery, TLAPS

\* At first there is no code, no half of one and no answer.
LEMMA InitDeliveryInv == Init => DeliveryInv
BY DeliveryAssumption
   DEF Init, DeliveryInv, DeliveryTypeOK, HalvesAreOfTheCode, ShownVoteIsCounted,
       AnswersAreTrue, Code

\* A request of a code: it is committed only where no code is, and then no half
\* of a code is out, for the halves are of the code on the ledger.
LEMMA CodeStepKeepsDeliveryInv ==
    ASSUME DeliveryInv, NEW s \in Slot,
           \/ RequestCode(s) \/ EndorseCode(s) \/ CommitCode(s) \/ AbortCode(s)
           \/ MailCode(s) \/ ShowCode(s) \/ LoseCode(s)
    PROVE  DeliveryInv'
<1> USE DeliveryAssumption
<1> USE DEF DeliveryInv, DeliveryTypeOK, HalvesAreOfTheCode, ShownVoteIsCounted,
            AnswersAreTrue, Code, Moves, server, browser, bounds
<1>1. CASE RequestCode(s)
  BY <1>1 DEF RequestCode
<1>2. CASE EndorseCode(s)
  BY <1>2 DEF EndorseCode
<1>3. CASE CommitCode(s)
  <2>1. CASE code = NoCode
    <3>1. mailed \cup noted = {}
      BY <2>1
    <3> QED
      BY <1>3, <2>1, <3>1 DEF CommitCode
  <2>2. CASE code # NoCode
    BY <1>3, <2>2 DEF CommitCode
  <2> QED
    BY <2>1, <2>2
<1>4. CASE AbortCode(s)
  BY <1>4 DEF AbortCode
<1>5. CASE MailCode(s)
  BY <1>5 DEF MailCode
<1>6. CASE ShowCode(s)
  BY <1>6 DEF ShowCode
<1>7. CASE LoseCode(s)
  <2>1. CASE code' = code
    BY <1>7, <2>1 DEF LoseCode
  <2>2. CASE code' # code
    <3>1. code = NoCode /\ code' = s
      BY <1>7, <2>2 DEF LoseCode
    <3>2. mailed \cup noted = {}
      BY <3>1
    <3> QED
      BY <1>7, <3>1, <3>2 DEF LoseCode
  <2> QED
    BY <2>1, <2>2
<1> QED
  BY <1>1, <1>2, <1>3, <1>4, <1>5, <1>6, <1>7

\* A request of a vote: it is counted only when none is, and answered after that.
LEMMA VoteStepKeepsDeliveryInv ==
    ASSUME DeliveryInv, NEW s \in Slot,
           Vote(s) \/ CastVote(s) \/ AbortVote(s) \/ ShowVote(s) \/ LoseVote(s)
    PROVE  DeliveryInv'
<1> USE DeliveryAssumption
<1> USE DEF DeliveryInv, DeliveryTypeOK, HalvesAreOfTheCode, ShownVoteIsCounted,
            AnswersAreTrue, Code, Ends, server, browser, bounds
<1>1. CASE Vote(s)
  BY <1>1 DEF Vote
<1>2. CASE CastVote(s)
  <2>1. CASE otp = code /\ ballots = 0
    BY <1>2, <2>1 DEF CastVote
  <2>2. CASE ~(otp = code /\ ballots = 0)
    BY <1>2, <2>2 DEF CastVote
  <2> QED
    BY <2>1, <2>2
<1>3. CASE AbortVote(s)
  BY <1>3 DEF AbortVote
<1>4. CASE ShowVote(s)
  BY <1>4 DEF ShowVote
<1>5. CASE LoseVote(s)
  BY <1>5 DEF LoseVote
<1> QED
  BY <1>1, <1>2, <1>3, <1>4, <1>5

\* The user moves about: nothing is claimed on the way but what was typed.
LEMMA UserStepKeepsDeliveryInv ==
    ASSUME DeliveryInv,
           \/ \E c \in Whole : Check(c)
           \/ Go("modal", "insert") \/ Go("insert", "modal")
           \/ LeaveVote
    PROVE  DeliveryInv'
<1> USE DEF DeliveryInv, DeliveryTypeOK, HalvesAreOfTheCode, ShownVoteIsCounted,
            AnswersAreTrue, Code, server, browser, bounds
<1>1. ASSUME NEW c \in Whole, Check(c) PROVE DeliveryInv'
  BY <1>1 DEF Check, Whole
<1>2. CASE Go("modal", "insert") \/ Go("insert", "modal")
  BY <1>2 DEF Go
<1>3. CASE LeaveVote
  BY <1>3 DEF LeaveVote
<1> QED
  BY <1>1, <1>2, <1>3

----------------------------------------------------------------------------

\* What reaches the user is what the ledger has: the two halves are of the one
\* committed code, and a vote shown as cast is counted, once, however many
\* requests overlap and whatever of them fails or is lost (codes.ts:118-142,
\* VoteView.vue:18-30).
THEOREM DeliveryIsTrue == Spec => []DeliveryInv
<1>1. DeliveryInv /\ [Next]_vars => DeliveryInv'
  <2> SUFFICES ASSUME DeliveryInv, [Next]_vars PROVE DeliveryInv'
    OBVIOUS
  <2>1. CASE UNCHANGED vars
    BY <2>1 DEF vars, DeliveryInv, DeliveryTypeOK, HalvesAreOfTheCode,
                ShownVoteIsCounted, AnswersAreTrue
  <2>2. CASE Next
    BY <2>2, CodeStepKeepsDeliveryInv, VoteStepKeepsDeliveryInv,
       UserStepKeepsDeliveryInv DEF Next
  <2> QED
    BY <2>1, <2>2
<1> QED
  BY <1>1, InitDeliveryInv, PTL DEF Spec
=============================================================================
