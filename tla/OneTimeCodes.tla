---------------------------- MODULE OneTimeCodes ----------------------------
(***************************************************************************)
(* The one-time codes of the chaincode (smart-contracts/core, codes): a    *)
(* code is issued once for a user and an election, is good for one vote,   *)
(* and is kept, consumed, for ever after.                                  *)
(*                                                                         *)
(* A stored code is the record [code, consumed]; Missing stands for the    *)
(* empty Optional that the repository answers when there is none.          *)
(***************************************************************************)

CONSTANT Missing  \* what a read of the ledger answers when there is no value

\* HashGenerator.generateCode(electionId + userId + seed): the first ten
\* hexadecimal digits of a SHA-256, taken here to be injective.
generateCode(e, u, seed) == <<e, u, seed>>

\* Mutant of mayGenerate: a consumed code is replaced by a new one.
mayGenerateAgain(stored) == IF stored = Missing THEN TRUE ELSE stored.consumed

\* CodesManagerImpl.generate refuses a second code.
mayGenerate(stored) == stored = Missing

newCode(code) == [code |-> code, consumed |-> FALSE]

\* CodesManagerImpl.verifyCodeOwner.
verifyCodeOwner(stored, code) == stored # Missing /\ stored.code = code

\* CodesManagerImpl.isValid.
isValid(stored, code) == verifyCodeOwner(stored, code) /\ ~stored.consumed

\* CodesManagerImpl.invalidate does not throw.
mayInvalidate(stored, code) == verifyCodeOwner(stored, code) /\ ~stored.consumed

\* Mutant of consume: the code stays good.
consumeForgets(stored) == stored

\* OneTimeCodeImpl.consume.
consume(stored) == [stored EXCEPT !.consumed = TRUE]
=============================================================================
