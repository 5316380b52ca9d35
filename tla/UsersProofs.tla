---------------------------- MODULE UsersProofs ----------------------------
(***************************************************************************)
(* Proofs about Users, for any addresses, passwords, names and requests     *)
(* that overlap.                                                           *)
(***************************************************************************)
EXTENDS Users, SequenceTheorems, TLAPS

----------------------------------------------------------------------------
(* Accounts *)

\* A mail that is added to the box is there, with those that were.
LEMMA MailIsAdded ==
    ASSUME NEW S, NEW box \in Seq(S), NEW p \in S
    PROVE  Append(box, p) \in Seq(S) /\ ToSet(Append(box, p)) = ToSet(box) \cup {p}
<1>1. /\ DOMAIN box = 1 .. Len(box) /\ Len(box) \in Nat
      /\ DOMAIN Append(box, p) = 1 .. Len(box) + 1
      /\ \A i \in 1 .. Len(box) : Append(box, p)[i] = box[i]
      /\ Append(box, p)[Len(box) + 1] = p
  OBVIOUS
<1>2. 1 .. Len(box) + 1 = 1 .. Len(box) \cup {Len(box) + 1}
  BY <1>1
<1> QED
  BY <1>1, <1>2 DEF ToSet

\* The requests of each kind.
LEMMA KindsOfRequests ==
    ASSUME AccountsTypeOK, NEW s \in Slot
    PROVE  /\ request[s].at # "idle" => request[s] \in Registration \cup Reset
           /\ request[s] \in Registration => request[s] # Idle /\ request[s].for = "register"
           /\ request[s] \in Reset => request[s] # Idle /\ request[s].for = "reset"
BY DEF AccountsTypeOK, Idle, Registration, Reset

\* At first there is nobody, and no request.
LEMMA InitAccountsInv == Init => AccountsInv
BY AccountsAssumption
   DEF Init, AccountsInv, AccountsTypeOK, OneAccountPerEmail, CreatedAccountIsTheirs,
       PasswordIsTypedOrMailed, Idle

\* The forms: a slot that was idle holds a new request.
LEMMA FormKeepsAccountsInv ==
    ASSUME AccountsInv, NEW s \in Slot, NEW e \in Email,
           Ask(s, e) \/ \E p, c \in Chosen, alpha \in BOOLEAN : Register(s, e, p, c, alpha)
    PROVE  AccountsInv'
<1> USE DEF AccountsInv, AccountsTypeOK, OneAccountPerEmail, CreatedAccountIsTheirs,
            PasswordIsTypedOrMailed, Password, Becomes, At
<1>1. CASE Ask(s, e)
  <2>1. [at |-> "sent", for |-> "reset", email |-> e] \in Reset
    BY DEF Reset
  <2>2. request[s].at = "idle" /\ Reset' = Reset /\ Registration' = Registration
    BY <1>1 DEF Ask, Idle, Reset, Registration
  <2> QED
    BY <1>1, <2>1, <2>2 DEF Ask
<1>2. ASSUME NEW p \in Chosen, NEW c \in Chosen, NEW alpha \in BOOLEAN,
             Register(s, e, p, c, alpha)
      PROVE  AccountsInv'
  <2>1. [at |-> "sent", for |-> "register", email |-> e, password |-> p, alpha |-> alpha]
          \in Registration
    BY DEF Registration
  <2>2. request[s].at = "idle" /\ Reset' = Reset /\ Registration' = Registration
    BY <1>2 DEF Register, Idle, Reset, Registration
  <2>3. typed' \in [Email -> SUBSET Chosen]
    BY <1>2 DEF Register
  <2>4. AccountsTypeOK'
    BY <1>2, <2>1, <2>2, <2>3 DEF Register
  <2>5. CreatedAccountIsTheirs' /\ PasswordIsTypedOrMailed'
    BY <1>2, <2>1, <2>2 DEF Register
  <2> QED
    BY <1>2, <2>4, <2>5 DEF Register
<1> HIDE DEF AccountsInv, AccountsTypeOK, OneAccountPerEmail, CreatedAccountIsTheirs,
             PasswordIsTypedOrMailed, Password, Becomes, At
<1> QED
  BY <1>1, <1>2

\* A document is inserted, for an address that has none.
LEMMA CreateUserKeepsAccountsInv ==
    ASSUME AccountsInv, NEW s \in Slot, CreateUser(s)
    PROVE  AccountsInv'
<1>1. /\ request[s] \in Registration /\ request[s].at = "sent"
      /\ Reset' = Reset /\ Registration' = Registration
  BY KindsOfRequests DEF AccountsInv, CreateUser, At, Idle, Reset, Registration
<1>2. PICK r : /\ r \in Registration /\ r.at \in {"created", "refused"}
               /\ r.email = request[s].email /\ r.password = request[s].password
               /\ request' = [request EXCEPT ![s] = r]
               /\ \/ r.at = "refused" /\ users' = users
                  \/ /\ ~HasAccount(request[s].email)
                     /\ users' = users \cup {Document(request[s])}
  <2>1. /\ [request[s] EXCEPT !.at = "created"] \in Registration
        /\ [request[s] EXCEPT !.at = "refused"] \in Registration
    BY <1>1 DEF Registration
  <2>2. \A at : request' = [request EXCEPT ![s].at = at]
                  => request' = [request EXCEPT ![s] = [request[s] EXCEPT !.at = at]]
    OBVIOUS
  <2>3. CASE Valid(request[s]) /\ ~HasAccount(request[s].email)
    BY <1>1, <2>1, <2>2, <2>3 DEF CreateUser, Moves, Registration
  <2>4. CASE ~(Valid(request[s]) /\ ~HasAccount(request[s].email))
    BY <1>1, <2>1, <2>2, <2>4 DEF CreateUser, Moves, Registration
  <2> QED
    BY <2>3, <2>4
<1>3. UNCHANGED <<typed, mailbox, made, faults, removals>>
  BY DEF CreateUser
<1>4. /\ Document(request[s]).email = request[s].email /\ request[s].email \in Email
      /\ Document(request[s]).password = Hash(request[s].password)
      /\ request[s].password \in Chosen
  BY <1>1 DEF Document, Registration
<1>5. AccountsTypeOK'
  <2>1. Document(request[s]) \in [email : Email, password : {Hash(p) : p \in Password}]
    BY <1>4 DEF Document, Password
  <2>2. users' \subseteq [email : Email, password : {Hash(p) : p \in Password}]
    BY <1>2, <2>1 DEF AccountsInv, AccountsTypeOK
  <2>3. Password' = Password
    BY <1>3 DEF Password
  <2> QED
    BY <1>1, <1>2, <1>3, <2>2, <2>3 DEF AccountsInv, AccountsTypeOK
<1>6. OneAccountPerEmail'
  BY <1>2, <1>4 DEF AccountsInv, OneAccountPerEmail, HasAccount
<1>7. CreatedAccountIsTheirs'
  BY <1>1, <1>2, <1>3, <1>4 DEF AccountsInv, AccountsTypeOK, CreatedAccountIsTheirs
<1>8. PasswordIsTypedOrMailed'
  BY <1>1, <1>2, <1>3, <1>4 DEF AccountsInv, AccountsTypeOK, PasswordIsTypedOrMailed, At
<1> QED
  BY <1>5, <1>6, <1>7, <1>8 DEF AccountsInv

\* What updateOne leaves of a document: its address, and the password of any
\* other address.
LEMMA UpdatedIsOfTheSame ==
    ASSUME AccountsTypeOK, NEW e, NEW given
    PROVE  /\ \A v \in Updated(e, given) : \E u \in users :
                /\ u.email = v.email
                /\ v = [email |-> u.email, password |-> IF u.email = e THEN given ELSE u.password]
           /\ \A u \in users : \E v \in Updated(e, given) : v.email = u.email
<1>1. ASSUME NEW u \in users
      PROVE  /\ u = [email |-> u.email, password |-> u.password]
             /\ [u EXCEPT !.password = given] = [email |-> u.email, password |-> given]
  <2>1. PICK S : u \in [email : Email, password : S]
    BY DEF AccountsTypeOK
  <2> QED
    BY <2>1
<1>2. ASSUME NEW v \in Updated(e, given)
      PROVE  \E u \in users :
                /\ u.email = v.email
                /\ v = [email |-> u.email, password |-> IF u.email = e THEN given ELSE u.password]
  <2>1. PICK u \in users : v = IF u.email = e THEN [u EXCEPT !.password = given] ELSE u
    BY DEF Updated
  <2> QED
    BY <1>1, <2>1
<1>3. ASSUME NEW u \in users
      PROVE  \E v \in Updated(e, given) : v.email = u.email
  <2>1. PICK v : v = IF u.email = e THEN [u EXCEPT !.password = given] ELSE u
    OBVIOUS
  <2>2. v \in Updated(e, given)
    BY <2>1 DEF Updated
  <2> QED
    BY <1>1, <2>1, <2>2
<1> QED
  BY <1>2, <1>3

\* A new password takes the place of the old one, in one document or in none.
LEMMA UpdatePasswordKeepsAccountsInv ==
    ASSUME AccountsInv, NEW s \in Slot, UpdatePassword(s)
    PROVE  AccountsInv'
<1> DEFINE e == request[s].email
<1>1. PICK r : /\ r = [at |-> "updated", for |-> "reset", email |-> e, password |-> made']
               /\ request' = [request EXCEPT ![s] = r]
  BY DEF UpdatePassword, Becomes
<1>2. /\ request[s].at = "sent" /\ request[s] \in Reset /\ e \in Email
      /\ made \in Nat /\ made' = made + 1
  BY KindsOfRequests DEF AccountsInv, AccountsTypeOK, UpdatePassword, At, Idle,
                         Registration, Reset
<1>3. /\ Registration' = Registration /\ Reset \subseteq Reset' /\ r \in Reset'
      /\ Password \cup {made'} \subseteq Password'
  BY <1>1, <1>2 DEF Registration, Reset, Password
<1>4. UNCHANGED <<typed, mailbox, faults, removals>>
  BY DEF UpdatePassword
<1>5. /\ \A v \in users' : \E u \in users :
           /\ u.email = v.email
           /\ v = [email |-> u.email,
                   password |-> IF u.email = e THEN Hash(made') ELSE u.password]
      /\ \A u \in users : \E v \in users' : v.email = u.email
  BY UpdatedIsOfTheSame DEF AccountsInv, UpdatePassword
<1>6. AccountsTypeOK'
  <2>1. users' \subseteq [email : Email, password : {Hash(p) : p \in Password'}]
    <3> SUFFICES ASSUME NEW v \in users'
                 PROVE  v \in [email : Email, password : {Hash(p) : p \in Password'}]
      OBVIOUS
    <3>1. PICK u \in users :
             v = [email |-> u.email, password |-> IF u.email = e THEN Hash(made') ELSE u.password]
      BY <1>5
    <3>2. u.email \in Email /\ u.password \in {Hash(p) : p \in Password}
      BY DEF AccountsInv, AccountsTypeOK
    <3> QED
      BY <1>3, <3>1, <3>2
  <2>2. mailbox' \in [Email -> Seq(1 .. made')]
    <3>1. 1 .. made \subseteq 1 .. made'
      BY <1>2
    <3>2. ASSUME NEW f \in Email PROVE mailbox[f] \in Seq(1 .. made')
      <4>1. mailbox[f] \in Seq(1 .. made)
        BY DEF AccountsInv, AccountsTypeOK
      <4> QED
        BY <3>1, <4>1, SeqMonotonic
    <3> QED
      BY <1>4, <3>2 DEF AccountsInv, AccountsTypeOK
  <2> QED
    BY <1>1, <1>2, <1>3, <1>4, <2>1, <2>2 DEF AccountsInv, AccountsTypeOK
<1>7. OneAccountPerEmail'
  BY <1>5 DEF AccountsInv, OneAccountPerEmail
<1>8. CreatedAccountIsTheirs'
  <2> SUFFICES ASSUME NEW t \in Slot, request'[t].at = "created", removals' = 0
               PROVE  \E v \in users' :
                        /\ v.email = request'[t].email
                        /\ v.password \in {Hash(request'[t].password)}
                                            \cup {Hash(k) : k \in 1 .. made'}
    BY DEF CreatedAccountIsTheirs
  <2>1. t # s /\ request'[t] = request[t] /\ removals = 0
    BY <1>1, <1>4 DEF AccountsInv, AccountsTypeOK
  <2>2. PICK u \in users :
          /\ u.email = request[t].email
          /\ u.password \in {Hash(request[t].password)} \cup {Hash(k) : k \in 1 .. made}
    BY <2>1 DEF AccountsInv, CreatedAccountIsTheirs
  <2>3. PICK v \in users' : v.email = u.email
    BY <1>5
  <2>4. v.password \in {Hash(made'), u.password}
    BY <1>5, <2>3 DEF AccountsInv, OneAccountPerEmail
  <2>5. 1 .. made \subseteq 1 .. made' /\ made' \in 1 .. made'
    BY <1>2
  <2> QED
    BY <2>1, <2>2, <2>3, <2>4, <2>5
<1>9. PasswordIsTypedOrMailed'
  <2> SUFFICES ASSUME NEW v \in users', faults = 0
               PROVE  \/ \E p \in Chosen \cup ToSet(mailbox[v.email]) : v.password = Hash(p)
                      \/ \E t \in Slot : /\ At(t, "reset", "updated")'
                                         /\ request'[t].email = v.email
                                         /\ v.password = Hash(request'[t].password)
    BY <1>4 DEF PasswordIsTypedOrMailed
  <2>1. PICK u \in users :
           /\ u.email = v.email
           /\ v = [email |-> u.email, password |-> IF u.email = e THEN Hash(made') ELSE u.password]
    BY <1>5
  <2>2. CASE u.email = e
    BY <1>1, <2>1, <2>2 DEF AccountsInv, AccountsTypeOK, At
  <2>3. CASE u.email # e
    <3>1. v.password = u.password
      BY <2>1, <2>3
    <3>2. ASSUME NEW t \in Slot, At(t, "reset", "updated")
          PROVE  At(t, "reset", "updated")' /\ request'[t] = request[t]
      BY <1>1, <1>2, <3>2 DEF AccountsInv, AccountsTypeOK, At
    <3> QED
      BY <2>1, <3>1, <3>2 DEF AccountsInv, PasswordIsTypedOrMailed
  <2> QED
    BY <2>2, <2>3
<1> QED
  BY <1>6, <1>7, <1>8, <1>9 DEF AccountsInv
\* A new password is mailed, as the one that was stored; or it is lost, which is
\* a fault.
LEMMA MailKeepsAccountsInv ==
    ASSUME AccountsInv, NEW s \in Slot, MailPassword(s) \/ LoseMail(s)
    PROVE  AccountsInv'
<1> DEFINE e == request[s].email
           p == request[s].password
<1>1. /\ request[s].at = "updated" /\ request[s] \in Reset
      /\ e \in Email /\ p \in 1 .. made
  BY KindsOfRequests DEF AccountsInv, AccountsTypeOK, MailPassword, LoseMail, At, Idle,
                         Registration, Reset
<1>2. PICK r : /\ r \in Reset /\ r.at \in {"mailed", "failed"} /\ r.email = e
               /\ request' = [request EXCEPT ![s] = r]
  <2>1. /\ [request[s] EXCEPT !.at = "mailed"] \in Reset
        /\ [request[s] EXCEPT !.at = "failed"] \in Reset
    BY <1>1 DEF Reset
  <2>2. \A at : request' = [request EXCEPT ![s].at = at]
                  => request' = [request EXCEPT ![s] = [request[s] EXCEPT !.at = at]]
    OBVIOUS
  <2> QED
    BY <1>1, <2>1, <2>2 DEF MailPassword, LoseMail, Moves, Reset
<1>3. /\ UNCHANGED <<users, typed, made, removals>>
      /\ Registration' = Registration /\ Reset' = Reset /\ Password' = Password
  BY DEF MailPassword, LoseMail, Registration, Reset, Password
<1>4. /\ mailbox' \in [Email -> Seq(1 .. made)]
      /\ \A f \in Email : ToSet(mailbox[f]) \subseteq ToSet(mailbox'[f])
      /\ faults' \in 0 .. MaxFaults
      /\ faults' = 0 => faults = 0 /\ p \in ToSet(mailbox'[e])
  <2>1. CASE MailPassword(s)
    <3>1. /\ mailbox \in [Email -> Seq(1 .. made)]
          /\ mailbox' = [mailbox EXCEPT ![e] = Append(mailbox[e], p)]
          /\ UNCHANGED faults
      BY <2>1 DEF AccountsInv, AccountsTypeOK, MailPassword
    <3>2. /\ Append(mailbox[e], p) \in Seq(1 .. made)
          /\ ToSet(Append(mailbox[e], p)) = ToSet(mailbox[e]) \cup {p}
      <4>1. mailbox[e] \in Seq(1 .. made)
        BY <1>1, <3>1
      <4>2. PICK S : S = 1 .. made
        OBVIOUS
      <4>3. mailbox[e] \in Seq(S) /\ p \in S
        BY <1>1, <4>1, <4>2
      <4> HIDE DEF e, p
      <4>4. Append(mailbox[e], p) \in Seq(S) /\ ToSet(Append(mailbox[e], p)) = ToSet(mailbox[e]) \cup {p}
        BY <4>3, MailIsAdded
      <4> QED
        BY <4>2, <4>4
    <3> HIDE DEF e, p
    <3> QED
      BY <1>1, <3>1, <3>2 DEF AccountsInv, AccountsTypeOK
  <2>2. CASE LoseMail(s)
    BY <2>2, AccountsAssumption DEF AccountsInv, AccountsTypeOK, LoseMail
  <2> QED
    BY <2>1, <2>2
<1>5. AccountsTypeOK' /\ OneAccountPerEmail'
  BY <1>2, <1>3, <1>4 DEF AccountsInv, AccountsTypeOK, OneAccountPerEmail
<1>6. CreatedAccountIsTheirs'
  BY <1>2, <1>3 DEF AccountsInv, AccountsTypeOK, CreatedAccountIsTheirs
<1>7. PasswordIsTypedOrMailed'
  <2> SUFFICES ASSUME faults' = 0, NEW u \in users
               PROVE  \/ \E q \in Chosen \cup ToSet(mailbox'[u.email]) : u.password = Hash(q)
                      \/ \E t \in Slot : /\ At(t, "reset", "updated")'
                                         /\ request'[t].email = u.email
                                         /\ u.password = Hash(request'[t].password)
    BY <1>3 DEF PasswordIsTypedOrMailed
  <2>1. u.email \in Email
    BY DEF AccountsInv, AccountsTypeOK
  <2>2. CASE \E q \in Chosen \cup ToSet(mailbox[u.email]) : u.password = Hash(q)
    BY <1>4, <2>1, <2>2
  <2>3. ASSUME NEW t \in Slot, At(t, "reset", "updated"), request[t].email = u.email,
               u.password = Hash(request[t].password)
        PROVE  \/ \E q \in Chosen \cup ToSet(mailbox'[u.email]) : u.password = Hash(q)
               \/ /\ At(t, "reset", "updated")' /\ request'[t].email = u.email
                  /\ u.password = Hash(request'[t].password)
    <3>1. CASE t = s
      BY <1>4, <2>3, <3>1
    <3>2. CASE t # s
      BY <1>2, <2>3, <3>2 DEF AccountsInv, AccountsTypeOK, At
    <3> QED
      BY <3>1, <3>2
  <2> QED
    BY <1>4, <2>2, <2>3 DEF AccountsInv, PasswordIsTypedOrMailed
<1> QED
  BY <1>5, <1>6, <1>7 DEF AccountsInv

\* An answer is told, an account is removed, a password is forgotten.
LEMMA RestKeepsAccountsInv ==
    ASSUME AccountsInv,
           \/ \E s \in Slot : Tell(s)
           \/ \E e \in Email : DeleteProfile(e) \/ Forget(e)
    PROVE  AccountsInv'
<1>1. Registration' = Registration /\ (UNCHANGED made => Reset' = Reset /\ Password' = Password)
  BY DEF Registration, Reset, Password
<1>2. ASSUME NEW s \in Slot, Tell(s) PROVE AccountsInv'
  <2>1. request' = [request EXCEPT ![s] = Idle] /\ request[s].at # "updated"
    BY <1>2 DEF Tell, Becomes
  <2>2. UNCHANGED <<users, typed, mailbox, made, faults, removals>>
    BY <1>2 DEF Tell
  <2>3. AccountsTypeOK' /\ OneAccountPerEmail' /\ CreatedAccountIsTheirs'
    BY <1>1, <2>1, <2>2
       DEF AccountsInv, AccountsTypeOK, OneAccountPerEmail, CreatedAccountIsTheirs, Idle
  <2>4. \A t \in Slot : At(t, "reset", "updated") => At(t, "reset", "updated")' /\ request'[t] = request[t]
    BY <2>1 DEF AccountsInv, AccountsTypeOK, At
  <2>5. PasswordIsTypedOrMailed'
    BY <2>2, <2>4 DEF AccountsInv, PasswordIsTypedOrMailed
  <2> QED
    BY <2>3, <2>5 DEF AccountsInv
<1>3. ASSUME NEW e \in Email, DeleteProfile(e) PROVE AccountsInv'
  <2>1. /\ users' \subseteq users /\ removals' = removals + 1 /\ removals < MaxRemovals
        /\ UNCHANGED <<request, typed, mailbox, made, faults>>
    BY <1>3 DEF DeleteProfile
  <2>2. removals \in Nat /\ MaxRemovals \in Nat
    BY AccountsAssumption DEF AccountsInv, AccountsTypeOK
  <2>3. AccountsTypeOK'
    BY <1>1, <2>1, <2>2 DEF AccountsInv, AccountsTypeOK
  <2>4. CreatedAccountIsTheirs'
    BY <2>1, <2>2 DEF CreatedAccountIsTheirs
  <2>5. OneAccountPerEmail' /\ PasswordIsTypedOrMailed'
    BY <2>1 DEF AccountsInv, OneAccountPerEmail, PasswordIsTypedOrMailed, At
  <2> QED
    BY <2>3, <2>4, <2>5 DEF AccountsInv
<1>4. ASSUME NEW e \in Email, Forget(e) PROVE AccountsInv'
  BY <1>1, <1>4
     DEF Forget, AccountsInv, AccountsTypeOK, OneAccountPerEmail,
         CreatedAccountIsTheirs, PasswordIsTypedOrMailed, At
<1> QED
  BY <1>2, <1>3, <1>4

\* An address has one account, of whoever was told so, and as long as no mail is
\* lost its password is one that its owner typed or is mailed, however the
\* registrations, the new passwords and the removals overlap (users.ts of the
\* controllers and of the model).
THEOREM AccountsAreTheirs == Spec => []AccountsInv
<1>1. AccountsInv /\ [Next]_vars => AccountsInv'
  <2> SUFFICES ASSUME AccountsInv, [Next]_vars PROVE AccountsInv'
    OBVIOUS
  <2>1. CASE UNCHANGED vars
    BY <2>1 DEF vars, AccountsInv, AccountsTypeOK, OneAccountPerEmail,
                CreatedAccountIsTheirs, PasswordIsTypedOrMailed, At, Registration,
                Reset, Password
  <2>2. CASE Next
    <3>1. ASSUME NEW s \in Slot, Serve(s) PROVE AccountsInv'
      BY <3>1, CreateUserKeepsAccountsInv, UpdatePasswordKeepsAccountsInv,
         MailKeepsAccountsInv, RestKeepsAccountsInv DEF Serve
    <3>2. ASSUME NEW s \in Slot, NEW e \in Email,
                 \/ \E p, c \in Chosen, alpha \in BOOLEAN : Register(s, e, p, c, alpha)
                 \/ Ask(s, e)
          PROVE  AccountsInv'
      BY <3>2, FormKeepsAccountsInv
    <3>3. ASSUME NEW e \in Email, DeleteProfile(e) \/ Forget(e) PROVE AccountsInv'
      BY <3>3, RestKeepsAccountsInv
    <3> QED
      BY <2>2, <3>1, <3>2, <3>3 DEF Next
  <2> QED
    BY <2>1, <2>2
<1> QED
  BY <1>1, InitAccountsInv, PTL DEF Spec
----------------------------------------------------------------------------
(* Profile *)

\* At first the form shows the value that is stored.
LEMMA InitProfileInv ==
    ASSUME Form!ProfileAssumption, Form!Init
    PROVE  Form!ProfileInv
<1>1. 0 \in 0 .. MaxTimers
  BY DEF Form!ProfileAssumption
<1>2. timers \in [Form!Message -> 0 .. MaxTimers]
  <2>1. timers = [m \in Form!Message |-> 0]
    BY DEF Form!Init
  <2> QED
    BY <1>1, <2>1, Zenon
<1>3. Form!ProfileTypeOK
  <2>1. call \in [Slot -> {Form!Idle} \cup [at : {"sent", "edited", "refused", "lost"},
                                           value : Name \cup Accented]]
    BY DEF Form!Init
  <2>2. lost \in 0 .. MaxFaults
    BY DEF Form!ProfileAssumption, Form!Init
  <2> QED
    BY <1>2, <2>1, <2>2 DEF Form!Init, Form!ProfileTypeOK
<1>4. Form!OldValueWasStored /\ Form!EditedWasStored
  BY DEF Form!Init, Form!OldValueWasStored, Form!EditedWasStored, Form!Idle
<1> QED
  BY <1>3, <1>4 DEF Form!ProfileInv

\* The service stores a name or refuses it, or is not heard of.
LEMMA ServiceKeepsProfileInv ==
    ASSUME Form!ProfileAssumption, Form!ProfileInv, NEW s \in Slot,
           Form!EditProfile(s) \/ Form!Lose(s)
    PROVE  Form!ProfileInv'
<1>1. /\ call[s] \in [at : {"sent", "edited", "refused", "lost"}, value : Name \cup Accented]
      /\ UNCHANGED <<input, old, editing, buttons, spinner, told, timers>>
  BY DEF Form!ProfileInv, Form!ProfileTypeOK, Form!EditProfile, Form!Lose, Form!Idle, Form!form
<1>2. PICK at \in {"edited", "refused", "lost"} :
        /\ call' = [call EXCEPT ![s] = [at |-> at, value |-> call[s].value]]
        /\ at = "edited" => call[s].value \in Name /\ stored' = call[s].value
                            /\ past' = past \cup {call[s].value}
        /\ at # "edited" => UNCHANGED <<stored, past>>
        /\ lost' \in 0 .. MaxFaults
  <2>1. \A at : [call EXCEPT ![s].at = at]
                  = [call EXCEPT ![s] = [at |-> at, value |-> call[s].value]]
    <3> TAKE at
    <3>1. [call[s] EXCEPT !.at = at] = [at |-> at, value |-> call[s].value]
      BY <1>1
    <3>2. [call EXCEPT ![s].at = at] = [call EXCEPT ![s] = [call[s] EXCEPT !.at = at]]
      OBVIOUS
    <3> QED
      BY <3>1, <3>2
  <2> QED
    BY <1>1, <2>1 DEF Form!EditProfile, Form!Lose, Form!Moves, Form!ProfileInv,
                Form!ProfileTypeOK, Form!ProfileAssumption
<1> QED
  BY <1>1, <1>2 DEF Form!ProfileInv, Form!ProfileTypeOK, Form!OldValueWasStored,
                    Form!EditedWasStored

\* The answer ends the request, and takes for the old value the one it stored.
LEMMA AnswerKeepsProfileInv ==
    ASSUME Form!ProfileAssumption, Form!ProfileInv, NEW s \in Slot,
           Form!Succeed(s) \/ Form!Fail(s)
    PROVE  Form!ProfileInv'
<1>1. /\ call' = [call EXCEPT ![s] = Form!Idle]
      /\ UNCHANGED <<stored, past, lost>>
      /\ old' \in {old} \cup (IF call[s].at = "edited" THEN {call[s].value} ELSE {})
      /\ input' \in {input, old}
      /\ editing' \in {editing, FALSE} /\ spinner' = FALSE
      /\ buttons' \in {buttons, "change"}
      /\ Form!Shows("success") \/ Form!Shows("error")
  BY DEF Form!Succeed, Form!Fail
<1>2. /\ told' \subseteq Form!Message /\ \A m \in told' : timers'[m] > 0
      /\ timers' \in [Form!Message -> 0 .. MaxTimers]
  BY <1>1 DEF Form!Shows, Form!Message, Form!ProfileInv, Form!ProfileTypeOK,
              Form!ProfileAssumption
<1>3. old' \in past /\ past \subseteq Name
  BY <1>1 DEF Form!ProfileInv, Form!ProfileTypeOK, Form!OldValueWasStored,
              Form!EditedWasStored
<1>4. Form!ProfileTypeOK'
  BY <1>1, <1>2, <1>3 DEF Form!ProfileInv, Form!ProfileTypeOK
<1>5. Form!EditedWasStored'
  BY <1>1 DEF Form!ProfileInv, Form!ProfileTypeOK, Form!EditedWasStored, Form!Idle
<1> QED
  BY <1>1, <1>3, <1>4, <1>5 DEF Form!ProfileInv, Form!OldValueWasStored

\* The user and the timers change what the form shows.
LEMMA UserKeepsProfileInv ==
    ASSUME Form!ProfileAssumption, Form!ProfileInv,
           \/ Form!Change \/ Form!Restore
           \/ \E v \in Name \cup Accented : Form!Type(v)
           \/ \E s \in Slot : Form!Submit(s)
           \/ \E m \in Form!Message : Form!Expire(m)
    PROVE  Form!ProfileInv'
<1> USE DEF Form!ProfileAssumption, Form!ProfileInv, Form!ProfileTypeOK,
            Form!OldValueWasStored, Form!EditedWasStored
<1>1. CASE Form!Change
  BY <1>1 DEF Form!Change
<1>2. CASE Form!Restore
  BY <1>2 DEF Form!Restore
<1>3. CASE \E v \in Name \cup Accented : Form!Type(v)
  BY <1>3 DEF Form!Type
<1>4. CASE \E s \in Slot : Form!Submit(s)
  BY <1>4 DEF Form!Submit, Form!Idle
<1>5. CASE \E m \in Form!Message : Form!Expire(m)
  BY <1>5 DEF Form!Expire
<1> QED
  BY <1>1, <1>2, <1>3, <1>4, <1>5

\* The value that the form restores is one that the document of the user has had,
\* whatever is refused, lost or overtaken (UserPropertyComponent.vue:93-127).
THEOREM OldValuesWereStored == Form!Spec => []ProfileInv
<1>1. Form!ProfileInv /\ [Form!Next]_Form!vars => Form!ProfileInv'
  <2> SUFFICES ASSUME Form!ProfileInv, [Form!Next]_Form!vars PROVE Form!ProfileInv'
    OBVIOUS
  <2>1. CASE UNCHANGED Form!vars
    BY <2>1 DEF Form!vars, Form!ProfileInv, Form!ProfileTypeOK,
                Form!OldValueWasStored, Form!EditedWasStored
  <2>2. CASE Form!Next
    BY <2>2, FormAssumption, ServiceKeepsProfileInv, AnswerKeepsProfileInv,
       UserKeepsProfileInv
       DEF FormAssumption, Form!Next, Form!Answer
  <2> QED
    BY <2>1, <2>2
<1>2. Form!Init => Form!ProfileInv
  BY FormAssumption, InitProfileInv DEF FormAssumption
<1> QED
  BY <1>1, <1>2, PTL DEF Form!Spec, ProfileInv
=============================================================================
