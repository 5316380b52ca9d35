------------------------------ MODULE Accounts ------------------------------
(***************************************************************************)
(* The accounts of ChainVote: the collection users, the page that          *)
(* registers, and the page that asks for a new password, which is mailed.  *)
(*                                                                         *)
(* Whoever owns an address types it in any number of pages. A handler runs *)
(* alone from one await to the next. A chosen password is a model value, a *)
(* generated one is a number, made once. bcrypt tells any two apart.       *)
(***************************************************************************)
EXTENDS Integers, FiniteSets, Sequences, SequencesExt

CONSTANTS
    Email,       \* addresses
    Chosen,      \* passwords that users choose; strong ones
    Slot         \* requests that may be in flight

CONSTANTS        \* bounds of the model
    MaxResets,   \* new passwords made, but for users that need one
    MaxFaults,   \* mails that are not sent
    MaxRemovals  \* accounts removed

ASSUME AccountsAssumption ==
    Chosen \cap Nat = {} /\ {MaxResets, MaxFaults, MaxRemovals} \subseteq Nat

VARIABLES
    users,     \* the documents of the collection users
    request,   \* request[s]: the request in flight in slot s, and how far it got
    typed,     \* typed[e]: the passwords that the owner of e typed and remembers
    mailbox,   \* mailbox[e]: the passwords mailed to e, in the order of their mails
    made,      \* how many passwords have been generated
    faults,    \* how many mails were not sent
    removals   \* how many accounts have been removed

vars == <<users, request, typed, mailbox, made, faults, removals>>

\* The passwords there are.
Password == Chosen \cup 1 .. made

\* What the hooks of the schema put in the place of a password.
Hash(p) == [bcrypt |-> p]

\* comparePassword
Opens(e, p) == \E u \in users : u.email = e /\ u.password = Hash(p)

HasAccount(e) == \E u \in users : u.email = e
Known(e) == typed[e] \cup ToSet(mailbox[e])
GetsIn(e) == \E p \in Known(e) : Opens(e, p)

Idle == [at |-> "idle"]
InFlight(e, what) ==
    \E s \in Slot : /\ request[s] # Idle
                    /\ request[s].for = what /\ request[s].email = e

Becomes(s, r) == request' = [request EXCEPT ![s] = r]
Moves(s, at)  == request' = [request EXCEPT ![s].at = at]
At(s, for, at) == /\ request[s].at = at /\ request[s].for = for

----------------------------------------------------------------------------
(* Registration *)

\* What the route asks: names of letters, a strong password.
Valid(form) == form.alpha

\* onSubmit sends what is typed, marked or not.
Register(s, e, p, c, alpha) ==
    /\ request[s] = Idle
    /\ Becomes(s, [at |-> "sent", for |-> "register", email |-> e,
                   password |-> p, alpha |-> alpha])
    /\ typed' = [typed EXCEPT ![e] = @ \cup {p, c}]
    /\ UNCHANGED <<users, mailbox, made, faults, removals>>

Document(r) == [email |-> r.email, password |-> Hash(r.password)]

\* createUser: save hashes the password, then inserts; the unique index refuses
\* a second document of the address.
CreateUser(s) ==
    /\ At(s, "register", "sent")
    /\ IF Valid(request[s]) /\ ~HasAccount(request[s].email)
       THEN Moves(s, "created") /\ users' = users \cup {Document(request[s])}
       ELSE Moves(s, "refused") /\ UNCHANGED users
    /\ UNCHANGED <<typed, mailbox, made, faults, removals>>

----------------------------------------------------------------------------
(* A new password *)

NeedsPassword(e) == HasAccount(e) /\ ~GetsIn(e) /\ ~InFlight(e, "reset")

\* The form of the forgotten password, for any address. A click more sends one more.
Ask(s, e) ==
    /\ request[s] = Idle
    /\ made + Cardinality({t \in Slot : At(t, "reset", "sent")}) < MaxResets \/ NeedsPassword(e)
    /\ Becomes(s, [at |-> "sent", for |-> "reset", email |-> e])
    /\ UNCHANGED <<users, typed, mailbox, made, faults, removals>>

\* What updateOne leaves in the collection, with a password or its hash.
Updated(e, stored) ==
    {IF u.email = e THEN [u EXCEPT !.password = stored] ELSE u : u \in users}

\* passwordForgotten, to the end of updateOne: a password is generated and its
\* hash takes the place of the old one, if there is an account at all.
UpdatePassword(s) ==
    /\ At(s, "reset", "sent")
    /\ made' = made + 1
    /\ users' = Updated(request[s].email, Hash(made'))
    /\ Becomes(s, [at |-> "updated", for |-> "reset", email |-> request[s].email,
                   password |-> made'])
    /\ UNCHANGED <<typed, mailbox, faults, removals>>

\* Mutant of MailPassword: a password is generated once more, for the mail.
MailAnother(s) ==
    /\ At(s, "reset", "updated")
    /\ made' = made + 1
    /\ mailbox' = [mailbox EXCEPT ![request[s].email] = Append(@, made')]
    /\ Moves(s, "mailed")
    /\ UNCHANGED <<users, typed, faults, removals>>

MailPassword(s) ==
    /\ At(s, "reset", "updated")
    /\ mailbox' = [mailbox EXCEPT ![request[s].email] = Append(@, request[s].password)]
    /\ Moves(s, "mailed")
    /\ UNCHANGED <<users, typed, made, faults, removals>>

\* Mutant of LoseMail: the error is caught and nothing is answered.
LoseMailUntold(s) ==
    /\ At(s, "reset", "updated") /\ faults < MaxFaults
    /\ faults' = faults + 1
    /\ Moves(s, "hung")
    /\ UNCHANGED <<users, typed, mailbox, made, removals>>

\* The mail is not sent: its error is answered, or the service has stopped.
LoseMail(s) ==
    /\ At(s, "reset", "updated") /\ faults < MaxFaults
    /\ faults' = faults + 1
    /\ Moves(s, "failed")
    /\ UNCHANGED <<users, typed, mailbox, made, removals>>

----------------------------------------------------------------------------
(* The rest *)

\* The answer, or its loss; the page tells it.
Tell(s) ==
    /\ request[s].at \in {"created", "refused", "mailed", "failed"}
    /\ Becomes(s, Idle)
    /\ UNCHANGED <<users, typed, mailbox, made, faults, removals>>

\* deleteProfile, of the owner or of an administrator.
DeleteProfile(e) ==
    /\ HasAccount(e) /\ removals < MaxRemovals
    /\ users' = {u \in users : u.email # e}
    /\ removals' = removals + 1
    /\ UNCHANGED <<request, typed, mailbox, made, faults>>

\* The owner of an address forgets what was typed.
Forget(e) ==
    /\ typed[e] # {}
    /\ typed' = [typed EXCEPT ![e] = {}]
    /\ UNCHANGED <<users, request, mailbox, made, faults, removals>>

----------------------------------------------------------------------------

Init ==
    /\ users = {} /\ made = 0 /\ faults = 0 /\ removals = 0
    /\ request = [s \in Slot |-> Idle]
    /\ typed = [e \in Email |-> {}] /\ mailbox = [e \in Email |-> <<>>]

Serve(s) == CreateUser(s) \/ UpdatePassword(s) \/ MailPassword(s) \/ LoseMail(s) \/ Tell(s)

Next ==
    \/ \E s \in Slot :
         \/ \E e \in Email, p, c \in Chosen, alpha \in BOOLEAN : Register(s, e, p, c, alpha)
         \/ \E e \in Email : Ask(s, e)
         \/ Serve(s)
    \/ \E e \in Email : DeleteProfile(e) \/ Forget(e)

Spec == Init /\ [][Next]_vars

\* Requests are served, and who needs a password asks for it at some time.
FairSpec ==
    /\ Spec
    /\ \A s \in Slot : WF_vars(Serve(s))
    /\ \A e \in Email : SF_vars(NeedsPassword(e) /\ \E s \in Slot : Ask(s, e))

----------------------------------------------------------------------------
(* Properties *)

Registration ==
    [at : {"sent", "created", "refused"}, for : {"register"}, email : Email,
     password : Chosen, alpha : BOOLEAN]

Reset ==
    [at : {"sent"}, for : {"reset"}, email : Email]
    \cup [at : {"updated", "mailed", "failed"}, for : {"reset"}, email : Email,
          password : 1 .. made]

AccountsTypeOK ==
    /\ users \subseteq [email : Email, password : {Hash(p) : p \in Password}]
    /\ request \in [Slot -> {Idle} \cup Registration \cup Reset]
    /\ typed \in [Email -> SUBSET Chosen] /\ mailbox \in [Email -> Seq(1 .. made)]
    /\ made \in Nat /\ faults \in 0 .. MaxFaults /\ removals \in 0 .. MaxRemovals

\* Whatever registrations overlap, an address has one account (the unique index
\* of users.ts:32-34, and the hook that tells it, 107-116).
OneAccountPerEmail == \A u, v \in users : u.email = v.email => u = v

\* A registration that is answered with success made the account, and no other
\* registration changes it: it opens with that password or with a new one that
\* was asked for (createUser, users.ts:51-77).
CreatedAccountIsTheirs ==
    \A s \in Slot : request[s].at = "created" /\ removals = 0 =>
        \E u \in users :
           /\ u.email = request[s].email
           /\ u.password \in {Hash(request[s].password)} \cup {Hash(k) : k \in 1 .. made}

\* As long as no mail is lost, the password of an account is one that was typed
\* or one that is, or soon will be, in the mailbox (passwordForgotten and the
\* hooks of the schema, users.ts:58-105).
PasswordIsTypedOrMailed ==
    faults = 0 => \A u \in users :
        \/ \E p \in Chosen \cup ToSet(mailbox[u.email]) : u.password = Hash(p)
        \/ \E s \in Slot : /\ At(s, "reset", "updated") /\ request[s].email = u.email
                           /\ u.password = Hash(request[s].password)

\* The invariant: an account is of one owner, who can know its password.
AccountsInv ==
    /\ AccountsTypeOK
    /\ OneAccountPerEmail
    /\ CreatedAccountIsTheirs
    /\ PasswordIsTypedOrMailed

\* Whatever overlaps or is lost, who has an account and knows none of its
\* passwords asks until one opens it (report-asw.tex:354, "Aurora logins again
\* into the system").
ForgetfulUserGetsIn ==
    \A e \in Email : HasAccount(e) ~> (GetsIn(e) \/ ~HasAccount(e))
=============================================================================
