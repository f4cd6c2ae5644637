------------------------------ MODULE Accounts ------------------------------
(***************************************************************************)
(* Accounts and refresh sessions: the handlers for registration,           *)
(* verification, login, logout, refresh and Google sign-in of              *)
(* internal/server/handlers.go, statement by statement, over the tables    *)
(* users, pending_registrations and sessions of internal/database.         *)
(*                                                                         *)
(* An account is known by its email, which is UNIQUE; a browser has one    *)
(* request under way, and its user chooses one password.  Access tokens    *)
(* are stateless and left out.  A request that the rate limit or the       *)
(* lockout turns away does nothing, so neither is here.                    *)
(***************************************************************************)
EXTENDS Integers, Sequences

CONSTANTS Browser,   \* one user each
          Email,     \* normalized addresses
          Name,      \* usernames people choose
          Code,      \* one-time codes
          Subject,   \* Google identities
          Null,      \* NULL in users.google_subject
          NoRow,     \* an email without a row in the table
          Random,    \* the password and the name given to an account made by Google
          MaxRegs,   \* bound of the model: registrations written
          MaxTokens  \* bound of the model: refresh tokens issued

ASSUME NullAssumption == Null \notin Subject
ASSUME RandomAssumption == Random \notin Browser \cup Name
ASSUME BoundsAssumption == MaxRegs \in Nat /\ MaxTokens \in Nat

VARIABLES accounts,  \* users: the row of each email, or NoRow
          pending,   \* pending_registrations: the row of each email, or NoRow
          sessions,  \* sessions: rows [token, email, live]
          jar,       \* the cookie cineroom_refresh of each browser, 0 without one
          job        \* what the request of each browser does next

VARIABLES regs,      \* every registration written, its id is its place
          withdrawn, \* registrations whose mail failed or whose account was made
          issued,    \* how many refresh tokens have been issued
          origin,    \* for each email the registration its account was made from, 0 without
          denied     \* whether a login with the right password has been refused

tables == <<accounts, pending, sessions>>
history == <<regs, withdrawn, issued, origin, denied>>
vars == <<tables, jar, job, history>>

-----------------------------------------------------------------------------
Account == [name: Name \cup {Random}, password: Browser \cup {Random},
            subject: Subject \cup {Null}]

Registration == [email: Email, name: Name, password: Browser, code: Code]

ASSUME NoRowAssumption ==
  NoRow \notin Account \cup [id: 1..MaxRegs, live: BOOLEAN]

Idle == [at |-> "idle"]

\* CreateSession for the account of e comes next.
StartSession(e) == [at |-> "session", email |-> e]

SessionJob(j) == \E e \in Email : j = StartSession(e)

\* What a request may be about to do.
JobOK(j) ==
  \/ j = Idle \/ SessionJob(j)
  \/ j.at = "write" /\ j.reg \in Registration
  \/ j.at \in {"mail", "create"} /\ j.id \in 1..Len(regs)
  \/ j.at = "drop" /\ j.id \in 1..Len(regs) /\ (j.then = Idle \/ SessionJob(j.then))
  \/ j.at = "user" /\ j.email \in Email /\ j.token \in 1..MaxTokens
  \/ j.at = "end" /\ j.token \in 1..MaxTokens /\ (j.then = Idle \/ SessionJob(j.then))
  \/ j.at \in {"byEmail", "make", "link"} /\ j.email \in Email /\ j.subject \in Subject

TypeOK ==
  /\ accounts \in [Email -> Account \cup {NoRow}]
  /\ pending \in [Email -> [id: 1..MaxRegs, live: BOOLEAN] \cup {NoRow}]
  /\ sessions \subseteq [token: 1..MaxTokens, email: Email, live: BOOLEAN]
  /\ jar \in [Browser -> 0..MaxTokens]
  /\ regs \in Seq(Registration) /\ Len(regs) <= MaxRegs
  /\ withdrawn \subseteq 1..Len(regs)
  /\ issued \in 0..MaxTokens
  /\ origin \in [Email -> 0..Len(regs)]
  /\ denied \in BOOLEAN
  /\ \A b \in Browser : JobOK(job[b])

Init ==
  /\ accounts = [e \in Email |-> NoRow]
  /\ pending = [e \in Email |-> NoRow]
  /\ sessions = {}
  /\ jar = [b \in Browser |-> 0]
  /\ job = [b \in Browser |-> Idle]
  /\ regs = <<>> /\ withdrawn = {} /\ issued = 0
  /\ origin = [e \in Email |-> 0]
  /\ denied = FALSE

-----------------------------------------------------------------------------
Do(b, j) == job' = [job EXCEPT ![b] = j]

Taken(name) == \E e \in Email : accounts[e] # NoRow /\ accounts[e].name = name

Linked(s) == {e \in Email : accounts[e] # NoRow /\ accounts[e].subject = s}

\* UserByEmail and UserByID scan google_subject into a string, which database/sql refuses to
\* do for NULL: they find no account that CreateUser has made.
Loads(e) == accounts[e] # NoRow /\ accounts[e].subject # Null

-----------------------------------------------------------------------------
(* registerHandler. *)

\* The email is looked up; an account that does not load is not in the way.
Register(b, e, name, code) ==
  /\ job[b] = Idle /\ ~Loads(e)
  /\ Do(b, [at |-> "write", reg |-> [email |-> e, name |-> name, password |-> b, code |-> code]])
  /\ UNCHANGED <<tables, jar, history>>

\* CreatePendingRegistration: a new id, in the place of an earlier registration of the email.
CreatePending(b) ==
  /\ job[b].at = "write" /\ Len(regs) < MaxRegs
  /\ regs' = Append(regs, job[b].reg)
  /\ pending' = [pending EXCEPT ![job[b].reg.email] = [id |-> Len(regs'), live |-> TRUE]]
  /\ Do(b, [at |-> "mail", id |-> Len(regs')])
  /\ UNCHANGED <<accounts, sessions, jar, withdrawn, issued, origin, denied>>

\* SendOTP, or it fails and the registration is to be deleted.
SendOTP(b) ==
  /\ job[b].at = "mail"
  /\ \/ Do(b, Idle)
     \/ Do(b, [at |-> "drop", id |-> job[b].id, then |-> Idle])
  /\ UNCHANGED <<tables, jar, history>>

\* Ten minutes have passed.
ExpirePending(e) ==
  /\ pending[e] # NoRow
  /\ pending' = [pending EXCEPT ![e].live = FALSE]
  /\ UNCHANGED <<accounts, sessions, jar, job, history>>

\* Mutant: deletes whatever is pending for the email.
DeletePendingOfEmail(b) ==
  /\ job[b].at = "drop"
  /\ withdrawn' = withdrawn \cup {job[b].id}
  /\ pending' = [pending EXCEPT ![regs[job[b].id].email] = NoRow]
  /\ Do(b, job[b].then)
  /\ UNCHANGED <<accounts, sessions, jar, regs, issued, origin, denied>>

\* DELETE ... WHERE id=?, by this handler or the next; if it fails, nobody looks.
DeletePending(b) ==
  /\ job[b].at = "drop"
  /\ withdrawn' = withdrawn \cup {job[b].id}
  /\ \/ pending' = [e \in Email |-> IF pending[e] # NoRow /\ pending[e].id = job[b].id
                                    THEN NoRow ELSE pending[e]]
     \/ UNCHANGED pending
  /\ Do(b, job[b].then)
  /\ UNCHANGED <<accounts, sessions, jar, regs, issued, origin, denied>>

-----------------------------------------------------------------------------
(* verifyRegistrationHandler. *)

\* The pending registration of the email, not expired and with this code.
Verify(b, e, code) ==
  /\ job[b] = Idle /\ pending[e] # NoRow /\ pending[e].live
  /\ regs[pending[e].id].code = code
  /\ Do(b, [at |-> "create", id |-> pending[e].id])
  /\ UNCHANGED <<tables, jar, history>>

\* Mutant: the empty GoogleSubject of the Go value written for NULL.
NewAccountNotNull(reg) == [name |-> reg.name, password |-> reg.password, subject |-> ""]

NewAccount(reg) == [name |-> reg.name, password |-> reg.password, subject |-> Null]

\* The account of registration `from`, which is made for registration `id`, if the email and
\* the username are free.
MakeAccount(b, id, from) ==
  LET reg == regs[from]
  IN  \/ /\ accounts[reg.email] = NoRow /\ ~Taken(reg.name)
         /\ accounts' = [accounts EXCEPT ![reg.email] = NewAccount(reg)]
         /\ origin' = [origin EXCEPT ![reg.email] = id]
         /\ Do(b, [at |-> "drop", id |-> id, then |-> StartSession(reg.email)])
         /\ UNCHANGED <<pending, sessions, jar, regs, withdrawn, issued, denied>>
      \/ /\ accounts[reg.email] # NoRow \/ Taken(reg.name)
         /\ Do(b, Idle)
         /\ UNCHANGED <<tables, jar, history>>

\* Mutant: the registration is read again for the INSERT.
CreateUserFromPending(b) ==
  LET e == regs[job[b].id].email
  IN  /\ job[b].at = "create" /\ pending[e] # NoRow
      /\ MakeAccount(b, job[b].id, pending[e].id)

\* CreateUser, with what was read when the code was compared.
CreateUser(b) == job[b].at = "create" /\ MakeAccount(b, job[b].id, job[b].id)

-----------------------------------------------------------------------------
(* Sessions. *)

\* A new refresh token, in a row and in the cookie; if the INSERT fails, only in the cookie.
CreateSession(b) ==
  /\ job[b].at = "session" /\ issued < MaxTokens
  /\ issued' = issued + 1
  /\ \/ sessions' = sessions \cup {[token |-> issued', email |-> job[b].email, live |-> TRUE]}
     \/ UNCHANGED sessions
  /\ jar' = [jar EXCEPT ![b] = issued']
  /\ Do(b, Idle)
  /\ UNCHANGED <<accounts, pending, regs, withdrawn, origin, denied>>

\* loginHandler: the account must load and the password be right.
Login(b, e, password) ==
  LET right == accounts[e] # NoRow /\ accounts[e].password = password
  IN  /\ job[b] = Idle
      /\ Do(b, IF Loads(e) /\ right THEN StartSession(e) ELSE Idle)
      /\ denied' = (denied \/ (right /\ ~Loads(e)))
      /\ UNCHANGED <<tables, jar, regs, withdrawn, issued, origin>>

\* logoutHandler.  The cookie goes with the response, which nothing else can overtake.
Logout(b) ==
  /\ job[b] = Idle /\ jar[b] # 0
  /\ jar' = [jar EXCEPT ![b] = 0]
  /\ Do(b, [at |-> "end", token |-> jar[b], then |-> Idle])
  /\ UNCHANGED <<tables, history>>

\* DeleteSessionByHash; if it fails, nobody looks.
DeleteSession(b) ==
  /\ job[b].at = "end"
  /\ \/ sessions' = {s \in sessions : s.token # job[b].token}
     \/ UNCHANGED sessions
  /\ Do(b, job[b].then)
  /\ UNCHANGED <<accounts, pending, jar, history>>

\* Thirty days have passed.
ExpireSession(s) ==
  /\ s \in sessions /\ s.live
  /\ sessions' = (sessions \ {s}) \cup {[s EXCEPT !.live = FALSE]}
  /\ UNCHANGED <<accounts, pending, jar, job, history>>

\* refreshHandler: the session of the cookie, which is deleted if it has expired ...
Refresh(b) ==
  /\ job[b] = Idle
  /\ \E s \in sessions :
       /\ s.token = jar[b]
       /\ Do(b, IF s.live THEN [at |-> "user", token |-> s.token, email |-> s.email]
                          ELSE [at |-> "end", token |-> s.token, then |-> Idle])
  /\ UNCHANGED <<tables, jar, history>>

\* ... then its account, which must load; then it is deleted and another one made.
RefreshUser(b) ==
  LET e == job[b].email
  IN  /\ job[b].at = "user"
      /\ Do(b, IF Loads(e)
               THEN [at |-> "end", token |-> job[b].token, then |-> StartSession(e)] ELSE Idle)
      /\ UNCHANGED <<tables, jar, history>>

-----------------------------------------------------------------------------
(* googleCallbackHandler, for a profile with this subject and verified email. *)

\* An account with the subject is signed in, and nothing is written.
GoogleCallback(b, s, e) ==
  /\ job[b] = Idle /\ Linked(s) = {}
  /\ Do(b, [at |-> "byEmail", subject |-> s, email |-> e])
  /\ UNCHANGED <<tables, jar, history>>

\* No account of the email: one is made.  One that loads: it is linked.  Else the request fails.
GoogleByEmail(b) ==
  LET e == job[b].email
  IN  /\ job[b].at = "byEmail"
      /\ \/ accounts[e] = NoRow /\ Do(b, [job[b] EXCEPT !.at = "make"])
         \/ Loads(e) /\ Do(b, [job[b] EXCEPT !.at = "link"])
         \/ accounts[e] # NoRow /\ ~Loads(e) /\ Do(b, Idle)
      /\ UNCHANGED <<tables, jar, history>>

\* CreateGoogleUser fails if the email or the subject has got an account in the meantime.
CreateGoogleUser(b) ==
  LET e == job[b].email
  IN  /\ job[b].at = "make"
      /\ accounts' = IF accounts[e] = NoRow /\ Linked(job[b].subject) = {}
           THEN [accounts EXCEPT ![e] =
                  [name |-> Random, password |-> Random, subject |-> job[b].subject]]
           ELSE accounts
      /\ Do(b, Idle)
      /\ UNCHANGED <<pending, sessions, jar, history>>

\* Mutant: the account is linked whatever it was linked to before.
LinkAnyway(b) ==
  /\ job[b].at = "link"
  /\ accounts' = IF Linked(job[b].subject) = {}
       THEN [accounts EXCEPT ![job[b].email].subject = job[b].subject] ELSE accounts
  /\ Do(b, Idle)
  /\ UNCHANGED <<pending, sessions, jar, history>>

\* LinkGoogleSubject: only an account without a subject, and only a subject without account.
LinkGoogleSubject(b) ==
  LET e == job[b].email
  IN  /\ job[b].at = "link"
      /\ accounts' = IF accounts[e].subject = Null /\ Linked(job[b].subject) = {}
           THEN [accounts EXCEPT ![e].subject = job[b].subject] ELSE accounts
      /\ Do(b, Idle)
      /\ UNCHANGED <<pending, sessions, jar, history>>

-----------------------------------------------------------------------------
Next ==
  \/ \E b \in Browser :
       \/ \E e \in Email, n \in Name, c \in Code : Register(b, e, n, c)
       \/ CreatePending(b) \/ SendOTP(b) \/ DeletePending(b)
       \/ \E e \in Email, c \in Code : Verify(b, e, c)
       \/ CreateUser(b) \/ CreateSession(b)
       \/ \E e \in Email, p \in Browser : Login(b, e, p)
       \/ Logout(b) \/ DeleteSession(b) \/ Refresh(b) \/ RefreshUser(b)
       \/ \E s \in Subject, e \in Email : GoogleCallback(b, s, e)
       \/ GoogleByEmail(b) \/ CreateGoogleUser(b) \/ LinkGoogleSubject(b)
  \/ \E e \in Email : ExpirePending(e)
  \/ \E s \in sessions : ExpireSession(s)

Spec == Init /\ [][Next]_vars

-----------------------------------------------------------------------------
(* Properties. *)

\* An account with a password has the name and the password of one registration, the one
\* whose code was compared, however many others replace it while it is verified
\* (handlers.go:112-118); any other was made by Google.
AccountIsOneRegistration ==
  \A e \in Email : accounts[e] # NoRow =>
    LET reg == regs[origin[e]]
    IN  IF origin[e] = 0 THEN accounts[e].subject # Null
        ELSE /\ reg.email = e
             /\ reg.name = accounts[e].name /\ reg.password = accounts[e].password

\* The last registration of an email is pending until its own mail fails or its own account
\* is made: an earlier one that fails late does not take it away (handlers.go:88, 123).
LastRegistrationStands ==
  \A i \in 1..Len(regs) :
    (\A j \in (i + 1)..Len(regs) : regs[j].email # regs[i].email) =>
      LET p == pending[regs[i].email]
      IN  IF p = NoRow THEN i \in withdrawn ELSE p.id = i

\* An account is never changed once it is made: no later verification and no Google sign-in
\* replaces its password or moves it to another identity (store.go:84, 269).
AccountsStand == [][\A e \in Email : accounts[e] # NoRow => accounts'[e] = accounts[e]]_vars

\* handlers.go:167 answers "invalid email or password": a login with the email and the
\* password of an account is not refused.
RightPasswordLogsIn == ~denied
=============================================================================
