--------------------------- MODULE AccountsProofs ---------------------------
(***************************************************************************)
(* Proofs about Accounts, for any number of browsers, addresses and        *)
(* identities and any bounds: whatever requests are interleaved, an        *)
(* account comes of one registration or of Google and then stays as it is. *)
(***************************************************************************)
EXTENDS Accounts, TLAPS

-----------------------------------------------------------------------------
(* The inductive invariant. *)

\* What the types need besides: a pending registration is one that has been written.
Typed ==
  /\ TypeOK
  /\ DOMAIN job = Browser
  /\ \A e \in Email : pending[e] # NoRow => pending[e].id \in 1..Len(regs)

\* Only accounts have an origin.
OriginsAreMade == \A e \in Email : accounts[e] = NoRow => origin[e] = 0

\* googleCallbackHandler comes to link an account only if it loads, that is, has a subject.
LinksLoad == \A b \in Browser : job[b].at = "link" => Loads(job[b].email)

IInv ==
  /\ Typed
  /\ OriginsAreMade /\ LinksLoad
  /\ AccountIsOneRegistration /\ LastRegistrationStands

LEMMA InitIInv == Init => IInv
<1> SUFFICES ASSUME Init
             PROVE  IInv
  OBVIOUS
<1>1. Typed
  <2>1. regs \in Seq(Registration) /\ Len(regs) = 0 /\ withdrawn = {}
    BY DEF Init
  <2>2. denied \in BOOLEAN
    BY Zenon DEF Init
  <2>3. \A b \in Browser : JobOK(job[b])
    BY DEF Init, JobOK
  <2>4. /\ accounts \in [Email -> Account \cup {NoRow}] /\ sessions = {}
        /\ pending \in [Email -> [id: 1..MaxRegs, live: BOOLEAN] \cup {NoRow}]
    BY DEF Init
  <2>5. /\ jar \in [Browser -> 0..MaxTokens] /\ issued \in 0..MaxTokens
        /\ origin \in [Email -> 0..Len(regs)] /\ Len(regs) <= MaxRegs
    BY <2>1, BoundsAssumption DEF Init
  <2>6. DOMAIN job = Browser /\ \A e \in Email : pending[e] = NoRow
    BY DEF Init
  <2>7. QED
    BY <2>1, <2>2, <2>3, <2>4, <2>5, <2>6 DEF Typed, TypeOK
<1>2. OriginsAreMade /\ LinksLoad /\ AccountIsOneRegistration /\ LastRegistrationStands
  BY DEF Init, OriginsAreMade, LinksLoad, AccountIsOneRegistration, LastRegistrationStands, Idle
<1>3. QED
  BY <1>1, <1>2 DEF IInv

-----------------------------------------------------------------------------
(* Types. *)

\* The jobs after one of them has moved on and the registrations are what they were.
LEMMA JobsAfter ==
  ASSUME Typed, NEW b \in Browser, NEW j, Do(b, j), JobOK(j), UNCHANGED regs
  PROVE  DOMAIN job' = Browser /\ (\A x \in Browser : JobOK(job[x])')
  BY DEF Typed, TypeOK, Do, JobOK

\* What a record with a place that names it is, and Idle is not.
LEMMA AtIsNot ==
  ASSUME NEW b \in Browser, Typed
  PROVE  /\ job[b].at = "write" => job[b].reg \in Registration
         /\ job[b].at \in {"mail", "create"} => job[b].id \in 1..Len(regs)
         /\ job[b].at = "drop" => /\ job[b].id \in 1..Len(regs)
                                  /\ job[b].then = Idle \/ SessionJob(job[b].then)
         /\ job[b].at = "session" => SessionJob(job[b])
         /\ job[b].at = "user" => job[b].email \in Email /\ job[b].token \in 1..MaxTokens
         /\ job[b].at = "end" => /\ job[b].token \in 1..MaxTokens
                                 /\ job[b].then = Idle \/ SessionJob(job[b].then)
         /\ job[b].at \in {"byEmail", "make", "link"} =>
              job[b].email \in Email /\ job[b].subject \in Subject
<1>1. JobOK(job[b])
  BY DEF Typed, TypeOK
<1>2. job[b] = Idle => job[b].at = "idle"
  BY DEF Idle
<1>3. SessionJob(job[b]) => job[b].at = "session"
  BY DEF SessionJob, StartSession
<1>4. QED
  BY <1>1, <1>2, <1>3 DEF JobOK

-----------------------------------------------------------------------------
(* Each action and the types. *)

\* A step that writes neither registrations nor tables.
LEMMA JobStepTyped ==
  ASSUME Typed, NEW b \in Browser, NEW j, Do(b, j), JobOK(j), UNCHANGED <<tables, history>>,
         jar' \in [Browser -> 0..MaxTokens]
  PROVE  Typed'
<1>1. DOMAIN job' = Browser /\ (\A x \in Browser : JobOK(job[x])')
  BY JobsAfter DEF history
<1>2. QED
  BY <1>1 DEF Typed, TypeOK, tables, history

LEMMA CreatePendingTyped ==
  ASSUME Typed, NEW b \in Browser, CreatePending(b)
  PROVE  Typed'
<1> DEFINE n == Len(regs) + 1
<1>1. /\ job[b].reg \in Registration /\ job[b].reg.email \in Email
      /\ Len(regs) \in Nat /\ n \in 1..MaxRegs
  <2>1. job[b].reg \in Registration /\ Len(regs) < MaxRegs
    BY AtIsNot DEF CreatePending
  <2>2. Len(regs) \in Nat
    BY DEF Typed, TypeOK
  <2>3. job[b].reg.email \in Email
    BY <2>1 DEF Registration
  <2>4. QED
    BY <2>1, <2>2, <2>3, BoundsAssumption
<1>2. regs' \in Seq(Registration) /\ Len(regs') = n
  BY <1>1 DEF CreatePending, Typed, TypeOK
<1>3. DOMAIN job' = Browser /\ \A x \in Browser : JobOK(job[x])'
  <2>1. job' = [job EXCEPT ![b] = [at |-> "mail", id |-> n]]
    BY <1>2 DEF CreatePending, Do
  <2>2. \A x \in Browser : x # b => job'[x] = job[x]
    BY <2>1
  <2>3. job'[b] = [at |-> "mail", id |-> n]
    BY <2>1 DEF Typed
  <2>4. \A x \in Browser : x # b => JobOK(job[x])'
    BY <1>1, <1>2, <2>2 DEF Typed, TypeOK, JobOK
  <2>5. JobOK(job[b])'
    BY <1>1, <1>2, <2>3 DEF JobOK
  <2>6. QED
    BY <2>1, <2>4, <2>5 DEF Typed
<1>4. pending' = [pending EXCEPT ![job[b].reg.email] = [id |-> n, live |-> TRUE]]
  BY <1>2 DEF CreatePending
<1>5. /\ pending' \in [Email -> [id: 1..MaxRegs, live: BOOLEAN] \cup {NoRow}]
      /\ \A e \in Email : pending'[e] # NoRow => pending'[e].id \in 1..n
  BY <1>1, <1>4 DEF Typed, TypeOK
<1>6. withdrawn' \subseteq 1..n /\ origin' \in [Email -> 0..n]
  BY <1>1 DEF CreatePending, Typed, TypeOK
<1>7. QED
  BY <1>1, <1>2, <1>3, <1>5, <1>6 DEF CreatePending, Typed, TypeOK

LEMMA DeletePendingTyped ==
  ASSUME Typed, NEW b \in Browser, DeletePending(b)
  PROVE  Typed'
<1>1. job[b].id \in 1..Len(regs) /\ JobOK(job[b].then)
  BY AtIsNot DEF DeletePending, JobOK
<1>2. DOMAIN job' = Browser /\ \A x \in Browser : JobOK(job[x])'
  BY <1>1, JobsAfter DEF DeletePending
<1>3. \A e \in Email : pending'[e] = pending[e] \/ pending'[e] = NoRow
  BY DEF DeletePending
<1>4. pending' \in [Email -> [id: 1..MaxRegs, live: BOOLEAN] \cup {NoRow}]
  BY DEF DeletePending, Typed, TypeOK
<1>5. QED
  BY <1>1, <1>2, <1>3, <1>4 DEF DeletePending, Typed, TypeOK

LEMMA MakeAccountTyped ==
  ASSUME Typed, NEW b \in Browser, NEW id \in 1..Len(regs), MakeAccount(b, id, id)
  PROVE  Typed'
<1>1. regs[id] \in Registration
  BY DEF Typed, TypeOK
<1>2. CASE /\ accounts' = [accounts EXCEPT ![regs[id].email] = NewAccount(regs[id])]
           /\ origin' = [origin EXCEPT ![regs[id].email] = id]
           /\ Do(b, [at |-> "drop", id |-> id, then |-> StartSession(regs[id].email)])
           /\ UNCHANGED <<pending, sessions, jar, regs, withdrawn, issued, denied>>
  <2>1. NewAccount(regs[id]) \in Account /\ regs[id].email \in Email
    BY <1>1 DEF NewAccount, Account, Registration
  <2>2. JobOK([at |-> "drop", id |-> id, then |-> StartSession(regs[id].email)])
    BY <2>1 DEF JobOK, SessionJob
  <2>3. DOMAIN job' = Browser /\ \A x \in Browser : JobOK(job[x])'
    BY <1>2, <2>2, JobsAfter
  <2>4. accounts' \in [Email -> Account \cup {NoRow}] /\ origin' \in [Email -> 0..Len(regs)]
    BY <1>2, <2>1 DEF Typed, TypeOK
  <2>5. QED
    BY <1>2, <2>3, <2>4 DEF Typed, TypeOK
<1>3. CASE Do(b, Idle) /\ UNCHANGED <<tables, jar, history>>
  BY <1>3, JobStepTyped DEF JobOK, Typed, TypeOK
<1>4. QED
  BY <1>2, <1>3 DEF MakeAccount

LEMMA CreateSessionTyped ==
  ASSUME Typed, NEW b \in Browser, CreateSession(b)
  PROVE  Typed'
<1>1. job[b].email \in Email /\ issued' \in 1..MaxTokens
  <2>1. SessionJob(job[b])
    BY AtIsNot DEF CreateSession
  <2>2. job[b].email \in Email
    BY <2>1 DEF SessionJob, StartSession
  <2>3. QED
    BY <2>2, BoundsAssumption DEF CreateSession, Typed, TypeOK
<1>2. DOMAIN job' = Browser /\ \A x \in Browser : JobOK(job[x])'
  BY JobsAfter DEF CreateSession, JobOK
<1>3. sessions' \subseteq [token: 1..MaxTokens, email: Email, live: BOOLEAN]
  <2>1. [token |-> issued', email |-> job[b].email, live |-> TRUE]
          \in [token: 1..MaxTokens, email: Email, live: BOOLEAN]
    BY <1>1
  <2>2. sessions \subseteq [token: 1..MaxTokens, email: Email, live: BOOLEAN]
    BY DEF Typed, TypeOK
  <2>3. \/ sessions' = sessions
        \/ sessions' = sessions \cup {[token |-> issued', email |-> job[b].email, live |-> TRUE]}
    BY DEF CreateSession
  <2>4. QED
    BY <2>1, <2>2, <2>3
<1>4. jar' \in [Browser -> 0..MaxTokens] /\ issued' \in 0..MaxTokens
  BY <1>1 DEF CreateSession, Typed, TypeOK
<1>5. QED
  BY <1>2, <1>3, <1>4 DEF CreateSession, Typed, TypeOK

LEMMA DeleteSessionTyped ==
  ASSUME Typed, NEW b \in Browser, DeleteSession(b)
  PROVE  Typed'
<1>1. JobOK(job[b].then)
  BY AtIsNot DEF DeleteSession, JobOK
<1>2. DOMAIN job' = Browser /\ \A x \in Browser : JobOK(job[x])'
  BY <1>1, JobsAfter DEF DeleteSession, history
<1>3. sessions' \subseteq sessions
  BY DEF DeleteSession
<1>4. QED
  BY <1>2, <1>3 DEF DeleteSession, Typed, TypeOK, history

LEMMA ExpireSessionTyped ==
  ASSUME Typed, NEW s \in sessions, ExpireSession(s)
  PROVE  Typed'
<1>1. [s EXCEPT !.live = FALSE] \in [token: 1..MaxTokens, email: Email, live: BOOLEAN]
  BY DEF Typed, TypeOK
<1>2. sessions' \subseteq [token: 1..MaxTokens, email: Email, live: BOOLEAN]
  BY <1>1 DEF ExpireSession, Typed, TypeOK
<1>3. \A x \in Browser : JobOK(job[x])'
  BY DEF ExpireSession, history, Typed, TypeOK, JobOK
<1>4. QED
  BY <1>2, <1>3 DEF ExpireSession, Typed, TypeOK, history

LEMMA ExpirePendingTyped ==
  ASSUME Typed, NEW e \in Email, ExpirePending(e)
  PROVE  /\ Typed'
         /\ \A x \in Email : /\ pending'[x] = NoRow <=> pending[x] = NoRow
                             /\ pending[x] # NoRow => pending'[x].id = pending[x].id
<1>1. pending[e] \in [id: 1..MaxRegs, live: BOOLEAN]
  BY DEF ExpirePending, Typed, TypeOK
<1>2. [pending[e] EXCEPT !.live = FALSE] \in [id: 1..MaxRegs, live: BOOLEAN]
  BY <1>1
<1>3. [pending[e] EXCEPT !.live = FALSE] # NoRow
  BY <1>2, NoRowAssumption
<1>4. pending' = [pending EXCEPT ![e] = [pending[e] EXCEPT !.live = FALSE]]
  BY DEF ExpirePending
<1>5. [pending[e] EXCEPT !.live = FALSE].id = pending[e].id
  BY <1>1
<1>6. pending'[e] = [pending[e] EXCEPT !.live = FALSE] /\ \A x \in Email : x # e => pending'[x] = pending[x]
  BY <1>4 DEF Typed, TypeOK
<1>7. \A x \in Email : /\ pending'[x] = NoRow <=> pending[x] = NoRow
                       /\ pending[x] # NoRow => pending'[x].id = pending[x].id
  BY <1>3, <1>5, <1>6 DEF ExpirePending
<1>8. pending' \in [Email -> [id: 1..MaxRegs, live: BOOLEAN] \cup {NoRow}]
  BY <1>2, <1>4 DEF Typed, TypeOK
<1>9. \A x \in Browser : JobOK(job[x])'
  BY DEF ExpirePending, history, Typed, TypeOK, JobOK
<1>10. QED
  BY <1>7, <1>8, <1>9 DEF ExpirePending, Typed, TypeOK, history

\* The steps that only read tables, and the logout, which takes the cookie.
LEMMA ReadersTyped ==
  ASSUME Typed, NEW b \in Browser,
         \/ \E e \in Email, n \in Name, c \in Code : Register(b, e, n, c)
         \/ SendOTP(b)
         \/ \E e \in Email, c \in Code : Verify(b, e, c)
         \/ Logout(b) \/ Refresh(b) \/ RefreshUser(b)
         \/ \E s \in Subject, e \in Email : GoogleCallback(b, s, e)
         \/ GoogleByEmail(b)
  PROVE  Typed'
<1>1. jar[b] # 0 => jar[b] \in 1..MaxTokens
  BY DEF Typed, TypeOK
<1>2. ASSUME NEW e \in Email, NEW n \in Name, NEW c \in Code, Register(b, e, n, c)
      PROVE  Typed'
  <2>1. JobOK([at |-> "write",
               reg |-> [email |-> e, name |-> n, password |-> b, code |-> c]])
    BY DEF JobOK, Registration
  <2>2. QED
    BY <1>2, <2>1, JobStepTyped DEF Register, Typed, TypeOK
<1>3. CASE SendOTP(b)
  <2>1. job[b].id \in 1..Len(regs)
    BY <1>3, AtIsNot DEF SendOTP
  <2>2. JobOK(Idle) /\ JobOK([at |-> "drop", id |-> job[b].id, then |-> Idle])
    BY <2>1 DEF JobOK
  <2>3. QED
    BY <1>3, <2>2, JobStepTyped DEF SendOTP, Typed, TypeOK
<1>4. ASSUME NEW e \in Email, NEW c \in Code, Verify(b, e, c)
      PROVE  Typed'
  <2>1. JobOK([at |-> "create", id |-> pending[e].id])
    BY <1>4 DEF JobOK, Verify, Typed
  <2>2. QED
    BY <1>4, <2>1, JobStepTyped DEF Verify, Typed, TypeOK
<1>5. CASE Logout(b)
  <2>1. JobOK([at |-> "end", token |-> jar[b], then |-> Idle])
    BY <1>1, <1>5 DEF JobOK, Logout
  <2>2. jar' \in [Browser -> 0..MaxTokens]
    BY <1>5, BoundsAssumption DEF Logout, Typed, TypeOK
  <2>3. QED
    BY <1>5, <2>1, <2>2, JobStepTyped DEF Logout
<1>6. CASE Refresh(b)
  <2>1. PICK s \in sessions :
          Do(b, IF s.live THEN [at |-> "user", token |-> s.token, email |-> s.email]
                          ELSE [at |-> "end", token |-> s.token, then |-> Idle])
    BY <1>6 DEF Refresh
  <2>2. s.token \in 1..MaxTokens /\ s.email \in Email
    BY DEF Typed, TypeOK
  <2>3. JobOK([at |-> "user", token |-> s.token, email |-> s.email])
    BY <2>2 DEF JobOK
  <2>4. JobOK([at |-> "end", token |-> s.token, then |-> Idle])
    BY <2>2 DEF JobOK
  <2>5. QED
    BY <1>6, <2>1, <2>3, <2>4, JobStepTyped DEF Refresh, Typed, TypeOK
<1>7. CASE RefreshUser(b)
  <2>1. job[b].email \in Email /\ job[b].token \in 1..MaxTokens
    BY <1>7, AtIsNot DEF RefreshUser
  <2>2. JobOK(Idle)
        /\ JobOK([at |-> "end", token |-> job[b].token, then |-> StartSession(job[b].email)])
    BY <2>1 DEF JobOK, SessionJob
  <2>3. QED
    BY <1>7, <2>2, JobStepTyped DEF RefreshUser, Typed, TypeOK
<1>8. ASSUME NEW s \in Subject, NEW e \in Email, GoogleCallback(b, s, e)
      PROVE  Typed'
  <2>1. JobOK([at |-> "byEmail", subject |-> s, email |-> e])
    BY DEF JobOK
  <2>2. QED
    BY <1>8, <2>1, JobStepTyped DEF GoogleCallback, Typed, TypeOK
<1>9. CASE GoogleByEmail(b)
  <2>1. job[b].at = "byEmail" /\ job[b].email \in Email /\ job[b].subject \in Subject
    BY <1>9, AtIsNot DEF GoogleByEmail
  <2>2. JobOK(Idle)
    BY DEF JobOK
  <2>3. ASSUME NEW at \in {"make", "link"}, Do(b, [job[b] EXCEPT !.at = at])
        PROVE  JobOK([job[b] EXCEPT !.at = at])
    BY <2>1 DEF JobOK
  <2>4. QED
    BY <1>9, <2>2, <2>3, JobStepTyped DEF GoogleByEmail, Typed, TypeOK
<1>10. QED
  BY <1>2, <1>3, <1>4, <1>5, <1>6, <1>7, <1>8, <1>9

\* The steps of Google's callback that write accounts.
LEMMA GoogleTyped ==
  ASSUME Typed, LinksLoad, NEW b \in Browser, CreateGoogleUser(b) \/ LinkGoogleSubject(b)
  PROVE  Typed'
<1>1. job[b].email \in Email /\ job[b].subject \in Subject
  BY AtIsNot DEF CreateGoogleUser, LinkGoogleSubject
<1>2. DOMAIN job' = Browser /\ \A x \in Browser : JobOK(job[x])'
  BY JobsAfter DEF CreateGoogleUser, LinkGoogleSubject, JobOK, history
<1>3. accounts' \in [Email -> Account \cup {NoRow}]
  <2>1. CASE CreateGoogleUser(b)
    <3>1. [name |-> Random, password |-> Random, subject |-> job[b].subject] \in Account
      BY <1>1 DEF Account
    <3>2. QED
      BY <1>1, <2>1, <3>1 DEF CreateGoogleUser, Typed, TypeOK
  <2>2. CASE LinkGoogleSubject(b)
    <3> DEFINE e == job[b].email
    <3>1. accounts[e].subject # Null
      BY <2>2 DEF LinkGoogleSubject, LinksLoad, Loads
    <3>2. QED
      BY <2>2, <3>1 DEF LinkGoogleSubject, Typed, TypeOK
  <2>3. QED
    BY <2>1, <2>2
<1>4. QED
  BY <1>2, <1>3 DEF CreateGoogleUser, LinkGoogleSubject, Typed, TypeOK, history

LEMMA LoginTyped ==
  ASSUME Typed, NEW b \in Browser, NEW e \in Email, NEW p \in Browser, Login(b, e, p)
  PROVE  Typed'
<1>1. JobOK(Idle) /\ JobOK(StartSession(e))
  BY DEF JobOK, SessionJob
<1>2. DOMAIN job' = Browser /\ \A x \in Browser : JobOK(job[x])'
  BY <1>1, JobsAfter DEF Login
<1>3. denied' \in BOOLEAN
  BY Zenon DEF Login, Typed, TypeOK
<1>4. QED
  BY <1>2, <1>3 DEF Login, Typed, TypeOK, tables

LEMMA NextTyped ==
  ASSUME Typed, LinksLoad, Next
  PROVE  Typed'
<1>1. ASSUME NEW b \in Browser, CreateUser(b)
      PROVE  Typed'
  BY <1>1, AtIsNot, MakeAccountTyped DEF CreateUser
<1>2. QED
  BY <1>1, ReadersTyped, CreatePendingTyped, DeletePendingTyped, CreateSessionTyped, LoginTyped,
     DeleteSessionTyped, GoogleTyped, ExpirePendingTyped, ExpireSessionTyped DEF Next

-----------------------------------------------------------------------------
(* What a step does to registrations and accounts. *)

LEMMA RegsStep ==
  ASSUME Typed, Next
  PROVE  \/ UNCHANGED regs
         \/ \E b \in Browser : CreatePending(b)
  BY DEF Next, Register, SendOTP, DeletePending, Verify, CreateUser, MakeAccount, CreateSession,
         Login, Logout, DeleteSession, Refresh, RefreshUser, GoogleCallback, GoogleByEmail,
         CreateGoogleUser, LinkGoogleSubject, ExpirePending, ExpireSession, history

\* An account is made, of one registration or by Google, where there was none.
Registered(id) ==
  /\ accounts[regs[id].email] = NoRow
  /\ accounts' = [accounts EXCEPT ![regs[id].email] = NewAccount(regs[id])]
  /\ origin' = [origin EXCEPT ![regs[id].email] = id]
  /\ UNCHANGED <<regs, pending>>

MadeByGoogle(e, s) ==
  /\ accounts[e] = NoRow
  /\ accounts' = [accounts EXCEPT ![e] = [name |-> Random, password |-> Random, subject |-> s]]
  /\ UNCHANGED <<origin, regs, pending>>

LEMMA AccountsStep ==
  ASSUME Typed, LinksLoad, Next
  PROVE  \/ UNCHANGED <<accounts, origin>>
         \/ \E id \in 1..Len(regs) : Registered(id)
         \/ \E e \in Email, s \in Subject : MadeByGoogle(e, s)
<1>1. ASSUME NEW b \in Browser, CreateUser(b)
      PROVE  \/ UNCHANGED <<accounts, origin>>
             \/ \E id \in 1..Len(regs) : Registered(id)
  <2>1. job[b].id \in 1..Len(regs)
    BY <1>1, AtIsNot DEF CreateUser
  <2>2. UNCHANGED <<accounts, origin>> \/ Registered(job[b].id)
    BY <1>1 DEF CreateUser, MakeAccount, Registered, tables, history
  <2>3. QED
    BY <2>1, <2>2
<1>2. ASSUME NEW b \in Browser, CreateGoogleUser(b)
      PROVE  \/ UNCHANGED <<accounts, origin>>
             \/ \E e \in Email, s \in Subject : MadeByGoogle(e, s)
  <2>1. job[b].email \in Email /\ job[b].subject \in Subject
    BY <1>2, AtIsNot DEF CreateGoogleUser
  <2>2. UNCHANGED <<accounts, origin>> \/ MadeByGoogle(job[b].email, job[b].subject)
    BY <1>2 DEF CreateGoogleUser, MadeByGoogle, history
  <2>3. QED
    BY <2>1, <2>2
<1>3. ASSUME NEW b \in Browser, LinkGoogleSubject(b)
      PROVE  UNCHANGED <<accounts, origin>>
  BY <1>3 DEF LinkGoogleSubject, LinksLoad, Loads, history
<1>4. QED
  BY <1>1, <1>2, <1>3
     DEF Next, Register, CreatePending, SendOTP, DeletePending, Verify, CreateSession, Login,
         Logout, DeleteSession, Refresh, RefreshUser, GoogleCallback, GoogleByEmail,
         ExpirePending, ExpireSession, history, tables

\* An account that is there is not touched.
LEMMA AccountsStay ==
  ASSUME Typed, LinksLoad, Next, NEW e \in Email, accounts[e] # NoRow
  PROVE  accounts'[e] = accounts[e]
  BY AccountsStep DEF Registered, MadeByGoogle, Typed, TypeOK

LEMMA NextOrigins ==
  ASSUME Typed, Typed', LinksLoad, OriginsAreMade, AccountIsOneRegistration, Next
  PROVE  OriginsAreMade' /\ AccountIsOneRegistration'
<1>1. CASE UNCHANGED <<accounts, origin>>
  <2>1. ASSUME NEW e \in Email, origin[e] # 0
        PROVE  regs'[origin[e]] = regs[origin[e]]
    <3>1. origin[e] \in 1..Len(regs) /\ Len(regs) \in Nat
      BY <2>1 DEF Typed, TypeOK
    <3>2. ASSUME NEW b \in Browser, CreatePending(b)
          PROVE  regs'[origin[e]] = regs[origin[e]]
      <4>1. job[b].reg \in Registration
        BY <3>2, AtIsNot DEF CreatePending
      <4>2. regs' = Append(regs, job[b].reg) /\ regs \in Seq(Registration)
        BY <3>2 DEF CreatePending, Typed, TypeOK
      <4>3. QED
        BY <3>1, <4>1, <4>2
    <3>3. QED
      BY <3>2, RegsStep
  <2>2. QED
    BY <1>1, <2>1 DEF OriginsAreMade, AccountIsOneRegistration
<1>2. ASSUME NEW id \in 1..Len(regs), Registered(id)
      PROVE  OriginsAreMade' /\ AccountIsOneRegistration'
  <2>1. regs[id] \in Registration /\ regs[id].email \in Email
    <3>1. regs[id] \in Registration
      BY DEF Typed, TypeOK
    <3>2. QED
      BY <3>1 DEF Registration
  <2>2. NewAccount(regs[id]) # NoRow
    <3>1. NewAccount(regs[id]) \in Account
      BY <2>1 DEF NewAccount, Account, Registration
    <3>2. QED
      BY <3>1, NoRowAssumption
  <2>3. /\ accounts'[regs[id].email] = NewAccount(regs[id])
        /\ origin'[regs[id].email] = id /\ id # 0
        /\ \A e \in Email : e # regs[id].email => accounts'[e] = accounts[e] /\ origin'[e] = origin[e]
    BY <1>2, <2>1 DEF Registered, Typed, TypeOK
  <2>4. QED
    BY <1>2, <2>2, <2>3 DEF Registered, OriginsAreMade, AccountIsOneRegistration, NewAccount
<1>3. ASSUME NEW g \in Email, NEW s \in Subject, MadeByGoogle(g, s)
      PROVE  OriginsAreMade' /\ AccountIsOneRegistration'
  <2>1. [name |-> Random, password |-> Random, subject |-> s] # NoRow
    BY NoRowAssumption DEF Account
  <2>2. /\ accounts'[g].subject # Null /\ accounts'[g] # NoRow
        /\ \A e \in Email : e # g => accounts'[e] = accounts[e]
    BY <1>3, <2>1, NullAssumption DEF MadeByGoogle, Typed, TypeOK
  <2>3. origin'[g] = 0
    BY <1>3 DEF MadeByGoogle, OriginsAreMade
  <2>4. QED
    BY <1>3, <2>2, <2>3 DEF MadeByGoogle, OriginsAreMade, AccountIsOneRegistration
<1>4. QED
  BY <1>1, <1>2, <1>3, AccountsStep

\* Only GoogleByEmail sends a request on to link, and it has looked.
LEMMA LinksAfter ==
  ASSUME Typed, LinksLoad, NEW b \in Browser, NEW j, Do(b, j), j.at = "link" => j.email \in Email /\ Loads(j.email),
         \A e \in Email : Loads(e) => Loads(e)'
  PROVE  LinksLoad'
<1>1. ASSUME NEW x \in Browser, job'[x].at = "link"
      PROVE  Loads(job[x].email)'
  <2>1. CASE x = b
    <3>1. job'[x] = j
      BY <2>1 DEF Do, Typed
    <3>2. QED
      BY <1>1, <3>1
  <2>2. CASE x # b
    BY <1>1, <2>2, AtIsNot DEF Do, Typed, LinksLoad
  <2>3. QED
    BY <2>1, <2>2
<1>2. QED
  BY <1>1 DEF LinksLoad

LEMMA NextLinks ==
  ASSUME Typed, LinksLoad, Next
  PROVE  LinksLoad'
<1>1. \A e \in Email : Loads(e) => Loads(e)'
  BY AccountsStay DEF Loads
<1>2. Idle.at # "link" /\ \A e \in Email : StartSession(e).at # "link"
  BY DEF Idle, StartSession
<1>3. ASSUME NEW b \in Browser, CreatePending(b)
      PROVE  LinksLoad'
  BY <1>1, <1>3, LinksAfter DEF CreatePending
<1>4. ASSUME NEW b \in Browser, DeletePending(b) \/ DeleteSession(b)
      PROVE  LinksLoad'
  <2>1. job[b].then.at # "link"
    BY <1>2, <1>4, AtIsNot DEF DeletePending, DeleteSession, SessionJob
  <2>2. QED
    BY <1>1, <1>4, <2>1, LinksAfter DEF DeletePending, DeleteSession
<1>5. ASSUME NEW b \in Browser, CreateUser(b)
      PROVE  LinksLoad'
  BY <1>1, <1>2, <1>5, LinksAfter DEF CreateUser, MakeAccount
<1>6. ASSUME NEW b \in Browser, GoogleByEmail(b)
      PROVE  LinksLoad'
  <2>1. job[b].email \in Email
    BY <1>6, AtIsNot DEF GoogleByEmail
  <2>2. CASE Loads(job[b].email) /\ Do(b, [job[b] EXCEPT !.at = "link"])
    <3>1. [job[b] EXCEPT !.at = "link"].email = job[b].email
      OBVIOUS
    <3>2. QED
      BY <1>1, <2>1, <2>2, <3>1, LinksAfter
  <2>3. CASE Do(b, [job[b] EXCEPT !.at = "make"])
    <3>1. job[b].at = "byEmail"
      BY <1>6 DEF GoogleByEmail
    <3>2. [job[b] EXCEPT !.at = "make"].at # "link"
      BY <3>1
    <3>3. QED
      BY <1>1, <2>3, <3>2, LinksAfter
  <2>4. CASE Do(b, Idle)
    BY <1>1, <1>2, <2>4, LinksAfter
  <2>5. QED
    BY <1>6, <2>2, <2>3, <2>4 DEF GoogleByEmail
<1>7. ASSUME NEW b \in Browser,
             \/ \E e \in Email, n \in Name, c \in Code : Register(b, e, n, c)
             \/ SendOTP(b) \/ CreateSession(b) \/ Logout(b)
             \/ \E e \in Email, c \in Code : Verify(b, e, c)
             \/ \E s \in Subject, e \in Email : GoogleCallback(b, s, e)
             \/ CreateGoogleUser(b) \/ LinkGoogleSubject(b)
      PROVE  LinksLoad'
  BY <1>1, <1>2, <1>7, LinksAfter
     DEF Register, SendOTP, CreateSession, Logout, Verify, GoogleCallback, CreateGoogleUser,
         LinkGoogleSubject
<1>8. ASSUME NEW b \in Browser, NEW e \in Email, NEW p \in Browser, Login(b, e, p)
      PROVE  LinksLoad'
  BY <1>1, <1>2, <1>8, LinksAfter DEF Login
<1>9. ASSUME NEW b \in Browser, Refresh(b)
      PROVE  LinksLoad'
  BY <1>1, <1>9, LinksAfter DEF Refresh
<1>10. ASSUME NEW b \in Browser, RefreshUser(b)
       PROVE  LinksLoad'
  BY <1>1, <1>2, <1>10, LinksAfter DEF RefreshUser
<1>11. ASSUME UNCHANGED job
       PROVE  LinksLoad'
  BY <1>1, <1>11, AtIsNot DEF LinksLoad
<1>12. QED
  BY <1>3, <1>4, <1>5, <1>6, <1>7, <1>8, <1>9, <1>10, <1>11
     DEF Next, ExpirePending, ExpireSession

-----------------------------------------------------------------------------
(* The registrations that stand. *)

\* A row goes only for the registration it is of, which is withdrawn with it.
LEMMA PendingStep ==
  ASSUME Typed, LinksLoad, Next, NEW e \in Email, ~\E b \in Browser : CreatePending(b)
  PROVE  /\ withdrawn \subseteq withdrawn'
         /\ \/ pending'[e] = NoRow /\ pending[e] = NoRow
            \/ pending'[e] = NoRow /\ pending[e] # NoRow /\ pending[e].id \in withdrawn'
            \/ pending'[e] # NoRow /\ pending[e] # NoRow /\ pending'[e].id = pending[e].id
<1>1. ASSUME NEW b \in Browser, DeletePending(b)
      PROVE  /\ withdrawn \subseteq withdrawn'
             /\ \/ pending'[e] = pending[e]
                \/ pending'[e] = NoRow /\ pending[e] # NoRow /\ pending[e].id \in withdrawn'
  BY <1>1 DEF DeletePending
<1>2. ASSUME NEW x \in Email, ExpirePending(x)
      PROVE  /\ withdrawn \subseteq withdrawn'
             /\ pending'[e] = NoRow <=> pending[e] = NoRow
             /\ pending[e] # NoRow => pending'[e].id = pending[e].id
  BY <1>2, ExpirePendingTyped DEF ExpirePending, history
<1>3. ASSUME NEW b \in Browser, CreateUser(b)
      PROVE  UNCHANGED <<pending, withdrawn>>
  BY <1>3 DEF CreateUser, MakeAccount, tables, history
<1>4. QED
  BY <1>1, <1>2, <1>3
     DEF Next, Register, SendOTP, Verify, CreateSession, Login, Logout, DeleteSession, Refresh,
         RefreshUser, GoogleCallback, GoogleByEmail, CreateGoogleUser, LinkGoogleSubject,
         ExpireSession, history, tables

LEMMA NextRegistrations ==
  ASSUME Typed, Typed', LinksLoad, LastRegistrationStands, Next
  PROVE  LastRegistrationStands'
<1>1. ASSUME NEW b \in Browser, CreatePending(b)
      PROVE  LastRegistrationStands'
  <2> DEFINE n == Len(regs) + 1
             reg == job[b].reg
  <2>1. reg \in Registration /\ reg.email \in Email /\ Len(regs) \in Nat /\ n <= MaxRegs
    <3>1. reg \in Registration /\ Len(regs) \in Nat /\ n <= MaxRegs
      BY <1>1, AtIsNot, BoundsAssumption DEF CreatePending, Typed, TypeOK
    <3>2. QED
      BY <3>1 DEF Registration
  <2>2. /\ regs' = Append(regs, reg) /\ Len(regs') = n
        /\ regs'[n] = reg /\ \A i \in 1..Len(regs) : regs'[i] = regs[i]
    <3>1. regs' = Append(regs, reg) /\ regs \in Seq(Registration)
      BY <1>1 DEF CreatePending, Typed, TypeOK
    <3>2. QED
      BY <2>1, <3>1
  <2>3. [id |-> n, live |-> TRUE] # NoRow
    <3>1. [id |-> n, live |-> TRUE] \in [id: 1..MaxRegs, live: BOOLEAN]
      BY <2>1
    <3>2. QED
      BY <3>1, NoRowAssumption
  <2>4. /\ pending'[reg.email] = [id |-> n, live |-> TRUE]
        /\ \A e \in Email : e # reg.email => pending'[e] = pending[e]
        /\ withdrawn' = withdrawn
    BY <1>1, <2>1, <2>2 DEF CreatePending, Typed, TypeOK
  <2>5. ASSUME NEW i \in 1..n, \A j \in (i + 1)..n : regs'[j].email # regs'[i].email
        PROVE  IF pending'[regs'[i].email] = NoRow THEN i \in withdrawn'
               ELSE pending'[regs'[i].email].id = i
    <3>1. CASE i = n
      BY <2>2, <2>3, <2>4, <3>1
    <3>2. CASE i # n
      <4>1. i \in 1..Len(regs) /\ n \in (i + 1)..n
        BY <2>1, <3>2
      <4>2. regs[i].email # reg.email /\ regs[i].email \in Email
        <5>1. regs[i] \in Registration
          BY <4>1 DEF Typed, TypeOK
        <5>2. QED
          BY <2>2, <2>5, <4>1, <5>1 DEF Registration
      <4>3. \A j \in (i + 1)..Len(regs) : regs[j].email # regs[i].email
        <5> SUFFICES ASSUME NEW j \in (i + 1)..Len(regs)
                     PROVE  regs[j].email # regs[i].email
          OBVIOUS
        <5>1. j \in (i + 1)..n /\ j \in 1..Len(regs)
          BY <2>1, <4>1
        <5>2. QED
          BY <2>2, <2>5, <4>1, <5>1
      <4>4. IF pending[regs[i].email] = NoRow THEN i \in withdrawn
            ELSE pending[regs[i].email].id = i
        BY <4>1, <4>3 DEF LastRegistrationStands
      <4>5. QED
        BY <2>2, <2>4, <4>1, <4>2, <4>4
    <3>3. QED
      BY <3>1, <3>2
  <2>6. QED
    BY <2>2, <2>5 DEF LastRegistrationStands
<1>2. CASE ~\E b \in Browser : CreatePending(b)
  <2>1. UNCHANGED regs
    BY <1>2, RegsStep
  <2>2. ASSUME NEW i \in 1..Len(regs), \A j \in (i + 1)..Len(regs) : regs[j].email # regs[i].email
        PROVE  IF pending'[regs[i].email] = NoRow THEN i \in withdrawn'
               ELSE pending'[regs[i].email].id = i
    <3>1. regs[i] \in Registration
      BY DEF Typed, TypeOK
    <3>2. regs[i].email \in Email
      BY <3>1 DEF Registration
    <3>3. IF pending[regs[i].email] = NoRow THEN i \in withdrawn
          ELSE pending[regs[i].email].id = i
      BY <2>2 DEF LastRegistrationStands
    <3>4. QED
      BY <1>2, <3>2, <3>3, PendingStep
  <2>3. QED
    BY <2>1, <2>2 DEF LastRegistrationStands
<1>3. QED
  BY <1>1, <1>2

LEMMA NextIInv == IInv /\ [Next]_vars => IInv'
<1>1. CASE IInv /\ Next
  <2>1. Typed'
    BY <1>1, NextTyped DEF IInv
  <2>2. QED
    BY <1>1, <2>1, NextOrigins, NextLinks, NextRegistrations DEF IInv
<1>2. CASE IInv /\ UNCHANGED vars
  <2> USE <1>2 DEF vars, tables, history
  <2>1. Typed'
    BY DEF IInv, Typed, TypeOK, JobOK
  <2>2. OriginsAreMade' /\ LinksLoad' /\ AccountIsOneRegistration' /\ LastRegistrationStands'
    BY DEF IInv, OriginsAreMade, LinksLoad, Loads, AccountIsOneRegistration,
           LastRegistrationStands
  <2>3. QED
    BY <2>1, <2>2 DEF IInv
<1>3. QED
  BY <1>1, <1>2

LEMMA Invariant == Spec => []IInv
  BY InitIInv, NextIInv, PTL DEF Spec

-----------------------------------------------------------------------------
(* Theorems. *)

\* The tables and every request stay well formed; in particular a request never goes on with
\* a registration, a token or an email that is not one.
THEOREM TypeCorrect == Spec => []TypeOK
<1>1. IInv => TypeOK
  BY DEF IInv, Typed
<1>2. QED
  BY <1>1, Invariant, PTL

\* An account has the name and the password of one registration, or comes from Google.
THEOREM OneRegistrationCorrect == Spec => []AccountIsOneRegistration
<1>1. IInv => AccountIsOneRegistration
  BY DEF IInv
<1>2. QED
  BY <1>1, Invariant, PTL

\* The last registration of an email is pending until it is withdrawn itself.
THEOREM LastCorrect == Spec => []LastRegistrationStands
<1>1. IInv => LastRegistrationStands
  BY DEF IInv
<1>2. QED
  BY <1>1, Invariant, PTL

\* An account is never changed.
THEOREM AccountsStandCorrect == Spec => AccountsStand
<1>1. IInv /\ [Next]_vars =>
        [\A e \in Email : accounts[e] # NoRow => accounts'[e] = accounts[e]]_vars
  BY AccountsStay DEF IInv
<1>2. QED
  BY <1>1, Invariant, PTL DEF Spec, AccountsStand
=============================================================================
