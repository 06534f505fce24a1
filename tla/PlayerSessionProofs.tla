------------------------ MODULE PlayerSessionProofs ------------------------
(***************************************************************************)
(* Proofs about PlayerSession, for any number of players, accounts and     *)
(* requests under way, with a unique index on login or without.            *)
(***************************************************************************)
EXTENDS PlayerSession, FiniteSetTheorems, TLAPS

Models ==
  [type : {"PlayerAnonymous", "PlayerBase"}, userID : Nat,
   login : Logins \cup {Unset}, password : Passwords \cup {Unset}]

Outcomes == {"none", "pending", "success", "failure", "unmatched"}

\* Each coroutine has a request of its own, which is still to be answered.
OneCallPerJob ==
  /\ \A p \in Players, j \in Jobs : j >= job[p] => answer[p][j] = "none"
  /\ \A c \in calls : c.job < job[c.player] /\ answer[c.player][c.job] = "pending"
  /\ \A c, d \in calls : c.player = d.player /\ c.job = d.job => c = d

\* The ID in p's model is of an account that p's client proved to be its own.
ProvenID(p) ==
  \E row \in db, claim \in claims[p] : row.id = model[p].userID /\ Proves(claim, row)

\* p's client presented the login and the password of cred.
Presented(p, cred) ==
  \E claim \in claims[p] : claim.login = cred.login /\ claim.password = cred.password

\* What a coroutine may find out, and write once it is resumed, was proven.
CallsProven ==
  /\ \A token \in tokens : \E row \in db : row.id = token.id
  /\ \A p \in Players : model[p].login # Unset => Presented(p, model[p])
  /\ \A c \in calls :
       /\ model[c.player].login # Unset
       /\ Presented(c.player, c.query)
       /\ c.await \in {"Login", "Insert"} =>
            \A id \in c.found : \E row \in db :
              row.id = id /\ row.login = c.query.login /\ row.password = c.query.password
       /\ c.await = "Token" => ProvenID(c.player)

\* A player that is not mixed has one coroutine at most, whose query is about
\* what the model holds.
Unmixed ==
  \A p \in Players \ mixed :
    /\ \A c, d \in Suspended(p) : c = d
    /\ \A c \in Suspended(p) :
         /\ model[p].type = "PlayerAnonymous"
         /\ model[p].login = c.query.login /\ model[p].password = c.query.password
         /\ c.await = "Token" => c.query \in db /\ model[p].userID = c.query.id

IInv ==
  /\ TypeOK /\ IsFiniteSet(db)
  /\ OneCallPerJob
  /\ CallsProven /\ UserProven
  /\ Unmixed /\ IdentityIntact

-----------------------------------------------------------------------------
\* The assumption, for SMT to use.
LEMMA Constants == MaxJobs \in Nat /\ Unset \notin Logins /\ Unset \notin Passwords
<1>1. MaxJobs \in Nat /\ Unset \notin Logins \cup Passwords
  BY PlayerSessionAssumption, Zenon DEF PlayerSessionAssumption
<1>2. QED
  BY <1>1

LEMMA OneInRange == 1 \in 1 .. MaxJobs + 1
BY Constants

LEMMA StartedFields ==
  ASSUME NEW m \in Models, NEW await, NEW creds \in Credentials(Nat)
  PROVE  LET n == Started(m, await, creds)
         IN  /\ n \in Models /\ n.type = m.type
             /\ n.userID = IF await = "Token" THEN creds.id ELSE m.userID
             /\ n.login = creds.login /\ n.password = creds.password
BY DEF Models, Started, Credentials

LEMMA LoggedInFields ==
  ASSUME NEW m \in Models, NEW id \in Nat
  PROVE  LET n == LoggedIn(m, id)
         IN  /\ n \in Models /\ n.type = "PlayerBase" /\ n.userID = id
             /\ n.login = m.login /\ n.password = m.password
BY DEF Models, LoggedIn

LEMMA IdentifiedFields ==
  ASSUME NEW m \in Models, NEW id \in Nat
  PROVE  LET n == Identified(m, id)
         IN  /\ n \in Models /\ n.type = m.type /\ n.userID = id
             /\ n.login = m.login /\ n.password = m.password
BY DEF Models, Identified

LEMMA InitIInv == Init => IInv
<1> SUFFICES ASSUME Init PROVE IInv
  OBVIOUS
<1>1. TypeOK
  <2>1. model \in [Players -> Models]
    BY DEF Init, NewModel, Models
  <2>2. job \in [Players -> 1 .. MaxJobs + 1]
    BY OneInRange DEF Init
  <2>3. answer \in [Players -> [Jobs -> Outcomes]]
    BY DEF Init, Outcomes
  <2>4. QED
    BY <2>1, <2>2, <2>3 DEF Init, TypeOK, Models, Outcomes
<1>2. IsFiniteSet(db)
  BY FS_EmptySet DEF Init
<1>3. OneCallPerJob
  <2>1. \A p \in Players, j \in Jobs : answer[p][j] = "none"
    BY DEF Init
  <2>2. calls = {}
    BY DEF Init
  <2>3. QED
    BY <2>1, <2>2 DEF OneCallPerJob
<1>4. CallsProven /\ UserProven
  BY DEF Init, CallsProven, UserProven, NewModel
<1>5. Unmixed /\ IdentityIntact
  BY DEF Init, Unmixed, IdentityIntact, Suspended, NewModel
<1>6. QED
  BY <1>1, <1>2, <1>3, <1>4, <1>5 DEF IInv

\* An answer changes that of one request, which is sure to be that if the
\* client is connected.
LEMMA AnswerFacts ==
  ASSUME TypeOK, NEW p \in Players, NEW j \in Jobs, NEW outcome \in Outcomes,
         Answer(p, j, outcome)
  PROVE  /\ answer' \in [Players -> [Jobs -> Outcomes]]
         /\ \A q \in Players, k \in Jobs :
              q # p \/ k # j => answer'[q][k] = answer[q][k]
         /\ status[p] = "connected" => answer'[p][j] = outcome
<1>1. answer \in [Players -> [Jobs -> Outcomes]]
  BY DEF TypeOK, Outcomes
<1>2. PICK o \in Outcomes :
        /\ answer' = [answer EXCEPT ![p] = [answer[p] EXCEPT ![j] = o]]
        /\ status[p] = "connected" => o = outcome
  <2>1. CASE status[p] = "connected"
    BY <2>1 DEF Answer
  <2>2. CASE status[p] # "connected"
    BY <2>2, <1>1 DEF Answer
  <2>3. QED
    BY <2>1, <2>2
<1>3. answer[p] \in [Jobs -> Outcomes]
  BY <1>1
<1>4. QED
  BY <1>1, <1>2, <1>3

\* The fields of a call.
LEMMA CallFacts ==
  ASSUME NEW p \in Players, NEW j \in Jobs,
         NEW await \in {"Register", "Insert", "Login", "Token"}, NEW creds \in Credentials(Nat)
  PROVE  /\ Call(p, j, await, creds) \in CallType
         /\ Call(p, j, await, creds).player = p /\ Call(p, j, await, creds).job = j
         /\ Call(p, j, await, creds).await = await /\ Call(p, j, await, creds).query = creds
         /\ Call(p, j, await, creds).found = {}
BY DEF Call, CallType

LEMMA CallTypeFacts ==
  ASSUME TypeOK, NEW c \in calls
  PROVE  /\ c \in CallType /\ c.player \in Players /\ c.job \in Jobs
         /\ c.await \in {"Register", "Insert", "Login", "Token"}
         /\ c.query \in Credentials(Nat) /\ c.found \in SUBSET (Nat \ {0})
         /\ c.state \in {"sent", "done", "failed"}
BY DEF TypeOK, CallType

-----------------------------------------------------------------------------
\* What Start does.
LEMMA StartFacts ==
  ASSUME TypeOK, NEW p \in Players, NEW await \in {"Register", "Login", "Token"},
         NEW creds \in Credentials(Nat), Request(p), Start(p, await, creds)
  PROVE  /\ model' \in [Players -> Models]
         /\ \A q \in Players \ {p} : model'[q] = model[q]
         /\ model'[p].type = model[p].type
         /\ model'[p].login = creds.login /\ model'[p].password = creds.password
         /\ model'[p].userID = IF await = "Token" THEN creds.id ELSE model[p].userID
         /\ claims' = [claims EXCEPT ![p] = claims[p] \cup {creds}]
         /\ claims' \in [Players -> SUBSET Credentials(Nat)]
<1>1. /\ model \in [Players -> Models] /\ creds.login \in Logins /\ creds.password \in Passwords
      /\ creds.id \in Nat /\ job[p] \in Jobs /\ claims \in [Players -> SUBSET Credentials(Nat)]
  BY DEF TypeOK, Models, Credentials, Request
<1>2. PICK m \in Models :
        /\ m.type = model[p].type /\ m.login = creds.login /\ m.password = creds.password
        /\ m.userID = IF await = "Token" THEN creds.id ELSE model[p].userID
        /\ model' = [model EXCEPT ![p] = m]
  <2>1. model[p] \in Models
    BY <1>1
  <2>2. model' = [model EXCEPT ![p] = Started(model[p], await, creds)]
    BY DEF Start
  <2>3. PICK n : n = Started(model[p], await, creds)
    OBVIOUS
  <2>4. /\ n \in Models /\ n.type = model[p].type
        /\ n.userID = IF await = "Token" THEN creds.id ELSE model[p].userID
        /\ n.login = creds.login /\ n.password = creds.password
    BY <2>1, <2>3, StartedFields
  <2>5. model' = [model EXCEPT ![p] = n]
    BY <2>2, <2>3
  <2>6. QED
    BY <2>4, <2>5
<1>3. /\ model' \in [Players -> Models] /\ model'[p] = m
      /\ \A q \in Players \ {p} : model'[q] = model[q]
  BY <1>1, <1>2
<1>4. /\ claims' = [claims EXCEPT ![p] = claims[p] \cup {creds}]
      /\ claims' \in [Players -> SUBSET Credentials(Nat)]
  BY <1>1 DEF Start
<1>5. QED
  BY <1>1, <1>2, <1>3, <1>4

\* What Request leaves as it is, and the job that it takes.
LEMMA RequestFacts ==
  ASSUME TypeOK, NEW p \in Players, Request(p)
  PROVE  /\ status[p] = "connected" /\ job[p] \in Jobs
         /\ job' = [job EXCEPT ![p] = job[p] + 1]
         /\ job' \in [Players -> 1 .. MaxJobs + 1]
         /\ status' = status /\ db' = db /\ tokens' = tokens
<1>1. job[p] \in Jobs /\ job' = [job EXCEPT ![p] = job[p] + 1]
      /\ job \in [Players -> 1 .. MaxJobs + 1]
  BY DEF Request, TypeOK
<1>2. job[p] + 1 \in 1 .. MaxJobs + 1
  BY <1>1, Constants DEF Jobs
<1>3. QED
  BY <1>1, <1>2 DEF Request

\* A request that is answered, or will be, takes a job that no coroutine has.
LEMMA OtherJobs ==
  ASSUME TypeOK, OneCallPerJob, NEW p \in Players, NEW outcome \in Outcomes,
         Request(p), Answer(p, job[p], outcome)
  PROVE  /\ \A q \in Players, j \in Jobs : j >= job'[q] => answer'[q][j] = "none"
         /\ \A c \in calls :
              c.job < job'[c.player] /\ answer'[c.player][c.job] = "pending"
         /\ \A c \in calls : c.player # p \/ c.job # job[p]
<1>1. /\ status[p] = "connected" /\ job[p] \in Jobs
      /\ job' = [job EXCEPT ![p] = job[p] + 1]
      /\ job' \in [Players -> 1 .. MaxJobs + 1]
  BY RequestFacts
<1>2. \A q \in Players, k \in Jobs : q # p \/ k # job[p] => answer'[q][k] = answer[q][k]
  BY <1>1, AnswerFacts
<1>3. \A q \in Players, j \in Jobs : j >= job'[q] => answer'[q][j] = "none"
  <2>1. SUFFICES ASSUME NEW q \in Players, NEW j \in Jobs, j >= job'[q]
                 PROVE  answer'[q][j] = "none"
    OBVIOUS
  <2>2. job \in [Players -> 1 .. MaxJobs + 1]
    BY DEF TypeOK
  <2>3. job'[q] >= job[q] /\ (q = p => job'[q] > job[p])
    BY <2>2, <1>1 DEF Jobs
  <2>4. job[q] \in Int /\ job'[q] \in Int /\ j \in Int /\ job[p] \in Int
    BY <2>2, <1>1 DEF Jobs
  <2>5. j >= job[q] /\ (q # p \/ j # job[p])
    BY <2>1, <2>3, <2>4
  <2>6. QED
    BY <2>5, <1>2 DEF OneCallPerJob
<1>4. ASSUME NEW c \in calls
      PROVE  /\ c.job < job'[c.player] /\ answer'[c.player][c.job] = "pending"
             /\ c.player # p \/ c.job # job[p]
  <2>1. /\ c.player \in Players /\ c.job \in Jobs /\ c.job < job[c.player]
        /\ answer[c.player][c.job] = "pending"
    BY CallTypeFacts DEF OneCallPerJob
  <2>2. c.player # p \/ c.job # job[p]
    BY <2>1, <1>1 DEF Jobs
  <2>3. job \in [Players -> 1 .. MaxJobs + 1]
    BY DEF TypeOK
  <2>4. job[c.player] <= job'[c.player]
    BY <2>1, <2>3, <1>1 DEF Jobs
  <2>5. job[c.player] \in Int /\ job'[c.player] \in Int /\ c.job \in Int
    BY <2>1, <2>3, <1>1 DEF Jobs
  <2>6. QED
    BY <2>1, <2>2, <2>4, <2>5, <1>2
<1>5. QED
  BY <1>3, <1>4

\* A request that starts no coroutine.
LEMMA RefusedStep ==
  ASSUME IInv, NEW p \in Players, Refused(p) \/ Throws(p)
  PROVE  IInv'
<1> USE DEF IInv
<1>1. PICK outcome \in Outcomes : Answer(p, job[p], outcome)
  BY DEF Refused, Throws, Outcomes
<1>2. Request(p) /\ UNCHANGED <<model, calls, claims, mixed>>
  BY DEF Refused, Throws
<1>3. /\ status[p] = "connected" /\ job[p] \in Jobs
      /\ job' = [job EXCEPT ![p] = job[p] + 1]
      /\ job' \in [Players -> 1 .. MaxJobs + 1]
      /\ status' = status /\ db' = db /\ tokens' = tokens
  BY <1>2, RequestFacts
<1>4. /\ answer' \in [Players -> [Jobs -> Outcomes]]
      /\ \A q \in Players, k \in Jobs : q # p \/ k # job[p] => answer'[q][k] = answer[q][k]
  BY <1>1, <1>3, AnswerFacts
<1>5. TypeOK'
  BY <1>2, <1>3, <1>4 DEF TypeOK, Outcomes
<1>6. OneCallPerJob'
  BY <1>1, <1>2, OtherJobs DEF OneCallPerJob
<1>7. CallsProven' /\ UserProven'
  BY <1>2, <1>3 DEF CallsProven, UserProven, Presented, ProvenID
<1>8. Unmixed' /\ IdentityIntact'
  BY <1>2, <1>3 DEF Unmixed, IdentityIntact, Suspended
<1>9. IsFiniteSet(db)'
  BY <1>3
<1>10. QED
  BY <1>5, <1>6, <1>7, <1>8, <1>9

\* Register or Login starts a coroutine.
LEMMA StartStep ==
  ASSUME IInv, NEW p \in Players, NEW await \in {"Register", "Login", "Token"}, NEW creds,
         RegisterOrLogin(p, await, creds)
  PROVE  IInv'
<1> USE DEF IInv
<1>1. /\ Request(p) /\ Start(p, await, creds) /\ model[p].type = "PlayerAnonymous"
      /\ Answer(p, job[p], "pending")
  BY DEF RegisterOrLogin, Start
<1>2. creds \in Credentials(Nat) /\ (await = "Token" => creds \in tokens /\ creds \in Accounts)
  <2>1. CASE await = "Token"
    BY <2>1 DEF RegisterOrLogin, TypeOK, Accounts, Credentials
  <2>2. CASE await # "Token"
    BY <2>2 DEF RegisterOrLogin, Credentials
  <2>3. QED
    BY <2>1, <2>2
<1>3. /\ status[p] = "connected" /\ job[p] \in Jobs
      /\ job' = [job EXCEPT ![p] = job[p] + 1]
      /\ job' \in [Players -> 1 .. MaxJobs + 1]
      /\ status' = status /\ db' = db /\ tokens' = tokens
  BY <1>1, RequestFacts
<1>4. "pending" \in Outcomes
  BY DEF Outcomes
<1>5. /\ answer' \in [Players -> [Jobs -> Outcomes]] /\ answer'[p][job[p]] = "pending"
  BY <1>1, <1>3, <1>4, AnswerFacts
<1>6. /\ model' \in [Players -> Models]
      /\ \A q \in Players \ {p} : model'[q] = model[q]
      /\ model'[p].type = model[p].type
      /\ model'[p].login = creds.login /\ model'[p].password = creds.password
      /\ model'[p].userID = IF await = "Token" THEN creds.id ELSE model[p].userID
      /\ claims' = [claims EXCEPT ![p] = claims[p] \cup {creds}]
      /\ claims' \in [Players -> SUBSET Credentials(Nat)]
  BY <1>1, <1>2, StartFacts
<1>7. PICK k \in CallType :
        /\ calls' = calls \cup {k}
        /\ k.player = p /\ k.job = job[p] /\ k.await = await
        /\ k.query = creds /\ k.found = {}
  <2>1. calls' = calls \cup {Call(p, job[p], await, creds)}
    BY <1>1 DEF Start
  <2>2. PICK k : k = Call(p, job[p], await, creds)
    OBVIOUS
  <2>3. /\ k \in CallType /\ k.player = p /\ k.job = job[p] /\ k.await = await
        /\ k.query = creds /\ k.found = {}
    BY <1>2, <1>3, <2>2, CallFacts
  <2>4. QED
    BY <2>1, <2>2, <2>3
<1>8. mixed' = IF Suspended(p) # {} \/ (await = "Token" /\ creds \notin db)
               THEN mixed \cup {p} ELSE mixed
  BY <1>1 DEF Start
<1>9. creds.login \in Logins /\ creds.login # Unset
  BY <1>2, Constants DEF Credentials
<1>10. TypeOK'
  BY <1>3, <1>5, <1>6, <1>7, <1>8 DEF TypeOK, Outcomes, Models
<1>11. OneCallPerJob'
  <2>1. /\ \A q \in Players, j \in Jobs : j >= job'[q] => answer'[q][j] = "none"
        /\ \A c \in calls : c.job < job'[c.player] /\ answer'[c.player][c.job] = "pending"
        /\ \A c \in calls : c.player # p \/ c.job # job[p]
    BY <1>1, <1>4, OtherJobs
  <2>2. k.job < job'[k.player] /\ answer'[k.player][k.job] = "pending"
    BY <1>3, <1>5, <1>7 DEF Jobs, TypeOK
  <2>3. \A c \in calls : c.player = k.player /\ c.job = k.job => c = k
    BY <2>1, <1>7
  <2>4. QED
    BY <2>1, <2>2, <2>3, <1>7 DEF OneCallPerJob
<1>12. \A q \in Players : claims[q] \subseteq claims'[q]
  BY <1>6 DEF TypeOK
<1>13. creds \in claims'[p]
  BY <1>6 DEF TypeOK
<1>14. \A q \in Players \ {p} : ProvenID(q) => ProvenID(q)'
  BY <1>3, <1>6, <1>12 DEF ProvenID
<1>15. ProvenID(p) \/ await = "Token" => ProvenID(p)'
  <2>1. CASE await = "Token"
    <3>1. PICK row \in db : row.id = creds.id
      BY <2>1, <1>2 DEF CallsProven
    <3>2. Proves(creds, row)
      BY <3>1 DEF Proves
    <3>3. QED
      BY <3>1, <3>2, <2>1, <1>3, <1>6, <1>13 DEF ProvenID
  <2>2. CASE await # "Token"
    BY <2>2, <1>3, <1>6, <1>12 DEF ProvenID
  <2>3. QED
    BY <2>1, <2>2
<1>16. CallsProven'
  <2>1. \A token \in tokens' : \E row \in db' : row.id = token.id
    BY <1>3 DEF CallsProven
  <2>2. ASSUME NEW q \in Players, model'[q].login # Unset
        PROVE  Presented(q, model[q])'
    <3>1. CASE q = p
      BY <3>1, <1>6, <1>13 DEF Presented
    <3>2. CASE q # p
      BY <2>2, <3>2, <1>6, <1>12 DEF CallsProven, Presented
    <3>3. QED
      BY <3>1, <3>2
  <2>3. ASSUME NEW c \in calls
        PROVE  /\ model'[c.player].login # Unset
               /\ Presented(c.player, c.query)'
               /\ c.await \in {"Login", "Insert"} =>
                    \A id \in c.found : \E row \in db' :
                      row.id = id /\ row.login = c.query.login /\ row.password = c.query.password
               /\ c.await = "Token" => ProvenID(c.player)'
    <3>1. c.player \in Players
      BY CallTypeFacts
    <3>2. model'[c.player].login # Unset
      BY <3>1, <1>6, <1>9 DEF CallsProven
    <3>3. Presented(c.player, c.query)'
      BY <3>1, <1>12 DEF CallsProven, Presented
    <3>4. c.await = "Token" => ProvenID(c.player)'
      <4>1. CASE c.player = p
        BY <4>1, <1>15 DEF CallsProven
      <4>2. CASE c.player # p
        BY <4>2, <3>1, <1>14 DEF CallsProven
      <4>3. QED
        BY <4>1, <4>2
    <3>5. QED
      BY <3>2, <3>3, <3>4, <1>3 DEF CallsProven
  <2>4. /\ model'[k.player].login # Unset /\ Presented(k.player, k.query)'
        /\ k.found = {} /\ (k.await = "Token" => ProvenID(k.player)')
    <3>1. Presented(p, creds)'
      BY <1>13 DEF Presented
    <3>2. QED
      BY <3>1, <1>6, <1>7, <1>9, <1>15
  <2>5. QED
    BY <2>1, <2>2, <2>3, <2>4, <1>7 DEF CallsProven
<1>17. UserProven'
  BY <1>1, <1>3, <1>6, <1>12 DEF UserProven
<1>18. Unmixed' /\ IdentityIntact'
  <2>1. ASSUME NEW q \in Players \ mixed', q # p
        PROVE  /\ q \in Players \ mixed /\ Suspended(q)' = Suspended(q) /\ model'[q] = model[q]
    BY <2>1, <1>6, <1>7, <1>8 DEF Suspended
  <2>2. ASSUME p \notin mixed'
        PROVE  /\ Suspended(p) = {} /\ (await = "Token" => creds \in db)
    BY <2>2, <1>8
  <2>3. ASSUME p \notin mixed'
        PROVE  Suspended(p)' = {k}
    BY <2>2, <2>3, <1>7 DEF Suspended
  <2>4. Unmixed'
    <3>1. SUFFICES ASSUME NEW q \in Players \ mixed'
                   PROVE  /\ \A c, d \in Suspended(q)' : c = d
                          /\ \A c \in Suspended(q)' :
                               /\ model'[q].type = "PlayerAnonymous"
                               /\ model'[q].login = c.query.login
                               /\ model'[q].password = c.query.password
                               /\ c.await = "Token" => c.query \in db'
                                                       /\ model'[q].userID = c.query.id
      BY DEF Unmixed
    <3>2. CASE q # p
      BY <3>2, <2>1, <1>3 DEF Unmixed
    <3>3. CASE q = p
      BY <3>3, <2>2, <2>3, <1>1, <1>3, <1>6, <1>7
    <3>4. QED
      BY <3>2, <3>3
  <2>5. IdentityIntact'
    BY <2>1, <1>1, <1>3, <1>6 DEF IdentityIntact
  <2>6. QED
    BY <2>4, <2>5
<1>19. QED
  BY <1>3, <1>10, <1>11, <1>16, <1>17, <1>18

-----------------------------------------------------------------------------
\* The websocket connection comes or goes.
LEMMA ConnectionStep ==
  ASSUME IInv, NEW p \in Players, OnClientConnected(p) \/ OnClientDisconnected(p)
  PROVE  IInv'
<1>1. UNCHANGED <<model, calls, db, tokens, job, answer, claims, mixed>>
  BY DEF OnClientConnected, OnClientDisconnected
<1>2. status' \in [Players -> {"new", "connected", "disconnected"}]
  BY DEF OnClientConnected, OnClientDisconnected, IInv, TypeOK
<1>3. TypeOK' /\ IsFiniteSet(db)'
  BY <1>1, <1>2 DEF IInv, TypeOK
<1>4. OneCallPerJob' /\ CallsProven' /\ UserProven'
  BY <1>1 DEF IInv, OneCallPerJob, CallsProven, UserProven, Presented, ProvenID
<1>5. Unmixed' /\ IdentityIntact'
  BY <1>1 DEF IInv, Unmixed, IdentityIntact, Suspended
<1>6. QED
  BY <1>3, <1>4, <1>5 DEF IInv

\* What the database may do.
LEMMA ExecuteFacts ==
  ASSUME IInv, NEW c \in calls, Execute(c)
  PROVE  /\ db \subseteq db' /\ db' \subseteq Accounts /\ IsFiniteSet(db')
         /\ \E d \in CallType :
              /\ calls' = (calls \ {c}) \cup {d}
              /\ d.player = c.player /\ d.job = c.job /\ d.await = c.await /\ d.query = c.query
              /\ d.await \in {"Login", "Insert"} =>
                   \A id \in d.found : \E row \in db' :
                     row.id = id /\ row.login = d.query.login /\ row.password = d.query.password
<1>1. /\ c \in CallType /\ c.query \in Credentials(Nat)
      /\ c.await \in {"Register", "Insert", "Login", "Token"}
  BY CallTypeFacts DEF IInv
<1>2. db \subseteq Accounts /\ IsFiniteSet(db)
  BY DEF IInv, TypeOK
<1>3. ASSUME NEW state \in {"done", "failed"}, NEW found \in SUBSET (Nat \ {0}),
             Answered(c, state, found),
             c.await \in {"Login", "Insert"} =>
               \A id \in found : \E row \in db' :
                 row.id = id /\ row.login = c.query.login /\ row.password = c.query.password
      PROVE  \E d \in CallType :
              /\ calls' = (calls \ {c}) \cup {d}
              /\ d.player = c.player /\ d.job = c.job /\ d.await = c.await /\ d.query = c.query
              /\ d.await \in {"Login", "Insert"} =>
                   \A id \in d.found : \E row \in db' :
                     row.id = id /\ row.login = d.query.login /\ row.password = d.query.password
  <2>1. PICK d : d = [c EXCEPT !.state = state, !.found = found]
    OBVIOUS
  <2>2. /\ d \in CallType /\ d.player = c.player /\ d.job = c.job
        /\ d.await = c.await /\ d.query = c.query /\ d.found = found
    BY <1>1, <2>1 DEF CallType
  <2>3. calls' = (calls \ {c}) \cup {d}
    BY <1>3, <2>1 DEF Answered
  <2>4. QED
    BY <1>3, <2>2, <2>3
<1>4. CASE ExecuteSelect(c)
  <2>1. DEFINE found == {row.id : row \in {r \in db : Matches(c, r)}}
  <2>2. Answered(c, "done", found) /\ db' = db /\ c.await # "Insert"
    BY <1>4 DEF ExecuteSelect
  <2>3. found \in SUBSET (Nat \ {0})
    BY <1>2 DEF Accounts, Credentials
  <2>4. c.await = "Login" =>
          \A id \in found : \E row \in db' :
            row.id = id /\ row.login = c.query.login /\ row.password = c.query.password
    BY <2>2 DEF Matches
  <2>5. QED
    BY <1>2, <1>3, <2>2, <2>3, <2>4
<1>5. CASE ExecuteInsert(c)
  <2>1. PICK id \in 1 .. Cardinality(db) + 1 :
          db' = db \cup {[c.query EXCEPT !.id = id]} /\ Answered(c, "done", {id})
    BY <1>5 DEF ExecuteInsert
  <2>2. id \in Nat \ {0}
    BY <1>2, FS_CardinalityType
  <2>3. PICK row : row = [c.query EXCEPT !.id = id]
    OBVIOUS
  <2>4. /\ row \in Accounts /\ row.id = id
        /\ row.login = c.query.login /\ row.password = c.query.password
    BY <1>1, <2>2, <2>3 DEF Accounts, Credentials
  <2>5. IsFiniteSet(db') /\ db' = db \cup {row}
    BY <1>2, <2>1, <2>3, FS_AddElement
  <2>6. {id} \in SUBSET (Nat \ {0})
    BY <2>2
  <2>7. QED
    BY <1>2, <1>3, <2>1, <2>4, <2>5, <2>6
<1>6. CASE Fail(c)
  <2>1. Answered(c, "failed", {}) /\ db' = db
    BY <1>6 DEF Fail
  <2>2. QED
    BY <1>2, <1>3, <2>1
<1>7. QED
  BY <1>4, <1>5, <1>6 DEF Execute

\* The database answers or fails a query.
LEMMA ExecuteStep ==
  ASSUME IInv, NEW c \in calls, Execute(c)
  PROVE  IInv'
<1>1. db \subseteq db' /\ db' \subseteq Accounts /\ IsFiniteSet(db')
  BY ExecuteFacts
<1>2. PICK d \in CallType :
        /\ calls' = (calls \ {c}) \cup {d}
        /\ d.player = c.player /\ d.job = c.job /\ d.await = c.await /\ d.query = c.query
        /\ d.await \in {"Login", "Insert"} =>
             \A id \in d.found : \E row \in db' :
               row.id = id /\ row.login = d.query.login /\ row.password = d.query.password
  BY ExecuteFacts
<1>3. UNCHANGED <<status, model, tokens, job, answer, claims, mixed>>
  BY DEF Execute
<1>4. TypeOK'
  BY <1>1, <1>2, <1>3 DEF IInv, TypeOK
<1>5. OneCallPerJob'
  BY <1>2, <1>3 DEF IInv, OneCallPerJob
<1>6. CallsProven'
  <2>1. \A token \in tokens' : \E row \in db' : row.id = token.id
    BY <1>1, <1>3 DEF IInv, CallsProven
  <2>2. \A p \in Players : model'[p].login # Unset => Presented(p, model[p])'
    BY <1>3 DEF IInv, CallsProven, Presented
  <2>3. ASSUME NEW k \in calls
        PROVE  /\ model'[k.player].login # Unset /\ Presented(k.player, k.query)'
               /\ k.await = "Token" => ProvenID(k.player)'
    BY <1>1, <1>3 DEF IInv, CallsProven, Presented, ProvenID
  <2>4. ASSUME NEW k \in calls, k.await \in {"Login", "Insert"}, NEW id \in k.found
        PROVE  \E row \in db' :
                 row.id = id /\ row.login = k.query.login /\ row.password = k.query.password
    BY <1>1, <2>4 DEF IInv, CallsProven
  <2>5. /\ model'[d.player].login # Unset /\ Presented(d.player, d.query)'
        /\ d.await = "Token" => ProvenID(d.player)'
    <3>1. d.player = c.player /\ d.query = c.query /\ d.await = c.await
      BY <1>2
    <3>2. QED
      BY <3>1, <2>3
  <2>6. QED
    BY <1>2, <2>1, <2>2, <2>3, <2>4, <2>5 DEF CallsProven
<1>7. UserProven' /\ IdentityIntact'
  BY <1>1, <1>3 DEF IInv, UserProven, IdentityIntact
<1>8. Unmixed'
  <2>1. SUFFICES ASSUME NEW p \in Players \ mixed
                 PROVE  /\ \A k, m \in Suspended(p)' : k = m
                        /\ \A k \in Suspended(p)' :
                             /\ model[p].type = "PlayerAnonymous"
                             /\ model[p].login = k.query.login
                             /\ model[p].password = k.query.password
                             /\ k.await = "Token" => k.query \in db'
                                                     /\ model[p].userID = k.query.id
    BY <1>3 DEF Unmixed
  <2>2. CASE p = c.player
    <3>1. c \in Suspended(p) /\ \A k, m \in Suspended(p) : k = m
      BY <2>2 DEF IInv, Unmixed, Suspended
    <3>2. Suspended(p)' = {d}
      BY <2>2, <3>1, <1>2 DEF Suspended
    <3>3. QED
      BY <3>1, <3>2, <1>1, <1>2 DEF IInv, Unmixed
  <2>3. CASE p # c.player
    <3>1. Suspended(p)' = Suspended(p)
      BY <2>3, <1>2 DEF Suspended
    <3>2. QED
      BY <3>1, <1>1 DEF IInv, Unmixed
  <2>4. QED
    BY <2>2, <2>3
<1>9. QED
  BY <1>1, <1>4, <1>5, <1>6, <1>7, <1>8 DEF IInv

-----------------------------------------------------------------------------
\* A call that is over leaves the jobs of the others to them.
LEMMA JobOver ==
  ASSUME TypeOK, OneCallPerJob, NEW c \in calls, NEW outcome \in Outcomes,
         Answer(c.player, c.job, outcome), calls' = calls \ {c}, job' = job
  PROVE  OneCallPerJob' /\ answer' \in [Players -> [Jobs -> Outcomes]]
<1>1. /\ c.player \in Players /\ c.job \in Jobs
      /\ c.job < job[c.player] /\ job[c.player] \in Int /\ c.job \in Int
  BY CallTypeFacts DEF OneCallPerJob, TypeOK, Jobs
<1>2. PICK p, j : p = c.player /\ j = c.job
  OBVIOUS
<1>3. /\ answer' \in [Players -> [Jobs -> Outcomes]]
      /\ \A q \in Players, k \in Jobs : q # p \/ k # j => answer'[q][k] = answer[q][k]
  BY <1>1, <1>2, AnswerFacts
<1>4. ASSUME NEW q \in Players, NEW k \in Jobs, k >= job'[q]
      PROVE  answer'[q][k] = "none"
  <2>1. q # p \/ k # j
    BY <1>1, <1>2, <1>4 DEF Jobs
  <2>2. QED
    BY <1>3, <1>4, <2>1 DEF OneCallPerJob
<1>5. ASSUME NEW d \in calls'
      PROVE  d.job < job'[d.player] /\ answer'[d.player][d.job] = "pending"
  <2>1. d \in calls /\ d.player \in Players /\ d.job \in Jobs /\ d # c
    BY CallTypeFacts
  <2>2. d.player # p \/ d.job # j
    BY <2>1, <1>2 DEF OneCallPerJob
  <2>3. QED
    BY <2>1, <2>2, <1>3 DEF OneCallPerJob
<1>6. QED
  BY <1>3, <1>4, <1>5 DEF OneCallPerJob

\* A coroutine gives up.
LEMMA GiveUpStep ==
  ASSUME IInv, NEW c \in calls, GiveUp(c), UNCHANGED <<status, db, job, claims, mixed>>
  PROVE  IInv'
<1>1. /\ calls' = calls \ {c} /\ Answer(c.player, c.job, "failure")
      /\ UNCHANGED <<status, model, db, tokens, job, claims, mixed>>
  BY DEF GiveUp
<1>2. OneCallPerJob' /\ answer' \in [Players -> [Jobs -> Outcomes]]
  <2>1. "failure" \in Outcomes
    BY DEF Outcomes
  <2>2. QED
    BY <1>1, <2>1, JobOver DEF IInv
<1>3. TypeOK' /\ IsFiniteSet(db)'
  BY <1>1, <1>2 DEF IInv, TypeOK, Outcomes
<1>4. CallsProven' /\ UserProven'
  BY <1>1 DEF IInv, CallsProven, UserProven, Presented, ProvenID
<1>5. Unmixed' /\ IdentityIntact'
  BY <1>1 DEF IInv, Unmixed, IdentityIntact, Suspended
<1>6. QED
  BY <1>2, <1>3, <1>4, <1>5 DEF IInv

\* A model whose login was set holds credentials.
LEMMA ModelCredentials ==
  ASSUME IInv, NEW p \in Players, model[p].login # Unset, NEW id \in Nat
  PROVE  [id |-> id, login |-> model[p].login, password |-> model[p].password]
           \in Credentials({id})
<1>1. PICK claim \in claims[p] :
        claim.login = model[p].login /\ claim.password = model[p].password
  BY DEF IInv, CallsProven, Presented
<1>2. claim \in Credentials(Nat)
  BY <1>1 DEF IInv, TypeOK
<1>3. QED
  BY <1>1, <1>2 DEF Credentials

\* Register goes on to insert the login.
LEMMA InsertStep ==
  ASSUME IInv, NEW c \in calls, Insert(c), c.await = "Register",
         UNCHANGED <<status, db, job, claims, mixed>>
  PROVE  IInv'
<1>1. PICK p : p = c.player
  OBVIOUS
<1>2. PICK creds : creds = [id |-> 0, login |-> model[p].login, password |-> model[p].password]
  OBVIOUS
<1>3. p \in Players /\ c.job \in Jobs /\ model[p].login # Unset
  BY <1>1, CallTypeFacts DEF IInv, CallsProven
<1>4. creds \in Credentials(Nat) /\ creds.login = model[p].login
      /\ creds.password = model[p].password
  <2>1. creds \in Credentials({0})
    BY <1>2, <1>3, ModelCredentials
  <2>2. QED
    BY <1>2, <2>1 DEF Credentials
<1>5. /\ calls' = (calls \ {c}) \cup {Call(p, c.job, "Insert", creds)}
      /\ UNCHANGED <<status, model, db, tokens, job, answer, claims, mixed>>
  BY <1>1, <1>2 DEF Insert
<1>6. PICK d : d = Call(p, c.job, "Insert", creds)
  OBVIOUS
<1>7. /\ d \in CallType /\ d.player = p /\ d.job = c.job
      /\ d.await = "Insert" /\ d.query = creds /\ d.found = {}
  BY <1>3, <1>4, <1>6, CallFacts
<1>8. calls' = (calls \ {c}) \cup {d}
  BY <1>5, <1>6
<1>9. TypeOK' /\ IsFiniteSet(db)'
  BY <1>5, <1>7, <1>8 DEF IInv, TypeOK
<1>10. OneCallPerJob'
  BY <1>1, <1>5, <1>7, <1>8 DEF IInv, OneCallPerJob
<1>11. CallsProven'
  <2>1. /\ \A token \in tokens' : \E row \in db' : row.id = token.id
        /\ \A q \in Players : model'[q].login # Unset => Presented(q, model[q])'
    BY <1>5 DEF IInv, CallsProven, Presented
  <2>2. \A k \in calls :
          /\ model'[k.player].login # Unset /\ Presented(k.player, k.query)'
          /\ k.await \in {"Login", "Insert"} =>
               \A id \in k.found : \E row \in db' :
                 row.id = id /\ row.login = k.query.login /\ row.password = k.query.password
          /\ k.await = "Token" => ProvenID(k.player)'
    BY <1>5 DEF IInv, CallsProven, Presented, ProvenID
  <2>3. Presented(p, creds)'
    BY <1>3, <1>4, <1>5 DEF IInv, CallsProven, Presented
  <2>4. QED
    BY <1>3, <1>5, <1>7, <1>8, <2>1, <2>2, <2>3 DEF CallsProven
<1>12. UserProven' /\ IdentityIntact'
  BY <1>5 DEF IInv, UserProven, IdentityIntact
<1>13. Unmixed'
  <2>1. SUFFICES ASSUME NEW q \in Players \ mixed
                 PROVE  /\ \A k, m \in Suspended(q)' : k = m
                        /\ \A k \in Suspended(q)' :
                             /\ model[q].type = "PlayerAnonymous"
                             /\ model[q].login = k.query.login
                             /\ model[q].password = k.query.password
                             /\ k.await = "Token" => k.query \in db
                                                     /\ model[q].userID = k.query.id
    BY <1>5 DEF Unmixed
  <2>2. CASE q = p
    <3>1. c \in Suspended(p) /\ \A k, m \in Suspended(p) : k = m
      BY <2>2, <1>1 DEF IInv, Unmixed, Suspended
    <3>2. Suspended(p)' = {d}
      BY <3>1, <1>7, <1>8 DEF Suspended
    <3>3. model[p].type = "PlayerAnonymous"
      BY <2>2, <3>1 DEF IInv, Unmixed
    <3>4. QED
      BY <2>2, <3>2, <3>3, <1>4, <1>7
  <2>3. CASE q # p
    <3>1. Suspended(q)' = Suspended(q)
      BY <2>3, <1>1, <1>7, <1>8 DEF Suspended
    <3>2. QED
      BY <3>1 DEF IInv, Unmixed
  <2>4. QED
    BY <2>2, <2>3
<1>14. QED
  BY <1>9, <1>10, <1>11, <1>12, <1>13 DEF IInv

\* A coroutine logs its player in, under an ID that the client proved to be its
\* own.
LEMMA LogInStep ==
  ASSUME IInv, NEW c \in calls, NEW id, LogIn(c, id), UNCHANGED <<status, db, job, claims, mixed>>,
         \E row \in db, claim \in claims[c.player] : row.id = id /\ Proves(claim, row),
         c.player \notin mixed =>
           [id |-> id, login |-> model[c.player].login, password |-> model[c.player].password] \in db
  PROVE  IInv'
<1>1. PICK p : p = c.player
  OBVIOUS
<1>2. p \in Players /\ model[p].login # Unset /\ model[p] \in Models
      /\ model \in [Players -> Models]
  <2>1. p \in Players /\ model[p].login # Unset
    BY <1>1, CallTypeFacts DEF IInv, CallsProven
  <2>2. model \in [Players -> Models]
    BY DEF IInv, TypeOK, Models
  <2>3. QED
    BY <2>1, <2>2
<1>3. PICK row \in db, claim \in claims[p] : row.id = id /\ Proves(claim, row)
  BY <1>1
<1>4. id \in Nat \ {0}
  BY <1>3 DEF IInv, TypeOK, Accounts, Credentials
<1>5. PICK token : token = [id |-> id, login |-> model[p].login, password |-> model[p].password]
  OBVIOUS
<1>6. token \in Accounts /\ token.id = id
  <2>1. token \in Credentials({id})
    BY <1>2, <1>4, <1>5, ModelCredentials
  <2>2. QED
    BY <2>1, <1>4, <1>5 DEF Accounts, Credentials
<1>7. PICK m : m = LoggedIn(model[p], id)
  OBVIOUS
<1>8. /\ m \in Models /\ m.type = "PlayerBase" /\ m.userID = id
      /\ m.login = model[p].login /\ m.password = model[p].password
  BY <1>2, <1>4, <1>7, LoggedInFields
<1>9. /\ model' = [model EXCEPT ![p] = m] /\ tokens' = tokens \cup {token}
      /\ calls' = calls \ {c} /\ Answer(p, c.job, "success")
      /\ UNCHANGED <<status, db, job, claims, mixed>>
  BY <1>1, <1>5, <1>7 DEF LogIn
<1>10. /\ model' \in [Players -> Models] /\ model'[p] = m
       /\ \A q \in Players \ {p} : model'[q] = model[q]
       /\ \A q \in Players : model'[q].login = model[q].login
                            /\ model'[q].password = model[q].password
  BY <1>2, <1>8, <1>9
<1>11. OneCallPerJob' /\ answer' \in [Players -> [Jobs -> Outcomes]]
  <2>1. "success" \in Outcomes
    BY DEF Outcomes
  <2>2. QED
    BY <1>1, <1>9, <2>1, JobOver DEF IInv
<1>12. TypeOK' /\ IsFiniteSet(db)'
  BY <1>6, <1>9, <1>10, <1>11 DEF IInv, TypeOK, Outcomes, Models
<1>13. ProvenID(p)' /\ \A q \in Players \ {p} : ProvenID(q) => ProvenID(q)'
  BY <1>3, <1>8, <1>9, <1>10 DEF ProvenID
<1>14. CallsProven'
  <2>1. \A t \in tokens' : \E r \in db' : r.id = t.id
    BY <1>3, <1>6, <1>9 DEF IInv, CallsProven
  <2>2. \A q \in Players : model'[q].login # Unset => Presented(q, model[q])'
    BY <1>9, <1>10 DEF IInv, CallsProven, Presented
  <2>3. ASSUME NEW k \in calls
        PROVE  /\ model'[k.player].login # Unset /\ Presented(k.player, k.query)'
               /\ k.await \in {"Login", "Insert"} =>
                    \A i \in k.found : \E r \in db' :
                      r.id = i /\ r.login = k.query.login /\ r.password = k.query.password
               /\ k.await = "Token" => ProvenID(k.player)'
    <3>1. k.player \in Players
      BY CallTypeFacts DEF IInv
    <3>2. model'[k.player].login # Unset /\ Presented(k.player, k.query)'
      BY <3>1, <1>9, <1>10 DEF IInv, CallsProven, Presented
    <3>3. k.await = "Token" => ProvenID(k.player)'
      <4>1. CASE k.player = p
        BY <4>1, <1>13
      <4>2. CASE k.player # p
        BY <4>2, <3>1, <1>13 DEF IInv, CallsProven
      <4>3. QED
        BY <4>1, <4>2
    <3>4. QED
      BY <3>2, <3>3, <1>9 DEF IInv, CallsProven
  <2>4. QED
    BY <2>1, <2>2, <2>3, <1>9 DEF CallsProven
<1>15. UserProven'
  <2>1. SUFFICES ASSUME NEW q \in Players, model'[q].type = "PlayerBase"
                 PROVE  \E r \in db, cl \in claims[q] : r.id = model'[q].userID /\ Proves(cl, r)
    BY <1>9 DEF UserProven
  <2>2. CASE q = p
    BY <2>2, <1>3, <1>8, <1>10
  <2>3. CASE q # p
    BY <2>1, <2>3, <1>10 DEF IInv, UserProven
  <2>4. QED
    BY <2>2, <2>3
<1>16. IdentityIntact'
  <2>1. SUFFICES ASSUME NEW q \in Players \ mixed, model'[q].type = "PlayerBase"
                 PROVE  [id |-> model'[q].userID, login |-> model'[q].login,
                         password |-> model'[q].password] \in db
    BY <1>9 DEF IdentityIntact
  <2>2. CASE q = p
    BY <2>2, <1>1, <1>8, <1>10
  <2>3. CASE q # p
    BY <2>1, <2>3, <1>10 DEF IInv, IdentityIntact
  <2>4. QED
    BY <2>2, <2>3
<1>17. Unmixed'
  <2>1. SUFFICES ASSUME NEW q \in Players \ mixed
                 PROVE  /\ \A k, n \in Suspended(q)' : k = n
                        /\ \A k \in Suspended(q)' :
                             /\ model'[q].type = "PlayerAnonymous"
                             /\ model'[q].login = k.query.login
                             /\ model'[q].password = k.query.password
                             /\ k.await = "Token" => k.query \in db
                                                     /\ model'[q].userID = k.query.id
    BY <1>9 DEF Unmixed
  <2>2. CASE q = p
    <3>1. c \in Suspended(p) /\ \A k, n \in Suspended(p) : k = n
      BY <2>2, <1>1 DEF IInv, Unmixed, Suspended
    <3>2. Suspended(p)' = {}
      BY <3>1, <1>9 DEF Suspended
    <3>3. QED
      BY <2>2, <3>2
  <2>3. CASE q # p
    <3>1. Suspended(q)' = Suspended(q) /\ model'[q] = model[q]
      BY <2>3, <1>1, <1>9, <1>10 DEF Suspended
    <3>2. QED
      BY <3>1 DEF IInv, Unmixed
  <2>4. QED
    BY <2>2, <2>3
<1>18. QED
  BY <1>11, <1>12, <1>14, <1>15, <1>16, <1>17 DEF IInv

\* A coroutine throws after it has put an ID into the model that the client
\* proved to be its own.
LEMMA ThrowStep ==
  ASSUME IInv, NEW c \in calls, NEW id, ThrowsAtExperience(c, id),
         UNCHANGED <<status, db, job, claims, mixed>>,
         \E row \in db, claim \in claims[c.player] : row.id = id /\ Proves(claim, row)
  PROVE  IInv'
<1>1. PICK p : p = c.player
  OBVIOUS
<1>2. p \in Players /\ model \in [Players -> Models]
  BY <1>1, CallTypeFacts DEF IInv, TypeOK, Models
<1>3. PICK row \in db, claim \in claims[p] : row.id = id /\ Proves(claim, row)
  BY <1>1
<1>4. id \in Nat
  BY <1>3 DEF IInv, TypeOK, Accounts, Credentials
<1>5. PICK m : m = Identified(model[p], id)
  OBVIOUS
<1>6. /\ m \in Models /\ m.type = model[p].type /\ m.userID = id
      /\ m.login = model[p].login /\ m.password = model[p].password
  BY <1>2, <1>4, <1>5, IdentifiedFields
<1>7. /\ model' = [model EXCEPT ![p] = m] /\ calls' = calls \ {c}
      /\ UNCHANGED <<status, db, tokens, job, answer, claims, mixed>>
  BY <1>1, <1>5 DEF ThrowsAtExperience
<1>8. /\ model' \in [Players -> Models] /\ model'[p] = m
      /\ \A q \in Players \ {p} : model'[q] = model[q]
      /\ \A q \in Players : /\ model'[q].type = model[q].type
                            /\ model'[q].login = model[q].login
                            /\ model'[q].password = model[q].password
  BY <1>2, <1>6, <1>7
<1>9. TypeOK' /\ IsFiniteSet(db)' /\ OneCallPerJob'
  <2>1. TypeOK' /\ IsFiniteSet(db)'
    BY <1>7, <1>8 DEF IInv, TypeOK, Models
  <2>2. OneCallPerJob'
    BY <1>7 DEF IInv, OneCallPerJob
  <2>. QED  BY <2>1, <2>2
<1>10. ProvenID(p)' /\ \A q \in Players \ {p} : ProvenID(q) => ProvenID(q)'
  BY <1>3, <1>6, <1>7, <1>8 DEF ProvenID
<1>11. CallsProven'
  <2>1. /\ \A t \in tokens' : \E r \in db' : r.id = t.id
        /\ \A q \in Players : model'[q].login # Unset => Presented(q, model[q])'
    BY <1>7, <1>8 DEF IInv, CallsProven, Presented
  <2>2. ASSUME NEW k \in calls
        PROVE  /\ model'[k.player].login # Unset /\ Presented(k.player, k.query)'
               /\ k.await \in {"Login", "Insert"} =>
                    \A i \in k.found : \E r \in db' :
                      r.id = i /\ r.login = k.query.login /\ r.password = k.query.password
               /\ k.await = "Token" => ProvenID(k.player)'
    <3>1. k.player \in Players
      BY CallTypeFacts DEF IInv
    <3>2. model'[k.player].login # Unset /\ Presented(k.player, k.query)'
      BY <3>1, <1>7, <1>8 DEF IInv, CallsProven, Presented
    <3>3. k.await = "Token" => ProvenID(k.player)'
      BY <3>1, <1>10 DEF IInv, CallsProven
    <3>. QED  BY <3>2, <3>3, <1>7 DEF IInv, CallsProven
  <2>. QED  BY <2>1, <2>2, <1>7 DEF CallsProven
<1>12. UserProven'
  <2>. SUFFICES ASSUME NEW q \in Players, model'[q].type = "PlayerBase"
                PROVE  ProvenID(q)'
    BY DEF UserProven, ProvenID
  <2>1. q # p => ProvenID(q)
    BY <1>8 DEF IInv, UserProven, ProvenID
  <2>. QED  BY <2>1, <1>10
<1>13. ASSUME NEW q \in Players \ mixed
       PROVE  /\ q = p => Suspended(q)' = {} /\ model[q].type = "PlayerAnonymous"
              /\ q # p => Suspended(q)' = Suspended(q) /\ model'[q] = model[q]
  <2>1. q = p => c \in Suspended(q)
    BY <1>1 DEF Suspended
  <2>2. q = p => Suspended(q)' = {} /\ model[q].type = "PlayerAnonymous"
    BY <2>1, <1>7 DEF IInv, Unmixed, Suspended
  <2>3. q # p => Suspended(q)' = Suspended(q)
    BY <1>1, <1>7 DEF Suspended
  <2>. QED  BY <2>2, <2>3, <1>8
<1>14. Unmixed'
  <2>. SUFFICES ASSUME NEW q \in Players \ mixed
                PROVE  /\ \A k, n \in Suspended(q)' : k = n
                       /\ \A k \in Suspended(q)' :
                            /\ model'[q].type = "PlayerAnonymous"
                            /\ model'[q].login = k.query.login
                            /\ model'[q].password = k.query.password
                            /\ k.await = "Token" => k.query \in db
                                                    /\ model'[q].userID = k.query.id
    BY <1>7 DEF Unmixed
  <2>1. CASE q = p
    BY <2>1, <1>13
  <2>2. CASE q # p
    BY <2>2, <1>13 DEF IInv, Unmixed
  <2>. QED  BY <2>1, <2>2
<1>15. IdentityIntact'
  BY <1>7, <1>8, <1>13 DEF IInv, IdentityIntact
<1>. QED  BY <1>9, <1>11, <1>12, <1>14, <1>15 DEF IInv

\* What a select of Login or an insert found was proven.
LEMMA FoundIsProven ==
  ASSUME IInv, NEW c \in calls, c.await \in {"Login", "Insert"}, NEW id \in c.found
  PROVE  /\ \E row \in db, claim \in claims[c.player] : row.id = id /\ Proves(claim, row)
         /\ c.player \notin mixed =>
              [id |-> id, login |-> model[c.player].login, password |-> model[c.player].password] \in db
<1>1. PICK row \in db :
        row.id = id /\ row.login = c.query.login /\ row.password = c.query.password
  BY DEF IInv, CallsProven
<1>2. PICK claim \in claims[c.player] :
        claim.login = c.query.login /\ claim.password = c.query.password
  BY DEF IInv, CallsProven, Presented
<1>3. Proves(claim, row)
  BY <1>1, <1>2 DEF Proves
<1>4. ASSUME c.player \notin mixed
      PROVE  model[c.player].login = row.login /\ model[c.player].password = row.password
  <2>1. c.player \in Players /\ c \in Suspended(c.player)
    BY CallTypeFacts DEF IInv, Suspended
  <2>2. QED
    BY <2>1, <1>1, <1>4 DEF IInv, Unmixed
<1>5. row = [id |-> row.id, login |-> row.login, password |-> row.password]
  BY DEF IInv, TypeOK, Accounts, Credentials
<1>6. QED
  BY <1>1, <1>3, <1>4, <1>5

\* The coroutines go on.
LEMMA ResumeStep ==
  ASSUME IInv, NEW c \in calls, Resume(c)
  PROVE  IInv'
<1>1. UNCHANGED <<status, db, job, claims, mixed>>
  BY DEF Resume
<1>2. CASE GiveUp(c)
  BY <1>1, <1>2, GiveUpStep
<1>3. CASE ResumeRegister(c)
  <2>1. c.await = "Register" /\ (GiveUp(c) \/ Insert(c))
    BY <1>3 DEF ResumeRegister
  <2>2. QED
    BY <1>1, <1>2, <2>1, InsertStep
<1>4. CASE ResumeInsert(c) \/ ResumeLogin(c)
  <2>1. c.await \in {"Login", "Insert"} /\ (GiveUp(c) \/ \E id \in c.found : Accept(c, id))
    BY <1>4 DEF ResumeInsert, ResumeLogin, Accept
  <2>2. ASSUME NEW id \in c.found, Accept(c, id)
        PROVE  IInv'
    BY <1>1, <2>1, <2>2, FoundIsProven, LogInStep, ThrowStep DEF Accept
  <2>3. QED
    BY <1>2, <2>1, <2>2
<1>5. CASE ResumeToken(c)
  <2>1. c.await = "Token" /\ (GiveUp(c) \/ Accept(c, model[c.player].userID))
    BY <1>5 DEF ResumeToken
  <2>2. PICK id : id = model[c.player].userID
    OBVIOUS
  <2>3. \E row \in db, claim \in claims[c.player] : row.id = id /\ Proves(claim, row)
    BY <2>1, <2>2 DEF IInv, CallsProven, ProvenID
  <2>4. ASSUME c.player \notin mixed
        PROVE  [id |-> id, login |-> model[c.player].login, password |-> model[c.player].password] \in db
    <3>1. c.player \in Players /\ c \in Suspended(c.player)
      BY CallTypeFacts DEF IInv, Suspended
    <3>2. /\ c.query \in db /\ id = c.query.id
          /\ model[c.player].login = c.query.login /\ model[c.player].password = c.query.password
      BY <3>1, <2>1, <2>2, <2>4 DEF IInv, Unmixed
    <3>3. c.query = [id |-> c.query.id, login |-> c.query.login, password |-> c.query.password]
      BY <3>2 DEF IInv, TypeOK, Accounts, Credentials
    <3>4. QED
      BY <3>2, <3>3
  <2>5. ASSUME Accept(c, id)
        PROVE  IInv'
    BY <1>1, <2>3, <2>4, <2>5, LogInStep, ThrowStep DEF Accept
  <2>6. QED
    BY <1>2, <2>1, <2>2, <2>5
<1>6. QED
  BY <1>3, <1>4, <1>5 DEF Resume

LEMMA NextKeepsIInv == IInv /\ [Next]_vars => IInv'
<1> SUFFICES ASSUME IInv, [Next]_vars PROVE IInv'
  OBVIOUS
<1>1. ASSUME NEW p \in Players, OnClientConnected(p) \/ OnClientDisconnected(p)
      PROVE  IInv'
  BY <1>1, ConnectionStep
<1>2. ASSUME NEW p \in Players, NEW await \in {"Register", "Login", "Token"}, NEW creds,
             RegisterOrLogin(p, await, creds)
      PROVE  IInv'
  BY <1>2, StartStep
<1>3. ASSUME NEW p \in Players, Refused(p) \/ Throws(p)
      PROVE  IInv'
  BY <1>3, RefusedStep
<1>4. ASSUME NEW c \in calls, Execute(c) \/ Resume(c)
      PROVE  IInv'
  BY <1>4, ExecuteStep, ResumeStep
<1>5. CASE UNCHANGED vars
  <2>1. UNCHANGED <<status, model, calls, db, tokens, job, answer, claims, mixed>>
    BY <1>5 DEF vars
  <2>2. TypeOK' /\ IsFiniteSet(db)' /\ OneCallPerJob'
    BY <2>1 DEF IInv, TypeOK, OneCallPerJob
  <2>3. CallsProven' /\ UserProven'
    BY <2>1 DEF IInv, CallsProven, UserProven, Presented, ProvenID
  <2>4. Unmixed' /\ IdentityIntact'
    BY <2>1 DEF IInv, Unmixed, IdentityIntact, Suspended
  <2>5. QED
    BY <2>2, <2>3, <2>4 DEF IInv
<1>6. QED
  BY <1>1, <1>2, <1>3, <1>4, <1>5 DEF Next, Work

LEMMA InvHolds == Spec => []IInv
BY InitIInv, NextKeepsIInv, PTL DEF Spec

\* The variables keep their types.
THEOREM TypeCorrect == Spec => []TypeOK
<1>1. IInv => TypeOK
  BY DEF IInv
<1>2. QED
  BY <1>1, InvHolds, PTL

\* Whoever is logged in has presented the login and the password of its account,
\* or a token for it, whatever else its coroutines did in between.
THEOREM UserProvenHolds == Spec => []UserProven
<1>1. IInv => UserProven
  BY DEF IInv
<1>2. QED
  BY <1>1, InvHolds, PTL

\* The model of a logged-in player that no two coroutines wrote at once is that
\* of one account.
THEOREM IdentityIntactHolds == Spec => []IdentityIntact
<1>1. IInv => IdentityIntact
  BY DEF IInv
<1>2. QED
  BY <1>1, InvHolds, PTL

-----------------------------------------------------------------------------
\* A request that was answered is not answered again by a step.
LEMMA StepAnswersOnce ==
  ASSUME IInv, [Next]_vars, NEW p \in Players, NEW j \in Jobs,
         answer[p][j] \in {"success", "failure"}
  PROVE  answer'[p][j] = answer[p][j]
<1>1. ASSUME NEW q \in Players, NEW k \in Jobs, NEW outcome \in Outcomes,
             Answer(q, k, outcome), answer[q][k] \in {"none", "pending"}
      PROVE  answer'[p][j] = answer[p][j]
  <2>1. p # q \/ j # k
    BY <1>1
  <2>2. QED
    BY <1>1, <2>1, AnswerFacts DEF IInv
<1>2. ASSUME NEW q \in Players, Request(q), NEW outcome \in Outcomes, Answer(q, job[q], outcome)
      PROVE  answer'[p][j] = answer[p][j]
  <2>1. PICK k : k = job[q]
    OBVIOUS
  <2>2. k \in Jobs /\ answer[q][k] = "none"
    BY <1>2, <2>1, RequestFacts DEF IInv, OneCallPerJob, Jobs
  <2>3. QED
    BY <1>1, <1>2, <2>1, <2>2
<1>3. ASSUME NEW c \in calls, NEW outcome \in Outcomes, Answer(c.player, c.job, outcome)
      PROVE  answer'[p][j] = answer[p][j]
  <2>1. PICK q, k : q = c.player /\ k = c.job
    OBVIOUS
  <2>2. q \in Players /\ k \in Jobs /\ answer[q][k] = "pending"
    BY <2>1, CallTypeFacts DEF IInv, OneCallPerJob
  <2>3. QED
    BY <1>1, <1>3, <2>1, <2>2
<1>4. "pending" \in Outcomes /\ "success" \in Outcomes /\ "failure" \in Outcomes
      /\ "unmatched" \in Outcomes
  BY DEF Outcomes
<1>5. ASSUME NEW q \in Players, OnClientConnected(q) \/ OnClientDisconnected(q)
      PROVE  answer'[p][j] = answer[p][j]
  BY <1>5 DEF OnClientConnected, OnClientDisconnected
<1>6. ASSUME NEW q \in Players, NEW await, NEW creds, RegisterOrLogin(q, await, creds)
      PROVE  answer'[p][j] = answer[p][j]
  BY <1>2, <1>4, <1>6 DEF RegisterOrLogin, Start
<1>7. ASSUME NEW q \in Players, Refused(q) \/ Throws(q)
      PROVE  answer'[p][j] = answer[p][j]
  BY <1>2, <1>4, <1>7 DEF Refused, Throws
<1>8. ASSUME NEW c \in calls, Execute(c)
      PROVE  answer'[p][j] = answer[p][j]
  BY <1>8 DEF Execute
<1>9. ASSUME NEW c \in calls, Resume(c)
      PROVE  answer'[p][j] = answer[p][j]
  <2>1. \/ GiveUp(c) \/ Insert(c) \/ \E id : LogIn(c, id) \/ ThrowsAtExperience(c, id)
    BY <1>9 DEF Resume, ResumeRegister, ResumeInsert, ResumeLogin, ResumeToken, Accept
  <2>2. \/ answer' = answer
        \/ Answer(c.player, c.job, "failure") \/ Answer(c.player, c.job, "success")
    BY <2>1 DEF GiveUp, Insert, LogIn, ThrowsAtExperience
  <2>3. QED
    BY <1>3, <1>4, <2>2
<1>10. CASE UNCHANGED vars
  BY <1>10 DEF vars
<1>11. QED
  BY <1>5, <1>6, <1>7, <1>8, <1>9, <1>10 DEF Next, Work

\* A request is answered once, however the coroutines of its player interleave.
THEOREM AnsweredOnceHolds == Spec => AnsweredOnce
<1>1. IInv /\ [Next]_vars =>
        [\A p \in Players, j \in Jobs :
           answer[p][j] \in {"success", "failure"} => answer'[p][j] = answer[p][j]]_vars
  BY StepAnswersOnce
<1>2. QED
  BY <1>1, InvHolds, PTL DEF Spec, AnsweredOnce

\* A step that writes a player's model is the start of a coroutine of an
\* anonymous player, or the end of one.
LEMMA StepKeepsIdentity ==
  ASSUME IInv, [Next]_vars, NEW p \in Players, model[p].type = "PlayerBase", Suspended(p) = {}
  PROVE  model'[p] = model[p]
<1>0. model \in [Players -> Models]
  BY DEF IInv, TypeOK, Models
<1>1. ASSUME NEW q \in Players, NEW await, NEW creds, RegisterOrLogin(q, await, creds)
      PROVE  model'[p] = model[p]
  <2>1. q # p
    BY <1>1 DEF RegisterOrLogin
  <2>2. QED
    BY <1>0, <1>1, <2>1 DEF RegisterOrLogin, Start
<1>2. ASSUME NEW c \in calls, Resume(c)
      PROVE  model'[p] = model[p]
  <2>1. c.player # p
    BY DEF Suspended
  <2>2. model' = model \/ \E id : LogIn(c, id) \/ ThrowsAtExperience(c, id)
    BY <1>2 DEF Resume, ResumeRegister, ResumeInsert, ResumeLogin, ResumeToken, Accept,
                GiveUp, Insert
  <2>3. QED
    BY <1>0, <2>1, <2>2 DEF LogIn, ThrowsAtExperience
<1>3. ASSUME NEW q \in Players, \/ OnClientConnected(q) \/ OnClientDisconnected(q)
                                \/ Refused(q) \/ Throws(q)
      PROVE  model'[p] = model[p]
  BY <1>3 DEF OnClientConnected, OnClientDisconnected, Refused, Throws
<1>4. ASSUME NEW c \in calls, Execute(c)
      PROVE  model'[p] = model[p]
  BY <1>4 DEF Execute
<1>5. CASE UNCHANGED vars
  BY <1>5 DEF vars
<1>6. QED
  BY <1>1, <1>2, <1>3, <1>4, <1>5 DEF Next, Work

\* A logged-in player that no coroutine works for stays who it is.
THEOREM IdentityStaysHolds == Spec => IdentityStays
<1>1. IInv /\ [Next]_vars =>
        [\A p \in Players : model[p].type = "PlayerBase" /\ Suspended(p) = {} =>
           model'[p] = model[p]]_vars
  BY StepKeepsIdentity
<1>2. QED
  BY <1>1, InvHolds, PTL DEF Spec, IdentityStays

-----------------------------------------------------------------------------
(***************************************************************************)
(* A coroutine ends after two queries at most, and not without an answer.  *)
(***************************************************************************)

\* The steps that the coroutine of c has left: of a registration the select,
\* its result, the insert and its result, of the others a select and its result.
Left(c) ==
  IF c.await = "Register" THEN IF c.state = "sent" THEN 4 ELSE 3
                          ELSE IF c.state = "sent" THEN 2 ELSE 1

\* Request j of p was dispatched, and its coroutine has n steps left at most.
AtMostLeft(n, p, j) ==
  /\ j < job[p]
  /\ \A c \in CallsOf(p, j) : Left(c) <= n

\* What a client that stays waits for is being worked at, and a new client
\* waits for nothing.
PendingIsCalled ==
  /\ \A p \in Players : status[p] = "new" => job[p] = 1
  /\ \A p \in Players, j \in Jobs :
       answer[p][j] = "pending" => CallsOf(p, j) # {} \/ status[p] = "disconnected"

\* Work for a coroutine brings it one step nearer to its end, with which its
\* client is answered, unless it throws.
LEMMA WorkDone ==
  ASSUME IInv, NEW c \in calls, Execute(c) \/ Resume(c)
  PROVE  /\ job' = job /\ status' = status
         /\ \/ calls' = calls \ {c} /\ \E o \in {"success", "failure"} : Answer(c.player, c.job, o)
            \/ calls' = calls \ {c} /\ answer' = answer /\ ~ExperienceParses
            \/ /\ answer' = answer
               /\ \E d : /\ calls' = (calls \ {c}) \cup {d}
                         /\ d.player = c.player /\ d.job = c.job
                         /\ Left(d) < Left(c)
<1>1. c \in CallType
  BY CallTypeFacts DEF IInv
<1>2. ASSUME Execute(c)
      PROVE  \E d : /\ calls' = (calls \ {c}) \cup {d}
                    /\ d.player = c.player /\ d.job = c.job
                    /\ Left(d) < Left(c)
  <2>1. PICK state, found : Answered(c, state, found) /\ state \in {"done", "failed"}
    BY <1>2 DEF Execute, ExecuteSelect, ExecuteInsert, Fail
  <2>2. PICK d : d = [c EXCEPT !.state = state, !.found = found]
    OBVIOUS
  <2>3. /\ d.player = c.player /\ d.job = c.job /\ d.await = c.await
        /\ d.state # "sent" /\ c.state = "sent"
    BY <1>1, <1>2, <2>1, <2>2 DEF CallType, Execute
  <2>4. Left(d) < Left(c)
    BY <2>3 DEF Left
  <2>. QED  BY <2>1, <2>2, <2>3, <2>4 DEF Answered
<1>3. ASSUME c.await = "Register", Insert(c)
      PROVE  \E e : /\ calls' = (calls \ {c}) \cup {e}
                    /\ e.player = c.player /\ e.job = c.job
                    /\ Left(e) < Left(c)
  <2>1. PICK creds : calls' = (calls \ {c}) \cup {Call(c.player, c.job, "Insert", creds)}
    BY <1>3 DEF Insert
  <2>2. PICK e : e = Call(c.player, c.job, "Insert", creds)
    OBVIOUS
  <2>3. e.player = c.player /\ e.job = c.job /\ e.await = "Insert" /\ e.state = "sent"
    BY <2>2 DEF Call
  <2>4. Left(e) < Left(c)
    BY <1>3, <2>3 DEF Left
  <2>. QED  BY <2>1, <2>2, <2>3, <2>4
<1>4. Resume(c) =>
        \/ c.await = "Register" /\ Insert(c)
        \/ GiveUp(c)
        \/ \E id : LogIn(c, id) \/ ThrowsAtExperience(c, id)
  BY DEF Resume, ResumeRegister, ResumeInsert, ResumeLogin, ResumeToken, Accept
<1>5. CASE Execute(c)
  BY <1>2, <1>5 DEF Execute
<1>6. CASE Resume(c)
  BY <1>3, <1>4, <1>6 DEF Resume, GiveUp, Insert, LogIn, ThrowsAtExperience
<1>. QED  BY <1>5, <1>6

\* Any other step leaves the coroutines alone, or starts one.
LEMMA OtherStep ==
  ASSUME IInv, [Next]_vars, ~Work
  PROVE  /\ \A p \in Players : job'[p] >= job[p]
         /\ \A p \in Players : /\ status[p] = "disconnected" => status'[p] = "disconnected"
                               /\ status'[p] = "new" => status[p] = "new" /\ job'[p] = job[p]
         /\ \A p \in Players, j \in Jobs :
              /\ j < job[p] => CallsOf(p, j)' = CallsOf(p, j)
              /\ CallsOf(p, j) \subseteq CallsOf(p, j)'
              /\ answer'[p][j] = answer[p][j] \/ answer'[p][j] # "pending" \/ CallsOf(p, j)' # {}
<1>0. /\ TypeOK /\ job \in [Players -> 1 .. MaxJobs + 1]
      /\ status \in [Players -> {"new", "connected", "disconnected"}]
  BY DEF IInv, TypeOK
<1>1. ASSUME NEW q \in Players, OnClientConnected(q) \/ OnClientDisconnected(q)
      PROVE  /\ UNCHANGED <<calls, job, answer>>
             /\ \A p \in Players : /\ status[p] = "disconnected" => status'[p] = "disconnected"
                                   /\ status'[p] = "new" => status[p] = "new"
  BY <1>0, <1>1 DEF OnClientConnected, OnClientDisconnected
<1>2. ASSUME NEW q \in Players, NEW outcome \in Outcomes,
             Request(q), Answer(q, job[q], outcome),
             \/ calls' = calls /\ outcome # "pending"
             \/ \E k : calls' = calls \cup {k} /\ k.player = q /\ k.job = job[q]
      PROVE  /\ status' = status
             /\ \A p \in Players : job'[p] >= job[p] /\ (status[p] = "new" => job'[p] = job[p])
             /\ \A p \in Players, j \in Jobs :
                  /\ j < job[p] => CallsOf(p, j)' = CallsOf(p, j)
                  /\ CallsOf(p, j) \subseteq CallsOf(p, j)'
                  /\ \/ answer'[p][j] = answer[p][j] \/ answer'[p][j] # "pending"
                     \/ CallsOf(p, j)' # {}
  <2>0. PICK n : n = job[q]
    OBVIOUS
  <2>1. /\ status[q] = "connected" /\ n \in Jobs
        /\ job' = [job EXCEPT ![q] = n + 1] /\ status' = status
    BY <1>0, <1>2, <2>0, RequestFacts
  <2>2. /\ \A p \in Players, j \in Jobs :
             p # q \/ j # n => answer'[p][j] = answer[p][j]
        /\ answer'[q][n] = outcome
    BY <1>0, <1>2, <2>0, <2>1, AnswerFacts
  <2>3. \A p \in Players : job'[p] >= job[p] /\ (status[p] = "new" => job'[p] = job[p])
    BY <1>0, <2>0, <2>1
  <2>4. ASSUME NEW p \in Players, NEW j \in Jobs, p # q \/ j # n
        PROVE  CallsOf(p, j)' = CallsOf(p, j)
    BY <1>2, <2>0, <2>4 DEF CallsOf
  <2>5. \/ CallsOf(q, n)' = CallsOf(q, n) /\ outcome # "pending"
        \/ CallsOf(q, n) \subseteq CallsOf(q, n)' /\ CallsOf(q, n)' # {}
    BY <1>2, <2>0 DEF CallsOf
  <2>6. ASSUME NEW p \in Players, NEW j \in Jobs
        PROVE  /\ j < job[p] => CallsOf(p, j)' = CallsOf(p, j)
               /\ CallsOf(p, j) \subseteq CallsOf(p, j)'
               /\ \/ answer'[p][j] = answer[p][j] \/ answer'[p][j] # "pending"
                  \/ CallsOf(p, j)' # {}
    <3>1. CASE p # q \/ j # n
      BY <2>2, <2>4, <3>1
    <3>2. CASE p = q /\ j = n
      <4>1. ~(j < job[p])
        BY <2>0, <2>1, <3>2 DEF Jobs
      <4>. QED  BY <2>2, <2>5, <3>2, <4>1
    <3>. QED  BY <3>1, <3>2
  <2>. QED  BY <2>1, <2>3, <2>6
<1>3. "pending" \in Outcomes /\ "failure" \in Outcomes /\ "unmatched" \in Outcomes
  BY DEF Outcomes
<1>4. ASSUME NEW q \in Players, NEW await, NEW creds, RegisterOrLogin(q, await, creds)
      PROVE  /\ Request(q) /\ Answer(q, job[q], "pending")
             /\ \E k : calls' = calls \cup {k} /\ k.player = q /\ k.job = job[q]
  <2>1. PICK k : k = Call(q, job[q], await, creds)
    OBVIOUS
  <2>2. k.player = q /\ k.job = job[q]
    BY <2>1 DEF Call
  <2>. QED  BY <1>4, <2>1, <2>2 DEF RegisterOrLogin, Start
<1>5. ASSUME NEW q \in Players, Refused(q) \/ Throws(q)
      PROVE  /\ Request(q) /\ calls' = calls
             /\ Answer(q, job[q], "failure") \/ Answer(q, job[q], "unmatched")
  BY <1>5 DEF Refused, Throws
<1>6. CASE UNCHANGED <<calls, job, answer>> /\ UNCHANGED status
  BY <1>0, <1>6 DEF CallsOf
<1>7. CASE \E q \in Players : OnClientConnected(q) \/ OnClientDisconnected(q)
  BY <1>0, <1>1, <1>7 DEF CallsOf
<1>8. CASE \E q \in Players : \E await, creds : RegisterOrLogin(q, await, creds)
  BY <1>2, <1>3, <1>4, <1>8
<1>9. CASE \E q \in Players : Refused(q) \/ Throws(q)
  BY <1>2, <1>3, <1>5, <1>9
<1>10. CASE UNCHANGED vars
  BY <1>6, <1>10 DEF vars
<1>. QED
  BY <1>7, <1>8, <1>9, <1>10 DEF Next

\* A coroutine does not fall back, and none is started anew for its request.
LEMMA StepLeft ==
  ASSUME IInv, [Next]_vars, NEW p \in Players, NEW j \in Jobs, NEW n \in 0 .. 4
  PROVE  /\ AtMostLeft(n, p, j) => AtMostLeft(n, p, j)'
         /\ WorkFor(p, j) /\ n > 0 /\ AtMostLeft(n, p, j) => AtMostLeft(n - 1, p, j)'
<1>0. job \in [Players -> 1 .. MaxJobs + 1]
  BY DEF IInv, TypeOK
<1>1. CASE ~Work
  <2>1. job'[p] >= job[p] /\ (j < job[p] => CallsOf(p, j)' = CallsOf(p, j))
    BY <1>1, OtherStep
  <2>2. ~WorkFor(p, j)
    BY <1>1 DEF WorkFor, Work, CallsOf
  <2>3. job'[p] \in Int
    <3>1. IInv'
      BY NextKeepsIInv
    <3>. QED  BY <3>1 DEF IInv, TypeOK
  <2>. QED  BY <1>0, <2>1, <2>2, <2>3 DEF AtMostLeft, Jobs
<1>2. CASE Work
  <2>1. PICK c \in calls : Execute(c) \/ Resume(c)
    BY <1>2 DEF Work
  <2>2. /\ job' = job
        /\ \/ calls' = calls \ {c}
           \/ \E d : /\ calls' = (calls \ {c}) \cup {d}
                    /\ d.player = c.player /\ d.job = c.job
                    /\ Left(d) < Left(c)
    BY <2>1, WorkDone
  <2>3. \A e : Left(e) \in 1 .. 4
    BY DEF Left
  <2>4. AtMostLeft(n, p, j) => AtMostLeft(n, p, j)'
    <3>. SUFFICES ASSUME AtMostLeft(n, p, j), NEW e \in CallsOf(p, j)'
                  PROVE  Left(e) <= n
      BY <2>2 DEF AtMostLeft
    <3>1. CASE e \in calls
      BY <3>1 DEF AtMostLeft, CallsOf
    <3>2. CASE e \notin calls
      <4>1. /\ e.player = c.player /\ e.job = c.job /\ Left(e) < Left(c)
            /\ e.player = p /\ e.job = j
        BY <2>2, <3>2 DEF CallsOf
      <4>2. Left(c) <= n
        BY <4>1 DEF AtMostLeft, CallsOf
      <4>. QED  BY <2>3, <4>1, <4>2
    <3>. QED  BY <3>1, <3>2
  <2>5. ASSUME WorkFor(p, j), n > 0, AtMostLeft(n, p, j)
        PROVE  AtMostLeft(n - 1, p, j)'
    <3>1. PICK k \in CallsOf(p, j) : Execute(k) \/ Resume(k)
      BY <2>5 DEF WorkFor
    <3>2. /\ \/ calls' = calls \ {k}
             \/ \E d : /\ calls' = (calls \ {k}) \cup {d}
                      /\ d.player = k.player /\ d.job = k.job
                      /\ Left(d) < Left(k)
          /\ k \in calls
      BY <3>1, WorkDone DEF CallsOf
    <3>3. CallsOf(p, j) = {k}
      BY <3>1 DEF CallsOf, IInv, OneCallPerJob
    <3>4. Left(k) <= n
      BY <2>5, <3>1 DEF AtMostLeft
    <3>5. \A e \in CallsOf(p, j)' : Left(e) < Left(k)
      BY <3>2, <3>3 DEF CallsOf
    <3>6. \A e \in CallsOf(p, j)' : Left(e) <= n - 1
      BY <2>3, <3>4, <3>5
    <3>. QED  BY <2>2, <2>5, <3>6 DEF AtMostLeft
  <2>. QED  BY <2>4, <2>5
<1>. QED  BY <1>1, <1>2

LEMMA StepPending ==
  ExperienceParses /\ IInv /\ PendingIsCalled /\ [Next]_vars => PendingIsCalled'
<1>. SUFFICES ASSUME ExperienceParses, IInv, PendingIsCalled, [Next]_vars PROVE PendingIsCalled'
  OBVIOUS
<1>1. CASE ~Work
  BY <1>1, OtherStep DEF PendingIsCalled
<1>2. CASE Work
  <2>1. PICK c \in calls : Execute(c) \/ Resume(c)
    BY <1>2 DEF Work
  <2>2. /\ c.player \in Players /\ c.job \in Jobs
        /\ status' = status /\ job' = job /\ TypeOK
    BY <2>1, WorkDone, CallTypeFacts DEF IInv
  <2>3. PICK q \in Players, k \in Jobs : q = c.player /\ k = c.job
    BY <2>2
  <2>4. answer[q][k] = "pending" /\ k < job[q]
    BY <2>3 DEF IInv, OneCallPerJob
  <2>. SUFFICES ASSUME NEW p \in Players, NEW j \in Jobs,
                       answer'[p][j] = "pending", status[p] # "disconnected"
                PROVE  CallsOf(p, j)' # {}
    BY <2>2 DEF PendingIsCalled
  <2>5. CASE calls' = calls \ {c} /\ \E o \in {"success", "failure"} : Answer(q, k, o)
    <3>1. PICK o \in Outcomes : Answer(q, k, o) /\ o # "pending"
      BY <2>5 DEF Outcomes
    <3>2. /\ \A r \in Players, l \in Jobs : r # q \/ l # k => answer'[r][l] = answer[r][l]
          /\ status[q] = "connected" => answer'[q][k] = o
      BY <2>2, <3>1, AnswerFacts
    <3>3. status[q] = "connected" \/ status[q] = "disconnected"
      <4>1. status[q] # "new"
        BY <2>4 DEF PendingIsCalled, Jobs
      <4>. QED  BY <2>2, <4>1 DEF TypeOK
    <3>4. p # q \/ j # k
      BY <3>1, <3>2, <3>3
    <3>5. PICK d : d \in CallsOf(p, j)
      BY <3>2, <3>4 DEF PendingIsCalled
    <3>6. d \in CallsOf(p, j)'
      BY <2>3, <2>5, <3>4, <3>5 DEF CallsOf
    <3>. QED  BY <3>6
  <2>6. CASE answer' = answer /\ \E d : /\ calls' = (calls \ {c}) \cup {d}
                                        /\ d.player = c.player /\ d.job = c.job
    <3>1. CallsOf(p, j) # {}
      BY <2>6 DEF PendingIsCalled
    <3>. QED  BY <2>6, <3>1 DEF CallsOf
  <2>. QED  BY <2>1, <2>3, <2>5, <2>6, WorkDone
<1>. QED  BY <1>1, <1>2

LEMMA PendingInvariance == ASSUME ExperienceParses PROVE Spec => []PendingIsCalled
<1>1. Init => PendingIsCalled
  BY DEF Init, PendingIsCalled
<1>2. IInv /\ PendingIsCalled /\ [Next]_vars => PendingIsCalled'
  BY StepPending
<1>. QED  BY <1>1, <1>2, InvHolds, PTL DEF Spec

\* If the work goes on and every experience can be read, every coroutine that a request starts has ended after
\* two queries at most, each answered or failed, and not without an answer to
\* a client that stayed, however many clients, coroutines and accounts there are.
THEOREM AllAnsweredHolds == ASSUME ExperienceParses PROVE Spec /\ WorkGoesOn => AllAnswered
<1>. SUFFICES ASSUME NEW p \in Players, NEW j \in Jobs
              PROVE  Spec /\ ([]<>(CallsOf(p, j) = {}) \/ []<><<WorkFor(p, j)>>_vars)
                       => (answer[p][j] = "pending" ~>
                             answer[p][j] # "pending" \/ status[p] = "disconnected")
  BY DEF AllAnswered, WorkGoesOn
<1>1. IInv /\ answer[p][j] = "pending" => AtMostLeft(4, p, j)
  <2>1. \A c : Left(c) <= 4
    BY DEF Left
  <2>2. ASSUME IInv, answer[p][j] = "pending" PROVE j < job[p]
    <3>1. ~(j >= job[p]) /\ job[p] \in Int /\ j \in Int
      BY <2>2 DEF IInv, OneCallPerJob, TypeOK, Jobs
    <3>. QED  BY <3>1
  <2>. QED  BY <2>1, <2>2 DEF AtMostLeft
<1>2. /\ IInv /\ [Next]_vars /\ AtMostLeft(4, p, j) => AtMostLeft(4, p, j)'
      /\ IInv /\ [Next]_vars /\ AtMostLeft(3, p, j) => AtMostLeft(3, p, j)'
      /\ IInv /\ [Next]_vars /\ AtMostLeft(2, p, j) => AtMostLeft(2, p, j)'
      /\ IInv /\ [Next]_vars /\ AtMostLeft(1, p, j) => AtMostLeft(1, p, j)'
      /\ IInv /\ [Next]_vars /\ AtMostLeft(0, p, j) => AtMostLeft(0, p, j)'
  BY StepLeft
<1>3. /\ IInv /\ [Next]_vars /\ <<WorkFor(p, j)>>_vars /\ AtMostLeft(4, p, j) => AtMostLeft(3, p, j)'
      /\ IInv /\ [Next]_vars /\ <<WorkFor(p, j)>>_vars /\ AtMostLeft(3, p, j) => AtMostLeft(2, p, j)'
      /\ IInv /\ [Next]_vars /\ <<WorkFor(p, j)>>_vars /\ AtMostLeft(2, p, j) => AtMostLeft(1, p, j)'
      /\ IInv /\ [Next]_vars /\ <<WorkFor(p, j)>>_vars /\ AtMostLeft(1, p, j) => AtMostLeft(0, p, j)'
  <2>1. \A n \in 1 .. 4 : /\ n \in 0 .. 4 /\ n > 0
        /\ 4 - 1 = 3 /\ 3 - 1 = 2 /\ 2 - 1 = 1 /\ 1 - 1 = 0
    OBVIOUS
  <2>. QED  BY <2>1, StepLeft
<1>4. AtMostLeft(0, p, j) => CallsOf(p, j) = {}
  <2>1. \A c : ~(Left(c) <= 0)
    BY DEF Left
  <2>. QED  BY <2>1 DEF AtMostLeft
<1>5. PendingIsCalled =>
        (CallsOf(p, j) = {} => answer[p][j] # "pending" \/ status[p] = "disconnected")
  BY DEF PendingIsCalled
<1>. QED
  BY <1>1, <1>2, <1>3, <1>4, <1>5, InvHolds, PendingInvariance, PTL DEF Spec
=============================================================================
