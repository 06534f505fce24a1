--------------------------- MODULE PlayerSession ---------------------------
(***************************************************************************)
(* Players that register and log in (services/player_session): the         *)
(* requests Register and Login, and the coroutines of Model::Player that   *)
(* wait for the database between their steps.                              *)
(*                                                                         *)
(* Everything but the database runs on the thread of the service loop, so  *)
(* a handler or a coroutine is interrupted only where it awaits a query;   *)
(* there the coroutines of one player interleave too, because a player is  *)
(* anonymous until one of them succeeds.                                   *)
(*                                                                         *)
(* External, and modelled from their use: the MySQL client, whose pool of  *)
(* threads answers queries in any order or fails them; the table           *)
(* snake_players, which is not in the repository; Utils::Task, which runs  *)
(* a coroutine up to its first await at once, and ends one that throws     *)
(* later (a throw that ended the program would leave nothing to check);    *)
(* and the tokens, of which the ones issued here are valid until they      *)
(* expire, and no others.  Hashing is taken to be injective, and a         *)
(* normalised login is the login.                                          *)
(***************************************************************************)
EXTENDS Integers, FiniteSets

CONSTANTS
  Players,           \* websocket clients, each with the player made for it
  Logins,            \* what NormalizeLogin returns
  Passwords,         \* what NormalizePassword returns
  UniqueLogin,       \* snake_players has a unique index on login
  ExperienceParses,  \* every experience in snake_players is a number
  MaxJobs            \* bound: requests of a client

Unset == ""   \* the login and the password of a new model

ASSUME PlayerSessionAssumption ==
  /\ UniqueLogin \in BOOLEAN /\ ExperienceParses \in BOOLEAN
  /\ MaxJobs \in Nat
  /\ Unset \notin Logins \cup Passwords   \* malformed_login, malformed_password

VARIABLES
  status,   \* of the websocket client: not yet connected, in players_, gone
  model,    \* Model::Player of each player
  calls,    \* suspended coroutines, each with the query it awaits
  db,       \* snake_players
  tokens,   \* issued by PrepareToken
  job,      \* the sourceJobId of each client's next request
  answer,   \* what has become of each request
  claims,   \* history: the credentials each client has presented
  mixed     \* history: players whose model two coroutines have written at once,
            \* or that presented the token of one of those

vars == <<status, model, calls, db, tokens, job, answer, claims, mixed>>

Jobs == 1 .. MaxJobs

Credentials(ids) == [id : ids, login : Logins, password : Passwords]

\* A row of snake_players, and the data of a token.
Accounts == Credentials(Nat \ {0})

NewModel == [type |-> "PlayerAnonymous", userID |-> 0, login |-> Unset, password |-> Unset]

Init ==
  /\ status = [p \in Players |-> "new"]
  /\ model = [p \in Players |-> NewModel]
  /\ calls = {}
  /\ db = {}
  /\ tokens = {}
  /\ job = [p \in Players |-> 1]
  /\ answer = [p \in Players |-> [j \in Jobs |-> "none"]]
  /\ claims = [p \in Players |-> {}]
  /\ mixed = {}

-----------------------------------------------------------------------------
(***************************************************************************)
(* The websocket connection.                                               *)
(***************************************************************************)

OnClientConnected(p) ==
  /\ status[p] = "new"
  /\ status' = [status EXCEPT ![p] = "connected"]
  /\ UNCHANGED <<model, calls, db, tokens, job, answer, claims, mixed>>

\* The coroutines of the player hold it, and go on.
OnClientDisconnected(p) ==
  /\ status[p] = "connected"
  /\ status' = [status EXCEPT ![p] = "disconnected"]
  /\ UNCHANGED <<model, calls, db, tokens, job, answer, claims, mixed>>

\* SendSuccess and SendFail; Client::Send drops what a disconnected client
\* is sent.
Answer(p, j, outcome) ==
  answer' = [answer EXCEPT ![p][j] = IF status[p] = "connected" THEN outcome ELSE @]

-----------------------------------------------------------------------------
(***************************************************************************)
(* Incoming, of Register and Login.                                        *)
(***************************************************************************)

\* A coroutine of p that awaits a query, named after what follows the await.
Call(p, j, await, creds) ==
  [player |-> p, job |-> j, await |-> await, query |-> creds, state |-> "sent", found |-> {}]

Suspended(p) == {c \in calls : c.player = p}

\* The next request of a connected client is dispatched to its player.
Request(p) ==
  /\ status[p] = "connected"
  /\ job[p] \in Jobs
  /\ job' = [job EXCEPT ![p] = @ + 1]
  /\ UNCHANGED <<status, db, tokens>>

\* Model m, once a coroutine has started with creds; the ID is a token's.
Started(m, await, creds) ==
  [type |-> m.type, userID |-> IF await = "Token" THEN creds.id ELSE m.userID,
   login |-> creds.login, password |-> creds.password]

\* Mutant: Login with a token does not take the ID from it.
StartWithoutID(p, await, creds) ==
  /\ model' = [model EXCEPT ![p] = Started(@, "Login", creds)]
  /\ calls' = calls \cup {Call(p, job[p], await, creds)}
  /\ Answer(p, job[p], "pending")
  /\ claims' = [claims EXCEPT ![p] = @ \cup {creds}]
  /\ mixed' = IF Suspended(p) # {} \/ (await = "Token" /\ creds \notin db)
              THEN mixed \cup {p} ELSE mixed

\* A coroutine starts: it overwrites the player's model, and awaits a query.
Start(p, await, creds) ==
  /\ model' = [model EXCEPT ![p] = Started(@, await, creds)]
  /\ calls' = calls \cup {Call(p, job[p], await, creds)}
  /\ Answer(p, job[p], "pending")
  /\ claims' = [claims EXCEPT ![p] = @ \cup {creds}]
  /\ mixed' = IF Suspended(p) # {} \/ (await = "Token" /\ creds \notin db)
              THEN mixed \cup {p} ELSE mixed

\* Mutant: the request is accepted from a player that is logged in.
LoginByAnyone(p, await, creds) ==
  /\ Request(p)
  /\ creds \in IF await = "Token" THEN tokens ELSE Credentials({0})
  /\ Start(p, await, creds)

\* Register or Login with a login and a password, or Login with a token.
RegisterOrLogin(p, await, creds) ==
  /\ Request(p)
  /\ model[p].type = "PlayerAnonymous"
  /\ creds \in IF await = "Token" THEN tokens ELSE Credentials({0})
  /\ Start(p, await, creds)

\* Mutant: SendFail is not followed by a return.
RefusedAndStarted(p) ==
  /\ Request(p)
  /\ \E creds \in Credentials({0}) :
       calls' = calls \cup {Call(p, job[p], "Login", creds)}
  /\ Answer(p, job[p], "failure")
  /\ UNCHANGED <<model, claims, mixed>>

\* already_logged; a malformed login or password; a token that is not valid.
Refused(p) ==
  /\ Request(p)
  /\ Answer(p, job[p], "failure")
  /\ UNCHANGED <<model, calls, claims, mixed>>

\* A field is not a string: the handler throws, and the answer goes out with
\* no targetJobId.
Throws(p) ==
  /\ Request(p)
  /\ model[p].type = "PlayerAnonymous"
  /\ Answer(p, job[p], "unmatched")
  /\ UNCHANGED <<model, calls, claims, mixed>>

-----------------------------------------------------------------------------
(***************************************************************************)
(* The database.                                                           *)
(***************************************************************************)

\* Mutant: the select of Login does not ask for the password.
MatchesLogin(c, row) ==
  \/ c.await = "Token" /\ row.id = c.query.id
  \/ c.await # "Token" /\ row.login = c.query.login

\* The where clauses of the three selects.
Matches(c, row) ==
  \/ c.await = "Token" /\ row.id = c.query.id
  \/ c.await = "Register" /\ row.login = c.query.login
  \/ c.await = "Login" /\ row.login = c.query.login /\ row.password = c.query.password

Answered(c, state, found) ==
  calls' = (calls \ {c}) \cup {[c EXCEPT !.state = state, !.found = found]}

ExecuteSelect(c) ==
  /\ c.await # "Insert"
  /\ Answered(c, "done", {row.id : row \in {r \in db : Matches(c, r)}})
  /\ UNCHANGED db

ExecuteInsert(c) ==
  /\ c.await = "Insert"
  /\ UniqueLogin => \A row \in db : row.login # c.query.login
  /\ \E id \in 1 .. Cardinality(db) + 1 :
       /\ \A row \in db : row.id # id
       /\ db' = db \cup {[c.query EXCEPT !.id = id]}
       /\ Answered(c, "done", {id})

Fail(c) ==
  /\ Answered(c, "failed", {})
  /\ UNCHANGED db

Execute(c) ==
  /\ c.state = "sent"
  /\ ExecuteSelect(c) \/ ExecuteInsert(c) \/ Fail(c)
  /\ UNCHANGED <<status, model, tokens, job, answer, claims, mixed>>

-----------------------------------------------------------------------------
(***************************************************************************)
(* The coroutines, resumed by the service loop.                            *)
(***************************************************************************)

\* Model m, once its player is logged in under an ID.
LoggedIn(m, id) == [m EXCEPT !.type = "PlayerBase", !.userID = id]

\* The player is logged in under the ID that was found; its token is made of
\* that and of what the model holds by now.
LogIn(c, id) ==
  LET p == c.player
  IN  /\ model' = [model EXCEPT ![p] = LoggedIn(@, id)]
      /\ tokens' = tokens \cup {[id       |-> id,
                                 login    |-> model[p].login,
                                 password |-> model[p].password]}
      /\ calls' = calls \ {c}
      /\ Answer(p, c.job, "success")

\* Mutant: a coroutine that fails does not answer.
GiveUpSilently(c) ==
  /\ calls' = calls \ {c}
  /\ UNCHANGED <<model, tokens, answer>>

GiveUp(c) ==
  /\ calls' = calls \ {c}
  /\ Answer(c.player, c.job, "failure")
  /\ UNCHANGED <<model, tokens>>

\* The login is free: it is inserted, with what the model holds by now.
Insert(c) ==
  LET p == c.player
  IN  /\ calls' = (calls \ {c})
            \cup {Call(p, c.job, "Insert", [id |-> 0, login |-> model[p].login,
                                                       password |-> model[p].password])}
      /\ UNCHANGED <<model, tokens, answer>>

\* Mutant: a select that failed does not resume the coroutine.
ResumeUnlessFailed(c) ==
  /\ c.await = "Register"
  /\ c.state = "done"
  /\ IF c.found # {} THEN GiveUp(c) ELSE Insert(c)

ResumeRegister(c) ==
  /\ c.await = "Register"
  /\ IF c.state = "failed" \/ c.found # {} THEN GiveUp(c) ELSE Insert(c)

\* Mutant: the result of the insert is not looked at.
InsertUnchecked(c) ==
  /\ c.await = "Insert"
  /\ LogIn(c, IF c.state = "failed" THEN 0 ELSE CHOOSE id \in c.found : TRUE)

ResumeInsert(c) ==
  /\ c.await = "Insert"
  /\ IF c.state = "failed" THEN GiveUp(c) ELSE \E id \in c.found : LogIn(c, id)

\* Model m, once its ID was read and its type not yet set.
Identified(m, id) == [m EXCEPT !.userID = id]

\* std::stoul throws at the row's experience (which Register does not insert):
\* the coroutine ends where it is, and its request has no answer.
ThrowsAtExperience(c, id) ==
  /\ ~ExperienceParses
  /\ model' = [model EXCEPT ![c.player] = Identified(@, id)]
  /\ calls' = calls \ {c}
  /\ UNCHANGED <<tokens, answer>>

\* The player's row was found: its experience is read, and it is logged in.
Accept(c, id) == LogIn(c, id) \/ ThrowsAtExperience(c, id)

\* Get(0) is any of the rows that were found.
ResumeLogin(c) ==
  /\ c.await = "Login"
  /\ IF c.state = "failed" \/ c.found = {} THEN GiveUp(c) ELSE \E id \in c.found : Accept(c, id)

\* The ID in the model is left as it is.
ResumeToken(c) ==
  /\ c.await = "Token"
  /\ IF c.state = "failed" \/ c.found = {} THEN GiveUp(c) ELSE Accept(c, model[c.player].userID)

Resume(c) ==
  /\ c.state # "sent"
  /\ ResumeRegister(c) \/ ResumeInsert(c) \/ ResumeLogin(c) \/ ResumeToken(c)
  /\ UNCHANGED <<status, db, job, claims, mixed>>

-----------------------------------------------------------------------------
Work == \E c \in calls : Execute(c) \/ Resume(c)

Next ==
  \/ \E p \in Players :
       \/ OnClientConnected(p)
       \/ OnClientDisconnected(p)
       \/ \E creds \in Credentials({0}) : RegisterOrLogin(p, "Register", creds)
                                            \/ RegisterOrLogin(p, "Login", creds)
       \/ \E token \in tokens : RegisterOrLogin(p, "Token", token)
       \/ Refused(p)
       \/ Throws(p)
  \/ Work

Spec == Init /\ [][Next]_vars

\* The database answers or fails every query, and the service loop resumes
\* what it has answered.
FairSpec == Spec /\ WF_vars(Work)

-----------------------------------------------------------------------------
(***************************************************************************)
(* Properties.                                                             *)
(***************************************************************************)

CallType ==
  [player : Players, job : Jobs, await : {"Register", "Insert", "Login", "Token"},
   query : Credentials(Nat), state : {"sent", "done", "failed"}, found : SUBSET (Nat \ {0})]

TypeOK ==
  /\ status \in [Players -> {"new", "connected", "disconnected"}]
  /\ model \in [Players -> [type : {"PlayerAnonymous", "PlayerBase"}, userID : Nat,
                            login : Logins \cup {Unset}, password : Passwords \cup {Unset}]]
  /\ calls \subseteq CallType
  /\ db \subseteq Accounts
  /\ tokens \subseteq Accounts
  /\ job \in [Players -> 1 .. MaxJobs + 1]
  /\ answer \in [Players -> [Jobs -> {"none", "pending", "success", "failure", "unmatched"}]]
  /\ claims \in [Players -> SUBSET Credentials(Nat)]
  /\ mixed \subseteq Players

\* However its coroutines interleave, a player is only ever logged in under
\* an account whose login and password, or whose token, its client presented.
Proves(claim, row) ==
  \/ claim.id = row.id
  \/ claim.login = row.login /\ claim.password = row.password

UserProven ==
  \A p \in Players : model[p].type = "PlayerBase" =>
    \E row \in db, claim \in claims[p] : row.id = model[p].userID /\ Proves(claim, row)

\* The ID, the login and the password that a logged-in player's token is made
\* of belong to one account, unless its model was written by two coroutines
\* at once (which mixes the ID of the one with the login of the other).
IdentityIntact ==
  \A p \in Players \ mixed : model[p].type = "PlayerBase" =>
    [id |-> model[p].userID, login |-> model[p].login, password |-> model[p].password] \in db

\* A player that is logged in, and has no coroutine suspended, stays who it is.
IdentityStays ==
  [][\A p \in Players : model[p].type = "PlayerBase" /\ Suspended(p) = {} =>
       model'[p] = model[p]]_vars

\* A request is answered once, however its player's coroutines interleave.
AnsweredOnce ==
  [][\A p \in Players, j \in Jobs :
       answer[p][j] \in {"success", "failure"} => answer'[p][j] = answer[p][j]]_vars

\* The coroutine of request j of p, while it is suspended, and what is done
\* for it.
CallsOf(p, j) == {c \in calls : c.player = p /\ c.job = j}

WorkFor(p, j) == \E c \in CallsOf(p, j) : Execute(c) \/ Resume(c)

\* No coroutine is left alone: its query is answered or fails, and either
\* resumes it, however many others there are.
WorkGoesOn ==
  \A p \in Players, j \in Jobs :
    []<>(CallsOf(p, j) = {}) \/ []<><<WorkFor(p, j)>>_vars

\* A coroutine that was started answers its client, if that stays connected.
\* (It needs ExperienceParses: after a throw there is no answer.)
AllAnswered ==
  \A p \in Players, j \in Jobs :
    answer[p][j] = "pending" ~> answer[p][j] # "pending" \/ status[p] = "disconnected"
=============================================================================
