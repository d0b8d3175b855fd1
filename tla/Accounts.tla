------------------------------ MODULE Accounts ------------------------------
(***************************************************************************)
(* The auth service: a login exchanges a code for the Google account it    *)
(* was issued to, upserts the user of that account and creates a session;  *)
(* every other request resolves the session of its cookie first.           *)
(***************************************************************************)
EXTENDS Requests, Sequences

CONSTANTS
  Codes,         \* authorization codes of Google, each good for one exchange
  GoogleUser,    \* the account [sub, email] a code was issued for
  MaxSessions    \* bound on sessions

ASSUME AccountsAssumption ==
  /\ GoogleUser \in [Codes -> [sub : STRING, email : STRING]]
  /\ MaxSessions \in Nat
  /\ None \notin Nat \cup Codes \cup [sub : STRING, email : STRING]

VARIABLES
  userRows,    \* the rows of users, by id: [sub, email]
  consents,    \* ids of the users whose consents are recorded
  sessions,    \* sessions in Redis, by number: the user id, or None
  granted,     \* the code each session was created for
  usedCodes,
  aphase,      \* where each login is
  login        \* its code and the user id it was given

accountsVars == <<userRows, consents, sessions, granted, usedCodes, aphase, login>>

UserIds == 1..Cardinality(Codes)
NoLogin == [code |-> None, id |-> 0]

AccountsTypeOK ==
  /\ userRows \in Seq([sub : STRING, email : STRING])
  /\ consents \in SUBSET UserIds
  /\ sessions \in [1..MaxSessions -> UserIds \cup {None}]
  /\ granted \in Seq(Codes)
  /\ usedCodes \in SUBSET Codes
  /\ aphase \in [Workers -> {"idle", "upsert", "create"}]
  /\ login \in [Workers -> [code : Codes \cup {None}, id : UserIds \cup {0}]]

AccountsInit ==
  /\ userRows = <<>>
  /\ consents = {}
  /\ sessions = [s \in 1..MaxSessions |-> None]
  /\ granted = <<>>
  /\ usedCodes = {}
  /\ aphase = [w \in Workers |-> "idle"]
  /\ login = [w \in Workers |-> NoLogin]

----------------------------------------------------------------------------
EndLogin(w) == aphase' = [aphase EXCEPT ![w] = "idle"] /\ login' = [login EXCEPT ![w] = NoLogin]

\* Google refuses a code it has seen; of any error the caller is told that the code is invalid.
ExchangeCode(w, code) ==
  /\ aphase[w] = "idle"
  /\ code \notin usedCodes
  /\ \/ /\ usedCodes' = usedCodes \cup {code}
        /\ aphase' = [aphase EXCEPT ![w] = "upsert"]
        /\ login' = [login EXCEPT ![w].code = code]
        /\ UNCHANGED faults
     \/ usedCodes' = usedCodes \cup {code} /\ Fault /\ UNCHANGED <<aphase, login>>
  /\ UNCHANGED <<userRows, consents, sessions, granted>>

\* The rows after an upsert of a Google account: the one of its sub takes the email, or a new one.
WithAccount_ByEmail(g) ==   \* mutation: the conflict is looked for in the email
  IF \E i \in DOMAIN userRows : userRows[i].email = g.email
    THEN [i \in DOMAIN userRows |-> IF userRows[i].email = g.email THEN g ELSE userRows[i]]
    ELSE Append(userRows, g)
WithAccount(g) ==
  IF \E i \in DOMAIN userRows : userRows[i].sub = g.sub
    THEN [i \in DOMAIN userRows |-> IF userRows[i].sub = g.sub THEN g ELSE userRows[i]]
    ELSE Append(userRows, g)

UpsertByGoogleSub(w) ==
  LET rows == WithAccount(GoogleUser[login[w].code]) IN
  /\ aphase[w] = "upsert"
  /\ \/ /\ userRows' = rows
        /\ \E i \in DOMAIN rows :
             /\ rows[i] = GoogleUser[login[w].code]
             /\ login' = [login EXCEPT ![w].id = i]
        /\ aphase' = [aphase EXCEPT ![w] = "create"]
        /\ UNCHANGED faults
     \/ userRows' \in {userRows, rows} /\ Fault /\ EndLogin(w)
  /\ UNCHANGED <<consents, sessions, granted, usedCodes>>

\* A session whose creation is reported as failed may be there, but nobody has its cookie.
CreateSession(w) ==
  /\ aphase[w] = "create"
  /\ Len(granted) < MaxSessions
  /\ \/ /\ granted' = Append(granted, login[w].code)
        /\ sessions' = [sessions EXCEPT ![Len(granted) + 1] = login[w].id]
        /\ UNCHANGED faults
     \/ Fault /\ UNCHANGED <<granted, sessions>>
  /\ EndLogin(w)
  /\ UNCHANGED <<userRows, consents, usedCodes>>

\* The TTL of a session runs out.
SessionEnds(s) ==
  /\ sessions[s] # None
  /\ sessions' = [sessions EXCEPT ![s] = None]
  /\ UNCHANGED <<userRows, consents, granted, usedCodes, aphase, login, faults>>

\* Get of the session store: the user id behind a cookie, or None.
SessionUser(s) == sessions[s]
GetByID(id) == IF id \in DOMAIN userRows THEN userRows[id] ELSE None

\* The user a cookie stands for: no session and no user are both unauthorized.
Authenticate(s) == GetByID(SessionUser(s))
RequireAuth(s) == Authenticate(s) # None

\* Consent is recorded in full or not at all.
SubmitConsent(s) ==
  /\ RequireAuth(s)
  /\ consents' = consents \cup {SessionUser(s)}
  /\ UNCHANGED <<userRows, sessions, granted, usedCodes, aphase, login, faults>>

AbortLogin(w) ==
  /\ aphase[w] # "idle"
  /\ Fault
  /\ EndLogin(w)
  /\ UNCHANGED <<userRows, consents, sessions, granted, usedCodes>>

AccountsNext ==
  \/ \E w \in Workers :
       \/ \E code \in Codes : ExchangeCode(w, code)
       \/ UpsertByGoogleSub(w) \/ CreateSession(w) \/ AbortLogin(w)
  \/ \E s \in 1..MaxSessions : SessionEnds(s) \/ SubmitConsent(s)

AccountsSpec == AccountsInit /\ faults = 0 /\ [][AccountsNext]_<<accountsVars, faults>>

----------------------------------------------------------------------------
(* Properties *)

\* Logins of one Google account overlap, with the email it had or the one it has now; still the
\* account has one user, a cookie stands for the account whose login set it, whatever was
\* upserted since, and consent belongs to a user there is (LoginGoogle of auth_service.go,
\* upsertSQL of user_repository.go).
SessionIsOwners ==
  /\ \A i, j \in DOMAIN userRows : userRows[i].sub = userRows[j].sub => i = j
  /\ \A s \in DOMAIN granted :
       sessions[s] # None =>
         /\ Authenticate(s) # None
         /\ Authenticate(s).sub = GoogleUser[granted[s]].sub
  /\ consents \subseteq DOMAIN userRows
============================================================================
