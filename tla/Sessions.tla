------------------------------ MODULE Sessions ------------------------------
(***************************************************************************)
(* Sessions and the business a session works in (repository.go, service.go,*)
(* service_business.go, httpapi/context.go).                               *)
(*                                                                         *)
(* The tabs of a browser share one cookie.  A request carries the cookie   *)
(* of the moment it is sent; its answer may replace or clear the cookie of *)
(* the moment it arrives, or be lost.  In between the request runs against *)
(* the database, where other requests on the same session commit.          *)
(***************************************************************************)
EXTENDS FiniteSets

CONSTANTS
    Browsers,
    Tabs,           \* each has one request under way at most
    BrowserOf,      \* the browser of a tab
    Users,
    Tokens,         \* the tokens newSession generates
    Businesses,     \* the businesses there may ever be
    None,
    Keep            \* an answer that says nothing of the cookie

ASSUME SessionsAssumption ==
    /\ BrowserOf \in [Tabs -> Browsers]
    /\ None \notin Tabs \cup Users \cup Tokens \cup Businesses \cup {Keep}
    /\ Keep \notin Tokens

VARIABLES
    \* committed state
    accounts,       \* the registered users
    businesses,     \* those created
    member,         \* the businesses a user is an ACTIVE member of
    holder,         \* the rows of sessions by token_hash: user_id, None for no row
    active,         \* active_business_id
    expired,        \* sessions with expires_at <= now()
    \* browsers
    cookie,
    \* requests
    phase,
    kind,
    sent,           \* the cookie it carries
    who,            \* its user, once known
    target,         \* the business it is about, or None
    fresh,          \* the token it has generated
    locked,         \* the session row its transaction has deleted
    setCookie,      \* what its answer does to the cookie: a token, None or Keep
    \* history
    overlapped,     \* another request of the browser was under way with it
    abandoned,      \* tokens the browser may have lost, and why it could
    wasLive,        \* the session was live when the request was sent
    access          \* the businesses its user was a member of then or at some time
                    \* since, whether still or no longer

dbVars == <<accounts, businesses, member, holder, active, expired>>
\* What a request knows until it has its answer.
requestVars == <<kind, sent, who, target, fresh, locked, wasLive, access>>
answerVars == <<setCookie, overlapped, abandoned>>
sessionVars == <<dbVars, cookie, phase, requestVars, answerVars>>

Kinds == {"LOGIN", "REGISTER", "LOGOUT", "SWITCH", "CREATE", "BUSINESS"}

Steps == {"prepare", "delete", "user", "insert", "session", "context", "act",
          "logout", "switch", "setActive", "create", "answer"}

rows == {k \in Tokens : holder[k] # None}
Live == rows \ expired

Goto(t, step) == phase' = [phase EXCEPT ![t] = step]

\* The transaction, if there is one, has ended, and the answer is on its way.
Reply(t, c) ==
    /\ Goto(t, "answer")
    /\ setCookie' = [setCookie EXCEPT ![t] = c]
    /\ kind' = [kind EXCEPT ![t] = "BUSINESS"]
    /\ sent' = [sent EXCEPT ![t] = None]
    /\ who' = [who EXCEPT ![t] = None]
    /\ target' = [target EXCEPT ![t] = None]
    /\ fresh' = [fresh EXCEPT ![t] = None]
    /\ locked' = [locked EXCEPT ![t] = None]
    /\ wasLive' = [wasLive EXCEPT ![t] = FALSE]
    /\ UNCHANGED <<cookie, overlapped>>

\* Nobody's uncommitted DELETE holds the row.
Unlocked(k) == k = None \/ \A t \in Tabs : locked[t] # k

\* The row of a deleted session is cleared, and that of a new one filled.
Replace(gone, k, u, b) ==
    /\ holder' = [j \in Tokens |-> IF j = k THEN u ELSE IF j = gone THEN None ELSE holder[j]]
    /\ active' = [j \in Tokens |-> IF j = k THEN b ELSE IF j = gone THEN None ELSE active[j]]
    /\ expired' = expired \ {gone}
    /\ abandoned' = abandoned \ {gone}

\* 32 random bytes are not those of any session or cookie there is: a token
\* that nobody has any more stands for a new one.
IsNew(k) ==
    /\ k \notin rows
    /\ \A b \in Browsers : cookie[b] # k
    /\ \A t \in Tabs : k \notin {sent[t], fresh[t], setCookie[t]}

\* The user a request acts for, or will if its session is still there.
UserOf(t) == IF who[t] # None \/ sent[t] = None THEN who[t] ELSE holder[sent[t]]

Forget(t) == access' = [access EXCEPT ![t] = {}]

\* Memberships change: what a request under way could rely on at some time it
\* remembers, also when it is taken away.
Remember(waiting) ==
    access' = [t \in Tabs |->
        {b \in Businesses : t \in waiting /\ wasLive[t]
            /\ (b \in access[t] \/ (UserOf(t) # None /\ b \in member'[UserOf(t)]))}]

------------------------------------------------------------------------------
(* Sending *)

Neighbours(t) == {u \in Tabs \ {t} : BrowserOf[u] = BrowserOf[t] /\ phase[u] # "idle"}

Send(t) ==
    /\ phase[t] = "idle"
    /\ \E action \in Kinds :
        LET k == cookie[BrowserOf[t]]
            live == k \in Live /\ action \notin {"LOGIN", "REGISTER"}
        IN  /\ kind' = [kind EXCEPT ![t] = action]
            /\ Goto(t, IF action \in {"LOGIN", "REGISTER"} THEN "prepare" ELSE "session")
            /\ sent' = [sent EXCEPT ![t] = k]
            /\ wasLive' = [wasLive EXCEPT ![t] = live]
            /\ access' = [access EXCEPT ![t] = IF live THEN member[holder[k]] ELSE {}]
    /\ overlapped' = [u \in Tabs |-> \/ overlapped[u] \/ u \in Neighbours(t)
                                     \/ u = t /\ Neighbours(t) # {}]
    /\ UNCHANGED <<dbVars, cookie, who, target, fresh, locked, setCookie, abandoned>>

------------------------------------------------------------------------------
(* Register and Login *)

\* FindUserByEmail and the password for a login; newSession.
Prepare(t) ==
    /\ phase[t] = "prepare"
    /\ \E u \in Users, k \in Tokens :
        /\ kind[t] = "LOGIN" => u \in accounts
        /\ IsNew(k)
        /\ who' = [who EXCEPT ![t] = u]
        /\ fresh' = [fresh EXCEPT ![t] = k]
    /\ Goto(t, "delete")
    /\ UNCHANGED <<dbVars, cookie, kind, sent, target, locked, wasLive, access, answerVars>>

\* Mutated: the previous token is not handed down.
KeepPrevious(t) ==
    /\ phase[t] = "delete"
    /\ Goto(t, IF kind[t] = "LOGIN" THEN "insert" ELSE "user")
    /\ UNCHANGED <<dbVars, cookie, requestVars, answerVars>>

\* BEGIN; DELETE FROM sessions WHERE token_hash = the cookie's.
DeletePrevious(t) ==
    /\ phase[t] = "delete"
    /\ Unlocked(sent[t])
    /\ locked' = [locked EXCEPT ![t] = IF sent[t] \in rows THEN sent[t] ELSE None]
    /\ Goto(t, IF kind[t] = "LOGIN" THEN "insert" ELSE "user")
    /\ UNCHANGED <<dbVars, cookie, kind, sent, who, target, fresh, wasLive, access, answerVars>>

\* The unique email: an uncommitted user of the same email is waited for.
EmailFree(t) ==
    \A v \in Tabs \ {t} : ~(kind[v] = "REGISTER" /\ phase[v] = "insert" /\ who[v] = who[t])

InsertUser(t) ==
    /\ phase[t] = "user"
    /\ EmailFree(t) /\ who[t] \notin accounts
    /\ Goto(t, "insert")
    /\ UNCHANGED <<dbVars, cookie, requestVars, answerVars>>

\* EMAIL_ALREADY_EXISTS: the previous session stays.
EmailTaken(t) ==
    /\ phase[t] = "user"
    /\ EmailFree(t) /\ who[t] \in accounts
    /\ Reply(t, Keep) /\ Forget(t)
    /\ UNCHANGED <<dbVars, abandoned>>

\* Where a new session starts: the first business of a login's user, if any.
StartOf(t) ==
    IF kind[t] = "REGISTER" \/ member[who[t]] = {} THEN {None} ELSE member[who[t]]

\* The business is read, the session inserted, COMMIT.
InsertSession(t) ==
    /\ phase[t] = "insert"
    /\ \E b \in StartOf(t) : Replace(locked[t], fresh[t], who[t], b)
    /\ accounts' = accounts \cup {who[t]}
    /\ Reply(t, fresh[t]) /\ Forget(t)
    /\ UNCHANGED <<businesses, member>>

------------------------------------------------------------------------------
(* requireSession and requireBusiness *)

\* LoadSession, and where the route leads.
LoadSession(t) ==
    /\ phase[t] = "session"
    /\ sent[t] \in Live
    /\ who' = [who EXCEPT ![t] = holder[sent[t]]]
    /\ target' = [target EXCEPT ![t] = active[sent[t]]]
    /\ Goto(t, CASE kind[t] = "LOGOUT" -> "logout"
                 [] kind[t] = "SWITCH" -> "switch"
                 [] kind[t] = "CREATE" -> "create"
                 [] OTHER -> "context")
    /\ UNCHANGED <<dbVars, cookie, kind, sent, fresh, locked, wasLive, access, answerVars>>

\* UNAUTHENTICATED: the answer clears the cookie.
Unauthenticated(t) ==
    /\ phase[t] = "session"
    /\ sent[t] \notin Live
    /\ Reply(t, None) /\ Forget(t)
    /\ UNCHANGED <<dbVars, abandoned>>

\* So does an answer for a database that fails: the session itself stays.
LoadFails(t) ==
    /\ phase[t] = "session" /\ sent[t] # None
    /\ abandoned' = abandoned \cup ({sent[t]} \cap rows)
    /\ Reply(t, None) /\ Forget(t)
    /\ UNCHANGED dbVars

\* Mutated: the business of the session is taken as it is.
TrustSession(t) == target[t] # None

\* GetBusinessContext finds an ACTIVE membership in the session's business.
HasAccess(t) == target[t] \in member[who[t]]

ReadContext(t) ==
    /\ phase[t] = "context"
    /\ HasAccess(t)
    /\ Goto(t, "act")
    /\ UNCHANGED <<dbVars, cookie, requestVars, answerVars>>

\* ACTIVE_BUSINESS_REQUIRED or BUSINESS_ACCESS_DENIED.
NoAccess(t) ==
    /\ phase[t] = "context"
    /\ ~HasAccess(t)
    /\ Reply(t, Keep) /\ Forget(t)
    /\ UNCHANGED <<dbVars, abandoned>>

\* The handler of the route, in the business it was given.
Act(t) ==
    /\ phase[t] = "act"
    /\ Reply(t, Keep) /\ Forget(t)
    /\ UNCHANGED <<dbVars, abandoned>>

------------------------------------------------------------------------------
(* Logout, SwitchBusiness and CreateBusiness *)

\* A session that has gone in the meantime is deleted as well.
Logout(t) ==
    /\ phase[t] = "logout"
    /\ Unlocked(sent[t])
    /\ Replace(sent[t], None, None, None)
    /\ Reply(t, None) /\ Forget(t)
    /\ UNCHANGED <<accounts, businesses, member>>

FindMembership(t) ==
    /\ phase[t] = "switch"
    /\ \E b \in member[who[t]] : target' = [target EXCEPT ![t] = b]
    /\ Goto(t, "setActive")
    /\ UNCHANGED <<dbVars, cookie, kind, sent, who, fresh, locked, wasLive, access, answerVars>>

\* UPDATE sessions ... WHERE id AND user_id, and COMMIT.
SetActive(t) ==
    /\ phase[t] = "setActive"
    /\ Unlocked(sent[t])
    /\ sent[t] \in rows
    /\ active' = [active EXCEPT ![sent[t]] = target[t]]
    /\ Reply(t, Keep) /\ Forget(t)
    /\ UNCHANGED <<accounts, businesses, member, holder, expired, abandoned>>

\* Mutated: RowsAffected is not looked at.
SessionIgnored(t) == TRUE

\* RowsAffected() = 1.
SessionThere(t) == sent[t] \in rows

\* The rows of the new business, unknown to anybody before the COMMIT; the
\* UPDATE of the session comes last.
CreateBusiness(t) ==
    /\ phase[t] = "create"
    /\ Unlocked(sent[t])
    /\ SessionThere(t)
    /\ \E b \in Businesses \ businesses :
        /\ businesses' = businesses \cup {b}
        /\ member' = [member EXCEPT ![who[t]] = @ \cup {b}]
        /\ active' = IF sent[t] \in rows THEN [active EXCEPT ![sent[t]] = b] ELSE active
    /\ Reply(t, Keep) /\ Remember(Tabs \ {t})
    /\ UNCHANGED <<accounts, holder, expired, abandoned>>

\* ErrForbidden: the session was replaced or deleted in the meantime.
SessionGone(t) ==
    /\ phase[t] \in {"setActive", "create"}
    /\ Unlocked(sent[t])
    /\ sent[t] \notin rows
    /\ Reply(t, Keep) /\ Forget(t)
    /\ UNCHANGED <<dbVars, abandoned>>

------------------------------------------------------------------------------
(* Failures and answers *)

\* Wrong input, password or CSRF token, a failing statement: rollback.
Fail(t) ==
    /\ phase[t] \notin {"idle", "session", "answer"}
    /\ Reply(t, Keep) /\ Forget(t)
    /\ UNCHANGED <<dbVars, abandoned>>

EndRequest(t) ==
    /\ Goto(t, "idle")
    /\ setCookie' = [setCookie EXCEPT ![t] = Keep]
    /\ overlapped' = [overlapped EXCEPT ![t] = FALSE]
    /\ UNCHANGED <<dbVars, requestVars>>

Deliver(t) ==
    /\ phase[t] = "answer"
    /\ cookie' = [cookie EXCEPT ![BrowserOf[t]] = IF setCookie[t] = Keep THEN @ ELSE setCookie[t]]
    /\ abandoned' = abandoned \cup ({setCookie[t]} \cap {k \in rows : overlapped[t]})
    /\ EndRequest(t)

Lose(t) ==
    /\ phase[t] = "answer"
    /\ abandoned' = abandoned \cup ({setCookie[t]} \cap rows)
    /\ EndRequest(t)
    /\ UNCHANGED cookie

------------------------------------------------------------------------------
(* Time and the owners of a business *)

Expire(k) ==
    /\ k \in Live
    /\ expired' = expired \cup {k}
    /\ UNCHANGED <<accounts, businesses, member, holder, active, cookie, phase, requestVars, answerVars>>

\* InviteBusinessMember and UpdateBusinessMember, see Membership.
ChangeMember(u, b) ==
    /\ u \in accounts /\ b \in businesses
    /\ member' = [member EXCEPT ![u] = IF b \in @ THEN @ \ {b} ELSE @ \cup {b}]
    /\ Remember(Tabs)
    /\ UNCHANGED <<accounts, businesses, holder, active, expired, cookie, phase, kind, sent, who, target,
                   fresh, locked, wasLive, answerVars>>

------------------------------------------------------------------------------
(* Specification *)

Authenticate(t) ==
    Prepare(t) \/ DeletePrevious(t) \/ InsertUser(t) \/ EmailTaken(t) \/ InsertSession(t)

Serve(t) ==
    \/ LoadSession(t) \/ Unauthenticated(t) \/ LoadFails(t)
    \/ ReadContext(t) \/ NoAccess(t) \/ Act(t)
    \/ Logout(t) \/ FindMembership(t) \/ SetActive(t) \/ CreateBusiness(t) \/ SessionGone(t)

SessionInit ==
    /\ accounts = {} /\ businesses = {}
    /\ member = [u \in Users |-> {}]
    /\ expired = {}
    /\ holder = [k \in Tokens |-> None]
    /\ active = [k \in Tokens |-> None]
    /\ cookie = [b \in Browsers |-> None]
    /\ phase = [t \in Tabs |-> "idle"]
    /\ kind = [t \in Tabs |-> "BUSINESS"]
    /\ sent = [t \in Tabs |-> None]
    /\ who = [t \in Tabs |-> None]
    /\ target = [t \in Tabs |-> None]
    /\ fresh = [t \in Tabs |-> None]
    /\ locked = [t \in Tabs |-> None]
    /\ setCookie = [t \in Tabs |-> Keep]
    /\ overlapped = [t \in Tabs |-> FALSE]
    /\ abandoned = {}
    /\ wasLive = [t \in Tabs |-> FALSE]
    /\ access = [t \in Tabs |-> {}]

SessionNext ==
    \/ \E t \in Tabs : Send(t) \/ Authenticate(t) \/ Serve(t) \/ Fail(t) \/ Deliver(t) \/ Lose(t)
    \/ \E k \in Tokens : Expire(k)
    \/ \E u \in Users, b \in Businesses : ChangeMember(u, b)

SessionSpec == SessionInit /\ [][SessionNext]_sessionVars

------------------------------------------------------------------------------
(* Properties *)

SessionTypes ==
    /\ accounts \subseteq Users /\ businesses \subseteq Businesses
    /\ member \in [Users -> SUBSET businesses]
    /\ expired \subseteq Tokens
    /\ holder \in [Tokens -> accounts \cup {None}]
    /\ active \in [Tokens -> businesses \cup {None}]
    /\ cookie \in [Browsers -> Tokens \cup {None}]
    /\ phase \in [Tabs -> Steps \cup {"idle"}]
    /\ kind \in [Tabs -> Kinds]
    /\ sent \in [Tabs -> Tokens \cup {None}]
    /\ who \in [Tabs -> Users \cup {None}]
    /\ target \in [Tabs -> Businesses \cup {None}]
    /\ fresh \in [Tabs -> Tokens \cup {None}]
    /\ locked \in [Tabs -> Tokens \cup {None}]
    /\ setCookie \in [Tabs -> Tokens \cup {None, Keep}]
    /\ overlapped \in [Tabs -> BOOLEAN]
    /\ abandoned \subseteq Tokens
    /\ wasLive \in [Tabs -> BOOLEAN]
    /\ access \in [Tabs -> SUBSET Businesses]

\* "The old cookie of the browser is revoked when authentication succeeds": a
\* live session is in a browser's cookie or in an answer on its way to one.
\* Only a session whose answer was lost, whose answer was overtaken by another
\* request of the browser, or whose cookie was cleared because the database
\* failed, may be live with nobody to end it.
NoStraySession ==
    \A k \in Live \ abandoned :
        \/ \E b \in Browsers : cookie[b] = k
        \/ \E t \in Tabs : setCookie[t] = k

\* A request acts in a business only if its session was live when it was sent
\* (never after a logout, a new login or the end of its time was answered) and
\* its user was an active member of that business at some time since: who had
\* left before it was sent does not get in.  A member suspended after the read
\* of the context still acts; nothing is said of that.
AccessIsRecent ==
    \A t \in Tabs : phase[t] = "act" => wasLive[t] /\ target[t] \in access[t]

\* A business comes into being together with the session that works in it: its
\* creator is a member, and a session of the creator has it as active.
BornActive ==
    [][\A b \in businesses' \ businesses :
         \E k \in Tokens : holder'[k] # None /\ active'[k] = b /\ b \in member'[holder'[k]]]_sessionVars
=============================================================================
