----------------------------- MODULE Idempotency -----------------------------
(***************************************************************************)
(* The Idempotency-Key middleware of the sales and purchase routes         *)
(* (httpapi/idempotency.go): look the key up, run the handler, store what  *)
(* it answered.  The three are separate transactions, so requests with the *)
(* same key interleave, and a crash or a failing statement falls between   *)
(* them.                                                                   *)
(*                                                                         *)
(* An intent is what a client means by a request: a route with its         *)
(* parameters, a key and a body.  An attempt is one request sent for it.   *)
(***************************************************************************)
CONSTANTS
    Intents,
    Keys, Bodies,
    KeyOf, BodyOf,  \* the key and the body of each intent
    Attempts,       \* bound: the requests that are sent
    NoIntent, NoAttempt, NoRecord,
    Failures        \* what may go wrong: "crash", "database", "store", "read"

\* Two intents with one key differ in their bodies: the lookup knows neither
\* route nor operation, and a key reused on another route with an equal body
\* would replay the answer of the first.
ASSUME IdempotencyAssumption ==
    /\ KeyOf \in [Intents -> Keys] /\ BodyOf \in [Intents -> Bodies]
    /\ \A i, j \in Intents : KeyOf[i] = KeyOf[j] /\ BodyOf[i] = BodyOf[j] => i = j
    /\ NoIntent \notin Intents /\ NoAttempt \notin Attempts
    /\ NoRecord \notin [body : Bodies, status : {"ok", "refused"}, by : Attempts]
    /\ Failures \subseteq {"crash", "database", "store", "read"}

VARIABLES
    pc,         \* of each attempt: "unsent", "running", "ran", "done" or "lost"
    intent,     \* the intent an attempt was sent for
    answer,     \* what the handler or the middleware answered to it
    stored,     \* idempotency_keys: the record of each key
    effects,    \* the attempts whose handler committed
    \* history
    before,     \* the attempts that had ended when an attempt was sent
    unstored    \* those that could not write the record their key did not have

vars == <<pc, intent, answer, stored, effects, before, unstored>>

\* A status below 300, 400 to 499, 409 IDEMPOTENCY_CONFLICT, or 500 and above; and the
\* attempt whose handler wrote it.
Answers == [status : {"none", "ok", "refused", "conflict", "error"}, by : Attempts \cup {NoAttempt}]
Says(st, a) == [status |-> st, by |-> a]

Records == [body : Bodies, status : {"ok", "refused"}, by : Attempts]

InFlight == {a \in Attempts : pc[a] \in {"running", "ran"}}
Ended == {a \in Attempts : pc[a] \in {"done", "lost"}}
SameKey(a, b) == KeyOf[intent[a]] = KeyOf[intent[b]]

------------------------------------------------------------------------------
(* A request *)

\* Mutated: the record is looked up by key and body.
FoundByBody(i) == stored[KeyOf[i]] # NoRecord /\ stored[KeyOf[i]].body = BodyOf[i]

Found(i) == stored[KeyOf[i]] # NoRecord

\* Mutated: the record's hash is not compared.
ReplayAny(i) == Says(stored[KeyOf[i]].status, stored[KeyOf[i]].by)

Replay(i) ==
    IF stored[KeyOf[i]].body = BodyOf[i]
    THEN Says(stored[KeyOf[i]].status, stored[KeyOf[i]].by)
    ELSE Says("conflict", NoAttempt)

\* The client sends attempt a, and FindIdempotency decides whether to run it.
Lookup(a) ==
    /\ pc[a] = "unsent"
    /\ \E i \in Intents :
        /\ intent' = [intent EXCEPT ![a] = i]
        /\ IF Found(i)
           THEN /\ answer' = [answer EXCEPT ![a] = Replay(i)]
                /\ pc' = [pc EXCEPT ![a] = "done"]
           ELSE /\ pc' = [pc EXCEPT ![a] = "running"]
                /\ UNCHANGED answer
    /\ before' = [before EXCEPT ![a] = Ended]
    /\ UNCHANGED <<stored, effects, unstored>>

LookupFails(a) ==
    /\ "database" \in Failures
    /\ pc[a] = "unsent"
    /\ \E i \in Intents : intent' = [intent EXCEPT ![a] = i]
    /\ answer' = [answer EXCEPT ![a] = Says("error", a)]
    /\ pc' = [pc EXCEPT ![a] = "done"]
    /\ before' = [before EXCEPT ![a] = Ended]
    /\ UNCHANGED <<stored, effects, unstored>>

\* The handler's transaction commits: whether it may is its own affair.  The
\* answer is read afterwards, in another one, and when that fails the client is
\* told of an error.
Commit(a) ==
    /\ pc[a] = "running"
    /\ effects' = effects \cup {a}
    /\ \E st \in {"ok"} \cup (IF "read" \in Failures THEN {"error"} ELSE {}) :
        answer' = [answer EXCEPT ![a] = Says(st, a)]
    /\ pc' = [pc EXCEPT ![a] = "ran"]
    /\ UNCHANGED <<intent, stored, before, unstored>>

\* The handler refuses the request (stock, the state of the document or of
\* another one), or its transaction fails.
RollBack(a) ==
    /\ pc[a] = "running"
    /\ \E st \in {"refused"} \cup (IF "database" \in Failures THEN {"error"} ELSE {}) :
        answer' = [answer EXCEPT ![a] = Says(st, a)]
    /\ pc' = [pc EXCEPT ![a] = "ran"]
    /\ UNCHANGED <<intent, stored, effects, before, unstored>>

\* Mutated: whatever was answered is stored.
StorableAll(a) == TRUE

\* Mutated: only successes are stored.
StorableOk(a) == answer[a].status = "ok"

\* capture.status < 500.
Storable(a) == answer[a].status \in {"ok", "refused"}

\* Mutated: ON CONFLICT DO UPDATE.
Overwritten(a) ==
    [stored EXCEPT ![KeyOf[intent[a]]] =
        [body |-> BodyOf[intent[a]], status |-> answer[a].status, by |-> answer[a].by]]

\* StoreIdempotency: ON CONFLICT DO NOTHING.
Kept(a) ==
    IF Found(intent[a])
    THEN stored
    ELSE [stored EXCEPT ![KeyOf[intent[a]]] =
             [body |-> BodyOf[intent[a]], status |-> answer[a].status, by |-> answer[a].by]]

\* The error of StoreIdempotency is dropped.  net/http completes the answer
\* when the handler returns, which is after this.
Store(a) ==
    /\ pc[a] = "ran"
    /\ \/ /\ stored' = IF Storable(a) THEN Kept(a) ELSE stored
          /\ UNCHANGED unstored
       \/ /\ "store" \in Failures /\ Storable(a)
          /\ unstored' = IF Found(intent[a]) THEN unstored ELSE unstored \cup {a}
          /\ UNCHANGED stored
    /\ pc' = [pc EXCEPT ![a] = "done"]
    /\ UNCHANGED <<intent, answer, effects, before>>

\* The process dies, or the clients go away and with them the contexts of
\* their requests: no answer arrives.
Crash ==
    /\ "crash" \in Failures
    /\ \E L \in (SUBSET InFlight) \ {{}} :
        /\ pc' = [a \in Attempts |-> IF a \in L THEN "lost" ELSE pc[a]]
        /\ answer' = [a \in Attempts |-> IF a \in L THEN Says("none", NoAttempt) ELSE answer[a]]
    /\ UNCHANGED <<intent, stored, effects, before, unstored>>

------------------------------------------------------------------------------
(* Specification *)

Init ==
    /\ pc = [a \in Attempts |-> "unsent"]
    /\ intent = [a \in Attempts |-> NoIntent]
    /\ answer = [a \in Attempts |-> Says("none", NoAttempt)]
    /\ stored = [k \in Keys |-> NoRecord]
    /\ effects = {}
    /\ before = [a \in Attempts |-> {}]
    /\ unstored = {}

Next ==
    \/ \E a \in Attempts : Lookup(a) \/ LookupFails(a) \/ Commit(a) \/ RollBack(a) \/ Store(a)
    \/ Crash

Spec == Init /\ [][Next]_vars

------------------------------------------------------------------------------
(* Properties *)

TypeOK ==
    /\ pc \in [Attempts -> {"unsent", "running", "ran", "done", "lost"}]
    /\ intent \in [Attempts -> Intents \cup {NoIntent}]
    /\ answer \in [Attempts -> Answers]
    /\ stored \in [Keys -> Records \cup {NoRecord}]
    /\ effects \subseteq Attempts
    /\ before \in [Attempts -> SUBSET Attempts]
    /\ unstored \subseteq Attempts

\* Whatever fails, a client that is told of success is told of an effect of
\* its own intent: replays never cross payloads, and a record is never
\* written for a handler that did not commit.
SuccessIsTrue ==
    \A a \in Attempts : answer[a].status = "ok" =>
        /\ answer[a].by \in effects
        /\ intent[answer[a].by] = intent[a]

\* A record is replayed unchanged for ever: the answer a client got by
\* replay stays the answer of the key, whoever stores after it.
RecordsAreFinal ==
    [][\A k \in Keys : stored[k] # NoRecord => stored'[k] = stored[k]]_vars

\* The three ways in which a request ends without settling its key: no
\* answer, an answer of an error, an answer whose record was not written.
Unsettled(a) == pc[a] = "lost" \/ answer[a].status = "error" \/ a \in unstored

\* An answer settles its key, also a refusal, a replay or a conflict: no request
\* sent after it has an effect, whatever its payload.  So a key has two effects
\* only if one request was sent before the other had ended, or after the other
\* ended in one of the three ways.
AnsweredIsSettled ==
    \A b \in effects : \A a \in before[b] : SameKey(a, b) => Unsettled(a)

\* Neither was sent after the end of the other.
Overlapping(a, b) == a # b /\ a \notin before[b] /\ b \notin before[a]

\* A retry gets the answer of the request it repeats, unless that one did not
\* settle the key, or overlapped the request whose answer was stored instead.
RetriesAgree ==
    \A b \in Attempts : \A a \in before[b] :
        /\ intent[a] = intent[b] /\ ~Unsettled(a)
        /\ pc[b] = "done" /\ answer[b].status # "error"
        => \/ answer[b] = answer[a]
           \/ Found(intent[a]) /\ Overlapping(a, stored[KeyOf[intent[a]]].by)

\* README.md:79: the same key with another payload is answered 409.
OtherPayloadConflicts ==
    \A a, b \in Attempts :
        /\ pc[a] = "done" /\ answer[a].status = "ok"
        /\ pc[b] = "done" /\ answer[b].status = "ok"
        /\ SameKey(a, b)
        => BodyOf[intent[a]] = BodyOf[intent[b]]
==============================================================================
