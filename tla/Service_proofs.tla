---------------------------- MODULE Service_proofs ----------------------------
(***************************************************************************)
(* The process that serves the API and the middleware in front of its      *)
(* handlers, for any value of the constants: safety of Idempotency, of the *)
(* migrations a Server runs at start-up, and of Sessions.  The three share *)
(* no state.                                                               *)
(***************************************************************************)
EXTENDS Idempotency, Server, Sessions, WellFoundedInduction, TLAPS

------------------------------------------------------------------------------
(* Idempotency: the inductive invariant *)

\* Where attempt a is tells whether its handler committed and what it said.
Stage(a) ==
    /\ pc[a] # "unsent" => intent[a] \in Intents
    /\ pc[a] \in {"unsent", "running"} => a \notin effects
    /\ pc[a] \in {"unsent", "running", "lost"} => answer[a].status = "none"
    /\ pc[a] = "ran" => answer[a].by = a
    /\ pc[a] = "ran" /\ answer[a].status = "ok" => a \in effects

\* A record of a success is that of an effect of an intent with its key and body.
RecordTrue(k) ==
    stored[k] # NoRecord /\ stored[k].status = "ok" =>
        /\ stored[k].by \in effects
        /\ KeyOf[intent[stored[k].by]] = k
        /\ BodyOf[intent[stored[k].by]] = stored[k].body

IInv ==
    /\ TypeOK
    /\ \A a \in Attempts : Stage(a)
    /\ \A k \in Keys : RecordTrue(k)
    /\ SuccessIsTrue

\* An attempt was sent after the end of those before it; only one that has
\* ended is known to have no record of its own.
Sent(a) ==
    /\ before[a] \subseteq Ended
    /\ a \in unstored => pc[a] = "done"
    /\ pc[a] = "ran" => answer[a].status \in {"ok", "refused", "error"}

\* The writer of a record has ended, and settled the key.
RecordSettled(k) ==
    stored[k] # NoRecord =>
        LET c == stored[k].by
        IN  c \in Attempts /\ pc[c] = "done" /\ ~Unsettled(c) /\ KeyOf[intent[c]] = k

\* What AnsweredIsSettled says of an effect, from the lookup on.
Late(b) ==
    b \in InFlight \cup effects => \A a \in before[b] : SameKey(a, b) => Unsettled(a)

\* Who settles a key leaves a record, and tells what it says or has
\* overlapped its writer.
Told(a) ==
    pc[a] = "done" /\ ~Unsettled(a) =>
        /\ Found(intent[a])
        /\ answer[a] = Replay(intent[a]) \/ Overlapping(a, stored[KeyOf[intent[a]]].by)

\* Who comes after that tells what the record says.
Heard(b) ==
    /\ pc[b] = "done" /\ answer[b].status # "error"
    /\ \E a \in before[b] : SameKey(a, b) /\ ~Unsettled(a)
    => answer[b] = Replay(intent[b])

Settling(a) == Sent(a) /\ Late(a) /\ Told(a) /\ Heard(a)

SettledInv ==
    /\ \A a \in Attempts : Settling(a)
    /\ \A k \in Keys : RecordSettled(k)

------------------------------------------------------------------------------
(* Types *)

LEMMA AnswersTyped ==
    /\ \A st \in {"none", "ok", "refused", "conflict", "error"}, a \in Attempts \cup {NoAttempt} :
           /\ Says(st, a) \in Answers
           /\ Says(st, a).status = st
           /\ Says(st, a).by = a
    /\ \A i \in Intents : TypeOK /\ Found(i) =>
           /\ stored[KeyOf[i]] \in Records
           /\ Replay(i) \in Answers
           /\ Replay(i).status \in {"ok", "refused", "conflict"}
<1>1. ASSUME NEW st \in {"none", "ok", "refused", "conflict", "error"},
             NEW a \in Attempts \cup {NoAttempt}
      PROVE  Says(st, a) \in Answers /\ Says(st, a).status = st /\ Says(st, a).by = a
      BY DEF Says, Answers
<1>2. ASSUME NEW i \in Intents, TypeOK, Found(i)
      PROVE  /\ stored[KeyOf[i]] \in Records
             /\ Replay(i) \in Answers
             /\ Replay(i).status \in {"ok", "refused", "conflict"}
      <2>1. KeyOf[i] \in Keys
            BY IdempotencyAssumption
      <2>2. stored[KeyOf[i]] \in Records
            BY <1>2, <2>1 DEF TypeOK, Found
      <2>3. stored[KeyOf[i]].status \in {"ok", "refused"} /\ stored[KeyOf[i]].by \in Attempts
            BY <2>2 DEF Records
      <2>4. Replay(i) \in {Says(stored[KeyOf[i]].status, stored[KeyOf[i]].by),
                           Says("conflict", NoAttempt)}
            BY DEF Replay
      <2>5. QED
            BY <1>1, <2>2, <2>3, <2>4
<1>3. QED
      BY <1>1, <1>2

\* What Store writes.
LEMMA KeptTyped ==
    ASSUME TypeOK, NEW a \in Attempts, intent[a] \in Intents, Storable(a),
           answer[a].by \in Attempts
    PROVE  /\ Kept(a) \in [Keys -> Records \cup {NoRecord}]
           /\ \A k \in Keys : Kept(a)[k] = stored[k]
                 \/ /\ k = KeyOf[intent[a]] /\ stored[k] = NoRecord
                    /\ Kept(a)[k] \in Records
                    /\ Kept(a)[k].body = BodyOf[intent[a]]
                    /\ Kept(a)[k].status = answer[a].status
                    /\ Kept(a)[k].by = answer[a].by
           /\ Kept(a)[KeyOf[intent[a]]] # NoRecord
<1> DEFINE k0 == KeyOf[intent[a]]
           r == [body |-> BodyOf[intent[a]], status |-> answer[a].status, by |-> answer[a].by]
<1>1. k0 \in Keys /\ BodyOf[intent[a]] \in Bodies
      BY IdempotencyAssumption
<1>2. answer[a] \in Answers /\ answer[a].status \in {"ok", "refused"}
      BY DEF TypeOK, Storable
<1>3. CASE Found(intent[a])
      BY <1>1, <1>3 DEF Kept, Found, TypeOK
<1>4. CASE ~Found(intent[a])
      <2>1. r \in Records
            BY <1>1, <1>2, <1>4 DEF Records
      <2>2. r # NoRecord
            BY <2>1, IdempotencyAssumption DEF Records
      <2>3. Kept(a) = [stored EXCEPT ![k0] = r]
            BY <1>4 DEF Kept
      <2>4. stored \in [Keys -> Records \cup {NoRecord}] /\ stored[k0] = NoRecord
            BY <1>4 DEF TypeOK, Found
      <2>5. QED
            BY <1>1, <2>1, <2>2, <2>3, <2>4
<1>5. QED
      BY <1>3, <1>4


------------------------------------------------------------------------------
(* Every step preserves IInv *)

LEMMA InitHolds == Init => IInv
<1> SUFFICES ASSUME Init PROVE IInv
    OBVIOUS
<1>1. TypeOK
      BY AnswersTyped DEF Init, TypeOK
<1>2. \A a \in Attempts : Stage(a)
      BY AnswersTyped DEF Init, Stage
<1>3. \A k \in Keys : RecordTrue(k)
      BY DEF Init, RecordTrue
<1>4. SuccessIsTrue
      BY AnswersTyped DEF Init, SuccessIsTrue
<1>5. QED
      BY <1>1, <1>2, <1>3, <1>4 DEF IInv

\* A replay tells the truth: the intent of the record is the one replayed to,
\* because a key and a body belong to one intent.
LEMMA ReplayIsTrue ==
    ASSUME IInv, NEW i \in Intents, Found(i), Replay(i).status = "ok"
    PROVE  Replay(i).by \in effects /\ intent[Replay(i).by] = i
<1> DEFINE k == KeyOf[i]
           e == stored[k].by
<1>1. k \in Keys /\ stored[k] \in Records
      BY AnswersTyped, IdempotencyAssumption DEF IInv
<1>2. stored[k].status \in {"ok", "refused"} /\ e \in Attempts
      BY <1>1 DEF Records
<1>3. stored[k].body = BodyOf[i] /\ Replay(i) = Says(stored[k].status, e)
      BY AnswersTyped DEF Replay
<1>4. stored[k].status = "ok" /\ Replay(i).by = e
      BY <1>2, <1>3, AnswersTyped
<1>5. e \in effects /\ KeyOf[intent[e]] = k /\ BodyOf[intent[e]] = stored[k].body
      BY <1>1, <1>4 DEF IInv, RecordTrue, Found
<1>6. intent[e] \in Intents
      BY <1>2, <1>5 DEF IInv, Stage
<1>7. QED
      BY <1>3, <1>4, <1>5, <1>6, IdempotencyAssumption

\* An attempt that has not run yet is in no record and behind no success, so
\* sending it disturbs none.
LEMMA SendHolds ==
    ASSUME IInv, NEW a \in Attempts, pc[a] = "unsent", NEW i \in Intents,
           intent' = [intent EXCEPT ![a] = i],
           NEW ans \in Answers, answer' = [answer EXCEPT ![a] = ans],
           ans.status = "ok" => ans.by \in effects /\ intent[ans.by] = i,
           NEW p \in {"running", "done"}, pc' = [pc EXCEPT ![a] = p],
           p = "running" => ans.status = "none",
           before' = [before EXCEPT ![a] = Ended],
           UNCHANGED <<stored, effects, unstored>>
    PROVE  IInv'
<1>1. TypeOK'
      BY DEF IInv, TypeOK, Ended
<1>2. a \notin effects
      BY DEF IInv, Stage
<1>3. \A b \in effects : b # a /\ intent'[b] = intent[b]
      BY <1>2 DEF IInv, TypeOK
<1>4. ASSUME NEW b \in Attempts PROVE Stage(b)'
      <2>1. Stage(b)
            BY DEF IInv
      <2>2. CASE b = a
            BY <1>2, <2>2 DEF Stage, IInv, TypeOK
      <2>3. CASE b # a
            BY <2>1, <2>3 DEF Stage, IInv, TypeOK
      <2>4. QED
            BY <2>2, <2>3
<1>5. ASSUME NEW k \in Keys PROVE RecordTrue(k)'
      BY <1>3 DEF RecordTrue, IInv
<1>6. SuccessIsTrue'
      <2> SUFFICES ASSUME NEW b \in Attempts, answer'[b].status = "ok"
                   PROVE  answer'[b].by \in effects /\ intent'[answer'[b].by] = intent'[b]
          BY DEF SuccessIsTrue
      <2>1. CASE b = a
            BY <1>3, <2>1 DEF IInv, TypeOK
      <2>2. CASE b # a
            BY <1>3, <2>2 DEF IInv, TypeOK, SuccessIsTrue
      <2>3. QED
            BY <2>1, <2>2
<1>7. QED
      BY <1>1, <1>4, <1>5, <1>6 DEF IInv

LEMMA LookupHolds ==
    ASSUME IInv, NEW a \in Attempts, Lookup(a)
    PROVE  IInv'
<1>1. PICK i \in Intents :
          /\ intent' = [intent EXCEPT ![a] = i]
          /\ IF Found(i)
             THEN answer' = [answer EXCEPT ![a] = Replay(i)] /\ pc' = [pc EXCEPT ![a] = "done"]
             ELSE pc' = [pc EXCEPT ![a] = "running"] /\ UNCHANGED answer
      BY DEF Lookup
<1>2. /\ pc[a] = "unsent" /\ before' = [before EXCEPT ![a] = Ended]
      /\ UNCHANGED <<stored, effects, unstored>>
      BY DEF Lookup
<1>3. CASE Found(i)
      <2>1. Replay(i) \in Answers
            BY <1>3, AnswersTyped DEF IInv
      <2>2. Replay(i).status = "ok" => Replay(i).by \in effects /\ intent[Replay(i).by] = i
            BY <1>3, ReplayIsTrue
      <2>3. QED
            BY <1>1, <1>2, <1>3, <2>1, <2>2, SendHolds
<1>4. CASE ~Found(i)
      <2>1. answer[a] \in Answers /\ answer[a].status = "none"
            BY <1>2 DEF IInv, TypeOK, Stage
      <2>2. answer' = [answer EXCEPT ![a] = answer[a]]
            BY <1>1, <1>4 DEF IInv, TypeOK
      <2>3. QED
            BY <1>1, <1>2, <1>4, <2>1, <2>2, SendHolds
<1>5. QED
      BY <1>3, <1>4

LEMMA LookupFailsHolds ==
    ASSUME IInv, NEW a \in Attempts, LookupFails(a)
    PROVE  IInv'
<1>1. PICK i \in Intents : intent' = [intent EXCEPT ![a] = i]
      BY DEF LookupFails
<1>2. Says("error", a) \in Answers /\ Says("error", a).status # "ok"
      BY AnswersTyped
<1>3. QED
      BY <1>1, <1>2, SendHolds DEF LookupFails

\* A commit is the effect of its own intent.
LEMMA CommitHolds ==
    ASSUME IInv, NEW a \in Attempts, Commit(a)
    PROVE  IInv'
<1>1. PICK st \in {"ok", "error"} : answer' = [answer EXCEPT ![a] = Says(st, a)]
      BY DEF Commit
<1>2. /\ Says(st, a) \in Answers /\ Says(st, a).status = st /\ Says(st, a).by = a
      BY AnswersTyped
<1>3. /\ pc[a] = "running" /\ pc' = [pc EXCEPT ![a] = "ran"]
      /\ effects' = effects \cup {a} /\ UNCHANGED <<intent, stored, before, unstored>>
      BY DEF Commit
<1>4. TypeOK'
      BY <1>1, <1>2, <1>3 DEF IInv, TypeOK
<1>5. ASSUME NEW b \in Attempts PROVE Stage(b)'
      <2>1. Stage(b)
            BY DEF IInv
      <2>2. CASE b = a
            BY <1>1, <1>2, <1>3, <2>1, <2>2 DEF Stage, IInv, TypeOK
      <2>3. CASE b # a
            BY <1>1, <1>3, <2>1, <2>3 DEF Stage, IInv, TypeOK
      <2>4. QED
            BY <2>2, <2>3
<1>6. ASSUME NEW k \in Keys PROVE RecordTrue(k)'
      BY <1>3 DEF RecordTrue, IInv
<1>7. SuccessIsTrue'
      BY <1>1, <1>2, <1>3 DEF SuccessIsTrue, IInv, TypeOK
<1>8. QED
      BY <1>4, <1>5, <1>6, <1>7 DEF IInv

LEMMA RollBackHolds ==
    ASSUME IInv, NEW a \in Attempts, RollBack(a)
    PROVE  IInv'
<1>1. PICK st \in {"refused", "error"} : answer' = [answer EXCEPT ![a] = Says(st, a)]
      BY DEF RollBack
<1>2. /\ Says(st, a) \in Answers /\ Says(st, a).status = st /\ Says(st, a).by = a
      BY AnswersTyped
<1>3. /\ pc[a] = "running" /\ pc' = [pc EXCEPT ![a] = "ran"]
      /\ UNCHANGED <<intent, stored, effects, before, unstored>>
      BY DEF RollBack
<1>4. TypeOK'
      BY <1>1, <1>2, <1>3 DEF IInv, TypeOK
<1>5. ASSUME NEW b \in Attempts PROVE Stage(b)'
      <2>1. Stage(b)
            BY DEF IInv
      <2>2. CASE b = a
            BY <1>1, <1>2, <1>3, <2>1, <2>2 DEF Stage, IInv, TypeOK
      <2>3. CASE b # a
            BY <1>1, <1>3, <2>1, <2>3 DEF Stage, IInv, TypeOK
      <2>4. QED
            BY <2>2, <2>3
<1>6. ASSUME NEW k \in Keys PROVE RecordTrue(k)'
      BY <1>3 DEF RecordTrue, IInv
<1>7. SuccessIsTrue'
      BY <1>1, <1>2, <1>3 DEF SuccessIsTrue, IInv, TypeOK
<1>8. QED
      BY <1>4, <1>5, <1>6, <1>7 DEF IInv

\* What is stored is what the handler said, and it committed if it said so.
LEMMA StoreHolds ==
    ASSUME IInv, NEW a \in Attempts, Store(a)
    PROVE  IInv'
<1>1. /\ pc[a] = "ran" /\ pc' = [pc EXCEPT ![a] = "done"]
      /\ UNCHANGED <<intent, answer, effects, before>>
      /\ stored' = stored \/ (Storable(a) /\ stored' = Kept(a))
      /\ unstored' \in {unstored, unstored \cup {a}}
      BY DEF Store
<1>2. /\ TypeOK /\ intent[a] \in Intents /\ answer[a].by = a
      /\ answer[a].status = "ok" => a \in effects
      BY <1>1 DEF IInv, Stage
<1>3. ASSUME NEW k \in Keys
      PROVE  stored'[k] = stored[k]
                \/ /\ k = KeyOf[intent[a]]
                   /\ stored'[k].body = BodyOf[intent[a]]
                   /\ stored'[k].status = answer[a].status
                   /\ stored'[k].by = a
      BY <1>1, <1>2, KeptTyped
<1>4. stored' \in [Keys -> Records \cup {NoRecord}]
      BY <1>1, <1>2, KeptTyped DEF TypeOK
<1>5. TypeOK'
      BY <1>1, <1>4 DEF IInv, TypeOK
<1>6. ASSUME NEW b \in Attempts PROVE Stage(b)'
      <2>1. Stage(b)
            BY DEF IInv
      <2>2. QED
            BY <1>1, <2>1 DEF Stage, IInv, TypeOK
<1>7. ASSUME NEW k \in Keys PROVE RecordTrue(k)'
      <2>1. RecordTrue(k)
            BY DEF IInv
      <2>2. QED
            BY <1>1, <1>2, <1>3, <2>1 DEF RecordTrue
<1>8. SuccessIsTrue'
      BY <1>1 DEF SuccessIsTrue, IInv
<1>9. QED
      BY <1>5, <1>6, <1>7, <1>8 DEF IInv

\* Lost attempts keep their effects and take only their answers with them.
LEMMA CrashHolds ==
    ASSUME IInv, Crash
    PROVE  IInv'
<1>1. PICK L \in (SUBSET InFlight) \ {{}} :
          /\ pc' = [a \in Attempts |-> IF a \in L THEN "lost" ELSE pc[a]]
          /\ answer' = [a \in Attempts |->
                 IF a \in L THEN Says("none", NoAttempt) ELSE answer[a]]
      BY DEF Crash
<1>2. UNCHANGED <<intent, stored, effects, before, unstored>>
      BY DEF Crash
<1>3. Says("none", NoAttempt) \in Answers /\ Says("none", NoAttempt).status = "none"
      BY AnswersTyped
<1>4. TypeOK'
      BY <1>1, <1>2, <1>3 DEF IInv, TypeOK
<1>5. ASSUME NEW b \in Attempts PROVE Stage(b)'
      <2>1. Stage(b)
            BY DEF IInv
      <2>2. b \in L => pc[b] \in {"running", "ran"}
            BY <1>1 DEF InFlight
      <2>3. QED
            BY <1>1, <1>2, <1>3, <2>1, <2>2 DEF Stage
<1>6. ASSUME NEW k \in Keys PROVE RecordTrue(k)'
      BY <1>2 DEF RecordTrue, IInv
<1>7. SuccessIsTrue'
      BY <1>1, <1>2, <1>3 DEF SuccessIsTrue, IInv
<1>8. QED
      BY <1>4, <1>5, <1>6, <1>7 DEF IInv

LEMMA StepHolds == IInv /\ [Next]_vars => IInv'
<1> SUFFICES ASSUME IInv, [Next]_vars PROVE IInv'
    OBVIOUS
<1>1. CASE UNCHANGED vars
      BY <1>1 DEF vars, IInv, TypeOK, Stage, RecordTrue, SuccessIsTrue
<1>2. CASE Crash
      BY <1>2, CrashHolds
<1>3. ASSUME NEW a \in Attempts,
             Lookup(a) \/ LookupFails(a) \/ Commit(a) \/ RollBack(a) \/ Store(a)
      PROVE  IInv'
      BY <1>3, LookupHolds, LookupFailsHolds, CommitHolds, RollBackHolds, StoreHolds
<1>4. QED
      BY <1>1, <1>2, <1>3 DEF Next

------------------------------------------------------------------------------
(* Theorems *)

\* IInv holds of every reachable state.
THEOREM Invariance == Spec => []IInv
<1>1. QED
      BY InitHolds, StepHolds, PTL DEF Spec

\* The variables keep their types.
THEOREM TypeCorrect == Spec => []TypeOK
<1>1. IInv => TypeOK
      BY DEF IInv
<1>2. QED
      BY <1>1, Invariance, PTL

\* A client that is told of success is told of an effect of its own intent,
\* whatever crashes or fails and however many requests race.
THEOREM SuccessSafe == Spec => []SuccessIsTrue
<1>1. IInv => SuccessIsTrue
      BY DEF IInv
<1>2. QED
      BY <1>1, Invariance, PTL

\* No step changes a record that is there.
LEMMA RecordKept ==
    ASSUME IInv, [Next]_vars, NEW k \in Keys, stored[k] # NoRecord
    PROVE  stored'[k] = stored[k]
<1>1. CASE UNCHANGED stored
      BY <1>1
<1>2. ASSUME NEW a \in Attempts, Store(a)
      PROVE  stored'[k] = stored[k]
      <2>1. /\ TypeOK /\ intent[a] \in Intents /\ answer[a].by = a
            /\ stored' = stored \/ (Storable(a) /\ stored' = Kept(a))
            BY <1>2 DEF IInv, Stage, Store
      <2>2. QED
            BY <2>1, KeptTyped
<1>3. QED
      BY <1>1, <1>2 DEF Next, vars, Lookup, LookupFails, Commit, RollBack, Crash

\* A record is never changed.
THEOREM RecordsFinal == Spec => RecordsAreFinal
<1>1. IInv /\ [Next]_vars =>
          [\A k \in Keys : stored[k] # NoRecord => stored'[k] = stored[k]]_vars
      BY RecordKept
<1>2. QED
      BY <1>1, Invariance, PTL DEF Spec, RecordsAreFinal

------------------------------------------------------------------------------
(* Who settles a key, and who comes after *)

\* Requests that have ended stay as they are.  L are those that a step is
\* about: none of them has ended, so none is before another or wrote a record.
LEMMA OthersStay ==
    ASSUME IInv, SettledInv, NEW L \in SUBSET Attempts, L \cap Ended = {},
           \A c \in Attempts \ L :
               /\ pc'[c] = pc[c] /\ answer'[c] = answer[c]
               /\ intent'[c] = intent[c] /\ before'[c] = before[c]
               /\ (c \in unstored' <=> c \in unstored) /\ (c \in effects' <=> c \in effects),
           \A k \in Keys : stored[k] # NoRecord => stored'[k] = stored[k]
    PROVE  /\ \A c \in Attempts \ L : Settling(c)'
           /\ \A k \in Keys : stored'[k] = stored[k] => RecordSettled(k)'
<1>1. Ended \subseteq Ended' /\ Ended \subseteq Attempts \ L
      BY DEF Ended
<1>2. ASSUME NEW c \in Ended
      PROVE  /\ c \in Attempts \ L
             /\ Unsettled(c)' <=> Unsettled(c)
             /\ intent'[c] = intent[c] /\ before'[c] = before[c]
      BY <1>1 DEF Unsettled
<1>3. ASSUME NEW k \in Keys, stored[k] # NoRecord
      PROVE  stored'[k] = stored[k] /\ stored[k].by \in Ended /\ RecordSettled(k)'
      <2> DEFINE w == stored[k].by
      <2>1. w \in Attempts /\ pc[w] = "done" /\ ~Unsettled(w) /\ KeyOf[intent[w]] = k
            BY <1>3 DEF SettledInv, RecordSettled
      <2>2. stored'[k] = stored[k] /\ w \in Ended
            BY <1>3, <2>1 DEF Ended
      <2>3. ~Unsettled(w)' /\ pc'[w] = "done" /\ intent'[w] = intent[w]
            BY <1>2, <2>1, <2>2
      <2>4. QED
            BY <2>1, <2>2, <2>3 DEF RecordSettled
<1>4. \A k \in Keys : stored'[k] = stored[k] => RecordSettled(k)'
      BY <1>3 DEF RecordSettled
<1>5. ASSUME NEW c \in Attempts \ L
      PROVE  Settling(c)'
      <2> USE DEF SettledInv, Settling
      <2>1. /\ pc'[c] = pc[c] /\ answer'[c] = answer[c]
            /\ intent'[c] = intent[c] /\ before'[c] = before[c]
            OBVIOUS
      <2>2. before[c] \subseteq Ended
            BY DEF Sent
      <2>3. Sent(c)'
            BY <1>1, <2>1, <2>2 DEF Sent
      <2>4. \A a \in before[c] : /\ SameKey(a, c)' <=> SameKey(a, c)
                                 /\ Unsettled(a)' <=> Unsettled(a)
            BY <1>2, <2>1, <2>2 DEF SameKey
      <2>5. Late(c)'
            BY <2>1, <2>4 DEF Late, InFlight
      <2>6. pc[c] = "done" => c \in Ended /\ intent[c] \in Intents /\ KeyOf[intent[c]] \in Keys
            BY IdempotencyAssumption DEF Ended, IInv, Stage
      <2>7. pc[c] = "done" /\ Found(intent[c]) =>
                /\ Found(intent[c])'
                /\ Replay(intent[c])' = Replay(intent[c])
                /\ stored'[KeyOf[intent[c]]] = stored[KeyOf[intent[c]]]
            BY <1>3, <2>1, <2>6 DEF Found, Replay
      <2>8. Told(c)'
            <3>1. SUFFICES ASSUME pc[c] = "done", ~Unsettled(c)
                           PROVE  Told(c)'
                  BY <1>2, <2>1, <2>6 DEF Told
            <3>2. Found(intent[c])
                  BY <3>1 DEF Told
            <3>3. stored[KeyOf[intent[c]]].by \in Ended
                  BY <1>3, <2>6, <3>1, <3>2 DEF Found
            <3>4. Overlapping(c, stored[KeyOf[intent[c]]].by) =>
                      Overlapping(c, stored[KeyOf[intent[c]]].by)'
                  BY <1>2, <2>1, <2>7, <3>1, <3>2, <3>3 DEF Overlapping
            <3>5. QED
                  BY <2>1, <2>7, <3>1, <3>2, <3>4 DEF Told
      <2>9. Heard(c)'
            <3>1. SUFFICES ASSUME pc[c] = "done", answer[c].status # "error",
                                  NEW a \in before[c], SameKey(a, c), ~Unsettled(a)
                           PROVE  answer[c] = Replay(intent[c])'
                  BY <2>1, <2>4 DEF Heard
            <3>2. a \in Attempts /\ pc[a] = "done"
                  BY <2>2, <3>1 DEF Ended, Unsettled
            <3>3. Found(intent[a])
                  BY <3>1, <3>2 DEF Told
            <3>4. Found(intent[c])
                  BY <3>1, <3>3 DEF Found, SameKey
            <3>5. answer[c] = Replay(intent[c])
                  BY <3>1 DEF Heard
            <3>6. QED
                  BY <2>7, <3>1, <3>4, <3>5
      <2>10. QED
            BY <2>3, <2>5, <2>8, <2>9
<1>6. QED
      BY <1>4, <1>5

\* One attempt moves, and no record changes.
LEMMA OneMoves ==
    ASSUME IInv, IInv', SettledInv, NEW a \in Attempts, a \notin Ended,
           \A c \in Attempts \ {a} :
               /\ pc'[c] = pc[c] /\ answer'[c] = answer[c]
               /\ intent'[c] = intent[c] /\ before'[c] = before[c]
               /\ (c \in unstored' <=> c \in unstored) /\ (c \in effects' <=> c \in effects),
           UNCHANGED stored, Settling(a)'
    PROVE  SettledInv'
<1>1. \A k \in Keys : stored[k] # NoRecord => stored'[k] = stored[k]
      OBVIOUS
<1>2. {a} \in SUBSET Attempts /\ {a} \cap Ended = {}
      OBVIOUS
<1>3. /\ \A c \in Attempts \ {a} : Settling(c)'
      /\ \A k \in Keys : stored'[k] = stored[k] => RecordSettled(k)'
      BY <1>1, <1>2, OthersStay
<1>4. QED
      BY <1>3 DEF SettledInv

\* A lookup: whoever finds no record comes after none that settled its key.
LEMMA LookupSettles ==
    ASSUME IInv, IInv', SettledInv, NEW a \in Attempts, Lookup(a) \/ LookupFails(a)
    PROVE  SettledInv'
<1>1. PICK i \in Intents :
          /\ intent' = [intent EXCEPT ![a] = i]
          /\ Lookup(a) => IF Found(i)
                          THEN /\ answer' = [answer EXCEPT ![a] = Replay(i)]
                               /\ pc' = [pc EXCEPT ![a] = "done"]
                          ELSE pc' = [pc EXCEPT ![a] = "running"] /\ UNCHANGED answer
      BY DEF Lookup, LookupFails
<1>2. /\ pc[a] = "unsent" /\ before' = [before EXCEPT ![a] = Ended]
      /\ UNCHANGED <<stored, effects, unstored>>
      /\ LookupFails(a) => /\ answer' = [answer EXCEPT ![a] = Says("error", a)]
                           /\ pc' = [pc EXCEPT ![a] = "done"]
      BY DEF Lookup, LookupFails
<1>3. TypeOK /\ a \notin Ended /\ a \notin effects /\ a \notin unstored
      BY <1>2 DEF IInv, Stage, Ended, SettledInv, Settling, Sent
<1>4. intent'[a] = i /\ before'[a] = Ended
      BY <1>1, <1>2, <1>3 DEF TypeOK
<1>5. ASSUME NEW c \in Attempts \ {a}
      PROVE  /\ pc'[c] = pc[c] /\ answer'[c] = answer[c]
             /\ intent'[c] = intent[c] /\ before'[c] = before[c]
      BY <1>1, <1>2, <1>3, <1>5 DEF TypeOK
<1>6. Ended \subseteq Attempts \ {a} /\ Ended \subseteq Ended'
      BY <1>3, <1>5 DEF Ended
<1>7. ASSUME NEW c \in Ended, SameKey(c, a)', ~Unsettled(c)'
      PROVE  Found(i)
      <2>1. c \in Attempts \ {a} /\ pc[c] = "done" /\ ~Unsettled(c) /\ KeyOf[intent[c]] = KeyOf[i]
            BY <1>2, <1>4, <1>5, <1>6, <1>7 DEF SameKey, Unsettled, Ended
      <2>2. Found(intent[c])
            BY <2>1 DEF SettledInv, Settling, Told
      <2>3. QED
            BY <2>1, <2>2 DEF Found
<1>8. Says("error", a).status = "error"
      BY AnswersTyped
<1>9. Settling(a)'
      <2>1. CASE LookupFails(a)
            <3>1. pc'[a] = "done" /\ answer'[a].status = "error"
                  BY <1>2, <1>3, <1>8, <2>1 DEF TypeOK
            <3>2. QED
                  BY <1>2, <1>3, <1>4, <1>6, <3>1
                  DEF Settling, Sent, Late, Told, Heard, Unsettled, InFlight
      <2>2. CASE Lookup(a) /\ Found(i)
            <3>1. pc'[a] = "done" /\ answer'[a] = Replay(i)
                  BY <1>1, <1>3, <2>2 DEF TypeOK
            <3>2. Found(intent[a])' /\ Replay(intent[a])' = Replay(i)
                  BY <1>2, <1>4, <2>2 DEF Found, Replay
            <3>3. QED
                  BY <1>2, <1>3, <1>4, <1>6, <3>1, <3>2
                  DEF Settling, Sent, Late, Told, Heard, InFlight
      <2>3. CASE Lookup(a) /\ ~Found(i)
            <3>1. pc'[a] = "running"
                  BY <1>1, <1>3, <2>3 DEF TypeOK
            <3>2. \A c \in before'[a] : SameKey(c, a)' => Unsettled(c)'
                  BY <1>4, <1>7, <2>3
            <3>3. QED
                  BY <1>2, <1>3, <1>4, <1>6, <3>1, <3>2
                  DEF Settling, Sent, Late, Told, Heard
      <2>4. QED
            BY <2>1, <2>2, <2>3
<1>10. QED
      BY <1>2, <1>3, <1>5, <1>9, OneMoves

\* The handler ends: its attempt is still under way.
LEMMA HandlerSettles ==
    ASSUME IInv, IInv', SettledInv, NEW a \in Attempts, Commit(a) \/ RollBack(a)
    PROVE  SettledInv'
<1>1. PICK st \in {"ok", "refused", "error"} : answer' = [answer EXCEPT ![a] = Says(st, a)]
      BY DEF Commit, RollBack
<1>2. /\ pc[a] = "running" /\ pc' = [pc EXCEPT ![a] = "ran"]
      /\ UNCHANGED <<intent, stored, before, unstored>>
      /\ effects' \in {effects, effects \cup {a}}
      BY DEF Commit, RollBack
<1>3. TypeOK /\ a \in InFlight /\ a \notin Ended /\ a \notin unstored
      BY <1>2 DEF IInv, InFlight, Ended, SettledInv, Settling, Sent
<1>4. pc'[a] = "ran" /\ answer'[a].status \in {"ok", "refused", "error"}
      BY <1>1, <1>2, <1>3, AnswersTyped DEF TypeOK
<1>5. ASSUME NEW c \in Attempts \ {a}
      PROVE  /\ pc'[c] = pc[c] /\ answer'[c] = answer[c]
             /\ c \in effects' <=> c \in effects
      BY <1>1, <1>2, <1>3, <1>5 DEF TypeOK
<1>6. /\ before[a] \subseteq Ended
      /\ \A c \in before[a] : SameKey(c, a) => Unsettled(c)
      BY <1>3 DEF SettledInv, Settling, Sent, Late
<1>7. ASSUME NEW c \in Ended
      PROVE  c \in Ended' /\ (Unsettled(c)' <=> Unsettled(c)) /\ (SameKey(c, a)' <=> SameKey(c, a))
      BY <1>2, <1>3, <1>5, <1>7 DEF Ended, Unsettled, SameKey
<1>8. Settling(a)'
      <2>1. Sent(a)'
            BY <1>2, <1>3, <1>4, <1>6, <1>7 DEF Sent
      <2>2. Late(a)'
            BY <1>2, <1>6, <1>7 DEF Late
      <2>3. QED
            BY <1>4, <2>1, <2>2 DEF Settling, Told, Heard
<1>9. QED
      BY <1>2, <1>3, <1>5, <1>8, OneMoves

\* An answer is stored, or finds the record of a request it overlapped: it
\* comes after none that settled its key, and none is sent after it yet.
LEMMA StoreSettles ==
    ASSUME IInv, IInv', SettledInv, NEW a \in Attempts, Store(a)
    PROVE  SettledInv'
<1> DEFINE k0 == KeyOf[intent[a]]
<1>1. /\ pc[a] = "ran" /\ pc' = [pc EXCEPT ![a] = "done"]
      /\ UNCHANGED <<intent, answer, effects, before>>
      /\ \/ /\ stored' = IF Storable(a) THEN Kept(a) ELSE stored
            /\ UNCHANGED unstored
         \/ /\ UNCHANGED stored
            /\ unstored' = IF Found(intent[a]) THEN unstored ELSE unstored \cup {a}
      BY DEF Store
<1>2. /\ TypeOK /\ intent[a] \in Intents /\ answer[a].by = a
      /\ a \in InFlight /\ a \notin Ended /\ a \notin unstored
      /\ answer[a].status \in {"ok", "refused", "error"}
      BY <1>1 DEF IInv, Stage, InFlight, Ended, SettledInv, Settling, Sent
<1>3. k0 \in Keys /\ pc'[a] = "done"
      BY <1>1, <1>2, IdempotencyAssumption DEF TypeOK
<1>4. ASSUME NEW k \in Keys, stored[k] # NoRecord
      PROVE  stored'[k] = stored[k]
      BY <1>4, RecordKept DEF Next
<1>5. /\ {a} \in SUBSET Attempts /\ {a} \cap Ended = {}
      /\ \A c \in Attempts \ {a} :
             /\ pc'[c] = pc[c] /\ answer'[c] = answer[c]
             /\ intent'[c] = intent[c] /\ before'[c] = before[c]
             /\ (c \in unstored' <=> c \in unstored) /\ (c \in effects' <=> c \in effects)
      BY <1>1, <1>2 DEF TypeOK
<1>6. /\ \A c \in Attempts \ {a} : Settling(c)'
      /\ \A k \in Keys : stored'[k] = stored[k] => RecordSettled(k)'
      BY <1>4, <1>5, OthersStay
<1>7. /\ before[a] \subseteq Ended
      /\ \A c \in before[a] : SameKey(c, a) => Unsettled(c)
      BY <1>2 DEF SettledInv, Settling, Sent, Late
<1>8. ASSUME NEW c \in Ended
      PROVE  c \in Ended' /\ (Unsettled(c)' <=> Unsettled(c)) /\ (SameKey(c, a)' <=> SameKey(c, a))
      BY <1>1, <1>2, <1>5, <1>8 DEF Ended, Unsettled, SameKey
<1>9. Sent(a)' /\ Late(a)' /\ Heard(a)'
      <2>1. \A c \in before'[a] : SameKey(c, a)' => Unsettled(c)'
            BY <1>1, <1>7, <1>8
      <2>2. QED
            BY <1>1, <1>3, <1>7, <1>8, <2>1 DEF Sent, Late, Heard
<1>10. CASE Found(intent[a])
      <2> DEFINE w == stored[k0].by
      <2>1. w \in Attempts /\ pc[w] = "done" /\ ~Unsettled(w) /\ KeyOf[intent[w]] = k0
            BY <1>3, <1>10 DEF SettledInv, RecordSettled, Found
      <2>2. w # a /\ w \in Ended
            BY <1>1, <2>1 DEF Ended
      <2>3. w \notin before[a]
            BY <1>7, <2>1 DEF SameKey
      <2>4. a \notin before[w]
            BY <1>2, <2>1 DEF SettledInv, Settling, Sent
      <2>5. stored'[k0] = stored[k0] /\ Found(intent[a])' /\ w' = w
            BY <1>1, <1>3, <1>4, <1>10 DEF Found
      <2>6. Overlapping(a, w)'
            BY <1>1, <2>2, <2>3, <2>4, <2>5 DEF Overlapping
      <2>7. Told(a)'
            BY <1>1, <2>5, <2>6 DEF Told
      <2>8. \A k \in Keys : stored'[k] = stored[k]
            BY <1>1, <1>10 DEF Kept
      <2>9. QED
            BY <1>6, <1>9, <2>7, <2>8 DEF SettledInv, Settling
<1>11. CASE ~Found(intent[a]) /\ UNCHANGED stored
      <2>1. Unsettled(a)'
            <3>1. CASE Storable(a) /\ stored' = Kept(a)
                  BY <1>2, <1>11, <3>1, KeptTyped DEF Found
            <3>2. CASE ~Storable(a)
                  BY <1>1, <1>2, <3>2 DEF Storable, Unsettled
            <3>3. CASE a \in unstored'
                  BY <3>3 DEF Unsettled
            <3>4. QED
                  BY <1>1, <1>11, <3>1, <3>2, <3>3
      <2>2. Told(a)'
            BY <2>1 DEF Told
      <2>3. QED
            BY <1>6, <1>9, <1>11, <2>2 DEF SettledInv, Settling
<1>12. CASE ~Found(intent[a]) /\ stored' # stored
      <2>1. Storable(a) /\ stored' = Kept(a) /\ UNCHANGED unstored
            BY <1>1, <1>12
      <2>2. /\ stored' = [stored EXCEPT ![k0] =
                   [body |-> BodyOf[intent[a]], status |-> answer[a].status, by |-> answer[a].by]]
            /\ stored'[k0] # NoRecord
            BY <1>2, <1>12, <2>1, KeptTyped DEF Kept
      <2>3. stored'[k0].by = a /\ stored'[k0].body = BodyOf[intent[a]]
            /\ stored'[k0].status = answer[a].status
            BY <1>2, <1>3, <2>2 DEF TypeOK
      <2>4. ~Unsettled(a)'
            BY <1>1, <1>2, <1>3, <2>1 DEF Unsettled, Storable
      <2>5. Found(intent[a])' /\ Replay(intent[a])' = answer[a]
            <3>1. answer[a] = Says(answer[a].status, answer[a].by)
                  BY <1>2 DEF TypeOK, Answers, Says
            <3>2. QED
                  BY <1>1, <1>2, <2>2, <2>3, <3>1 DEF Found, Replay
      <2>6. Told(a)'
            BY <1>1, <2>5 DEF Told
      <2>7. ASSUME NEW k \in Keys PROVE RecordSettled(k)'
            <3>1. CASE k = k0
                  BY <1>1, <1>3, <2>3, <2>4, <3>1 DEF RecordSettled
            <3>2. CASE k # k0
                  BY <1>2, <1>6, <2>2, <3>2 DEF TypeOK
            <3>3. QED
                  BY <3>1, <3>2
      <2>8. QED
            BY <1>6, <1>9, <2>6, <2>7 DEF SettledInv, Settling
<1>13. QED
      BY <1>10, <1>11, <1>12

\* A crash ends requests that were under way and settles nothing.
LEMMA CrashSettles ==
    ASSUME IInv, IInv', SettledInv, Crash
    PROVE  SettledInv'
<1>1. PICK L \in (SUBSET InFlight) \ {{}} :
          /\ pc' = [a \in Attempts |-> IF a \in L THEN "lost" ELSE pc[a]]
          /\ answer' = [a \in Attempts |->
                 IF a \in L THEN Says("none", NoAttempt) ELSE answer[a]]
      BY DEF Crash
<1>2. UNCHANGED <<intent, stored, effects, before, unstored>>
      BY DEF Crash
<1>3. L \in SUBSET Attempts /\ L \cap Ended = {}
      BY <1>1 DEF InFlight, Ended
<1>4. ASSUME NEW c \in Attempts \ L
      PROVE  pc'[c] = pc[c] /\ answer'[c] = answer[c]
      BY <1>1, <1>4
<1>5. /\ \A c \in Attempts \ L : Settling(c)'
      /\ \A k \in Keys : RecordSettled(k)'
      <2>1. \A c \in Attempts \ L :
               /\ pc'[c] = pc[c] /\ answer'[c] = answer[c]
               /\ intent'[c] = intent[c] /\ before'[c] = before[c]
               /\ (c \in unstored' <=> c \in unstored) /\ (c \in effects' <=> c \in effects)
            BY <1>2, <1>4
      <2>2. \A k \in Keys : stored[k] # NoRecord => stored'[k] = stored[k]
            BY <1>2
      <2>3. /\ \A c \in Attempts \ L : Settling(c)'
            /\ \A k \in Keys : stored'[k] = stored[k] => RecordSettled(k)'
            BY <1>3, <2>1, <2>2, OthersStay
      <2>4. QED
            BY <1>2, <2>3
<1>6. ASSUME NEW c \in L
      PROVE  Settling(c)'
      <2>1. c \in Attempts /\ c \in InFlight /\ pc'[c] = "lost" /\ pc[c] # "done"
            BY <1>1, <1>3, <1>6 DEF InFlight
      <2>2. /\ before[c] \subseteq Ended /\ c \notin unstored
            /\ \A a \in before[c] : SameKey(a, c) => Unsettled(a)
            BY <2>1 DEF SettledInv, Settling, Sent, Late
      <2>3. ASSUME NEW a \in Ended
            PROVE  a \in Ended' /\ (Unsettled(a)' <=> Unsettled(a)) /\ (SameKey(a, c)' <=> SameKey(a, c))
            BY <1>2, <1>3, <1>4, <2>3 DEF Ended, Unsettled, SameKey
      <2>4. QED
            BY <1>2, <2>1, <2>2, <2>3 DEF Settling, Sent, Late, Told, Heard
<1>7. QED
      BY <1>5, <1>6 DEF SettledInv

LEMMA SettledStep == IInv /\ IInv' /\ SettledInv /\ [Next]_vars => SettledInv'
<1> SUFFICES ASSUME IInv, IInv', SettledInv, [Next]_vars PROVE SettledInv'
    OBVIOUS
<1>1. CASE UNCHANGED vars
      BY <1>1 DEF vars, SettledInv, Settling, RecordSettled, Sent, Late, Told, Heard,
                  Ended, InFlight, Unsettled, SameKey, Found, Replay, Overlapping
<1>2. CASE Crash
      BY <1>2, CrashSettles
<1>3. ASSUME NEW a \in Attempts,
             Lookup(a) \/ LookupFails(a) \/ Commit(a) \/ RollBack(a) \/ Store(a)
      PROVE  SettledInv'
      BY <1>3, LookupSettles, HandlerSettles, StoreSettles
<1>4. QED
      BY <1>1, <1>2, <1>3 DEF Next

LEMMA SettledInit == Init => SettledInv
BY AnswersTyped DEF Init, SettledInv, Settling, RecordSettled, Sent, Late, Told, Heard, InFlight

\* SettledInv holds of every reachable state, whatever overlaps, crashes or fails.
THEOREM Settlement == Spec => []SettledInv
<1>1. QED
      BY SettledInit, SettledStep, Invariance, PTL DEF Spec

\* No request sent after an answer to its key has an effect, unless that answer
\* was lost or an error, or its record was not written: two effects of one key
\* overlap or have one of these three causes.
THEOREM AnswersSettle == Spec => []AnsweredIsSettled
<1>1. IInv /\ SettledInv => AnsweredIsSettled
      BY DEF IInv, TypeOK, SettledInv, Settling, Late, AnsweredIsSettled
<1>2. QED
      BY <1>1, Invariance, Settlement, PTL

\* A retry gets the answer of the request it repeats, but for the same three
\* causes and for an answer that lost the race of its own request.
THEOREM RetriesHear == Spec => []RetriesAgree
<1>1. ASSUME IInv, SettledInv
      PROVE  RetriesAgree
      <2> SUFFICES ASSUME NEW b \in Attempts, NEW a \in before[b],
                          intent[a] = intent[b], ~Unsettled(a),
                          pc[b] = "done", answer[b].status # "error"
                   PROVE  \/ answer[b] = answer[a]
                          \/ Found(intent[a]) /\ Overlapping(a, stored[KeyOf[intent[a]]].by)
          BY DEF RetriesAgree
      <2>1. a \in Attempts /\ pc[a] = "done"
            BY <1>1 DEF SettledInv, Settling, Sent, Ended, Unsettled
      <2>2. /\ Found(intent[a])
            /\ answer[a] = Replay(intent[a]) \/ Overlapping(a, stored[KeyOf[intent[a]]].by)
            BY <1>1, <2>1 DEF SettledInv, Settling, Told
      <2>3. answer[b] = Replay(intent[b])
            BY <1>1 DEF SettledInv, Settling, Heard, SameKey
      <2>4. QED
            BY <2>2, <2>3
<1>2. QED
      BY <1>1, Invariance, Settlement, PTL

------------------------------------------------------------------------------
(* Migrations: the inductive invariant *)

MTypeOK ==
    /\ recorded \subseteq Versions
    /\ executed \in [Versions -> Nat]
    /\ stage \in [Replicas -> Starting \cup {"down", "serving", "draining", "closing"}]
    /\ embedded \in [Replicas -> Releases \cup {{}}]
    /\ passed \in [Replicas -> SUBSET Versions]

\* Whoever looks at or changes schema_migrations holds the advisory lock;
\* what its loop has passed is recorded, and the file it is about to apply
\* is not.
FileStage(r) ==
    /\ stage[r] # "down" => embedded[r] \in Releases
    /\ stage[r] = "lock" => passed[r] = {}
    /\ stage[r] \in Running \cup {"unlock"} => advisory = r
    /\ stage[r] \in Running => passed[r] \subseteq recorded
    /\ stage[r] \in Running \ {"check"} => Left(r) # {} /\ Current(r) \notin recorded
    /\ stage[r] \notin {"down", "lock"} \cup Running => embedded[r] \subseteq recorded

ExecutedOnce == \A v \in Versions : executed[v] = IF v \in recorded THEN 1 ELSE 0

MigrationInv == MTypeOK /\ ExecutedOnce /\ \A r \in Replicas : FileStage(r)

\* A nonempty set of versions has a first one.
LEMMA CurrentIsLeft ==
    ASSUME NEW r \in Replicas, embedded[r] \in Releases, Left(r) # {}
    PROVE  Current(r) \in Left(r)
<1>1. Left(r) \subseteq Nat
      BY MigrationsAssumption DEF Left
<1> DEFINE Less == {e \in Nat \X Nat : e[1] < e[2]}
<1>5. IsWellFoundedOn(Less, Nat)
      BY NatLessThanWellFounded DEF OpToRel
<1> HIDE DEF Less
<1>2. PICK v \in Left(r) : \A w \in Left(r) : ~(<<w, v>> \in Less)
      BY <1>1, <1>5, WFMin
<1>3. ASSUME NEW w \in Left(r) PROVE v <= w
      <2>1. v \in Nat /\ w \in Nat /\ ~(<<w, v>> \in Less)
            BY <1>1, <1>2
      <2>2. <<w, v>> \in Nat \X Nat
            BY <2>1
      <2>3. w < v => <<w, v>> \in Less
            BY <2>2 DEF Less
      <2>4. QED
            BY <2>1, <2>3
<1>4. QED
      BY <1>2, <1>3 DEF Current
------------------------------------------------------------------------------
(* Migrations: the steps *)

\* A step of another replica only adds to what is recorded, and adds nothing
\* while r has the lock.
LEMMA OtherReplica ==
    ASSUME NEW r \in Replicas, FileStage(r),
           stage'[r] = stage[r], embedded'[r] = embedded[r], passed'[r] = passed[r],
           recorded \subseteq recorded',
           advisory = r => advisory' = r /\ recorded' = recorded
    PROVE  FileStage(r)'
<1>1. Left(r)' = Left(r) /\ Current(r)' = Current(r)
      BY DEF Left, Current
<1>2. QED
      BY <1>1 DEF FileStage, Running

\* What a process does on its own, beside a commit, records nothing.
LEMMA StageOnly ==
    ASSUME MigrationInv, NEW r \in Replicas, UNCHANGED <<recorded, executed>>,
           \A x \in Replicas \ {r} : /\ stage'[x] = stage[x] /\ embedded'[x] = embedded[x]
                                     /\ passed'[x] = passed[x]
                                     /\ advisory = x => advisory' = x,
           FileStage(r)', MTypeOK'
    PROVE  MigrationInv'
<1>1. ExecutedOnce'
      BY DEF MigrationInv, ExecutedOnce
<1>2. ASSUME NEW x \in Replicas \ {r} PROVE FileStage(x)'
      BY <1>2, OtherReplica DEF MigrationInv
<1>3. QED
      BY <1>1, <1>2 DEF MigrationInv

LEMMA CurrentIsVersion ==
    ASSUME MigrationInv, NEW r \in Replicas, stage[r] \in Running, Left(r) # {}
    PROVE  /\ Current(r) \in Left(r) /\ Current(r) \in Versions
           /\ embedded[r] \subseteq Versions
<1>1. embedded[r] \in Releases
      BY DEF MigrationInv, FileStage, Running
<1>2. QED
      BY <1>1, CurrentIsLeft DEF Left, Versions

LEMMA UpKeeps ==
    ASSUME MigrationInv, NEW r \in Replicas, UpStep(r)
    PROVE  MigrationInv'
<1> USE DEF To
<1>1. CASE Lock(r)
      <2>1. MTypeOK'
            BY <1>1 DEF MigrationInv, MTypeOK, Lock, Starting, Running
      <2>2. FileStage(r)'
            BY <1>1 DEF MigrationInv, MTypeOK, Lock, FileStage, Running
      <2>3. QED
            BY <1>1, <2>1, <2>2, StageOnly, MigrationsAssumption DEF Lock, MigrationInv, MTypeOK
<1>2. CASE Skip(r)
      <2>1. stage[r] = "check" /\ Current(r) \in recorded
            /\ passed' = [passed EXCEPT ![r] = @ \cup {Current(r)}]
            /\ UNCHANGED <<recorded, executed, advisory, stage, embedded>>
            BY <1>2 DEF Skip, Pass
      <2>2. MTypeOK'
            BY <2>1 DEF MigrationInv, MTypeOK
      <2>3. passed'[r] = passed[r] \cup {Current(r)}
            BY <2>1 DEF MigrationInv, MTypeOK
      <2>4. FileStage(r)'
            BY <2>1, <2>3 DEF MigrationInv, FileStage, Running
      <2>5. QED
            BY <2>1, <2>2, <2>4, StageOnly DEF MigrationInv, MTypeOK
<1>3. CASE Begin(r) \/ Apply(r) \/ Record(r)
      <2>1. /\ stage[r] \in Running /\ UNCHANGED <<recorded, executed, advisory, embedded, passed>>
            /\ Left(r) # {} /\ Current(r) \notin recorded
            BY <1>3 DEF Begin, Apply, Record, Running, MigrationInv, FileStage
      <2>2. PICK s \in Running : stage' = [stage EXCEPT ![r] = s]
            BY <1>3 DEF Begin, Apply, Record, Running
      <2>3. MTypeOK'
            BY <2>1, <2>2 DEF MigrationInv, MTypeOK, Starting
      <2>4. Left(r)' = Left(r) /\ Current(r)' = Current(r)
            BY <2>1 DEF Left, Current
      <2>5. stage'[r] \in Running
            BY <2>2 DEF MigrationInv, MTypeOK
      <2>6. FileStage(r)'
            BY <2>1, <2>4, <2>5 DEF MigrationInv, FileStage, Running
      <2>7. QED
            BY <2>1, <2>2, <2>3, <2>6, StageOnly DEF MigrationInv, MTypeOK
<1>4. CASE EndOfFiles(r)
      <2>1. /\ stage[r] = "check" /\ Left(r) = {} /\ stage' = [stage EXCEPT ![r] = "unlock"]
            /\ UNCHANGED <<recorded, executed, advisory, embedded, passed>>
            BY <1>4 DEF EndOfFiles
      <2>2. embedded[r] \subseteq recorded
            BY <2>1 DEF Left, MigrationInv, FileStage, Running
      <2>3. MTypeOK'
            BY <2>1 DEF MigrationInv, MTypeOK, Starting
      <2>4. FileStage(r)'
            BY <2>1, <2>2 DEF MigrationInv, MTypeOK, FileStage, Running
      <2>5. QED
            BY <2>1, <2>3, <2>4, StageOnly DEF MigrationInv, MTypeOK
<1>5. CASE Unlock(r)
      <2>1. /\ stage[r] = "unlock" /\ stage' = [stage EXCEPT ![r] = "serving"]
            /\ advisory = r /\ advisory' = NoReplica
            /\ UNCHANGED <<recorded, executed, embedded, passed>>
            BY <1>5 DEF Unlock, Release, MigrationInv, FileStage
      <2>2. MTypeOK'
            BY <2>1 DEF MigrationInv, MTypeOK, Starting
      <2>3. FileStage(r)'
            BY <2>1 DEF MigrationInv, MTypeOK, FileStage, Running
      <2>4. QED
            BY <2>1, <2>2, <2>3, StageOnly DEF MigrationInv, MTypeOK
<1>6. CASE CommitFile(r)
      <2>1. /\ stage[r] = "commit" /\ stage[r] \in Running
            /\ recorded' = recorded \cup {Current(r)}
            /\ executed' = [executed EXCEPT ![Current(r)] = @ + 1]
            /\ passed' = [passed EXCEPT ![r] = @ \cup {Current(r)}]
            /\ stage' = [stage EXCEPT ![r] = "check"]
            /\ UNCHANGED <<advisory, embedded>>
            BY <1>6 DEF CommitFile, Pass, Running
      <2>2. Left(r) # {} /\ Current(r) \notin recorded /\ advisory = r
            BY <2>1 DEF MigrationInv, FileStage, Running
      <2>3. Current(r) \in Versions
            BY <2>1, <2>2, CurrentIsVersion
      <2>4. MTypeOK'
            <3>1. executed' \in [Versions -> Nat]
                  BY <2>1, <2>3 DEF MigrationInv, MTypeOK
            <3>2. passed' \in [Replicas -> SUBSET Versions]
                  BY <2>1, <2>3 DEF MigrationInv, MTypeOK
            <3>3. QED
                  BY <2>1, <2>3, <3>1, <3>2 DEF MigrationInv, MTypeOK, Starting, Running
      <2>5. ExecutedOnce'
            BY <2>1, <2>2, <2>3 DEF MigrationInv, MTypeOK, ExecutedOnce
      <2>6. FileStage(r)'
            BY <2>1, <2>2 DEF MigrationInv, MTypeOK, FileStage, Running
      <2>7. ASSUME NEW x \in Replicas \ {r} PROVE FileStage(x)'
            BY <2>1, <2>2, <2>7, OtherReplica DEF MigrationInv, MTypeOK
      <2>8. QED
            BY <2>4, <2>5, <2>6, <2>7 DEF MigrationInv
<1>7. QED
      BY <1>1, <1>2, <1>3, <1>4, <1>5, <1>6 DEF UpStep

\* A process starts, or its session ends with everything it had open.
LEMMA ProcessKeeps ==
    ASSUME MigrationInv, NEW r \in Replicas,
           \/ Start(r) \/ FailToStart(r) \/ SigTerm(r) \/ ClosePool(r) \/ Exit(r) \/ CrashProcess(r)
    PROVE  MigrationInv'
<1>1. CASE Start(r)
      <2>1. PICK rel \in Releases : embedded' = [embedded EXCEPT ![r] = rel]
            BY <1>1 DEF Start
      <2>2. MTypeOK'
            BY <1>1, <2>1 DEF Start, To, MigrationInv, MTypeOK, Starting
      <2>3. FileStage(r)'
            BY <1>1, <2>1 DEF Start, To, MigrationInv, MTypeOK, FileStage, Running
      <2>4. QED
            BY <1>1, <2>1, <2>2, <2>3, StageOnly DEF Start, To, MigrationInv, MTypeOK
<1>2. CASE FailToStart(r) \/ CrashProcess(r) \/ Exit(r)
      <2>1. /\ stage' = [stage EXCEPT ![r] = "down"]
            /\ Release(r) \/ advisory' = advisory
            /\ UNCHANGED <<recorded, executed, embedded, passed>>
            BY <1>2 DEF FailToStart, CrashProcess, Exit, To
      <2>2. MTypeOK'
            BY <2>1 DEF MigrationInv, MTypeOK
      <2>3. FileStage(r)'
            BY <2>1 DEF MigrationInv, MTypeOK, FileStage, Running
      <2>4. QED
            BY <2>1, <2>2, <2>3, StageOnly DEF Release, MigrationInv, MTypeOK
<1>3. CASE SigTerm(r) \/ ClosePool(r)
      <2>1. PICK s \in {"draining", "closing"} :
                /\ stage[r] \in {"serving", "draining"}
                /\ stage' = [stage EXCEPT ![r] = s]
                /\ UNCHANGED <<recorded, executed, advisory, embedded, passed>>
            BY <1>3 DEF SigTerm, ClosePool, To
      <2>2. MTypeOK'
            BY <2>1 DEF MigrationInv, MTypeOK
      <2>3. FileStage(r)'
            BY <2>1 DEF MigrationInv, MTypeOK, FileStage, Running
      <2>4. QED
            BY <2>1, <2>2, <2>3, StageOnly DEF MigrationInv, MTypeOK
<1>4. QED
      BY <1>1, <1>2, <1>3

LEMMA InitMigrations == ServerInit => MigrationInv
<1> SUFFICES ASSUME ServerInit PROVE MigrationInv
    OBVIOUS
<1>1. MTypeOK
      BY DEF ServerInit, MigrationInit, MTypeOK
<1>2. ExecutedOnce /\ \A r \in Replicas : FileStage(r)
      BY DEF ServerInit, MigrationInit, ExecutedOnce, FileStage, Running
<1>3. QED
      BY <1>1, <1>2 DEF MigrationInv

LEMMA StepMigrations == MigrationInv /\ [ServerNext]_serverVars => MigrationInv'
<1> SUFFICES ASSUME MigrationInv, [ServerNext]_serverVars PROVE MigrationInv'
    OBVIOUS
<1>1. CASE UNCHANGED migrationVars
      <2>1. ASSUME NEW r \in Replicas PROVE FileStage(r)'
            BY <1>1, <2>1, OtherReplica DEF migrationVars, MigrationInv
      <2>2. QED
            BY <1>1, <2>1 DEF migrationVars, MigrationInv, MTypeOK, ExecutedOnce
<1>2. ASSUME NEW r \in Replicas, StartUp(r) \/ SigTerm(r) \/ ClosePool(r) \/ Exit(r) \/ CrashProcess(r)
      PROVE  MigrationInv'
      BY <1>2, UpKeeps, ProcessKeeps DEF StartUp
<1>3. QED
      BY <1>1, <1>2 DEF ServerNext, Handle, serverVars

\* Lock, version table and loops agree after every failure and crash.
THEOREM MigrationsHold == ServerSpec => []MigrationInv
BY InitMigrations, StepMigrations, PTL DEF ServerSpec

\* Every file takes effect once, is recorded when it did, and no process
\* answers requests before the files of its release.
THEOREM MigrationsRunOnce == ServerSpec => []MigratedOnce
<1>1. MigrationInv => MigratedOnce
      BY DEF MigrationInv, MigratedOnce, ExecutedOnce, FileStage, Starting, Running
<1>2. QED
      BY <1>1, MigrationsHold, PTL

------------------------------------------------------------------------------
(* Sessions: the inductive invariant *)

\* The steps of a login or registration that has chosen its token, and those
\* of a request that has loaded its session.
UserSteps == {"delete", "user", "insert"}
ActSteps == {"context", "act", "logout", "switch", "setActive", "create"}

\* What a request has at each of its steps.
Place(t) ==
    /\ phase[t] # "answer" => setCookie[t] = Keep
    /\ phase[t] \in {"idle", "answer", "prepare", "session"} => who[t] = None
    /\ phase[t] \in {"idle", "answer"} => sent[t] = None
    /\ phase[t] \in {"idle", "answer", "prepare"} \cup UserSteps => ~wasLive[t]
    /\ phase[t] \notin UserSteps => fresh[t] = None
    /\ phase[t] \in UserSteps => who[t] \in Users /\ fresh[t] \in Tokens
    /\ phase[t] \in ActSteps => who[t] \in Users /\ sent[t] \in Tokens
    /\ phase[t] \in {"context", "act"} => wasLive[t]
    /\ locked[t] \in {None, sent[t]}

\* What it knows of its session, as long as the row is there: a live one was
\* live when the request was sent, it is its user's, and a login that is past
\* its DELETE has deleted it.
Known(t) ==
    /\ phase[t] = "session" /\ sent[t] \in Live => wasLive[t]
    /\ phase[t] \in ActSteps /\ sent[t] \in rows => holder[sent[t]] = who[t]
    /\ phase[t] \in {"user", "insert"} /\ sent[t] \in rows => locked[t] = sent[t]

\* The token a login is about to insert is nowhere else yet.
FreshIsFresh(t) == fresh[t] # None =>
    /\ fresh[t] \notin rows
    /\ \A b \in Browsers : cookie[b] # fresh[t]
    /\ \A u \in Tabs : fresh[t] # sent[u] /\ fresh[t] # setCookie[u]
    /\ \A u \in Tabs \ {t} : fresh[t] # fresh[u]

\* A request remembers every business its user is a member of.
Relied(t) == wasLive[t] /\ UserOf(t) # None => member[UserOf(t)] \subseteq access[t]

\* The cookie a request was sent with is still the browser's, or the browser
\* has one that no session depends on; and an answer that will replace the
\* cookie replaces such a one.
Present(t) == cookie[BrowserOf[t]]
Superseded(t) ==
    /\ phase[t] \notin {"idle", "answer"} => Present(t) = sent[t] \/ Present(t) \notin Live \ abandoned
    /\ phase[t] = "answer" /\ setCookie[t] # Keep => Present(t) \notin Live \ abandoned

\* Requests of one browser under way at the same time know of it.
Overlap(t) ==
    \A u \in Tabs \ {t} :
        phase[t] # "idle" /\ phase[u] # "idle" /\ BrowserOf[u] = BrowserOf[t] => overlapped[t]

Typed == SessionTypes /\ target \in [Tabs -> businesses \cup {None}]

SessionInv ==
    /\ Typed
    /\ \A t \in Tabs : /\ Place(t) /\ Known(t) /\ FreshIsFresh(t)
                       /\ Relied(t) /\ Superseded(t) /\ Overlap(t)
    /\ NoStraySession
    /\ AccessIsRecent

------------------------------------------------------------------------------
(* Sessions: what a step changes *)

TabStep(t) == Send(t) \/ Authenticate(t) \/ Serve(t) \/ Fail(t) \/ Deliver(t) \/ Lose(t)

\* What a step of t leaves alone of another tab.
Elsewhere(t) == \A u \in Tabs : u # t =>
    /\ phase'[u] = phase[u] /\ kind'[u] = kind[u] /\ sent'[u] = sent[u] /\ who'[u] = who[u]
    /\ target'[u] = target[u] /\ fresh'[u] = fresh[u] /\ locked'[u] = locked[u]
    /\ setCookie'[u] = setCookie[u] /\ wasLive'[u] = wasLive[u]

\* After an answer is on its way, its request knows nothing any more.
LEMMA Replied ==
    ASSUME Typed, NEW t \in Tabs, NEW c \in Tokens \cup {None, Keep}, Reply(t, c)
    PROVE  /\ phase' \in [Tabs -> Steps \cup {"idle"}] /\ kind' \in [Tabs -> Kinds]
           /\ sent' \in [Tabs -> Tokens \cup {None}] /\ who' \in [Tabs -> Users \cup {None}]
           /\ target' \in [Tabs -> businesses \cup {None}] /\ fresh' \in [Tabs -> Tokens \cup {None}]
           /\ locked' \in [Tabs -> Tokens \cup {None}] /\ setCookie' \in [Tabs -> Tokens \cup {None, Keep}]
           /\ wasLive' \in [Tabs -> BOOLEAN] /\ cookie' = cookie /\ overlapped' = overlapped
           /\ phase'[t] = "answer" /\ setCookie'[t] = c /\ sent'[t] = None /\ who'[t] = None
           /\ fresh'[t] = None /\ locked'[t] = None /\ ~wasLive'[t]
           /\ Elsewhere(t)
BY DEF Typed, SessionTypes, Reply, Goto, Steps, Kinds, Elsewhere

LEMMA Forgot ==
    ASSUME Typed, NEW t \in Tabs, Forget(t)
    PROVE  /\ access' \in [Tabs -> SUBSET Businesses]
           /\ \A u \in Tabs : u # t => access'[u] = access[u]
BY DEF Typed, SessionTypes, Forget

LEMMA Remembered ==
    ASSUME Typed, NEW W \in SUBSET Tabs, Remember(W)
    PROVE  /\ access' \in [Tabs -> SUBSET Businesses]
           /\ \A u \in Tabs : access'[u] =
                  {b \in Businesses : u \in W /\ wasLive[u]
                      /\ (b \in access[u] \/ (UserOf(u) # None /\ b \in member'[UserOf(u)]))}
<1> DEFINE F(u) == {b \in Businesses : u \in W /\ wasLive[u]
                      /\ (b \in access[u] \/ (UserOf(u) # None /\ b \in member'[UserOf(u)]))}
<1>1. access' = [u \in Tabs |-> F(u)]
    BY DEF Remember
<1>2. \A u \in Tabs : F(u) \subseteq Businesses
    OBVIOUS
<1> HIDE DEF F
<1>3. access' \in [Tabs -> SUBSET Businesses] /\ \A u \in Tabs : access'[u] = F(u)
    BY <1>1, <1>2
<1> QED BY <1>3 DEF F

\* A row is deleted and another one filled.
LEMMA Replaced ==
    ASSUME Typed, NEW k \in Tokens \cup {None}, NEW gone \in Tokens \cup {None}, k = None \/ k # gone,
           NEW u \in accounts' \cup {None}, NEW b \in businesses \cup {None}, accounts \subseteq accounts',
           Replace(gone, k, u, b), businesses' = businesses
    PROVE  /\ holder' \in [Tokens -> accounts' \cup {None}]
           /\ active' \in [Tokens -> businesses' \cup {None}]
           /\ expired' \subseteq Tokens /\ abandoned' \subseteq Tokens
           /\ rows' \subseteq (rows \ {gone}) \cup {k}
           /\ Live' \subseteq (Live \ {gone}) \cup {k}
           /\ Live' \ abandoned' \subseteq ((Live \ abandoned) \ {gone}) \cup {k}
           /\ \A j \in rows' : j # k => j # gone /\ holder'[j] = holder[j]
<1>1. /\ holder' \in [Tokens -> accounts' \cup {None}]
      /\ active' \in [Tokens -> businesses' \cup {None}]
      /\ expired' \subseteq Tokens /\ abandoned' \subseteq Tokens
    BY DEF Typed, SessionTypes, Replace
<1>2. \A j \in Tokens : holder'[j] = IF j = k THEN u ELSE IF j = gone THEN None ELSE holder[j]
    BY DEF Replace
<1>3. /\ rows' \subseteq (rows \ {gone}) \cup {k}
      /\ \A j \in rows' : j # k => j # gone /\ holder'[j] = holder[j]
    BY <1>2 DEF rows
<1>4. expired' = expired \ {gone} /\ abandoned' = abandoned \ {gone}
    BY DEF Replace
<1> QED BY <1>1, <1>3, <1>4 DEF Live

\* The answers that change nothing but the request.
Answered(t) == \E c \in {Keep, None} :
    /\ Reply(t, c) /\ Forget(t) /\ UNCHANGED <<dbVars, abandoned>>
    /\ c = None => sent[t] \notin Live

\* The steps that bring a request on, with nothing for anybody else to see.
Onward(t) ==
    \/ Prepare(t) \/ DeletePrevious(t) \/ InsertUser(t)
    \/ LoadSession(t) \/ ReadContext(t) \/ FindMembership(t)

\* The steps that end in an answer and change nothing.
Plain(t) == EmailTaken(t) \/ Unauthenticated(t) \/ NoAccess(t) \/ Act(t) \/ SessionGone(t) \/ Fail(t)

LEMMA PlainAnswered ==
    ASSUME SessionsAssumption, NEW t \in Tabs, Plain(t)
    PROVE  Answered(t) /\ phase[t] \notin {"idle", "answer"}
<1>1. CASE Unauthenticated(t)
    BY <1>1 DEF Answered, Unauthenticated
<1>2. CASE EmailTaken(t) \/ NoAccess(t) \/ Act(t) \/ SessionGone(t) \/ Fail(t)
    <2>1. /\ Reply(t, Keep) /\ Forget(t) /\ UNCHANGED <<dbVars, abandoned>>
          /\ phase[t] \notin {"idle", "answer"}
        BY <1>2 DEF EmailTaken, NoAccess, Act, SessionGone, Fail
    <2>2. Keep # None
        BY DEF SessionsAssumption
    <2> QED BY <2>1, <2>2 DEF Answered
<1> QED BY <1>1, <1>2 DEF Plain

\* The steps of a tab, by what they have in common.
LEMMA TabStepIs ==
    ASSUME NEW t \in Tabs, TabStep(t)
    PROVE  \/ Send(t) \/ Onward(t) \/ Plain(t) \/ LoadFails(t) \/ Deliver(t) \/ Lose(t)
           \/ InsertSession(t) \/ Logout(t) \/ SetActive(t) \/ CreateBusiness(t)
BY DEF TabStep, Authenticate, Serve, Plain, Onward

\* Each session there is after a step was there before, with the same user, or
\* it is the one the request has generated.
RowsMove(t) ==
    /\ rows' \subseteq rows \cup {fresh[t]}
    /\ Live' \subseteq Live \cup {fresh[t]}
    /\ Live' \ abandoned' \subseteq (Live \ abandoned) \cup {fresh[t]}
    /\ \A j \in rows' : j # fresh[t] => holder'[j] = holder[j]

LEMMA RowsStay ==
    ASSUME NEW t \in Tabs, UNCHANGED holder, expired \subseteq expired', abandoned \subseteq abandoned'
    PROVE  RowsMove(t) /\ rows' = rows /\ Live' \subseteq Live
BY DEF RowsMove, rows, Live

------------------------------------------------------------------------------
(* Sessions: types, and the sessions there are *)

LEMMA SendTypes == ASSUME Typed, SessionsAssumption, NEW t \in Tabs, Send(t)
    PROVE Typed' /\ Elsewhere(t) /\ RowsMove(t)
<1>1. PICK action \in Kinds :
        LET k == cookie[BrowserOf[t]]
            live == k \in Live /\ action \notin {"LOGIN", "REGISTER"}
        IN  /\ kind' = [kind EXCEPT ![t] = action]
            /\ Goto(t, IF action \in {"LOGIN", "REGISTER"} THEN "prepare" ELSE "session")
            /\ sent' = [sent EXCEPT ![t] = k]
            /\ wasLive' = [wasLive EXCEPT ![t] = live]
            /\ access' = [access EXCEPT ![t] = IF live THEN member[holder[k]] ELSE {}]
    BY DEF Send
<1> DEFINE k == cookie[BrowserOf[t]]
           A == IF k \in Live /\ action \notin {"LOGIN", "REGISTER"} THEN member[holder[k]] ELSE {}
<1>2. UNCHANGED <<dbVars, cookie, who, target, fresh, locked, setCookie, abandoned>>
    BY DEF Send
<1>3. k \in Tokens \cup {None}
    BY DEF Typed, SessionTypes, SessionsAssumption
<1>4. k \in Live => holder[k] \in Users
    BY DEF Typed, SessionTypes, Live, rows
<1>5. A \subseteq Businesses
    BY <1>4 DEF Typed, SessionTypes
<1>6. access' = [access EXCEPT ![t] = A]
    BY <1>1
<1> HIDE DEF A
<1>7. access' \in [Tabs -> SUBSET Businesses]
    BY <1>5, <1>6 DEF Typed, SessionTypes
<1>8. overlapped' \in [Tabs -> BOOLEAN]
    <2> DEFINE O(u) == overlapped[u] \/ u \in Neighbours(t) \/ (u = t /\ Neighbours(t) # {})
    <2>1. overlapped' = [u \in Tabs |-> O(u)]
        BY DEF Send
    <2>2. \A u \in Tabs : O(u) \in BOOLEAN
        OBVIOUS
    <2> HIDE DEF O
    <2> QED BY <2>1, <2>2
<1>9. /\ phase' \in [Tabs -> Steps \cup {"idle"}] /\ kind' \in [Tabs -> Kinds]
      /\ sent' \in [Tabs -> Tokens \cup {None}] /\ wasLive' \in [Tabs -> BOOLEAN]
    <2>1. phase' \in [Tabs -> Steps \cup {"idle"}] /\ kind' \in [Tabs -> Kinds]
        BY <1>1 DEF Typed, SessionTypes, Goto, Steps
    <2>2. sent' \in [Tabs -> Tokens \cup {None}]
        BY <1>1, <1>3 DEF Typed, SessionTypes
    <2>3. wasLive' \in [Tabs -> BOOLEAN]
        BY <1>1 DEF Typed, SessionTypes
    <2> QED BY <2>1, <2>2, <2>3
<1>10. Typed'
    BY <1>2, <1>7, <1>8, <1>9 DEF Typed, SessionTypes, dbVars
<1>11. Elsewhere(t)
    BY <1>1, <1>2 DEF Elsewhere, Goto, Typed, SessionTypes
<1>12. RowsMove(t)
    BY <1>2, RowsStay DEF dbVars
<1> QED BY <1>10, <1>11, <1>12

LEMMA AnsweredTypes == ASSUME Typed, SessionsAssumption, NEW t \in Tabs, Answered(t)
    PROVE Typed' /\ Elsewhere(t) /\ RowsMove(t)
<1>1. PICK c \in {Keep, None} : Reply(t, c) /\ Forget(t) /\ UNCHANGED <<dbVars, abandoned>>
    BY DEF Answered
<1>2. Typed'
    BY <1>1, Replied, Forgot DEF Typed, SessionTypes, dbVars
<1>3. Elsewhere(t)
    BY <1>1, Replied
<1>4. RowsMove(t)
    BY <1>1, RowsStay DEF dbVars
<1> QED BY <1>2, <1>3, <1>4

LEMMA MiddleTypes ==
    ASSUME Typed, SessionsAssumption, NEW t \in Tabs, Place(t), Onward(t)
    PROVE Typed' /\ Elsewhere(t) /\ RowsMove(t)
<1>1. UNCHANGED <<dbVars, cookie, kind, sent, wasLive, access, answerVars>>
    BY DEF Onward, Prepare, DeletePrevious, InsertUser, LoadSession, ReadContext, FindMembership, requestVars
<1>2. RowsMove(t)
    BY <1>1, RowsStay DEF dbVars, answerVars
<1>3. /\ phase' \in [Tabs -> Steps \cup {"idle"}] /\ who' \in [Tabs -> Users \cup {None}]
      /\ target' \in [Tabs -> businesses \cup {None}] /\ fresh' \in [Tabs -> Tokens \cup {None}]
      /\ locked' \in [Tabs -> Tokens \cup {None}] /\ Elsewhere(t)
    <2>1. CASE Prepare(t)
        BY <2>1, <1>1 DEF Prepare, Typed, SessionTypes, Goto, Steps, Elsewhere, answerVars
    <2>2. CASE DeletePrevious(t)
        BY <2>2, <1>1 DEF DeletePrevious, Typed, SessionTypes, Goto, Steps, Elsewhere, answerVars
    <2>3. CASE InsertUser(t)
        BY <2>3, <1>1 DEF InsertUser, Typed, SessionTypes, Goto, Steps, Elsewhere, answerVars, requestVars
    <2>4. CASE LoadSession(t)
        <3>1. holder[sent[t]] \in Users /\ active[sent[t]] \in businesses \cup {None}
            BY <2>4 DEF LoadSession, Live, rows, Typed, SessionTypes
        <3>2. PICK s \in Steps : Goto(t, s)
            BY <2>4 DEF LoadSession, Steps
        <3> QED BY <2>4, <3>1, <3>2, <1>1 DEF LoadSession, Typed, SessionTypes, Goto, Elsewhere, answerVars
    <2>5. CASE ReadContext(t)
        BY <2>5, <1>1 DEF ReadContext, Typed, SessionTypes, Goto, Steps, Elsewhere, answerVars, requestVars
    <2>6. CASE FindMembership(t)
        <3>1. PICK b \in member[who[t]] : target' = [target EXCEPT ![t] = b]
            BY <2>6 DEF FindMembership
        <3>2. b \in businesses
            BY <2>6, <3>1 DEF Typed, SessionTypes, FindMembership, Place, ActSteps
        <3> QED BY <2>6, <3>1, <3>2, <1>1 DEF FindMembership, Typed, SessionTypes, Goto, Steps, Elsewhere, answerVars
    <2> QED BY <2>1, <2>2, <2>3, <2>4, <2>5, <2>6 DEF Onward
<1>4. Typed'
    BY <1>1, <1>3 DEF Typed, SessionTypes, dbVars, answerVars
<1> QED BY <1>2, <1>3, <1>4

LEMMA InsertSessionTypes ==
    ASSUME Typed, SessionsAssumption, NEW t \in Tabs, Place(t), FreshIsFresh(t), InsertSession(t)
    PROVE  /\ Typed' /\ Elsewhere(t) /\ RowsMove(t)
           /\ rows' \subseteq (rows \ {locked[t]}) \cup {fresh[t]}
           /\ locked[t] # fresh[t] /\ setCookie'[t] = fresh[t] /\ cookie' = cookie
<1>1. PICK b \in StartOf(t) : Replace(locked[t], fresh[t], who[t], b)
    BY DEF InsertSession
<1>2. /\ accounts' = accounts \cup {who[t]} /\ Reply(t, fresh[t]) /\ Forget(t)
      /\ UNCHANGED <<businesses, member>> /\ phase[t] = "insert"
    BY DEF InsertSession
<1>3. who[t] \in Users /\ fresh[t] \in Tokens /\ locked[t] \in Tokens \cup {None}
    BY <1>2 DEF Place, UserSteps, Typed, SessionTypes
<1>4. b \in businesses \cup {None}
    BY <1>1, <1>3 DEF StartOf, Typed, SessionTypes
<1>5. locked[t] # fresh[t]
    BY <1>3 DEF FreshIsFresh, Place, SessionsAssumption
<1>6. who[t] \in accounts' \cup {None} /\ accounts \subseteq accounts'
    BY <1>2
<1>7. /\ holder' \in [Tokens -> accounts' \cup {None}]
      /\ active' \in [Tokens -> businesses' \cup {None}]
      /\ expired' \subseteq Tokens /\ abandoned' \subseteq Tokens
      /\ rows' \subseteq (rows \ {locked[t]}) \cup {fresh[t]}
      /\ RowsMove(t)
    BY <1>1, <1>2, <1>3, <1>4, <1>5, <1>6, Replaced DEF RowsMove
<1>8. Typed'
    BY <1>2, <1>3, <1>7, Replied, Forgot DEF Typed, SessionTypes
<1>9. Elsewhere(t) /\ setCookie'[t] = fresh[t] /\ cookie' = cookie
    BY <1>2, <1>3, Replied
<1> QED BY <1>5, <1>7, <1>8, <1>9

LEMMA LogoutTypes ==
    ASSUME Typed, SessionsAssumption, NEW t \in Tabs, Place(t), Logout(t)
    PROVE  /\ Typed' /\ Elsewhere(t) /\ RowsMove(t)
           /\ rows' \subseteq rows \ {sent[t]}
<1>1. /\ Replace(sent[t], None, None, None) /\ Reply(t, None) /\ Forget(t)
      /\ UNCHANGED <<accounts, businesses, member>> /\ phase[t] = "logout"
    BY DEF Logout
<1>2. sent[t] \in Tokens /\ fresh[t] = None /\ None \notin Tokens
    BY <1>1 DEF Place, ActSteps, UserSteps, SessionsAssumption
<1>3. /\ holder' \in [Tokens -> accounts' \cup {None}]
      /\ active' \in [Tokens -> businesses' \cup {None}]
      /\ expired' \subseteq Tokens /\ abandoned' \subseteq Tokens
      /\ rows' \subseteq (rows \ {sent[t]}) \cup {None}
      /\ RowsMove(t)
    BY <1>1, <1>2, Replaced DEF RowsMove
<1>4. None \notin rows'
    BY <1>2 DEF rows
<1>5. Typed'
    BY <1>1, <1>3, Replied, Forgot DEF Typed, SessionTypes
<1>6. Elsewhere(t)
    BY <1>1, Replied
<1> QED BY <1>3, <1>4, <1>5, <1>6

LEMMA SetActiveTypes ==
    ASSUME Typed, SessionsAssumption, NEW t \in Tabs, SetActive(t)
    PROVE  Typed' /\ Elsewhere(t) /\ RowsMove(t)
<1>1. /\ active' = [active EXCEPT ![sent[t]] = target[t]] /\ Reply(t, Keep) /\ Forget(t)
      /\ UNCHANGED <<accounts, businesses, member, holder, expired, abandoned>>
    BY DEF SetActive
<1>2. active' \in [Tokens -> businesses' \cup {None}]
    BY <1>1 DEF Typed, SessionTypes
<1>3. Typed'
    BY <1>1, <1>2, Replied, Forgot DEF Typed, SessionTypes
<1> QED BY <1>1, <1>3, Replied, RowsStay

LEMMA CreateBusinessTypes ==
    ASSUME Typed, SessionsAssumption, NEW t \in Tabs, Place(t), CreateBusiness(t)
    PROVE  Typed' /\ Elsewhere(t) /\ RowsMove(t)
<1>1. PICK b \in Businesses \ businesses :
        /\ businesses' = businesses \cup {b}
        /\ member' = [member EXCEPT ![who[t]] = @ \cup {b}]
        /\ active' = IF sent[t] \in rows THEN [active EXCEPT ![sent[t]] = b] ELSE active
    BY DEF CreateBusiness
<1>2. /\ Reply(t, Keep) /\ Remember(Tabs \ {t}) /\ UNCHANGED <<accounts, holder, expired, abandoned>>
    BY DEF CreateBusiness
<1>3. /\ businesses' \subseteq Businesses /\ businesses \subseteq businesses'
      /\ member' \in [Users -> SUBSET businesses']
      /\ active' \in [Tokens -> businesses' \cup {None}]
    BY <1>1 DEF Typed, SessionTypes
<1>4. /\ target' \in [Tabs -> Businesses \cup {None}]
      /\ target' \in [Tabs -> businesses' \cup {None}]
    BY <1>2, <1>3, Replied DEF Typed, SessionTypes
<1>5. access' \in [Tabs -> SUBSET Businesses]
    BY <1>2, Remembered
<1>6. Typed'
    BY <1>2, <1>3, <1>4, <1>5, Replied DEF Typed, SessionTypes
<1> QED BY <1>2, <1>6, Replied, RowsStay

LEMMA LoadFailsTypes ==
    ASSUME Typed, SessionsAssumption, NEW t \in Tabs, LoadFails(t)
    PROVE  Typed' /\ Elsewhere(t) /\ RowsMove(t)
<1>1. /\ Reply(t, None) /\ Forget(t) /\ UNCHANGED dbVars
      /\ abandoned' = abandoned \cup ({sent[t]} \cap rows)
    BY DEF LoadFails
<1>2. abandoned' \subseteq Tokens
    BY <1>1 DEF Typed, SessionTypes, rows
<1>3. Typed'
    BY <1>1, <1>2, Replied, Forgot DEF Typed, SessionTypes, dbVars
<1>4. RowsMove(t)
    BY <1>1, RowsStay DEF dbVars
<1> QED BY <1>1, <1>3, <1>4, Replied

LEMMA EndedTypes ==
    ASSUME Typed, SessionsAssumption, NEW t \in Tabs, Deliver(t) \/ Lose(t)
    PROVE  /\ Typed' /\ Elsewhere(t) /\ RowsMove(t)
           /\ phase'[t] = "idle" /\ setCookie'[t] = Keep
<1>1. EndRequest(t)
    BY DEF Deliver, Lose
<1>2. /\ abandoned' \subseteq Tokens /\ abandoned \subseteq abandoned'
    BY DEF Deliver, Lose, Typed, SessionTypes, rows
<1>3. cookie' \in [Browsers -> Tokens \cup {None}]
    <2>1. CASE Lose(t)
        BY <2>1 DEF Lose, Typed, SessionTypes
    <2>2. CASE Deliver(t)
        <3>1. setCookie[t] # Keep => setCookie[t] \in Tokens \cup {None}
            BY DEF Typed, SessionTypes
        <3>2. cookie' = [cookie EXCEPT ![BrowserOf[t]] = IF setCookie[t] = Keep THEN @ ELSE setCookie[t]]
            BY <2>2 DEF Deliver
        <3> QED BY <3>1, <3>2 DEF Typed, SessionTypes
    <2> QED BY <2>1, <2>2
<1>4. /\ phase' \in [Tabs -> Steps \cup {"idle"}] /\ setCookie' \in [Tabs -> Tokens \cup {None, Keep}]
      /\ overlapped' \in [Tabs -> BOOLEAN] /\ Elsewhere(t)
      /\ phase'[t] = "idle" /\ setCookie'[t] = Keep
    BY <1>1 DEF EndRequest, Goto, Typed, SessionTypes, Elsewhere, requestVars
<1>5. Typed'
    BY <1>1, <1>2, <1>3, <1>4 DEF Typed, SessionTypes, EndRequest, dbVars, requestVars
<1>6. RowsMove(t)
    BY <1>1, <1>2, RowsStay DEF EndRequest, dbVars
<1> QED BY <1>4, <1>5, <1>6

\* A step keeps the types, leaves other requests alone and adds no session but
\* the one it has generated.
LEMMA StepTypes ==
    ASSUME Typed, SessionsAssumption, NEW t \in Tabs, Place(t), FreshIsFresh(t), TabStep(t)
    PROVE  Typed' /\ Elsewhere(t) /\ RowsMove(t)
<1>1. CASE Plain(t)
    BY <1>1, PlainAnswered, AnsweredTypes
<1>2. CASE Send(t)
    BY <1>2, SendTypes
<1>3. CASE Onward(t)
    BY <1>3, MiddleTypes
<1>4. CASE InsertSession(t)
    BY <1>4, InsertSessionTypes
<1>5. CASE Logout(t)
    BY <1>5, LogoutTypes
<1>6. CASE SetActive(t)
    BY <1>6, SetActiveTypes
<1>7. CASE CreateBusiness(t)
    BY <1>7, CreateBusinessTypes
<1>8. CASE LoadFails(t)
    BY <1>8, LoadFailsTypes
<1>9. CASE Deliver(t) \/ Lose(t)
    BY <1>9, EndedTypes
<1> QED BY <1>1, <1>2, <1>3, <1>4, <1>5, <1>6, <1>7, <1>8, <1>9, TabStepIs

\* No session of another tab is the one t has generated.
LEMMA OthersPlace ==
    ASSUME Typed, SessionsAssumption, NEW t \in Tabs, NEW u \in Tabs, u # t, FreshIsFresh(t), Elsewhere(t), RowsMove(t),
           Place(u), Known(u)
    PROVE  Place(u)' /\ Known(u)'
<1>1. /\ phase'[u] = phase[u] /\ sent'[u] = sent[u] /\ who'[u] = who[u]
      /\ fresh'[u] = fresh[u] /\ locked'[u] = locked[u]
      /\ setCookie'[u] = setCookie[u] /\ wasLive'[u] = wasLive[u]
    BY DEF Elsewhere
<1>2. Place(u)'
    BY <1>1 DEF Place
<1>3. sent[u] \in rows' => sent[u] # fresh[t]
    BY DEF FreshIsFresh, rows, SessionsAssumption
<1>4. sent[u] \in rows' => sent[u] \in rows /\ holder'[sent[u]] = holder[sent[u]]
    BY <1>3 DEF RowsMove
<1>5. sent[u] \in Live' => sent[u] \in Live
    BY <1>3 DEF RowsMove, Live
<1>6. Known(u)'
    BY <1>1, <1>4, <1>5 DEF Known
<1> QED BY <1>2, <1>6

------------------------------------------------------------------------------
(* Sessions: the request itself *)

LEMMA OwnPlace ==
    ASSUME Typed, SessionsAssumption, NEW t \in Tabs, TabStep(t), Place(t), Known(t), FreshIsFresh(t)
    PROVE  Place(t)' /\ Known(t)'
<1>0. None \notin Tokens /\ None \notin Users
    BY DEF SessionsAssumption
<1>1. ASSUME NEW c \in Tokens \cup {None, Keep}, Reply(t, c)
      PROVE  Place(t)' /\ Known(t)'
    BY <1>1, Replied DEF Place, Known, UserSteps, ActSteps
<1>2. CASE Plain(t)
    BY <1>1, <1>2, PlainAnswered DEF Answered
<1>3. CASE InsertSession(t)
    <2>1. fresh[t] \in Tokens /\ Reply(t, fresh[t])
        BY <1>3 DEF InsertSession, Place, UserSteps
    <2> QED BY <2>1, <1>1
<1>4. CASE Logout(t) \/ SetActive(t) \/ CreateBusiness(t) \/ LoadFails(t)
    BY <1>1, <1>4 DEF Logout, SetActive, CreateBusiness, LoadFails
<1>5. CASE Send(t)
    <2>1. PICK action \in Kinds :
        LET k == cookie[BrowserOf[t]]
            live == k \in Live /\ action \notin {"LOGIN", "REGISTER"}
        IN  /\ Goto(t, IF action \in {"LOGIN", "REGISTER"} THEN "prepare" ELSE "session")
            /\ sent' = [sent EXCEPT ![t] = k]
            /\ wasLive' = [wasLive EXCEPT ![t] = live]
        BY <1>5 DEF Send
    <2>2. /\ phase'[t] = IF action \in {"LOGIN", "REGISTER"} THEN "prepare" ELSE "session"
          /\ sent'[t] = Present(t)
          /\ wasLive'[t] <=> Present(t) \in Live /\ action \notin {"LOGIN", "REGISTER"}
        BY <2>1 DEF Goto, Typed, SessionTypes, Present
    <2>3. UNCHANGED <<dbVars, who, fresh, locked, setCookie>> /\ phase[t] = "idle"
        BY <1>5 DEF Send
    <2>4. Live' = Live
        BY <2>3 DEF Live, rows, dbVars
    <2>5. who'[t] = None /\ fresh'[t] = None /\ locked'[t] = None /\ setCookie'[t] = Keep
        BY <2>3 DEF Place, UserSteps
    <2> QED BY <2>2, <2>4, <2>5 DEF Place, Known, UserSteps, ActSteps
<1>6. CASE Prepare(t)
    <2>1. /\ who'[t] \in Users /\ fresh'[t] \in Tokens /\ phase'[t] = "delete"
        BY <1>6 DEF Prepare, Goto, Typed, SessionTypes
    <2>2. UNCHANGED <<sent, wasLive, locked, setCookie>> /\ phase[t] = "prepare"
        BY <1>6 DEF Prepare, answerVars
    <2> QED BY <2>1, <2>2 DEF Place, Known, UserSteps, ActSteps
<1>7. CASE DeletePrevious(t)
    <2>1. /\ locked'[t] = IF sent[t] \in rows THEN sent[t] ELSE None
          /\ phase'[t] \in {"insert", "user"} /\ phase[t] = "delete"
          /\ UNCHANGED <<dbVars, sent, who, fresh, wasLive, setCookie>>
        BY <1>7 DEF DeletePrevious, Goto, Typed, SessionTypes, answerVars
    <2>2. rows' = rows
        BY <2>1 DEF rows, dbVars
    <2> QED BY <2>1, <2>2 DEF Place, Known, UserSteps, ActSteps
<1>8. CASE InsertUser(t)
    <2>1. /\ phase'[t] = "insert" /\ phase[t] = "user"
          /\ UNCHANGED <<dbVars, sent, who, fresh, locked, wasLive, setCookie>>
        BY <1>8 DEF InsertUser, Goto, Typed, SessionTypes, answerVars, requestVars
    <2>2. rows' = rows
        BY <2>1 DEF rows, dbVars
    <2> QED BY <2>1, <2>2 DEF Place, Known, UserSteps, ActSteps
<1>9. CASE LoadSession(t)
    <2>1. /\ who'[t] = holder[sent[t]] /\ phase'[t] \in {"logout", "switch", "create", "context"}
          /\ phase[t] = "session" /\ sent[t] \in Live
          /\ UNCHANGED <<dbVars, sent, fresh, locked, wasLive, setCookie>>
        BY <1>9 DEF LoadSession, Goto, Typed, SessionTypes, answerVars
    <2>2. sent[t] \in Tokens /\ holder[sent[t]] \in Users
        BY <2>1 DEF Live, rows, Typed, SessionTypes
    <2>3. wasLive[t]
        BY <2>1 DEF Known
    <2>4. holder'[sent'[t]] = who'[t]
        BY <2>1 DEF dbVars
    <2> QED BY <2>1, <2>2, <2>3, <2>4 DEF Place, Known, UserSteps, ActSteps
<1>10. CASE ReadContext(t) \/ FindMembership(t)
    <2>1. /\ \/ phase[t] = "context" /\ phase'[t] = "act"
             \/ phase[t] = "switch" /\ phase'[t] = "setActive"
          /\ UNCHANGED <<dbVars, sent, who, fresh, locked, wasLive, setCookie>>
        BY <1>10 DEF ReadContext, FindMembership, Goto, Typed, SessionTypes, answerVars, requestVars
    <2>2. rows' = rows /\ Live' = Live /\ holder' = holder
        BY <2>1 DEF rows, Live, dbVars
    <2> QED BY <2>1, <2>2 DEF Place, Known, UserSteps, ActSteps
<1>11. CASE Deliver(t) \/ Lose(t)
    <2>1. phase'[t] = "idle" /\ setCookie'[t] = Keep
        BY <1>11, EndedTypes
    <2>2. phase[t] = "answer" /\ UNCHANGED <<sent, who, fresh, locked, wasLive>>
        BY <1>11 DEF Deliver, Lose, EndRequest, requestVars
    <2> QED BY <2>1, <2>2 DEF Place, Known, UserSteps, ActSteps
<1> QED BY <1>2, <1>3, <1>4, <1>5, <1>6, <1>7, <1>8, <1>9, <1>10, <1>11, TabStepIs DEF Onward

\* Where the tokens go in a step of t.
TokensMove(t) ==
    /\ \A b \in Browsers : cookie'[b] \in {cookie[b], setCookie[t]}
    /\ sent'[t] \in {sent[t], None, Present(t)}
    /\ setCookie'[t] \in {setCookie[t], fresh[t], None, Keep}
    /\ fresh[t] \in rows' => setCookie'[t] = fresh[t] /\ fresh'[t] = None
    /\ \/ fresh'[t] = None
       \/ fresh'[t] = fresh[t] /\ setCookie'[t] = setCookie[t]
       \/ IsNew(fresh'[t]) /\ UNCHANGED <<holder, cookie, sent, setCookie>>

LEMMA TokensGo ==
    ASSUME Typed, SessionsAssumption, NEW t \in Tabs, TabStep(t), Place(t), FreshIsFresh(t)
    PROVE  TokensMove(t)
<1>0. None \notin Tokens
    BY DEF SessionsAssumption
<1>a. fresh[t] \notin rows
    BY <1>0 DEF FreshIsFresh, rows
<1>1. ASSUME NEW c \in {None, Keep}, Reply(t, c), rows' \subseteq rows
      PROVE  TokensMove(t)
    BY <1>a, <1>1, Replied DEF TokensMove
<1>2. CASE Plain(t)
    <2>1. PICK c \in {None, Keep} : Reply(t, c) /\ UNCHANGED dbVars
        BY <1>2, PlainAnswered DEF Answered
    <2> QED BY <1>1, <2>1 DEF rows, dbVars
<1>3. CASE InsertSession(t)
    <2>1. fresh[t] \in Tokens /\ Reply(t, fresh[t])
        BY <1>3 DEF InsertSession, Place, UserSteps
    <2> QED BY <2>1, Replied DEF TokensMove
<1>4. CASE Logout(t)
    BY <1>1, <1>4, LogoutTypes DEF Logout
<1>5. CASE SetActive(t) \/ CreateBusiness(t) \/ LoadFails(t)
    <2>1. UNCHANGED holder /\ \E c \in {None, Keep} : Reply(t, c)
        BY <1>5 DEF SetActive, CreateBusiness, LoadFails, dbVars
    <2> QED BY <1>1, <2>1 DEF rows
<1>6. CASE Send(t)
    <2>1. UNCHANGED <<holder, cookie, fresh, setCookie>> /\ sent'[t] = Present(t)
        BY <1>6 DEF Send, dbVars, Present, Typed, SessionTypes
    <2> QED BY <2>1, <1>a DEF TokensMove, rows
<1>7. CASE Prepare(t)
    <2>1. UNCHANGED <<holder, cookie, sent, setCookie>> /\ IsNew(fresh'[t])
        BY <1>7 DEF Prepare, dbVars, answerVars, Typed, SessionTypes
    <2> QED BY <2>1, <1>a DEF TokensMove, rows
<1>8. CASE DeletePrevious(t) \/ InsertUser(t) \/ LoadSession(t) \/ ReadContext(t) \/ FindMembership(t)
    <2>1. UNCHANGED <<holder, cookie, sent, fresh, setCookie>>
        BY <1>8 DEF DeletePrevious, InsertUser, LoadSession, ReadContext, FindMembership, dbVars, answerVars, requestVars
    <2> QED BY <2>1, <1>a DEF TokensMove, rows
<1>9. CASE Deliver(t) \/ Lose(t)
    <2>1. UNCHANGED <<holder, sent, fresh>> /\ setCookie'[t] = Keep
        BY <1>9, EndedTypes DEF Deliver, Lose, EndRequest, dbVars, requestVars
    <2>2. \A b \in Browsers : cookie'[b] \in {cookie[b], setCookie[t]}
        BY <1>9 DEF Deliver, Lose, Typed, SessionTypes
    <2>3. phase[t] = "answer"
        BY <1>9 DEF Deliver, Lose
    <2>4. fresh'[t] = None
        BY <2>1, <2>3 DEF Place, UserSteps
    <2> QED BY <2>1, <2>2, <2>4, <1>a DEF TokensMove, rows
<1> QED BY <1>2, <1>3, <1>4, <1>5, <1>6, <1>7, <1>8, <1>9, TabStepIs DEF Onward

\* A token that was nowhere else goes nowhere but into its own answer.
LEMMA FreshStays ==
    ASSUME Typed, Typed', SessionsAssumption, NEW t \in Tabs, Elsewhere(t), RowsMove(t), TokensMove(t),
           \A u \in Tabs : FreshIsFresh(u), NEW v \in Tabs
    PROVE  FreshIsFresh(v)'
<1> SUFFICES ASSUME fresh'[v] # None PROVE FreshIsFresh(v)'
    BY DEF FreshIsFresh
<1>0. None \notin Tokens /\ Keep \notin Tokens /\ BrowserOf[t] \in Browsers
    BY DEF SessionsAssumption
<1>1. fresh'[v] \in Tokens /\ rows \subseteq Tokens
    BY DEF Typed, SessionTypes, rows
<1>2. CASE v # t
    <2>1. fresh'[v] = fresh[v]
        BY <1>2 DEF Elsewhere
    <2>2. /\ fresh[v] \notin rows /\ fresh[v] # fresh[t]
          /\ \A b \in Browsers : cookie[b] # fresh[v]
          /\ \A u \in Tabs : fresh[v] # sent[u] /\ fresh[v] # setCookie[u]
          /\ \A u \in Tabs \ {v} : fresh[v] # fresh[u]
        BY <1>2, <2>1 DEF FreshIsFresh
    <2>3. fresh[v] \notin rows'
        BY <2>2 DEF RowsMove
    <2>4. \A b \in Browsers : cookie'[b] # fresh[v]
        BY <2>2 DEF TokensMove
    <2>5. fresh[v] # sent'[t] /\ fresh[v] # setCookie'[t]
        BY <1>0, <1>1, <2>1, <2>2 DEF TokensMove, Present
    <2>6. fresh[v] # fresh'[t]
        BY <1>0, <1>1, <1>2, <2>1, <2>2 DEF TokensMove, IsNew
    <2> QED BY <2>1, <2>2, <2>3, <2>4, <2>5, <2>6 DEF FreshIsFresh, Elsewhere
<1>3. CASE v = t /\ fresh'[t] = fresh[t] /\ setCookie'[t] = setCookie[t]
    <2>1. /\ fresh[t] \notin rows
          /\ \A b \in Browsers : cookie[b] # fresh[t]
          /\ \A u \in Tabs : fresh[t] # sent[u] /\ fresh[t] # setCookie[u]
          /\ \A u \in Tabs \ {t} : fresh[t] # fresh[u]
        BY <1>3 DEF FreshIsFresh
    <2>2. fresh[t] \notin rows'
        BY <1>3 DEF TokensMove
    <2>3. \A b \in Browsers : cookie'[b] # fresh[t]
        BY <2>1 DEF TokensMove
    <2>4. fresh[t] # sent'[t]
        BY <1>0, <1>1, <1>3, <2>1 DEF TokensMove, Present
    <2> QED BY <1>3, <2>1, <2>2, <2>3, <2>4 DEF FreshIsFresh, Elsewhere
<1>4. CASE v = t /\ IsNew(fresh'[t]) /\ UNCHANGED <<holder, cookie, sent, setCookie>>
    <2>1. rows' = rows
        BY <1>4 DEF rows
    <2> QED BY <1>4, <2>1 DEF FreshIsFresh, IsNew, Elsewhere
<1> QED BY <1>2, <1>3, <1>4 DEF TokensMove

\* The user another tab acts for is still the same, or its session has gone.
LEMMA UserStays ==
    ASSUME Typed, Typed', SessionsAssumption, NEW t \in Tabs, NEW u \in Tabs, u # t,
           Elsewhere(t), RowsMove(t), FreshIsFresh(t)
    PROVE  UserOf(u)' \in {None, UserOf(u)} /\ UserOf(u)' \in Users \cup {None}
<1>1. sent'[u] = sent[u] /\ who'[u] = who[u] /\ who[u] \in Users \cup {None} /\ sent[u] \in Tokens \cup {None}
    BY DEF Elsewhere, Typed, SessionTypes
<1>2. CASE who[u] # None \/ sent[u] = None
    BY <1>1, <1>2 DEF UserOf
<1>3. CASE who[u] = None /\ sent[u] # None
    <2>1. UserOf(u)' = holder'[sent[u]] /\ UserOf(u) = holder[sent[u]] /\ sent[u] \in Tokens
        BY <1>1, <1>3 DEF UserOf
    <2>2. holder'[sent[u]] # None => holder'[sent[u]] = holder[sent[u]]
        BY <2>1 DEF RowsMove, rows, FreshIsFresh, SessionsAssumption
    <2> QED BY <2>1, <2>2 DEF Typed, SessionTypes
<1> QED BY <1>2, <1>3

\* Whoever is told of a change of the members remembers the new ones.
LEMMA RememberedRelied ==
    ASSUME Typed, Typed', NEW W \in SUBSET Tabs, Remember(W), NEW u \in W, wasLive'[u] = wasLive[u],
           UserOf(u)' \in {None, UserOf(u)}, UserOf(u)' \in Users \cup {None}
    PROVE  Relied(u)'
<1> SUFFICES ASSUME wasLive[u], UserOf(u)' # None PROVE member'[UserOf(u)'] \subseteq access'[u]
    BY DEF Relied
<1>1. access'[u] = {b \in Businesses : u \in W /\ wasLive[u]
                      /\ (b \in access[u] \/ (UserOf(u) # None /\ b \in member'[UserOf(u)]))}
    BY Remembered
<1>2. UserOf(u)' = UserOf(u) /\ member'[UserOf(u)] \subseteq Businesses
    BY DEF Typed, SessionTypes
<1> QED BY <1>1, <1>2

LEMMA OthersRely ==
    ASSUME Typed, Typed', SessionsAssumption, NEW t \in Tabs, NEW u \in Tabs, u # t, TabStep(t),
           Elsewhere(t), RowsMove(t), FreshIsFresh(t), Relied(u)
    PROVE  /\ Relied(u)'
           /\ wasLive[u] => access[u] \subseteq access'[u]
<1>1. UserOf(u)' \in {None, UserOf(u)} /\ UserOf(u)' \in Users \cup {None}
    BY UserStays
<1>2. wasLive'[u] = wasLive[u]
    BY DEF Elsewhere
<1>3. CASE CreateBusiness(t)
    <2>1. Remember(Tabs \ {t}) /\ u \in Tabs \ {t}
        BY <1>3 DEF CreateBusiness
    <2>2. access'[u] = {b \in Businesses : u \in Tabs \ {t} /\ wasLive[u]
                      /\ (b \in access[u] \/ (UserOf(u) # None /\ b \in member'[UserOf(u)]))}
        BY <2>1, Remembered
    <2>3. access[u] \subseteq Businesses
        BY DEF Typed, SessionTypes
    <2> QED BY <1>1, <1>2, <2>1, <2>2, <2>3, RememberedRelied
<1>4. CASE ~CreateBusiness(t)
    <2>1. member' = member /\ access'[u] = access[u]
        <3>1. CASE Plain(t)
            BY <3>1, PlainAnswered, Forgot DEF Answered, dbVars
        <3>2. CASE InsertSession(t) \/ Logout(t) \/ LoadFails(t) \/ SetActive(t)
            BY <3>2, Forgot DEF InsertSession, Logout, LoadFails, SetActive, dbVars
        <3>3. CASE Send(t)
            BY <3>3 DEF Send, dbVars, Typed, SessionTypes
        <3>4. CASE Onward(t)
            BY <3>4 DEF Onward, Prepare, DeletePrevious, InsertUser, LoadSession, ReadContext, FindMembership, dbVars, requestVars
        <3>5. CASE Deliver(t) \/ Lose(t)
            BY <3>5 DEF Deliver, Lose, EndRequest, dbVars, requestVars
        <3> QED BY <1>4, <3>1, <3>2, <3>3, <3>4, <3>5, TabStepIs
    <2> QED BY <1>1, <1>2, <2>1 DEF Relied
<1> QED BY <1>3, <1>4

LEMMA OwnRely ==
    ASSUME Typed, Typed', SessionsAssumption, NEW t \in Tabs, TabStep(t), Place(t), Relied(t), Place(t)'
    PROVE  Relied(t)'
<1>0. None \notin Tokens
    BY DEF SessionsAssumption
<1>1. CASE phase'[t] \in {"idle", "answer", "prepare"} \cup UserSteps
    BY <1>1 DEF Place, Relied
<1>2. CASE Send(t)
    <2>1. PICK action \in Kinds :
        LET k == cookie[BrowserOf[t]]
            live == k \in Live /\ action \notin {"LOGIN", "REGISTER"}
        IN  /\ sent' = [sent EXCEPT ![t] = k]
            /\ wasLive' = [wasLive EXCEPT ![t] = live]
            /\ access' = [access EXCEPT ![t] = IF live THEN member[holder[k]] ELSE {}]
        BY <1>2 DEF Send
    <2>2. /\ sent'[t] = Present(t)
          /\ wasLive'[t] => Present(t) \in Live /\ access'[t] = member[holder[Present(t)]]
        BY <2>1 DEF Typed, SessionTypes, Present
    <2>3. UNCHANGED <<holder, member, who>> /\ who[t] = None
        BY <1>2 DEF Send, dbVars, Place
    <2>4. Present(t) \in Live => Present(t) # None
        BY <1>0 DEF Live, rows
    <2> QED BY <2>2, <2>3, <2>4 DEF Relied, UserOf
<1>3. CASE LoadSession(t)
    <2>1. /\ who'[t] = holder[sent[t]] /\ who[t] = None /\ sent[t] \in rows
          /\ UNCHANGED <<member, holder, sent, wasLive, access>>
        BY <1>3 DEF LoadSession, Typed, SessionTypes, dbVars, Place, Live
    <2>2. sent[t] # None
        BY <2>1, <1>0 DEF rows
    <2>3. UserOf(t)' = UserOf(t)
        BY <2>1, <2>2 DEF UserOf, rows
    <2> QED BY <2>1, <2>3 DEF Relied
<1>4. CASE ReadContext(t) \/ FindMembership(t)
    <2>1. UNCHANGED <<member, holder, sent, who, wasLive, access>>
        BY <1>4 DEF ReadContext, FindMembership, requestVars, dbVars
    <2> QED BY <2>1 DEF Relied, UserOf
<1>5. ASSUME ~Send(t), ~LoadSession(t), ~ReadContext(t), ~FindMembership(t)
      PROVE  phase'[t] \in {"idle", "answer", "prepare"} \cup UserSteps
    <2>1. CASE Plain(t)
        BY <2>1, PlainAnswered, Replied DEF Answered
    <2>2. CASE Logout(t) \/ LoadFails(t) \/ SetActive(t) \/ CreateBusiness(t)
        BY <2>2, Replied DEF Logout, LoadFails, SetActive, CreateBusiness
    <2>3. CASE InsertSession(t)
        BY <2>3 DEF InsertSession, Reply, Goto, Typed, SessionTypes
    <2>4. CASE Prepare(t) \/ DeletePrevious(t) \/ InsertUser(t)
        BY <2>4 DEF Prepare, DeletePrevious, InsertUser, Goto, UserSteps, Typed, SessionTypes
    <2>5. CASE Deliver(t) \/ Lose(t)
        BY <2>5, EndedTypes
    <2> QED BY <1>5, <2>1, <2>2, <2>3, <2>4, <2>5, TabStepIs DEF Onward
<1> QED BY <1>1, <1>2, <1>3, <1>4, <1>5

\* The cookie under a request, when another tab of its browser gets an answer.
LEMMA OverlapStays ==
    ASSUME Typed, Typed', SessionsAssumption, NEW t \in Tabs, TabStep(t), Elsewhere(t),
           \A u \in Tabs : Overlap(u), NEW v \in Tabs
    PROVE  Overlap(v)'
<1>1. CASE Send(t)
    <2>1. \A u \in Tabs : overlapped'[u] <=>
             (overlapped[u] \/ u \in Neighbours(t) \/ (u = t /\ Neighbours(t) # {}))
        BY <1>1 DEF Send
    <2> SUFFICES ASSUME NEW u \in Tabs \ {v}, phase'[v] # "idle", phase'[u] # "idle", BrowserOf[u] = BrowserOf[v]
                 PROVE  overlapped'[v]
        BY DEF Overlap
    <2>2. CASE v = t
        <3>1. phase'[u] = phase[u]
            BY <2>2 DEF Elsewhere
        <3> QED BY <2>1, <2>2, <3>1 DEF Neighbours
    <2>3. CASE v # t /\ u = t
        <3>1. phase'[v] = phase[v]
            BY <2>3 DEF Elsewhere
        <3> QED BY <2>1, <2>3, <3>1 DEF Neighbours
    <2>4. CASE v # t /\ u # t
        <3>1. phase'[v] = phase[v] /\ phase'[u] = phase[u]
            BY <2>4 DEF Elsewhere
        <3> QED BY <2>1, <3>1 DEF Overlap
    <2> QED BY <2>2, <2>3, <2>4
<1>2. CASE Deliver(t) \/ Lose(t)
    <2>1. overlapped' = [overlapped EXCEPT ![t] = FALSE] /\ phase'[t] = "idle"
        BY <1>2, EndedTypes DEF Deliver, Lose, EndRequest
    <2> QED BY <2>1 DEF Overlap, Elsewhere, Typed, SessionTypes
<1>3. CASE ~Send(t) /\ ~Deliver(t) /\ ~Lose(t)
    <2>1. overlapped' = overlapped /\ phase[t] # "idle"
        <3>1. CASE Plain(t)
            BY <3>1, PlainAnswered, Replied DEF Answered
        <3>2. CASE InsertSession(t) \/ Logout(t) \/ LoadFails(t) \/ SetActive(t) \/ CreateBusiness(t)
            BY <3>2 DEF InsertSession, Logout, LoadFails, SetActive, CreateBusiness, Reply
        <3>3. CASE Onward(t)
            BY <3>3 DEF Onward, Prepare, DeletePrevious, InsertUser, LoadSession, ReadContext, FindMembership, answerVars
        <3> QED BY <1>3, <3>1, <3>2, <3>3, TabStepIs
    <2> QED BY <2>1 DEF Overlap, Elsewhere
<1> QED BY <1>1, <1>2, <1>3

\* A cookie that was of no session to speak of still is not.
LEMMA CookieStays ==
    ASSUME Typed, SessionsAssumption, NEW t \in Tabs, RowsMove(t), FreshIsFresh(t), NEW b \in Browsers,
           cookie[b] \notin Live \ abandoned
    PROVE  cookie[b] \notin Live' \ abandoned'
<1>1. cookie[b] = fresh[t] => cookie[b] = None
    BY DEF FreshIsFresh
<1>2. None \notin Live'
    BY DEF SessionsAssumption, Live, rows
<1> QED BY <1>1, <1>2 DEF RowsMove

LEMMA CookieKept ==
    ASSUME Typed, SessionsAssumption, NEW t \in Tabs, TabStep(t), ~Deliver(t)
    PROVE  cookie' = cookie
<1>1. CASE Plain(t)
    BY <1>1, PlainAnswered, Replied DEF Answered
<1>2. CASE InsertSession(t) \/ Logout(t) \/ LoadFails(t) \/ SetActive(t) \/ CreateBusiness(t)
    BY <1>2 DEF InsertSession, Logout, LoadFails, SetActive, CreateBusiness, Reply
<1>3. CASE Onward(t)
    BY <1>3 DEF Onward, Prepare, DeletePrevious, InsertUser, LoadSession, ReadContext, FindMembership, answerVars
<1>4. CASE Send(t) \/ Lose(t)
    BY <1>4 DEF Send, Lose
<1> QED BY <1>1, <1>2, <1>3, <1>4, TabStepIs

\* An answer that replaces the cookie under the request of another tab has
\* overlapped with it, and the session it brings is counted as abandoned.
LEMMA OthersSuperseded ==
    ASSUME Typed, Typed', SessionsAssumption, NEW t \in Tabs, NEW u \in Tabs, u # t, TabStep(t),
           Elsewhere(t), RowsMove(t), FreshIsFresh(t), Overlap(t), Superseded(u)
    PROVE  Superseded(u)'
<1>0. BrowserOf[u] \in Browsers /\ BrowserOf[t] \in Browsers
    BY DEF SessionsAssumption
<1>1. phase'[u] = phase[u] /\ sent'[u] = sent[u] /\ setCookie'[u] = setCookie[u]
    BY DEF Elsewhere
<1>2. CASE Present(u)' = Present(u)
    <2>1. Present(u) \notin Live \ abandoned => Present(u) \notin Live' \ abandoned'
        BY <1>0, CookieStays DEF Present
    <2> QED BY <1>1, <1>2, <2>1 DEF Superseded
<1>3. CASE Present(u)' # Present(u)
    <2>1. Deliver(t)
        BY <1>3, CookieKept DEF Present
    <2>2. BrowserOf[u] = BrowserOf[t] /\ Present(u)' = setCookie[t]
        BY <1>0, <1>3, <2>1 DEF Deliver, Present, Typed, SessionTypes
    <2>3. CASE phase[u] # "idle"
        <3>1. overlapped[t]
            BY <2>1, <2>2, <2>3 DEF Overlap, Deliver
        <3>2. setCookie[t] \in rows => setCookie[t] \in abandoned'
            BY <2>1, <3>1 DEF Deliver
        <3>3. rows' = rows
            BY <2>1 DEF Deliver, EndRequest, rows, dbVars
        <3> QED BY <1>1, <2>2, <3>2, <3>3 DEF Superseded, Live
    <2>4. CASE phase[u] = "idle"
        BY <1>1, <2>4 DEF Superseded
    <2> QED BY <2>3, <2>4
<1> QED BY <1>2, <1>3

\* An answer that replaces the cookie comes after its transaction has deleted the
\* session of the old one, has found none, or could not tell (LoadFails).
LEMMA OwnSuperseded ==
    ASSUME Typed, Typed', SessionsAssumption, NEW t \in Tabs, TabStep(t), Place(t), Known(t),
           RowsMove(t), FreshIsFresh(t), Superseded(t)
    PROVE  Superseded(t)'
<1>0. BrowserOf[t] \in Browsers /\ None # Keep
    BY DEF SessionsAssumption
<1>1. Present(t) \notin Live \ abandoned => Present(t) \notin Live' \ abandoned'
    BY <1>0, CookieStays DEF Present
<1>2. ASSUME NEW c \in Tokens \cup {None, Keep}, Reply(t, c), phase[t] \notin {"idle", "answer"},
             c # Keep => sent[t] \notin Live' \ abandoned'
      PROVE  Superseded(t)'
    <2>1. phase'[t] = "answer" /\ setCookie'[t] = c /\ Present(t)' = Present(t)
        BY <1>2, Replied DEF Present
    <2> QED BY <1>1, <1>2, <2>1 DEF Superseded
<1>3. CASE Plain(t)
    <2>1. PICK c \in {Keep, None} : /\ Reply(t, c) /\ UNCHANGED <<dbVars, abandoned>>
                                    /\ c = None => sent[t] \notin Live
        BY <1>3, PlainAnswered DEF Answered
    <2>2. Live' = Live
        BY <2>1 DEF dbVars, Live, rows
    <2> QED BY <1>2, <1>3, <2>1, <2>2, PlainAnswered
<1>4. CASE InsertSession(t)
    <2>1. /\ rows' \subseteq (rows \ {locked[t]}) \cup {fresh[t]}
          /\ fresh[t] \in Tokens /\ Reply(t, fresh[t]) /\ phase[t] = "insert"
        BY <1>4, InsertSessionTypes DEF InsertSession, Place, UserSteps
    <2>2. sent[t] # fresh[t]
        BY <2>1 DEF FreshIsFresh, SessionsAssumption
    <2>3. sent[t] \in rows => locked[t] = sent[t]
        BY <2>1 DEF Known
    <2>4. sent[t] \notin Live'
        BY <2>1, <2>2, <2>3 DEF Live
    <2> QED BY <1>2, <2>1, <2>4
<1>5. CASE Logout(t)
    <2>1. rows' \subseteq rows \ {sent[t]} /\ Reply(t, None) /\ phase[t] = "logout"
        BY <1>5, LogoutTypes DEF Logout
    <2> QED BY <1>2, <2>1 DEF Live
<1>6. CASE LoadFails(t)
    <2>1. /\ Reply(t, None) /\ phase[t] = "session" /\ UNCHANGED dbVars
          /\ abandoned' = abandoned \cup ({sent[t]} \cap rows)
        BY <1>6 DEF LoadFails
    <2>2. Live' = Live
        BY <2>1 DEF Live, rows, dbVars
    <2> QED BY <1>2, <2>1, <2>2 DEF Live
<1>7. CASE SetActive(t) \/ CreateBusiness(t)
    BY <1>2, <1>7 DEF SetActive, CreateBusiness
<1>8. CASE Send(t)
    <2>1. sent'[t] = Present(t) /\ cookie' = cookie /\ phase'[t] \in {"prepare", "session"}
        BY <1>8 DEF Send, Goto, Present, Typed, SessionTypes
    <2> QED BY <2>1 DEF Superseded, Present
<1>9. CASE Onward(t)
    <2>1. /\ cookie' = cookie /\ sent' = sent
          /\ phase[t] \notin {"idle", "answer"} /\ phase'[t] \notin {"idle", "answer"}
        BY <1>9 DEF Onward, Prepare, DeletePrevious, InsertUser, LoadSession, ReadContext, FindMembership,
                    Goto, answerVars, requestVars, Typed, SessionTypes
    <2> QED BY <1>1, <2>1 DEF Superseded, Present
<1>10. CASE Deliver(t) \/ Lose(t)
    BY <1>10, EndedTypes DEF Superseded
<1> QED BY <1>3, <1>4, <1>5, <1>6, <1>7, <1>8, <1>9, <1>10, TabStepIs

\* A live session loses its cookie only to such an answer.
LEMMA NoneStray ==
    ASSUME Typed, Typed', SessionsAssumption, NEW t \in Tabs, TabStep(t), Place(t),
           Elsewhere(t), RowsMove(t), TokensMove(t), FreshIsFresh(t), Superseded(t), NoStraySession
    PROVE  NoStraySession'
<1> SUFFICES ASSUME NEW k \in Live' \ abandoned'
             PROVE  (\E b \in Browsers : cookie'[b] = k) \/ (\E u \in Tabs : setCookie'[u] = k)
    BY DEF NoStraySession
<1>0. k \in rows' /\ k \in Tokens /\ k # None /\ k # Keep /\ BrowserOf[t] \in Browsers
    BY DEF Live, rows, SessionsAssumption
<1>1. CASE k = fresh[t]
    BY <1>0, <1>1 DEF TokensMove
<1>2. CASE k # fresh[t]
    <2>1. k \in Live \ abandoned
        BY <1>2 DEF RowsMove
    <2>2. CASE \E u \in Tabs \ {t} : setCookie[u] = k
        BY <2>2 DEF Elsewhere
    <2>3. CASE setCookie[t] = k
        <3>1. phase[t] = "answer"
            BY <1>0, <2>3 DEF Place
        <3>2. CASE Deliver(t)
            BY <1>0, <2>3, <3>2 DEF Deliver, Typed, SessionTypes
        <3>3. CASE Lose(t)
            <4>1. rows' = rows
                BY <3>3 DEF Lose, EndRequest, rows, dbVars
            <4>2. k \in abandoned'
                BY <1>0, <2>3, <3>3, <4>1 DEF Lose
            <4> QED BY <4>2
        <3>4. Deliver(t) \/ Lose(t)
            BY <3>1 DEF TabStep, Send, Authenticate, Prepare, DeletePrevious, InsertUser, EmailTaken, InsertSession,
                 Serve, LoadSession, Unauthenticated, LoadFails, ReadContext, NoAccess, Act, Logout,
                 FindMembership, SetActive, CreateBusiness, SessionGone, Fail
        <3> QED BY <3>2, <3>3, <3>4
    <2>4. CASE \E b \in Browsers : cookie[b] = k
        <3>1. PICK b \in Browsers : cookie[b] = k
            BY <2>4
        <3>2. CASE cookie'[b] = k
            BY <3>2
        <3>3. CASE cookie'[b] # k
            <4>1. Deliver(t)
                BY <3>1, <3>3, CookieKept
            <4>2. b = BrowserOf[t] /\ setCookie[t] # Keep /\ phase[t] = "answer"
                BY <3>1, <3>3, <4>1 DEF Deliver, Typed, SessionTypes
            <4> QED BY <2>1, <3>1, <4>2 DEF Superseded, Present
        <3> QED BY <3>2, <3>3
    <2> QED BY <2>1, <2>2, <2>3, <2>4 DEF NoStraySession
<1> QED BY <1>1, <1>2

LEMMA AccessStays ==
    ASSUME Typed, Typed', SessionsAssumption, NEW t \in Tabs, TabStep(t), Place(t), Elsewhere(t), Relied(t),
           \A u \in Tabs \ {t} : wasLive[u] => access[u] \subseteq access'[u], AccessIsRecent
    PROVE  AccessIsRecent'
<1> SUFFICES ASSUME NEW u \in Tabs, phase'[u] = "act" PROVE wasLive'[u] /\ target'[u] \in access'[u]
    BY DEF AccessIsRecent
<1>1. CASE u # t
    BY <1>1 DEF AccessIsRecent, Elsewhere
<1>2. CASE u = t
    <2>1. CASE ReadContext(t)
        <3>1. /\ phase[t] = "context" /\ target[t] \in member[who[t]]
              /\ UNCHANGED <<who, target, wasLive, access>>
            BY <2>1 DEF ReadContext, HasAccess, requestVars
        <3>2. wasLive[t] /\ UserOf(t) = who[t] /\ who[t] # None
            BY <3>1 DEF Place, ActSteps, UserOf, SessionsAssumption
        <3> QED BY <1>2, <3>1, <3>2 DEF Relied
    <2>2. CASE ~ReadContext(t)
        <3>1. CASE Plain(t)
            BY <1>2, <3>1, PlainAnswered, Replied DEF Answered
        <3>2. CASE Logout(t) \/ LoadFails(t) \/ SetActive(t) \/ CreateBusiness(t)
            BY <1>2, <3>2, Replied DEF Logout, LoadFails, SetActive, CreateBusiness
        <3>3. CASE InsertSession(t)
            BY <1>2, <3>3 DEF InsertSession, Reply, Goto, Typed, SessionTypes
        <3>4. CASE Send(t) \/ Prepare(t) \/ DeletePrevious(t) \/ InsertUser(t) \/ LoadSession(t) \/ FindMembership(t)
            BY <1>2, <3>4 DEF Send, Prepare, DeletePrevious, InsertUser, LoadSession, FindMembership, Goto, Typed, SessionTypes
        <3>5. CASE Deliver(t) \/ Lose(t)
            BY <1>2, <3>5, EndedTypes
        <3> QED BY <2>2, <3>1, <3>2, <3>3, <3>4, <3>5, TabStepIs DEF Onward
    <2> QED BY <2>1, <2>2
<1> QED BY <1>1, <1>2

------------------------------------------------------------------------------
(* Sessions: the invariant and the theorems *)

LEMMA TabStepKeeps ==
    ASSUME SessionInv, SessionsAssumption, NEW t \in Tabs, TabStep(t)
    PROVE  SessionInv'
<1>1. Typed /\ Place(t) /\ Known(t) /\ FreshIsFresh(t) /\ Relied(t) /\ Superseded(t) /\ Overlap(t)
    BY DEF SessionInv
<1>2. Typed' /\ Elsewhere(t) /\ RowsMove(t) /\ TokensMove(t)
    BY <1>1, StepTypes, TokensGo
<1>3. ASSUME NEW u \in Tabs
      PROVE  /\ (Place(u) /\ Known(u) /\ FreshIsFresh(u) /\ Relied(u) /\ Superseded(u) /\ Overlap(u))'
             /\ u # t /\ wasLive[u] => access[u] \subseteq access'[u]
    <2>1. Place(u) /\ Known(u) /\ Relied(u) /\ Superseded(u)
        BY DEF SessionInv
    <2>2. FreshIsFresh(u)'
        BY <1>2, FreshStays DEF SessionInv
    <2>3. Overlap(u)'
        BY <1>2, OverlapStays DEF SessionInv
    <2>4. CASE u # t
        BY <1>1, <1>2, <2>1, <2>2, <2>3, <2>4, OthersPlace, OthersRely, OthersSuperseded
    <2>5. CASE u = t
        <3>1. Place(t)' /\ Known(t)'
            BY <1>1, <1>2, OwnPlace
        <3> QED BY <1>1, <1>2, <2>2, <2>3, <2>5, <3>1, OwnRely, OwnSuperseded
    <2> QED BY <2>4, <2>5
<1>4. NoStraySession'
    BY <1>1, <1>2, NoneStray DEF SessionInv
<1>5. AccessIsRecent'
    BY <1>1, <1>2, <1>3, AccessStays DEF SessionInv
<1> QED BY <1>2, <1>3, <1>4, <1>5 DEF SessionInv

\* Time, the owners of businesses, and nothing at all.
LEMMA OutsideKeeps ==
    ASSUME SessionInv, SessionsAssumption,
           \/ \E k \in Tokens : Expire(k)
           \/ \E u \in Users, b \in Businesses : ChangeMember(u, b)
           \/ UNCHANGED sessionVars
    PROVE  SessionInv'
<1>1. /\ UNCHANGED <<accounts, businesses, holder, active, cookie, phase, kind, sent, who, target,
                     fresh, locked, wasLive, answerVars>>
      /\ expired \subseteq expired'
    BY DEF Expire, ChangeMember, sessionVars, dbVars, requestVars
<1>2. rows' = rows /\ Live' \subseteq Live
    BY <1>1 DEF rows, Live
<1>3. \A t \in Tabs : UserOf(t)' = UserOf(t)
    BY <1>1 DEF UserOf
<1>4. /\ Typed'
      /\ \A t \in Tabs : Relied(t)' /\ (wasLive[t] => access[t] \subseteq access'[t])
    <2>1. CASE UNCHANGED <<member, access>> /\ expired' \subseteq Tokens
        <3>1. Typed'
            BY <1>1, <2>1 DEF SessionInv, Typed, SessionTypes, answerVars
        <3> QED BY <1>1, <1>3, <2>1, <3>1 DEF SessionInv, Relied
    <2>2. CASE \E u \in Users, b \in Businesses : ChangeMember(u, b)
        <3>1. PICK u \in Users, b \in Businesses : ChangeMember(u, b)
            BY <2>2
        <3>2. /\ b \in businesses /\ expired' = expired /\ Remember(Tabs)
              /\ member' = [member EXCEPT ![u] = IF b \in @ THEN @ \ {b} ELSE @ \cup {b}]
            BY <3>1 DEF ChangeMember
        <3>3. member' \in [Users -> SUBSET businesses]
            BY <3>2 DEF SessionInv, Typed, SessionTypes
        <3>4. Typed
            BY DEF SessionInv
        <3>5. /\ access' \in [Tabs -> SUBSET Businesses]
              /\ \A v \in Tabs : access'[v] =
                  {x \in Businesses : v \in Tabs /\ wasLive[v]
                      /\ (x \in access[v] \/ (UserOf(v) # None /\ x \in member'[UserOf(v)]))}
            BY <3>2, <3>4, Remembered
        <3>6. Typed'
            BY <1>1, <3>2, <3>3, <3>4, <3>5 DEF Typed, SessionTypes, answerVars
        <3>7. \A t \in Tabs : UserOf(t) \in Users \cup {None}
            BY <3>4 DEF UserOf, Typed, SessionTypes
        <3>8. \A t \in Tabs : Relied(t)'
            BY <1>1, <1>3, <3>2, <3>4, <3>6, <3>7, RememberedRelied
        <3>9. \A t \in Tabs : wasLive[t] => access[t] \subseteq access'[t]
            BY <3>4, <3>5 DEF Typed, SessionTypes
        <3> QED BY <3>6, <3>8, <3>9
    <2>3. CASE \E k \in Tokens : Expire(k)
        BY <2>1, <2>3 DEF Expire, requestVars, SessionInv, Typed, SessionTypes
    <2>4. CASE UNCHANGED sessionVars
        BY <2>1, <2>4 DEF sessionVars, dbVars, requestVars, SessionInv, Typed, SessionTypes
    <2> QED BY <2>2, <2>3, <2>4
<1>5. ASSUME NEW t \in Tabs
      PROVE  (Place(t) /\ Known(t) /\ FreshIsFresh(t) /\ Superseded(t) /\ Overlap(t))'
    <2>1. Place(t) /\ Known(t) /\ FreshIsFresh(t) /\ Superseded(t) /\ Overlap(t)
        BY DEF SessionInv
    <2>2. Place(t)' /\ Known(t)' /\ FreshIsFresh(t)' /\ Overlap(t)'
        BY <1>1, <1>2, <2>1 DEF Place, Known, FreshIsFresh, Overlap, answerVars
    <2>3. Superseded(t)'
        BY <1>1, <1>2, <2>1 DEF Superseded, Present, answerVars
    <2> QED BY <2>2, <2>3
<1>6. NoStraySession'
    BY <1>1, <1>2 DEF SessionInv, NoStraySession, answerVars
<1>7. AccessIsRecent'
    BY <1>1, <1>4 DEF SessionInv, AccessIsRecent
<1> QED BY <1>4, <1>5, <1>6, <1>7 DEF SessionInv

LEMMA SessionsBegin == ASSUME SessionsAssumption, SessionInit PROVE SessionInv
<1>1. rows = {} /\ Live = {}
    BY DEF SessionInit, rows, Live
<1>2. Typed
    BY DEF SessionInit, Typed, SessionTypes, Kinds, Steps
<1>3. \A t \in Tabs : Place(t) /\ Known(t) /\ FreshIsFresh(t) /\ Relied(t) /\ Superseded(t) /\ Overlap(t)
    BY <1>1 DEF SessionInit, Place, Known, FreshIsFresh, Relied, Superseded, Overlap, UserSteps, ActSteps
<1> QED BY <1>1, <1>2, <1>3 DEF SessionInit, SessionInv, NoStraySession, AccessIsRecent

\* SessionInv holds in every state of Sessions, for any number of browsers, tabs,
\* users, tokens and businesses.
THEOREM SessionsHold == SessionSpec => []SessionInv
<1>1. SessionInit => SessionInv
    BY SessionsBegin, SessionsAssumption
<1>2. SessionInv /\ [SessionNext]_sessionVars => SessionInv'
    BY TabStepKeeps, OutsideKeeps, SessionsAssumption DEF SessionNext, TabStep
<1> QED BY <1>1, <1>2, PTL DEF SessionSpec

\* The variables of Sessions always have their types; with target[t] in
\* businesses (Typed), a session works in a business that exists.
THEOREM SessionsTyped == SessionSpec => []SessionTypes
<1>1. SessionInv => SessionTypes
    BY DEF SessionInv, Typed
<1> QED BY <1>1, SessionsHold, PTL

\* ReplaceSession, CreateUserAndSession and Logout leave no live session that
\* neither a cookie nor an answer on its way holds, but those whose answer was
\* lost or overtaken or whose cookie a failing database has cleared.
THEOREM SessionsEnd == SessionSpec => []NoStraySession
<1>1. SessionInv => NoStraySession
    BY DEF SessionInv
<1> QED BY <1>1, SessionsHold, PTL

\* requireSession and requireBusiness let a request act in a business only if its
\* session was live when it was sent and its user belonged to the business then
\* or at some time since: not who had left before, but who leaves meanwhile may.
THEOREM AccessHolds == SessionSpec => []AccessIsRecent
<1>1. SessionInv => AccessIsRecent
    BY DEF SessionInv
<1> QED BY <1>1, SessionsHold, PTL

\* Only CreateBusiness adds a business, and it updates a session of its creator.
LEMMA BornWithSession ==
    ASSUME SessionInv, SessionsAssumption, [SessionNext]_sessionVars, NEW b \in businesses' \ businesses
    PROVE  \E k \in Tokens : holder'[k] # None /\ active'[k] = b /\ b \in member'[holder'[k]]
<1>1. PICK t \in Tabs : CreateBusiness(t)
    <2>1. ASSUME NEW t \in Tabs, TabStep(t), ~CreateBusiness(t)
          PROVE  businesses' = businesses
        <3>1. CASE Plain(t)
            BY <3>1, PlainAnswered DEF Answered, dbVars
        <3>2. CASE InsertSession(t) \/ Logout(t) \/ LoadFails(t) \/ SetActive(t)
            BY <3>2 DEF InsertSession, Logout, LoadFails, SetActive, dbVars
        <3>3. CASE Onward(t)
            BY <3>3 DEF Onward, Prepare, DeletePrevious, InsertUser, LoadSession, ReadContext, FindMembership, dbVars
        <3>4. CASE Send(t) \/ Deliver(t) \/ Lose(t)
            BY <3>4 DEF Send, Deliver, Lose, EndRequest, dbVars
        <3> QED BY <2>1, <3>1, <3>2, <3>3, <3>4, TabStepIs
    <2> QED BY <2>1 DEF SessionNext, TabStep, Expire, ChangeMember, sessionVars, dbVars
<1>2. PICK x \in Businesses \ businesses :
        /\ businesses' = businesses \cup {x}
        /\ member' = [member EXCEPT ![who[t]] = @ \cup {x}]
        /\ active' = IF sent[t] \in rows THEN [active EXCEPT ![sent[t]] = x] ELSE active
    BY <1>1 DEF CreateBusiness
<1>3. sent[t] \in rows /\ holder' = holder /\ phase[t] = "create"
    BY <1>1 DEF CreateBusiness, SessionThere
<1>4. x = b /\ sent[t] \in Tokens /\ who[t] \in Users /\ holder[sent[t]] = who[t] /\ who[t] # None
    BY <1>2, <1>3 DEF SessionInv, Place, Known, ActSteps, rows
<1>5. active'[sent[t]] = b /\ b \in member'[who[t]]
    BY <1>2, <1>3, <1>4 DEF SessionInv, Typed, SessionTypes
<1> QED BY <1>3, <1>4, <1>5

\* CreateBusiness never commits a business that no session and no member has.
THEOREM BusinessesBorn == SessionSpec => BornActive
<1>1. SessionInv /\ [SessionNext]_sessionVars =>
        [\A b \in businesses' \ businesses :
         \E k \in Tokens : holder'[k] # None /\ active'[k] = b /\ b \in member'[holder'[k]]]_sessionVars
    BY BornWithSession, SessionsAssumption
<1> QED BY <1>1, SessionsHold, PTL DEF SessionSpec, BornActive
=============================================================================
