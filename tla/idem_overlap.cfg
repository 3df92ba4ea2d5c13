SPECIFICATION Spec
CONSTANTS
    pay = pay
    repay = repay
    checkout = checkout
    k1 = k1
    k2 = k2
    b1 = b1
    b2 = b2
    Intents <- MCIntents
    Keys = {k1, k2}
    Bodies = {b1, b2}
    KeyOf <- MCKeyOf
    BodyOf <- MCBodyOf
    Attempts = {a1, a2, a3}
    NoIntent = NoIntent
    NoAttempt = NoAttempt
    NoRecord = NoRecord
    Failures = {}
INVARIANT
    OtherPayloadConflicts
CHECK_DEADLOCK FALSE
