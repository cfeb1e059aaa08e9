SPECIFICATION Spec
CONSTANTS
    q1 = q1
    q2 = q2
    q3 = q3
    q4 = q4
    k1 = k1
    b1 = b1
    b2 = b2
    None = None
    NoKey = NoKey
    Requests = {q1, q2}
    Keys = {k1}
    Bodies = {b1, b2}
    KeyOf <- OneKeyOf
    BodyOf <- SameBodyOf
    KeysExpire = TRUE
    RedisMayFail = FALSE
INVARIANTS
    NoFalseConflict
