SPECIFICATION Spec
CONSTANTS
    q1 = q1
    q2 = q2
    q3 = q3
    q4 = q4
    c1 = c1
    c2 = c2
    Requests = {q1, q2, q3, q4}
    ClientOf <- MCClientOf
    Limits = {0, 1, 2}
    Window = 2
    LastWindow = 2
SYMMETRY ClientSymmetry
INVARIANTS
    LimitKept
    RejectionIsReal
