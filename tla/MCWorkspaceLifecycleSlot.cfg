SPECIFICATION Spec
CONSTANTS
    c1 = c1
    c2 = c2
    Creates = {c1, c2}
    NoSandbox = NoSandbox
    Attaches = {a1}
    Terminations = {t1}
    Governors = {g1}
    Loops = {l1}
    Overlap = TRUE
    MaxFaults = 0
SYMMETRY CreateSymmetry
INVARIANT SandboxHasSlot
