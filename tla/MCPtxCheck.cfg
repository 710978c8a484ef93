SPECIFICATION MCSpec
CONSTANTS
    c1 = c1
    c2 = c2
    kept = kept
    good = good
    wrong = wrong
    odd = odd
    foreign = foreign
    broken = broken
    right = right
    idle = idle
    torn = torn
    NoProof = NoProof
    NoKeep = NoKeep
    Nothing = Nothing
    Checkers = {c1, c2}
    Kept = {kept}
    Jobs <- JobsOf
    Kernels = {good, wrong, odd, foreign, broken}
    Class <- ClassOf
    Shaped = {good, wrong}
    Correct = {good, odd}
    Found = {wrong, odd}
    Proofs = {right, idle, torn}
    About <- AboutOf
    Compiling = {right, idle}
    Standing = {right}
    MaxFaults = 1
INVARIANT ChecksAreSound
PROPERTY CheckEnds
