CONSTANTS
    t1 = t1
    t2 = t2
    t3 = t3
    t4 = t4
    t5 = t5
    Threads <- FiveThreads
    Settings <- FewNodesManyNodes
    done_task = 10
SPECIFICATION Spec
SYMMETRY ThreadsAlike
INVARIANT WorkNeverThrows
CHECK_DEADLOCK FALSE
