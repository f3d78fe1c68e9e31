SPECIFICATION Spec
CONSTANTS
    Procs = {p1, p2}
    Identities = {"o1", "o2", "l1", "l2", "w"}
    Persons = {"P1", "P2", "P3"}
    Rules = {"email", "bridge"}
    Upserting = {"email"}
    Matches <- MCMatches
    Settled <- MCSettled
    None = None
INVARIANT NoIdentityStranded
CHECK_DEADLOCK FALSE
