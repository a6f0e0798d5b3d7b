SPECIFICATION Spec
CONSTANTS
    Runs = {r1, r2}
    Handlers = {h1, h2}
    Nets = {n1}
    Addrs = {a1}
    NoRun = NoRun
    NoNet = NoNet
    Person = Person
    Nobody = Nobody
SYMMETRY DeskSymmetry
INVARIANTS
    RunsAreWorked
    LedgerAccounts
