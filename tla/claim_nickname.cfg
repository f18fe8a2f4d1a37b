SPECIFICATION Spec
CONSTANTS
    a = a
    A = A
    b = b
    Email = {a, A, b}
    Lower <- LowerCase
    Nickname = {n1, n2}
    Country = {c1}
    Password = {p1}
    Empty = Empty
    NotGiven = NotGiven
    None = None
    r1 = r1
    r2 = r2
    Request = {r1, r2}
    Ops <- Asks
    DefaultPageSize = 1
    MaxPageSize = 2
    PageArgs <- Pages
    MaxCommits = 4
SYMMETRY Symmetries
INVARIANTS
    NicknamesUnique
