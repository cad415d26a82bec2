\* Two studios, every operation, two requests at a time; the tokens of the
\* user that s1 invites.
SPECIFICATION AccessSpec
CONSTANTS
    s1 = s1  s2 = s2
    u1 = u1  u2 = u2  u3 = u3
    r1 = r1  r2 = r2
    m1 = m1  m2 = m2  m3 = m3  m4 = m4
    Studio = {s1, s2}
    User = {u1, u2, u3}
    Member = {m1, m2, m3, m4}
    Request = {r1, r2}
    Founder <- TwoFounders
    Operation <- MixedOps
    None = None
    Visitor = {u3}
    Name = {n1}
    Earlier = {s2}
    Life = 2
SYMMETRY RequestSymmetry
INVARIANTS
    AtLeastOneOwner
PROPERTIES
    StudiosAreSeparate
    AuthorityWasRecent

