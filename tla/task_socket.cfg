CONSTANTS
    u1 = u1
    u2 = u2
    r1 = r1
    r2 = r2
    v1 = v1
    v2 = v2
    e1 = e1
    s1 = s1
    s2 = s2
    Users = {u1, u2}
    Replicas = {r1, r2}
    Views = {v1, v2}
    Events = {e1}
    Sockets = {s1, s2}
    None = None
SPECIFICATION FairSpec
INVARIANTS TypeOK OneChannel OwnUpdatesOnce NeverSilent
PROPERTIES Delivered
