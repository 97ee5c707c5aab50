CONSTANTS
    k1 = k1  k2 = k2  k3 = k3  k4 = k4
    c1 = c1  c2 = c2  c3 = c3
    Cnx = {k1, k2, k3, k4}
    Cursors = {c1, c2, c3}
    Dbs = {"db", "template0"}
    Templates = {"template0"}
    MaxConn = 2
    None = None
SPECIFICATION Spec
INVARIANT WithBlockCloses
