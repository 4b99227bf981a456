\* An admin and an ordinary user; two handlers between their check and their
\* write at once; two collections with two folders and one request.
CONSTANTS
    Users = {admin, u1}
    Admins = {admin}
    Nobody = Nobody
    Jobs = {j1, j2}
    Importing = {u1}
    MaxCol = 2
    MaxFolder = 2
    MaxReq = 1
SPECIFICATION Spec
INVARIANTS StoreInv ImportsStandAlone
PROPERTIES OrdinaryWritesStayHome OwnersKeepSight
SYMMETRY StoreSymmetry
CHECK_DEADLOCK FALSE
