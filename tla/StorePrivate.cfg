\* A user with a private collection is deleted.
CONSTANTS
    Users = {admin, u1}
    Admins = {admin}
    Nobody = Nobody
    Jobs = {j1}
    Importing = {}
    MaxCol = 2
    MaxFolder = 1
    MaxReq = 1
SPECIFICATION Spec
PROPERTY NoPrivateDataLeft
CHECK_DEADLOCK FALSE
