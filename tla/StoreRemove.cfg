\* An ordinary user deletes a collection of theirs that holds a request.
CONSTANTS
    Users = {admin, u1}
    Admins = {admin}
    Nobody = Nobody
    Jobs = {j1}
    Importing = {}
    MaxCol = 2
    MaxFolder = 1
    MaxReq = 1
SPECIFICATION Spec
PROPERTY OnlyAdminsRemoveRequests
CHECK_DEADLOCK FALSE
