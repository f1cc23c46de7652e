SPECIFICATION AccountsSpec
CONSTANTS
    admin = admin
    alice = alice
    Names <- MCNames
    AdminName = admin
    NoName = NoName
    Tokens = {t1, t2}
    MaxIds = 3
SYMMETRY Symmetry
INVARIANTS
    SessionsApproved
    NobodyMissing
PROPERTIES
    LastAdminGoesHimself
CHECK_DEADLOCK FALSE
