SPECIFICATION LiveGatewaySpec

CONSTANTS
    Users = {u1}
    Clients <- MCClients
    Sessions = {s1}
    Threads = {r1}
    Sockets = {w1, w2}
    Talkers = {w1}
    Casters = {lis, fb}
    Listener = lis
    Groups = {g1}
    MaxMsgs = 1
    Life = 1
    Window = 0
    Grace = 1
    MaxNow = 1
    None = None
    NoKey = NoKey

PROPERTIES
    RevokedSocketsClose
    SilentSocketsClose

VIEW WithoutHistories

CHECK_DEADLOCK FALSE
