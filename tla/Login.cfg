SPECIFICATION FairSpec
CONSTANTS
    Sessions = {1, 2}
    Argvs <- MCArgvs
    Users = {"ann", "huge", "nobody"}
    Passwd <- MCPasswd
    PeerUid <- MCPeerUid
    Fds = {0, 1}
    BadPaths = {""}
    DEFAULT_SOCKET_PATH = "ola.sock"
    DEFAULT_METHOD = "fido2"
    DEFAULT_TIMEOUT = 1
    MIN_TIMEOUT = 1
    MAX_TIMEOUT = 1
    ValidMethods = {"fido2", "otp"}
    PASSWD_BUF = 1
    MAX_PASSWD_BUF = 3
    PROTOCOL_VERSION = 1
    Nil = Nil
    Calls = {1, 2}
    AdapterKey = "key"
    AdapterMethod = "fido2"
    Confidence = 1
    None = None
    SocketPath = "ola.sock"
    AdapterName = "demo"
    Keys <- MCKeys
INVARIANTS TypeOK HoldsOwnFd ReturnsWhatIsRecorded 
PROPERTIES CallReturns AdapterServes
