CONSTANTS
    Users = {ann, bob}
    NoUser = NoUser
    Tokens = {k1, k2, k3, k4}
    NoToken = NoToken
    NoCookie = NoCookie
    Links = {"home", "account", "login_form"}
    MaxVersion = 1

SPECIFICATION Spec

INVARIANTS
    TypeOK

PROPERTIES
    ActsAsShown
    VisitsEnd
    GetsIn
