CONSTANTS
    p1 = p1
    p2 = p2
    p3 = p3
    NoSession = NoSession
    Peers <- MCPeers
    Visible <- MCVisible
    Starters <- MCStarters
    MaxConnects <- MCMaxConnects
SPECIFICATION Spec
INVARIANTS
    RolesAgree
PROPERTIES
    ConnectionIsFinal
    HandlersReturn
CHECK_DEADLOCK FALSE
