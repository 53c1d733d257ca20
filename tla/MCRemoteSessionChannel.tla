--------------------------- MODULE MCRemoteSessionChannel ---------------------------
EXTENDS RemoteSessionChannel, TLC

CONSTANTS p1, p2, p3

MCPeers == {p1, p2, p3}

\* p1 and p2 can connect to one another, and p3 can come between; each tries once.
\* p1 and p3 are ready to connect from the beginning; p2, whom both ask, is not.
MCVisible == (p1 :> {p2}) @@ (p2 :> {p1}) @@ (p3 :> {p2})
MCStarters == {p2}
MCMaxConnects == [p \in MCPeers |-> 1]
=====================================================================================
