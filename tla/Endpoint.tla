------------------------------ MODULE Endpoint ------------------------------
(***************************************************************************)
(* What the hosts promise their clients: a socket path leads to at most    *)
(* one running host, and a database is served behind at most one path.     *)
(* Ownership is shown to implement this.                                   *)
(***************************************************************************)
CONSTANTS
    Sockets,    \* socket paths
    Databases,  \* database paths
    Nobody      \* nothing answers

VARIABLE server  \* socket -> the database served behind it, or Nobody

EndpointInit == server = [s \in Sockets |-> Nobody]

\* A host for d begins to answer on s.
Up(s, d) ==
    /\ server[s] = Nobody
    /\ \A other \in Sockets : server[other] # d
    /\ server' = [server EXCEPT ![s] = d]

\* It stops, fails or is killed.
Down(s) ==
    /\ server[s] # Nobody
    /\ server' = [server EXCEPT ![s] = Nobody]

EndpointNext == \E s \in Sockets : Down(s) \/ \E d \in Databases : Up(s, d)

EndpointSpec == EndpointInit /\ [][EndpointNext]_server
=============================================================================
