---------------------------- MODULE MCConnections -----------------------------
\* Connections with a few peers and requests, for TLC.
EXTENDS Connections

CONSTANTS p1, p2, p3

ThreePeers == {p1, p2, p3}

Sends(kind, header, body, sent) ==
    [kind |-> kind, header |-> header, body |-> body, sent |-> sent]

\* A good request and one unit more; headers that are too long; a body that is
\* cut, or too long; and a Content-Length that is no number.  The other peers
\* take places: one with a route, the other with nothing.
Good   == Sends("plain", 2, 1, 4)
Others == {Sends("stream", 3, 0, 3), Sends("stream", 1, 2, 3),
           Sends("plain", 1, 2, 2), Sends("plain", 1, 3, 4),
           Sends("body", 1, 1, 2), Sends("length", 1, 0, 1)}
SomeOffers == [p \in Peers |-> CASE p = p1 -> {Good} \cup Others
                                 [] p = p2 -> {Sends("route", 1, 0, 1)}
                                 [] p = p3 -> {Sends("plain", 1, 0, 0)}]
=============================================================================
