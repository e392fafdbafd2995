------------------------------ MODULE MCHolepunch ------------------------------
(* A client and a server behind NATs of several kinds.                     *)
EXTENDS Holepunch

\* What five samples of a socket show: <<host, port>>.
Steady == <<<<1, 1>>, <<1, 1>>, <<1, 1>>, <<1, 1>>, <<1, 1>>>>
Wild == <<<<1, 1>>, <<1, 2>>, <<1, 3>>, <<1, 4>>, <<1, 5>>>>
\* Random at first sight, consistent after the fifth sample.
Settling == <<<<1, 1>>, <<1, 2>>, <<1, 3>>, <<1, 3>>, <<1, 3>>>>
\* Two addresses, each steady.
Twin == <<<<1, 1>>, <<2, 1>>, <<1, 1>>, <<2, 1>>, <<1, 1>>>>

Plan(client, server, relay, faults, losses, others) ==
    [nat |-> [s \in Side |-> IF s = "client" THEN client ELSE server],
     losses |-> losses, others |-> [s \in Side |-> others], relay |-> relay, trusted |-> TRUE,
     faults |-> faults]

Kinds == {Steady, Wild, Settling, Twin}

MCPlans ==
    \* every pair of NATs, undisturbed but for what the network duplicates
    {Plan(<<a, Wild, Steady>>, <<b, Wild, Steady>>, FALSE, FALSE, 0, 0) : a, b \in Kinds}
    \* ... beside other attempts, so that one of the two is told to try later
    \cup {Plan(<<Steady, Steady, Steady>>, <<Wild, Wild, Wild>>, TRUE, FALSE, 0, 1),
          Plan(<<Wild, Wild, Wild>>, <<Steady, Steady, Steady>>, TRUE, FALSE, 0, 1),
          Plan(<<Wild, Wild, Wild>>, <<Steady, Steady, Steady>>, FALSE, FALSE, 0, 1)}
    \* ... with requests that fail, hooks that refuse, streams and sockets that come and go
    \cup {Plan(<<a, Wild, Steady>>, <<b, Steady, Wild>>, r, TRUE, 0, 0) : a, b \in {Steady, Wild}, r \in BOOLEAN}
    \* ... with pings lost, and through a relay that is none of the server's
    \cup {Plan(<<Steady, Steady, Steady>>, <<Steady, Steady, Steady>>, FALSE, FALSE, 2, 0),
          Plan(<<Wild, Steady, Steady>>, <<Steady, Wild, Steady>>, FALSE, FALSE, 2, 0),
          [Plan(<<Settling, Steady, Steady>>, <<Steady, Steady, Steady>>, FALSE, FALSE, 0, 0) EXCEPT !.trusted = FALSE]}
=============================================================================
