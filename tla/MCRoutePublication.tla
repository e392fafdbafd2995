---------------------------- MODULE MCRoutePublication ----------------------------
(* Instance for TLC: two relays that take turns as guard and entry, two           *)
(* interchangeable storage nodes, and the calls an application makes in order.    *)
EXTENDS RoutePublication, TLC
CONSTANTS r1, r2, n1, n2
NodeSymmetry == Permutations(Nodes)
Life(n, c) == [attempts |-> n, calls |-> c]
Lives == { Life(2, <<"listen", "suspend", "resume">>),
           Life(2, <<"listen", "server.suspend", "server.resume">>),
           Life(2, <<"listen", "relay.suspend">>),
           Life(2, <<"listen", "destroy">>),
           Life(3, <<"listen", "restart", "listen">>),
           Life(3, <<"listen", "close">>) }
=============================================================================
