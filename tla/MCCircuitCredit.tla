--------------------------- MODULE MCCircuitCredit ---------------------------
(* Two streams over a two-cell circuit.  Contend: both sources write, and the *)
(* host of one stalls or disappears with what it holds.  Leave: it destroys   *)
(* its stream instead.  Duplex: one stream carries cells both ways and is     *)
(* ended or destroyed at either end.                                          *)
EXTENDS CircuitCredit

CONSTANTS a, b

Cells(sa, sb, da) == [e \in End |-> CASE e = <<"source", a>> -> sa [] e = <<"source", b>> -> sb
                                       [] e = <<"destination", a>> -> da [] OTHER -> 0]
Contend == [budget |-> Cells(2, 1, 0), finish |-> {}, quit |-> {},
            join |-> {a, b}, vanish |-> {b}]
Leave == [Contend EXCEPT !.vanish = {}, !.quit = {<<"source", b>>}]
Duplex == [budget |-> Cells(1, 0, 1), finish |-> {<<"source", a>>, <<"destination", a>>},
           quit |-> {<<"source", a>>, <<"destination", a>>}, join |-> {a}, vanish |-> {}]
Renew == [budget |-> Cells(3, 0, 0), finish |-> {}, quit |-> {}, join |-> {a}, vanish |-> {}]
ContendAndDuplex == {Contend, Leave, Duplex}
RenewOnly == {Renew}
=============================================================================
