------------------------------- MODULE MCCoap -------------------------------
(***************************************************************************)
(* Three clients, two of them on one host, for a table of two observers.   *)
(* Some requests are cut short, too long, or no requests; some have as     *)
(* many options as there may be, or as leave just enough of the buffer for *)
(* the answer.                                                             *)
(***************************************************************************)
EXTENDS Coap

MCClients == {[addr |-> "a", port |-> 61616], [addr |-> "a", port |-> 61617],
              [addr |-> "b", port |-> 61616]}

Segments(url) == [i \in DOMAIN url |-> [n |-> Uri_Path, value |-> Value(4, url[i])]]
WithToken  == <<[n |-> Token, value |-> Value(8, "token")]>>
WithObserve == <<[n |-> Observe, value |-> Nothing]>>
Long       == <<[n |-> Uri_Path, value |-> Value(20, "long")],
                [n |-> Uri_Path, value |-> Value(12, "long")]>>
Queries(n) == [i \in 1 .. n |-> [n |-> 15, value |-> Nothing]]

(* The clients are not this code: their differences are right.             *)
Wire(type, code, opts) ==
  [type |-> type, code |-> code, tid |-> 7, payload |-> Nothing, cut |-> FALSE,
   options |-> [i \in DOMAIN opts |->
     [delta |-> opts[i].n - (IF i = 1 THEN 0 ELSE opts[i - 1].n), value |-> opts[i].value]]]

MCRequests ==
  {Wire(q[1], GET, Segments(Observable) \o q[2]) :
     q \in {<<"CON", WithObserve \o WithToken>>, <<"CON", WithObserve>>, <<"CON", <<>> >>,
            <<"NON", WithToken>>, <<"ACK", WithObserve>>}}
  \cup {Wire("NON", GET, Segments(url) \o WithToken) : url \in {<<"hi">>, <<".well-known", "core">>}}
  \cup {Wire("CON", GET, Segments(<<".well-known", "core">>) \o WithToken \o Queries(n)) : n \in {7, 9}}
  \cup {Wire("CON", GET, Segments(<<"hi">>) \o WithToken \o Queries(13)),
        Wire("CON", GET, Segments(Observable) \o WithObserve \o WithToken \o Queries(12))}
  \cup {Wire("CON", GET, Segments(<<"none">>) \o WithToken), Wire("CON", POST, Segments(Observable)),
        Wire("CON", GET, Long), Wire("RST", 0, <<>>)}
  \cup {[Wire("NON", GET, Segments(Observable) \o WithObserve) EXCEPT !.cut = TRUE]}

MCTag  == Value(49, "tag")
MCJunk == {Value(0, "nothing"), Value(5, "junk")}
=============================================================================
