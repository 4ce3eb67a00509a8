---------------------------- MODULE MCHTTPParser ----------------------------
(* Requests for HTTPParser: every method, two paths, no, one or two        *)
(* headers, with and without a body that looks like a header end or like a *)
(* request line, and two whose parts cannot be told apart.                 *)
EXTENDS HTTPParser

MCChar == Letters \cup {"B", "b", "c", "x"}

Req(m, v, h, b) == [method |-> m, path |-> IF h = <<>> /\ b # <<>> THEN <<"/">> ELSE <<"/", "1">>, version |-> v, headers |-> h, body |-> b]
H1 == [key |-> <<"A">>, value |-> <<"b", " ", "c">>]
H2 == [key |-> <<"B", ":">>, value |-> <<>>]
H3 == [key |-> <<"A">>, value |-> <<"b", LF>>]

MCSent ==
  {Req(m, v, <<>>, <<>>) : m \in DOMAIN Spell, v \in DOMAIN HTTP_VERSION_STRINGS}
  \cup {Req("POST", "HTTP_1_1", h, b) : h \in {<<H1>>, <<H1, H2>>}, b \in {<<>>, <<"x", CR, LF, CR, LF>>}}
  \cup {Req("GET", "HTTP_1_1", <<H3>>, <<>>), [Req("GET", "HTTP_1_1", <<>>, <<>>) EXCEPT !.path = <<"2">> \o CRLF \o CRLF]}
  \cup {Req("POST", "HTTP_1_1", <<>>, b) : b \in {<<"x", SP>>, <<SP>> \o HTTP, <<SP>> \o HTTP \o <<"1", "1", ".">>}}
MCReach == {0, 1, 4096}
MCDamage == {SP, CR, LF, ":", "0", "1", "2"}
=============================================================================
