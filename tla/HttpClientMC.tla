---------------------------- MODULE HttpClientMC ----------------------------
(***************************************************************************)
(* Instances of HttpClient for TLC: responses one after the other, each    *)
(* with a body, and what curl logs around them.                            *)
(***************************************************************************)
EXTENDS HttpClient

OneCurl == {curl}

Response(s, names, b) ==
  <<s>> \o names \o <<"blank">> \o [i \in 1..b |-> "body"]

Before == {<<>>, <<"info">>, Response("301", <<"cookie">>, 0), Response("301", <<"date">>, 1),
           Response("100", <<>>, 0)}
Last == {Response(s, h, b) : s \in {"200", "301", "404"}, b \in {0, 1, 3},
                             h \in {<<>>, <<"date", "cookie">>}}
        \cup {Response("200", <<"cookie", "date", "cookie">>, 1)}
After == {<<>>, <<"info">>, <<"info", "info", "info">>}

Transfers ==
  {[does |-> d, exit |-> 0, reads |-> TRUE] :
     d \in {a \o r : a \in Before, r \in Last} \cup {r \o z : r \in Last, z \in After}}
  \cup {[does |-> Response("200", <<"date">>, b), exit |-> 18, reads |-> TRUE] : b \in 0..2}
  \cup {[does |-> <<"info">>, exit |-> 7, reads |-> FALSE],
        [does |-> <<"info", "200", "date">>, exit |-> 56, reads |-> TRUE],
        [does |-> <<"200", "date", "info", "cookie", "blank", "body">>, exit |-> 0, reads |-> TRUE]}
=============================================================================
