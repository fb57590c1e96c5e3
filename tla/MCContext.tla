----------------------------- MODULE MCContext ------------------------------
(* A small instance of Context for TLC.                                    *)
EXTENDS Context

AllLayers == {"realip", "realipfrom", "requestid", "auth", "ratelimit", "cors",
              "corsfrom", "logger", "copy", "form", "nocache", "secure"}

(* Peers and claims: a proxy or a stranger, naming a client, itself, or    *)
(* garbage before a true address.                                          *)
Claims == {<<"none", "none", "none">>, <<"none", "client", "proxy">>, <<"bad", "client", "none">>,
           <<"none", "none", "proxy">>}

AllIncoming ==
  {[peer |-> p, forwarded |-> f, id |-> n, credential |-> "right",
    preflight |-> FALSE, origin |-> "app"] :
     p \in {"proxy", "stranger"}, f \in Claims, n \in {0, -1}}
  \cup
  {[peer |-> "proxy", forwarded |-> <<"none", "client", "none">>, id |-> 0,
    credential |-> c, preflight |-> b, origin |-> o] :
     c \in {"right", "wrong"}, b \in BOOLEAN, o \in {"app", "other"}}
=============================================================================
