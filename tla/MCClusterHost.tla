--------------------------- MODULE MCClusterHost ---------------------------
(* Small instance of ClusterHost for TLC: the default domain, and names of  *)
(* services and contexts made of its own labels too.                        *)
EXTENDS ClusterHost

DefaultDomain == <<"svc", "cluster", "local">>

SomeLabels == {"a", "", "svc", "cluster", "local"}

SomeContexts == {<<"a">>, <<"local">>, <<"a", "svc">>, DefaultDomain, <<"a">> \o DefaultDomain}

SomeCurrent == <<"a", "svc">>
=============================================================================
