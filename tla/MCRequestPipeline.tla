--------------------------- MODULE MCRequestPipeline ---------------------------
(* A small instance of RequestPipeline: two threads, two requests (on one  *)
(* thread, or at once), two tenants, one of them with a domain of its own. *)
EXTENDS RequestPipeline, TLC

CodeOf   == [x \in Tenants |-> CASE x = "acme" -> "acme" [] OTHER -> "bolt"]
DomainOf == [x \in Tenants |-> CASE x = "acme" -> "acme" [] OTHER -> "bolt.org"]

Kinds == {<<"acme", "row", "ann">>, <<"acme", "all", "bob">>, <<"default", "auth", "ann">>,
          <<"bolt.org", "platform", "bob">>, <<"default", "platform", "ann">>,
          <<"default", "tenant", "ann">>}
Switched == {<<"acme", "ARCHIVED">>}

Permissions == {<<"ann", "acme">>, <<"bob", "bolt">>}
=============================================================================
