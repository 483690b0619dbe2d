--------------------------- MODULE MCAuthentication ---------------------------
(* A small instance of Authentication: two threads, an address that can be *)
(* typed in two ways and one that the views cannot send, three requests of *)
(* which one may fail.                                                     *)
EXTENDS Authentication, TLC

(* normalize_email lowers the domain, the serializers all of it.           *)
LowerDomain == [s \in Spellings |-> CASE s = "bo@X" -> "bo@x" [] OTHER -> s]
LowerCase   == {"al@x", "bo@x"}

RequestBudget ==
  [o \in Ops \cup {"any", "fail"} |->
     CASE o = "any" -> 3 [] o \in {"rotate", "reuse", "register"} -> 2 [] OTHER -> 1]
=============================================================================
