---------------------------- MODULE MCMarketplace ----------------------------
(* A small instance of Marketplace: two threads, one tenant, four requests *)
(* of which one may fail and one find the engine missing; those that race  *)
(* with themselves may come twice.                                         *)
EXTENDS Marketplace, TLC

RequestBudget ==
  [o \in Counted |->
     CASE o = "any" -> 4 [] o \in {"install", "pricing", "version"} -> 2 [] OTHER -> 1]
=============================================================================
