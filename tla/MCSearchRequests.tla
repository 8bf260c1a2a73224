-------------------------- MODULE MCSearchRequests ---------------------------
(* The cache with its signals, each type of rule with its cache, and all that  *)
(* a search passes through at once; two calls at a time and one more at rest.  *)
EXTENDS SearchRequests, TLC

D(cached, shared, atomic, rule, kinds) ==
  [cached |-> cached, deferred |-> FALSE, shared |-> shared, atomic |-> atomic, rule |-> rule, retries |-> 2,
   kinds |-> kinds, asks |-> IF rule = "none" THEN {"q1", "q2"} ELSE {"q1"}, parallel |-> 2, sequels |-> 1]

MCDeployments ==
  {[D(TRUE, shared, atomic, "none", {"search", "put", "silent"}) EXCEPT !.deferred = deferred] :
     shared \in BOOLEAN, atomic \in BOOLEAN, deferred \in BOOLEAN}
  \cup {D(FALSE, TRUE, atomic, rule, {"search", "rule", "admin"}) :
          atomic \in BOOLEAN, rule \in {"redirect", "rewrite", "fallback"}}
  \cup {[D(TRUE, TRUE, FALSE, "fallback", {"search", "user", "complete", "put"}) EXCEPT !.sequels = 0]}
  \cup {[D(FALSE, TRUE, TRUE, "fallback", {"search"}) EXCEPT !.asks = {"q1", "q2"}]}
Clients == Permutations(Client)
=============================================================================
