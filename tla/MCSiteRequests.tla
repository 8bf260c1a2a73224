--------------------------- MODULE MCSiteRequests ----------------------------
(* The tenants in each place of the transaction, then the files with calls     *)
(* that change them, then with calls that record and clean up 404s; two calls  *)
(* at a time and one more at rest.                                             *)
EXTENDS SiteRequests

Context(txn, rls, strict, required, kinds) ==
  [txn |-> txn, rls |-> rls, strict |-> strict, required |-> required, caching |-> TRUE,
   redirects |-> FALSE, files |-> {}, kinds |-> kinds, start |-> 0, parallel |-> 2, sequels |-> 1]
Files(txn, start, files, kinds) ==
  [txn |-> txn, rls |-> FALSE, strict |-> TRUE, required |-> TRUE, caching |-> FALSE,
   redirects |-> files \cap {"redirects", "llms"} # {}, files |-> files,
   kinds |-> kinds, start |-> start, parallel |-> 2, sequels |-> 1]

MCDeployments ==
  {Context(txn, rls, TRUE, TRUE, {"page", "deprovision"}) : txn \in {"wrap", "view", "none"}, rls \in BOOLEAN}
  \cup {Context("wrap", rls, strict, FALSE, {"page", "task", "command", "save_tenant", "admin_tenant", "update_tenant",
                                      "deprovision"}) :
          rls \in BOOLEAN, strict \in BOOLEAN}
  \cup {Files(txn, 1, files, {"file", "missing", "add", "admin", "remove", "move", "admin_move", "set", "import"}) :
          txn \in {"wrap", "none"}, files \in {{"redirects"}, {"ads", "app_ads"}, {"llms", "security"}}}
  \cup {Files(txn, start, files, {"file", "missing", "logs"}) :
          txn \in {"wrap", "view", "none"}, start \in {0, 1}, files \in {{"redirects"}, {"llms"}}}
  \cup {[Files(txn, 1, {"redirects"}, {"missing", "deprovision"}) EXCEPT !.required = FALSE] :
          txn \in {"wrap", "none"}}
Clients == Permutations(Client)
=============================================================================
