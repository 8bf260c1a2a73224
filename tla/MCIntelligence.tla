--------------------------- MODULE MCIntelligence ----------------------------
(* Commands that learn rewrites, with tenants that find different things; one  *)
(* that learns while the documents change and an editor works; the roll-up of  *)
(* clicks; the reports over one day and over two.                              *)
EXTENDS Intelligence

Often(list) == [k \in EventKind |-> IF k \in DOMAIN list THEN list[k] ELSE 0]
(* Queries 1 and 3 are almost alike, 2 and 3 as much or less, 1 and 2 not.     *)
Alikes(second) == [p \in Pair |-> CASE p = {1, 3} -> 2 [] p = {2, 3} -> second [] OTHER -> 0]
Finding(a, b) == [t \in Tenant |-> IF t = "" THEN a ELSE b]
D(queries, second, threshold, days, finds, list) ==
  [queries |-> queries, alike |-> Alikes(second), threshold |-> threshold, days |-> days,
   finds |-> finds, times |-> Often(list)]

MCDeployments ==
  {D({1, 2, 3}, 2, 2, 1, {Finding({1, 2}, {}), Finding({1}, {3}), Finding({2}, {2, 3})}, [search |-> 3, learn |-> 2]),
   D({1, 3}, 1, 2, 1, {Finding(a, b) : a \in {{}, {1}}, b \in SUBSET {1, 3}},
     [search |-> 4, change |-> 1, learn |-> 2, admin |-> 1]),
   D({1, 3}, 1, 2, 1, {Finding({1, 3}, {3})}, [search |-> 2, filtered |-> 2, change |-> 1, learn |-> 1]),
   D({1}, 1, 2, 1, {Finding({1}, {})}, [click |-> 3, roll |-> 3, day |-> 1, kill |-> 1]),
   D({1}, 1, 2, 1, {Finding({1}, {})}, [click |-> 1, roll |-> 1, day |-> 1, search |-> 2, report |-> 1])}
  \cup {D({1, 2, 3}, 1, threshold, days, {Finding({1}, {})},
          [search |-> IF days = 2 THEN 3 ELSE 2, report |-> 1, day |-> 3 - days, clear |-> 2 - days]) :
            threshold \in 1..2, days \in 1..2}
Commands == Permutations(Command)
=============================================================================
